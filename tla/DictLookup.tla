----------------------------- MODULE DictLookup -----------------------------
(***************************************************************************)
(* internal/dict: concurrent Lookup calls on one Dict, and what callers do *)
(* to the entries they get.                                                *)
(*                                                                         *)
(* Slices are shared memory: memory maps an address to the elements of the *)
(* array there, and an entry holds addresses.  The array of an entry's     *)
(* alternates holds the addresses of theirs.  Lookup is modelled with one  *)
(* step per array it makes, interleaved with the steps of other callers.   *)
(***************************************************************************)
EXTENDS Slices

CONSTANTS
  Callers,     \* goroutines that share the Dict
  Words,       \* the words they look up
  KeyOf,       \* strings.ToLower, which makes a word the key it is looked up by
  Arrays,      \* the memory Load leaves: a sequence of arrays
  Dictionary,  \* key -> [canonical, alternates], addresses in Arrays, Nil for
               \* the canonical phones of a key that has none
  Nil,
  Junk,        \* what callers write over the phones of an entry
  MaxLookups   \* bound on the calls of all callers together

ASSUME LookupsAssumption == MaxLookups \in Nat
ASSUME NilAssumption == Nil \notin Nat

\* Load leaves arrays, and an entry leads to some of them.
ASSUME ArraysAssumption ==
  /\ IsSequence(Arrays) /\ \A a \in DOMAIN Arrays : IsSequence(Arrays[a])
  /\ \A k \in DOMAIN Dictionary : Dictionary[k].canonical # Nil =>
       /\ Dictionary[k].canonical \in DOMAIN Arrays
       /\ Dictionary[k].alternates \in DOMAIN Arrays
       /\ \A j \in DOMAIN Arrays[Dictionary[k].alternates] :
            Arrays[Dictionary[k].alternates][j] \in DOMAIN Arrays

VARIABLES
  memory,  \* address -> the elements of the array
  pc,      \* caller -> "idle", "canonical", "make", "alternates" or "holds"
  key,     \* caller -> the key of its last Lookup that was a hit
  held,    \* caller -> the entry it holds or is being given
  next,    \* caller -> the alternate to be copied next
  calls    \* the calls made so far

vars == <<memory, pc, key, held, next, calls>>

noEntry == [canonical |-> Nil, alternates |-> Nil]

Init ==
  /\ memory = Arrays
  /\ pc = [c \in Callers |-> "idle"]
  /\ key = [c \in Callers |-> Nil]
  /\ held = [c \in Callers |-> noEntry]
  /\ next = [c \in Callers |-> 1]
  /\ calls = 0

Found(k) == k \in DOMAIN Dictionary /\ Dictionary[k].canonical # Nil

Allocate(array) == memory' = Append(memory, array)

New == Len(memory) + 1

-----------------------------------------------------------------------------
\* Lookup

\* A caller asks again and drops the entry it holds.
LookupHit(c) ==
  /\ pc[c] \in {"idle", "holds"} /\ calls < MaxLookups
  /\ \E word \in Words :
       /\ Found(KeyOf[word])
       /\ key' = [key EXCEPT ![c] = KeyOf[word]]
  /\ pc' = [pc EXCEPT ![c] = "canonical"]
  /\ held' = [held EXCEPT ![c] = noEntry]
  /\ calls' = calls + 1
  /\ UNCHANGED <<memory, next>>

\* Fault: a miss leaves the caller with the entry of its last hit.
AfterMiss_KeepsEntry(c) == held[c]

AfterMiss(c) == noEntry

LookupMiss(c) ==
  /\ pc[c] \in {"idle", "holds"} /\ calls < MaxLookups
  /\ \E word \in Words : ~Found(KeyOf[word])
  /\ pc' = [pc EXCEPT ![c] = "idle"]
  /\ held' = [held EXCEPT ![c] = AfterMiss(c)]
  /\ calls' = calls + 1
  /\ UNCHANGED <<memory, key, next>>

CopyCanonical(c) ==
  /\ pc[c] = "canonical"
  /\ Allocate(memory[Dictionary[key[c]].canonical])
  /\ held' = [held EXCEPT ![c].canonical = New]
  /\ pc' = [pc EXCEPT ![c] = "make"]
  /\ UNCHANGED <<key, next, calls>>

\* Fault: the array of the alternates is the dictionary's own.
Made_Shared(c) == Dictionary[key[c]].alternates

Made(c) == New

MakeAlternates(c) ==
  /\ pc[c] = "make"
  /\ Allocate([j \in DOMAIN memory[Dictionary[key[c]].alternates] |-> Nil])
  /\ held' = [held EXCEPT ![c].alternates = Made(c)]
  /\ next' = [next EXCEPT ![c] = 1]
  /\ pc' = [pc EXCEPT ![c] = "alternates"]
  /\ UNCHANGED <<key, calls>>

\* Fault: the alternate itself is not copied.
CopyOf_Shallow(a) == a

CopyOf(a) == New

CopyAlternate(c) ==
  LET alternates == memory[Dictionary[key[c]].alternates]
  IN  /\ pc[c] = "alternates"
      /\ next[c] \in DOMAIN alternates
      /\ memory' = Append([memory EXCEPT ![held[c].alternates][next[c]] = CopyOf(alternates[next[c]])],
                          memory[alternates[next[c]]])
      /\ next' = [next EXCEPT ![c] = @ + 1]
      /\ UNCHANGED <<pc, key, held, calls>>

\* Faults: the last alternate is forgotten; the end of the loop is missed.
AllCopied_Early(c) == next[c] >= Len(memory[Dictionary[key[c]].alternates])
AllCopied_Exactly(c) == next[c] = Len(memory[Dictionary[key[c]].alternates])

AllCopied(c) == next[c] > Len(memory[Dictionary[key[c]].alternates])

Return(c) ==
  /\ pc[c] = "alternates" /\ AllCopied(c)
  /\ pc' = [pc EXCEPT ![c] = "holds"]
  /\ UNCHANGED <<memory, key, held, next, calls>>

LookupStep(c) == CopyCanonical(c) \/ MakeAlternates(c) \/ CopyAlternate(c) \/ Return(c)

-----------------------------------------------------------------------------
\* The caller overwrites an element of an array it can reach from its entry.

Alternates(e) == {memory[e.alternates][j] : j \in DOMAIN memory[e.alternates]} \ {Nil}

Reach(e) ==
  ({e.canonical, e.alternates} \ {Nil})
    \cup (IF e.alternates = Nil THEN {} ELSE Alternates(e))

WritePhone(c) ==
  /\ pc[c] = "holds"
  /\ \E a \in Reach(held[c]) \ {held[c].alternates} : \E j \in DOMAIN memory[a] :
       memory' = [memory EXCEPT ![a][j] = Junk]
  /\ UNCHANGED <<pc, key, held, next, calls>>

DropAlternate(c) ==
  /\ pc[c] = "holds"
  /\ \E j \in DOMAIN memory[held[c].alternates] :
       memory' = [memory EXCEPT ![held[c].alternates][j] = Nil]
  /\ UNCHANGED <<pc, key, held, next, calls>>

Next ==
  \E c \in Callers :
    \/ LookupHit(c) \/ LookupMiss(c) \/ LookupStep(c)
    \/ WritePhone(c) \/ DropAlternate(c)

\* The scheduler runs every goroutine that is inside Lookup.
Spec == Init /\ [][Next]_vars /\ \A c \in Callers : WF_vars(LookupStep(c))

-----------------------------------------------------------------------------
(***************************************************************************)
(* Properties                                                              *)
(***************************************************************************)

\* The phones an entry leads to in the memory mem.
Contents(mem, e) ==
  [ canonical  |-> mem[e.canonical],
    alternates |-> [j \in DOMAIN mem[e.alternates] |->
                      IF mem[e.alternates][j] = Nil THEN Nil
                      ELSE mem[mem[e.alternates][j]]] ]

\* Entries hold addresses of memory; a caller holds a whole entry or, while
\* Lookup runs, a part of one.
TypeOK ==
  /\ \A c \in Callers :
       /\ pc[c] \in {"idle", "canonical", "make", "alternates", "holds"}
       /\ pc[c] \in {"idle", "canonical"} <=> held[c] = noEntry
       /\ pc[c] # "idle" => Found(key[c])
       /\ Reach(held[c]) \subseteq DOMAIN memory
  /\ Len(memory) >= Len(Arrays)
  /\ calls \in 0 .. MaxLookups

\* Whatever callers write, the dictionary stays what Load made it: "caller
\* cannot mutate internal backing arrays" (dict.go:125-126).
DictionaryImmutable == \A a \in DOMAIN Arrays : memory[a] = Arrays[a]

\* Lookup gives its caller the entry in full, as it was loaded, even if another
\* caller overwrites an entry for the same key meanwhile.
LookupReturnsEntry ==
  [][\A c \in Callers : pc[c] = "alternates" /\ pc'[c] = "holds" =>
       Contents(memory', held'[c]) = Contents(Arrays, Dictionary[key[c]])]_vars

\* No two callers can reach the same array.
EntriesAreDisjoint ==
  \A c, d \in Callers : c # d => Reach(held[c]) \cap Reach(held[d]) = {}

\* A caller inside Lookup comes out with an entry.
LookupReturns == \A c \in Callers : pc[c] = "canonical" ~> pc[c] = "holds"
=============================================================================
