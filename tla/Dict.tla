-------------------------------- MODULE Dict --------------------------------
(***************************************************************************)
(* A Dict from the first line of its data to its last Lookup: Load runs    *)
(* alone, and what it leaves is then shared by the goroutines.             *)
(*                                                                         *)
(* Load builds entries, which hold phones; Lookup reads slices, which hold *)
(* addresses.  Arrays and Dictionary lay out one dictionary in memory, and *)
(* lookups begin where a load has ended with the entries of that one.      *)
(***************************************************************************)
EXTENDS DictLoad, DictLookup

CONSTANT Shared  \* bound on the files whose dictionary is looked up

dictVars == <<loadVars, vars>>

\* The entries of the dictionary that lies in memory; a nil slice has no phones.
Stored ==
  [k \in DOMAIN Dictionary |->
     LET e == Dictionary[k]
     IN  [ canonical  |-> IF e.canonical = Nil THEN <<>> ELSE Arrays[e.canonical],
           alternates |-> [j \in DOMAIN Arrays[e.alternates] |->
                             Arrays[Arrays[e.alternates][j]]] ]]

DictInit == LoadInit /\ Init

Load == LoadStep /\ UNCHANGED vars

Loaded == phase = "done" /\ file \in Shared /\ entries = Stored

\* Lookup reads no variable of Load: the Dict has nothing but its entries.
Use == Loaded /\ Next /\ UNCHANGED loadVars

\* Another dictionary, or one that nobody asks any more.
Rest == Returned /\ UNCHANGED vars

DictNext == Load \/ Use \/ Rest

\* The scheduler runs every goroutine that is inside Lookup.
DictSpec ==
  /\ DictInit /\ [][DictNext]_dictVars
  /\ \A c \in Callers : WF_dictVars(Loaded /\ LookupStep(c) /\ UNCHANGED loadVars)
=============================================================================
