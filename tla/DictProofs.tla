----------------------------- MODULE DictProofs -----------------------------
(***************************************************************************)
(* Proofs about the dictionary: Load, for any data and any order of the    *)
(* pending map, and Lookup, for any dictionary and any number of           *)
(* goroutines and calls.                                                   *)
(***************************************************************************)
EXTENDS Dict, SequenceTheorems, FiniteSetTheorems, TLAPS

(***************************************************************************)
(* Load                                                                    *)
(***************************************************************************)

Plain(m) == Usable(file[m]) /\ file[m].fields[1].suffix = NoSuffix

\* The lines the loop has passed.
Seen == {m \in DOMAIN file : m < n}

\* p is what the lines seen say of w: the phones of the last unnumbered one,
\* or nothing.
Describes(p, w) ==
  IF \E m \in Seen : Plain(m) /\ LineKey(file[m]) = w
    THEN \E m \in Seen :
           /\ Plain(m) /\ LineKey(file[m]) = w
           /\ \A l \in Seen : Plain(l) /\ LineKey(file[l]) = w => l <= m
           /\ p.canonical = Phones(file[m])
    ELSE p.canonical = <<>>

LoadInv ==
  /\ file \in Files /\ n \in Nat \ {0}
  /\ phase \in {"parse", "build", "done"}
  /\ DOMAIN pending = {LineKey(file[m]) : m \in {l \in Seen : Usable(file[l])}}
  /\ \A w \in DOMAIN pending : Describes(pending[w], w)
  /\ DOMAIN entries \subseteq DOMAIN pending
  /\ \A w \in DOMAIN entries : entries[w].canonical = pending[w].canonical
  /\ phase = "parse" => entries = Empty
  /\ phase \in {"build", "done"} => n > Len(file)
  /\ phase = "done" => DOMAIN entries = DOMAIN pending

-----------------------------------------------------------------------------

\* What the loop sees when it moves on.
LEMMA NextSeen ==
  ASSUME LoadInv, n <= Len(file)
  PROVE  n \in DOMAIN file /\ n \notin Seen /\ \A m \in DOMAIN file : m < n + 1 <=> m \in Seen \/ m = n
<1>1. DOMAIN file = 1 .. Len(file) /\ Len(file) \in Nat
  BY FilesAssumption DEF LoadInv, IsSequence
<1> QED
  BY <1>1 DEF LoadInv, Seen

\* A usable line has phones, and is unnumbered exactly if it has no suffix.
LEMMA UsableLine ==
  ASSUME LoadInv, NEW m \in DOMAIN file, Usable(file[m])
  PROVE  /\ Phones(file[m]) # <<>>
         /\ Variant(file[m].fields[1]) = 0 <=> Plain(m)
         /\ Variant(file[m].fields[1]) > 0 => ~Plain(m)
<1> DEFINE fields == file[m].fields
<1>1. IsSequence(fields) /\ Len(fields) >= 2
  BY FilesAssumption DEF LoadInv, Usable
<1>2. Phones(file[m]) # <<>>
  <2>1. fields \in Seq({fields[j] : j \in 1 .. Len(fields)})
    BY <1>1 DEF IsSequence
  <2>2. Len(Tail(fields)) = Len(fields) - 1
    BY <1>1, <2>1
  <2>3. Len(Tail(fields)) # 0 /\ Len(<<>>) = 0
    BY <1>1, <2>2 DEF IsSequence
  <2> QED
    BY <2>3, Zenon DEF Phones
<1>3. Variant(file[m].fields[1]) = 0 <=> Plain(m)
  <2>1. 0 < 1
    OBVIOUS
  <2> QED
    BY <2>1, Zenon DEF Usable, Malformed, Variant, Plain
<1>4. Plain(m) => Variant(file[m].fields[1]) = 0
  BY <1>3
<1> QED
  BY <1>2, <1>3, <1>4

LEMMA LoadInitInv == LoadInit => LoadInv
<1> SUFFICES ASSUME LoadInit PROVE LoadInv
  OBVIOUS
<1>1. Seen = {}
  <2>1. DOMAIN file = 1 .. Len(file)
    BY FilesAssumption DEF LoadInit, IsSequence
  <2> QED
    BY <2>1 DEF LoadInit, Seen
<1> QED
  BY <1>1 DEF LoadInit, LoadInv, Empty

\* A line that says nothing of w leaves its description as it is.
LEMMA OtherLine ==
  ASSUME LoadInv, n <= Len(file), file' = file, n' = n + 1,
         NEW w, ~(Plain(n) /\ LineKey(file[n]) = w),
         NEW p, Describes(p, w)
  PROVE  Describes(p, w)'
<1>1. Seen' = Seen \cup {n} /\ n \notin Seen
  BY NextSeen DEF Seen
<1>2. \A m \in DOMAIN file : Plain(m)' <=> Plain(m)
  BY DEF Plain
<1>3. \A m \in Seen' : Plain(m) /\ LineKey(file[m]) = w => m \in Seen
  BY <1>1
<1> QED
  BY <1>1, <1>2, <1>3 DEF Describes, Plain

\* A plain line is what describes its w from then on.
LEMMA PlainLine ==
  ASSUME LoadInv, n <= Len(file), file' = file, n' = n + 1, Plain(n),
         NEW w, w = LineKey(file[n]),
         NEW p, p.canonical = Phones(file[n])
  PROVE  Describes(p, w)'
<1>1. PICK i : i = n
  OBVIOUS
<1>2. i \in Seen' /\ \A l \in Seen' : l <= i
  <2>1. n \in DOMAIN file /\ Seen' = Seen \cup {n}
    BY NextSeen DEF Seen
  <2> QED
    BY <1>1, <2>1, FilesAssumption DEF Seen, LoadInv, IsSequence
<1>3. Plain(i)' /\ LineKey(file'[i]) = w /\ p.canonical = Phones(file'[i])
  BY <1>1 DEF Plain
<1> QED
  BY <1>2, <1>3 DEF Describes

LEMMA SkipLineInv == ASSUME LoadInv, SkipLine PROVE LoadInv'
<1>1. /\ n <= Len(file) /\ file' = file /\ n' = n + 1 /\ phase' = phase /\ phase = "parse"
      /\ pending' = pending /\ entries' = entries /\ ~Usable(file[n])
  BY DEF SkipLine, NextLine
<1>2. {l \in Seen' : Usable(file[l])} = {l \in Seen : Usable(file[l])}
  BY <1>1, NextSeen DEF Seen
<1>3. \A w \in DOMAIN pending : Describes(pending[w], w)'
  BY <1>1, OtherLine DEF LoadInv, Plain
<1> QED
  BY <1>1, <1>2, <1>3 DEF LoadInv

\* A line that is put on record changes the description of its w only.
LEMMA ParseInv ==
  ASSUME LoadInv, ParseCanonical \/ ParseAlternate
  PROVE  LoadInv'
<1> PICK w : w = LineKey(file[n])
  OBVIOUS
<1>1. /\ phase = "parse" /\ n <= Len(file) /\ Usable(file[n])
      /\ file' = file /\ n' = n + 1 /\ phase' = phase /\ entries' = entries
  BY DEF ParseCanonical, ParseAlternate, NextLine
<1>2. n \in DOMAIN file /\ Seen' = Seen \cup {n}
  BY <1>1, NextSeen DEF Seen
<1>3. PICK p : /\ pending' = Put(pending, w, p)
               /\ IF Plain(n) THEN p.canonical = Phones(file[n])
                              ELSE p.canonical = PendingFor(w).canonical
  <2> DEFINE vp == [variant |-> Variant(file[n].fields[1]), phones |-> Phones(file[n])]
             c  == [PendingFor(w) EXCEPT !.canonical = Phones(file[n]), !.hasCanonical = TRUE]
             a  == [PendingFor(w) EXCEPT !.alternates = Append(@, vp)]
  <2>1. CASE ParseCanonical
    <3>1. Plain(n) /\ pending' = Put(pending, w, c)
      BY <1>1, <1>2, <2>1, UsableLine DEF ParseCanonical
    <3>2. c.canonical = Phones(file[n])
      BY DEF PendingFor, noPronunciation
    <3> QED
      BY <3>1, <3>2
  <2>2. CASE ParseAlternate
    <3>1. ~Plain(n) /\ pending' = Put(pending, w, a)
      BY <1>1, <1>2, <2>2, UsableLine DEF ParseAlternate
    <3>2. a.canonical = PendingFor(w).canonical
      BY DEF PendingFor, noPronunciation
    <3> QED
      BY <3>1, <3>2
  <2> QED
    BY <2>1, <2>2
<1>4. /\ DOMAIN pending' = DOMAIN pending \cup {w}
      /\ pending'[w] = p
      /\ \A k \in DOMAIN pending \ {w} : pending'[k] = pending[k]
  BY <1>3 DEF Put
<1>5. DOMAIN pending' = {LineKey(file[m]) : m \in {l \in Seen' : Usable(file[l])}}
  BY <1>1, <1>2, <1>4 DEF LoadInv
<1>6. ASSUME NEW k \in DOMAIN pending \ {w}
      PROVE  Describes(pending[k], k)'
  <2>1. PICK q : q = pending[k]
    OBVIOUS
  <2>2. Describes(q, k)'
    BY <1>1, <2>1, OtherLine DEF LoadInv
  <2> QED
    BY <1>4, <2>1, <2>2
<1>7. Describes(p, w)'
  <2>1. CASE Plain(n)
    BY <1>1, <1>3, <2>1, PlainLine
  <2>2. CASE ~Plain(n)
    <3>1. Describes(PendingFor(w), w)
      <4>1. CASE w \in DOMAIN pending
        BY <4>1 DEF LoadInv, PendingFor
      <4>2. CASE w \notin DOMAIN pending
        <5>1. ~ \E m \in Seen : Plain(m) /\ LineKey(file[m]) = w
          BY <4>2 DEF LoadInv, Plain
        <5> QED
          BY <4>2, <5>1 DEF PendingFor, noPronunciation, Describes
      <4> QED
        BY <4>1, <4>2
    <3>2. Describes(p, w)
      BY <1>3, <2>2, <3>1 DEF Describes
    <3> QED
      BY <1>1, <2>2, <3>2, OtherLine
  <2> QED
    BY <2>1, <2>2
<1>8. \A k \in DOMAIN pending' : Describes(pending[k], k)'
  BY <1>4, <1>6, <1>7
<1> QED
  BY <1>1, <1>5, <1>8 DEF LoadInv, Empty

\* The remaining steps see no line.
LEMMA BuildInv ==
  ASSUME LoadInv, ParseEnd \/ BuildEntry \/ BuildEnd \/ UNCHANGED loadVars
  PROVE  LoadInv'
<1>1. file' = file /\ n' = n /\ pending' = pending
  BY DEF ParseEnd, BuildEntry, BuildEnd, loadVars
<1>2. /\ \A w \in DOMAIN pending' : Describes(pending[w], w)'
      /\ DOMAIN pending' = {LineKey(file'[m]) : m \in {l \in Seen' : Usable(file'[l])}}
  BY <1>1 DEF LoadInv, Describes, Seen, Plain
<1>3. CASE ParseEnd
  <2>1. DOMAIN entries = {}
    BY <1>3 DEF ParseEnd, LoadInv, Empty
  <2> QED
    BY <1>1, <1>2, <1>3, <2>1, FilesAssumption DEF ParseEnd, LoadInv, IsSequence
<1>4. CASE BuildEntry
  <2>1. PICK w \in DOMAIN pending \ DOMAIN entries :
          entries' = Put(entries, w,
            [ canonical  |-> CanonicalOf(pending[w]),
              alternates |-> SortedAlternates(pending[w].alternates) ])
    BY <1>4 DEF BuildEntry
  <2>2. /\ DOMAIN entries' = DOMAIN entries \cup {w}
        /\ entries'[w].canonical = pending[w].canonical
        /\ \A k \in DOMAIN entries : entries'[k] = entries[k]
    BY <2>1 DEF Put, CanonicalOf
  <2> QED
    BY <1>1, <1>2, <1>4, <2>2 DEF BuildEntry, LoadInv
<1>5. CASE BuildEnd
  BY <1>1, <1>2, <1>5 DEF BuildEnd, LoadInv
<1>6. CASE UNCHANGED loadVars
  BY <1>1, <1>2, <1>6 DEF loadVars, LoadInv
<1> QED
  BY <1>3, <1>4, <1>5, <1>6

THEOREM LoadInvariance == LoadSpec => []LoadInv
<1>1. LoadInv /\ [LoadNext]_loadVars => LoadInv'
  BY SkipLineInv, ParseInv, BuildInv DEF LoadNext, LoadStep, Returned
<1> QED
  BY <1>1, LoadInitInv, PTL DEF LoadSpec

\* A word is found exactly if the data has an unnumbered line for it, and then
\* with the phones of the last such line.
THEOREM LastLineWins == LoadSpec => []LastUnnumberedWins
<1>1. LoadInv => LastUnnumberedWins
  <2> SUFFICES ASSUME LoadInv, phase = "done" PROVE LastUnnumberedWins
    BY DEF LastUnnumberedWins
  <2>1. Seen = DOMAIN file
    <3>1. DOMAIN file = 1 .. Len(file) /\ Len(file) \in Nat /\ n > Len(file) /\ n \in Nat
      BY FilesAssumption DEF LoadInv, IsSequence
    <3> QED
      BY <3>1 DEF Seen
  <2>2. DOMAIN entries = Keys(UsableLines)
    <3>1. {m \in Seen : Usable(file[m])} = UsableLines
      BY <2>1 DEF UsableLines
    <3> QED
      BY <3>1, Zenon DEF LoadInv, Keys
  <2>3. ASSUME NEW w \in DOMAIN entries
        PROVE  /\ entries[w].canonical # <<>> <=> Unnumbered(w) # {}
               /\ Unnumbered(w) # {} =>
                    \E m \in Unnumbered(w) :
                      /\ \A l \in Unnumbered(w) : l <= m
                      /\ entries[w].canonical = Phones(file[m])
    <3>1. \A m : m \in Unnumbered(w) <=>
                   m \in DOMAIN file /\ Plain(m) /\ LineKey(file[m]) = w
      BY DEF Unnumbered, Lines, UsableLines, Plain
    <3>2. \A m \in Unnumbered(w) : Phones(file[m]) # <<>>
      BY <3>1, UsableLine DEF Plain
    <3>3. Describes(pending[w], w) /\ entries[w].canonical = pending[w].canonical
      BY DEF LoadInv
    <3>4. CASE Unnumbered(w) = {}
      BY <2>1, <3>1, <3>3, <3>4 DEF Describes
    <3>5. CASE Unnumbered(w) # {}
      <4>1. \E m \in Unnumbered(w) :
              /\ \A l \in Unnumbered(w) : l <= m
              /\ entries[w].canonical = Phones(file[m])
        BY <2>1, <3>1, <3>3, <3>5 DEF Describes
      <4> QED
        BY <3>2, <3>5, <4>1
    <3> QED
      BY <3>4, <3>5
  <2> QED
    BY <2>2, <2>3 DEF LastUnnumberedWins, Exposed
<1> QED
  BY <1>1, LoadInvariance, PTL

-----------------------------------------------------------------------------
(***************************************************************************)
(* The alternates                                                          *)
(***************************************************************************)

\* Element i goes before element j, or is j.
NotAfter(alternates, i, j) ==
  \/ alternates[i].variant < alternates[j].variant
  \/ alternates[i].variant = alternates[j].variant /\ i <= j

UpTo(alternates, j) == {i \in DOMAIN alternates : NotAfter(alternates, i, j)}

StablySorted(alternates, N) ==
  \E perm \in [1 .. N -> 1 .. N] :
    /\ SortedAlternates(alternates) = [r \in 1 .. N |-> alternates[perm[r]].phones]
    /\ \A j \in 1 .. N : \E r \in 1 .. N : perm[r] = j
    /\ \A r, q \in 1 .. N :
         r < q => NotAfter(alternates, perm[r], perm[q]) /\ perm[r] # perm[q]

\* SortedAlternates is a stable sort, whatever the variants.
LEMMA StableSort ==
  ASSUME NEW alternates, NEW N \in Nat, DOMAIN alternates = 1 .. N,
         \A j \in 1 .. N : alternates[j].variant \in Int
  PROVE  StablySorted(alternates, N)
<1> DEFINE J    == 1 .. N
           U(j) == UpTo(alternates, j)
           rank == [j \in J |-> Cardinality(U(j))]
           perm == [r \in J |-> CHOOSE j \in J : Cardinality(U(j)) = r]
<1>1. \A i, j, k \in J :
        /\ NotAfter(alternates, i, i)
        /\ NotAfter(alternates, i, j) \/ NotAfter(alternates, j, i)
        /\ NotAfter(alternates, i, j) /\ NotAfter(alternates, j, i) => i = j
        /\ NotAfter(alternates, i, j) /\ NotAfter(alternates, j, k) => NotAfter(alternates, i, k)
  BY DEF NotAfter
<1>2. IsFiniteSet(J) /\ Cardinality(J) = N
  BY FS_Interval
<1>3. \A j \in J : U(j) \in SUBSET J /\ j \in U(j)
  BY <1>1 DEF UpTo
<1>4. \A i, j \in J : NotAfter(alternates, i, j) => U(i) \subseteq U(j)
  BY <1>1 DEF UpTo
<1>5. \A i, j \in J : j \in U(i) => NotAfter(alternates, j, i)
  BY DEF UpTo
<1> HIDE DEF U, J
<1>6. ASSUME NEW j \in J PROVE IsFiniteSet(U(j)) /\ Cardinality(U(j)) \in 1 .. N
  <2>1. IsFiniteSet(U(j)) /\ Cardinality(U(j)) <= N
    BY <1>2, <1>3, FS_Subset
  <2>2. Cardinality(U(j)) \in Nat
    BY <2>1, FS_CardinalityType
  <2>3. Cardinality(U(j)) # 0
    BY <1>3, <2>1, FS_EmptySet
  <2> QED
    BY <2>1, <2>2, <2>3
<1>7. ASSUME NEW i \in J, NEW j \in J, NotAfter(alternates, i, j), i # j
      PROVE  Cardinality(U(i)) < Cardinality(U(j))
  <2>1. U(i) \subseteq U(j) /\ U(i) # U(j)
    BY <1>1, <1>3, <1>4, <1>5, <1>7, Zenon
  <2>2. /\ Cardinality(U(i)) <= Cardinality(U(j))
        /\ Cardinality(U(j)) = Cardinality(U(i)) => U(j) = U(i)
    <3>1. IsFiniteSet(U(j)) /\ U(i) \in SUBSET U(j)
      BY <1>6, <2>1
    <3> QED
      BY <3>1, FS_Subset
  <2>3. Cardinality(U(i)) \in Int /\ Cardinality(U(j)) \in Int
    BY <1>6
  <2> QED
    BY <2>1, <2>2, <2>3
<1>8. \A i, j \in J : Cardinality(U(i)) = Cardinality(U(j)) => i = j
  <2> SUFFICES ASSUME NEW i \in J, NEW j \in J, Cardinality(U(i)) = Cardinality(U(j)), i # j
               PROVE  FALSE
    OBVIOUS
  <2>1. Cardinality(U(i)) < Cardinality(U(j)) \/ Cardinality(U(j)) < Cardinality(U(i))
    BY <1>1, <1>7
  <2>2. Cardinality(U(i)) \in Int /\ Cardinality(U(j)) \in Int
    BY <1>6
  <2> QED
    BY <2>1, <2>2
<1>9. \A r \in J : \E j \in J : Cardinality(U(j)) = r
  <2>1. rank \in [J -> J] /\ \A j \in J : rank[j] = Cardinality(U(j))
    BY <1>6 DEF J
  <2> HIDE DEF rank
  <2>2. rank \in Injection(J, J)
    BY <1>8, <2>1 DEF Injection, IsInjective
  <2>3. rank \in Surjection(J, J)
    BY <1>2, <2>2, FS_Injection
  <2> QED
    BY <2>1, <2>3 DEF Surjection
<1>10. \A r \in J : perm[r] \in J /\ Cardinality(U(perm[r])) = r
  BY <1>9
<1>11. perm \in [J -> J]
  BY <1>10
<1>12. SortedAlternates(alternates) = [r \in J |-> alternates[perm[r]].phones]
  BY DEF SortedAlternates, UpTo, NotAfter, U, J
<1> HIDE DEF perm
<1>13. \A j \in J : \E r \in J : perm[r] = j
  <2> SUFFICES ASSUME NEW j \in J PROVE \E r \in J : perm[r] = j
    OBVIOUS
  <2>1. Cardinality(U(j)) \in J
    BY <1>6 DEF J
  <2> QED
    BY <1>8, <1>10, <2>1
<1>14. ASSUME NEW r \in J, NEW q \in J, r < q
       PROVE  NotAfter(alternates, perm[r], perm[q]) /\ perm[r] # perm[q]
  <2>1. r \in Int /\ q \in Int
    BY DEF J
  <2>2. perm[r] # perm[q]
    BY <1>10, <1>14, <2>1
  <2>3. ASSUME NotAfter(alternates, perm[q], perm[r]) PROVE FALSE
    <3>1. Cardinality(U(perm[q])) < Cardinality(U(perm[r]))
      BY <1>7, <1>10, <2>2, <2>3
    <3> QED
      BY <1>10, <1>14, <2>1, <3>1
  <2> QED
    BY <1>1, <1>10, <2>2, <2>3
<1> QED
  BY <1>11, <1>12, <1>13, <1>14 DEF StablySorted, J

\* The lines seen that give w a numbered pronunciation.
NumberedSeen(w) == {m \in Seen : Usable(file[m]) /\ ~Plain(m) /\ LineKey(file[m]) = w}

\* The alternates are those lines in the order of the file.
Gathers(alternates, w) ==
  LET places == 1 .. Len(alternates)
  IN  /\ Len(alternates) \in Nat
      /\ \E from \in [places -> NumberedSeen(w)] :
           /\ alternates = [j \in places |->
                [variant |-> Variant(file[from[j]].fields[1]), phones |-> Phones(file[from[j]])]]
           /\ \A m \in NumberedSeen(w) : \E j \in places : from[j] = m
           /\ \A j, l \in places : j < l => from[j] < from[l]

SortInv ==
  /\ \A w \in DOMAIN pending : Gathers(pending[w].alternates, w)
  /\ \A w \in DOMAIN entries : entries[w].alternates = SortedAlternates(pending[w].alternates)

\* A line that is not numbered for w leaves what is gathered for w as it is.
LEMMA OtherGathers ==
  ASSUME LoadInv, n <= Len(file), file' = file, n' = n + 1,
         NEW w, ~(Usable(file[n]) /\ ~Plain(n) /\ LineKey(file[n]) = w),
         NEW alternates, Gathers(alternates, w)
  PROVE  Gathers(alternates, w)'
<1>1. NumberedSeen(w)' = NumberedSeen(w)
  <2>1. Seen' = Seen \cup {n}
    BY NextSeen DEF Seen
  <2>2. \A m : Plain(m)' <=> Plain(m)
    BY DEF Plain
  <2> QED
    BY <2>1, <2>2 DEF NumberedSeen
<1> QED
  BY <1>1, Zenon DEF Gathers

\* A numbered line of w comes behind what is gathered for it.
LEMMA NumberedGathers ==
  ASSUME LoadInv, n <= Len(file), file' = file, n' = n + 1,
         NEW w, Usable(file[n]), ~Plain(n), LineKey(file[n]) = w,
         NEW alternates, Gathers(alternates, w),
         NEW longer, longer = Append(alternates,
           [variant |-> Variant(file[n].fields[1]), phones |-> Phones(file[n])])
  PROVE  Gathers(longer, w)'
<1> DEFINE N    == Len(alternates)
           J    == 1 .. N
           K    == 1 .. (N + 1)
           V(m) == [variant |-> Variant(file[m].fields[1]), phones |-> Phones(file[m])]
<1>1. N \in Nat
  BY DEF Gathers
<1>2. PICK from \in [J -> NumberedSeen(w)] :
        /\ alternates = [j \in J |-> V(from[j])]
        /\ \A m \in NumberedSeen(w) : \E j \in J : from[j] = m
        /\ \A j, l \in J : j < l => from[j] < from[l]
  BY DEF Gathers
<1>3. /\ NumberedSeen(w)' = NumberedSeen(w) \cup {n} /\ n \in Nat
      /\ \A m \in NumberedSeen(w) : m \in Nat /\ m < n
  <2>1. Seen' = Seen \cup {n} /\ n \in DOMAIN file
    BY NextSeen DEF Seen
  <2>2. \A m : Plain(m)' <=> Plain(m)
    BY DEF Plain
  <2>3. \A m \in Seen : m \in Nat /\ m < n
    BY FilesAssumption DEF LoadInv, IsSequence, Seen
  <2>4. NumberedSeen(w)' = NumberedSeen(w) \cup {n}
    BY <2>1, <2>2 DEF NumberedSeen
  <2> QED
    BY <2>3, <2>4 DEF NumberedSeen, LoadInv
<1>4. \A k \in K : k \in J \/ k = N + 1
  BY <1>1
<1>5. J \subseteq K /\ N + 1 \in K /\ \A j \in J : j < N + 1 /\ j # N + 1 /\ ~(N + 1 < j)
  BY <1>1
<1>6. Len(longer) = N + 1 /\ longer = [k \in K |-> IF k = N + 1 THEN V(n) ELSE alternates[k]]
  <2>1. V(n) \in {V(m) : m \in NumberedSeen(w) \cup {n}}
    OBVIOUS
  <2>2. alternates \in Seq({V(m) : m \in NumberedSeen(w) \cup {n}})
    <3> DEFINE S == {V(m) : m \in NumberedSeen(w) \cup {n}}
    <3>1. alternates = [j \in 1 .. N |-> V(from[j])] /\ \A j \in 1 .. N : V(from[j]) \in S
      BY <1>2
    <3> HIDE DEF V, S
    <3>2. alternates \in Seq(S)
      BY <1>1, <3>1
    <3> QED
      BY <3>2 DEF S
  <2> HIDE DEF V
  <2>3. /\ longer = Append(alternates, V(n)) /\ Len(longer) = N + 1
        /\ longer \in Seq({V(m) : m \in NumberedSeen(w) \cup {n}})
    BY <2>1, <2>2 DEF V
  <2>4. \A k \in 1 .. (N + 1) : longer[k] = IF k = N + 1 THEN V(n) ELSE alternates[k]
    BY <1>1, <2>1, <2>2, <2>3
  <2>5. longer = [k \in 1 .. (N + 1) |-> longer[k]]
    BY <2>3
  <2> QED
    BY <2>3, <2>4, <2>5
<1> DEFINE all == [k \in K |-> IF k = N + 1 THEN n ELSE from[k]]
<1> HIDE DEF J, K, N
<1>7. all \in [K -> NumberedSeen(w)']
  BY <1>2, <1>3, <1>4
<1>8. all[N + 1] = n /\ \A j \in J : all[j] = from[j]
  BY <1>5
<1>9. longer = [k \in K |-> V(all[k])]
  <2>1. ASSUME NEW k \in K
        PROVE  (IF k = N + 1 THEN V(n) ELSE alternates[k]) = V(all[k])
    <3>1. CASE k = N + 1
      BY <1>8, <3>1
    <3>2. CASE k # N + 1
      <4>1. k \in J /\ alternates[k] = V(from[k])
        BY <1>2, <1>4, <3>2
      <4> QED
        BY <1>8, <3>2, <4>1
    <3> QED
      BY <3>1, <3>2
  <2> HIDE DEF V, all
  <2> QED
    BY <1>6, <2>1
<1> HIDE DEF all
<1>10. \A m \in NumberedSeen(w)' : \E k \in K : all[k] = m
  BY <1>2, <1>3, <1>5, <1>8
<1>11. ASSUME NEW k \in K, NEW l \in K, k < l PROVE all[k] < all[l]
  <2>1. k \in J
    BY <1>1, <1>4, <1>5, <1>11
  <2>2. CASE l \in J
    BY <1>2, <1>8, <1>11, <2>1, <2>2
  <2>3. CASE l = N + 1
    BY <1>2, <1>3, <1>8, <2>1, <2>3
  <2> QED
    BY <1>4, <2>2, <2>3
<1>12. Len(longer) \in Nat /\ K = 1 .. Len(longer)
  BY <1>1, <1>6 DEF K
<1>13. longer = [k \in K |-> [variant |-> Variant(file'[all[k]].fields[1]),
                              phones  |-> Phones(file'[all[k]])]]
  BY <1>9
<1> HIDE DEF V
<1> QED
  BY <1>7, <1>10, <1>11, <1>12, <1>13 DEF Gathers

LEMMA SortInit == LoadInit => SortInv
BY DEF LoadInit, SortInv, Empty

LEMMA SortNext ==
  ASSUME LoadInv, SortInv, [LoadNext]_loadVars
  PROVE  SortInv'
<1>1. CASE SkipLine
  <2>1. /\ n <= Len(file) /\ file' = file /\ n' = n + 1 /\ pending' = pending /\ entries' = entries
        /\ ~Usable(file[n])
    BY <1>1 DEF SkipLine, NextLine
  <2>2. ASSUME NEW w \in DOMAIN pending PROVE Gathers(pending[w].alternates, w)'
    <3>1. PICK alternates : alternates = pending[w].alternates
      OBVIOUS
    <3>2. Gathers(alternates, w)'
      BY <2>1, <3>1, OtherGathers DEF SortInv
    <3> QED
      BY <2>1, <3>1, <3>2
  <2> QED
    BY <2>1, <2>2 DEF SortInv
<1>2. CASE ParseCanonical \/ ParseAlternate
  <2> PICK w : w = LineKey(file[n])
    OBVIOUS
  <2>1. /\ phase = "parse" /\ n <= Len(file) /\ Usable(file[n]) /\ file' = file /\ n' = n + 1
        /\ entries' = entries
    BY <1>2 DEF ParseCanonical, ParseAlternate, NextLine
  <2>2. n \in DOMAIN file /\ entries = Empty
    BY <2>1, NextSeen DEF LoadInv
  <2>3. PICK alternates : alternates = PendingFor(w).alternates
    OBVIOUS
  <2>4. Gathers(alternates, w)
    <3>1. CASE w \in DOMAIN pending
      BY <2>3, <3>1 DEF SortInv, PendingFor
    <3>2. CASE w \notin DOMAIN pending
      <4>1. NumberedSeen(w) = {} /\ alternates = <<>>
        BY <2>3, <3>2 DEF NumberedSeen, LoadInv, PendingFor, noPronunciation
      <4>2. Len(alternates) = 0 /\ 1 .. 0 = {} /\ alternates \in [1 .. 0 -> NumberedSeen(w)]
        BY <4>1
      <4>4. Len(alternates) \in Nat /\ 1 .. Len(alternates) = {}
        BY <4>2
      <4>5. alternates = [j \in 1 .. Len(alternates) |->
              [ variant |-> Variant(file[alternates[j]].fields[1]),
                phones  |-> Phones(file[alternates[j]]) ]]
        BY <4>1
      <4> QED
        BY <4>1, <4>2, <4>4, <4>5 DEF Gathers
    <3> QED
      BY <3>1, <3>2
  <2>5. PICK p : pending' = Put(pending, w, p) /\ Gathers(p.alternates, w)'
    <3> DEFINE vp == [variant |-> Variant(file[n].fields[1]), phones |-> Phones(file[n])]
               c  == [PendingFor(w) EXCEPT !.canonical = Phones(file[n]), !.hasCanonical = TRUE]
               a  == [PendingFor(w) EXCEPT !.alternates = Append(@, vp)]
    <3>1. CASE ParseCanonical
      <4>1. Plain(n) /\ pending' = Put(pending, w, c)
        BY <2>1, <2>2, <3>1, UsableLine DEF ParseCanonical
      <4>2. c.alternates = alternates
        BY <2>3 DEF PendingFor, noPronunciation
      <4>3. Gathers(alternates, w)'
        BY <2>1, <2>4, <4>1, OtherGathers
      <4> QED
        BY <4>1, <4>2, <4>3, Zenon
    <3>2. CASE ParseAlternate
      <4>1. ~Plain(n) /\ pending' = Put(pending, w, a)
        BY <2>1, <2>2, <3>2, UsableLine DEF ParseAlternate
      <4>2. PICK longer : longer = Append(alternates, vp)
        OBVIOUS
      <4>3. a.alternates = longer
        BY <2>3, <4>2 DEF PendingFor, noPronunciation
      <4>4. Gathers(longer, w)'
        BY <2>1, <2>4, <4>1, <4>2, NumberedGathers
      <4> QED
        BY <4>1, <4>3, <4>4, Zenon
    <3> QED
      BY <1>2, <3>1, <3>2
  <2>6. /\ DOMAIN pending' = DOMAIN pending \cup {w} /\ pending'[w] = p
        /\ \A k \in DOMAIN pending \ {w} : pending'[k] = pending[k]
    BY <2>5 DEF Put
  <2>7. ASSUME NEW k \in DOMAIN pending \ {w} PROVE Gathers(pending[k].alternates, k)'
    <3>1. PICK q : q = pending[k].alternates
      OBVIOUS
    <3>2. Gathers(q, k)'
      BY <2>1, <3>1, OtherGathers DEF SortInv
    <3>3. pending'[k].alternates = q
      BY <2>6, <3>1
    <3> QED
      BY <3>2, <3>3
  <2>8. \A k \in DOMAIN pending' : Gathers(pending[k].alternates, k)'
    BY <2>5, <2>6, <2>7
  <2> QED
    BY <2>1, <2>2, <2>8 DEF SortInv, Empty
<1>3. CASE ParseEnd \/ BuildEntry \/ BuildEnd \/ UNCHANGED loadVars
  <2>1. file' = file /\ n' = n /\ pending' = pending
    BY <1>3 DEF ParseEnd, BuildEntry, BuildEnd, loadVars
  <2>2. \A w \in DOMAIN pending' : Gathers(pending[w].alternates, w)'
    <3> SUFFICES ASSUME NEW w \in DOMAIN pending PROVE Gathers(pending[w].alternates, w)'
      BY <2>1
    <3>1. PICK q : q = pending[w].alternates
      OBVIOUS
    <3>2. NumberedSeen(w)' = NumberedSeen(w)
      BY <2>1 DEF NumberedSeen, Seen, Plain
    <3>3. Gathers(q, w)
      BY <3>1 DEF SortInv
    <3>4. Gathers(q, w)'
      BY <2>1, <3>2, <3>3, Zenon DEF Gathers
    <3> QED
      BY <2>1, <3>1, <3>4, Zenon
  <2>3. \A w \in DOMAIN entries' :
          entries'[w].alternates = SortedAlternates(pending'[w].alternates)
    <3>1. CASE BuildEntry
      <4>1. PICK w \in DOMAIN pending \ DOMAIN entries :
              entries' = Put(entries, w,
                [ canonical  |-> CanonicalOf(pending[w]),
                  alternates |-> SortedAlternates(pending[w].alternates) ])
        BY <3>1 DEF BuildEntry
      <4>2. /\ DOMAIN entries' = DOMAIN entries \cup {w}
            /\ entries'[w].alternates = SortedAlternates(pending[w].alternates)
            /\ \A k \in DOMAIN entries : entries'[k] = entries[k]
        BY <4>1 DEF Put
      <4> QED
        BY <2>1, <4>2 DEF SortInv
    <3>2. CASE ParseEnd \/ BuildEnd \/ UNCHANGED loadVars
      BY <2>1, <3>2 DEF ParseEnd, BuildEnd, loadVars, SortInv
    <3> QED
      BY <1>3, <3>1, <3>2
  <2> QED
    BY <2>2, <2>3 DEF SortInv
<1> QED
  BY <1>1, <1>2, <1>3 DEF LoadNext, LoadStep, Returned

\* The alternates of a word are its numbered lines, none lost, in ascending
\* variant order, and lines of one number in the order of the file.
THEOREM AlternatesAreSorted == LoadSpec => []AlternatesInOrder
<1>1. LoadInv /\ SortInv => AlternatesInOrder
  <2> SUFFICES ASSUME LoadInv, SortInv, phase = "done", NEW w \in Keys(UsableLines)
               PROVE  LET alternates == entries[w].alternates
                          places     == 1 .. Len(alternates)
                      IN  \E order \in [places -> Numbered(w)] :
                            /\ alternates = [j \in places |-> Phones(file[order[j]])]
                            /\ \A m \in Numbered(w) : \E j \in places : order[j] = m
                            /\ \A j, l \in places : j < l => Before(order[j], order[l])
    BY DEF AlternatesInOrder
  <2>1. Seen = DOMAIN file /\ DOMAIN file = 1 .. Len(file) /\ Len(file) \in Nat
    <3>1. DOMAIN file = 1 .. Len(file) /\ Len(file) \in Nat /\ n > Len(file) /\ n \in Nat
      BY FilesAssumption DEF LoadInv, IsSequence
    <3> QED
      BY <3>1 DEF Seen
  <2>2. w \in DOMAIN entries /\ w \in DOMAIN pending
    <3>1. {m \in Seen : Usable(file[m])} = UsableLines
      BY <2>1 DEF UsableLines
    <3>2. DOMAIN entries = Keys(UsableLines) /\ DOMAIN entries = DOMAIN pending
      BY <3>1, Zenon DEF LoadInv, Keys
    <3> QED
      BY <3>2
  <2>3. NumberedSeen(w) = Numbered(w)
    BY <2>1 DEF NumberedSeen, Numbered, Unnumbered, Lines, UsableLines, Plain
  <2>4. PICK raw : raw = pending[w].alternates
    OBVIOUS
  <2>5. Gathers(raw, w) /\ entries[w].alternates = SortedAlternates(raw)
    BY <2>2, <2>4 DEF SortInv
  <2> DEFINE N    == Len(raw)
             J    == 1 .. N
             V(m) == [variant |-> Variant(file[m].fields[1]), phones |-> Phones(file[m])]
  <2>6. N \in Nat
    BY <2>5 DEF Gathers
  <2>7. PICK from \in [J -> Numbered(w)] :
          /\ raw = [j \in J |-> V(from[j])]
          /\ \A m \in Numbered(w) : \E j \in J : from[j] = m
          /\ \A j, l \in J : j < l => from[j] < from[l]
    BY <2>3, <2>5 DEF Gathers
  <2>8. \A j \in J : /\ raw[j].variant = Variant(file[from[j]].fields[1])
                     /\ raw[j].phones = Phones(file[from[j]])
    BY <2>7
  <2>9. \A m \in Numbered(w) : Variant(file[m].fields[1]) \in Int
    <3> SUFFICES ASSUME NEW m \in Numbered(w) PROVE Variant(file[m].fields[1]) \in Int
      OBVIOUS
    <3>1. m \in DOMAIN file /\ Usable(file[m]) /\ file[m].fields[1].suffix # NoSuffix
      BY DEF Numbered, Unnumbered, Lines, UsableLines
    <3>2. file[m].fields # <<>> /\ Atoi[file[m].fields[1].suffix] # NotANumber
      <4>1. Len(file[m].fields) >= 2 /\ ~Malformed(file[m].fields[1])
        BY <3>1 DEF Usable
      <4> QED
        BY <3>1, <4>1 DEF Malformed
    <3> QED
      BY <3>1, <3>2, AtoiAssumption DEF LoadInv, Variant
  <2>10. DOMAIN raw = J /\ \A j \in J : raw[j].variant \in Int
    BY <2>7, <2>8, <2>9
  <2>11. PICK perm \in [J -> J] :
           /\ SortedAlternates(raw) = [r \in J |-> raw[perm[r]].phones]
           /\ \A j \in J : \E r \in J : perm[r] = j
           /\ \A r, q \in J : r < q => /\ NotAfter(raw, perm[r], perm[q]) /\ perm[r] # perm[q]
    <3>1. PICK i : i = N
      OBVIOUS
    <3>2. i \in Nat /\ DOMAIN raw = 1 .. i /\ \A j \in 1 .. i : raw[j].variant \in Int
      BY <2>6, <2>10, <3>1
    <3>3. StablySorted(raw, i)
      BY <3>2, StableSort
    <3> HIDE DEF N, V
    <3>4. StablySorted(raw, N)
      BY <3>1, <3>3
    <3> QED
      BY <3>4, Zenon DEF StablySorted
  <2> DEFINE order == [r \in J |-> from[perm[r]]]
  <2>12. entries[w].alternates = [r \in J |-> Phones(file[order[r]])]
    BY <2>5, <2>8, <2>11
  <2>13. Len(entries[w].alternates) = N
    BY <2>6, <2>12
  <2>14. order \in [J -> Numbered(w)] /\ \A r \in J : order[r] = from[perm[r]]
    BY <2>7, <2>11
  <2> HIDE DEF order
  <2>15. ASSUME NEW m \in Numbered(w) PROVE \E r \in J : order[r] = m
    <3>1. PICK j \in J : from[j] = m
      BY <2>7
    <3>2. PICK r \in J : perm[r] = j
      BY <2>11
    <3> QED
      BY <2>14, <3>1, <3>2
  <2>16. ASSUME NEW r \in J, NEW q \in J, r < q PROVE Before(order[r], order[q])
    <3>1. /\ NotAfter(raw, perm[r], perm[q]) /\ perm[r] # perm[q]
          /\ perm[r] \in J /\ perm[q] \in J
      BY <2>11, <2>16
    <3>2. perm[r] <= perm[q] => from[perm[r]] < from[perm[q]]
      <4>1. perm[r] <= perm[q] => perm[r] < perm[q]
        BY <2>6, <3>1
      <4> QED
        BY <2>7, <3>1, <4>1
    <3> QED
      BY <2>8, <2>14, <3>1, <3>2 DEF NotAfter, Before
  <2> HIDE DEF N, V
  <2> QED
    BY <2>12, <2>13, <2>14, <2>15, <2>16
<1>2. LoadInv /\ SortInv /\ [LoadNext]_loadVars => SortInv'
  BY SortNext
<1> QED
  BY <1>1, <1>2, LoadInvariance, SortInit, PTL DEF LoadSpec

-----------------------------------------------------------------------------
(***************************************************************************)
(* Lookup                                                                  *)
(***************************************************************************)

\* All that an element of an array can be.
Value ==
  Nat \cup {Nil, Junk} \cup UNION {{Arrays[a][j] : j \in DOMAIN Arrays[a]} : a \in DOMAIN Arrays}

Array == Seq(Value)

\* The addresses Lookup has handed out.
Fresh == (Len(Arrays) + 1) .. Len(memory)

MemoryInv ==
  /\ memory \in Seq(Array)
  /\ Len(memory) >= Len(Arrays)
  /\ DictionaryImmutable

Entry(c) == Dictionary[key[c]]

\* What Lookup has copied by now.
Copied(c) ==
  LET alternates == Arrays[Entry(c).alternates]
      copies     == memory[held[c].alternates]
  IN  /\ held[c].canonical # held[c].alternates
      /\ memory[held[c].canonical] = Arrays[Entry(c).canonical]
      /\ DOMAIN copies = DOMAIN alternates
      /\ next[c] \in 1 .. (Len(alternates) + 1)
      /\ \A j \in 1 .. (next[c] - 1) :
           /\ copies[j] \in Fresh /\ copies[j] # held[c].alternates
           /\ memory[copies[j]] = Arrays[alternates[j]]

\* A caller holds fresh arrays only.
CallerInv(c) ==
  /\ pc[c] \in {"idle", "canonical", "make", "alternates", "holds"}
  /\ key[c] \in DOMAIN Dictionary \cup {Nil}
  /\ pc[c] # "idle" => Found(key[c])
  /\ pc[c] \in {"idle", "canonical"} => held[c] = noEntry
  /\ pc[c] = "make" =>
       /\ held[c].canonical \in Fresh /\ held[c].alternates = Nil
       /\ memory[held[c].canonical] = Arrays[Entry(c).canonical]
  /\ pc[c] \in {"alternates", "holds"} =>
       /\ held[c].canonical \in Fresh /\ held[c].alternates \in Fresh
       /\ \A j \in DOMAIN memory[held[c].alternates] :
            memory[held[c].alternates][j] \in Fresh \cup {Nil}
  /\ pc[c] = "alternates" => Copied(c)

Handles == [canonical : Nat \cup {Nil}, alternates : Nat \cup {Nil}]

Inv ==
  /\ MemoryInv
  /\ calls \in 0 .. MaxLookups
  /\ DOMAIN pc = Callers /\ DOMAIN key = Callers /\ DOMAIN next = Callers
  /\ held \in [Callers -> Handles]
  /\ \A c \in Callers : CallerInv(c)
  /\ EntriesAreDisjoint

-----------------------------------------------------------------------------

LEMMA ArraysTyped == Arrays \in Seq(Array) /\ Len(Arrays) \in Nat
<1>1. ASSUME NEW a \in DOMAIN Arrays PROVE Arrays[a] \in Array
  <2>1. IsSequence(Arrays[a])
    BY ArraysAssumption
  <2>2. \A j \in 1 .. Len(Arrays[a]) : Arrays[a][j] \in Value
    <3> DEFINE elements(b) == {Arrays[b][j] : j \in DOMAIN Arrays[b]}
    <3>1. DOMAIN Arrays[a] = 1 .. Len(Arrays[a])
      BY <2>1 DEF IsSequence
    <3>2. \A j \in 1 .. Len(Arrays[a]) : Arrays[a][j] \in elements(a)
      BY <3>1
    <3>3. elements(a) \in {elements(b) : b \in DOMAIN Arrays}
      OBVIOUS
    <3> HIDE DEF elements
    <3>4. \A j \in 1 .. Len(Arrays[a]) : Arrays[a][j] \in UNION {elements(b) : b \in DOMAIN Arrays}
      BY <3>2, <3>3
    <3> QED
      BY <3>4 DEF Value, elements
  <2> QED
    BY <2>1, <2>2 DEF IsSequence, Array
<1>2. IsSequence(Arrays)
  BY ArraysAssumption
<1> QED
  BY <1>1, <1>2 DEF IsSequence

LEMMA ReachIsFresh ==
  ASSUME NEW c, CallerInv(c)
  PROVE  Reach(held[c]) \subseteq Fresh
<1>1. CASE pc[c] \in {"idle", "canonical"}
  BY <1>1 DEF CallerInv, Reach, noEntry
<1>2. CASE pc[c] = "make"
  BY <1>2 DEF CallerInv, Reach
<1>3. CASE pc[c] \in {"alternates", "holds"}
  BY <1>3 DEF CallerInv, Reach, Alternates
<1> QED
  BY <1>1, <1>2, <1>3 DEF CallerInv

\* A caller is not disturbed by steps that leave alone what it can reach.
LEMMA Frame ==
  ASSUME MemoryInv, NEW d \in Callers, CallerInv(d),
         pc'[d] = pc[d], key'[d] = key[d], held'[d] = held[d], next'[d] = next[d],
         \A a \in Reach(held[d]) : memory'[a] = memory[a],
         Len(memory') \in Nat, Len(memory') >= Len(memory)
  PROVE  CallerInv(d)' /\ Reach(held[d])' = Reach(held[d])
<1>1. Fresh \subseteq Fresh'
  BY ArraysTyped DEF Fresh, MemoryInv
<1>2. CASE pc[d] \in {"idle", "canonical"}
  BY <1>2 DEF CallerInv, Reach, noEntry
<1>3. CASE pc[d] = "make"
  <2>1. held[d].canonical \in Reach(held[d])
    BY <1>3, NilAssumption DEF CallerInv, Reach, Fresh
  <2> QED
    BY <1>1, <1>3, <2>1 DEF CallerInv, Reach, Entry
<1>4. CASE pc[d] \in {"alternates", "holds"}
  <2>1. /\ held[d].canonical \in Fresh /\ held[d].alternates \in Fresh
        /\ held[d].canonical # Nil /\ held[d].alternates # Nil
    BY <1>4, NilAssumption, ArraysTyped DEF CallerInv, Fresh, MemoryInv
  <2>2. held[d].canonical \in Reach(held[d]) /\ held[d].alternates \in Reach(held[d])
    BY <2>1 DEF Reach
  <2>3. /\ memory'[held[d].canonical] = memory[held[d].canonical]
        /\ memory'[held[d].alternates] = memory[held[d].alternates]
    BY <2>2
  <2>4. Reach(held[d])' = Reach(held[d])
    BY <2>3 DEF Reach, Alternates
  <2>5. Copied(d) => Copied(d)'
    <3> DEFINE copies == memory[held[d].alternates]
    <3> SUFFICES ASSUME Copied(d) PROVE Copied(d)'
      OBVIOUS
    <3>1. ASSUME NEW j \in 1 .. (next[d] - 1)
          PROVE  memory'[copies[j]] = memory[copies[j]]
      <4>0. IsSequence(Arrays[Entry(d).alternates])
        BY <1>4, ArraysAssumption DEF CallerInv, Found, Entry
      <4>1. copies[j] \in Fresh /\ j \in DOMAIN copies
        BY <4>0 DEF Copied, IsSequence
      <4>2. copies[j] # Nil
        BY <4>1, NilAssumption, ArraysTyped DEF Fresh, MemoryInv
      <4>3. copies[j] \in Reach(held[d])
        BY <2>1, <4>1, <4>2 DEF Reach, Alternates
      <4> QED
        BY <4>3
    <3>2. /\ held[d].canonical # held[d].alternates
          /\ memory'[held[d].canonical] = Arrays[Entry(d).canonical]
          /\ DOMAIN copies = DOMAIN Arrays[Entry(d).alternates]
          /\ next[d] \in 1 .. Len(Arrays[Entry(d).alternates]) + 1
      BY <2>3 DEF Copied
    <3>3. ASSUME NEW j \in 1 .. (next[d] - 1)
          PROVE  /\ copies[j] \in Fresh' /\ copies[j] # held[d].alternates
                 /\ memory'[copies[j]] = Arrays[Arrays[Entry(d).alternates][j]]
      <4>1. /\ copies[j] \in Fresh /\ copies[j] # held[d].alternates
            /\ memory[copies[j]] = Arrays[Arrays[Entry(d).alternates][j]]
        BY DEF Copied
      <4> HIDE DEF copies
      <4> QED
        BY <1>1, <3>1, <4>1
    <3>4. memory'[held'[d].alternates] = copies /\ Entry(d)' = Entry(d)
      BY <2>3 DEF Entry
    <3> HIDE DEF copies
    <3> QED
      BY <3>2, <3>3, <3>4 DEF Copied
  <2> QED
    BY <1>1, <1>4, <2>1, <2>3, <2>4, <2>5 DEF CallerInv
<1> QED
  BY <1>2, <1>3, <1>4 DEF CallerInv

-----------------------------------------------------------------------------
\* The two ways in which memory changes.

LEMMA Appending ==
  ASSUME MemoryInv, NEW array \in Array, memory' = Append(memory, array)
  PROVE  /\ MemoryInv'
         /\ Len(memory') = Len(memory) + 1
         /\ memory'[New] = array
         /\ \A a \in DOMAIN memory : memory'[a] = memory[a]
<1>1. /\ memory' \in Seq(Array)
      /\ Len(memory') = Len(memory) + 1
      /\ memory'[New] = array
      /\ \A a \in 1 .. Len(memory) : memory'[a] = memory[a]
  BY AppendProperties DEF MemoryInv, New
<1>2. Len(memory) \in Nat /\ DOMAIN memory = 1 .. Len(memory)
  BY DEF MemoryInv
<1>3. \A a \in DOMAIN Arrays : a \in DOMAIN memory
  BY <1>2, ArraysTyped DEF MemoryInv
<1> QED
  BY <1>1, <1>2, <1>3, ArraysTyped DEF MemoryInv, DictionaryImmutable

Overwritten(a, j, v) == [memory EXCEPT ![a][j] = v]

LEMMA Overwriting ==
  ASSUME MemoryInv, NEW a \in Fresh, NEW j \in DOMAIN memory[a], NEW v \in Value
  PROVE  /\ Overwritten(a, j, v) \in Seq(Array)
         /\ Len(Overwritten(a, j, v)) = Len(memory)
         /\ DOMAIN Overwritten(a, j, v) = DOMAIN memory
         /\ Overwritten(a, j, v)[a] = [memory[a] EXCEPT ![j] = v]
         /\ \A b \in DOMAIN memory \ {a} : Overwritten(a, j, v)[b] = memory[b]
         /\ \A b \in DOMAIN Arrays : Overwritten(a, j, v)[b] = Arrays[b]
<1>1. a \in 1 .. Len(memory) /\ a \notin DOMAIN Arrays /\ DOMAIN memory = 1 .. Len(memory)
  BY ArraysTyped DEF Fresh, MemoryInv
<1>2. memory[a] \in Array
  BY <1>1 DEF MemoryInv
<1>3. [memory[a] EXCEPT ![j] = v] \in Array
  BY <1>2, ExceptSeq DEF Array
<1>4. Overwritten(a, j, v) = [memory EXCEPT ![a] = [memory[a] EXCEPT ![j] = v]]
  BY DEF Overwritten
<1>5. /\ Overwritten(a, j, v) \in Seq(Array) /\ Len(Overwritten(a, j, v)) = Len(memory)
      /\ \A b \in 1 .. Len(memory) :
           Overwritten(a, j, v)[b] = IF b = a THEN [memory[a] EXCEPT ![j] = v] ELSE memory[b]
  BY <1>1, <1>3, <1>4, ExceptSeq DEF MemoryInv
<1>6. \A b \in DOMAIN Arrays : b \in DOMAIN memory \ {a} /\ memory[b] = Arrays[b]
  BY <1>1, ArraysTyped DEF MemoryInv, DictionaryImmutable
<1>7. DOMAIN Overwritten(a, j, v) = DOMAIN memory
  BY <1>1, <1>5
<1>8. Overwritten(a, j, v)[a] = [memory[a] EXCEPT ![j] = v]
  BY <1>1, <1>5
<1>9. \A b \in DOMAIN memory \ {a} : Overwritten(a, j, v)[b] = memory[b]
  BY <1>1, <1>5
<1> QED
  BY <1>5, <1>6, <1>7, <1>8, <1>9

\* A step of c that changes nothing but what c reaches, and reaches nothing new
\* but what it allocates, keeps the invariant.
LEMMA OneCaller ==
  ASSUME Inv, NEW c \in Callers,
         MemoryInv', CallerInv(c)',
         calls' \in 0 .. MaxLookups, held' \in [Callers -> Handles],
         DOMAIN pc' = Callers, DOMAIN key' = Callers, DOMAIN next' = Callers,
         \A d \in Callers \ {c} : /\ pc'[d] = pc[d] /\ key'[d] = key[d]
                                  /\ held'[d] = held[d] /\ next'[d] = next[d],
         Len(memory') >= Len(memory),
         \A a \in Fresh \ Reach(held[c]) : memory'[a] = memory[a],
         Reach(held[c])' \subseteq Reach(held[c]) \cup ((Len(memory) + 1) .. Len(memory'))
  PROVE  Inv'
<1>1. Len(memory) \in Nat /\ Len(memory') \in Nat
  BY DEF MemoryInv, Inv
<1>2. ASSUME NEW d \in Callers \ {c}
      PROVE  /\ CallerInv(d)' /\ Reach(held[d])' = Reach(held[d])
             /\ Reach(held[d]) \subseteq Fresh
             /\ Reach(held[d]) \cap Reach(held[c]) = {}
  <2>1. MemoryInv /\ CallerInv(d) /\ EntriesAreDisjoint
    BY DEF Inv
  <2>2. Reach(held[d]) \subseteq Fresh
    BY <2>1, ReachIsFresh
  <2>3. Reach(held[d]) \cap Reach(held[c]) = {}
    BY <2>1 DEF EntriesAreDisjoint
  <2>4. \A a \in Reach(held[d]) : memory'[a] = memory[a]
    BY <2>2, <2>3
  <2>5. CallerInv(d)' /\ Reach(held[d])' = Reach(held[d])
    BY <1>1, <2>1, <2>4, Frame
  <2> QED
    BY <2>2, <2>3, <2>5
<1>3. ASSUME NEW d \in Callers \ {c} PROVE (Reach(held[c]) \cap Reach(held[d]) = {})'
  <2>1. \A a \in Reach(held[d]) : a \notin (Len(memory) + 1) .. Len(memory')
    BY <1>1, <1>2 DEF Fresh
  <2> QED
    BY <1>2, <2>1
<1>4. EntriesAreDisjoint'
  <2> SUFFICES ASSUME NEW d \in Callers, NEW e \in Callers, d # e
               PROVE  (Reach(held[d]) \cap Reach(held[e]) = {})'
    BY DEF EntriesAreDisjoint
  <2>1. CASE d = c
    BY <1>3, <2>1
  <2>2. CASE e = c
    BY <1>3, <2>2
  <2>3. CASE d # c /\ e # c
    BY <1>2, <2>3 DEF Inv, EntriesAreDisjoint
  <2> QED
    BY <2>1, <2>2, <2>3
<1>5. \A d \in Callers : CallerInv(d)'
  BY <1>2
<1> QED
  BY <1>4, <1>5 DEF Inv

-----------------------------------------------------------------------------
\* The steps of a caller, each with what OneCaller asks of it.

\* What the array of a found key is.
LEMMA EntryArrays ==
  ASSUME NEW c, Found(key[c])
  PROVE  /\ Entry(c).canonical \in DOMAIN Arrays /\ Entry(c).alternates \in DOMAIN Arrays
         /\ Arrays[Entry(c).canonical] \in Array /\ Arrays[Entry(c).alternates] \in Array
         /\ \A j \in DOMAIN Arrays[Entry(c).alternates] :
              /\ Arrays[Entry(c).alternates][j] \in DOMAIN Arrays
              /\ Arrays[Arrays[Entry(c).alternates][j]] \in Array
BY ArraysAssumption, ArraysTyped DEF Found, Entry

LEMMA LookupInv ==
  ASSUME Inv, NEW c \in Callers, LookupHit(c) \/ LookupMiss(c)
  PROVE  Inv'
<1>1. /\ MemoryInv' /\ memory' = memory /\ next' = next
      /\ calls' \in 0 .. MaxLookups
  BY LookupsAssumption DEF Inv, MemoryInv, DictionaryImmutable, LookupHit, LookupMiss
<1>2. noEntry \in Handles
  BY DEF noEntry, Handles
<1>3. /\ held' = [held EXCEPT ![c] = noEntry]
      /\ \/ pc' = [pc EXCEPT ![c] = "canonical"]
            /\ \E word \in Words : Found(KeyOf[word]) /\ key' = [key EXCEPT ![c] = KeyOf[word]]
         \/ pc' = [pc EXCEPT ![c] = "idle"] /\ key' = key
  BY DEF LookupHit, LookupMiss, AfterMiss
<1>4. /\ held'[c] = noEntry /\ held' \in [Callers -> Handles]
      /\ pc'[c] \in {"idle", "canonical"}
      /\ pc'[c] = "canonical" => Found(key'[c])
      /\ key'[c] \in DOMAIN Dictionary \cup {Nil}
      /\ DOMAIN pc' = Callers /\ DOMAIN key' = Callers
  BY <1>2, <1>3 DEF Inv, CallerInv, Found
<1>5. CallerInv(c)' /\ Reach(held[c])' = {}
  BY <1>4 DEF CallerInv, Reach, noEntry
<1>6. \A d \in Callers \ {c} : pc'[d] = pc[d] /\ key'[d] = key[d] /\ held'[d] = held[d]
  BY <1>3 DEF Inv
<1>7. Len(memory') >= Len(memory)
  BY <1>1 DEF Inv, MemoryInv
<1> QED
  BY <1>1, <1>4, <1>5, <1>6, <1>7, OneCaller DEF Inv

LEMMA CopyCanonicalInv ==
  ASSUME Inv, NEW c \in Callers, CopyCanonical(c)
  PROVE  Inv'
<1>1. /\ CallerInv(c) /\ pc[c] = "canonical" /\ Found(key[c]) /\ held[c] = noEntry /\ MemoryInv
      /\ Reach(held[c]) = {}
  BY DEF Inv, CallerInv, CopyCanonical, Reach, noEntry
<1>2. memory[Entry(c).canonical] = Arrays[Entry(c).canonical]
  BY <1>1, EntryArrays DEF MemoryInv, DictionaryImmutable
<1>3. memory' = Append(memory, Arrays[Entry(c).canonical])
  BY <1>2 DEF CopyCanonical, Allocate, Entry
<1>4. /\ MemoryInv' /\ Len(memory') = Len(memory) + 1
      /\ memory'[New] = Arrays[Entry(c).canonical]
      /\ \A a \in DOMAIN memory : memory'[a] = memory[a]
  BY <1>1, <1>3, EntryArrays, Appending
<1>5. Len(memory) \in Nat /\ New \in Nat /\ New = Len(memory) + 1 /\ New \in Fresh'
      /\ DOMAIN memory = 1 .. Len(memory)
  BY <1>1, <1>4, ArraysTyped DEF MemoryInv, New, Fresh
<1>6. /\ held'[c] = [canonical |-> New, alternates |-> Nil] /\ held' \in [Callers -> Handles]
      /\ pc'[c] = "make" /\ key' = key /\ next' = next /\ calls' = calls
      /\ DOMAIN pc' = Callers
      /\ \A d \in Callers \ {c} : pc'[d] = pc[d] /\ held'[d] = held[d]
  BY <1>1, <1>5 DEF CopyCanonical, Inv, Handles, noEntry
<1>7. CallerInv(c)'
  BY <1>1, <1>4, <1>5, <1>6 DEF CallerInv, Entry
<1>8. Reach(held[c])' \subseteq {New}
  BY <1>6 DEF Reach
<1>9. /\ Len(memory') >= Len(memory)
      /\ \A a \in Fresh \ Reach(held[c]) : memory'[a] = memory[a]
      /\ Reach(held[c])' \subseteq Reach(held[c]) \cup ((Len(memory) + 1) .. Len(memory'))
  BY <1>4, <1>5, <1>8, ArraysTyped DEF Fresh
<1>10. calls' \in 0 .. MaxLookups /\ DOMAIN key' = Callers /\ DOMAIN next' = Callers
  BY <1>6 DEF Inv
<1> QED
  BY <1>4, <1>6, <1>7, <1>9, <1>10, OneCaller

LEMMA MakeAlternatesInv ==
  ASSUME Inv, NEW c \in Callers, MakeAlternates(c)
  PROVE  Inv'
<1> DEFINE alternates == Arrays[Entry(c).alternates]
           array      == [j \in DOMAIN alternates |-> Nil]
<1>1. /\ CallerInv(c) /\ pc[c] = "make" /\ Found(key[c]) /\ MemoryInv
      /\ held[c].canonical \in Fresh /\ held[c].alternates = Nil
      /\ memory[held[c].canonical] = Arrays[Entry(c).canonical]
      /\ held[c] \in Handles
  BY DEF Inv, CallerInv, MakeAlternates
<1>2. memory[Entry(c).alternates] = alternates
  BY <1>1, EntryArrays DEF MemoryInv, DictionaryImmutable
<1>3. memory' = Append(memory, array)
  BY <1>2 DEF MakeAlternates, Allocate, Entry
<1>4. array \in Array /\ Len(alternates) \in Nat /\ DOMAIN alternates = 1 .. Len(alternates)
  <2>1. alternates \in Array
    BY <1>1, EntryArrays
  <2>2. Nil \in Value
    BY DEF Value
  <2> QED
    BY <2>1, <2>2 DEF Array
<1> HIDE DEF array
<1>5. /\ MemoryInv' /\ Len(memory') = Len(memory) + 1 /\ memory'[New] = array
      /\ \A a \in DOMAIN memory : memory'[a] = memory[a]
  BY <1>1, <1>3, <1>4, Appending
<1>6. /\ Len(memory) \in Nat /\ New \in Nat /\ New = Len(memory) + 1 /\ New \in Fresh'
      /\ DOMAIN memory = 1 .. Len(memory) /\ Fresh \subseteq Fresh' /\ Fresh \subseteq DOMAIN memory
  BY <1>1, <1>5, ArraysTyped DEF MemoryInv, New, Fresh
<1>7. /\ held'[c] = [canonical |-> held[c].canonical, alternates |-> New]
      /\ held' \in [Callers -> Handles]
      /\ pc'[c] = "alternates" /\ key' = key /\ next'[c] = 1 /\ calls' = calls
      /\ DOMAIN pc' = Callers /\ DOMAIN next' = Callers
      /\ \A d \in Callers \ {c} : pc'[d] = pc[d] /\ held'[d] = held[d] /\ next'[d] = next[d]
  BY <1>1, <1>6 DEF MakeAlternates, Made, Inv, Handles
<1>8. /\ held[c].canonical \in Fresh' /\ held[c].canonical # New
      /\ memory'[held[c].canonical] = Arrays[Entry(c).canonical]
  BY <1>1, <1>5, <1>6 DEF Fresh
<1>9. DOMAIN array = DOMAIN alternates /\ \A j \in DOMAIN array : array[j] = Nil
  BY DEF array
<1>10. Copied(c)'
  BY <1>4, <1>5, <1>7, <1>8, <1>9 DEF Copied, Entry
<1>11. CallerInv(c)'
  BY <1>1, <1>5, <1>6, <1>7, <1>8, <1>9, <1>10 DEF CallerInv
<1>12. Reach(held[c])' \subseteq {held[c].canonical, New}
  BY <1>5, <1>7, <1>9 DEF Reach, Alternates
<1>13. held[c].canonical \in Reach(held[c])
  BY <1>1, <1>6, NilAssumption DEF Reach, Fresh
<1> QED
  BY <1>1, <1>5, <1>6, <1>7, <1>11, <1>12, <1>13, ArraysTyped, OneCaller DEF Inv, Fresh

LEMMA CopyAlternateInv ==
  ASSUME Inv, NEW c \in Callers, CopyAlternate(c)
  PROVE  Inv'
<1> DEFINE alternates == Arrays[Entry(c).alternates]
           own        == held[c].alternates
           nx          == next[c]
           copies     == memory[own]
           original   == Arrays[alternates[nx]]
           written    == Overwritten(own, nx, New)
<1>1. /\ CallerInv(c) /\ pc[c] = "alternates" /\ Found(key[c]) /\ MemoryInv /\ Copied(c)
      /\ held[c].canonical \in Fresh /\ own \in Fresh /\ held[c] \in Handles
      /\ \A j \in DOMAIN copies : copies[j] \in Fresh \cup {Nil}
  BY DEF Inv, CallerInv, CopyAlternate
<1>2. memory[Entry(c).alternates] = alternates
  BY <1>1, EntryArrays DEF MemoryInv, DictionaryImmutable
<1>3. /\ Len(alternates) \in Nat /\ DOMAIN alternates = 1 .. Len(alternates)
      /\ nx \in DOMAIN alternates /\ alternates[nx] \in DOMAIN Arrays /\ original \in Array
  <2>1. alternates \in Array
    BY <1>1, EntryArrays
  <2>2. nx \in DOMAIN alternates
    BY <1>2 DEF CopyAlternate, Entry
  <2> QED
    BY <1>1, <2>1, <2>2, EntryArrays DEF Array
<1>4. memory[alternates[nx]] = original
  BY <1>1, <1>3 DEF MemoryInv, DictionaryImmutable
<1>5. memory' = Append(written, original)
  BY <1>2, <1>4 DEF CopyAlternate, CopyOf, Entry, Overwritten
<1>6. /\ Len(memory) \in Nat /\ New = Len(memory) + 1 /\ New \in Value
      /\ DOMAIN memory = 1 .. Len(memory) /\ Fresh \subseteq DOMAIN memory
      /\ DOMAIN copies = DOMAIN alternates
  BY <1>1, ArraysTyped DEF MemoryInv, New, Fresh, Value, Copied
<1>7. /\ written \in Seq(Array) /\ Len(written) = Len(memory) /\ DOMAIN written = DOMAIN memory
      /\ written[own] = [copies EXCEPT ![nx] = New]
      /\ \A b \in DOMAIN memory \ {own} : written[b] = memory[b]
      /\ \A b \in DOMAIN Arrays : written[b] = Arrays[b]
  BY <1>1, <1>3, <1>6, Overwriting
<1> HIDE DEF written, original
<1>8. /\ memory' \in Seq(Array) /\ Len(memory') = Len(memory) + 1 /\ memory'[New] = original
      /\ \A b \in DOMAIN memory : memory'[b] = written[b]
  BY <1>3, <1>5, <1>6, <1>7, AppendProperties
<1>9. /\ MemoryInv' /\ Fresh \subseteq Fresh' /\ New \in Fresh'
      /\ memory'[own] = [copies EXCEPT ![nx] = New]
      /\ \A b \in DOMAIN memory \ {own} : memory'[b] = memory[b]
  <2>1. \A b \in DOMAIN Arrays : b \in DOMAIN memory
    BY <1>1, <1>6, ArraysTyped DEF MemoryInv
  <2> QED
    BY <1>1, <1>6, <1>7, <1>8, <2>1, ArraysTyped DEF MemoryInv, DictionaryImmutable, Fresh
<1>10. /\ pc' = pc /\ key' = key /\ held' = held /\ calls' = calls
       /\ next'[c] = nx + 1 /\ DOMAIN next' = Callers
       /\ \A d \in Callers \ {c} : next'[d] = next[d]
  BY DEF CopyAlternate, Inv
<1>11. Copied(c)'
  <2>1. /\ held[c].canonical # own /\ memory[held[c].canonical] = Arrays[Entry(c).canonical]
        /\ memory'[held[c].canonical] = memory[held[c].canonical]
    BY <1>1, <1>6, <1>9 DEF Copied
  <2>2. DOMAIN memory'[own] = DOMAIN alternates
    BY <1>6, <1>9
  <2>3. nx + 1 \in 1 .. (Len(alternates) + 1)
    BY <1>3
  <2>4. ASSUME NEW j \in 1 .. nx
        PROVE  /\ memory'[own][j] \in Fresh' /\ memory'[own][j] # own
               /\ memory'[memory'[own][j]] = Arrays[alternates[j]]
    <3>1. CASE j = nx
      <4>1. memory'[own][j] = New
        BY <1>3, <1>6, <1>9, <3>1
      <4>2. New # own
        BY <1>1, <1>6
      <4> QED
        BY <1>8, <1>9, <3>1, <4>1, <4>2 DEF original
    <3>2. CASE j # nx
      <4>1. j \in 1 .. (nx - 1) /\ j \in DOMAIN copies
        BY <1>3, <1>6, <3>2
      <4>2. memory'[own][j] = copies[j]
        BY <1>9, <3>2, <4>1
      <4>3. copies[j] \in Fresh /\ copies[j] # own /\ memory[copies[j]] = Arrays[alternates[j]]
        BY <1>1, <4>1 DEF Copied
      <4> QED
        BY <1>6, <1>9, <4>2, <4>3
    <3> QED
      BY <3>1, <3>2
  <2>5. (nx + 1) - 1 = nx
    BY <1>3
  <2> QED
    BY <1>10, <2>1, <2>2, <2>3, <2>4, <2>5 DEF Copied, Entry
<1>12. \A j \in DOMAIN memory'[own] : memory'[own][j] \in Fresh' \cup {Nil}
  BY <1>1, <1>9
<1>13. CallerInv(c)'
  BY <1>1, <1>9, <1>10, <1>11, <1>12 DEF CallerInv
<1>14. Reach(held[c])' \subseteq Reach(held[c]) \cup {New}
  <2>1. \A j \in DOMAIN memory'[own] : memory'[own][j] \in {copies[i] : i \in DOMAIN copies} \cup {New}
    BY <1>9
  <2>2. own # Nil
    BY <1>1, <1>6, NilAssumption DEF Fresh
  <2> QED
    BY <1>10, <2>1, <2>2 DEF Reach, Alternates
<1>15. own \in Reach(held[c])
  BY <1>1, <1>6, NilAssumption DEF Reach, Fresh
<1> QED
  BY <1>1, <1>6, <1>8, <1>9, <1>10, <1>13, <1>14, <1>15, OneCaller DEF Inv

LEMMA ReturnInv ==
  ASSUME Inv, NEW c \in Callers, Return(c)
  PROVE  Inv'
<1>1. /\ CallerInv(c) /\ pc[c] = "alternates" /\ MemoryInv
      /\ memory' = memory /\ key' = key /\ held' = held /\ next' = next /\ calls' = calls
      /\ pc'[c] = "holds" /\ DOMAIN pc' = Callers
      /\ \A d \in Callers \ {c} : pc'[d] = pc[d]
  BY DEF Inv, Return
<1>2. MemoryInv' /\ CallerInv(c)' /\ Reach(held[c])' = Reach(held[c])
  BY <1>1 DEF MemoryInv, DictionaryImmutable, CallerInv, Fresh, Reach, Alternates
<1>3. Len(memory') >= Len(memory)
  BY <1>1 DEF MemoryInv
<1> QED
  BY <1>1, <1>2, <1>3, OneCaller DEF Inv

\* A caller overwrites phones, or drops an alternate: either way it writes to an
\* array it reaches, and reaches no more than before.
LEMMA WriteInv ==
  ASSUME Inv, NEW c \in Callers, WritePhone(c) \/ DropAlternate(c)
  PROVE  Inv'
<1> DEFINE own == held[c].alternates
<1>1. /\ CallerInv(c) /\ pc[c] = "holds" /\ MemoryInv
      /\ held[c].canonical \in Fresh /\ own \in Fresh
      /\ \A j \in DOMAIN memory[own] : memory[own][j] \in Fresh \cup {Nil}
      /\ pc' = pc /\ key' = key /\ held' = held /\ next' = next /\ calls' = calls
  BY DEF Inv, CallerInv, WritePhone, DropAlternate
<1>2. /\ Len(memory) \in Nat /\ DOMAIN memory = 1 .. Len(memory) /\ Fresh \subseteq DOMAIN memory
      /\ own # Nil /\ own \in Reach(held[c])
  BY <1>1, NilAssumption, ArraysTyped DEF MemoryInv, Fresh, Reach
<1>3. PICK a \in Reach(held[c]) : \E j \in DOMAIN memory[a], v \in {Junk, Nil} :
        /\ memory' = [memory EXCEPT ![a][j] = v]
        /\ a = own => v = Nil
  <2>1. CASE WritePhone(c)
    BY <2>1 DEF WritePhone
  <2>2. CASE DropAlternate(c)
    BY <1>2, <2>2 DEF DropAlternate
  <2> QED
    BY <2>1, <2>2
<1>4. PICK j \in DOMAIN memory[a], v \in {Junk, Nil} :
        /\ memory' = [memory EXCEPT ![a][j] = v]
        /\ a = own => v = Nil
  BY <1>3
<1>4a. a \in Fresh /\ v \in Value
  BY <1>1, ReachIsFresh DEF Value
<1>5. /\ memory' \in Seq(Array) /\ Len(memory') = Len(memory)
      /\ memory'[a] = [memory[a] EXCEPT ![j] = v]
      /\ \A b \in DOMAIN memory \ {a} : memory'[b] = memory[b]
      /\ \A b \in DOMAIN Arrays : memory'[b] = Arrays[b]
  <2>1. memory' = Overwritten(a, j, v)
    BY <1>4 DEF Overwritten
  <2> QED
    BY <1>1, <1>4a, <2>1, Overwriting
<1>6. MemoryInv' /\ Fresh' = Fresh
  BY <1>1, <1>5 DEF MemoryInv, DictionaryImmutable, Fresh
<1>7. \A i \in DOMAIN memory'[own] :
        i \in DOMAIN memory[own] /\ memory'[own][i] \in {memory[own][i], Nil}
  <2>1. CASE a = own
    BY <1>4, <1>5, <2>1
  <2>2. CASE a # own
    BY <1>1, <1>2, <1>5, <2>2
  <2> QED
    BY <2>1, <2>2
<1>8. CallerInv(c)'
  BY <1>1, <1>6, <1>7 DEF CallerInv
<1>9. Reach(held[c])' \subseteq Reach(held[c])
  BY <1>1, <1>2, <1>7 DEF Reach, Alternates
<1>10. \A b \in Fresh \ Reach(held[c]) : memory'[b] = memory[b]
  BY <1>2, <1>5
<1> QED
  BY <1>1, <1>2, <1>5, <1>6, <1>8, <1>9, <1>10, OneCaller DEF Inv

-----------------------------------------------------------------------------

LEMMA InitInv == Init => Inv
<1> SUFFICES ASSUME Init PROVE Inv
  OBVIOUS
<1>1. MemoryInv
  BY ArraysTyped DEF Init, MemoryInv, DictionaryImmutable
<1>2. \A c \in Callers : held[c] = noEntry /\ Reach(held[c]) = {}
  BY DEF Init, Reach, noEntry
<1>3. \A c \in Callers : CallerInv(c)
  BY <1>2 DEF Init, CallerInv
<1>4. noEntry \in Handles
  BY DEF noEntry, Handles
<1> QED
  BY <1>1, <1>2, <1>3, <1>4, LookupsAssumption DEF Init, Inv, EntriesAreDisjoint

LEMMA StepInv == Inv /\ [Next]_vars => Inv'
<1> SUFFICES ASSUME Inv, [Next]_vars PROVE Inv'
  OBVIOUS
<1>1. CASE Next
  <2>1. PICK c \in Callers :
          \/ LookupHit(c) \/ LookupMiss(c) \/ LookupStep(c)
          \/ WritePhone(c) \/ DropAlternate(c)
    BY <1>1 DEF Next
  <2> QED
    BY <2>1, LookupInv, CopyCanonicalInv, MakeAlternatesInv, CopyAlternateInv, ReturnInv, WriteInv
    DEF LookupStep
<1>2. CASE UNCHANGED vars
  <2>1. /\ memory' = memory /\ pc' = pc /\ key' = key /\ held' = held /\ next' = next
        /\ calls' = calls
    BY <1>2 DEF vars
  <2>2. MemoryInv'
    BY <2>1 DEF Inv, MemoryInv, DictionaryImmutable
  <2>3. ASSUME NEW c \in Callers
        PROVE  CallerInv(c)' /\ Reach(held[c])' = Reach(held[c])
    <3>1. CallerInv(c)
      BY DEF Inv
    <3> QED
      BY <2>1, <3>1 DEF CallerInv, Copied, Entry, Fresh, Reach, Alternates
  <2> QED
    BY <2>1, <2>2, <2>3 DEF Inv, EntriesAreDisjoint
<1> QED
  BY <1>1, <1>2

THEOREM Invariance == Spec => []Inv
BY InitInv, StepInv, PTL DEF Spec

\* A caller holds addresses of memory, a whole entry or the part of one that
\* Lookup has made.
THEOREM TypeCorrect == Spec => []TypeOK
<1>1. Inv => TypeOK
  <2> SUFFICES ASSUME Inv PROVE TypeOK
    OBVIOUS
  <2>1. Len(memory) \in Nat /\ Len(memory) >= Len(Arrays) /\ Fresh \subseteq DOMAIN memory
    BY ArraysTyped DEF Inv, MemoryInv, Fresh
  <2>2. ASSUME NEW c \in Callers
        PROVE  /\ pc[c] \in {"idle", "canonical", "make", "alternates", "holds"}
               /\ pc[c] \in {"idle", "canonical"} <=> held[c] = noEntry
               /\ pc[c] # "idle" => Found(key[c])
               /\ Reach(held[c]) \subseteq DOMAIN memory
    <3>1. CallerInv(c)
      BY DEF Inv
    <3>2. Reach(held[c]) \subseteq DOMAIN memory
      BY <2>1, <3>1, ReachIsFresh
    <3>3. pc[c] \in {"make", "alternates", "holds"} => held[c].canonical # Nil
      BY <3>1, <2>1, ArraysTyped, NilAssumption DEF CallerInv, Fresh
    <3>4. pc[c] \in {"idle", "canonical"} <=> held[c] = noEntry
      BY <3>1, <3>3 DEF CallerInv, noEntry
    <3> QED
      BY <3>1, <3>2, <3>4 DEF CallerInv
  <2> QED
    BY <2>1, <2>2 DEF TypeOK, Inv
<1> QED
  BY <1>1, Invariance, PTL

\* Whatever its callers write to the entries they get, the dictionary stays what
\* Load made it.
THEOREM DictionaryStays == Spec => []DictionaryImmutable
<1>1. Inv => DictionaryImmutable
  BY DEF Inv, MemoryInv
<1> QED
  BY <1>1, Invariance, PTL

\* No array is within reach of two callers.
THEOREM CallersAreIsolated == Spec => []EntriesAreDisjoint
<1>1. Inv => EntriesAreDisjoint
  BY DEF Inv
<1> QED
  BY <1>1, Invariance, PTL

\* The entry a caller gets is the one Load made, whatever other callers write
\* while Lookup copies it.
THEOREM EntryIsWhole == Spec => LookupReturnsEntry
<1>1. ASSUME Inv, [Next]_vars, NEW c \in Callers, pc[c] = "alternates", pc'[c] = "holds"
      PROVE  Contents(memory', held'[c]) = Contents(Arrays, Dictionary[key[c]])
  <2>1. Return(c)
    BY <1>1 DEF Next, vars, Inv, LookupHit, LookupMiss, LookupStep, CopyCanonical, MakeAlternates,
                CopyAlternate, Return, WritePhone, DropAlternate
  <2> DEFINE alternates == Arrays[Entry(c).alternates]
             copies     == memory[held[c].alternates]
  <2>2. memory' = memory /\ held' = held
    BY <2>1 DEF Return
  <2>3. Copied(c) /\ Found(key[c]) /\ MemoryInv
    BY <1>1 DEF Inv, CallerInv
  <2>4. /\ memory[Entry(c).alternates] = alternates
        /\ Len(alternates) \in Nat /\ DOMAIN alternates = 1 .. Len(alternates)
    <3>1. alternates \in Array
      BY <2>3, EntryArrays
    <3> QED
      BY <2>3, <3>1, EntryArrays DEF Array, MemoryInv, DictionaryImmutable
  <2>5. next[c] > Len(alternates)
    BY <2>1, <2>4 DEF Return, AllCopied, Entry
  <2>6. DOMAIN copies = DOMAIN alternates /\ DOMAIN alternates = 1 .. (next[c] - 1)
    BY <2>3, <2>4, <2>5 DEF Copied
  <2>7. ASSUME NEW j \in DOMAIN alternates
        PROVE  /\ copies[j] # Nil /\ memory[copies[j]] = Arrays[alternates[j]]
               /\ alternates[j] # Nil
    <3>1. copies[j] \in Fresh /\ memory[copies[j]] = Arrays[alternates[j]]
      BY <2>3, <2>6 DEF Copied
    <3>2. alternates[j] \in DOMAIN Arrays
      BY <2>3, EntryArrays
    <3> QED
      BY <2>3, <3>1, <3>2, ArraysTyped, NilAssumption DEF Fresh, MemoryInv
  <2> QED
    BY <2>2, <2>3, <2>6, <2>7 DEF Contents, Copied, Entry
<1>2. Inv /\ [Next]_vars =>
        \A c \in Callers : pc[c] = "alternates" /\ pc'[c] = "holds" =>
          Contents(memory', held'[c]) = Contents(Arrays, Dictionary[key[c]])
  BY <1>1
<1> QED
  BY <1>2, Invariance, PTL DEF Spec, LookupReturnsEntry

-----------------------------------------------------------------------------
(***************************************************************************)
(* Load and Lookup together                                                *)
(***************************************************************************)

\* A Dict is loaded as Load does it and looked up as Lookup does it: what is
\* shown of each of them holds of the two in succession.
THEOREM LoadThenLookup == DictSpec => LoadSpec /\ Init /\ [][Next]_vars
<1>1. DictInit => LoadInit /\ Init
  BY DEF DictInit
<1>2. [DictNext]_dictVars => [LoadNext]_loadVars /\ [Next]_vars
  BY DEF DictNext, dictVars, Load, Use, Rest, LoadNext
<1> QED
  BY <1>1, <1>2, PTL DEF DictSpec, LoadSpec
=============================================================================
