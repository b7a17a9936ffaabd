--------------------------- MODULE SequenceLemmas ---------------------------
(***************************************************************************)
(* Lemmas that the proofs share: induction, over a set of numbers rather   *)
(* than a predicate, and what FlattenSeq computes.                         *)
(***************************************************************************)
EXTENDS Integers, SequencesExt, FiniteSetTheorems, SequenceTheorems, TLAPS

\* The elements of a concatenation are those of the first sequence, then those
\* of the second.
LEMMA ConcatElements ==
  ASSUME NEW S, NEW s \in Seq(S), NEW w \in Seq(S)
  PROVE  /\ s \o w \in Seq(S) /\ Len(s \o w) = Len(s) + Len(w)
         /\ \A l \in 1 .. Len(s) : (s \o w)[l] = s[l]
         /\ \A l \in 1 .. Len(w) : (s \o w)[Len(s) + l] = w[l]
<1>1. /\ s \o w \in Seq(S) /\ Len(s \o w) = Len(s) + Len(w)
      /\ \A l \in 1 .. (Len(s) + Len(w)) :
           (s \o w)[l] = IF l <= Len(s) THEN s[l] ELSE w[l - Len(s)]
  BY ConcatProperties
<1>2. ASSUME NEW l \in 1 .. Len(w) PROVE (s \o w)[Len(s) + l] = w[l]
  <2>1. /\ Len(s) + l \in 1 .. (Len(s) + Len(w)) /\ ~(Len(s) + l <= Len(s))
        /\ (Len(s) + l) - Len(s) = l
    OBVIOUS
  <2> QED
    BY <1>1, <2>1
<1> QED
  BY <1>1, <1>2

\* A set of natural numbers has a least member: the sets 0 .. m - 1 are finite,
\* and strict inclusion is well-founded on finite sets.
LEMMA LeastNumber ==
  ASSUME NEW T, T \subseteq Nat, T # {}
  PROVE  \E m \in T : \A k \in T : m <= k
<1> DEFINE below == {0 .. (k - 1) : k \in T}
<1>1. IsWellFoundedOn(StrictSubsetOrdering(Nat), FiniteSubsetsOf(Nat))
  BY FS_StrictSubsetOrderingWellFounded
<1>2. below \subseteq FiniteSubsetsOf(Nat)
  <2>1. \A k \in T : 0 .. (k - 1) \in SUBSET Nat /\ IsFiniteSet(0 .. (k - 1))
    BY FS_Interval
  <2> QED
    BY <2>1 DEF FiniteSubsetsOf
<1>3. below # {}
  OBVIOUS
<1>4. PICK b \in below : \A c \in below : ~(<<c, b>> \in StrictSubsetOrdering(Nat))
  BY <1>1, <1>2, <1>3, WFMin
<1>5. PICK m \in T : b = 0 .. (m - 1)
  OBVIOUS
<1>6. ASSUME NEW k \in T, k < m PROVE FALSE
  <2>1. 0 .. (k - 1) \subseteq 0 .. (m - 1) /\ 0 .. (k - 1) # 0 .. (m - 1)
    BY <1>6
  <2>2. 0 .. (k - 1) \in SUBSET Nat /\ 0 .. (m - 1) \in SUBSET Nat
    OBVIOUS
  <2>3. <<0 .. (k - 1), b>> \in StrictSubsetOrdering(Nat)
    BY <2>1, <2>2, <1>5 DEF StrictSubsetOrdering
  <2> QED
    BY <2>3, <1>4
<1> QED
  BY <1>6

\* Induction: what holds for 0, and for the successor of what it holds for,
\* holds for all.
LEMMA InductionOver ==
  ASSUME NEW T, 0 \in T, \A m \in Nat : m \in T => m + 1 \in T
  PROVE  \A m \in Nat : m \in T
<1> DEFINE missing == {m \in Nat : m \notin T}
<1> SUFFICES ASSUME missing # {} PROVE FALSE
  OBVIOUS
<1>1. PICK m \in missing : \A k \in missing : m <= k
  <2>1. missing \subseteq Nat
    OBVIOUS
  <2> HIDE DEF missing
  <2> QED
    BY <2>1, LeastNumber
<1>2. m # 0 /\ m \in Nat
  OBVIOUS
<1>3. m - 1 \in Nat /\ m - 1 \in T
  BY <1>1, <1>2
<1>4. (m - 1) + 1 \in T /\ (m - 1) + 1 = m
  BY <1>2, <1>3
<1> QED
  BY <1>4

-----------------------------------------------------------------------------
(***************************************************************************)
(* FlattenSeq                                                              *)
(***************************************************************************)

\* f is what FlattenSeq unfolds to on the prefixes of s.
Unfolds(f, s) == f = [j \in 1 .. Len(s) |-> IF j = 1 THEN s[j] ELSE f[j - 1] \o s[j]]

\* A sequence unfolds in one way.
LEMMA UnfoldsOnce ==
  ASSUME NEW s, Len(s) \in Nat, NEW f, Unfolds(f, s), NEW g, Unfolds(g, s)
  PROVE  f = g
<1> DEFINE T == {m \in Nat : m \in 1 .. Len(s) => f[m] = g[m]}
<1>1. /\ f = [j \in 1 .. Len(s) |-> f[j]] /\ g = [j \in 1 .. Len(s) |-> g[j]]
      /\ \A j \in 1 .. Len(s) : /\ f[j] = IF j = 1 THEN s[j] ELSE f[j - 1] \o s[j]
                                /\ g[j] = IF j = 1 THEN s[j] ELSE g[j - 1] \o s[j]
  BY DEF Unfolds
<1>2. 0 \in T
  OBVIOUS
<1>3. ASSUME NEW m \in Nat, m \in T PROVE m + 1 \in T
  <2> SUFFICES ASSUME m + 1 \in 1 .. Len(s) PROVE f[m + 1] = g[m + 1]
    OBVIOUS
  <2>1. CASE m = 0
    <3>1. m + 1 = 1 /\ 1 \in 1 .. Len(s)
      BY <2>1
    <3> QED
      BY <1>1, <3>1
  <2>2. CASE m # 0
    <3>1. m \in 1 .. Len(s) /\ m + 1 # 1 /\ (m + 1) - 1 = m
      BY <2>2
    <3>2. f[m] = g[m]
      BY <1>3, <3>1
    <3>3. /\ f[m + 1] = f[(m + 1) - 1] \o s[m + 1]
          /\ g[m + 1] = g[(m + 1) - 1] \o s[m + 1]
      BY <1>1, <3>1
    <3> QED
      BY <3>1, <3>2, <3>3
  <2> QED
    BY <2>1, <2>2
<1> HIDE DEF T
<1>4. \A m \in Nat : m \in T
  BY <1>2, <1>3, InductionOver
<1>5. \A m \in 1 .. Len(s) : f[m] = g[m]
  BY <1>4 DEF T
<1> QED
  <2>1. [j \in 1 .. Len(s) |-> f[j]] = [j \in 1 .. Len(s) |-> g[j]]
    BY <1>5
  <2> QED
    BY <1>1, <2>1, Zenon

\* What a sequence unfolds to ends in its flattening.
LEMMA FlattenValue ==
  ASSUME NEW s, Len(s) \in Nat, NEW g, Unfolds(g, s)
  PROVE  Len(s) # 0 => FlattenSeq(s) = g[Len(s)]
<1> DEFINE flat == CHOOSE f : Unfolds(f, s)
<1>1. Unfolds(flat, s)
  OBVIOUS
<1>2. flat = g
  <2> HIDE DEF flat
  <2> QED
    BY <1>1, UnfoldsOnce
<1>3. Len(s) # 0 => FlattenSeq(s) = flat[Len(s)]
  BY DEF FlattenSeq, Unfolds
<1> QED
  BY <1>2, <1>3

\* Every sequence unfolds.
LEMMA UnfoldsAlways ==
  ASSUME NEW s, Len(s) \in Nat
  PROVE  \E g : Unfolds(g, s)
<1> DEFINE Upto(m, g) == g = [j \in 1 .. m |-> IF j = 1 THEN s[j] ELSE g[j - 1] \o s[j]]
           T == {m \in Nat : \E g : Upto(m, g)}
<1>1. 0 \in T
  <2> DEFINE none == [j \in 1 .. 0 |-> s[j]]
  <2>1. Upto(0, none)
    OBVIOUS
  <2> QED
    BY <2>1
<1>2. ASSUME NEW m \in Nat, m \in T PROVE m + 1 \in T
  <2>1. PICK g : Upto(m, g)
    BY <1>2
  <2> DEFINE last == IF m + 1 = 1 THEN s[m + 1] ELSE g[m] \o s[m + 1]
             h    == [j \in 1 .. (m + 1) |-> IF j = m + 1 THEN last ELSE g[j]]
  <2>2. ASSUME NEW j \in 1 .. (m + 1)
        PROVE  h[j] = IF j = 1 THEN s[j] ELSE h[j - 1] \o s[j]
    <3>1. CASE j = m + 1
      <4>1. h[j] = last
        BY <3>1
      <4>2. j # 1 => h[j - 1] = g[m]
        <5> SUFFICES ASSUME j # 1 PROVE h[j - 1] = g[m]
          OBVIOUS
        <5>1. j - 1 = m /\ m \in 1 .. (m + 1) /\ m # m + 1
          BY <3>1
        <5> HIDE DEF last
        <5> QED
          BY <5>1
      <4> HIDE DEF h
      <4> QED
        BY <3>1, <4>1, <4>2
    <3>2. CASE j # m + 1
      <4>1. j \in 1 .. m /\ (j # 1 => j - 1 \in 1 .. (m + 1) /\ j - 1 # m + 1)
        BY <3>2
      <4>2. g[j] = IF j = 1 THEN s[j] ELSE g[j - 1] \o s[j]
        BY <2>1, <4>1
      <4>3. h[j] = g[j] /\ (j # 1 => h[j - 1] = g[j - 1])
        <5> HIDE DEF last
        <5> QED
          BY <3>2, <4>1
      <4> HIDE DEF h
      <4> QED
        BY <4>2, <4>3
    <3> QED
      BY <3>1, <3>2
  <2>3. h = [j \in 1 .. (m + 1) |-> h[j]]
    OBVIOUS
  <2> HIDE DEF h
  <2>4. h = [j \in 1 .. (m + 1) |-> IF j = 1 THEN s[j] ELSE h[j - 1] \o s[j]]
    BY <2>2, <2>3
  <2>5. Upto(m + 1, h)
    BY <2>4
  <2> HIDE DEF Upto
  <2>6. m + 1 \in Nat /\ \E f : Upto(m + 1, f)
    BY <2>5
  <2> QED
    BY <2>6
<1> HIDE DEF T
<1>3. Len(s) \in T
  BY <1>1, <1>2, InductionOver
<1> QED
  BY <1>3 DEF T, Unfolds

\* A flattening has the elements of its parts, and no others.
LEMMA FlattenElements ==
  ASSUME NEW S, NEW s \in Seq(Seq(S))
  PROVE  LET flat == FlattenSeq(s)
         IN  /\ flat \in Seq(S)
             /\ \A j \in 1 .. Len(flat) : \E k \in 1 .. Len(s) : \E l \in 1 .. Len(s[k]) : flat[j] = s[k][l]
             /\ \A k \in 1 .. Len(s) : \A l \in 1 .. Len(s[k]) :
                  \E j \in 1 .. Len(flat) : flat[j] = s[k][l]
<1> DEFINE flat == FlattenSeq(s)
<1>1. CASE Len(s) = 0
  <2>1. flat = s /\ s = <<>>
    BY <1>1 DEF FlattenSeq
  <2>2. flat \in Seq(S) /\ Len(flat) = 0
    BY <2>1
  <2> HIDE DEF flat
  <2> QED
    BY <1>1, <2>2 DEF flat
<1>2. CASE Len(s) # 0
  <2>1. PICK g : Unfolds(g, s)
    BY UnfoldsAlways
  <2>2. \A j \in 1 .. Len(s) : g[j] = IF j = 1 THEN s[j] ELSE g[j - 1] \o s[j]
    BY <2>1 DEF Unfolds
  <2> DEFINE Good(m) ==
        /\ g[m] \in Seq(S)
        /\ \A j \in 1 .. Len(g[m]) : \E k \in 1 .. m : \E l \in 1 .. Len(s[k]) : g[m][j] = s[k][l]
        /\ \A k \in 1 .. m : \A l \in 1 .. Len(s[k]) : \E j \in 1 .. Len(g[m]) : g[m][j] = s[k][l]
             T == {m \in Nat : m \in 1 .. Len(s) => Good(m)}
  <2>3. 0 \in T
    OBVIOUS
  <2>4. ASSUME NEW m \in Nat, m \in T PROVE m + 1 \in T
    <3> SUFFICES ASSUME m + 1 \in 1 .. Len(s) PROVE Good(m + 1)
      OBVIOUS
    <3>1. s[m + 1] \in Seq(S) /\ Len(s[m + 1]) \in Nat
      OBVIOUS
    <3>2. CASE m = 0
      <4>1. m + 1 = 1 /\ g[1] = s[1] /\ s[1] \in Seq(S)
        BY <2>2, <3>1, <3>2
      <4>2. \A k \in 1 .. 1 : k = 1
        OBVIOUS
      <4> HIDE DEF T
      <4>3. Good(1)
        BY <4>1, <4>2
      <4> HIDE DEF Good
      <4> QED
        BY <4>1, <4>3
    <3>3. CASE m # 0
      <4>1. m \in 1 .. Len(s) /\ m + 1 # 1 /\ (m + 1) - 1 = m
        BY <3>3
      <4>2. Good(m)
        BY <2>4, <4>1
      <4>3. g[m + 1] = g[m] \o s[m + 1]
        <5>1. g[m + 1] = g[(m + 1) - 1] \o s[m + 1]
          BY <2>2, <4>1
        <5> QED
          BY <4>1, <5>1
      <4> DEFINE a == g[m]
                 b == s[m + 1]
      <4>4. a \in Seq(S) /\ b \in Seq(S)
        BY <3>1, <4>2
      <4> HIDE DEF a, b, T
      <4>5. /\ a \o b \in Seq(S) /\ Len(a \o b) = Len(a) + Len(b)
            /\ \A j \in 1 .. (Len(a) + Len(b)) :
                 (a \o b)[j] = IF j <= Len(a) THEN a[j] ELSE b[j - Len(a)]
        BY <4>4, ConcatProperties
      <4>6. Len(a) \in Nat /\ Len(b) \in Nat
        BY <4>4
      <4>7. ASSUME NEW j \in 1 .. Len(a \o b)
            PROVE  \E k \in 1 .. (m + 1) : \E l \in 1 .. Len(s[k]) : (a \o b)[j] = s[k][l]
        <5>1. CASE j <= Len(a)
          <6>1. (a \o b)[j] = a[j] /\ j \in 1 .. Len(a)
            BY <4>5, <4>6, <5>1
          <6>2. PICK k \in 1 .. m : \E l \in 1 .. Len(s[k]) : a[j] = s[k][l]
            BY <4>2, <6>1 DEF a
          <6>3. k \in 1 .. (m + 1)
            OBVIOUS
          <6> QED
            BY <6>1, <6>2, <6>3
        <5>2. CASE j > Len(a)
          <6>1. (a \o b)[j] = b[j - Len(a)] /\ j - Len(a) \in 1 .. Len(b)
            BY <4>5, <4>6, <5>2
          <6>2. m + 1 \in 1 .. (m + 1)
            OBVIOUS
          <6> QED
            BY <6>1, <6>2 DEF b
        <5> QED
          BY <4>5, <4>6, <5>1, <5>2
      <4>8. ASSUME NEW k \in 1 .. (m + 1), NEW l \in 1 .. Len(s[k])
            PROVE  \E j \in 1 .. Len(a \o b) : (a \o b)[j] = s[k][l]
        <5>1. CASE k = m + 1
          <6>1. l \in 1 .. Len(b)
            BY <5>1 DEF b
          <6>2. l + Len(a) \in 1 .. Len(a \o b) /\ l + Len(a) > Len(a) /\ (l + Len(a)) - Len(a) = l
            BY <4>5, <4>6, <6>1
          <6>3. (a \o b)[l + Len(a)] = b[l]
            BY <4>5, <4>6, <6>2
          <6> QED
            BY <5>1, <6>2, <6>3 DEF b
        <5>2. CASE k # m + 1
          <6>1. k \in 1 .. m
            BY <5>2
          <6>2. PICK j \in 1 .. Len(a) : a[j] = s[k][l]
            BY <4>2, <6>1 DEF a
          <6>3. j \in 1 .. Len(a \o b) /\ (a \o b)[j] = a[j]
            BY <4>5, <4>6
          <6> QED
            BY <6>2, <6>3
        <5> QED
          BY <5>1, <5>2
      <4>9. g[m + 1] = a \o b
        BY <4>3 DEF a, b
      <4>10. PICK w : w = g[m + 1]
        OBVIOUS
      <4>11. w = a \o b
        BY <4>9, <4>10
      <4>12. /\ w \in Seq(S)
             /\ \A j \in 1 .. Len(w) :
                  \E k \in 1 .. (m + 1) : \E l \in 1 .. Len(s[k]) : w[j] = s[k][l]
             /\ \A k \in 1 .. (m + 1) : \A l \in 1 .. Len(s[k]) :
                  \E j \in 1 .. Len(w) : w[j] = s[k][l]
        BY <4>5, <4>7, <4>8, <4>11
      <4> QED
        BY <4>10, <4>12, Zenon
    <3> QED
      BY <3>2, <3>3
  <2> HIDE DEF T
  <2>5. \A m \in Nat : m \in T
    BY <2>3, <2>4, InductionOver
  <2> HIDE DEF Good
  <2>6. Good(Len(s)) /\ flat = g[Len(s)]
    <3>1. Len(s) \in Nat /\ Len(s) \in 1 .. Len(s)
      BY <1>2
    <3>2. flat = g[Len(s)]
      BY <1>2, <2>1, <3>1, FlattenValue
    <3> QED
      BY <2>5, <3>1, <3>2 DEF T
  <2> HIDE DEF flat
  <2> QED
    BY <2>6 DEF Good, flat
<1> QED
  BY <1>1, <1>2

-----------------------------------------------------------------------------
(***************************************************************************)
(* Prefixes                                                                *)
(***************************************************************************)

\* A shorter sequence with the same elements is a strict prefix.
LEMMA StrictPrefix ==
  ASSUME NEW S, NEW s \in Seq(S), NEW w \in Seq(S), Len(s) < Len(w),
         \A l \in 1 .. Len(s) : s[l] = w[l]
  PROVE  IsStrictPrefix(s, w)
<1>1. SubSeq(s, 1, Len(s)) = [l \in 1 .. Len(s) |-> s[l]]
  OBVIOUS
<1>2. SubSeq(w, 1, Len(s)) = [l \in 1 .. Len(s) |-> w[l]]
  OBVIOUS
<1>3. SubSeq(s, 1, Len(s)) = SubSeq(w, 1, Len(s))
  BY <1>1, <1>2
<1>4. s # w /\ Len(s) <= Len(w)
  OBVIOUS
<1> QED
  BY <1>3, <1>4 DEF IsStrictPrefix, IsPrefix

\* A sequence with the first elements of another is a prefix of it.
LEMMA PrefixIs ==
  ASSUME NEW S, NEW s \in Seq(S), NEW w \in Seq(S), Len(s) <= Len(w),
         \A l \in 1 .. Len(s) : s[l] = w[l]
  PROVE  IsPrefix(s, w) /\ (Len(s) = Len(w) => s = w)
<1>1. SubSeq(s, 1, Len(s)) = [l \in 1 .. Len(s) |-> s[l]]
  OBVIOUS
<1>2. SubSeq(w, 1, Len(s)) = [l \in 1 .. Len(s) |-> w[l]]
  OBVIOUS
<1>3. SubSeq(s, 1, Len(s)) = SubSeq(w, 1, Len(s))
  BY <1>1, <1>2
<1>4. Len(s) = Len(w) => s = w
  OBVIOUS
<1> QED
  BY <1>3, <1>4 DEF IsPrefix
=============================================================================
