--------------------------- MODULE FallbackProofs ---------------------------
(***************************************************************************)
(* Proofs about the English rules, for any rule table, alphabet and        *)
(* surface.                                                                *)
(***************************************************************************)
EXTENDS Fallback, SequenceLemmas

(***************************************************************************)
(* Stripping                                                               *)
(***************************************************************************)

\* What is left without apostrophes are the other elements, all of them.
LEMMA Stripped ==
  ASSUME NEW s, IsSequence(s)
  PROVE  LET w == WithoutApostrophes(s)
         IN  /\ w \in Seq({s[l] : l \in 1 .. Len(s)} \ {"'"})
             /\ \A l \in 1 .. Len(s) : s[l] # "'" => \E j \in 1 .. Len(w) : w[j] = s[l]
<1> DEFINE S     == {s[l] : l \in 1 .. Len(s)} \ {"'"}
           parts == [l \in 1 .. Len(s) |-> IF s[l] = "'" THEN <<>> ELSE <<s[l]>>]
           w     == FlattenSeq(parts)
<1>1. Len(s) \in Nat /\ DOMAIN s = 1 .. Len(s)
  BY DEF IsSequence
<1>2. WithoutApostrophes(s) = w
  BY <1>1 DEF WithoutApostrophes
<1>3. \A l \in 1 .. Len(s) : s[l] # "'" => s[l] \in S
  OBVIOUS
<1> HIDE DEF S
<1>4. \A l \in 1 .. Len(s) : (IF s[l] = "'" THEN <<>> ELSE <<s[l]>>) \in Seq(S)
  BY <1>3
<1>5. parts \in Seq(Seq(S)) /\ Len(parts) = Len(s)
  BY <1>1, <1>4
<1>6. \A l \in 1 .. Len(s) : s[l] # "'" => parts[l] = <<s[l]>>
  OBVIOUS
<1> HIDE DEF parts
<1>7. /\ w \in Seq(S)
      /\ \A l \in 1 .. Len(parts) : \A h \in 1 .. Len(parts[l]) :
           \E j \in 1 .. Len(w) : w[j] = parts[l][h]
  BY <1>5, FlattenElements
<1> HIDE DEF w
<1>8. ASSUME NEW l \in 1 .. Len(s), s[l] # "'"
      PROVE  \E j \in 1 .. Len(w) : w[j] = s[l]
  <2>1. parts[l] = <<s[l]>> /\ l \in 1 .. Len(parts)
    BY <1>5, <1>6, <1>8
  <2>2. 1 \in 1 .. Len(parts[l]) /\ parts[l][1] = s[l]
    BY <2>1
  <2> QED
    BY <1>7, <2>1, <2>2
<1> QED
  BY <1>2, <1>7, <1>8 DEF S

\* An acceptable character is a letter, or an apostrophe and not folded.
LEMMA Characters ==
  ASSUME NEW c
  PROVE  /\ Acceptable(c) <=> Folded(c) \in Letters \/ Folded(c) = "'"
         /\ ~Acceptable(c) => Folded(c) # "'" /\ Folded(c) \notin Letters
BY DEF Acceptable

FoldedText(s) == [l \in DOMAIN s |-> Folded(s[l])]

\* A surface of acceptable characters has letters alone when it is stripped.
LEMMA AcceptedText ==
  ASSUME NEW s, IsSequence(s), \A l \in 1 .. Len(s) : Acceptable(s[l])
  PROVE  LettersOf(s) \in Seq(Letters)
<1> DEFINE f == FoldedText(s)
           S == {f[l] : l \in 1 .. Len(f)} \ {"'"}
<1>1. DOMAIN s = 1 .. Len(s) /\ Len(s) \in Nat
  BY DEF IsSequence
<1>2. IsSequence(f) /\ Len(f) = Len(s) /\ \A l \in 1 .. Len(s) : f[l] = Folded(s[l])
  BY <1>1 DEF IsSequence, FoldedText
<1>3. LettersOf(s) = WithoutApostrophes(f)
  BY DEF LettersOf, FoldedText
<1> HIDE DEF f
<1>4. LettersOf(s) \in Seq(S)
  BY <1>2, <1>3, Stripped
<1>5. S \subseteq Letters
  BY <1>2, Characters
<1> HIDE DEF S
<1> QED
  BY <1>4, <1>5

\* A surface with another character has not.
LEMMA RejectedText ==
  ASSUME NEW s, IsSequence(s), NEW l \in 1 .. Len(s), ~Acceptable(s[l])
  PROVE  LettersOf(s) \notin Seq(Letters)
<1> DEFINE f == FoldedText(s)
           w == WithoutApostrophes(f)
<1>1. DOMAIN s = 1 .. Len(s) /\ Len(s) \in Nat
  BY DEF IsSequence
<1>2. IsSequence(f) /\ Len(f) = Len(s) /\ f[l] = Folded(s[l])
  BY <1>1 DEF IsSequence, FoldedText
<1>3. LettersOf(s) = w
  BY DEF LettersOf, FoldedText
<1>4. f[l] # "'" /\ f[l] \notin Letters
  BY <1>2, Characters
<1> HIDE DEF f
<1>5. PICK j \in 1 .. Len(w) : w[j] = f[l]
  <2>1. \A h \in 1 .. Len(f) : f[h] # "'" => \E j \in 1 .. Len(w) : w[j] = f[h]
    BY <1>2, Stripped
  <2> QED
    BY <1>2, <1>4, <2>1
<1> HIDE DEF w
<1> QED
  BY <1>3, <1>4, <1>5

-----------------------------------------------------------------------------
(***************************************************************************)
(* The decomposition                                                       *)
(***************************************************************************)

\* f is the table of decompositions of s from each of its characters.
Decomposes(f, rules, s) ==
  f = [k \in 1 .. (Len(s) + 1) |->
         IF k = Len(s) + 1 THEN <<>>
         ELSE LET r == LongestRule(rules, s, k) IN r.symbols \o f[k + Len(r.grapheme)]]

From(rules, s) == CHOOSE f : Decomposes(f, rules, s)

LEMMA DecompositionIs ==
  ASSUME NEW rules, NEW s
  PROVE  Decomposition(rules, s) = From(rules, s)[1]
BY DEF Decomposition, From, Decomposes

\* f is defined on 1 .. N + 1 from the right, by jumps forward.
FilledFrom(f, N, syms, jump) ==
  f = [k \in 1 .. (N + 1) |-> IF k = N + 1 THEN <<>> ELSE syms[k] \o f[jump[k]]]

\* There is such a function.
LEMMA FromTheRight ==
  ASSUME NEW N \in Nat, NEW syms, NEW jump \in [1 .. N -> Nat],
         \A k \in 1 .. N : k < jump[k] /\ jump[k] <= N + 1
  PROVE  \E f : FilledFrom(f, N, syms, jump)
<1> DEFINE Filled(l, f) ==
             f = [k \in l .. (N + 1) |-> IF k = N + 1 THEN <<>> ELSE syms[k] \o f[jump[k]]]
           T == {m \in Nat : m <= N => \E f : Filled(N + 1 - m, f)}
<1> HIDE DEF Filled
<1>1. 0 \in T
  <2> DEFINE h == [k \in (N + 1) .. (N + 1) |-> <<>>]
  <2>1. \A k \in (N + 1) .. (N + 1) : k = N + 1
    OBVIOUS
  <2>2. Filled(N + 1, h)
    BY <2>1 DEF Filled
  <2> HIDE DEF h
  <2>3. N + 1 - 0 = N + 1
    OBVIOUS
  <2>4. 0 \in Nat /\ \E f : Filled(N + 1 - 0, f)
    BY <2>2, <2>3, Zenon
  <2> QED
    BY <2>4
<1>2. ASSUME NEW m \in Nat, m \in T PROVE m + 1 \in T
  <2> SUFFICES ASSUME m + 1 <= N PROVE \E f : Filled(N + 1 - (m + 1), f)
    OBVIOUS
  <2>1. PICK f : Filled(N + 1 - m, f)
    BY <1>2
  <2> DEFINE p == N - m
             h == [k \in p .. (N + 1) |-> IF k = p THEN syms[k] \o f[jump[k]] ELSE f[k]]
  <2>2. p \in 1 .. N /\ N + 1 - m = p + 1 /\ N + 1 - (m + 1) = p
    OBVIOUS
  <2>3. f = [k \in (p + 1) .. (N + 1) |-> IF k = N + 1 THEN <<>> ELSE syms[k] \o f[jump[k]]]
    BY <2>1, <2>2 DEF Filled
  <2> HIDE DEF p, T
  <2>4. ASSUME NEW k \in p .. (N + 1)
        PROVE  h[k] = IF k = N + 1 THEN <<>> ELSE syms[k] \o h[jump[k]]
    <3>1. CASE k = N + 1
      <4>1. h[k] = f[k] /\ k \in (p + 1) .. (N + 1)
        BY <2>2, <3>1
      <4>2. f[k] = <<>>
        BY <2>3, <3>1, <4>1
      <4> QED
        BY <3>1, <4>1, <4>2
    <3>2. CASE k # N + 1
      <4>1. k \in 1 .. N /\ jump[k] \in (p + 1) .. (N + 1)
        BY <2>2, <3>2
      <4>2. h[jump[k]] = f[jump[k]]
        BY <2>2, <4>1
      <4>3. h[k] = syms[k] \o f[jump[k]]
        <5>1. CASE k = p
          BY <2>2, <5>1
        <5>2. CASE k # p
          <6>1. k \in (p + 1) .. (N + 1)
            BY <2>2, <5>2
          <6>2. h[k] = f[k]
            BY <5>2
          <6>3. f[k] = syms[k] \o f[jump[k]]
            BY <2>3, <3>2, <6>1
          <6> QED
            BY <6>2, <6>3
        <5> QED
          BY <5>1, <5>2
      <4> QED
        BY <3>2, <4>2, <4>3
    <3> QED
      BY <3>1, <3>2
  <2>5. h = [k \in p .. (N + 1) |-> h[k]]
    OBVIOUS
  <2> HIDE DEF h
  <2>6. h = [k \in p .. (N + 1) |-> IF k = N + 1 THEN <<>> ELSE syms[k] \o h[jump[k]]]
    BY <2>4, <2>5
  <2>7. Filled(p, h)
    BY <2>6 DEF Filled
  <2> QED
    BY <2>2, <2>7, Zenon
<1> HIDE DEF T
<1>3. N \in T
  BY <1>1, <1>2, InductionOver
<1>4. N <= N /\ N + 1 - N = 1
  OBVIOUS
<1>5. \E f : Filled(1, f)
  <2>1. \E f : Filled(N + 1 - N, f)
    BY <1>3, <1>4 DEF T
  <2> QED
    BY <1>4, <2>1, Zenon
<1> QED
  BY <1>5 DEF Filled, FilledFrom

\* What validateRules says of a rule of the table.
LEMMA ValidRule ==
  ASSUME table \in Tables, Valid, NEW r \in Range(table)
  PROVE  /\ IsSequence(r.grapheme) /\ Len(r.grapheme) >= 1
         /\ Len(r.grapheme) <= maxLen
         /\ r.symbols \in Seq(Inventory)
         /\ \E q \in DOMAIN table : table[q] = r
<1>1. PICK q \in DOMAIN table : table[q] = r
  BY DEF Range
<1>2. IsSequence(r.grapheme) /\ IsSequence(r.symbols)
  BY <1>1, TablesAssumption
<1>3. /\ r.grapheme # <<>> /\ Len(r.grapheme) <= maxLen
      /\ \A j \in DOMAIN r.symbols : r.symbols[j] \in Inventory
  BY <1>1 DEF Valid
<1>4. Len(r.grapheme) # 0
  <2> SUFFICES ASSUME Len(r.grapheme) = 0 PROVE FALSE
    OBVIOUS
  <2>1. r.grapheme = [j \in {} |-> r.grapheme[j]]
    BY <1>2 DEF IsSequence
  <2>2. r.grapheme = <<>>
    BY <2>1
  <2> QED
    BY <1>3, <2>2
<1>5. r.symbols \in Seq(Inventory)
  <2>1. Len(r.symbols) \in Nat /\ r.symbols = [j \in 1 .. Len(r.symbols) |-> r.symbols[j]]
    BY <1>2 DEF IsSequence
  <2>2. \A j \in 1 .. Len(r.symbols) : r.symbols[j] \in Inventory
    BY <1>3, <2>1
  <2> QED
    BY <2>1, <2>2
<1>6. Len(r.grapheme) \in Nat
  BY <1>2 DEF IsSequence
<1> QED
  BY <1>1, <1>2, <1>3, <1>4, <1>5, <1>6

\* A valid table has a rule for every letter, and a longest rule.
LEMMA LongestExists ==
  ASSUME table \in Tables, Valid, maxLen \in Nat, NEW s \in Seq(Letters), NEW k \in 1 .. Len(s)
  PROVE  /\ LongestRule(table, s, k) \in RulesAt(table, s, k)
         /\ \A q \in RulesAt(table, s, k) : Len(q.grapheme) <= Len(LongestRule(table, s, k).grapheme)
<1>1. \A r \in RulesAt(table, s, k) : Len(r.grapheme) \in Nat /\ maxLen - Len(r.grapheme) \in Nat
  <2> SUFFICES ASSUME NEW r \in RulesAt(table, s, k)
               PROVE  Len(r.grapheme) \in Nat /\ maxLen - Len(r.grapheme) \in Nat
    OBVIOUS
  <2>1. r \in Range(table)
    BY DEF RulesAt
  <2>2. IsSequence(r.grapheme) /\ Len(r.grapheme) <= maxLen
    BY <2>1, ValidRule
  <2> QED
    BY <2>2 DEF IsSequence
<1>2. RulesAt(table, s, k) # {}
  <2>1. s[k] \in Letters /\ Len(s) \in Nat
    OBVIOUS
  <2>2. PICK r \in Range(table) : r.grapheme = <<s[k]>>
    <3>1. <<s[k]>> \in Graphemes
      BY <2>1 DEF Valid
    <3>2. PICK q \in DOMAIN table : <<s[k]>> = table[q].grapheme
      BY <3>1 DEF Graphemes
    <3>3. table[q] \in Range(table)
      BY DEF Range
    <3> QED
      BY <3>2, <3>3
  <2>3. Len(r.grapheme) = 1 /\ Len(s) - k + 1 >= 1 /\ k + 1 - 1 = k
    BY <2>1, <2>2
  <2>4. SubSeq(s, k, k) = <<s[k]>>
    <3> DEFINE one == SubSeq(s, k, k)
    <3>1. one \in Seq(Letters) /\ Len(one) = 1 /\ one[1] = s[k]
      BY <2>1, SubSeqProperties
    <3> HIDE DEF one
    <3>2. one = <<one[1]>>
      BY <3>1
    <3> QED
      BY <3>1, <3>2 DEF one
  <2>5. r \in RulesAt(table, s, k)
    BY <2>2, <2>3, <2>4 DEF RulesAt
  <2> QED
    BY <2>5
<1> DEFINE shortfalls == {maxLen - Len(r.grapheme) : r \in RulesAt(table, s, k)}
<1>3. PICK m \in shortfalls : \A h \in shortfalls : m <= h
  <2>1. shortfalls \subseteq Nat /\ shortfalls # {}
    BY <1>1, <1>2
  <2> HIDE DEF shortfalls
  <2> QED
    BY <2>1, LeastNumber
<1>4. PICK r \in RulesAt(table, s, k) : m = maxLen - Len(r.grapheme)
  OBVIOUS
<1>5. \A q \in RulesAt(table, s, k) : Len(q.grapheme) <= Len(r.grapheme)
  <2> SUFFICES ASSUME NEW q \in RulesAt(table, s, k) PROVE Len(q.grapheme) <= Len(r.grapheme)
    OBVIOUS
  <2>1. maxLen - Len(r.grapheme) <= maxLen - Len(q.grapheme)
    BY <1>3, <1>4
  <2> QED
    BY <1>1, <2>1
<1> QED
  BY <1>5 DEF LongestRule

\* The longest rule at k fits in the rest of the text.
LEMMA LongestFits ==
  ASSUME table \in Tables, Valid, maxLen \in Nat, NEW s \in Seq(Letters), NEW k \in 1 .. Len(s)
  PROVE  LET r == LongestRule(table, s, k)
         IN  /\ r \in Range(table)
             /\ Len(r.grapheme) \in 1 .. (Len(s) - k + 1)
             /\ SubSeq(s, k, k + Len(r.grapheme) - 1) = r.grapheme
             /\ r.symbols \in Seq(Inventory)
<1> DEFINE r == LongestRule(table, s, k)
<1>1. /\ r \in Range(table) /\ Len(r.grapheme) <= Len(s) - k + 1
      /\ SubSeq(s, k, k + Len(r.grapheme) - 1) = r.grapheme
  BY LongestExists DEF RulesAt
<1>2. Len(r.grapheme) \in Nat /\ Len(r.grapheme) >= 1 /\ r.symbols \in Seq(Inventory)
  BY <1>1, ValidRule DEF IsSequence
<1> HIDE DEF r
<1>3. Len(r.grapheme) \in 1 .. (Len(s) - k + 1)
  BY <1>1, <1>2
<1> QED
  BY <1>1, <1>2, <1>3 DEF r

\* So the decomposition is well defined, and made of symbols of the inventory.
LEMMA FromIs ==
  ASSUME table \in Tables, Valid, maxLen \in Nat, NEW s \in Seq(Letters)
  PROVE  /\ From(table, s)[Len(s) + 1] = <<>>
         /\ \A k \in 1 .. Len(s) :
              From(table, s)[k] = LongestRule(table, s, k).symbols \o From(table, s)[k + Len(LongestRule(table, s, k).grapheme)]
         /\ \A k \in 1 .. (Len(s) + 1) : From(table, s)[k] \in Seq(Inventory)
<1> DEFINE N     == Len(s)
           syms  == [k \in 1 .. N |-> LongestRule(table, s, k).symbols]
           jump  == [k \in 1 .. N |-> k + Len(LongestRule(table, s, k).grapheme)]
<1>1. N \in Nat
  OBVIOUS
<1>2. \A k \in 1 .. N : /\ jump[k] = k + Len(LongestRule(table, s, k).grapheme)
                        /\ jump[k] \in Nat /\ k < jump[k] /\ jump[k] <= N + 1
                        /\ syms[k] = LongestRule(table, s, k).symbols
                        /\ syms[k] \in Seq(Inventory)
  <2> SUFFICES ASSUME NEW k \in 1 .. N
               PROVE  /\ k + Len(LongestRule(table, s, k).grapheme) \in (k + 1) .. (N + 1)
                      /\ LongestRule(table, s, k).symbols \in Seq(Inventory)
    BY <1>1
  <2>1. /\ Len(LongestRule(table, s, k).grapheme) \in 1 .. (N - k + 1)
        /\ LongestRule(table, s, k).symbols \in Seq(Inventory)
    BY LongestFits
  <2> QED
    BY <1>1, <2>1
<1>3. jump \in [1 .. N -> Nat]
  BY <1>2
<1> HIDE DEF N, jump, syms
<1>4. PICK f : FilledFrom(f, N, syms, jump)
  <2>1. \A k \in 1 .. N : k < jump[k] /\ jump[k] <= N + 1
    BY <1>2
  <2> QED
    BY <1>1, <1>3, <2>1, FromTheRight, Zenon
<1>5. Decomposes(f, table, s)
  <2>1. \A k \in 1 .. (N + 1) : k # N + 1 =>
          syms[k] \o f[jump[k]] = LongestRule(table, s, k).symbols \o f[k + Len(LongestRule(table, s, k).grapheme)]
    <3> SUFFICES ASSUME NEW k \in 1 .. (N + 1), k # N + 1
                 PROVE  syms[k] \o f[jump[k]]
                          = LongestRule(table, s, k).symbols \o f[k + Len(LongestRule(table, s, k).grapheme)]
      OBVIOUS
    <3>1. k \in 1 .. N
      BY <1>1
    <3>2. jump[k] = k + Len(LongestRule(table, s, k).grapheme) /\ syms[k] = LongestRule(table, s, k).symbols
      BY <1>2, <3>1
    <3> QED
      BY <3>2, Zenon
  <2> QED
    BY <1>4, <2>1 DEF Decomposes, FilledFrom, N
<1> DEFINE F == From(table, s)
<1>6. Decomposes(F, table, s)
  BY <1>5 DEF From
<1> HIDE DEF F
<1>7. /\ F[N + 1] = <<>>
      /\ \A k \in 1 .. N : F[k] = LongestRule(table, s, k).symbols \o F[k + Len(LongestRule(table, s, k).grapheme)]
  <2>1. \A k \in 1 .. (N + 1) :
          F[k] = IF k = N + 1 THEN <<>>
                 ELSE LongestRule(table, s, k).symbols \o F[k + Len(LongestRule(table, s, k).grapheme)]
    BY <1>6 DEF Decomposes, N
  <2>2. N + 1 \in 1 .. (N + 1) /\ \A k \in 1 .. N : k \in 1 .. (N + 1) /\ k # N + 1
    BY <1>1
  <2> QED
    BY <2>1, <2>2
<1>8. \A k \in 1 .. (N + 1) : F[k] \in Seq(Inventory)
  <2> DEFINE Typed(m) == \A k \in 1 .. (N + 1) : N + 1 - k <= m => F[k] \in Seq(Inventory)
             T == {m \in Nat : Typed(m)}
  <2>1. Typed(0)
    <3>1. \A k \in 1 .. (N + 1) : N + 1 - k <= 0 => k = N + 1
      BY <1>1
    <3>2. <<>> \in Seq(Inventory)
      OBVIOUS
    <3> QED
      BY <1>7, <3>1, <3>2
  <2>2. ASSUME NEW m \in Nat, Typed(m) PROVE Typed(m + 1)
    <3> SUFFICES ASSUME NEW k \in 1 .. (N + 1), N + 1 - k <= m + 1 PROVE F[k] \in Seq(Inventory)
      OBVIOUS
    <3>1. CASE k = N + 1
      <4>1. F[k] = <<>>
        BY <1>7, <3>1, Zenon
      <4>2. <<>> \in Seq(Inventory)
        OBVIOUS
      <4> QED
        BY <4>1, <4>2, Zenon
    <3>2. CASE k # N + 1
      <4>1. k \in 1 .. N
        BY <1>1, <3>2
      <4>2. jump[k] \in Nat /\ k < jump[k] /\ jump[k] <= N + 1
        BY <1>2, <4>1, Zenon
      <4>3. jump[k] \in 1 .. (N + 1) /\ N + 1 - jump[k] <= m
        BY <1>1, <4>1, <4>2
      <4>4. F[jump[k]] \in Seq(Inventory) /\ syms[k] \in Seq(Inventory)
        BY <1>2, <2>2, <4>1, <4>3
      <4>5. F[k] = syms[k] \o F[jump[k]]
        BY <1>2, <1>7, <4>1
      <4> QED
        BY <4>4, <4>5
    <3> QED
      BY <3>1, <3>2
  <2> HIDE DEF Typed
  <2>3. 0 \in T /\ \A m \in Nat : m \in T => m + 1 \in T
    BY <2>1, <2>2
  <2> HIDE DEF T
  <2>4. N \in T
    BY <1>1, <2>3, InductionOver
  <2>5. \A k \in 1 .. (N + 1) : N + 1 - k <= N
    BY <1>1
  <2> QED
    BY <2>4, <2>5 DEF T, Typed
<1> QED
  BY <1>7, <1>8 DEF N, F



-----------------------------------------------------------------------------
(***************************************************************************)
(* The invariant                                                           *)
(***************************************************************************)

Scanning == pc \in {"init", "normalize"}

\* The rules that are in the index.
Indexed == IF pc = "init" THEN 1 .. (i - 1) ELSE DOMAIN table

\* The index maps each grapheme to the symbols of one of its rules.
IndexInv ==
  /\ table \in Tables /\ surface \in Surfaces
  /\ i \in Nat \ {0} /\ maxLen \in Nat
  /\ pc \in {"init", "normalize", "match", "done"}
  /\ pc = "init" => i <= Len(table) + 1
  /\ DOMAIN index = {table[r].grapheme : r \in Indexed}
  /\ \A g \in DOMAIN index :
       \E r \in DOMAIN table : table[r].grapheme = g /\ index[g] = table[r].symbols

\* Normalize keeps what it has accepted, and Match gets letters alone.
FoldInv ==
  /\ Scanning => out = <<>> /\ ~eligible
  /\ pc = "init" => folded = <<>>
  /\ pc = "normalize" =>
       /\ i <= Len(surface) + 1
       /\ folded = [l \in 1 .. (i - 1) |-> Folded(surface[l])]
       /\ \A l \in 1 .. (i - 1) : Acceptable(surface[l])
  /\ pc = "match" =>
       ~eligible /\ folded = LettersOf(surface) /\ folded \in Seq(Letters) /\ folded # <<>>

\* What is decomposed, followed by the decomposition of the rest, is the
\* decomposition of all.
MatchInv ==
  Valid =>
    /\ pc = "match" =>
         /\ i <= Len(folded) + 1
         /\ out \in Seq(Inventory)
         /\ out \o From(table, folded)[i] = From(table, folded)[1]
    /\ pc = "done" =>
         /\ out \in Seq(Inventory)
         /\ eligible => LettersOf(surface) \in Seq(Letters) /\ LettersOf(surface) # <<>>
         /\ ~eligible => LettersOf(surface) \notin Seq(Letters) \/ LettersOf(surface) = <<>>
         /\ eligible => out = From(table, LettersOf(surface))[1]

FallbackInv == IndexInv /\ FoldInv /\ MatchInv

LEMMA InitInv == Init => FallbackInv
<1> SUFFICES ASSUME Init PROVE FallbackInv
  OBVIOUS
<1>1. Len(table) \in Nat
  BY TablesAssumption DEF Init, IsSequence
<1>2. IndexInv
  <2>1. DOMAIN index = {} /\ Indexed = {}
    BY DEF Init, Indexed
  <2> QED
    BY <1>1, <2>1 DEF Init, IndexInv
<1>3. FoldInv /\ MatchInv
  BY DEF Init, FoldInv, MatchInv, Scanning
<1> QED
  BY <1>2, <1>3 DEF FallbackInv

\* The verdict of validateRules does not change after the index is built.
LEMMA ValidStays ==
  ASSUME table' = table, maxLen' = maxLen
  PROVE  Valid' <=> Valid
BY DEF Valid, Graphemes

\* The index does not change after it is built.
LEMMA IndexStays ==
  ASSUME IndexInv, pc # "init", pc' \in {"normalize", "match", "done"},
         i' \in Nat \ {0}, UNCHANGED <<table, surface, index, maxLen>>
  PROVE  IndexInv'
<1>1. Indexed' = Indexed
  BY DEF IndexInv, Indexed
<1> QED
  BY <1>1 DEF IndexInv

LEMMA IndexRuleInv ==
  ASSUME FallbackInv, IndexRule
  PROVE  FallbackInv'
<1> DEFINE g == table[i].grapheme
<1>1. /\ i \in Nat \ {0} /\ i <= Len(table) /\ table \in Tables /\ maxLen \in Nat
      /\ Len(table) \in Nat /\ DOMAIN table = 1 .. Len(table)
  BY TablesAssumption DEF FallbackInv, IndexInv, IndexRule, IsSequence
<1>2. i \in DOMAIN table /\ Len(g) \in Nat
  BY <1>1, TablesAssumption DEF IsSequence
<1>3. /\ pc = "init" /\ pc' = "init" /\ i' = i + 1
      /\ index' = [h \in DOMAIN index \cup {g} |-> IF h = g THEN table[i].symbols ELSE index[h]]
      /\ maxLen' = IF Len(g) > maxLen THEN Len(g) ELSE maxLen
      /\ table' = table /\ surface' = surface /\ folded' = folded /\ out' = out
      /\ eligible' = eligible
  BY DEF IndexRule
<1>4. IndexInv'
  <2>1. maxLen' \in Nat /\ i' \in Nat \ {0} /\ i' <= Len(table) + 1
    BY <1>1, <1>2, <1>3
  <2>2. Indexed' = Indexed \cup {i}
    BY <1>1, <1>3 DEF Indexed
  <2>3. DOMAIN index' = {table'[r].grapheme : r \in Indexed'}
    <3>1. DOMAIN index' = {table[r].grapheme : r \in Indexed'}
      BY <1>3, <2>2 DEF FallbackInv, IndexInv
    <3> QED
      BY <1>3, <3>1, Zenon
  <2>4. ASSUME NEW h \in DOMAIN index'
        PROVE  \E r \in DOMAIN table : table[r].grapheme = h /\ index'[h] = table[r].symbols
    BY <1>2, <1>3 DEF FallbackInv, IndexInv
  <2>5. \A h \in DOMAIN index' :
          \E r \in DOMAIN table' : table'[r].grapheme = h /\ index'[h] = table'[r].symbols
    <3>1. table' = table
      BY <1>3
    <3> QED
      BY <2>4, <3>1, Zenon
  <2>6. /\ table' \in Tables /\ surface' \in Surfaces
        /\ i' \in Nat \ {0} /\ maxLen' \in Nat
        /\ pc' \in {"init", "normalize", "match", "done"}
        /\ pc' = "init" => i' <= Len(table') + 1
    BY <1>3, <2>1 DEF FallbackInv, IndexInv
  <2> QED
    BY <2>3, <2>5, <2>6, Zenon DEF IndexInv
<1>5. FoldInv' /\ MatchInv'
  BY <1>3 DEF FallbackInv, FoldInv, MatchInv, Scanning
<1> QED
  BY <1>4, <1>5 DEF FallbackInv

LEMMA IndexEndInv ==
  ASSUME FallbackInv, IndexEnd
  PROVE  FallbackInv'
<1>1. /\ pc = "init" /\ pc' = "normalize" /\ i > Len(table) /\ i' = 1
      /\ UNCHANGED <<table, surface, index, maxLen, folded, out, eligible>>
  BY DEF IndexEnd
<1>2. /\ table \in Tables /\ surface \in Surfaces /\ i \in Nat /\ i <= Len(table) + 1
      /\ Len(table) \in Nat /\ DOMAIN table = 1 .. Len(table) /\ Len(surface) \in Nat
  BY <1>1, TablesAssumption, SurfacesAssumption DEF FallbackInv, IndexInv, IsSequence
<1>3. Indexed' = Indexed
  BY <1>1, <1>2 DEF Indexed
<1>4. IndexInv'
  <2> USE DEF FallbackInv, IndexInv
  <2>0. table' = table /\ index' = index
    BY <1>1
  <2>1. DOMAIN index' = {table'[r].grapheme : r \in Indexed'}
    <3>1. DOMAIN index = {table[r].grapheme : r \in Indexed}
      OBVIOUS
    <3> HIDE DEF FallbackInv, IndexInv
    <3> QED
      BY <1>3, <2>0, <3>1, Zenon
  <2>2. \A g \in DOMAIN index' :
          \E r \in DOMAIN table' : table'[r].grapheme = g /\ index'[g] = table'[r].symbols
    <3>1. \A g \in DOMAIN index :
            \E r \in DOMAIN table : table[r].grapheme = g /\ index[g] = table[r].symbols
      OBVIOUS
    <3> HIDE DEF FallbackInv, IndexInv
    <3> QED
      BY <2>0, <3>1, Zenon
  <2> HIDE DEF FallbackInv, IndexInv
  <2>3. /\ table' \in Tables /\ surface' \in Surfaces
        /\ i' \in Nat \ {0} /\ maxLen' \in Nat
        /\ pc' \in {"init", "normalize", "match", "done"}
        /\ pc' = "init" => i' <= Len(table') + 1
    BY <1>1 DEF FallbackInv, IndexInv
  <2> QED
    BY <2>1, <2>2, <2>3, Zenon DEF IndexInv
<1>5. FoldInv'
  <2>1. folded = <<>> /\ out = <<>> /\ ~eligible
    BY <1>1 DEF FallbackInv, FoldInv, Scanning
  <2>2. 1 .. (i' - 1) = {}
    BY <1>1
  <2>3. folded' = [l \in 1 .. (i' - 1) |-> Folded(surface[l])]
    BY <1>1, <2>1, <2>2
  <2>4. /\ pc' = "normalize" /\ out' = <<>> /\ ~eligible' /\ i' <= Len(surface') + 1
        /\ \A l \in 1 .. (i' - 1) : Acceptable(surface'[l])
    BY <1>1, <1>2, <2>1, <2>2
  <2> QED
    BY <1>1, <2>3, <2>4 DEF FoldInv
<1>6. MatchInv'
  BY <1>1 DEF MatchInv
<1> QED
  BY <1>4, <1>5, <1>6 DEF FallbackInv

LEMMA AcceptCharacterInv ==
  ASSUME FallbackInv, AcceptCharacter
  PROVE  FallbackInv'
<1>1. /\ pc = "normalize" /\ pc' = "normalize" /\ i <= Len(surface) /\ i' = i + 1
      /\ Acceptable(surface[i])
      /\ folded' = Append(folded, Folded(surface[i]))
      /\ UNCHANGED <<table, surface, index, maxLen, out, eligible>>
  BY DEF AcceptCharacter, AtCharacter
<1>2. i \in Nat \ {0} /\ surface \in Surfaces /\ Len(surface) \in Nat
  BY SurfacesAssumption DEF FallbackInv, IndexInv, IsSequence
<1>3. IndexInv'
  BY <1>1, <1>2, IndexStays DEF FallbackInv
<1>4. FoldInv'
  <2> DEFINE done == [l \in 1 .. (i - 1) |-> Folded(surface[l])]
             S    == {Folded(surface[l]) : l \in 1 .. i}
  <2>1. folded = done /\ out = <<>> /\ ~eligible /\ \A l \in 1 .. (i - 1) : Acceptable(surface[l])
    BY <1>1 DEF FallbackInv, FoldInv, Scanning
  <2>2. done \in Seq(S) /\ Len(done) = i - 1 /\ Folded(surface[i]) \in S
    BY <1>2
  <2>3. \A l \in 1 .. (i - 1) : done[l] = Folded(surface[l])
    OBVIOUS
  <2> HIDE DEF done, S
  <2>4. /\ Append(done, Folded(surface[i])) \in Seq(S)
        /\ Len(Append(done, Folded(surface[i]))) = i
        /\ \A l \in 1 .. i : Append(done, Folded(surface[i]))[l] = Folded(surface[l])
    BY <1>2, <2>2, <2>3, AppendProperties
  <2>5. Append(done, Folded(surface[i])) = [l \in 1 .. i |-> Folded(surface[l])]
    BY <2>4
  <2>6. folded' = [l \in 1 .. (i' - 1) |-> Folded(surface'[l])]
    BY <1>1, <1>2, <2>1, <2>5
  <2>7. i' <= Len(surface') + 1 /\ \A l \in 1 .. (i' - 1) : Acceptable(surface'[l])
    BY <1>1, <1>2, <2>1
  <2> QED
    BY <1>1, <2>1, <2>6, <2>7 DEF FoldInv
<1>5. MatchInv'
  BY <1>1 DEF MatchInv
<1> QED
  BY <1>3, <1>4, <1>5 DEF FallbackInv

LEMMA RejectCharacterInv ==
  ASSUME FallbackInv, RejectCharacter
  PROVE  FallbackInv'
<1>1. /\ pc = "normalize" /\ pc' = "done" /\ i <= Len(surface) /\ out' = <<>>
      /\ ~Acceptable(surface[i])
      /\ UNCHANGED <<table, surface, i, index, maxLen, folded, eligible>>
  BY DEF RejectCharacter, AtCharacter, Decline
<1>2. i \in 1 .. Len(surface) /\ IsSequence(surface) /\ i \in Nat \ {0}
  BY <1>1, SurfacesAssumption DEF FallbackInv, IndexInv, IsSequence
<1>3. IndexInv'
  BY <1>1, <1>2, IndexStays DEF FallbackInv
<1>4. ~eligible
  BY <1>1 DEF FallbackInv, FoldInv, Scanning
<1>5. LettersOf(surface) \notin Seq(Letters)
  BY <1>1, <1>2, RejectedText
<1>6. FoldInv'
  BY <1>1 DEF FoldInv, Scanning
<1>7. MatchInv'
  <2>1. <<>> \in Seq(Inventory)
    OBVIOUS
  <2> QED
    BY <1>1, <1>4, <1>5, <2>1 DEF MatchInv
<1> QED
  BY <1>3, <1>6, <1>7 DEF FallbackInv

LEMMA StripInv ==
  ASSUME FallbackInv, Strip
  PROVE  FallbackInv'
<1> DEFINE stripped == WithoutApostrophes(folded)
<1>1. /\ pc = "normalize" /\ i > Len(surface)
      /\ IF stripped = <<>>
           THEN Decline
           ELSE /\ pc' = "match" /\ folded' = stripped /\ i' = 1
                /\ UNCHANGED <<table, surface, index, maxLen, out, eligible>>
  BY DEF Strip
<1>2. /\ IsSequence(surface) /\ i = Len(surface) + 1 /\ Len(surface) \in Nat
      /\ DOMAIN surface = 1 .. Len(surface) /\ table \in Tables /\ maxLen \in Nat
  BY <1>1, SurfacesAssumption DEF FallbackInv, IndexInv, FoldInv, IsSequence
<1>3. out = <<>> /\ ~eligible
  BY <1>1 DEF FallbackInv, FoldInv, Scanning
<1>4. stripped = LettersOf(surface)
  <2>1. folded = [l \in 1 .. (i - 1) |-> Folded(surface[l])]
    BY <1>1 DEF FallbackInv, FoldInv
  <2>2. 1 .. (i - 1) = DOMAIN surface
    BY <1>2
  <2> QED
    BY <2>1, <2>2 DEF LettersOf
<1>5. LettersOf(surface) \in Seq(Letters)
  <2>1. \A l \in 1 .. Len(surface) : Acceptable(surface[l])
    BY <1>1, <1>2 DEF FallbackInv, FoldInv
  <2> QED
    BY <1>2, <2>1, AcceptedText
<1> HIDE DEF stripped
<1>6. CASE stripped = <<>>
  <2>1. /\ pc' = "done" /\ out' = <<>>
        /\ UNCHANGED <<table, surface, i, index, maxLen, folded, eligible>>
    BY <1>1, <1>6 DEF Decline
  <2>2. IndexInv'
    BY <1>1, <1>2, <2>1, IndexStays DEF FallbackInv
  <2>3. FoldInv'
    BY <2>1 DEF FoldInv, Scanning
  <2>4. <<>> \in Seq(Inventory)
    OBVIOUS
  <2>5. MatchInv'
    BY <1>3, <1>4, <1>6, <2>1, <2>4 DEF MatchInv
  <2> QED
    BY <2>2, <2>3, <2>5 DEF FallbackInv
<1>7. CASE stripped # <<>>
  <2>1. /\ pc' = "match" /\ folded' = stripped /\ i' = 1
        /\ UNCHANGED <<table, surface, index, maxLen, out, eligible>>
    BY <1>1, <1>7
  <2>2. IndexInv'
    BY <1>1, <2>1, IndexStays DEF FallbackInv
  <2>3. FoldInv'
    <3>1. LettersOf(surface') = LettersOf(surface)
      BY <2>1
    <3> QED
      BY <1>3, <1>4, <1>5, <1>7, <2>1, <3>1 DEF FoldInv, Scanning
  <2>4. MatchInv'
    <3> SUFFICES ASSUME Valid
                 PROVE  /\ i' <= Len(folded') + 1
                        /\ out' \in Seq(Inventory)
                        /\ out' \o From(table', folded')[i'] = From(table', folded')[1]
      BY <2>1, ValidStays DEF MatchInv
    <3>1. Len(stripped) \in Nat
      BY <1>4, <1>5
    <3>2. 1 \in 1 .. (Len(stripped) + 1)
      BY <3>1
    <3>3. From(table, stripped)[1] \in Seq(Inventory)
      BY <1>2, <1>4, <1>5, <3>2, FromIs
    <3>4. out \in Seq(Inventory)
      BY <1>3
    <3>5. <<>> \o From(table, stripped)[1] = From(table, stripped)[1]
      BY <3>3, ConcatEmptySeq
    <3> QED
      BY <1>3, <2>1, <3>1, <3>4, <3>5
  <2> QED
    BY <2>2, <2>3, <2>4 DEF FallbackInv
<1> QED
  BY <1>6, <1>7

\* Match has a longest candidate, and it is the longest rule's grapheme.
LEMMA CandidateIsRule ==
  ASSUME IndexInv, pc = "match", Valid, folded \in Seq(Letters), NEW k \in 1 .. Len(folded)
  PROVE  LET r == LongestRule(table, folded, k)
         IN  /\ r.grapheme \in Candidates(folded, k)
             /\ \A g \in Candidates(folded, k) :
                  /\ Len(g) \in 1 .. Len(r.grapheme)
                  /\ Len(g) = Len(r.grapheme) => g = r.grapheme /\ index[g] = r.symbols
<1> DEFINE r    == LongestRule(table, folded, k)
           rest == Len(folded) - k + 1
<1>1. table \in Tables /\ maxLen \in Nat /\ Len(folded) \in Nat /\ rest \in Nat /\ rest <= Len(folded)
  BY DEF IndexInv
<1>2. /\ r \in Range(table) /\ Len(r.grapheme) \in 1 .. rest
      /\ SubSeq(folded, k, k + Len(r.grapheme) - 1) = r.grapheme
      /\ Len(r.grapheme) <= maxLen /\ \E q \in DOMAIN table : table[q] = r
  <2>1. /\ r \in Range(table) /\ Len(r.grapheme) \in 1 .. rest
        /\ SubSeq(folded, k, k + Len(r.grapheme) - 1) = r.grapheme
    BY <1>1, LongestFits
  <2> QED
    BY <1>1, <2>1, ValidRule
<1>3. \A q \in RulesAt(table, folded, k) : Len(q.grapheme) <= Len(r.grapheme)
  BY <1>1, LongestExists
<1> HIDE DEF r
<1>4. DOMAIN index = {table[q].grapheme : q \in DOMAIN table}
  <2>1. Indexed = DOMAIN table
    BY DEF Indexed
  <2> QED
    BY <2>1 DEF IndexInv
<1>5. r.grapheme \in Candidates(folded, k)
  <2>1. r.grapheme \in DOMAIN index
    BY <1>2, <1>4
  <2>2. Len(r.grapheme) \in 1 .. (IF maxLen < rest THEN maxLen ELSE rest)
    BY <1>1, <1>2
  <2> QED
    BY <1>2, <2>1, <2>2 DEF Candidates
<1>6. ASSUME NEW g \in Candidates(folded, k)
      PROVE  /\ Len(g) \in 1 .. Len(r.grapheme)
             /\ Len(g) = Len(r.grapheme) => g = r.grapheme /\ index[g] = r.symbols
  <2>1. PICK l \in 1 .. (IF maxLen < rest THEN maxLen ELSE rest) :
          g = SubSeq(folded, k, k + l - 1) /\ g \in DOMAIN index
    BY DEF Candidates
  <2>2. l \in 1 .. rest
    BY <1>1, <2>1
  <2>3. Len(g) = l
    <3>1. \A j \in k .. (k + l - 1) : folded[j] \in Letters
      BY <1>1, <2>2
    <3>2. k \in Int /\ k + l - 1 \in Int /\ k <= k + l - 1 /\ k + l - 1 - k + 1 = l
      BY <2>2
    <3> QED
      BY <2>1, <3>1, <3>2, SubSeqProperties
  <2>4. PICK q \in DOMAIN table : table[q].grapheme = g /\ index[g] = table[q].symbols
    BY <2>1 DEF IndexInv
  <2>5. table[q] \in RulesAt(table, folded, k)
    BY <2>1, <2>2, <2>3, <2>4 DEF RulesAt, Range
  <2>6. Len(g) <= Len(r.grapheme)
    BY <1>3, <2>4, <2>5
  <2>7. ASSUME Len(g) = Len(r.grapheme) PROVE g = r.grapheme /\ index[g] = r.symbols
    <3>1. g = r.grapheme
      BY <1>2, <2>1, <2>3, <2>7
    <3>2. PICK p \in DOMAIN table : table[p] = r
      BY <1>2
    <3>3. p = q
      BY <2>4, <3>1, <3>2 DEF Valid
    <3> QED
      BY <2>4, <3>1, <3>2, <3>3
  <2> QED
    BY <1>2, <2>2, <2>3, <2>6, <2>7
<1> QED
  BY <1>5, <1>6 DEF r

\* A candidate takes at least one character.
LEMMA CandidateAdvances ==
  ASSUME IndexInv, folded \in Seq(Letters), i <= Len(folded), NEW g \in Candidates(folded, i)
  PROVE  Len(g) \in Nat /\ i + Len(g) \in Nat \ {0}
<1>1. i \in Nat \ {0} /\ maxLen \in Nat /\ Len(folded) \in Nat
  BY DEF IndexInv
<1> DEFINE rest == Len(folded) - i + 1
<1>2. PICK l \in 1 .. (IF maxLen < rest THEN maxLen ELSE rest) : g = SubSeq(folded, i, i + l - 1)
  BY DEF Candidates
<1>3. l \in 1 .. rest
  BY <1>1, <1>2
<1>4. \A j \in i .. (i + l - 1) : folded[j] \in Letters
  BY <1>1, <1>3
<1>5. i \in Int /\ i + l - 1 \in Int /\ i <= i + l - 1 /\ i + l - 1 - i + 1 = l
  BY <1>1, <1>3
<1>6. Len(g) = l
  BY <1>2, <1>4, <1>5, SubSeqProperties
<1> QED
  BY <1>1, <1>3, <1>6

LEMMA MatchGraphemeInv ==
  ASSUME FallbackInv, MatchGrapheme
  PROVE  FallbackInv'
<1>1. /\ pc = "match" /\ pc' = "match" /\ i <= Len(folded)
      /\ UNCHANGED <<table, surface, index, maxLen, folded, eligible>>
  BY DEF MatchGrapheme, AtGrapheme
<1>2. PICK g \in Candidates(folded, i) :
        /\ \A h \in Candidates(folded, i) : Len(g) >= Len(h)
        /\ out' = out \o index[g]
        /\ i' = i + Len(g)
  BY DEF MatchGrapheme, Preferred
<1>3. /\ IndexInv /\ folded \in Seq(Letters) /\ Len(folded) \in Nat
      /\ i \in 1 .. Len(folded) /\ table \in Tables /\ maxLen \in Nat
  <2>1. IndexInv /\ folded \in Seq(Letters)
    BY <1>1 DEF FallbackInv, FoldInv
  <2>2. i \in Nat \ {0} /\ table \in Tables /\ maxLen \in Nat
    BY <2>1 DEF IndexInv
  <2> QED
    BY <1>1, <2>1, <2>2
<1>4. i' \in Nat \ {0}
  BY <1>1, <1>2, <1>3, CandidateAdvances
<1>5. IndexInv'
  BY <1>1, <1>3, <1>4, IndexStays
<1>6. FoldInv'
  <2>1. LettersOf(surface') = LettersOf(surface)
    BY <1>1
  <2> QED
    BY <1>1, <2>1 DEF FallbackInv, FoldInv, Scanning
<1>7. MatchInv'
  <2> SUFFICES ASSUME Valid
               PROVE  /\ i' <= Len(folded) + 1
                      /\ out' \in Seq(Inventory)
                      /\ out' \o From(table, folded)[i'] = From(table, folded)[1]
    BY <1>1, ValidStays DEF MatchInv
  <2> DEFINE r == LongestRule(table, folded, i)
  <2>1. /\ r.grapheme \in Candidates(folded, i)
        /\ Len(g) \in 1 .. Len(r.grapheme)
        /\ Len(g) = Len(r.grapheme) => g = r.grapheme /\ index[g] = r.symbols
    BY <1>1, <1>2, <1>3, CandidateIsRule
  <2>2. Len(r.grapheme) \in 1 .. (Len(folded) - i + 1) /\ r.symbols \in Seq(Inventory)
    BY <1>3, LongestFits
  <2>3. Len(g) = Len(r.grapheme)
    <3>1. Len(g) >= Len(r.grapheme)
      BY <1>2, <2>1
    <3> QED
      BY <2>1, <2>2, <3>1
  <2>4. From(table, folded)[i] = r.symbols \o From(table, folded)[i + Len(r.grapheme)]
    BY <1>3, FromIs
  <2>5. /\ out \in Seq(Inventory)
        /\ out \o From(table, folded)[i] = From(table, folded)[1]
    BY <1>1 DEF FallbackInv, MatchInv
  <2> HIDE DEF r
  <2>6. out' = out \o r.symbols /\ i' = i + Len(r.grapheme)
    BY <1>2, <2>1, <2>3
  <2>7. i' \in 1 .. (Len(folded) + 1)
    BY <1>3, <2>2, <2>6
  <2>8. From(table, folded)[i'] \in Seq(Inventory)
    BY <1>3, <2>7, FromIs
  <2>9. (out \o r.symbols) \o From(table, folded)[i'] = out \o (r.symbols \o From(table, folded)[i'])
    <3>1. PICK rest : rest = From(table, folded)[i']
      OBVIOUS
    <3>2. PICK more : more = r.symbols
      OBVIOUS
    <3>3. rest \in Seq(Inventory) /\ more \in Seq(Inventory) /\ out \in Seq(Inventory)
      BY <2>2, <2>5, <2>8, <3>1, <3>2, Zenon
    <3>4. (out \o more) \o rest = out \o (more \o rest)
      BY <3>3, ConcatAssociative
    <3> QED
      BY <3>1, <3>2, <3>4, Zenon
  <2>10. out' \in Seq(Inventory)
    BY <2>2, <2>5, <2>6, ConcatProperties
  <2>11. out' \o From(table, folded)[i'] = From(table, folded)[1]
    BY <2>4, <2>5, <2>6, <2>9, Zenon
  <2> QED
    BY <2>7, <2>10, <2>11
<1> QED
  BY <1>5, <1>6, <1>7 DEF FallbackInv

LEMMA NoGraphemeInv ==
  ASSUME FallbackInv, NoGrapheme
  PROVE  FallbackInv'
<1>1. /\ pc = "match" /\ pc' = "done" /\ i <= Len(folded) /\ out' = <<>>
      /\ Candidates(folded, i) = {}
      /\ UNCHANGED <<table, surface, i, index, maxLen, folded, eligible>>
  BY DEF NoGrapheme, AtGrapheme, Decline
<1>2. /\ IndexInv /\ folded \in Seq(Letters) /\ Len(folded) \in Nat
      /\ i \in 1 .. Len(folded) /\ i \in Nat \ {0}
  BY <1>1 DEF FallbackInv, FoldInv, IndexInv
<1>3. IndexInv'
  BY <1>1, <1>2, IndexStays
<1>4. FoldInv'
  BY <1>1 DEF FoldInv, Scanning
<1>5. ~Valid
  BY <1>1, <1>2, CandidateIsRule
<1>6. MatchInv'
  BY <1>1, <1>5, ValidStays DEF MatchInv
<1> QED
  BY <1>3, <1>4, <1>6 DEF FallbackInv

LEMMA MatchEndInv ==
  ASSUME FallbackInv, MatchEnd
  PROVE  FallbackInv'
<1>1. /\ pc = "match" /\ pc' = "done" /\ i > Len(folded) /\ eligible' = TRUE
      /\ UNCHANGED <<table, surface, i, index, maxLen, folded, out>>
  BY DEF MatchEnd
<1>2. /\ IndexInv /\ folded \in Seq(Letters) /\ folded # <<>> /\ folded = LettersOf(surface)
      /\ Len(folded) \in Nat /\ i \in Nat \ {0} /\ table \in Tables /\ maxLen \in Nat
  BY <1>1 DEF FallbackInv, FoldInv, IndexInv
<1>3. IndexInv'
  BY <1>1, <1>2, IndexStays
<1>4. FoldInv'
  BY <1>1 DEF FoldInv, Scanning
<1>5. MatchInv'
  <2> SUFFICES ASSUME Valid
               PROVE  out \in Seq(Inventory) /\ out = From(table, folded)[1]
    <3>1. LettersOf(surface') = folded
      BY <1>1, <1>2
    <3> QED
      BY <1>1, <1>2, <3>1, ValidStays DEF MatchInv
  <2>1. /\ out \in Seq(Inventory) /\ i <= Len(folded) + 1
        /\ out \o From(table, folded)[i] = From(table, folded)[1]
    BY <1>1 DEF FallbackInv, MatchInv
  <2>2. i = Len(folded) + 1
    BY <1>1, <1>2, <2>1
  <2>3. From(table, folded)[i] = <<>>
    BY <1>2, <2>2, FromIs
  <2>4. out \o <<>> = out
    BY <2>1, ConcatEmptySeq
  <2> QED
    BY <2>1, <2>3, <2>4
<1> QED
  BY <1>3, <1>4, <1>5 DEF FallbackInv

LEMMA NextInv ==
  ASSUME FallbackInv, [Next]_vars
  PROVE  FallbackInv'
<1>1. CASE UNCHANGED vars
  <2>1. UNCHANGED <<table, surface, pc, i, index, maxLen, folded, out, eligible>>
    BY <1>1 DEF vars
  <2>2. IndexInv' /\ FoldInv'
    BY <2>1 DEF FallbackInv, IndexInv, Indexed, FoldInv, Scanning
  <2>3. MatchInv'
    BY <2>1, ValidStays DEF FallbackInv, MatchInv
  <2> QED
    BY <2>2, <2>3 DEF FallbackInv
<1> QED
  BY <1>1, IndexRuleInv, IndexEndInv, AcceptCharacterInv, RejectCharacterInv, StripInv,
     MatchGraphemeInv, NoGraphemeInv, MatchEndInv
  DEF Next, Step, Returned

\* The index holds the rules, Normalize passes letters alone, and what Match
\* has accumulated is the decomposition of what it has read.
THEOREM FallbackInvariance == Spec => []FallbackInv
<1>1. Init => FallbackInv
  BY InitInv
<1>2. FallbackInv /\ [Next]_vars => FallbackInv'
  BY NextInv
<1> QED
  BY <1>1, <1>2, PTL DEF Spec

\* A table that passes validateRules resolves every word of letters and
\* apostrophes with at least one letter, and no other, to symbols of the
\* inventory: Match never declines (rules.go:55, fallback.go:69-71).
THEOREM ValidTablesResolve == Spec => []ValidTablesAreTotal
<1>1. FallbackInv => ValidTablesAreTotal
  BY DEF FallbackInv, MatchInv, ValidTablesAreTotal
<1> QED
  BY <1>1, FallbackInvariance, PTL

\* The result is the longest-match decomposition of the letters of the
\* surface, whatever the order of the rules (rules.go:50-53).
THEOREM MatchIsLongest == Spec => []LongestMatch
<1>1. FallbackInv => LongestMatch
  BY DecompositionIs DEF FallbackInv, MatchInv, LongestMatch
<1> QED
  BY <1>1, FallbackInvariance, PTL

=============================================================================
