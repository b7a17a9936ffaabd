------------------------------ MODULE Fallback ------------------------------
(***************************************************************************)
(* internal/lang/en/fallback: the rule index, Normalize and Match.         *)
(*                                                                         *)
(* A text is a sequence of characters.  The rule table is a constant set   *)
(* of candidates, so that what Match needs of a table, and what            *)
(* validateRules checks of it, can be compared.  Normalize scans bytes;    *)
(* here one character stands for the bytes of a class that it rejects.     *)
(***************************************************************************)
EXTENDS SequencesExt, Slices

CONSTANTS
  Tables,     \* rule tables: sequences of [grapheme, symbols]
  Surfaces,   \* the surfaces Pronounce is called on
  Letters,    \* the lower-case ASCII letters
  Fold,       \* upper-case letter -> lower-case letter
  Inventory   \* the ARPAbet symbols of the bridge

ASSUME TablesAssumption ==
  \A rules \in Tables :
    /\ IsSequence(rules)
    /\ \A r \in DOMAIN rules : IsSequence(rules[r].grapheme) /\ IsSequence(rules[r].symbols)
ASSUME SurfacesAssumption == \A s \in Surfaces : IsSequence(s)
ASSUME FoldAssumption == \A u \in DOMAIN Fold : u \notin Letters /\ Fold[u] \in Letters
ASSUME ApostropheAssumption == "'" \notin Letters \cup DOMAIN Fold

VARIABLES
  table,     \* the rules
  surface,   \* the argument of Pronounce
  pc,        \* "init", "normalize", "match" or "done"
  i,         \* the rule, or the character, the current loop is at
  index,     \* ruleIndex
  maxLen,    \* maxGraphemeLen
  folded,    \* what Normalize has accepted; Match's argument
  out,       \* the symbols Match has accumulated
  eligible   \* the verdict Pronounce returns

vars == <<table, surface, pc, i, index, maxLen, folded, out, eligible>>

Init ==
  /\ table \in Tables
  /\ surface \in Surfaces
  /\ pc = "init"
  /\ i = 1
  /\ index = [g \in {} |-> <<>>]
  /\ maxLen = 0
  /\ folded = <<>>
  /\ out = <<>>
  /\ eligible = FALSE

Decline ==
  /\ pc' = "done"
  /\ out' = <<>>
  /\ UNCHANGED <<table, surface, i, index, maxLen, folded, eligible>>

-----------------------------------------------------------------------------
\* init

\* A later rule replaces an earlier one with the same grapheme.
IndexRule ==
  /\ pc = "init" /\ i <= Len(table)
  /\ LET g == table[i].grapheme
     IN  /\ index' = [h \in DOMAIN index \cup {g} |->
                        IF h = g THEN table[i].symbols ELSE index[h]]
         /\ maxLen' = IF Len(g) > maxLen THEN Len(g) ELSE maxLen
  /\ i' = i + 1
  /\ UNCHANGED <<table, surface, pc, folded, out, eligible>>

IndexEnd ==
  /\ pc = "init" /\ i > Len(table)
  /\ pc' = "normalize"
  /\ i' = 1
  /\ UNCHANGED <<table, surface, index, maxLen, folded, out, eligible>>

-----------------------------------------------------------------------------
\* validateRules, which the tests run on the table of the package.

Graphemes == {table[r].grapheme : r \in DOMAIN table}

Valid ==
  /\ \A r \in DOMAIN table :
       /\ table[r].grapheme # <<>>
       /\ \A q \in DOMAIN table : table[q].grapheme = table[r].grapheme => q = r
       /\ table[r].symbols # <<>>
       /\ \A j \in DOMAIN table[r].symbols : table[r].symbols[j] \in Inventory
       /\ Len(table[r].grapheme) <= maxLen
  /\ \E r \in DOMAIN table : Len(table[r].grapheme) = maxLen
  /\ \A letter \in Letters : <<letter>> \in Graphemes

-----------------------------------------------------------------------------
\* Normalize

Folded(c) == IF c \in DOMAIN Fold THEN Fold[c] ELSE c

\* Fault: an apostrophe is rejected like any other character.
Acceptable_LettersOnly(c) == Folded(c) \in Letters

Acceptable(c) == Folded(c) \in Letters \cup {"'"}

AtCharacter == pc = "normalize" /\ i <= Len(surface)

AcceptCharacter ==
  /\ AtCharacter /\ Acceptable(surface[i])
  /\ folded' = Append(folded, Folded(surface[i]))
  /\ i' = i + 1
  /\ UNCHANGED <<table, surface, pc, index, maxLen, out, eligible>>

\* A non-ASCII byte, a digit, or any other character.
RejectCharacter == AtCharacter /\ ~Acceptable(surface[i]) /\ Decline

WithoutApostrophes(s) == FlattenSeq([k \in DOMAIN s |-> IF s[k] = "'" THEN <<>> ELSE <<s[k]>>])

\* Strip the apostrophes and hand the rest to Match.
Strip ==
  /\ pc = "normalize" /\ i > Len(surface)
  /\ LET stripped == WithoutApostrophes(folded)
     IN  IF stripped = <<>>
           THEN Decline
           ELSE /\ pc' = "match"
                /\ folded' = stripped
                /\ i' = 1
                /\ UNCHANGED <<table, surface, index, maxLen, out, eligible>>

-----------------------------------------------------------------------------
\* Match

\* The graphemes of the index that stand at offset k of s.
Candidates(s, k) ==
  {SubSeq(s, k, k + l - 1) : l \in 1 .. (IF maxLen < Len(s) - k + 1 THEN maxLen ELSE Len(s) - k + 1)}
    \cap DOMAIN index

AtGrapheme == pc = "match" /\ i <= Len(folded)

\* Fault: the shortest candidate is preferred.
Preferred_Shortest(g, h) == Len(g) <= Len(h)

Preferred(g, h) == Len(g) >= Len(h)

MatchGrapheme ==
  /\ AtGrapheme
  /\ \E g \in Candidates(folded, i) :
       /\ \A h \in Candidates(folded, i) : Preferred(g, h)
       /\ out' = out \o index[g]
       /\ i' = i + Len(g)
  /\ UNCHANGED <<table, surface, pc, index, maxLen, folded, eligible>>

NoGrapheme == AtGrapheme /\ Candidates(folded, i) = {} /\ Decline

MatchEnd ==
  /\ pc = "match" /\ i > Len(folded)
  /\ pc' = "done"
  /\ eligible' = TRUE
  /\ UNCHANGED <<table, surface, i, index, maxLen, folded, out>>

Step ==
  \/ IndexRule \/ IndexEnd
  \/ AcceptCharacter \/ RejectCharacter \/ Strip
  \/ MatchGrapheme \/ NoGrapheme \/ MatchEnd

Returned == pc = "done" /\ UNCHANGED vars

Next == Step \/ Returned

Spec == Init /\ [][Next]_vars

-----------------------------------------------------------------------------
(***************************************************************************)
(* Properties                                                              *)
(***************************************************************************)

\* The letters of the surface in lower case.
LettersOf(s) == WithoutApostrophes([k \in DOMAIN s |-> Folded(s[k])])

\* A table that passes validateRules resolves every word of letters and
\* apostrophes with at least one letter, to symbols of the inventory alone,
\* and it resolves no other word: Match never has to decline
\* (rules.go:55, fallback.go:69-71).
ValidTablesAreTotal ==
  pc = "done" /\ Valid =>
    /\ eligible <=> LettersOf(surface) \in Seq(Letters) \ {<<>>}
    /\ \A j \in DOMAIN out : out[j] \in Inventory

\* The rules whose graphemes stand at k of s.
RulesAt(rules, s, k) ==
  {r \in Range(rules) : /\ Len(r.grapheme) <= Len(s) - k + 1
                        /\ SubSeq(s, k, k + Len(r.grapheme) - 1) = r.grapheme}

LongestRule(rules, s, k) ==
  CHOOSE r \in RulesAt(rules, s, k) :
    \A q \in RulesAt(rules, s, k) : Len(q.grapheme) <= Len(r.grapheme)

\* The longest-match decomposition of s over a set of rules, from the right: a
\* definition without index, cached length or scan.
Decomposition(rules, s) ==
  LET From[k \in 1 .. (Len(s) + 1)] ==
        IF k = Len(s) + 1 THEN <<>>
        ELSE LET r == LongestRule(rules, s, k) IN r.symbols \o From[k + Len(r.grapheme)]
  IN  From[1]

\* The result is the longest-match decomposition of the letters, whatever the
\* order of the table, the case and the apostrophes (rules.go:50-53).
LongestMatch ==
  pc = "done" /\ Valid /\ eligible => out = Decomposition(table, LettersOf(surface))
=============================================================================
