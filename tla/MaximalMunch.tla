---------------------------- MODULE MaximalMunch ----------------------------
(***************************************************************************)
(* What internal/tokenizer promises (token.go:1-2, ADR-0006): tokens come  *)
(* left to right, and each is the longest span that one of the token       *)
(* classes describes.  The classes are stated as languages over spans,     *)
(* without a scanner.                                                      *)
(***************************************************************************)
EXTENDS Utf8Text

CONSTANT Inputs

VARIABLES input, i, tokens

vars == <<input, i, tokens>>

\* The offsets in [k, e) at which a character of s starts.
RuneStarts(s, k, e) == {r \in k .. (e - 1) : ~InsideRune(s, r)}

Classes(s, k, e) == {Class(s, r) : r \in RuneStarts(s, k, e)}

OneRune(s, k, e) == e = k + Size(s, k)

AllDigits(s, k, e) == k < e /\ Classes(s, k, e) = {"digit"}

IsWord(s, k, e) ==
  /\ Class(s, k) \in {"letter", "digit"}
  /\ "letter" \in Classes(s, k, e)
  /\ \A r \in RuneStarts(s, k, e) :
       \/ Class(s, r) \in {"letter", "digit"}
       \/ /\ Class(s, r) = "apostrophe"
          /\ LetterBefore(s, r)
          /\ r + Size(s, r) < e /\ Class(s, r + Size(s, r)) = "letter"

IsNumber(s, k, e) ==
  \E b \in {k, k + 1} :
    /\ b = k \/ Class(s, k) \in {"plus", "minus"}
    /\ \/ AllDigits(s, b, e)
       \/ \E p \in b .. (e - 1) :
            /\ AllDigits(s, b, p)
            /\ Class(s, p) = "separator"
            /\ AllDigits(s, p + 1, e)

IsWhitespace(s, k, e) == Classes(s, k, e) = {"space"}

IsPunctuation(s, k, e) ==
  \/ OneRune(s, k, e) /\ Class(s, k) \in {"punct", "separator", "apostrophe"}
  \/ Classes(s, k, e) = {"minus"}

IsSymbol(s, k, e) == OneRune(s, k, e) /\ Class(s, k) \in {"symbol", "plus"}

IsUnknown(s, k, e) == OneRune(s, k, e) /\ Class(s, k) \in {"other", "invalid"}

\* [k, e) is a token of the given kind.
Describes(kind, s, k, e) ==
  CASE kind = "word"        -> IsWord(s, k, e)
    [] kind = "number"      -> IsNumber(s, k, e)
    [] kind = "whitespace"  -> IsWhitespace(s, k, e)
    [] kind = "punctuation" -> IsPunctuation(s, k, e)
    [] kind = "symbol"      -> IsSymbol(s, k, e)
    [] kind = "unknown"     -> IsUnknown(s, k, e)

Kind == {"word", "whitespace", "punctuation", "number", "symbol", "unknown"}

\* The tokens that could start at offset k, and the longest of them.
Candidates(s, k) ==
  {t \in [start : {k}, end : {e \in (k + 1) .. Len(s) : ~InsideRune(s, e)}, kind : Kind] :
     Describes(t.kind, s, t.start, t.end)}

Longest(s, k) == {t \in Candidates(s, k) : \A u \in Candidates(s, k) : u.end <= t.end}

Init == input \in Inputs /\ i = 0 /\ tokens = {}

EmitLongest ==
  \E t \in Longest(input, i) :
    /\ tokens' = tokens \cup {t}
    /\ i' = t.end
    /\ UNCHANGED input

Spec == Init /\ [][EmitLongest]_vars
=============================================================================
