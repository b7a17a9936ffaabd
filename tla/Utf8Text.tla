------------------------------ MODULE Utf8Text ------------------------------
(***************************************************************************)
(* What the code uses of Go's strings, unicode and unicode/utf8 packages.  *)
(*                                                                         *)
(* A string is a sequence of bytes.  Offsets are 0-based, as in Go: the    *)
(* byte at offset k of s is s[k + 1].  One byte stands for each class of   *)
(* character the scanner and the lookups tell apart; lead bytes of longer  *)
(* characters carry their real UTF-8 value, with the one character that    *)
(* they stand for here, and "80" stands for every continuation byte.       *)
(***************************************************************************)
EXTENDS Integers, Sequences

Byte == {"a", "0", "+", "-", "'", " ", ".", "!", "$", "NUL",
         "C2", "C3", "CC", "E2", "E3", "80"}

\* The number of bytes a lead byte announces.
Width == [b \in Byte |->
  IF b \in {"C2", "C3", "CC"} THEN 2 ELSE IF b \in {"E2", "E3"} THEN 3 ELSE 1]

ClassOf == [b \in Byte |->
  CASE b \in {"a", "C3"}  -> "letter"      \* U+00E9
    [] b = "0"            -> "digit"       \* an ASCII digit
    [] b = "+"            -> "plus"
    [] b = "-"            -> "minus"
    [] b \in {"'", "E2"}  -> "apostrophe"  \* U+2019
    [] b \in {" ", "C2"}  -> "space"       \* U+00A0
    [] b = "."            -> "separator"   \* a full stop or a comma
    [] b \in {"!", "E3"}  -> "punct"       \* U+3001
    [] b = "$"            -> "symbol"
    [] b \in {"NUL", "CC"} -> "other"      \* a control code; U+0301, a mark
    [] b = "80"           -> "invalid"]

ByteAt(s, k) == s[k + 1]

\* The lead byte at offset k of s is followed by all its continuation bytes.
Complete(s, k) ==
  LET w == Width[ByteAt(s, k)]
  IN  /\ k + w <= Len(s)
      /\ \A d \in 1 .. (w - 1) : ByteAt(s, k + d) = "80"

(***************************************************************************)
(* utf8.DecodeRuneInString(s[k:]): the size and the class of the character *)
(* at offset k.  "invalid" is (RuneError, 1); at the end of s, where the   *)
(* library returns (RuneError, 0), the class is "invalid" as well.         *)
(***************************************************************************)
Size(s, k) == IF Complete(s, k) THEN Width[ByteAt(s, k)] ELSE 1

Class(s, k) ==
  IF k < Len(s) /\ Complete(s, k) THEN ClassOf[ByteAt(s, k)] ELSE "invalid"

\* Offset k of s is strictly inside a well-formed character.
InsideRune(s, k) == \E d \in 1 .. 2 : d <= k /\ k - d < Len(s) /\ Size(s, k - d) > d

(***************************************************************************)
(* utf8.DecodeLastRuneInString(s[:k]) followed by unicode.IsLetter.        *)
(***************************************************************************)
LetterBefore(s, k) ==
  \E w \in 1 .. 3 : w <= k /\ Class(s, k - w) = "letter" /\ Size(s, k - w) = w
=============================================================================
