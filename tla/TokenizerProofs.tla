-------------------------- MODULE TokenizerProofs --------------------------
(***************************************************************************)
(* Proofs about the scanner, for every set of input strings.               *)
(***************************************************************************)
EXTENDS Tokenizer, TLAPS

(***************************************************************************)
(* Decoding moves forward and stays inside the string.                     *)
(***************************************************************************)
LEMMA SizeBounds ==
  ASSUME NEW s \in Seq(Byte), NEW k \in Nat, k < Len(s)
  PROVE  Size(s, k) \in 1 .. (Len(s) - k)
<1>1. ByteAt(s, k) \in Byte
  BY DEF ByteAt
<1>2. Width[ByteAt(s, k)] \in 1 .. 3
  BY <1>1 DEF Width
<1> QED
  BY <1>2 DEF Size, Complete

\* A character that is not invalid lies inside the string.
LEMMA ValidInside ==
  ASSUME NEW s \in Seq(Byte), NEW k \in Nat, Class(s, k) # "invalid"
  PROVE  k < Len(s)
BY DEF Class

(***************************************************************************)
(* Type correctness.                                                       *)
(***************************************************************************)
LEMMA TypeInit == Init => TypeOK
<1> SUFFICES ASSUME Init PROVE TypeOK
  OBVIOUS
<1>1. Len(input) \in Nat
  BY InputsAssumption DEF Init
<1>2. hasLetter \in BOOLEAN
  BY Zenon DEF Init
<1> QED
  BY <1>1, <1>2 DEF Init, TypeOK

\* A token that ends inside the input, at or after i, keeps the types.
LEMMA EmitTypeOK ==
  ASSUME TypeOK, NEW kind \in Kind, NEW end \in i .. Len(input), Emit(kind, end)
  PROVE  TypeOK'
<1>1. input \in Seq(Byte) /\ Len(input) \in Nat
  BY InputsAssumption DEF TypeOK
<1>2. [start |-> i, end |-> end, kind |-> kind] \in Token(input)
  BY <1>1 DEF TypeOK, Token
<1>3. tokens' \in SUBSET Token(input)
  BY <1>2 DEF TypeOK, Emit
<1>4. tokens' \in SUBSET Token(input')
  BY <1>3 DEF Emit
<1>5. hasLetter' \in BOOLEAN
  BY Zenon DEF Emit
<1> QED
  BY <1>1, <1>4, <1>5 DEF TypeOK, Emit

\* So does a step that moves the current scan.
LEMMA ScanTypeOK ==
  ASSUME TypeOK, hasLetter' \in BOOLEAN,
         NEW l \in {"probe", "word", "number", "fraction", "whitespace", "hyphens"},
         NEW k \in i .. Len(input), Scan(l, k)
  PROVE  TypeOK'
BY DEF TypeOK, Scan

\* The offset a turn of a scanning loop moves to.
LEMMA NextOffset ==
  ASSUME TypeOK, NEW k \in i .. Len(input), Class(input, k) # "invalid"
  PROVE  /\ k < Len(input)
         /\ Size(input, k) \in Nat \ {0}
         /\ k + Size(input, k) \in (k + 1) .. Len(input)
<1>1. input \in Seq(Byte) /\ Len(input) \in Nat /\ i \in Nat /\ k \in Nat
  BY InputsAssumption DEF TypeOK
<1>2. k < Len(input)
  BY <1>1, ValidInside
<1>3. Size(input, k) \in 1 .. (Len(input) - k)
  BY <1>1, <1>2, SizeBounds
<1> QED
  BY <1>1, <1>2, <1>3

LEMMA TypeStep == TypeOK /\ [Next]_vars => TypeOK'
<1> SUFFICES ASSUME TypeOK, [Next]_vars PROVE TypeOK'
  OBVIOUS
<1>0. /\ input \in Seq(Byte) /\ Len(input) \in Nat /\ i \in 0 .. Len(input)
      /\ pos \in i .. Len(input) /\ hasLetter \in BOOLEAN
  BY InputsAssumption DEF TypeOK
<1> USE DEF Kind
<1>1. CASE Tokenize
  <2>1. CASE EmitInvalidByte
    BY <1>0, <2>1, EmitTypeOK DEF EmitInvalidByte, AtTokenStart
  <2>2. CASE StartRun
    <3>1. i + SignLen(i) \in i .. Len(input)
      BY <1>0, <2>2 DEF StartRun, AtTokenStart, SignLen
    <3> QED
      BY <1>0, <2>2, <3>1, ScanTypeOK DEF StartRun
  <2>3. CASE StartWhitespace
    BY <1>0, <2>3, ScanTypeOK DEF StartWhitespace
  <2>4. CASE StartHyphens
    BY <1>0, <2>4, ScanTypeOK DEF StartHyphens
  <2>5. CASE EmitPunctuation \/ EmitSymbol \/ EmitUnknownRune
    <3>1. i + Size(input, i) \in i .. Len(input)
      BY <1>0, <2>5, SizeBounds
        DEF EmitPunctuation, EmitSymbol, EmitUnknownRune, AtTokenStart
    <3> QED
      BY <1>0, <2>5, <3>1, EmitTypeOK DEF EmitPunctuation, EmitSymbol, EmitUnknownRune
  <2>6. CASE Return
    BY <2>6 DEF Return, TypeOK
  <2> QED
    BY <1>1, <2>1, <2>2, <2>3, <2>4, <2>5, <2>6 DEF Tokenize
<1>2. CASE ScanAlphanumericRun
  <2>1. CASE ProbeLetter \/ ProbeDigit
    <3>1. pos + Size(input, pos) \in i .. Len(input)
      BY <1>0, <2>1, NextOffset DEF ProbeLetter, ProbeDigit, Letter, Digit
    <3> QED
      BY <1>0, <2>1, <3>1, ScanTypeOK DEF ProbeLetter, ProbeDigit, Advance
  <2>2. CASE ProbeEnd
    <3>1. i + SignLen(i) \in i .. Len(input)
      BY <1>0, ValidInside DEF SignLen, Sign
    <3> QED
      BY <1>0, <2>2, <3>1, ScanTypeOK DEF ProbeEnd
  <2> QED
    BY <1>2, <2>1, <2>2 DEF ScanAlphanumericRun
<1>3. CASE ScanWord
  <2>1. CASE WordRune
    <3>1. pos + Size(input, pos) \in i .. Len(input)
      BY <1>0, <2>1, NextOffset DEF WordRune, InWord, Letter, Digit, InternalApostrophe
    <3> QED
      BY <1>0, <2>1, <3>1, ScanTypeOK DEF WordRune, Advance
  <2>2. CASE WordEnd
    BY <1>0, <2>2, EmitTypeOK DEF WordEnd
  <2> QED
    BY <1>3, <2>1, <2>2 DEF ScanWord
<1>4. CASE ScanNumber
  <2>1. CASE NumberDigit
    <3>1. pos + Size(input, pos) \in i .. Len(input)
      BY <1>0, <2>1, NextOffset DEF NumberDigit, Digit
    <3> QED
      BY <1>0, <2>1, <3>1, ScanTypeOK DEF NumberDigit, Advance
  <2>2. CASE NumberSeparator
    <3>1. pos + 1 \in i .. Len(input)
      BY <1>0, <2>2, ValidInside DEF NumberSeparator, SeparatesDigits
    <3> QED
      BY <1>0, <2>2, <3>1, ScanTypeOK DEF NumberSeparator
  <2>3. CASE NumberEnd
    BY <1>0, <2>3, EmitTypeOK DEF NumberEnd
  <2> QED
    BY <1>4, <2>1, <2>2, <2>3 DEF ScanNumber
<1>5. CASE ScanWhitespace \/ ScanHyphenRun
  <2>1. CASE WhitespaceRune \/ HyphenByte
    <3>1. pos + Size(input, pos) \in i .. Len(input)
      BY <1>0, <2>1, NextOffset DEF WhitespaceRune, HyphenByte
    <3> QED
      BY <1>0, <2>1, <3>1, ScanTypeOK DEF WhitespaceRune, HyphenByte, Advance
  <2>2. CASE WhitespaceEnd \/ HyphensEnd
    BY <1>0, <2>2, EmitTypeOK DEF WhitespaceEnd, HyphensEnd
  <2> QED
    BY <1>5, <2>1, <2>2 DEF ScanWhitespace, ScanHyphenRun
<1>6. CASE Returned \/ UNCHANGED vars
  BY <1>6 DEF Returned, vars, TypeOK
<1> QED
  BY <1>1, <1>2, <1>3, <1>4, <1>5, <1>6 DEF Next, Step

\* The scanner's offsets and tokens have their types in every reachable state.
THEOREM TypeCorrect == Spec => []TypeOK
<1> QED
  BY TypeInit, TypeStep, PTL DEF Spec

(***************************************************************************)
(* Tiling.  Only Emit touches the tokens, and the token it appends starts  *)
(* where the tokens before it end.                                         *)
(***************************************************************************)
LEMMA EmitTiling ==
  ASSUME TypeOK, Tiling, NEW kind \in Kind, NEW end \in i .. Len(input), Emit(kind, end)
  PROVE  Tiling'
<1> DEFINE new == [start |-> i, end |-> end, kind |-> kind]
<1>1. /\ tokens' = tokens \cup {new} /\ i' = end
      /\ new.start = i /\ new.end = end
  BY DEF Emit
<1> HIDE DEF new
<1>2. i \in Nat /\ end \in Nat /\ i <= end
  BY InputsAssumption DEF TypeOK
<1>3. \A t \in tokens : t.start \in Nat /\ t.end \in Nat /\ t.start <= t.end /\ t.end <= i
  BY DEF TypeOK, Token, Tiling
<1>4. \A t \in tokens' : t.start <= t.end /\ t.end <= i'
  BY <1>1, <1>2, <1>3
<1>5. ASSUME NEW k \in 0 .. (i' - 1)
      PROVE  \E t \in tokens' : t.start <= k /\ k < t.end
  <2>1. CASE k < i
    BY <1>1, <1>2, <2>1 DEF Tiling
  <2>2. CASE i <= k
    BY <1>1, <1>2, <2>2
  <2> QED
    BY <1>2, <2>1, <2>2
<1>6. ASSUME NEW t \in tokens', NEW u \in tokens'
      PROVE  t = u \/ t.end <= u.start \/ u.end <= t.start
  BY <1>1, <1>3 DEF Tiling
<1> QED
  BY <1>4, <1>5, <1>6 DEF Tiling

LEMMA TilingStep == TypeOK /\ Tiling /\ [Next]_vars => Tiling'
<1> SUFFICES ASSUME TypeOK, Tiling, [Next]_vars PROVE Tiling'
  OBVIOUS
<1>0. input \in Seq(Byte) /\ Len(input) \in Nat /\ i \in 0 .. Len(input) /\ pos \in i .. Len(input)
  BY InputsAssumption DEF TypeOK
<1>1. CASE EmitInvalidByte
  BY <1>0, <1>1, EmitTiling DEF EmitInvalidByte, AtTokenStart, Kind
<1>2. CASE EmitPunctuation \/ EmitSymbol \/ EmitUnknownRune
  <2>1. i + Size(input, i) \in i .. Len(input)
    BY <1>0, <1>2, SizeBounds DEF EmitPunctuation, EmitSymbol, EmitUnknownRune, AtTokenStart
  <2> QED
    BY <1>0, <1>2, <2>1, EmitTiling DEF EmitPunctuation, EmitSymbol, EmitUnknownRune, Kind
<1>3. CASE WordEnd \/ NumberEnd \/ WhitespaceEnd \/ HyphensEnd
  BY <1>0, <1>3, EmitTiling DEF WordEnd, NumberEnd, WhitespaceEnd, HyphensEnd, Kind
<1>4. CASE UNCHANGED <<i, tokens>>
  BY <1>4 DEF Tiling
<1>5. \/ EmitInvalidByte \/ EmitPunctuation \/ EmitSymbol \/ EmitUnknownRune
      \/ WordEnd \/ NumberEnd \/ WhitespaceEnd \/ HyphensEnd
      \/ UNCHANGED <<i, tokens>>
  BY DEF Next, Step, Tokenize, StartRun, StartWhitespace, StartHyphens, Return,
         ScanAlphanumericRun, ProbeLetter, ProbeDigit, ProbeEnd, ScanWord, WordRune,
         ScanNumber, NumberDigit, NumberSeparator, ScanWhitespace, WhitespaceRune,
         ScanHyphenRun, HyphenByte, Advance, Scan, Returned, vars
<1> QED
  BY <1>1, <1>2, <1>3, <1>4, <1>5

\* The tokens partition the text scanned so far in every reachable state, the
\* ones of a scan that never ends included.
THEOREM TilingCorrect == Spec => []Tiling
<1>1. Init => Tiling
  BY DEF Init, Tiling
<1> QED
  BY <1>1, TypeInit, TypeStep, TilingStep, PTL DEF Spec

(***************************************************************************)
(* Every token advances.  The inductive invariant says what each scanning  *)
(* loop has seen since it was entered, and that no token ends between two  *)
(* hyphens, so that a sign that begins a run follows no other hyphen.      *)
(***************************************************************************)
Minus(k) == Class(input, k) = "minus"

FreshHyphen == i > 0 /\ Minus(i) => ~Minus(i - 1)

\* What the loop named by pc knows of the run that starts at i.
RunInv ==
  /\ pc = "tokenize" => hasLetter # TRUE
  /\ pc \in {"probe", "word"} => StartsAlphanumericRun(i)
  /\ pc = "word" => hasLetter = TRUE
  /\ pc \in {"probe", "word"} /\ hasLetter = TRUE /\ Sign(i) => SignedWordAt(input, i)
  /\ pc = "probe" =>
       /\ i + SignLen(i) <= pos
       /\ hasLetter = TRUE \/ \A d \in (i + SignLen(i)) .. (pos - 1) : Digit(d)
  /\ pc = "number" => Digit(i + SignLen(i)) /\ i + SignLen(i) <= pos
  /\ pc = "fraction" => i < pos
  /\ pc = "whitespace" => Class(input, i) = "space"
  /\ pc = "hyphens" => Minus(i)

\* The last byte scanned is no hyphen, where the next token may follow it.
LastByte ==
  /\ pc \in {"word", "whitespace", "fraction"} => pos = i \/ ~Minus(pos - 1)
  /\ pc = "number" => pos = i + SignLen(i) \/ ~Minus(pos - 1)

ProgressInv == FreshHyphen /\ RunInv /\ LastByte

\* The last byte of a character that is no hyphen is no hyphen.
LEMMA LastByteOfRune ==
  ASSUME NEW s \in Seq(Byte), NEW k \in Nat, k < Len(s), Class(s, k) # "minus"
  PROVE  Class(s, k + Size(s, k) - 1) # "minus"
<1>1. CASE Size(s, k) = 1
  BY <1>1
<1>2. CASE Size(s, k) # 1
  <2>1. Size(s, k) \in 2 .. (Len(s) - k)
    BY <1>2, SizeBounds
  <2>2. ByteAt(s, k + Size(s, k) - 1) = "80"
    BY <1>2, <2>1 DEF Size, Complete
  <2>3. ClassOf["80"] = "invalid"
    BY DEF ClassOf, Byte
  <2> QED
    BY <2>2, <2>3 DEF Class
<1> QED
  BY <1>1, <1>2

\* A turn of a scanning loop over a character that is no hyphen.
LEMMA AdvanceLastByte ==
  ASSUME TypeOK, Advance, Class(input, pos) \notin {"minus", "invalid"}
  PROVE  /\ pos' \in (pos + 1) .. Len(input)
         /\ (~Minus(pos - 1))'
<1>1. input \in Seq(Byte) /\ pos \in Nat /\ pos \in i .. Len(input)
  BY InputsAssumption DEF TypeOK
<1>2. pos < Len(input)
  BY <1>1, ValidInside
<1>3. pos' = pos + Size(input, pos) /\ input' = input
  BY DEF Advance, Scan
<1>4. Class(input, pos + Size(input, pos) - 1) # "minus"
  BY <1>1, <1>2, LastByteOfRune
<1>5. pos' \in (pos + 1) .. Len(input)
  BY <1>1, <1>3, NextOffset
<1>6. pos' - 1 = pos + Size(input, pos) - 1
  BY <1>1, <1>2, <1>3, <1>5, SizeBounds
<1> QED
  BY <1>3, <1>4, <1>5, <1>6 DEF Minus

\* A digit is an ASCII digit.
LEMMA DigitIsOneByte ==
  ASSUME NEW s \in Seq(Byte), NEW k \in Nat, Class(s, k) = "digit"
  PROVE  Size(s, k) = 1
<1>1. ByteAt(s, k) \in Byte
  BY ValidInside DEF ByteAt
<1>2. ByteAt(s, k) = "0"
  BY <1>1 DEF Class, ClassOf, Byte
<1> QED
  BY <1>2 DEF Size, Width, Byte

\* After the token [i, end), whose end does not follow a hyphen that the next
\* byte continues, the scanner is back in the loop of Tokenize.
LEMMA EmitProgressInv ==
  ASSUME NEW kind \in Kind, NEW end \in Nat, Emit(kind, end),
         end > 0 /\ Minus(end) => ~Minus(end - 1)
  PROVE  ProgressInv'
<1>1. pc' = "tokenize" /\ i' = end /\ input' = input
  BY DEF Emit
<1>2. hasLetter' # TRUE
  BY Zenon DEF Emit
<1> QED
  BY <1>1, <1>2 DEF ProgressInv, FreshHyphen, RunInv, LastByte, Minus

\* The first characters of a run are no hyphens.
LEMMA RunStart ==
  ASSUME TypeOK, StartsAlphanumericRun(i), ~Sign(i)
  PROVE  Letter(i) \/ Digit(i)
BY DEF StartsAlphanumericRun

\* A letter found behind a sign and digits makes the text one with a signed word.
LEMMA ProbeFindsSignedWord ==
  ASSUME TypeOK, FreshHyphen, RunInv, pc = "probe", Letter(pos), Sign(i),
         hasLetter # TRUE
  PROVE  SignedWordAt(input, i)
<1>1. input \in Seq(Byte) /\ Len(input) \in Nat /\ i \in Nat /\ pos \in Nat
  BY InputsAssumption DEF TypeOK
<1>2. Digit(i + 1) /\ i + 1 <= pos /\ \A d \in (i + 1) .. (pos - 1) : Digit(d)
  BY <1>1 DEF RunInv, StartsAlphanumericRun, SignLen, Letter, Digit, Sign
<1>3. pos # i + 1
  BY <1>2 DEF Letter, Digit
<1>4. pos \in (i + 2) .. (Len(input) - 1)
  BY <1>1, <1>2, <1>3, ValidInside DEF Letter
<1> QED
  BY <1>2, <1>4 DEF SignedWordAt, FreshHyphen, Minus, Letter, Digit, Sign

LEMMA ProgressStep == TypeOK /\ ProgressInv /\ [Next]_vars => ProgressInv'
<1> SUFFICES ASSUME TypeOK, ProgressInv, [Next]_vars PROVE ProgressInv'
  OBVIOUS
<1>0. /\ input \in Seq(Byte) /\ Len(input) \in Nat /\ i \in Nat /\ pos \in Nat
      /\ i \in 0 .. Len(input) /\ pos \in i .. Len(input)
  BY InputsAssumption DEF TypeOK
<1>1. CASE Tokenize
  <2>1. CASE EmitInvalidByte
    <3>1. i + 1 \in Nat /\ ~Minus((i + 1) - 1)
      BY <1>0, <2>1 DEF EmitInvalidByte, Minus
    <3> QED
      BY <2>1, <3>1, EmitProgressInv DEF EmitInvalidByte, Kind
  <2>2. CASE StartRun
    <3>1. /\ pc' = "probe" /\ pos' = i + SignLen(i) /\ i' = i /\ input' = input
          /\ StartsAlphanumericRun(i)
      BY <2>2 DEF StartRun, Scan
    <3>2. hasLetter # TRUE
      BY <2>2 DEF StartRun, AtTokenStart, ProgressInv, RunInv
    <3>3. hasLetter' # TRUE
      BY <2>2, <3>2, Zenon DEF StartRun
    <3>4. /\ StartsAlphanumericRun(i)'
          /\ SignLen(i)' = SignLen(i) /\ SignLen(i) \in 0 .. 1
      BY <3>1 DEF StartsAlphanumericRun, Letter, Digit, Sign, SignLen
    <3>5. (i + SignLen(i) <= pos)'
      BY <1>0, <3>1, <3>4
    <3>6. (\A d \in (i + SignLen(i)) .. (pos - 1) : Digit(d))'
      BY <1>0, <3>1, <3>4
    <3>7. RunInv'
      BY <3>1, <3>3, <3>4, <3>5, <3>6 DEF RunInv
    <3> QED
      BY <3>1, <3>7 DEF ProgressInv, FreshHyphen, LastByte, Minus
  <2>3. CASE StartWhitespace
    <3>1. pc' = "whitespace" /\ pos' = i /\ i' = i /\ input' = input /\ Class(input, i) = "space"
      BY <2>3 DEF StartWhitespace, Scan
    <3> QED
      BY <3>1 DEF ProgressInv, FreshHyphen, RunInv, LastByte, Minus
  <2>4. CASE StartHyphens
    <3>1. pc' = "hyphens" /\ pos' = i /\ i' = i /\ input' = input /\ Minus(i)
      BY <2>4 DEF StartHyphens, Scan, Minus
    <3> QED
      BY <3>1 DEF ProgressInv, FreshHyphen, RunInv, LastByte, Minus
  <2>5. CASE EmitPunctuation \/ EmitSymbol \/ EmitUnknownRune
    <3>1. i < Len(input) /\ Class(input, i) # "minus"
      BY <2>5 DEF EmitPunctuation, EmitSymbol, EmitUnknownRune, AtTokenStart
    <3>2. i + Size(input, i) \in Nat /\ ~Minus((i + Size(input, i)) - 1)
      BY <1>0, <3>1, SizeBounds, LastByteOfRune DEF Minus
    <3> QED
      BY <2>5, <3>2, EmitProgressInv DEF EmitPunctuation, EmitSymbol, EmitUnknownRune, Kind
  <2>6. CASE Return
    BY <2>6 DEF Return, ProgressInv, FreshHyphen, RunInv, LastByte, Minus
  <2> QED
    BY <1>1, <2>1, <2>2, <2>3, <2>4, <2>5, <2>6 DEF Tokenize
<1>2. CASE ScanAlphanumericRun
  <2>1. CASE ProbeLetter \/ ProbeDigit
    <3>1. /\ pc = "probe" /\ pc' = "probe" /\ i' = i /\ input' = input
          /\ pos' = pos + Size(input, pos) /\ pos < pos'
          /\ Letter(pos) \/ Digit(pos)
      BY <1>0, <2>1, NextOffset DEF ProbeLetter, ProbeDigit, Advance, Scan, Letter, Digit
    <3>2. CASE ProbeLetter
      <4>1. hasLetter' = TRUE /\ Letter(pos)
        BY <3>2 DEF ProbeLetter
      <4>2. Sign(i) => SignedWordAt(input, i)
        BY <3>1, <4>1, ProbeFindsSignedWord DEF ProgressInv, RunInv
      <4>3. RunInv'
        BY <1>0, <3>1, <4>1, <4>2 DEF ProgressInv, RunInv, StartsAlphanumericRun, Letter,
           Digit, Sign, SignLen
      <4> QED
        BY <3>1, <4>3 DEF ProgressInv, FreshHyphen, LastByte, Minus
    <3>3. CASE ProbeDigit
      <4>1. hasLetter' = hasLetter /\ Digit(pos)
        BY <3>3 DEF ProbeDigit, Advance
      <4>2. pos + Size(input, pos) = pos + 1
        BY <1>0, <4>1, DigitIsOneByte DEF Digit
      <4>3. RunInv'
        BY <1>0, <3>1, <4>1, <4>2 DEF ProgressInv, RunInv, StartsAlphanumericRun, Letter,
           Digit, Sign, SignLen
      <4> QED
        BY <3>1, <4>3 DEF ProgressInv, FreshHyphen, LastByte, Minus
    <3> QED
      BY <2>1, <3>2, <3>3
  <2>2. CASE ProbeEnd
    <3>1. /\ pc = "probe" /\ i' = i /\ input' = input /\ hasLetter' = hasLetter
          /\ ~Letter(pos) /\ ~Digit(pos)
      BY <2>2 DEF ProbeEnd, Scan
    <3>2. CASE hasLetter = TRUE
      <4>1. pc' = "word" /\ pos' = i
        BY <2>2, <3>2 DEF ProbeEnd, Scan
      <4> QED
        BY <3>1, <3>2, <4>1 DEF ProgressInv, FreshHyphen, RunInv, LastByte, Minus,
           StartsAlphanumericRun, Letter, Digit, Sign
    <3>3. CASE hasLetter # TRUE
      <4>1. pc' = "number" /\ pos' = i + SignLen(i)
        BY <2>2, <3>3, Zenon DEF ProbeEnd, Scan
      <4>2. /\ i + SignLen(i) <= pos
            /\ \A d \in (i + SignLen(i)) .. (pos - 1) : Digit(d)
            /\ StartsAlphanumericRun(i)
        BY <3>1, <3>3 DEF ProgressInv, RunInv
      <4>3. Sign(i) => Digit(i + SignLen(i))
        BY <1>0, <4>2 DEF StartsAlphanumericRun, Letter, Digit, Sign, SignLen
      <4>4. ~Sign(i) => Digit(i + SignLen(i))
        BY <1>0, <3>1, <4>2 DEF StartsAlphanumericRun, SignLen
      <4>5. Digit(i + SignLen(i))
        BY <4>3, <4>4
      <4> QED
        BY <1>0, <3>1, <4>1, <4>5 DEF ProgressInv, FreshHyphen, RunInv, LastByte, Minus,
           SignLen, Sign, Digit
    <3> QED
      BY <3>2, <3>3
  <2> QED
    BY <1>2, <2>1, <2>2 DEF ScanAlphanumericRun
<1>3. CASE ScanWord
  <2>1. CASE WordRune
    <3>1. /\ pc = "word" /\ pc' = "word" /\ i' = i /\ input' = input
          /\ pos' = pos + Size(input, pos) /\ InWord(pos)
      BY <2>1 DEF WordRune, Advance, Scan
    <3>2. hasLetter = TRUE /\ hasLetter' = TRUE
      BY <2>1, Zenon DEF WordRune, Advance, ProgressInv, RunInv
    <3>3. (~Minus(pos - 1))'
      BY <2>1, AdvanceLastByte DEF WordRune, InWord, Letter, Digit, InternalApostrophe
    <3>4. RunInv'
      BY <3>1, <3>2 DEF ProgressInv, RunInv, StartsAlphanumericRun, Letter, Digit, Sign
    <3> QED
      BY <3>1, <3>3, <3>4 DEF ProgressInv, FreshHyphen, LastByte, Minus
  <2>2. CASE WordEnd
    <3>1. pos \in Nat /\ (pos > 0 /\ Minus(pos) => ~Minus(pos - 1))
      BY <1>0, <2>2 DEF WordEnd, ProgressInv, FreshHyphen, LastByte
    <3> QED
      BY <2>2, <3>1, EmitProgressInv DEF WordEnd, Kind
  <2> QED
    BY <1>3, <2>1, <2>2 DEF ScanWord
<1>4. CASE ScanNumber
  <2>1. CASE NumberDigit
    <3>1. /\ pc \in {"number", "fraction"} /\ pc' = pc /\ i' = i /\ input' = input
          /\ pos' = pos + Size(input, pos) /\ Digit(pos)
      BY <2>1 DEF NumberDigit, Advance, Scan
    <3>2. pos' \in (pos + 1) .. Len(input) /\ (~Minus(pos - 1))'
      BY <2>1, AdvanceLastByte DEF NumberDigit, Digit
    <3>3. SignLen(i) \in 0 .. 1 /\ SignLen(i)' = SignLen(i)
      BY <3>1 DEF SignLen, Sign
    <3>4. pc = "number" => (Digit(i + SignLen(i)) /\ i + SignLen(i) <= pos)'
      BY <1>0, <3>1, <3>2, <3>3 DEF ProgressInv, RunInv, Digit
    <3>5. pc = "fraction" => (i < pos)'
      BY <1>0, <3>1, <3>2 DEF ProgressInv, RunInv
    <3>6. RunInv'
      BY <3>1, <3>4, <3>5 DEF RunInv
    <3> QED
      BY <3>1, <3>2, <3>6 DEF ProgressInv, FreshHyphen, LastByte, Minus
  <2>2. CASE NumberSeparator
    <3>1. /\ pc = "number" /\ pc' = "fraction" /\ i' = i /\ input' = input
          /\ pos' = pos + 1 /\ Class(input, pos) = "separator"
      BY <2>2 DEF NumberSeparator, SeparatesDigits, Scan
    <3>2. ~Minus(pos' - 1) /\ i < pos'
      BY <1>0, <3>1 DEF Minus
    <3> QED
      BY <3>1, <3>2 DEF ProgressInv, FreshHyphen, RunInv, LastByte, Minus
  <2>3. CASE NumberEnd
    <3>1. pos = i + SignLen(i) => pc = "fraction"
      BY <2>3 DEF NumberEnd, ProgressInv, RunInv
    <3>2. pos \in Nat /\ (pos > 0 /\ Minus(pos) => ~Minus(pos - 1))
      BY <1>0, <2>3, <3>1 DEF NumberEnd, ProgressInv, FreshHyphen, LastByte
    <3> QED
      BY <2>3, <3>2, EmitProgressInv DEF NumberEnd, Kind
  <2> QED
    BY <1>4, <2>1, <2>2, <2>3 DEF ScanNumber
<1>5. CASE WhitespaceRune \/ HyphenByte
  <2>1. /\ pc \in {"whitespace", "hyphens"} /\ pc' = pc /\ i' = i /\ input' = input
        /\ pos' = pos + Size(input, pos)
        /\ pc = "whitespace" => Class(input, pos) = "space"
    BY <1>5 DEF WhitespaceRune, HyphenByte, Advance, Scan
  <2>2. pc = "whitespace" => (~Minus(pos - 1))'
    BY <1>5, <2>1, AdvanceLastByte DEF WhitespaceRune, HyphenByte
  <2> QED
    BY <2>1, <2>2 DEF ProgressInv, FreshHyphen, RunInv, LastByte, Minus
<1>6. CASE WhitespaceEnd \/ HyphensEnd
  <2>1. pos \in Nat /\ (pos > 0 /\ Minus(pos) => ~Minus(pos - 1))
    BY <1>0, <1>6 DEF WhitespaceEnd, HyphensEnd, ProgressInv, FreshHyphen, LastByte, Minus
  <2> QED
    BY <1>6, <2>1, EmitProgressInv DEF WhitespaceEnd, HyphensEnd, Kind
<1>7. CASE Returned \/ UNCHANGED vars
  <2>1. UNCHANGED <<input, i, pos, pc, hasLetter>>
    BY <1>7 DEF Returned, vars
  <2>2. FreshHyphen' /\ LastByte'
    BY <2>1 DEF ProgressInv, FreshHyphen, LastByte, Minus, Sign, SignLen
  <2>3. RunInv'
    BY <2>1 DEF ProgressInv, RunInv, Minus, StartsAlphanumericRun, Letter, Digit, Sign, SignLen
  <2> QED
    BY <2>2, <2>3 DEF ProgressInv
<1> QED
  BY <1>1, <1>2, <1>3, <1>4, <1>5, <1>6, <1>7
     DEF Next, Step, ScanWhitespace, ScanHyphenRun

(***************************************************************************)
(* A scan that emits has moved past i, or it started on a signed word.     *)
(***************************************************************************)
LEMMA EmitAdvances ==
  ASSUME TypeOK, ProgressInv, [Next]_vars, tokens' # tokens
  PROVE  i' > i \/ SignedWordAt(input, i)
<1>0. /\ input \in Seq(Byte) /\ Len(input) \in Nat /\ i \in Nat /\ pos \in Nat
      /\ i \in 0 .. Len(input) /\ pos \in i .. Len(input)
  BY InputsAssumption DEF TypeOK
<1>1. CASE EmitInvalidByte
  BY <1>0, <1>1 DEF EmitInvalidByte, Emit
<1>2. CASE EmitPunctuation \/ EmitSymbol \/ EmitUnknownRune
  <2>1. i' = i + Size(input, i) /\ i < Len(input)
    BY <1>2 DEF EmitPunctuation, EmitSymbol, EmitUnknownRune, AtTokenStart, Emit
  <2> QED
    BY <1>0, <2>1, SizeBounds
<1>3. CASE WordEnd
  <2>1. i' = pos /\ ~InWord(pos)
    BY <1>3 DEF WordEnd, Emit
  <2>2. CASE Sign(i)
    BY <1>3, <2>2 DEF WordEnd, ProgressInv, RunInv
  <2>3. CASE ~Sign(i)
    <3>1. InWord(i)
      BY <1>3, <2>3, RunStart DEF WordEnd, ProgressInv, RunInv, InWord
    <3> QED
      BY <1>0, <2>1, <3>1
  <2> QED
    BY <2>2, <2>3
<1>4. CASE NumberEnd
  <2>1. i' = pos /\ ~Digit(pos) /\ pc \in {"number", "fraction"}
    BY <1>4 DEF NumberEnd, Emit
  <2>2. SignLen(i) \in 0 .. 1
    BY DEF SignLen
  <2> QED
    BY <1>0, <2>1, <2>2 DEF ProgressInv, RunInv
<1>5. CASE WhitespaceEnd \/ HyphensEnd
  BY <1>0, <1>5 DEF WhitespaceEnd, HyphensEnd, Emit, ProgressInv, RunInv, Minus
<1> QED
  BY <1>1, <1>2, <1>3, <1>4, <1>5
     DEF Next, Step, Tokenize, StartRun, StartWhitespace, StartHyphens, Return,
         ScanAlphanumericRun, ProbeLetter, ProbeDigit, ProbeEnd, ScanWord, WordRune,
         ScanNumber, NumberDigit, NumberSeparator, ScanWhitespace, WhitespaceRune,
         ScanHyphenRun, HyphenByte, Advance, Scan, Returned, vars

LEMMA InitProgress == Init => ProgressInv
<1> SUFFICES ASSUME Init PROVE ProgressInv
  OBVIOUS
<1>1. hasLetter # TRUE
  BY Zenon DEF Init
<1>2. pc = "tokenize" /\ i = 0
  BY DEF Init
<1>3. FreshHyphen
  BY <1>2 DEF FreshHyphen
<1>4. LastByte
  BY <1>2 DEF LastByte
<1>5. RunInv
  BY <1>1, <1>2 DEF RunInv
<1> QED
  BY <1>3, <1>4, <1>5 DEF ProgressInv

\* No turn of Tokenize's loop stands still, except where a signed word begins.
THEOREM TokensAdvance == Spec => EveryTokenAdvances
<1>1. TypeOK /\ ProgressInv /\ [Next]_vars
        => [tokens' # tokens => i' > i \/ SignedWordAt(input, i)]_vars
  BY EmitAdvances
<1> QED
  BY <1>1, InitProgress, TypeInit, TypeStep, ProgressStep, PTL DEF Spec, EveryTokenAdvances

(***************************************************************************)
(* Rune boundaries.  Every offset of the scanner is one that decoding      *)
(* character by character would reach, although some loops count bytes.    *)
(***************************************************************************)
BoundaryInv == ~InsideRune(input, i) /\ ~InsideRune(input, pos) /\ OnRuneBoundaries

\* Decoding at a boundary leads to a boundary.
LEMMA NextBoundary ==
  ASSUME NEW s \in Seq(Byte), NEW k \in Nat, k < Len(s), ~InsideRune(s, k)
  PROVE  ~InsideRune(s, k + Size(s, k))
<1> DEFINE e == k + Size(s, k)
<1>1. Size(s, k) \in 1 .. (Len(s) - k)
  BY SizeBounds
<1>2. ASSUME NEW d \in 1 .. 2, d <= e, e - d < Len(s), Size(s, e - d) > d
      PROVE  FALSE
  <2>1. CASE e - d < k
    <3>1. d = 2 /\ e - d = k - 1 /\ 1 <= k
      BY <1>1, <1>2, <2>1
    <3>2. k - 1 \in Nat /\ k - 1 < Len(s)
      BY <3>1
    <3>3. Size(s, k - 1) \in Nat /\ Size(s, k - 1) > 2
      BY <1>2, <3>1, <3>2, SizeBounds
    <3> QED
      BY <3>1, <3>2, <3>3 DEF InsideRune
  <2>2. CASE e - d = k
    BY <1>1, <1>2, <2>2
  <2>3. CASE e - d > k
    <3>1. /\ Size(s, k) = Width[ByteAt(s, k)] /\ Complete(s, k)
          /\ (e - d) - k \in 1 .. (Width[ByteAt(s, k)] - 1)
      BY <1>1, <1>2, <2>3 DEF Size
    <3>2. ByteAt(s, k + ((e - d) - k)) = "80"
      BY <3>1 DEF Complete
    <3>3. ByteAt(s, e - d) = "80"
      BY <1>1, <3>2
    <3>4. Size(s, e - d) = 1
      BY <3>3 DEF Size, Width, Byte
    <3> QED
      BY <1>2, <3>4
  <2> QED
    BY <1>1, <2>1, <2>2, <2>3
<1> QED
  BY <1>2 DEF InsideRune

\* Where the code counts one byte the character has one, or is no character.
LEMMA OneByte ==
  ASSUME NEW s \in Seq(Byte), NEW k \in Nat, k < Len(s),
         Class(s, k) \in {"plus", "minus", "separator", "invalid"}
  PROVE  Size(s, k) = 1
<1>1. ByteAt(s, k) \in Byte
  BY DEF ByteAt
<1>2. CASE Complete(s, k)
  <2>1. ByteAt(s, k) \in {"+", "-", ".", "80"}
    BY <1>1, <1>2 DEF Class, ClassOf, Byte
  <2> QED
    BY <2>1 DEF Size, Width, Byte
<1>3. CASE ~Complete(s, k)
  BY <1>3 DEF Size
<1> QED
  BY <1>2, <1>3

\* A token that ends on a boundary.
LEMMA EmitBoundaryInv ==
  ASSUME BoundaryInv, NEW kind, NEW end, Emit(kind, end), ~InsideRune(input, end)
  PROVE  BoundaryInv'
<1> DEFINE new == [start |-> i, end |-> end, kind |-> kind]
<1>1. /\ tokens' = tokens \cup {new} /\ i' = end /\ pos' = end /\ input' = input
      /\ new.start = i /\ new.end = end
  BY DEF Emit
<1> HIDE DEF new
<1>2. \A t \in tokens' : ~InsideRune(input, t.start) /\ ~InsideRune(input, t.end)
  BY <1>1 DEF BoundaryInv, OnRuneBoundaries
<1> QED
  BY <1>1, <1>2 DEF BoundaryInv, OnRuneBoundaries

\* So does a scan that moves to one.
LEMMA ScanBoundaryInv ==
  ASSUME BoundaryInv, NEW l, NEW k, Scan(l, k), ~InsideRune(input, k)
  PROVE  BoundaryInv'
BY DEF BoundaryInv, OnRuneBoundaries, Scan

LEMMA InitBoundary == Init => BoundaryInv
BY DEF Init, BoundaryInv, OnRuneBoundaries, InsideRune

LEMMA BoundaryStep == TypeOK /\ BoundaryInv /\ [Next]_vars => BoundaryInv'
<1> SUFFICES ASSUME TypeOK, BoundaryInv, [Next]_vars PROVE BoundaryInv'
  OBVIOUS
<1>0. /\ input \in Seq(Byte) /\ i \in Nat /\ pos \in Nat
      /\ ~InsideRune(input, i) /\ ~InsideRune(input, pos)
  BY InputsAssumption DEF TypeOK, BoundaryInv
<1>1. i < Len(input) => ~InsideRune(input, i + Size(input, i))
  BY <1>0, NextBoundary
<1>2. Class(input, pos) # "invalid" => ~InsideRune(input, pos + Size(input, pos))
  BY <1>0, NextBoundary, ValidInside
<1>3. ~InsideRune(input, i + SignLen(i))
  <2>1. CASE Sign(i)
    <3>1. i < Len(input) /\ Size(input, i) = 1
      BY <1>0, <2>1, ValidInside, OneByte DEF Sign
    <3> QED
      BY <1>1, <2>1, <3>1 DEF SignLen
  <2>2. CASE ~Sign(i)
    BY <1>0, <2>2 DEF SignLen
  <2> QED
    BY <2>1, <2>2
<1>4. CASE EmitInvalidByte
  <2>1. Size(input, i) = 1
    BY <1>0, <1>4, OneByte DEF EmitInvalidByte, AtTokenStart
  <2> QED
    BY <1>1, <1>4, <2>1, EmitBoundaryInv DEF EmitInvalidByte, AtTokenStart
<1>5. CASE EmitPunctuation \/ EmitSymbol \/ EmitUnknownRune
  BY <1>1, <1>5, EmitBoundaryInv DEF EmitPunctuation, EmitSymbol, EmitUnknownRune, AtTokenStart
<1>6. CASE WordEnd \/ NumberEnd \/ WhitespaceEnd \/ HyphensEnd
  BY <1>0, <1>6, EmitBoundaryInv DEF WordEnd, NumberEnd, WhitespaceEnd, HyphensEnd
<1>7. CASE StartRun \/ StartWhitespace \/ StartHyphens \/ ProbeEnd
  BY <1>0, <1>3, <1>7, ScanBoundaryInv DEF StartRun, StartWhitespace, StartHyphens, ProbeEnd
<1>8. CASE ProbeLetter \/ ProbeDigit \/ WordRune \/ NumberDigit \/ WhitespaceRune \/ HyphenByte
  <2>1. Class(input, pos) # "invalid" /\ \E l : Scan(l, pos + Size(input, pos))
    BY <1>8 DEF ProbeLetter, ProbeDigit, WordRune, InWord, InternalApostrophe, NumberDigit,
                WhitespaceRune, HyphenByte, Advance, Letter, Digit
  <2> QED
    BY <1>2, <2>1, ScanBoundaryInv
<1>9. CASE NumberSeparator
  <2>1. pos < Len(input) /\ Class(input, pos) = "separator"
    BY <1>0, <1>9, ValidInside DEF NumberSeparator, SeparatesDigits
  <2>2. Size(input, pos) = 1
    BY <1>0, <2>1, OneByte
  <2> QED
    BY <1>2, <1>9, <2>1, <2>2, ScanBoundaryInv DEF NumberSeparator
<1>10. CASE Return \/ Returned \/ UNCHANGED vars
  BY <1>10 DEF Return, Returned, vars, BoundaryInv, OnRuneBoundaries
<1> QED
  BY <1>4, <1>5, <1>6, <1>7, <1>8, <1>9, <1>10
     DEF Next, Step, Tokenize, ScanAlphanumericRun, ScanWord, ScanNumber, ScanWhitespace,
         ScanHyphenRun

\* No token begins or ends inside a character, on texts that are not valid
\* UTF-8 included.
THEOREM BoundariesRespected == Spec => []OnRuneBoundaries
<1>1. BoundaryInv => OnRuneBoundaries
  BY DEF BoundaryInv
<1> QED
  BY <1>1, InitBoundary, TypeInit, TypeStep, BoundaryStep, PTL DEF Spec

(***************************************************************************)
(* Apostrophes.  A scan that is not of a word meets none, and when a token *)
(* ends either it was a word, which an apostrophe between letters would    *)
(* have continued, or its last character is no letter.                     *)
(***************************************************************************)
ScanInv ==
  /\ pc = "tokenize" => ~InternalApostrophe(i)
  /\ pc = "word" =>
       \A k \in i .. (pos - 1) : Class(input, k) = "apostrophe" => InternalApostrophe(k)
  /\ pc \in {"number", "fraction", "whitespace", "hyphens"} =>
       /\ \A k \in i .. (pos - 1) : Class(input, k) # "apostrophe"
       /\ pos = i \/ ~LetterBefore(input, pos)

ApostropheInv == ScanInv /\ ApostrophesJoinLetters

LEMMA InsideIsInvalid ==
  ASSUME NEW s \in Seq(Byte), NEW k \in Nat, k < Len(s), NEW b \in (k + 1) .. (k + Size(s, k) - 1)
  PROVE  Class(s, b) = "invalid"
<1>1. Size(s, k) \in 1 .. (Len(s) - k)
  BY SizeBounds
<1>2. Complete(s, k) /\ b - k \in 1 .. (Width[ByteAt(s, k)] - 1)
  BY <1>1 DEF Size
<1>3. ByteAt(s, k + (b - k)) = "80"
  BY <1>2 DEF Complete
<1>4. ByteAt(s, b) = "80"
  BY <1>1, <1>3
<1> QED
  BY <1>4 DEF Class, ClassOf, Byte

LEMMA NoLetterBefore ==
  ASSUME NEW s \in Seq(Byte), NEW k \in Nat, k < Len(s), ~InsideRune(s, k),
         Class(s, k) # "letter"
  PROVE  ~LetterBefore(s, k + Size(s, k))
<1> DEFINE e == k + Size(s, k)
<1>1. Size(s, k) \in 1 .. (Len(s) - k)
  BY SizeBounds
<1>2. ASSUME NEW w \in 1 .. 3, w <= e, Class(s, e - w) = "letter", Size(s, e - w) = w
      PROVE  FALSE
  <2>1. CASE e - w < k
    <3>1. PICK m \in Nat : m = e - w
      BY <1>1, <1>2
    <3>2. m < Len(s) /\ k - m \in 1 .. 2 /\ k - (k - m) = m /\ k - m <= k
      BY <1>1, <1>2, <2>1, <3>1
    <3>3. Size(s, m) > k - m
      BY <1>1, <1>2, <3>1
    <3> QED
      BY <3>2, <3>3 DEF InsideRune
  <2>2. CASE e - w = k
    BY <1>2, <2>2
  <2>3. CASE e - w > k
    BY <1>1, <1>2, <2>3, InsideIsInvalid
  <2> QED
    BY <1>1, <2>1, <2>2, <2>3
<1> QED
  BY <1>2 DEF LetterBefore

\* A character that is met by a scan at pos.
LEMMA AdvanceScanInv ==
  ASSUME TypeOK, BoundaryInv, ApostropheInv, Advance,
         \/ pc = "word" /\ InWord(pos)
         \/ /\ pc \in {"number", "fraction", "whitespace", "hyphens"}
            /\ Class(input, pos) \in {"digit", "space", "minus", "separator"}
  PROVE  ApostropheInv'
<1>1. /\ input \in Seq(Byte) /\ i \in Nat /\ pos \in Nat /\ i <= pos
      /\ ~InsideRune(input, pos) /\ pos < Len(input)
  BY InputsAssumption, ValidInside
     DEF TypeOK, BoundaryInv, InWord, InternalApostrophe, Letter, Digit
<1>2. /\ input' = input /\ i' = i /\ pc' = pc /\ tokens' = tokens
      /\ pos' = pos + Size(input, pos)
  BY DEF Advance, Scan
<1>3. Size(input, pos) \in Nat \ {0}
  BY <1>1, SizeBounds
<1>4. \A k \in i .. (pos' - 1) : k \in i .. (pos - 1) \/ k = pos \/ Class(input, k) = "invalid"
  BY <1>1, <1>2, <1>3, InsideIsInvalid
<1>5. CASE pc = "word" /\ InWord(pos)
  <2>1. \A k \in i .. (pos' - 1) : Class(input, k) = "apostrophe" => InternalApostrophe(k)
    BY <1>4, <1>5 DEF ApostropheInv, ScanInv, InWord, Letter, Digit
  <2> QED
    BY <1>2, <1>5, <2>1
       DEF ApostropheInv, ScanInv, ApostrophesJoinLetters, InternalApostrophe, Letter
<1>6. CASE /\ pc \in {"number", "fraction", "whitespace", "hyphens"}
           /\ Class(input, pos) \in {"digit", "space", "minus", "separator"}
  <2>1. \A k \in i .. (pos' - 1) : Class(input, k) # "apostrophe"
    BY <1>4, <1>6 DEF ApostropheInv, ScanInv
  <2>2. ~LetterBefore(input, pos')
    BY <1>1, <1>2, <1>6, NoLetterBefore
  <2> QED
    BY <1>2, <1>6, <2>1, <2>2
       DEF ApostropheInv, ScanInv, ApostrophesJoinLetters, InternalApostrophe, Letter
<1> QED
  BY <1>5, <1>6

\* A token whose apostrophes are where they belong, and behind which no word
\* is cut short.
LEMMA EmitApostropheInv ==
  ASSUME ApostropheInv, NEW kind, NEW end, Emit(kind, end),
         \A k \in i .. (end - 1) :
           Class(input, k) = "apostrophe" => (kind = "word" <=> InternalApostrophe(k)),
         ~InternalApostrophe(end)
  PROVE  ApostropheInv'
<1> DEFINE new == [start |-> i, end |-> end, kind |-> kind]
<1>1. /\ tokens' = tokens \cup {new} /\ i' = end /\ pc' = "tokenize" /\ input' = input
      /\ new.start = i /\ new.end = end /\ new.kind = kind
  BY DEF Emit
<1> HIDE DEF new
<1>2. \A t \in tokens' : \A k \in t.start .. (t.end - 1) :
        Class(input, k) = "apostrophe" => (t.kind = "word" <=> InternalApostrophe(k))
  BY <1>1 DEF ApostropheInv, ApostrophesJoinLetters
<1> QED
  BY <1>1, <1>2 DEF ApostropheInv, ScanInv, ApostrophesJoinLetters, InternalApostrophe, Letter

LEMMA ApostropheStep ==
  TypeOK /\ BoundaryInv /\ ProgressInv /\ ApostropheInv /\ [Next]_vars => ApostropheInv'
<1> SUFFICES ASSUME TypeOK, BoundaryInv, ProgressInv, ApostropheInv, [Next]_vars
             PROVE  ApostropheInv'
  OBVIOUS
<1>0. /\ input \in Seq(Byte) /\ i \in Nat /\ pos \in Nat /\ i <= pos
      /\ ~InsideRune(input, i)
  BY InputsAssumption DEF TypeOK, BoundaryInv
<1>1. CASE AtTokenStart /\ Class(input, i) # "letter"
             /\ \E kind \in Kind \ {"word"} : Emit(kind, i + Size(input, i))
  <2>1. i < Len(input) /\ Size(input, i) \in Nat \ {0}
    BY <1>0, <1>1, SizeBounds DEF AtTokenStart
  <2>2. \A k \in i .. (i + Size(input, i) - 1) : k = i \/ Class(input, k) = "invalid"
    BY <1>0, <2>1, InsideIsInvalid
  <2>3. ~InternalApostrophe(i)
    BY <1>1 DEF AtTokenStart, ApostropheInv, ScanInv
  <2>4. ~InternalApostrophe(i + Size(input, i))
    BY <1>0, <1>1, <2>1, NoLetterBefore DEF InternalApostrophe
  <2>5. PICK kind \in Kind \ {"word"}, end \in {i + Size(input, i)} : Emit(kind, end)
    BY <1>1
  <2>6. \A k \in i .. (end - 1) :
          Class(input, k) = "apostrophe" => (kind = "word" <=> InternalApostrophe(k))
    <3>1. \A k \in i .. (end - 1) : Class(input, k) = "apostrophe" => k = i
      BY <1>0, <2>1, <2>2, <2>5
    <3>2. kind # "word"
      OBVIOUS
    <3> QED
      BY <2>3, <3>1, <3>2, Zenon
  <2>7. ~InternalApostrophe(end)
    BY <2>4, <2>5
  <2> QED
    BY <2>5, <2>6, <2>7, EmitApostropheInv
<1>2. CASE EmitInvalidByte
  <2>1. Size(input, i) = 1
    BY <1>0, <1>2, OneByte DEF EmitInvalidByte, AtTokenStart
  <2> QED
    BY <1>1, <1>2, <2>1 DEF EmitInvalidByte, Kind
<1>3. CASE EmitPunctuation \/ EmitSymbol \/ EmitUnknownRune
  BY <1>1, <1>3 DEF EmitPunctuation, EmitSymbol, EmitUnknownRune, Kind
<1>4. CASE StartRun \/ ProbeLetter \/ ProbeDigit
  BY <1>4 DEF StartRun, ProbeLetter, ProbeDigit, Advance, Scan, ApostropheInv, ScanInv,
              ApostrophesJoinLetters, InternalApostrophe, Letter
<1>5. CASE StartWhitespace \/ StartHyphens
  BY <1>0, <1>5 DEF StartWhitespace, StartHyphens, Scan, ApostropheInv, ScanInv,
              ApostrophesJoinLetters, InternalApostrophe, Letter
<1>6. CASE ProbeEnd
  <2>1. /\ input' = input /\ i' = i /\ tokens' = tokens
        /\ \/ pc' = "word" /\ pos' = i
           \/ pc' = "number" /\ pos' = i + SignLen(i)
    BY <1>6 DEF ProbeEnd, Scan
  <2>2. CASE Sign(i)
    <3>1. i < Len(input) /\ Size(input, i) = 1 /\ Class(input, i) \in {"plus", "minus"}
      BY <1>0, <2>2, ValidInside, OneByte DEF Sign
    <3>2. ~LetterBefore(input, i + 1)
      BY <1>0, <3>1, NoLetterBefore
    <3> QED
      BY <1>0, <2>1, <2>2, <3>1, <3>2 DEF SignLen, ApostropheInv, ScanInv,
         ApostrophesJoinLetters, InternalApostrophe, Letter
  <2>3. CASE ~Sign(i)
    BY <1>0, <2>1, <2>3 DEF SignLen, ApostropheInv, ScanInv,
       ApostrophesJoinLetters, InternalApostrophe, Letter
  <2> QED
    BY <2>2, <2>3
<1>7. CASE WordRune \/ NumberDigit \/ WhitespaceRune \/ HyphenByte
  BY <1>7, AdvanceScanInv DEF WordRune, NumberDigit, WhitespaceRune, HyphenByte, Digit
<1>8. CASE NumberSeparator
  <2>1. pos < Len(input) /\ Size(input, pos) = 1 /\ Class(input, pos) = "separator"
    BY <1>0, <1>8, ValidInside, OneByte DEF NumberSeparator, SeparatesDigits
  <2>2. ~LetterBefore(input, pos + 1)
    BY <1>0, <2>1, NoLetterBefore DEF BoundaryInv
  <2> QED
    BY <1>0, <1>8, <2>1, <2>2 DEF NumberSeparator, Scan, ApostropheInv, ScanInv,
       ApostrophesJoinLetters, InternalApostrophe, Letter
<1>9. CASE WordEnd
  BY <1>9, EmitApostropheInv DEF WordEnd, InWord, ApostropheInv, ScanInv
<1>10. CASE NumberEnd \/ WhitespaceEnd \/ HyphensEnd
  <2>1. pc \in {"number", "fraction", "whitespace", "hyphens"}
    BY <1>10 DEF NumberEnd, WhitespaceEnd, HyphensEnd
  <2>2. pos # i
    <3>1. SignLen(i) \in 0 .. 1 /\ (SignLen(i) = 1 => i + SignLen(i) # i)
      BY <1>0 DEF SignLen
    <3> QED
      BY <1>0, <1>10, <3>1
         DEF NumberEnd, WhitespaceEnd, HyphensEnd, ProgressInv, RunInv, Minus
  <2>3. ~InternalApostrophe(pos) /\ \A k \in i .. (pos - 1) : Class(input, k) # "apostrophe"
    BY <2>1, <2>2 DEF ApostropheInv, ScanInv, InternalApostrophe
  <2> QED
    BY <1>10, <2>3, EmitApostropheInv DEF NumberEnd, WhitespaceEnd, HyphensEnd
<1>11. CASE Return \/ Returned \/ UNCHANGED vars
  BY <1>11 DEF Return, Returned, vars, ApostropheInv, ScanInv, ApostrophesJoinLetters,
               InternalApostrophe, Letter
<1> QED
  BY <1>2, <1>3, <1>4, <1>5, <1>6, <1>7, <1>8, <1>9, <1>10, <1>11
     DEF Next, Step, Tokenize, ScanAlphanumericRun, ScanWord, ScanNumber, ScanWhitespace,
         ScanHyphenRun

\* An apostrophe is inside a word exactly when it stands between two letters.
THEOREM ApostrophesBelong == Spec => []ApostrophesJoinLetters
<1>1. Init => ApostropheInv
  BY DEF Init, ApostropheInv, ScanInv, ApostrophesJoinLetters, InternalApostrophe, LetterBefore
<1>2. ApostropheInv => ApostrophesJoinLetters
  BY DEF ApostropheInv
<1> QED
  BY <1>1, <1>2, TypeInit, TypeStep, InitBoundary, BoundaryStep, InitProgress, ProgressStep,
     ApostropheStep, PTL DEF Spec

(***************************************************************************)
(* Maximal munch.  For each kind of token: if the scan of it has seen what *)
(* it stopped for, no class of MaximalMunch describes a longer span.       *)
(***************************************************************************)

\* A character that is not invalid starts where it is met ...
LEMMA StartsRune ==
  ASSUME NEW s \in Seq(Byte), NEW k \in Nat, Class(s, k) # "invalid"
  PROVE  ~InsideRune(s, k)
<1> SUFFICES ASSUME NEW d \in 1 .. 2, d <= k, k - d < Len(s), Size(s, k - d) > d
             PROVE  FALSE
  BY DEF InsideRune
<1>1. PICK m \in Nat : m = k - d
  OBVIOUS
<1>2. m < Len(s) /\ Size(s, m) \in Nat
  BY <1>1, SizeBounds
<1>3. k \in (m + 1) .. (m + Size(s, m) - 1)
  BY <1>1, <1>2
<1> QED
  BY <1>2, <1>3, InsideIsInvalid

\* ... and no other starts before it ends.
LEMMA NoneInside ==
  ASSUME NEW s \in Seq(Byte), NEW k \in Nat, k < Len(s),
         NEW r \in Nat, k < r, r < k + Size(s, k)
  PROVE  InsideRune(s, r)
<1>1. Size(s, k) \in 1 .. 3
  <2>1. ByteAt(s, k) \in Byte
    BY DEF ByteAt
  <2> QED
    BY <2>1 DEF Size, Width
<1>2. r - k \in 1 .. 2 /\ r - k <= r /\ r - (r - k) = k
  BY <1>1
<1>3. Size(s, r - (r - k)) > r - k
  BY <1>1, <1>2
<1> QED
  BY <1>2, <1>3 DEF InsideRune

\* MaximalMunch reads text as the scanner does.
LEMMA SameText ==
  ASSUME NEW s, NEW k
  PROVE  /\ MM!Size(s, k) = Size(s, k)
         /\ MM!Class(s, k) = Class(s, k)
         /\ MM!InsideRune(s, k) <=> InsideRune(s, k)
         /\ MM!LetterBefore(s, k) <=> LetterBefore(s, k)
BY Zenon DEF MM!Size, MM!Class, MM!InsideRune, MM!LetterBefore, MM!Complete, MM!ByteAt, MM!Width,
          MM!ClassOf, MM!Byte, Size, Class, InsideRune, LetterBefore, Complete, ByteAt, Width,
          ClassOf, Byte

\* Every character of a span, the one it begins with included, is of class c.
OfClass(s, k, e, c) == MM!Classes(s, k, e) = {c}

LEMMA OneClassIf ==
  ASSUME NEW s, NEW k \in Nat, NEW e \in Nat, k < e, ~InsideRune(s, k), NEW c,
         \A r \in k .. (e - 1) : ~InsideRune(s, r) => Class(s, r) = c
  PROVE  OfClass(s, k, e, c)
<1>1. k \in MM!RuneStarts(s, k, e)
  BY SameText DEF MM!RuneStarts
<1>2. \A r \in MM!RuneStarts(s, k, e) : Class(s, r) = c
  BY SameText DEF MM!RuneStarts
<1>3. MM!Classes(s, k, e) = {Class(s, r) : r \in MM!RuneStarts(s, k, e)}
  BY SameText DEF MM!Classes
<1> QED
  BY <1>1, <1>2, <1>3 DEF OfClass

LEMMA OneClass ==
  ASSUME NEW s, NEW k, NEW e, NEW c, OfClass(s, k, e, c)
  PROVE  \A r \in k .. (e - 1) : ~InsideRune(s, r) => Class(s, r) = c
<1>1. \A r \in k .. (e - 1) : ~InsideRune(s, r) => r \in MM!RuneStarts(s, k, e)
  BY SameText DEF MM!RuneStarts
<1>2. MM!Classes(s, k, e) = {Class(s, r) : r \in MM!RuneStarts(s, k, e)}
  BY SameText DEF MM!Classes
<1> QED
  BY <1>1, <1>2 DEF OfClass

\* A character that a word may have.
BelongsToWord(s, r) ==
  \/ Class(s, r) \in {"letter", "digit"}
  \/ /\ Class(s, r) = "apostrophe" /\ LetterBefore(s, r)
     /\ Class(s, r + Size(s, r)) = "letter"

\* A word begins with a letter or a digit, has a letter, and is letters, digits
\* and apostrophes between letters.
LEMMA WordIs ==
  ASSUME NEW s, NEW k \in Nat, NEW e \in Nat, MM!IsWord(s, k, e)
  PROVE  /\ Class(s, k) \in {"letter", "digit"}
         /\ \E m \in k .. (e - 1) : Class(s, m) = "letter"
         /\ \A r \in k .. (e - 1) : ~InsideRune(s, r) => BelongsToWord(s, r)
<1> USE DEF BelongsToWord
<1>1. \A r : r \in MM!RuneStarts(s, k, e) <=> r \in k .. (e - 1) /\ ~InsideRune(s, r)
  BY SameText DEF MM!RuneStarts
<1>2. "letter" \in {Class(s, r) : r \in MM!RuneStarts(s, k, e)}
  BY SameText DEF MM!IsWord, MM!Classes
<1> QED
  BY <1>1, <1>2, SameText DEF MM!IsWord

\* What the token classes say of a span that begins with a character.
LEMMA CandidateIs ==
  ASSUME NEW s \in Seq(Byte), NEW k \in Nat, ~InsideRune(s, k), NEW u \in MM!Candidates(s, k)
  PROVE  /\ u.end \in (k + 1) .. Len(s) /\ ~InsideRune(s, u.end)
         /\ \/ MM!IsWord(s, k, u.end)
            \/ MM!IsNumber(s, k, u.end)
            \/ \E c \in {"space", "minus"} :
                 /\ Class(s, k) = c
                 /\ \A r \in k .. (u.end - 1) : ~InsideRune(s, r) => Class(s, r) = c
            \/ /\ Class(s, k) \in {"punct", "separator", "apostrophe", "symbol", "plus",
                                   "other", "invalid"}
               /\ u.end = k + Size(s, k)
<1>1. PICK e \in (k + 1) .. Len(s), kind \in MM!Kind :
        /\ u.end = e /\ u.kind = kind /\ ~InsideRune(s, e)
        /\ MM!Describes(kind, s, k, e)
  BY SameText DEF MM!Candidates
<1>2. e \in Nat /\ k < e
  BY <1>1
<1>3. ASSUME NEW c, MM!Classes(s, k, e) = {c}
      PROVE  Class(s, k) = c /\ \A r \in k .. (e - 1) : ~InsideRune(s, r) => Class(s, r) = c
  <2>1. \A r \in k .. (e - 1) : ~InsideRune(s, r) => Class(s, r) = c
    BY <1>2, <1>3, OneClass DEF OfClass
  <2>2. k \in k .. (e - 1)
    BY <1>2
  <2> QED
    BY <2>1, <2>2
<1>4. CASE kind = "word"
  BY <1>1, <1>4 DEF MM!Describes
<1>5. CASE kind = "number"
  BY <1>1, <1>5 DEF MM!Describes
<1>6. CASE kind = "whitespace"
  BY <1>1, <1>3, <1>6 DEF MM!Describes, MM!IsWhitespace
<1>7. CASE kind = "punctuation"
  <2>1. \/ e = k + Size(s, k) /\ Class(s, k) \in {"punct", "separator", "apostrophe"}
        \/ MM!Classes(s, k, e) = {"minus"}
    BY <1>1, <1>7, SameText DEF MM!Describes, MM!IsPunctuation, MM!OneRune
  <2> QED
    BY <1>1, <1>3, <2>1
<1>8. CASE kind \in {"symbol", "unknown"}
  BY <1>1, <1>8, SameText DEF MM!Describes, MM!IsSymbol, MM!IsUnknown, MM!OneRune
<1> QED
  BY <1>1, <1>4, <1>5, <1>6, <1>7, <1>8 DEF MM!Kind

\* A number begins with its sign or its first digit, and is digits up to its
\* separator, if it has one, and from there on.
LEMMA NumberIs ==
  ASSUME NEW s \in Seq(Byte), NEW k \in Nat, ~InsideRune(s, k), NEW e \in Nat,
         MM!IsNumber(s, k, e)
  PROVE  \E b \in {k, k + 1}, p \in Nat :
           /\ b < p /\ p <= e
           /\ IF b = k THEN Class(s, k) = "digit" ELSE Class(s, k) \in {"plus", "minus"}
           /\ ~InsideRune(s, b) /\ Class(s, b) = "digit"
           /\ \A r \in b .. (p - 1) : ~InsideRune(s, r) => Class(s, r) = "digit"
           /\ \/ p = e
              \/ /\ p < e /\ Class(s, p) = "separator" /\ Class(s, p + 1) = "digit"
                 /\ p + 1 < e
                 /\ \A r \in (p + 1) .. (e - 1) : ~InsideRune(s, r) => Class(s, r) = "digit"
<1>1. PICK b \in {k, k + 1} :
        /\ b = k \/ Class(s, k) \in {"plus", "minus"}
        /\ \/ MM!AllDigits(s, b, e)
           \/ \E p \in b .. (e - 1) : /\ MM!AllDigits(s, b, p) /\ Class(s, p) = "separator"
                                      /\ MM!AllDigits(s, p + 1, e)
  BY SameText DEF MM!IsNumber
<1>2. ~InsideRune(s, b) /\ b \in Nat
  <2>1. CASE b = k
    BY <2>1
  <2>2. CASE b = k + 1 /\ Class(s, k) \in {"plus", "minus"}
    <3>1. k < Len(s) /\ Size(s, k) = 1
      BY <2>2, ValidInside, OneByte
    <3> QED
      BY <2>2, <3>1, NextBoundary
  <2> QED
    BY <1>1, <2>1, <2>2
<1>3. ASSUME NEW a \in Nat, NEW m \in Nat, ~InsideRune(s, a), MM!AllDigits(s, a, m)
      PROVE  /\ a < m /\ Class(s, a) = "digit"
             /\ \A r \in a .. (m - 1) : ~InsideRune(s, r) => Class(s, r) = "digit"
  <2>1. a < m /\ MM!Classes(s, a, m) = {"digit"}
    BY <1>3 DEF MM!AllDigits
  <2>2. \A r \in a .. (m - 1) : ~InsideRune(s, r) => Class(s, r) = "digit"
    BY <1>3, <2>1, OneClass DEF OfClass
  <2>3. a \in a .. (m - 1)
    BY <2>1
  <2> QED
    BY <1>3, <2>1, <2>2, <2>3
<1>4. CASE MM!AllDigits(s, b, e)
  <2>1. /\ b < e /\ Class(s, b) = "digit"
        /\ \A r \in b .. (e - 1) : ~InsideRune(s, r) => Class(s, r) = "digit"
    BY <1>2, <1>3, <1>4
  <2>2. IF b = k THEN Class(s, k) = "digit" ELSE Class(s, k) \in {"plus", "minus"}
    BY <1>1, <2>1
  <2>3. e <= e
    OBVIOUS
  <2> QED
    BY <1>2, <2>1, <2>2, <2>3, Zenon
<1>5. CASE \E p \in b .. (e - 1) : /\ MM!AllDigits(s, b, p) /\ Class(s, p) = "separator"
                                   /\ MM!AllDigits(s, p + 1, e)
  <2>1. PICK p \in b .. (e - 1) : /\ MM!AllDigits(s, b, p) /\ Class(s, p) = "separator"
                                  /\ MM!AllDigits(s, p + 1, e)
    BY <1>5
  <2>2. p \in Nat /\ p + 1 \in Nat /\ p < e /\ p <= e
    BY <1>2
  <2>3. /\ b < p /\ Class(s, b) = "digit"
        /\ \A r \in b .. (p - 1) : ~InsideRune(s, r) => Class(s, r) = "digit"
    BY <1>2, <1>3, <2>1, <2>2
  <2>4. ~InsideRune(s, p + 1)
    <3>1. p < Len(s) /\ Size(s, p) = 1 /\ ~InsideRune(s, p)
      BY <2>1, <2>2, ValidInside, OneByte, StartsRune
    <3> QED
      BY <2>2, <3>1, NextBoundary
  <2>5. /\ p + 1 < e /\ Class(s, p + 1) = "digit"
        /\ \A r \in (p + 1) .. (e - 1) : ~InsideRune(s, r) => Class(s, r) = "digit"
    BY <1>3, <2>1, <2>2, <2>4
  <2>6. IF b = k THEN Class(s, k) = "digit" ELSE Class(s, k) \in {"plus", "minus"}
    BY <1>1, <2>3
  <2> QED
    BY <1>2, <2>1, <2>2, <2>3, <2>5, <2>6, Zenon
<1> QED
  BY <1>1, <1>4, <1>5

\* What each loop has seen since it was entered.  The first character of a run
\* that is no digit decides between a word and a number.
FirstOfRun == i + SignLen(i)

DigitsIn(k, e) == \A d \in k .. (e - 1) : Digit(d)

MunchInv ==
  /\ pc \in {"probe", "word"} /\ hasLetter = TRUE =>
       \E m \in FirstOfRun .. (Len(input) - 1) :
         Letter(m) /\ DigitsIn(FirstOfRun, m) /\ (pc = "probe" => m < pos)
  /\ pc = "word" => \A r \in i .. (pos - 1) : ~InsideRune(input, r) => InWord(r)
  /\ pc = "number" =>
       /\ DigitsIn(FirstOfRun, pos)
       /\ \E q \in pos .. Len(input) : DigitsIn(FirstOfRun, q) /\ ~Letter(q) /\ ~Digit(q)
  /\ pc = "fraction" =>
       \E p \in (FirstOfRun + 1) .. (pos - 1) :
         DigitsIn(FirstOfRun, p) /\ SeparatesDigits(p) /\ DigitsIn(p + 1, pos)
  /\ pc = "whitespace" =>
       \A r \in i .. (pos - 1) : ~InsideRune(input, r) => Class(input, r) = "space"
  /\ pc = "hyphens" =>
       ~StartsAlphanumericRun(i) /\ \A r \in i .. (pos - 1) : Class(input, r) = "minus"

\* Between the characters at pos and behind it there is no other.
LEMMA NoneBetween ==
  ASSUME TypeOK, pos < Len(input)
  PROVE  \A r \in i .. (pos + Size(input, pos) - 1) :
           ~InsideRune(input, r) => r = pos \/ r \in i .. (pos - 1)
<1>1. input \in Seq(Byte) /\ i \in Nat /\ pos \in Nat
  BY InputsAssumption DEF TypeOK
<1>2. Size(input, pos) \in Nat
  BY <1>1, SizeBounds
<1> TAKE r \in i .. (pos + Size(input, pos) - 1)
<1>3. r \in Nat /\ (pos < r => r < pos + Size(input, pos))
  BY <1>1, <1>2
<1> QED
  BY <1>1, <1>3, NoneInside

\* Every turn of a loop adds the character at pos to what the loop has seen.
LEMMA MunchStep ==
  TypeOK /\ BoundaryInv /\ ProgressInv /\ MunchInv /\ [Next]_vars => MunchInv'
<1> SUFFICES ASSUME TypeOK, BoundaryInv, ProgressInv, MunchInv, [Next]_vars PROVE MunchInv'
  OBVIOUS
<1>0. /\ input \in Seq(Byte) /\ Len(input) \in Nat /\ i \in Nat /\ pos \in Nat
      /\ i <= pos /\ pos <= Len(input) /\ SignLen(i) \in 0 .. 1 /\ FirstOfRun \in Nat
  BY InputsAssumption DEF TypeOK, SignLen, FirstOfRun
<1>1. CASE pc' \in {"tokenize", "done"}
  BY <1>1 DEF MunchInv
<1>2. CASE StartRun
  <2>1. hasLetter # TRUE /\ hasLetter' = hasLetter /\ pc' = "probe"
    BY <1>2 DEF StartRun, Scan, AtTokenStart, ProgressInv, RunInv
  <2> QED
    BY <2>1 DEF MunchInv
<1>3. CASE StartWhitespace
  BY <1>0, <1>3 DEF StartWhitespace, Scan, MunchInv
<1>4. CASE StartHyphens
  BY <1>0, <1>4 DEF StartHyphens, Scan, MunchInv, StartsAlphanumericRun, Letter, Digit, Sign
<1>5. CASE ProbeLetter \/ ProbeDigit
  <2>1. /\ pc = "probe" /\ pc' = "probe" /\ input' = input /\ i' = i
        /\ pos' = pos + Size(input, pos) /\ pos < Len(input)
    BY <1>0, <1>5, ValidInside DEF ProbeLetter, ProbeDigit, Advance, Scan, Letter, Digit
  <2>2. pos' \in Nat /\ pos < pos'
    BY <1>0, <2>1, SizeBounds
  <2>3. CASE hasLetter = TRUE
    <3>1. PICK m \in FirstOfRun .. (Len(input) - 1) :
            Letter(m) /\ DigitsIn(FirstOfRun, m) /\ m < pos
      BY <2>1, <2>3 DEF MunchInv
    <3>2. m < pos'
      BY <1>0, <2>2, <3>1
    <3> QED
      BY <2>1, <3>1, <3>2 DEF MunchInv, FirstOfRun, DigitsIn, SignLen, Letter, Digit, Sign
  <2>4. CASE hasLetter # TRUE /\ ProbeDigit
    <3>1. hasLetter' # TRUE
      BY <2>4, Zenon DEF ProbeDigit, Advance
    <3> QED
      BY <2>1, <3>1 DEF MunchInv
  <2>5. CASE hasLetter # TRUE /\ ProbeLetter
    <3>1. /\ Letter(pos) /\ DigitsIn(FirstOfRun, pos) /\ FirstOfRun <= pos
      BY <2>1, <2>5 DEF ProbeLetter, ProgressInv, RunInv, DigitsIn, FirstOfRun
    <3>2. pos \in FirstOfRun .. (Len(input) - 1)
      BY <1>0, <2>1, <3>1
    <3> QED
      BY <2>1, <2>2, <3>1, <3>2 DEF MunchInv, FirstOfRun, DigitsIn, SignLen, Letter, Digit, Sign
  <2> QED
    BY <1>5, <2>3, <2>4, <2>5
<1>6. CASE ProbeEnd
  <2>1. /\ pc = "probe" /\ input' = input /\ i' = i /\ hasLetter' = hasLetter
        /\ ~Letter(pos) /\ ~Digit(pos)
        /\ IF hasLetter THEN pc' = "word" /\ pos' = i ELSE pc' = "number" /\ pos' = FirstOfRun
    BY <1>6 DEF ProbeEnd, Scan, FirstOfRun
  <2>2. CASE hasLetter = TRUE
    <3>1. pc' = "word" /\ pos' = i
      BY <2>1, <2>2
    <3>2. PICK m \in FirstOfRun .. (Len(input) - 1) : Letter(m) /\ DigitsIn(FirstOfRun, m)
      BY <2>1, <2>2 DEF MunchInv
    <3> QED
      BY <1>0, <2>1, <3>1, <3>2 DEF MunchInv, FirstOfRun, DigitsIn, SignLen, Letter, Digit, Sign
  <2>3. CASE hasLetter # TRUE
    <3>1. pc' = "number" /\ pos' = FirstOfRun
      <4>1. hasLetter = FALSE
        BY <2>3 DEF TypeOK
      <4> QED
        BY <2>1, <4>1
    <3>2. DigitsIn(FirstOfRun, pos) /\ FirstOfRun <= pos
      BY <2>1, <2>3 DEF ProgressInv, RunInv, DigitsIn, FirstOfRun
    <3>3. pos \in FirstOfRun .. Len(input)
      BY <1>0, <3>2
    <3>4. DigitsIn(FirstOfRun, FirstOfRun)
      BY <1>0 DEF DigitsIn
    <3> QED
      BY <2>1, <3>1, <3>2, <3>3, <3>4
         DEF MunchInv, FirstOfRun, DigitsIn, SignLen, Letter, Digit, Sign
  <2> QED
    BY <2>2, <2>3
<1>7. CASE WordRune
  <2>1. /\ pc = "word" /\ pc' = "word" /\ input' = input /\ i' = i /\ hasLetter' = hasLetter
        /\ pos' = pos + Size(input, pos) /\ pos < Len(input) /\ InWord(pos)
    BY <1>0, <1>7, ValidInside
       DEF WordRune, InWord, InternalApostrophe, Advance, Scan, Letter, Digit
  <2>2. \A r \in i .. (pos' - 1) : ~InsideRune(input, r) => InWord(r)
    <3>1. \A r \in i .. (pos - 1) : ~InsideRune(input, r) => InWord(r)
      BY <2>1 DEF MunchInv
    <3>2. \A r \in i .. (pos + Size(input, pos) - 1) :
            ~InsideRune(input, r) => r = pos \/ r \in i .. (pos - 1)
      BY <2>1, NoneBetween
    <3>3. pos' - 1 = pos + Size(input, pos) - 1
      BY <1>0, <2>1, SizeBounds
    <3> QED
      BY <2>1, <3>1, <3>2, <3>3, Zenon
  <2>3. hasLetter = TRUE => \E m \in FirstOfRun .. (Len(input) - 1) :
                              Letter(m) /\ DigitsIn(FirstOfRun, m)
    BY <2>1 DEF MunchInv
  <2> QED
    BY <2>1, <2>2, <2>3 DEF MunchInv, InWord, InternalApostrophe, FirstOfRun, DigitsIn, SignLen,
                            Letter, Digit, Sign
<1>8. CASE NumberDigit
  <2>1. /\ pc \in {"number", "fraction"} /\ pc' = pc /\ input' = input /\ i' = i /\ Digit(pos)
        /\ pos' = pos + 1 /\ pos < Len(input)
    BY <1>0, <1>8, ValidInside, DigitIsOneByte DEF NumberDigit, Advance, Scan, Digit
  <2>2. ASSUME NEW k \in Nat, DigitsIn(k, pos)
        PROVE  DigitsIn(k, pos')
    BY <1>0, <2>1, <2>2 DEF DigitsIn
  <2>3. CASE pc = "number"
    <3>1. PICK q \in pos .. Len(input) : DigitsIn(FirstOfRun, q) /\ ~Letter(q) /\ ~Digit(q)
      BY <2>3 DEF MunchInv
    <3>2. q \in pos' .. Len(input)
      <4>1. q # pos
        BY <2>1, <3>1
      <4> QED
        BY <1>0, <2>1, <3>1, <4>1
    <3>3. DigitsIn(FirstOfRun, pos')
      BY <1>0, <2>2, <2>3 DEF MunchInv
    <3> QED
      BY <2>1, <2>3, <3>1, <3>2, <3>3 DEF MunchInv, FirstOfRun, DigitsIn, SignLen, Letter, Digit, Sign
  <2>4. CASE pc = "fraction"
    <3>1. PICK p \in (FirstOfRun + 1) .. (pos - 1) :
            DigitsIn(FirstOfRun, p) /\ SeparatesDigits(p) /\ DigitsIn(p + 1, pos)
      BY <2>4 DEF MunchInv
    <3>2. p \in (FirstOfRun + 1) .. (pos' - 1) /\ p + 1 \in Nat
      BY <1>0, <2>1, <3>1
    <3>3. DigitsIn(p + 1, pos')
      BY <2>2, <3>1, <3>2
    <3> QED
      BY <2>1, <2>4, <3>1, <3>2, <3>3
         DEF MunchInv, SeparatesDigits, FirstOfRun, DigitsIn, SignLen, Letter, Digit, Sign
  <2> QED
    BY <2>1, <2>3, <2>4
<1>9. CASE NumberSeparator
  <2>1. /\ pc = "number" /\ pc' = "fraction" /\ input' = input /\ i' = i /\ SeparatesDigits(pos)
        /\ pos' = pos + 1
    BY <1>9 DEF NumberSeparator, Scan
  <2>2. DigitsIn(FirstOfRun, pos) /\ Digit(FirstOfRun) /\ FirstOfRun <= pos
    BY <2>1 DEF MunchInv, ProgressInv, RunInv, FirstOfRun
  <2>3. pos # FirstOfRun
    BY <2>1, <2>2 DEF SeparatesDigits, Digit
  <2>4. pos \in (FirstOfRun + 1) .. (pos' - 1)
    BY <1>0, <2>1, <2>2, <2>3
  <2>5. DigitsIn(pos + 1, pos')
    BY <1>0, <2>1 DEF DigitsIn
  <2> QED
    BY <2>1, <2>2, <2>4, <2>5
       DEF MunchInv, SeparatesDigits, FirstOfRun, DigitsIn, SignLen, Letter, Digit, Sign
<1>10. CASE WhitespaceRune
  <2>1. /\ pc = "whitespace" /\ pc' = "whitespace" /\ input' = input /\ i' = i
        /\ pos' = pos + Size(input, pos) /\ pos < Len(input) /\ Class(input, pos) = "space"
    BY <1>0, <1>10, ValidInside DEF WhitespaceRune, Advance, Scan
  <2>2. \A r \in i .. (pos' - 1) : ~InsideRune(input, r) => Class(input, r) = "space"
    <3>1. \A r \in i .. (pos - 1) : ~InsideRune(input, r) => Class(input, r) = "space"
      BY <2>1 DEF MunchInv
    <3>2. \A r \in i .. (pos + Size(input, pos) - 1) :
            ~InsideRune(input, r) => r = pos \/ r \in i .. (pos - 1)
      BY <2>1, NoneBetween
    <3>3. pos' - 1 = pos + Size(input, pos) - 1
      BY <1>0, <2>1, SizeBounds
    <3> QED
      BY <2>1, <3>1, <3>2, <3>3, Zenon
  <2> QED
    BY <2>1, <2>2 DEF MunchInv
<1>11. CASE HyphenByte
  <2>1. /\ pc = "hyphens" /\ pc' = "hyphens" /\ input' = input /\ i' = i
        /\ pos' = pos + 1 /\ Class(input, pos) = "minus"
    BY <1>0, <1>11, ValidInside, OneByte DEF HyphenByte, Advance, Scan
  <2>2. ~StartsAlphanumericRun(i) /\ \A r \in i .. (pos' - 1) : Class(input, r) = "minus"
    BY <1>0, <2>1 DEF MunchInv
  <2> QED
    BY <2>1, <2>2 DEF MunchInv, StartsAlphanumericRun, Letter, Digit, Sign
<1>12. CASE UNCHANGED vars
  BY <1>12 DEF vars, MunchInv, InWord, InternalApostrophe, SeparatesDigits, StartsAlphanumericRun,
               FirstOfRun, DigitsIn, SignLen, Letter, Digit, Sign
<1>13. CASE \/ EmitInvalidByte \/ EmitPunctuation \/ EmitSymbol \/ EmitUnknownRune \/ Return
            \/ WordEnd \/ NumberEnd \/ WhitespaceEnd \/ HyphensEnd
  BY <1>1, <1>13 DEF EmitInvalidByte, EmitPunctuation, EmitSymbol, EmitUnknownRune, Return,
                     WordEnd, NumberEnd, WhitespaceEnd, HyphensEnd, Emit
<1> QED
  BY <1>2, <1>3, <1>4, <1>5, <1>6, <1>7, <1>8, <1>9, <1>10, <1>11, <1>12, <1>13
     DEF Next, Step, Tokenize, ScanAlphanumericRun, ScanWord, ScanNumber, ScanWhitespace,
         ScanHyphenRun, Returned

\* A token that its class describes and that no candidate outruns.
LEMMA EmitMunch ==
  ASSUME TypeOK, NEW kind \in Kind, NEW end \in (i + 1) .. Len(input), Emit(kind, end),
         ~InsideRune(input, end), MM!Describes(kind, input, i, end),
         \A u \in MM!Candidates(input, i) : u.end <= end
  PROVE  MM!EmitLongest
<1> DEFINE new == [start |-> i, end |-> end, kind |-> kind]
<1>1. new.start = i /\ new.end = end /\ new.kind = kind
  OBVIOUS
<1>2. new \in [start : {i}, end : {e \in (i + 1) .. Len(input) : ~MM!InsideRune(input, e)},
               kind : MM!Kind]
  BY SameText DEF Kind, MM!Kind
<1>3. tokens' = tokens \cup {new} /\ i' = end /\ UNCHANGED input
  BY DEF Emit
<1> HIDE DEF new
<1>4. new \in MM!Candidates(input, i)
  BY <1>1, <1>2 DEF MM!Candidates
<1>5. new \in MM!Longest(input, i)
  BY <1>1, <1>4 DEF MM!Longest
<1> QED
  BY <1>1, <1>3, <1>5 DEF MM!EmitLongest

\* The kinds of token that are one character long: no run starts at i.
LEMMA RuneIsLongest ==
  ASSUME TypeOK, BoundaryInv, ~StartsAlphanumericRun(i), i < Len(input),
         Class(input, i) \notin {"space", "minus"}
  PROVE  \A u \in MM!Candidates(input, i) : u.end = i + Size(input, i)
<1>1. input \in Seq(Byte) /\ i \in Nat /\ ~InsideRune(input, i)
  BY InputsAssumption DEF TypeOK, BoundaryInv
<1> TAKE u \in MM!Candidates(input, i)
<1>2. PICK e \in Nat : e = u.end
  BY <1>1, CandidateIs
<1>3. ~MM!IsWord(input, i, e)
  BY <1>1, <1>2, WordIs DEF StartsAlphanumericRun, Letter, Digit
<1>4. ~MM!IsNumber(input, i, e)
  BY <1>1, <1>2, NumberIs DEF StartsAlphanumericRun, Digit, Sign
<1> QED
  BY <1>1, <1>2, <1>3, <1>4, CandidateIs

\* So the token that is one character long is the longest.
LEMMA EmitRune ==
  ASSUME TypeOK, BoundaryInv, ~StartsAlphanumericRun(i), i < Len(input),
         Class(input, i) \notin {"space", "minus"}, NEW kind \in Kind,
         Emit(kind, i + Size(input, i)), MM!Describes(kind, input, i, i + Size(input, i))
  PROVE  MM!EmitLongest
<1>1. input \in Seq(Byte) /\ Len(input) \in Nat /\ i \in Nat /\ ~InsideRune(input, i)
  BY InputsAssumption DEF TypeOK, BoundaryInv
<1>2. PICK end \in Nat : end = i + Size(input, i)
  BY <1>1, SizeBounds
<1>3. end \in (i + 1) .. Len(input)
  BY <1>1, <1>2, SizeBounds
<1>4. ~InsideRune(input, end)
  BY <1>1, <1>2, NextBoundary
<1>5. \A u \in MM!Candidates(input, i) : u.end <= end
  BY <1>2, RuneIsLongest
<1> QED
  BY <1>2, <1>3, <1>4, <1>5, EmitMunch

\* Spans of one class that stop where the class does.
LEMMA EmitRun ==
  ASSUME TypeOK, BoundaryInv, NEW c \in {"space", "minus"}, NEW kind \in Kind,
         ~StartsAlphanumericRun(i), Class(input, i) = c,
         \A r \in i .. (pos - 1) : ~InsideRune(input, r) => Class(input, r) = c,
         Class(input, pos) # c, Emit(kind, pos),
         MM!Classes(input, i, pos) = {c} => MM!Describes(kind, input, i, pos)
  PROVE  MM!EmitLongest
<1>1. /\ input \in Seq(Byte) /\ Len(input) \in Nat /\ i \in Nat /\ pos \in Nat
      /\ ~InsideRune(input, i) /\ ~InsideRune(input, pos) /\ i <= pos /\ pos <= Len(input)
  BY InputsAssumption DEF TypeOK, BoundaryInv
<1>2. i < pos
  BY <1>1
<1>3. MM!Describes(kind, input, i, pos)
  <2>1. OfClass(input, i, pos, c)
    BY <1>1, <1>2, OneClassIf
  <2> QED
    BY <2>1 DEF OfClass
<1>4. ASSUME NEW u \in MM!Candidates(input, i)
      PROVE  u.end <= pos
  <2>1. PICK e \in Nat : e = u.end
    BY <1>1, CandidateIs
  <2>2. ~MM!IsWord(input, i, e)
    BY <1>1, <2>1, WordIs DEF StartsAlphanumericRun, Letter, Digit
  <2>3. ~MM!IsNumber(input, i, e)
    BY <1>1, <2>1, NumberIs DEF StartsAlphanumericRun, Digit, Sign
  <2>4. \A r \in i .. (e - 1) : ~InsideRune(input, r) => Class(input, r) = c
    BY <1>1, <2>1, <2>2, <2>3, CandidateIs
  <2>5. pos \notin i .. (e - 1)
    BY <1>1, <2>4
  <2> QED
    BY <1>1, <2>1, <2>5
<1> QED
  BY <1>1, <1>2, <1>3, <1>4, EmitMunch

\* A word: the first letter of the run is in it, and it stops where no word
\* goes on.
LEMMA EmitWord ==
  ASSUME TypeOK, BoundaryInv, ProgressInv, MunchInv, WordEnd, ~Sign(i)
  PROVE  MM!EmitLongest
<1>1. /\ input \in Seq(Byte) /\ Len(input) \in Nat /\ i \in Nat /\ pos \in Nat
      /\ ~InsideRune(input, i) /\ ~InsideRune(input, pos) /\ i <= pos /\ pos <= Len(input)
  BY InputsAssumption DEF TypeOK, BoundaryInv
<1>2. pc = "word" /\ ~InWord(pos) /\ Emit("word", pos) /\ hasLetter = TRUE /\ FirstOfRun = i
  BY <1>1 DEF WordEnd, ProgressInv, RunInv, FirstOfRun, SignLen
<1>3. PICK m \in i .. (Len(input) - 1) : Letter(m) /\ DigitsIn(i, m)
  BY <1>2, Zenon DEF MunchInv
<1>4. \A r \in i .. (pos - 1) : ~InsideRune(input, r) => InWord(r)
  BY <1>2 DEF MunchInv
<1>5. m < pos
  BY <1>1, <1>2, <1>3 DEF InWord, DigitsIn
<1>6. m \in Nat /\ ~InsideRune(input, m)
  BY <1>1, <1>3, StartsRune DEF Letter
<1>7. Letter(i) \/ Digit(i)
  BY <1>2, RunStart DEF ProgressInv, RunInv
<1>8. ASSUME NEW r \in i .. (pos - 1), ~InsideRune(input, r)
      PROVE  \/ Class(input, r) \in {"letter", "digit"}
             \/ /\ Class(input, r) = "apostrophe" /\ LetterBefore(input, r)
                /\ r + Size(input, r) < pos /\ Class(input, r + Size(input, r)) = "letter"
  <2>1. InWord(r) /\ r \in Nat /\ r < pos
    BY <1>1, <1>4, <1>8
  <2>2. CASE Letter(r) \/ Digit(r)
    BY <2>2 DEF Letter, Digit
  <2>3. CASE InternalApostrophe(r)
    <3>1. Size(input, r) \in Nat
      BY <1>1, <2>1, SizeBounds
    <3>2. ~(pos < r + Size(input, r))
      BY <1>1, <2>1, NoneInside
    <3>3. pos # r + Size(input, r)
      BY <1>2, <2>3 DEF InternalApostrophe, InWord
    <3> QED
      BY <1>1, <2>1, <2>3, <3>1, <3>2, <3>3 DEF InternalApostrophe, Letter
  <2> QED
    BY <2>1, <2>2, <2>3 DEF InWord
<1>9. MM!Describes("word", input, i, pos)
  <2>1. \A r : r \in MM!RuneStarts(input, i, pos) <=> r \in i .. (pos - 1) /\ ~InsideRune(input, r)
    BY SameText DEF MM!RuneStarts
  <2>2. m \in MM!RuneStarts(input, i, pos)
    BY <1>1, <1>3, <1>5, <1>6, <2>1
  <2>3. MM!Classes(input, i, pos) = {Class(input, r) : r \in MM!RuneStarts(input, i, pos)}
    BY SameText DEF MM!Classes
  <2>4. "letter" \in MM!Classes(input, i, pos)
    BY <1>3, <2>2, <2>3 DEF Letter
  <2>5. MM!IsWord(input, i, pos)
    BY <1>7, <1>8, <2>1, <2>4, SameText DEF MM!IsWord, Letter, Digit
  <2> QED
    BY <2>5 DEF MM!Describes
<1>10. ASSUME NEW u \in MM!Candidates(input, i)
       PROVE  u.end <= pos
  <2>1. PICK e \in Nat : e = u.end
    BY <1>1, CandidateIs
  <2>2. CASE MM!IsWord(input, i, e)
    <3>1. \A r \in i .. (e - 1) : ~InsideRune(input, r) => BelongsToWord(input, r)
      <4>1. i \in Nat /\ e \in Nat
        BY <1>1
      <4> QED
        BY <2>2, <4>1, WordIs
    <3>2. ASSUME pos \in i .. (e - 1) PROVE FALSE
      <4>1. BelongsToWord(input, pos)
        BY <1>1, <3>1, <3>2
      <4> QED
        BY <1>2, <4>1 DEF BelongsToWord, InWord, InternalApostrophe, Letter, Digit
    <3> QED
      BY <1>1, <2>1, <3>2
  <2>3. CASE MM!IsNumber(input, i, e)
    <3>1. PICK b \in {i, i + 1}, p \in Nat :
            /\ b < p /\ p <= e
            /\ IF b = i THEN Class(input, i) = "digit" ELSE Class(input, i) \in {"plus", "minus"}
            /\ \A r \in b .. (p - 1) : ~InsideRune(input, r) => Class(input, r) = "digit"
            /\ p = e \/ Class(input, p) = "separator"
      BY <1>1, <2>3, NumberIs
    <3>2. b = i
      BY <3>1, <1>7 DEF Letter, Digit
    <3>3. p <= m
      BY <1>1, <1>3, <1>6, <3>1, <3>2 DEF Letter
    <3>4. p = e
      BY <1>1, <1>3, <3>1, <3>2, <3>3 DEF DigitsIn, Letter, Digit
    <3> QED
      BY <1>1, <1>5, <1>6, <2>1, <3>3, <3>4
  <2> QED
    BY <1>1, <1>7, <2>1, <2>2, <2>3, CandidateIs DEF Letter, Digit
<1>11. pos \in (i + 1) .. Len(input)
  BY <1>1, <1>3, <1>5
<1> QED
  BY <1>1, <1>2, <1>9, <1>10, <1>11, EmitMunch DEF Kind

\* A number stops where its digits do, and no word reaches past the character
\* that ends its first group of digits.
LEMMA EmitNumber ==
  ASSUME TypeOK, BoundaryInv, ProgressInv, ApostropheInv, MunchInv, NumberEnd
  PROVE  MM!EmitLongest
<1> DEFINE b == FirstOfRun
<1>1. /\ input \in Seq(Byte) /\ Len(input) \in Nat /\ i \in Nat /\ pos \in Nat
      /\ ~InsideRune(input, i) /\ ~InsideRune(input, pos) /\ i <= pos /\ pos <= Len(input)
      /\ b \in Nat /\ i <= b
      /\ IF Sign(i) THEN b = i + 1 ELSE b = i
  BY InputsAssumption DEF TypeOK, BoundaryInv, FirstOfRun, SignLen
<1>2. pc \in {"number", "fraction"} /\ ~Digit(pos) /\ Emit("number", pos)
  BY DEF NumberEnd
\* p is where the first group of digits ends.
<1>3. PICK p \in (b + 1) .. pos :
        /\ DigitsIn(b, p) /\ ~Letter(p) /\ ~Digit(p)
        /\ \/ p = pos /\ ~SeparatesDigits(p) /\ ~LetterBefore(input, p)
           \/ p < pos /\ SeparatesDigits(p) /\ DigitsIn(p + 1, pos)
  <2>1. CASE pc = "number"
    <3>1. PICK q \in pos .. Len(input) : DigitsIn(b, q) /\ ~Letter(q) /\ ~Digit(q)
      BY <2>1 DEF MunchInv
    <3>2. Digit(b) /\ b <= pos
      BY <2>1 DEF ProgressInv, RunInv, FirstOfRun
    <3>3. pos \in (b + 1) .. pos
      <4>1. pos # b
        BY <1>2, <3>2
      <4> QED
        BY <1>1, <3>2, <4>1
    <3>4. q = pos
      BY <1>1, <1>2, <3>1, <3>3 DEF DigitsIn
    <3>5. ~SeparatesDigits(pos) /\ ~LetterBefore(input, pos)
      BY <1>1, <2>1, <3>3 DEF NumberEnd, ApostropheInv, ScanInv
    <3> QED
      BY <3>1, <3>3, <3>4, <3>5
  <2>2. CASE pc = "fraction"
    <3>1. PICK q \in (b + 1) .. (pos - 1) :
            DigitsIn(b, q) /\ SeparatesDigits(q) /\ DigitsIn(q + 1, pos)
      BY <2>2 DEF MunchInv
    <3>2. q \in (b + 1) .. pos /\ q < pos
      BY <1>1, <3>1
    <3>3. ~Letter(q) /\ ~Digit(q)
      BY <3>1 DEF SeparatesDigits, Letter, Digit
    <3> QED
      BY <3>1, <3>2, <3>3
  <2> QED
    BY <1>2, <2>1, <2>2
<1>4. p \in Nat /\ b < p /\ p <= pos /\ i < pos /\ b \in b .. (p - 1)
  BY <1>1, <1>3
<1>5. Digit(b)
  BY <1>3, <1>4 DEF DigitsIn
<1> HIDE DEF b
<1>6. MM!Describes("number", input, i, pos)
  <2>1. ASSUME NEW k \in Nat, NEW e \in Nat, k < e, ~InsideRune(input, k), DigitsIn(k, e)
        PROVE  MM!AllDigits(input, k, e)
    <3>1. \A r \in k .. (e - 1) : ~InsideRune(input, r) => Class(input, r) = "digit"
      BY <2>1 DEF DigitsIn, Digit
    <3>2. MM!Classes(input, k, e) = {"digit"}
      BY <2>1, <3>1, OneClassIf DEF OfClass
    <3> QED
      BY <2>1, <3>2 DEF MM!AllDigits
  <2>2. ~InsideRune(input, b)
    BY <1>1, <1>5, StartsRune DEF Digit
  <2>3. MM!AllDigits(input, b, p)
    BY <1>1, <1>3, <1>4, <2>1, <2>2
  <2>4. p = pos \/ /\ p \in b .. (pos - 1) /\ Class(input, p) = "separator"
                   /\ MM!AllDigits(input, p + 1, pos)
    <3>1. CASE p < pos /\ SeparatesDigits(p) /\ DigitsIn(p + 1, pos)
      <4>1. p + 1 < pos
        BY <1>1, <1>2, <1>4, <3>1 DEF SeparatesDigits
      <4>2. ~InsideRune(input, p + 1) /\ p + 1 \in Nat
        <5>1. p + 1 \in Nat /\ Class(input, p + 1) # "invalid"
          BY <1>4, <3>1 DEF SeparatesDigits, Digit
        <5> QED
          BY <1>1, <5>1, StartsRune
      <4>3. MM!AllDigits(input, p + 1, pos)
        BY <1>1, <2>1, <3>1, <4>1, <4>2
      <4> QED
        BY <1>1, <1>4, <3>1, <4>3 DEF SeparatesDigits
    <3> QED
      BY <1>3, <3>1
  <2>5. b \in {i, i + 1} /\ (b = i \/ Class(input, i) \in {"plus", "minus"})
    BY <1>1 DEF Sign
  <2>6. MM!IsNumber(input, i, pos)
    BY <2>3, <2>4, <2>5, SameText DEF MM!IsNumber
  <2> QED
    BY <2>6 DEF MM!Describes
<1>7. ASSUME NEW u \in MM!Candidates(input, i)
      PROVE  u.end <= pos
  <2>1. PICK e \in Nat : e = u.end
    BY <1>1, CandidateIs
  <2>2. CASE MM!IsWord(input, i, e)
    <3>1. /\ Letter(i) \/ Digit(i)
          /\ \E m \in i .. (e - 1) : Letter(m)
          /\ \A r \in i .. (e - 1) : ~InsideRune(input, r) =>
               \/ Letter(r) \/ Digit(r)
               \/ Class(input, r) = "apostrophe" /\ LetterBefore(input, r)
      <4>1. /\ Class(input, i) \in {"letter", "digit"}
            /\ \E m \in i .. (e - 1) : Class(input, m) = "letter"
            /\ \A r \in i .. (e - 1) : ~InsideRune(input, r) => BelongsToWord(input, r)
        BY <1>1, <2>2, WordIs
      <4> QED
        BY <4>1 DEF BelongsToWord, Letter, Digit
    <3>2. b = i
      BY <1>1, <3>1 DEF Letter, Digit, Sign
    <3>3. CASE p = pos /\ ~LetterBefore(input, p)
      BY <1>1, <1>3, <2>1, <3>1, <3>3
    <3>4. CASE SeparatesDigits(p)
      <4>1. ~InsideRune(input, p) /\ Class(input, p) = "separator"
        BY <1>1, <1>4, <3>4, StartsRune DEF SeparatesDigits
      <4>2. p \notin i .. (e - 1)
        BY <3>1, <4>1 DEF Letter, Digit
      <4> QED
        BY <1>1, <1>4, <2>1, <3>2, <4>2
    <3> QED
      BY <1>3, <3>3, <3>4
  <2>3. CASE MM!IsNumber(input, i, e)
    <3>1. PICK a \in {i, i + 1}, q \in Nat :
            /\ a < q /\ q <= e
            /\ IF a = i THEN Class(input, i) = "digit" ELSE Class(input, i) \in {"plus", "minus"}
            /\ \A r \in a .. (q - 1) : ~InsideRune(input, r) => Class(input, r) = "digit"
            /\ \/ q = e
               \/ /\ q < e /\ Class(input, q) = "separator" /\ Class(input, q + 1) = "digit"
                  /\ \A r \in (q + 1) .. (e - 1) : ~InsideRune(input, r) => Class(input, r) = "digit"
      BY <1>1, <2>3, NumberIs
    <3>2. a = b
      BY <1>1, <3>1 DEF Sign
    <3>3. ~InsideRune(input, p)
      BY <1>1, <1>3, <1>4, StartsRune DEF SeparatesDigits
    <3>4. q <= p
      BY <1>1, <1>3, <1>4, <3>1, <3>2, <3>3 DEF Digit
    <3>5. CASE q = e
      BY <1>1, <1>4, <2>1, <3>4, <3>5
    <3>6. CASE q # e
      <4>1. q = p
        BY <1>1, <1>3, <3>1, <3>2, <3>4, <3>6 DEF DigitsIn, Digit
      <4>2. SeparatesDigits(p) /\ p < pos
        BY <1>3, <3>1, <3>6, <4>1 DEF SeparatesDigits, Digit
      <4>3. pos \notin (p + 1) .. (e - 1)
        BY <1>1, <1>2, <3>1, <3>6, <4>1 DEF Digit
      <4> QED
        BY <1>1, <1>4, <2>1, <4>2, <4>3
    <3> QED
      BY <3>5, <3>6
  <2>4. CASE \E c \in {"space", "minus"} :
               /\ Class(input, i) = c
               /\ \A r \in i .. (e - 1) : ~InsideRune(input, r) => Class(input, r) = c
    <3>1. b \notin i .. (e - 1)
      BY <1>1, <1>5, <2>4, StartsRune DEF Digit
    <3> QED
      BY <1>1, <1>4, <2>1, <3>1
  <2>5. CASE Class(input, i) = "plus" /\ e = i + Size(input, i)
    BY <1>1, <1>4, <2>1, <2>5, ValidInside, OneByte
  <2>6. Class(input, i) \in {"digit", "plus", "minus"}
    BY <1>1, <1>5 DEF Sign, Digit
  <2> QED
    BY <1>1, <2>1, <2>2, <2>3, <2>4, <2>5, <2>6, CandidateIs
<1> QED
  BY <1>1, <1>2, <1>4, <1>6, <1>7, EmitMunch DEF Kind

\* Every step emits the longest token or none, except at a signed word.
LEMMA MunchNext ==
  TypeOK /\ BoundaryInv /\ ProgressInv /\ ApostropheInv /\ MunchInv /\ [Next]_vars
    => [MM!EmitLongest \/ SignedWordAt(input, i)]_MM!vars
<1> SUFFICES ASSUME TypeOK, BoundaryInv, ProgressInv, ApostropheInv, MunchInv, [Next]_vars
             PROVE  MM!EmitLongest \/ SignedWordAt(input, i) \/ UNCHANGED <<input, i, tokens>>
  BY DEF MM!vars
<1>0. /\ input \in Seq(Byte) /\ Len(input) \in Nat /\ i \in Nat /\ pos \in Nat
      /\ pos <= Len(input)
  BY InputsAssumption DEF TypeOK
<1> USE DEF Kind
<1>1. CASE EmitInvalidByte
  <2>1. i < Len(input) /\ Class(input, i) = "invalid" /\ Emit("unknown", i + 1)
    BY <1>1 DEF EmitInvalidByte, AtTokenStart
  <2>2. Size(input, i) = 1 /\ ~StartsAlphanumericRun(i)
    BY <1>0, <2>1, OneByte DEF StartsAlphanumericRun, Letter, Digit, Sign
  <2>3. MM!Describes("unknown", input, i, i + Size(input, i))
    BY <2>1, SameText DEF MM!Describes, MM!IsUnknown, MM!OneRune
  <2> QED
    BY <2>1, <2>2, <2>3, EmitRune
<1>2. CASE EmitPunctuation
  <2>1. /\ i < Len(input) /\ Class(input, i) \in {"punct", "separator", "apostrophe"}
        /\ Emit("punctuation", i + Size(input, i))
    BY <1>2 DEF EmitPunctuation, AtTokenStart
  <2>2. ~StartsAlphanumericRun(i)
    BY <2>1 DEF StartsAlphanumericRun, Letter, Digit, Sign
  <2>3. MM!Describes("punctuation", input, i, i + Size(input, i))
    BY <2>1, SameText DEF MM!Describes, MM!IsPunctuation, MM!OneRune
  <2> QED
    BY <2>1, <2>2, <2>3, EmitRune
<1>3. CASE EmitSymbol
  <2>1. /\ i < Len(input) /\ Class(input, i) \in {"symbol", "plus"} /\ ~StartsAlphanumericRun(i)
        /\ Emit("symbol", i + Size(input, i))
    BY <1>3 DEF EmitSymbol, AtTokenStart
  <2>2. MM!Describes("symbol", input, i, i + Size(input, i))
    BY <2>1, SameText DEF MM!Describes, MM!IsSymbol, MM!OneRune
  <2> QED
    BY <2>1, <2>2, EmitRune
<1>4. CASE EmitUnknownRune
  <2>1. i < Len(input) /\ Class(input, i) = "other" /\ Emit("unknown", i + Size(input, i))
    BY <1>4 DEF EmitUnknownRune, AtTokenStart
  <2>2. ~StartsAlphanumericRun(i)
    BY <2>1 DEF StartsAlphanumericRun, Letter, Digit, Sign
  <2>3. MM!Describes("unknown", input, i, i + Size(input, i))
    BY <2>1, SameText DEF MM!Describes, MM!IsUnknown, MM!OneRune
  <2> QED
    BY <2>1, <2>2, <2>3, EmitRune
<1>5. CASE WhitespaceEnd
  <2>1. /\ Class(input, i) = "space" /\ Class(input, pos) # "space" /\ Emit("whitespace", pos)
        /\ \A r \in i .. (pos - 1) : ~InsideRune(input, r) => Class(input, r) = "space"
    BY <1>5 DEF WhitespaceEnd, ProgressInv, RunInv, MunchInv
  <2>2. ~StartsAlphanumericRun(i)
    BY <2>1 DEF StartsAlphanumericRun, Letter, Digit, Sign
  <2>3. MM!Classes(input, i, pos) = {"space"} => MM!Describes("whitespace", input, i, pos)
    BY DEF MM!Describes, MM!IsWhitespace
  <2> QED
    BY <2>1, <2>2, <2>3, EmitRun
<1>6. CASE HyphensEnd
  <2>1. /\ Class(input, i) = "minus" /\ Class(input, pos) # "minus" /\ Emit("punctuation", pos)
        /\ ~StartsAlphanumericRun(i) /\ \A r \in i .. (pos - 1) : Class(input, r) = "minus"
    BY <1>6 DEF HyphensEnd, ProgressInv, RunInv, MunchInv, Minus
  <2>2. MM!Classes(input, i, pos) = {"minus"} => MM!Describes("punctuation", input, i, pos)
    BY DEF MM!Describes, MM!IsPunctuation
  <2> QED
    BY <2>1, <2>2, EmitRun
<1>7. CASE WordEnd
  <2>1. CASE Sign(i)
    BY <1>7, <2>1 DEF WordEnd, ProgressInv, RunInv
  <2> QED
    BY <1>7, <2>1, EmitWord
<1>8. CASE NumberEnd
  BY <1>8, EmitNumber
<1>9. CASE UNCHANGED <<input, i, tokens>>
  BY <1>9
<1> QED
  BY <1>1, <1>2, <1>3, <1>4, <1>5, <1>6, <1>7, <1>8, <1>9
     DEF Next, Step, Tokenize, StartRun, StartWhitespace, StartHyphens, Return,
         ScanAlphanumericRun, ProbeLetter, ProbeDigit, ProbeEnd, ScanWord, WordRune,
         ScanNumber, NumberDigit, NumberSeparator, ScanWhitespace, WhitespaceRune,
         ScanHyphenRun, HyphenByte, Advance, Scan, Returned, vars

\* The scanner implements maximal munch: except at a signed word, each token is
\* the longest span that any token class describes at its offset, in every
\* text, and every other step leaves the tokens alone.
THEOREM MaximalMunchIsImplemented == Spec => ImplementsMaximalMunch
<1>1. Init => MM!Init
  BY DEF Init, MM!Init
<1>2. Init => ApostropheInv
  BY DEF Init, ApostropheInv, ScanInv, ApostrophesJoinLetters, InternalApostrophe, LetterBefore
<1>3. Init => MunchInv
  BY DEF Init, MunchInv
<1> QED
  BY <1>1, <1>2, <1>3, TypeInit, TypeStep, InitBoundary, BoundaryStep, InitProgress,
     ProgressStep, ApostropheStep, MunchStep, MunchNext, PTL DEF Spec, ImplementsMaximalMunch
=============================================================================
