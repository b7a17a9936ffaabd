----------------------------- MODULE Tokenizer -----------------------------
(***************************************************************************)
(* internal/tokenizer: the left-to-right scanner behind Process.           *)
(*                                                                         *)
(* One step is one turn of one of the scanner's loops: the outer loop of   *)
(* Tokenize, the probe that decides between a word and a number, and the   *)
(* loops of scanWord, scanNumber, scanWhitespace and scanHyphenRun.  pc    *)
(* names the loop, i and pos are the local variables of those names (pos   *)
(* is called j in the probe).                                              *)
(*                                                                         *)
(* The token slice is modelled as the set of its elements.  Spans order    *)
(* them, and a scanner that appends the same token for ever is then a      *)
(* cycle of finitely many states, so that termination can be checked.      *)
(***************************************************************************)
EXTENDS Utf8Text

CONSTANT Inputs           \* the strings Tokenize is called with

ASSUME InputsAssumption == Inputs \subseteq Seq(Byte)

VARIABLES
  input,      \* the argument of Tokenize
  pc,         \* the loop the scanner is in
  i,          \* start of the token being scanned
  pos,        \* how far the current scan has come
  hasLetter,  \* scanAlphanumericRun's verdict so far
  tokens      \* the tokens emitted

vars == <<input, pc, i, pos, hasLetter, tokens>>

Kind == {"word", "whitespace", "punctuation", "number", "symbol", "unknown"}

Token(s) == [start : 0 .. Len(s), end : 0 .. Len(s), kind : Kind]

Letter(k) == Class(input, k) = "letter"
Digit(k)  == Class(input, k) = "digit"
Sign(k)   == Class(input, k) \in {"plus", "minus"}

\* Fault: a sign begins a run whatever follows it.
StartsAlphanumericRun_AnySign(k) == Letter(k) \/ Digit(k) \/ Sign(k)

StartsAlphanumericRun(k) ==
  \/ Letter(k) \/ Digit(k)
  \/ Sign(k) /\ Digit(k + 1)

SignLen(k) == IF Sign(k) THEN 1 ELSE 0

-----------------------------------------------------------------------------

Init ==
  /\ input \in Inputs
  /\ pc = "tokenize"
  /\ i = 0
  /\ pos = 0
  /\ hasLetter = FALSE
  /\ tokens = {}

\* Fault: the token starts where the scan has come to.
Emit_FromPos(kind, end) ==
  /\ tokens' = tokens \cup {[start |-> pos, end |-> end, kind |-> kind]}
  /\ i' = end /\ pos' = end
  /\ hasLetter' = FALSE
  /\ pc' = "tokenize"
  /\ UNCHANGED input

\* Append the token [i, end) and go round the loop of Tokenize with i = end.
Emit(kind, end) ==
  /\ tokens' = tokens \cup {[start |-> i, end |-> end, kind |-> kind]}
  /\ i' = end
  /\ pos' = end
  /\ hasLetter' = FALSE
  /\ pc' = "tokenize"
  /\ UNCHANGED input

\* Enter the scanning loop l with pos at offset k.
Scan(l, k) ==
  /\ pc' = l
  /\ pos' = k
  /\ UNCHANGED <<input, i, tokens>>

Advance == Scan(pc, pos + Size(input, pos)) /\ UNCHANGED hasLetter

AtTokenStart == pc = "tokenize" /\ i < Len(input)

\* Fault: an invalid lead byte takes the bytes it announces with it.
EmitInvalidByte_TrustsLead ==
  AtTokenStart /\ Class(input, i) = "invalid" /\ Emit("unknown", i + Width[ByteAt(input, i)])

EmitInvalidByte == AtTokenStart /\ Class(input, i) = "invalid" /\ Emit("unknown", i + 1)

StartRun ==
  /\ AtTokenStart
  /\ StartsAlphanumericRun(i)
  /\ Scan("probe", i + SignLen(i))
  /\ UNCHANGED hasLetter

StartWhitespace ==
  AtTokenStart /\ Class(input, i) = "space" /\ Scan("whitespace", i) /\ UNCHANGED hasLetter

StartHyphens ==
  /\ AtTokenStart
  /\ Class(input, i) = "minus"
  /\ ~StartsAlphanumericRun(i)
  /\ Scan("hyphens", i)
  /\ UNCHANGED hasLetter

\* Fault: every punctuation character is taken to be one byte long.
EmitPunctuation_OneByte ==
  /\ AtTokenStart
  /\ Class(input, i) \in {"punct", "separator", "apostrophe"}
  /\ Emit("punctuation", i + 1)

EmitPunctuation ==
  /\ AtTokenStart
  /\ Class(input, i) \in {"punct", "separator", "apostrophe"}
  /\ Emit("punctuation", i + Size(input, i))

EmitSymbol ==
  /\ AtTokenStart
  /\ Class(input, i) \in {"symbol", "plus"}
  /\ ~StartsAlphanumericRun(i)
  /\ Emit("symbol", i + Size(input, i))

EmitUnknownRune ==
  AtTokenStart /\ Class(input, i) = "other" /\ Emit("unknown", i + Size(input, i))

Return ==
  /\ pc = "tokenize"
  /\ i = Len(input)
  /\ pc' = "done"
  /\ UNCHANGED <<input, i, pos, hasLetter, tokens>>

-----------------------------------------------------------------------------
\* scanAlphanumericRun: look for a letter in the run of letters and digits.

ProbeLetter ==
  /\ pc = "probe"
  /\ Letter(pos)
  /\ hasLetter' = TRUE
  /\ Scan("probe", pos + Size(input, pos))

ProbeDigit == pc = "probe" /\ Digit(pos) /\ Advance

\* Both scans begin at the start of the run, on its sign if it has one.
ProbeEnd ==
  /\ pc = "probe"
  /\ ~Letter(pos) /\ ~Digit(pos)
  /\ IF hasLetter THEN Scan("word", i) ELSE Scan("number", i + SignLen(i))
  /\ UNCHANGED hasLetter

-----------------------------------------------------------------------------
\* scanWord

InternalApostrophe(k) ==
  /\ Class(input, k) = "apostrophe"
  /\ LetterBefore(input, k)
  /\ Letter(k + Size(input, k))

\* Fault: an apostrophe is part of a word wherever it stands.
InWord_AnyApostrophe(k) == Letter(k) \/ Digit(k) \/ Class(input, k) = "apostrophe"

InWord(k) == Letter(k) \/ Digit(k) \/ InternalApostrophe(k)

WordRune == pc = "word" /\ InWord(pos) /\ Advance

WordEnd == pc = "word" /\ ~InWord(pos) /\ Emit("word", pos)

-----------------------------------------------------------------------------
\* scanNumber: "number" is its first group of digits, "fraction" the second.

NumberDigit == pc \in {"number", "fraction"} /\ Digit(pos) /\ Advance

\* Fault: a separator needs no digit behind it.
SeparatesDigits_Always(k) == Class(input, k) = "separator"

SeparatesDigits(k) == Class(input, k) = "separator" /\ Digit(k + 1)

NumberSeparator ==
  /\ pc = "number"
  /\ SeparatesDigits(pos)
  /\ Scan("fraction", pos + 1)
  /\ UNCHANGED hasLetter

NumberEnd ==
  /\ \/ pc = "number" /\ ~SeparatesDigits(pos)
     \/ pc = "fraction"
  /\ ~Digit(pos)
  /\ Emit("number", pos)

-----------------------------------------------------------------------------
\* scanWhitespace and scanHyphenRun

WhitespaceRune == pc = "whitespace" /\ Class(input, pos) = "space" /\ Advance

WhitespaceEnd == pc = "whitespace" /\ Class(input, pos) # "space" /\ Emit("whitespace", pos)

\* Fault: the loop over hyphens does not move.
HyphenByte_Stuck ==
  pc = "hyphens" /\ Class(input, pos) = "minus" /\ Scan(pc, pos) /\ UNCHANGED hasLetter

HyphenByte == pc = "hyphens" /\ Class(input, pos) = "minus" /\ Advance

HyphensEnd == pc = "hyphens" /\ Class(input, pos) # "minus" /\ Emit("punctuation", pos)

-----------------------------------------------------------------------------

Tokenize ==
  \/ EmitInvalidByte \/ StartRun \/ StartWhitespace \/ StartHyphens
  \/ EmitPunctuation \/ EmitSymbol \/ EmitUnknownRune \/ Return

ScanAlphanumericRun == ProbeLetter \/ ProbeDigit \/ ProbeEnd

ScanWord == WordRune \/ WordEnd

ScanNumber == NumberDigit \/ NumberSeparator \/ NumberEnd

ScanWhitespace == WhitespaceRune \/ WhitespaceEnd

ScanHyphenRun == HyphenByte \/ HyphensEnd

Step ==
  \/ Tokenize \/ ScanAlphanumericRun \/ ScanWord \/ ScanNumber
  \/ ScanWhitespace \/ ScanHyphenRun

\* The call has returned.
Returned == pc = "done" /\ UNCHANGED vars

Next == Step \/ Returned

\* Tokenize is sequential code without calls that block: while a step is
\* possible, one is taken.
Spec == Init /\ [][Next]_vars /\ WF_vars(Step)

-----------------------------------------------------------------------------
(***************************************************************************)
(* Properties                                                              *)
(***************************************************************************)

\* The scanner's variables have their types and its offsets stay inside the
\* input, i never ahead of pos.
TypeOK ==
  /\ input \in Inputs
  /\ pc \in {"tokenize", "probe", "word", "number", "fraction", "whitespace",
             "hyphens", "done"}
  /\ i \in 0 .. Len(input)
  /\ pos \in i .. Len(input)
  /\ hasLetter \in BOOLEAN
  /\ tokens \in SUBSET Token(input)

\* The tokens cover the input up to i and nothing past it, each byte once:
\* a result reassembles into the text it came from (token.go:32-34).
Tiling ==
  /\ \A t \in tokens : t.start <= t.end /\ t.end <= i
  /\ \A k \in 0 .. (i - 1) : \E t \in tokens : t.start <= k /\ k < t.end
  /\ \A t, u \in tokens : t = u \/ t.end <= u.start \/ u.end <= t.start

\* Although scanNumber and scanHyphenRun advance by bytes, no token begins or
\* ends inside a character: a surface is always valid where the input is.
OnRuneBoundaries ==
  \A t \in tokens : ~InsideRune(input, t.start) /\ ~InsideRune(input, t.end)

\* An apostrophe ends up inside a word exactly when it stands between two
\* letters, whatever token the letter before it belongs to (token.go:14-15).
ApostrophesJoinLetters ==
  \A t \in tokens : \A k \in t.start .. (t.end - 1) :
    Class(input, k) = "apostrophe" =>
      (t.kind = "word" <=> InternalApostrophe(k))

\* A sign, digits, then a letter, as in "+2nd": where such a sign begins a run,
\* scanWord starts on the sign and finds no character of a word.  A hyphen that
\* follows another one never begins a run.
SignedWordAt(s, k) ==
  /\ Class(s, k) \in {"plus", "minus"}
  /\ ~(k > 0 /\ Class(s, k) = "minus" /\ Class(s, k - 1) = "minus")
  /\ \E e \in (k + 2) .. (Len(s) - 1) :
       /\ Class(s, e) = "letter"
       /\ \A d \in (k + 1) .. (e - 1) : Class(s, d) = "digit"

HasSignedWord(s) == \E k \in 0 .. (Len(s) - 1) : SignedWordAt(s, k)

\* Every emitted token moves the scanner forward: no turn of the loop of
\* Tokenize leaves i where it was, except on a signed word.
EveryTokenAdvances ==
  [][tokens' # tokens => i' > i \/ SignedWordAt(input, i)]_vars

\* Tokenize returns on every text that has no signed word ...
TerminatesWithoutSignedWord == ~HasSignedWord(input) ~> pc = "done"

\* ... and, as its comment has it (tokenizer.go:18-20), on every text.
Termination == <>(pc = "done")

\* The scanner implements maximal munch: every token it emits is the longest
\* one that the token classes allow at its offset, the run that begins with a
\* signed word excepted.
MM == INSTANCE MaximalMunch
ImplementsMaximalMunch ==
  MM!Init /\ [][MM!EmitLongest \/ SignedWordAt(input, i)]_MM!vars
=============================================================================
