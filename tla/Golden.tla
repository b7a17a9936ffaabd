------------------------------- MODULE Golden -------------------------------
(***************************************************************************)
(* internal/golden: the records made of Results, WriteAll into a sink that *)
(* fails, ReadAll of what is then in the file.                             *)
(*                                                                         *)
(* A text is a sequence of characters; Broken stands for a byte that is    *)
(* not UTF-8.  A line is cut into pieces, one for each token and one for   *)
(* the rest, and a file is a sequence of pieces and newlines: that is      *)
(* where a write stops, a buffer is full, or an editor breaks a line.      *)
(***************************************************************************)
EXTENDS SequencesExt, Slices

CONSTANTS
  Batches,      \* sequences of calls, each a mode and a text
  ResultOf,     \* call -> the Result of Process
  MaskOf,       \* phoneme ID -> its mask
  SizeOf,       \* character -> its bytes
  Broken,       \* a byte that is not UTF-8
  Replacement,  \* U+FFFD
  Newline,      \* the end of a line
  BufferSize,   \* of the bufio.Writer, in pieces
  MaxLine,      \* of the bufio.Scanner, in pieces
  MaxEdits      \* bound on the edits of a file

ASSUME SizesAssumption == BufferSize \in Nat \ {0} /\ MaxLine \in Nat /\ MaxEdits \in Nat
ASSUME BatchesAssumption ==
  \A b \in Batches :
    IsSequence(b) /\ \A j \in DOMAIN b : IsSequence(ResultOf[b[j]].tokens)
ASSUME CharactersAssumption ==
  /\ SizeOf \in [DOMAIN SizeOf -> 1 .. 4]
  /\ {Broken, Replacement} \subseteq DOMAIN SizeOf
  /\ SizeOf[Broken] = 1 /\ SizeOf[Replacement] = 3

VARIABLES
  calls,    \* the calls whose Results are written
  pc,       \* "line", "newline", "flush", "file", "read" or "done"
  n,        \* the record WriteAll is at
  buf,      \* the pieces in the bufio.Writer
  file,     \* the pieces that reached the file
  written,  \* what WriteAll has returned: "none", "nil" or "error"
  edits,    \* the edits made to the file
  failing,  \* whether reading the file fails after the pieces of file
  pos,      \* where the Scanner is in the file
  line,     \* ReadAll's line counter
  out,      \* the records read
  err       \* what ReadAll has returned: "none", "nil", "malformed", "too long", "read error"

vars == <<calls, pc, n, buf, file, written, edits, failing, pos, line, out, err>>
reader == <<pos, line, out, err>>
writer == <<calls, n, buf, written>>
stored == <<file, edits, failing>>

Init ==
  /\ calls \in Batches
  /\ pc = "line"
  /\ n = 1
  /\ buf = <<>> /\ file = <<>>
  /\ written = "none"
  /\ edits = 0
  /\ failing = FALSE
  /\ pos = 1
  /\ line = 0
  /\ out = <<>>
  /\ err = "none"

-----------------------------------------------------------------------------
\* FromResult

kindString == [ KindWord        |-> "word",        KindWhitespace |-> "whitespace",
                KindPunctuation |-> "punctuation", KindNumber     |-> "number",
                KindSymbol      |-> "symbol",      KindUnknown    |-> "unknown" ]

sourceString == [ SourceDict         |-> "dict",
                  SourceRuleFallback |-> "rule_fallback",
                  SourceUnknown      |-> "unknown" ]

ModeString == [ModeBatch |-> "batch", ModeOracle |-> "oracle", ModeCausal |-> "causal"]

\* Fault: every spelling is taken for the default mode.
ParseMode_Default(spelling) == "ModeBatch"

\* The mode of a spelling of ModeString.
ParseMode(spelling) == CHOOSE m \in DOMAIN ModeString : ModeString[m] = spelling

\* Of the Result, the version of the rules and FullDictAvailable are left out,
\* of its phonemes all but the ID; the other versions are not modelled.
FromResult(r) ==
  [ input          |-> r.input,
    mode           |-> ModeString[r.mode],
    feature_stream |-> r.featureStream,
    tokens         |-> [j \in DOMAIN r.tokens |->
      LET t == r.tokens[j]
      IN  [ token     |-> t.token,
            span      |-> t.span,
            kind      |-> kindString[t.kind],
            source    |-> sourceString[t.pronunciation.source],
            variant   |-> t.pronunciation.variant,
            phonemes  |-> t.pronunciation.phonemes,
            alignment |-> t.pronunciation.alignment,
            features  |-> [p \in DOMAIN t.pronunciation.phonemes |->
                             MaskOf[t.pronunciation.phonemes[p]]] ]] ]

-----------------------------------------------------------------------------
\* MarshalLine: json.Marshal writes U+FFFD for each byte that is not UTF-8.

Valid(text) == [j \in DOMAIN text |-> IF text[j] = Broken THEN Replacement ELSE text[j]]

Marshal(rec) ==
  [rec EXCEPT !.input  = Valid(@),
              !.tokens = [j \in DOMAIN rec.tokens |->
                            [rec.tokens[j] EXCEPT !.token = Valid(@)]]]

\* The record of a call as it stands in the file.
RecordOf(call) == Marshal(FromResult(ResultOf[call]))

MarshalLine(rec) ==
  [c \in 1 .. (1 + Len(rec.tokens)) |-> [record |-> rec, piece |-> c]]

\* The length of a text in bytes: a byte is a character of it and a number.
Size(text) == Cardinality({b \in (DOMAIN text) \X (1 .. 4) : b[2] <= SizeOf[text[b[1]]]})

\* The Result of Process for a call: the text and the mode it was called with,
\* tokens whose texts make up the text, and a mask for each of its bytes.
IsResultOf(r, call) ==
  /\ r.input = call.text /\ call.text \in Seq(DOMAIN SizeOf)
  /\ r.mode = call.mode /\ call.mode \in DOMAIN ModeString
  /\ Len(r.featureStream) = Size(call.text)
  /\ \A j \in DOMAIN r.tokens : r.tokens[j].token \in Seq(DOMAIN SizeOf)
  /\ call.text = FlattenSeq([j \in DOMAIN r.tokens |-> r.tokens[j].token])

\* Process has a Result for each call, and for the call on what json.Marshal
\* makes of its text.
ASSUME ResultsAssumption ==
  \A b \in Batches : \A j \in DOMAIN b :
    /\ b[j] = [mode |-> b[j].mode, text |-> b[j].text]
    /\ \A call \in {b[j], [b[j] EXCEPT !.text = Valid(@)]} : IsResultOf(ResultOf[call], call)

\* json.Marshal escapes the newlines of a text.
ASSUME NewlineAssumption ==
  \A b \in Batches : \A j \in DOMAIN b : Newline \notin Range(MarshalLine(RecordOf(b[j])))

-----------------------------------------------------------------------------
\* WriteAll

AtFlush == pc = "line" /\ n > Len(calls)

\* What the bufio.Writer holds once it is given the next line, or newline.
Given ==
  CASE pc = "newline" -> Append(buf, Newline)
    [] AtFlush        -> buf
    [] OTHER          -> buf \o MarshalLine(RecordOf(calls[n]))

\* Fault: WriteAll returns without a flush.
Flushed_None == 0

Flushed == Len(buf)

\* How much of that it passes on: nothing if all of it fits, everything if it
\* was empty or is left with more than it can hold, a full buffer otherwise.
PassedOn ==
  CASE AtFlush                                 -> Flushed
    [] ~AtFlush /\ Len(Given) <= BufferSize    -> 0
    [] ~AtFlush /\ Len(Given) > BufferSize     ->
         IF buf = <<>> \/ Len(Given) > 2 * BufferSize THEN Len(Given) ELSE BufferSize

Write ==
  /\ file' = file \o SubSeq(Given, 1, PassedOn)
  /\ buf' = SubSeq(Given, PassedOn + 1, Len(Given))
  /\ UNCHANGED <<calls, edits, failing, reader>>

WriteLine ==
  /\ pc = "line" /\ ~AtFlush
  /\ Write
  /\ pc' = "newline"
  /\ UNCHANGED <<n, written>>

WriteNewline ==
  /\ pc = "newline"
  /\ Write
  /\ pc' = "line" /\ n' = n + 1
  /\ UNCHANGED written

Flush ==
  /\ AtFlush
  /\ Write
  /\ pc' = "file" /\ written' = "nil"
  /\ UNCHANGED n

\* The file takes less than it is given: WriteAll returns the error.
WriteError ==
  /\ pc \in {"line", "newline"}
  /\ \E k \in 0 .. (PassedOn - 1) : file' = file \o SubSeq(Given, 1, k)
  /\ pc' = "file" /\ written' = "error"
  /\ UNCHANGED <<calls, n, buf, edits, failing, reader>>

\* The process ends in the middle of WriteAll.
Crash ==
  /\ pc \in {"line", "newline"}
  /\ \E k \in 0 .. PassedOn : file' = file \o SubSeq(Given, 1, k)
  /\ pc' = "file"
  /\ UNCHANGED <<writer, edits, failing, reader>>

-----------------------------------------------------------------------------
\* The file lies in a repository; somebody breaks or joins lines.

Edit ==
  /\ pc = "file" /\ edits < MaxEdits
  /\ \/ \E k \in 0 .. Len(file) :
          file' = SubSeq(file, 1, k) \o <<Newline>> \o SubSeq(file, k + 1, Len(file))
     \/ \E k \in DOMAIN file : file[k] = Newline /\ file' = RemoveAt(file, k)
  /\ edits' = edits + 1
  /\ UNCHANGED <<writer, pc, failing, reader>>

\* A file whose reads fail at some point is what there is up to that point.
Open ==
  /\ pc = "file" /\ pc' = "read"
  /\ \/ UNCHANGED <<file, failing>>
     \/ failing' = TRUE /\ \E k \in 0 .. Len(file) : file' = SubSeq(file, 1, k)
  /\ UNCHANGED <<writer, edits, reader>>

-----------------------------------------------------------------------------
\* ReadAll, one step per line.

\* The end of the line of a text that begins at k: its newline, or the end.
EndOfLine(text, k) == CHOOSE e \in k .. (Len(text) + 1) :
  /\ e = Len(text) + 1 \/ text[e] = Newline
  /\ \A j \in k .. (e - 1) : text[j] # Newline

LineAt(text, k) == SubSeq(text, k, EndOfLine(text, k) - 1)

\* The Scanner's buffer is full before it holds a newline.
TooLong(raw) == Len(raw) >= MaxLine

WellFormed(raw) == raw # <<>> /\ raw = MarshalLine(raw[1].record)

AtLine == pc = "read" /\ pos <= Len(file)

ReadLine ==
  /\ AtLine /\ ~TooLong(LineAt(file, pos))
  /\ pos' = EndOfLine(file, pos) + 1
  /\ UNCHANGED <<writer, stored>>

\* Fault: blank lines are not counted.
AfterBlank_NotCounted == line

AfterBlank == line + 1

SkipBlank ==
  /\ ReadLine /\ LineAt(file, pos) = <<>>
  /\ line' = AfterBlank
  /\ UNCHANGED <<pc, out, err>>

ReadRecord ==
  /\ ReadLine /\ WellFormed(LineAt(file, pos))
  /\ line' = line + 1
  /\ out' = Append(out, LineAt(file, pos)[1].record)
  /\ UNCHANGED <<pc, err>>

\* Fault: a line that is no record is passed over.
OnMalformed_Skips == "read"

OnMalformed == "done"

Malformed ==
  /\ ReadLine /\ LineAt(file, pos) # <<>> /\ ~WellFormed(LineAt(file, pos))
  /\ line' = line + 1
  /\ pc' = OnMalformed
  /\ err' = "malformed"
  /\ out' = <<>>

\* sc.Scan returns false, and the records read so far are not returned.
LineTooLong ==
  /\ AtLine /\ TooLong(LineAt(file, pos))
  /\ pc' = "done" /\ err' = "too long" /\ out' = <<>>
  /\ UNCHANGED <<writer, stored, pos, line>>

AtEnd == pc = "read" /\ pos > Len(file)

ReadEnd ==
  /\ AtEnd /\ ~failing
  /\ pc' = "done" /\ err' = "nil"
  /\ UNCHANGED <<writer, stored, pos, line, out>>

\* The Scanner has handed on all it got, the last line maybe in part, before
\* sc.Err tells of the failure.
ReadError ==
  /\ AtEnd /\ failing
  /\ pc' = "done" /\ err' = "read error" /\ out' = <<>>
  /\ UNCHANGED <<writer, stored, pos, line>>

Step ==
  \/ WriteLine \/ WriteNewline \/ Flush \/ WriteError \/ Crash
  \/ Edit \/ Open
  \/ SkipBlank \/ ReadRecord \/ Malformed \/ LineTooLong \/ ReadEnd \/ ReadError

Returned == pc = "done" /\ UNCHANGED vars

Next == Step \/ Returned

Spec == Init /\ [][Next]_vars

-----------------------------------------------------------------------------
(***************************************************************************)
(* Properties                                                              *)
(***************************************************************************)

Records == [j \in DOMAIN calls |-> RecordOf(calls[j])]

\* What WriteAll has written without an error, and nobody has touched, ReadAll
\* reads back, record by record, however the buffer cut it; unless reading the
\* file fails, or some line is too long for the Scanner, which the writer does
\* not know.
RoundTrip ==
  pc = "done" /\ written = "nil" /\ edits = 0 /\ ~failing =>
    IF \E j \in DOMAIN Records : TooLong(MarshalLine(Records[j]))
      THEN err = "too long"
      ELSE err = "nil" /\ out = Records

\* Whatever a write that failed, a crash, an edit or a read that fails has left
\* of the file, ReadAll returns no record that was not written and skips none:
\* without an error it returns the first records of the batch, and all of them
\* if WriteAll returned none.
DamageIsNoticed ==
  pc = "done" /\ err = "nil" =>
    /\ IsPrefix(out, Records)
    /\ written = "nil" => out = Records

\* Where the lines of a text begin.
LineStarts(text) == {1} \cup {k + 1 : k \in {j \in DOMAIN text : text[j] = Newline}}

\* The line number of an error counts every line of the file before it, blank
\* ones too, and all of those are good (golden.go:221-222).
ErrorNamesLine ==
  err = "malformed" =>
    \E k \in LineStarts(file) :
      /\ Cardinality({j \in LineStarts(file) : j <= k}) = line
      /\ LineAt(file, k) # <<>> /\ ~WellFormed(LineAt(file, k))
      /\ \A j \in LineStarts(file) : j < k => LineAt(file, j) = <<>> \/ WellFormed(LineAt(file, j))

Replayed(rec) == RecordOf([mode |-> ParseMode(rec.mode), text |-> rec.input])

\* What is said of the j-th record read: it is the record of the Result it was
\* made of (TestGoldenRoundTrip, pkg/g2p/golden_test.go:269-290), its stream has
\* an entry for each byte of its input (docs/golden_jsonl_schema.md:33), and
\* Process, called again with its input and mode, gives it again (9-12 there).
Faithful(j) ==
  /\ out[j] = FromResult(ResultOf[calls[j]])
  /\ Len(out[j].feature_stream) = Size(out[j].input)
  /\ Replayed(out[j]) = out[j]

\* All of that holds of the record of a text that is UTF-8, and of any text the
\* tokens of the record still make up its input.  TestGolden replays less than
\* the schema says: it processes the cases of its own suites, by position, and
\* no test calls ParseMode on a record.
Utf8RecordsReplay ==
  pc = "done" /\ err = "nil" =>
    \A j \in DOMAIN out :
      /\ out[j].input = FlattenSeq([i \in DOMAIN out[j].tokens |-> out[j].tokens[i].token])
      /\ Broken \notin Range(calls[j].text) => Faithful(j)

\* The tests and the schema do not ask that the text be UTF-8, and Process takes
\* any text: all of that holds of each record.
EveryRecordReplays ==
  pc = "done" /\ err = "nil" => \A j \in DOMAIN out : Faithful(j)
=============================================================================
