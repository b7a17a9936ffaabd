-------------------------------- MODULE Cli --------------------------------
(***************************************************************************)
(* cmd/gofonix-cli: one call of run, from the arguments to the exit code,  *)
(* while other processes feed standard input and read standard output and  *)
(* standard error.  A reader may go away, or stall: neither read nor close *)
(* its end, so that a write to it waits.                                   *)
(*                                                                         *)
(* Output is a sequence of pieces; a write puts all of its pieces out or,  *)
(* if it fails, some of them.  What Process makes of a text is a constant. *)
(***************************************************************************)
EXTENDS SequencesExt, Slices

CONSTANTS
  Arguments,   \* [parse, version, language, mode, input, output]
  Folded,      \* value of a flag -> the value in lower case, without space around it
  Feeds,       \* what standard input delivers, if it is read to its end
  TokensOf,    \* text -> its tokens, as writeText prints them
  Endless,     \* the texts on which Process does not return (Tokenizer.tla)
  EndOfLine, Banner, JSON  \* pieces: a newline, a line of --version, the rest of the JSON

HasTokens(text) == text \notin Endless => IsSequence(TokensOf[text])

\* Texts are strings of characters, and a text has its tokens if Process returns.
ASSUME TextsAssumption ==
  /\ \A f \in Feeds : IsSequence(f) /\ \A m \in 0 .. Len(f) : HasTokens(SubSeq(f, 1, m))
  /\ \A a \in Arguments : IsSequence(a.input) /\ HasTokens(a.input)

VARIABLES
  args,      \* the arguments
  feed,      \* what standard input delivers, if it is read to its end
  sent,      \* how much of it has arrived
  stdin,     \* "open", "eof" or "broken"
  stalled,   \* the outputs whose reader stalls
  step,      \* the step run is at
  n,         \* the token writeText is at
  input,     \* the text read so far
  stdout,    \* the pieces written
  diag,      \* run's own messages on standard error
  exitCode   \* "running", "exitOK", "exitFailure" or "killed"

call == <<step, n, input, stdout, diag, exitCode>>
world == <<args, feed, sent, stdin, stalled>>
cliVars == <<world, call>>

Outputs == {"stdout", "stderr"}

CliInit ==
  /\ args \in Arguments
  /\ feed \in Feeds
  /\ sent = 0
  /\ stdin = "open"
  /\ stalled = {}
  /\ step = "flags"
  /\ n = 1
  /\ input = <<>>
  /\ stdout = <<>>
  /\ diag = 0
  /\ exitCode = "running"

-----------------------------------------------------------------------------
\* The processes at the other ends.

Send ==
  /\ stdin = "open" /\ sent < Len(feed)
  /\ \E m \in (sent + 1) .. Len(feed) : sent' = m
  /\ UNCHANGED <<args, feed, stdin, stalled, call>>

\* The input ends, or cannot be read any further.
CloseInput ==
  /\ stdin = "open"
  /\ stdin' \in {"broken"} \cup (IF sent = Len(feed) THEN {"eof"} ELSE {})
  /\ UNCHANGED <<args, feed, sent, stalled, call>>

\* The readers of the outputs stall and read on as they like.
Stall ==
  /\ step # "done"
  /\ stalled' \in SUBSET Outputs
  /\ UNCHANGED <<args, feed, sent, stdin, call>>

-----------------------------------------------------------------------------
\* run

Proceed(to) == step' = to /\ UNCHANGED <<world, n, input, stdout, diag, exitCode>>

Exit(code, messages) ==
  /\ step' = "done" /\ exitCode' = code /\ diag' = diag + messages
  /\ UNCHANGED <<world, n, input>>

\* A message on standard error; if that is closed, the message ends the process.
Report(messages) ==
  /\ "stderr" \notin stalled
  /\ Exit("exitFailure", messages) \/ Exit("killed", 0)

Failure == Report(1) /\ UNCHANGED stdout

\* A wrong flag, and --help.
RejectFlags == step = "flags" /\ args.parse # "ok" /\ Failure

AcceptFlags ==
  /\ step = "flags" /\ args.parse = "ok"
  /\ Proceed(IF args.version THEN "version" ELSE "mode")

\* The errors of these writes are ignored.
PrintVersion ==
  /\ step = "version" /\ "stdout" \notin stalled
  /\ \E k \in 0 .. 3 : stdout' = [j \in 1 .. k |-> Banner]
  /\ Exit("exitOK", 0)

parseMode(mode) ==
  CASE Folded[mode] \in {"batch", ""} -> "ModeBatch"
    [] Folded[mode] = "causal"        -> "ModeCausal"
    [] OTHER                          -> "invalid"

RejectMode == step = "mode" /\ parseMode(args.mode) = "invalid" /\ Failure

AcceptMode == step = "mode" /\ parseMode(args.mode) # "invalid" /\ Proceed("new")

\* New takes no language but "en", and the empty one for it.
NewFails == step = "new" /\ args.language \notin {"", "en"} /\ Failure

\* With a valid language New returns an engine, if it returns: it may wait for
\* ever for a FIFO at the path of the dictionary (FullDictLoader.tla).
New == step = "new" /\ args.language \in {"", "en"} /\ Proceed("input")

\* resolveInput.  An empty --input is no input.
TakeInput ==
  /\ step = "input" /\ args.input # <<>>
  /\ input' = args.input
  /\ step' = "process"
  /\ UNCHANGED <<world, n, stdout, diag, exitCode>>

Reading == step = "input" /\ args.input = <<>>

ReadInput ==
  /\ Reading /\ Len(input) < sent
  /\ \E m \in (Len(input) + 1) .. sent : input' = SubSeq(feed, 1, m)
  /\ UNCHANGED <<world, step, n, stdout, diag, exitCode>>

\* Faults: what has arrived is taken for everything; no input is not an end.
AtEnd_Drained == TRUE
AtEnd_Nonempty == stdin = "eof" /\ input # <<>>

AtEnd == stdin = "eof"

ReadEnd == Reading /\ Len(input) = sent /\ AtEnd /\ Proceed("process")

ReadFails == Reading /\ Len(input) = sent /\ stdin = "broken" /\ Failure

-----------------------------------------------------------------------------
\* Process, which does not fail but does not always return, and the output of
\* its Result.

Process == step = "process" /\ input \notin Endless /\ Proceed("output")

Tokens == TokensOf[input]

Format == Folded[args.output]

\* Known to be wrong only now.
RejectOutput == step = "output" /\ Format \notin {"json", "text"} /\ Failure

\* The whole Result in one write.
Json == <<JSON>> \o Tokens \o <<JSON, EndOfLine>>

TextLine(j) == <<Tokens[j], EndOfLine>>

\* What the next write is given.
Data == IF Format = "json" THEN Json ELSE TextLine(n)

Writing ==
  /\ step = "output" /\ "stdout" \notin stalled
  /\ Format = "json" \/ (Format = "text" /\ n <= Len(Tokens))

WriteJSON ==
  /\ Writing /\ Format = "json"
  /\ stdout' = stdout \o Data
  /\ Exit("exitOK", 0)

WriteLine ==
  /\ Writing /\ Format = "text"
  /\ stdout' = stdout \o Data
  /\ n' = n + 1
  /\ UNCHANGED <<world, step, input, diag, exitCode>>

\* Fault: run returns after an error of the output without a word.
Reported_Nothing == 0

Reported == 1

\* Less than Data is written, and Write returns an error ...
WriteFails ==
  /\ Writing
  /\ \E k \in 0 .. (Len(Data) - 1) : stdout' = stdout \o SubSeq(Data, 1, k)
  /\ Report(Reported)

\* ... unless the reader is gone: a write to a closed pipe ends the process.
ReaderGone ==
  /\ Writing \/ (step = "version" /\ "stdout" \notin stalled)
  /\ Exit("killed", 0) /\ UNCHANGED stdout

WriteEnd ==
  /\ step = "output" /\ Format = "text" /\ n > Len(Tokens)
  /\ Exit("exitOK", 0) /\ UNCHANGED stdout

Run ==
  \/ RejectFlags \/ AcceptFlags \/ PrintVersion \/ RejectMode \/ AcceptMode
  \/ NewFails \/ TakeInput \/ ReadInput \/ ReadEnd \/ ReadFails \/ Process
  \/ RejectOutput \/ WriteJSON \/ WriteLine \/ WriteFails \/ ReaderGone \/ WriteEnd

CliNext == Run \/ New \/ Send \/ CloseInput \/ Stall

\* The operating system runs the process.  New may wait for ever, and the other
\* processes owe this one nothing.
CliSpec == CliInit /\ [][CliNext]_cliVars /\ WF_cliVars(Run)

-----------------------------------------------------------------------------
(***************************************************************************)
(* Properties                                                              *)
(***************************************************************************)

\* All of the output for a text.
Rendering(text) ==
  IF Format = "json" THEN <<JSON>> \o TokensOf[text] \o <<JSON, EndOfLine>>
  ELSE FlattenSeq([j \in DOMAIN TokensOf[text] |-> <<TokensOf[text][j], EndOfLine>>])

\* Exit code 0 says that standard output has everything: the rendering of all
\* that was fed, and not of what had arrived when run looked.  Only --version
\* promises nothing.
SuccessMeansComplete ==
  exitCode = "exitOK" /\ ~args.version =>
    IF args.input # <<>> THEN stdout = Rendering(args.input)
    ELSE stdin = "eof" /\ stdout = Rendering(feed)

\* Exit code 1 comes with one message of run, and the output is cut short: a
\* consumer never sees a whole rendering with a failure, or a part with none.
FailureIsReported ==
  exitCode = "exitFailure" =>
    /\ diag = 1
    /\ stdout # <<>> => IsStrictPrefix(stdout, Rendering(input))

\* run is held up from outside, or by a text: New waits, Process does not return,
\* standard input has not ended, or a reader stalls that a write may wait for.
Held ==
  \/ step = "new"
  \/ step = "process" /\ input \in Endless
  \/ Reading /\ stdin = "open"
  \/ step \in {"version", "output"} /\ "stdout" \in stalled
  \/ "stderr" \in stalled

\* Unless it is held up time and again, run returns, whatever the arguments, the
\* text, the way it arrives and the failures of reads and writes.
Exits == <>(step = "done") \/ []<>Held
=============================================================================
