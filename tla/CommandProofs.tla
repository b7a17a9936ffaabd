--------------------------- MODULE CommandProofs ---------------------------
(***************************************************************************)
(* Proofs about the commands: the download script, for any datasets, lists *)
(* of targets and number of failures, and gofonix-cli, for any arguments,  *)
(* feed and tokens.                                                        *)
(***************************************************************************)
EXTENDS Download, Cli, SequenceLemmas, SequenceTheorems

(***************************************************************************)
(* The download script                                                     *)
(***************************************************************************)

States == {"absent", "partial", "good", "other"}

Complete == {"good", "other"}

Directory == [Datasets -> States]

\* The target whose files a run is working on.
Working == {"fetch", "fetched", "unpack", "extract", "move", "extracted"}

TypeInv ==
  /\ zipTmp \in Directory /\ zip \in Directory /\ outTmp \in Directory /\ out \in Directory
  /\ targets \in Seq(Datasets)
  /\ t \in Nat \ {0}
  /\ pc \in Working \cup {"target", "exited"}
  /\ pc \in Working => t <= Len(targets)
  /\ pc # "exited" => exit = "running"

\* What each step of a run knows about the files of its target: nothing was at
\* the path when the run began to work on it, and only complete files are moved
\* or extracted.
FilesInv ==
  /\ pc \in {"fetch", "fetched", "unpack", "move"} => out[name] = "absent"
  /\ pc = "extract" => out[name] = IF InPlace THEN "partial" ELSE "absent"
  /\ pc = "fetched" => zipTmp[name] \in Complete
  /\ pc \in {"unpack", "extract"} => zip[name] \in Complete
  /\ pc = "move" => outTmp[name] \in Complete

Inv == TypeInv /\ FilesInv /\ PresentMeansWhole

LEMMA InitInv == Init => Inv
<1> SUFFICES ASSUME Init PROVE Inv
  OBVIOUS
<1> QED
  BY DEF Init, Inv, TypeInv, FilesInv, PresentMeansWhole, Absent, Directory, States, Working

LEMMA StepInv == Inv /\ [Next]_vars => Inv'
<1> SUFFICES ASSUME Inv, [Next]_vars PROVE Inv'
  OBVIOUS
<1> USE DEF Inv, TypeInv, FilesInv, PresentMeansWhole, Directory, States, Complete, Working
<1>1. CASE Start
  BY <1>1, TargetsAssumption DEF Start, files
<1>2. CASE Skip
  BY <1>2 DEF Skip, At, NextTarget, files
<1>3. CASE FetchStart
  BY <1>3 DEF FetchStart, At, Goto, Present, name
<1>4. CASE FetchEnd
  BY <1>4 DEF FetchEnd, At, Goto, Sent, name
<1>5. CASE RenameZip
  BY <1>5 DEF RenameZip, At, Goto, name
<1>6. CASE ExtractStart
  BY <1>6 DEF ExtractStart, At, Goto, Extracted, InPlace, name
<1>7. CASE ExtractEnd
  BY <1>7 DEF ExtractEnd, At, Goto, Extracted, InPlace, name
<1>8. CASE MoveOut
  BY <1>8 DEF MoveOut, At, Goto, InPlace, name
<1>9. CASE RemoveZip
  BY <1>9 DEF RemoveZip, At, NextTarget, name
<1>10. CASE Verify
  BY <1>10 DEF Verify, At, files
<1>11. CASE Break
  BY <1>11 DEF Break, files
<1>12. CASE UNCHANGED vars
  BY <1>12 DEF vars, files, name, InPlace
<1> QED
  BY <1>1, <1>2, <1>3, <1>4, <1>5, <1>6, <1>7, <1>8, <1>9, <1>10, <1>11, <1>12 DEF Next, Step

LEMMA InvariantHolds == Spec => []Inv
<1> QED
  BY InitInv, StepInv, PTL DEF Spec

\* With unzip no run, however it ends, leaves a partial file at the path of a
\* dataset, which is what makes the test in download_testdata.sh:97 sound.
THEOREM NoPartialDataset == Spec => []PresentMeansWhole
<1>1. Inv => PresentMeansWhole
  BY DEF Inv
<1> QED
  BY <1>1, InvariantHolds, PTL

\* What the property says of one step.
SuccessStep ==
  /\ exit' = "success" => \A j \in DOMAIN targets' : out'[targets'[j]] = "good"
  /\ \A d \in Datasets : out[d] = "good" => out'[d] = "good"

\* Only Verify reports success; a run writes only where nothing, or the partial
\* file it is extracting itself, stood before.
LEMMA StepSucceeds == Inv /\ [Next]_vars => [SuccessStep]_vars
<1> SUFFICES ASSUME Inv, Next PROVE SuccessStep
  BY DEF vars
<1> USE DEF Inv, TypeInv, Working
<1>1. CASE Verify
  BY <1>1 DEF Verify, Verified, At, files, SuccessStep
<1>2. CASE ExtractStart
  BY <1>2 DEF ExtractStart, At, Goto, Extracted, FilesInv, Directory, SuccessStep, name
<1>3. CASE ExtractEnd
  BY <1>3 DEF ExtractEnd, At, Goto, Extracted, FilesInv, InPlace, Directory, SuccessStep, name
<1>4. CASE MoveOut
  BY <1>4 DEF MoveOut, At, Goto, FilesInv, Directory, SuccessStep, name
<1>5. CASE Start \/ Break
  BY <1>5 DEF Start, Break, files, SuccessStep
<1>6. CASE Skip \/ FetchStart \/ FetchEnd \/ RenameZip \/ RemoveZip
  BY <1>6 DEF Skip, FetchStart, FetchEnd, RenameZip, RemoveZip, At, Goto, NextTarget, files,
              SuccessStep
<1> QED
  BY <1>1, <1>2, <1>3, <1>4, <1>5, <1>6 DEF Next, Step

\* Success means that every target has the right checksums, with either tool and
\* whatever earlier runs have left behind, and no run damages a good dataset.
THEOREM SuccessIsLasting == Spec => SuccessLasts
<1>1. [SuccessStep]_vars => [ /\ exit' = "success" => \A j \in DOMAIN targets' : out'[targets'[j]] = "good"
                             /\ \A d \in Datasets : out[d] = "good" => out'[d] = "good" ]_vars
  BY DEF SuccessStep
<1> QED
  BY <1>1, StepSucceeds, InvariantHolds, PTL DEF Spec, SuccessLasts

-----------------------------------------------------------------------------
(***************************************************************************)
(* The command line                                                        *)
(***************************************************************************)

\* The first m lines that writeText prints for the tokens toks.
Lines(toks, m) ==
  [l \in 1 .. (2 * m) |-> IF l % 2 = 1 THEN toks[(l + 1) \div 2] ELSE EndOfLine]

\* run has the text it was given, or all that was fed.
InputComplete ==
  IF args.input # <<>> THEN input = args.input ELSE stdin = "eof" /\ input = feed

\* input is a text that run can have: the argument, or some of the feed.
InputInv ==
  /\ args \in Arguments /\ feed \in Feeds /\ sent \in 0 .. Len(feed)
  /\ stdin \in {"open", "eof", "broken"} /\ (stdin = "eof" => sent = Len(feed))
  /\ input = args.input \/ \E m \in 0 .. sent : input = SubSeq(feed, 1, m)
  /\ step = "version" => args.version
  /\ step \in {"mode", "new", "input", "process", "output"} => ~args.version
  /\ step \in {"flags", "version", "mode", "new"} => input = <<>>
  /\ step \in {"process", "output"} => InputComplete
  /\ step = "output" => input \notin Endless

\* Until run returns, standard output has the lines before the one writeText is
\* at, and nothing has been reported.
OutputInv ==
  /\ step \in {"flags", "version", "mode", "new", "input", "process", "output", "done"}
  /\ n \in Nat \ {0}
  /\ step # "done" => diag = 0 /\ exitCode = "running"
  /\ step \notin {"output", "done"} => n = 1
  /\ step # "done" /\ n = 1 => stdout = <<>>
  /\ step = "output" /\ n # 1 => Format = "text" /\ n <= Len(Tokens) + 1 /\ stdout = Lines(Tokens, n - 1)

\* What an exit code says, for an output that is complete or was cut short.
ExitInv ==
  /\ exitCode = "exitOK" /\ ~args.version => InputComplete /\ stdout = Rendering(input)
  /\ FailureIsReported

CliInv == InputInv /\ OutputInv /\ ExitInv

-----------------------------------------------------------------------------
\* What the pieces are.
Pieces(toks) == {toks[l] : l \in DOMAIN toks} \cup {EndOfLine, JSON}

LEMMA TokensAreText ==
  ASSUME NEW toks, IsSequence(toks)
  PROVE  /\ Len(toks) \in Nat /\ DOMAIN toks = 1 .. Len(toks)
         /\ toks \in Seq(Pieces(toks))
         /\ \A l \in 1 .. Len(toks) : <<toks[l], EndOfLine>> \in Seq(Pieces(toks))
<1>1. Len(toks) \in Nat /\ toks = [j \in 1 .. Len(toks) |-> toks[j]]
  BY DEF IsSequence
<1>2. \A l \in 1 .. Len(toks) : toks[l] \in Pieces(toks)
  BY <1>1 DEF Pieces
<1>3. EndOfLine \in Pieces(toks)
  BY DEF Pieces
<1> HIDE DEF Pieces
<1> QED
  BY <1>1, <1>2, <1>3

LEMMA LinesTyped ==
  ASSUME NEW toks, IsSequence(toks), NEW m \in 0 .. Len(toks)
  PROVE  Lines(toks, m) \in Seq(Pieces(toks)) /\ Len(Lines(toks, m)) = 2 * m
<1>1. Len(toks) \in Nat /\ toks = [j \in 1 .. Len(toks) |-> toks[j]]
  BY DEF IsSequence
<1> DEFINE piece(l) == IF l % 2 = 1 THEN toks[(l + 1) \div 2] ELSE EndOfLine
<1>2. ASSUME NEW l \in 1 .. (2 * m) PROVE piece(l) \in Pieces(toks)
  <2>1. (l + 1) \div 2 \in 1 .. Len(toks)
    BY <1>1
  <2> QED
    BY <1>1, <2>1 DEF Pieces
<1>3. Lines(toks, m) = [l \in 1 .. (2 * m) |-> piece(l)]
  BY DEF Lines
<1> HIDE DEF piece
<1> QED
  BY <1>1, <1>2, <1>3

\* One more line.
LEMMA NextLines ==
  ASSUME NEW toks, IsSequence(toks), NEW m \in 0 .. (Len(toks) - 1)
  PROVE  Lines(toks, m) \o <<toks[m + 1], EndOfLine>> = Lines(toks, m + 1)
<1>1. Len(toks) \in Nat /\ m + 1 \in 1 .. Len(toks) /\ m \in 0 .. Len(toks) /\ m + 1 \in 0 .. Len(toks)
  BY DEF IsSequence
<1> DEFINE line == <<toks[m + 1], EndOfLine>>
           all  == Lines(toks, m) \o line
<1>2. /\ Lines(toks, m) \in Seq(Pieces(toks)) /\ Len(Lines(toks, m)) = 2 * m
      /\ Lines(toks, m + 1) \in Seq(Pieces(toks)) /\ Len(Lines(toks, m + 1)) = 2 * (m + 1)
      /\ line \in Seq(Pieces(toks)) /\ Len(line) = 2
  BY <1>1, LinesTyped, TokensAreText
<1>3. /\ all \in Seq(Pieces(toks)) /\ Len(all) = 2 * m + 2
      /\ \A l \in 1 .. (2 * m + 2) :
           all[l] = IF l <= 2 * m THEN Lines(toks, m)[l] ELSE line[l - 2 * m]
  <2> DEFINE first == Lines(toks, m)
  <2>1. first \in Seq(Pieces(toks)) /\ line \in Seq(Pieces(toks))
        /\ Len(first) = 2 * m /\ Len(line) = 2
    BY <1>2
  <2> HIDE DEF first, line
  <2>2. /\ first \o line \in Seq(Pieces(toks)) /\ Len(first \o line) = Len(first) + Len(line)
        /\ \A l \in 1 .. (Len(first) + Len(line)) :
             (first \o line)[l] = IF l <= Len(first) THEN first[l] ELSE line[l - Len(first)]
    BY <2>1, ConcatProperties
  <2> QED
    BY <2>1, <2>2 DEF first
<1>4. ASSUME NEW l \in 1 .. (2 * m + 2) PROVE all[l] = Lines(toks, m + 1)[l]
  <2>1. CASE l <= 2 * m
    BY <1>1, <1>3, <2>1 DEF Lines
  <2>2. CASE l = 2 * m + 1
    <3>1. l % 2 = 1 /\ (l + 1) \div 2 = m + 1 /\ l - 2 * m = 1
      BY <1>1, <2>2
    <3> QED
      BY <1>1, <1>3, <2>2, <3>1 DEF Lines
  <2>3. CASE l = 2 * m + 2
    <3>1. l % 2 = 0 /\ l - 2 * m = 2
      BY <1>1, <2>3
    <3> QED
      BY <1>1, <1>3, <2>3, <3>1 DEF Lines
  <2> QED
    <3>1. l <= 2 * m \/ l = 2 * m + 1 \/ l = 2 * m + 2
      BY <1>1
    <3> QED
      BY <2>1, <2>2, <2>3, <3>1
<1> HIDE DEF all, line
<1>5. all = Lines(toks, m + 1)
  BY <1>1, <1>2, <1>3, <1>4, SeqEqual
<1> QED
  BY <1>5 DEF all, line

\* The text format is the lines of all tokens.
LEMMA TextRendering ==
  ASSUME NEW text, IsSequence(TokensOf[text]), Format # "json"
  PROVE  Rendering(text) = Lines(TokensOf[text], Len(TokensOf[text]))
<1> DEFINE toks  == TokensOf[text]
           lines == [j \in DOMAIN toks |-> <<toks[j], EndOfLine>>]
           prefixes == [j \in 1 .. Len(lines) |-> Lines(toks, j)]
<1>1. Len(toks) \in Nat /\ DOMAIN toks = 1 .. Len(toks)
  BY TokensAreText
<1>2. /\ lines = [j \in 1 .. Len(toks) |-> <<toks[j], EndOfLine>>]
      /\ Len(lines) = Len(toks)
  BY <1>1
<1>3. Rendering(text) = FlattenSeq(lines)
  BY DEF Rendering
<1> HIDE DEF lines
<1>4. CASE Len(toks) = 0
  <2>1. FlattenSeq(lines) = lines
    BY <1>2, <1>4 DEF FlattenSeq
  <2>2. lines = [j \in {} |-> <<toks[j], EndOfLine>>]
    BY <1>2, <1>4
  <2>3. Lines(toks, 0) = [j \in {} |-> <<toks[j], EndOfLine>>]
    BY DEF Lines
  <2> QED
    BY <1>3, <1>4, <2>1, <2>2, <2>3
<1>5. CASE Len(toks) # 0
  <2>1. ASSUME NEW j \in 1 .. Len(lines)
        PROVE  Lines(toks, j) = IF j = 1 THEN lines[j] ELSE prefixes[j - 1] \o lines[j]
    <3>1. j - 1 \in 0 .. (Len(toks) - 1) /\ (j - 1) + 1 = j
      BY <1>1, <1>2
    <3>2. lines[j] = <<toks[j], EndOfLine>>
      BY <1>2
    <3>3. Lines(toks, j - 1) \o lines[j] = Lines(toks, j)
      BY <3>1, <3>2, NextLines
    <3>4. CASE j = 1
      <4>1. Lines(toks, 0) = <<>>
        BY DEF Lines
      <4>2. <<>> \o lines[j] = lines[j]
        BY <3>2
      <4>3. Lines(toks, j - 1) = <<>>
        BY <3>4, <4>1
      <4>4. Lines(toks, j) = lines[j]
        BY <3>3, <4>2, <4>3, Zenon
      <4> QED
        BY <3>4, <4>4, Zenon
    <3>5. CASE j # 1
      <4>1. j - 1 \in 1 .. Len(lines)
        BY <1>1, <1>2, <3>5
      <4> QED
        BY <3>3, <3>5, <4>1
    <3> QED
      BY <3>4, <3>5
  <2>2. Unfolds(prefixes, lines)
    BY <2>1 DEF Unfolds
  <2>3. FlattenSeq(lines) = prefixes[Len(lines)]
    BY <1>1, <1>2, <1>5, <2>2, FlattenValue
  <2> QED
    BY <1>1, <1>2, <1>3, <1>5, <2>3
<1> QED
  BY <1>4, <1>5

-----------------------------------------------------------------------------
LEMMA CliInitInv == CliInit => CliInv
<1> SUFFICES ASSUME CliInit PROVE CliInv
  OBVIOUS
<1>1. /\ args \in Arguments /\ feed \in Feeds /\ sent = 0 /\ stdin = "open" /\ step = "flags"
      /\ n = 1 /\ input = <<>> /\ stdout = <<>> /\ diag = 0 /\ exitCode = "running"
  BY DEF CliInit
<1>2. Len(feed) \in Nat /\ SubSeq(feed, 1, 0) = <<>>
  BY <1>1, TextsAssumption DEF IsSequence
<1>3. InputInv
  BY <1>1, <1>2 DEF InputInv
<1>4. OutputInv /\ ExitInv
  BY <1>1 DEF OutputInv, ExitInv, FailureIsReported
<1> QED
  BY <1>3, <1>4 DEF CliInv

\* The text that run writes the tokens of has them.
LEMMA InputText ==
  ASSUME InputInv, step = "output"
  PROVE  IsSequence(Tokens)
<1>1. CASE input = args.input
  BY <1>1, TextsAssumption DEF InputInv, Tokens, HasTokens
<1>2. CASE \E m \in 0 .. sent : input = SubSeq(feed, 1, m)
  <2>1. PICK m \in 0 .. sent : input = SubSeq(feed, 1, m)
    BY <1>2
  <2>2. m \in 0 .. Len(feed)
    BY TextsAssumption DEF InputInv, IsSequence
  <2> QED
    BY <2>1, <2>2, TextsAssumption DEF InputInv, Tokens, HasTokens
<1> QED
  BY <1>1, <1>2 DEF InputInv

\* A prefix of the feed is as long as it says.
LEMMA FeedPrefix ==
  ASSUME InputInv, NEW m \in 0 .. Len(feed)
  PROVE  Len(SubSeq(feed, 1, m)) = m
<1>1. Len(feed) \in Nat /\ feed = [j \in 1 .. Len(feed) |-> feed[j]]
  BY TextsAssumption DEF InputInv, IsSequence
<1>2. feed \in Seq({feed[j] : j \in 1 .. Len(feed)})
  BY <1>1
<1> QED
  BY <1>1, <1>2

\* Whole texts: the prefix of all that was fed is the feed.
LEMMA WholeFeed ==
  ASSUME InputInv
  PROVE  SubSeq(feed, 1, Len(feed)) = feed
<1>1. Len(feed) \in Nat /\ feed = [j \in 1 .. Len(feed) |-> feed[j]]
  BY TextsAssumption DEF InputInv, IsSequence
<1>2. SubSeq(feed, 1, Len(feed)) = [j \in 1 .. Len(feed) |-> feed[j]]
  BY <1>1
<1> QED
  BY <1>1, <1>2, Zenon

-----------------------------------------------------------------------------
\* The input moves, more arrives or no more will, or a reader stalls or reads on.
LEMMA FeederKeepsInv ==
  ASSUME CliInv, Send \/ CloseInput \/ Stall
  PROVE  CliInv'
<1>1. /\ args' = args /\ feed' = feed /\ step' = step /\ n' = n /\ input' = input
      /\ stdout' = stdout /\ diag' = diag /\ exitCode' = exitCode
      /\ stdin = "open" \/ UNCHANGED <<stdin, sent>>
      /\ sent \in 0 .. Len(feed) /\ Len(feed) \in Nat
      /\ sent' \in sent .. Len(feed)
      /\ stdin' \in {"open", "eof", "broken"} /\ (stdin' = "eof" => sent' = Len(feed))
  BY TextsAssumption DEF Send, CloseInput, Stall, call, CliInv, InputInv, IsSequence
<1>2. InputComplete => InputComplete'
  BY <1>1 DEF InputComplete
<1>3. InputInv'
  <2>1. (\E m \in 0 .. sent : input = SubSeq(feed, 1, m)) =>
          \E m \in 0 .. sent' : input = SubSeq(feed, 1, m)
    <3>1. \A m \in 0 .. sent : m \in 0 .. sent'
      BY <1>1
    <3> QED
      BY <3>1
  <2> QED
    BY <1>1, <1>2, <2>1 DEF CliInv, InputInv
<1>4. Rendering(input)' = Rendering(input) /\ Tokens' = Tokens /\ Format' = Format
  BY <1>1 DEF Rendering, Format, Tokens
<1>5. OutputInv'
  BY <1>1, <1>4 DEF CliInv, OutputInv, Lines
<1>6. ExitInv'
  BY <1>1, <1>2, <1>4 DEF CliInv, ExitInv, FailureIsReported
<1> QED
  BY <1>3, <1>5, <1>6 DEF CliInv

\* run goes on to another step before it writes.
LEMMA ProceedKeepsInv ==
  ASSUME CliInv, AcceptFlags \/ AcceptMode \/ New \/ TakeInput \/ ReadInput \/ ReadEnd \/ Process
  PROVE  CliInv'
<1>1. /\ args' = args /\ feed' = feed /\ sent' = sent /\ stdin' = stdin /\ n' = n
      /\ stdout' = stdout /\ diag' = diag /\ exitCode' = exitCode
      /\ step \in {"flags", "mode", "new", "input", "process"}
      /\ step' \in {"version", "mode", "new", "input", "process", "output"}
      /\ sent \in 0 .. Len(feed) /\ Len(feed) \in Nat
      /\ n = 1 /\ stdout = <<>> /\ diag = 0 /\ exitCode = "running"
  BY TextsAssumption DEF AcceptFlags, AcceptMode, New, TakeInput, ReadInput, ReadEnd, Process, Reading,
                         Proceed, world,
                         CliInv, InputInv, OutputInv, IsSequence
<1>2. OutputInv'
  BY <1>1 DEF CliInv, OutputInv
<1>3. ExitInv'
  BY <1>1 DEF ExitInv, FailureIsReported
<1>4. InputInv'
  <2>1. CASE AcceptFlags \/ AcceptMode \/ New
    <3>1. input' = input /\ step' \notin {"process", "output"} /\ input = <<>> /\ (step' = "version" <=> args.version)
      BY <2>1 DEF AcceptFlags, AcceptMode, New, Proceed, CliInv, InputInv
    <3> QED
      BY <1>1, <3>1 DEF CliInv, InputInv
  <2>2. CASE TakeInput
    <3>1. input' = args.input /\ step' = "process" /\ args.input # <<>> /\ step = "input"
      BY <2>2 DEF TakeInput
    <3> QED
      BY <1>1, <3>1 DEF CliInv, InputInv, InputComplete
  <2>3. CASE ReadInput
    <3>1. PICK m \in (Len(input) + 1) .. sent : input' = SubSeq(feed, 1, m)
      BY <2>3 DEF ReadInput
    <3>2. step' = step /\ step = "input" /\ args.input = <<>>
      BY <2>3 DEF ReadInput, Reading
    <3>3. Len(input) \in Nat
      <4>1. Len(args.input) \in Nat
        BY <1>1, TextsAssumption DEF CliInv, InputInv, IsSequence
      <4>2. \A l \in 0 .. sent : l \in 0 .. Len(feed)
        BY <1>1
      <4> QED
        BY <4>1, <4>2, FeedPrefix DEF CliInv, InputInv
    <3>4. m \in 0 .. sent
      BY <1>1, <3>3
    <3> QED
      BY <1>1, <3>1, <3>2, <3>4 DEF CliInv, InputInv
  <2>4. CASE ReadEnd
    <3>1. /\ input' = input /\ step = "input" /\ step' = "process" /\ args.input = <<>>
          /\ Len(input) = sent /\ stdin = "eof" /\ sent = Len(feed)
      BY <2>4 DEF ReadEnd, Reading, AtEnd, Proceed, CliInv, InputInv
    <3>2. input = feed
      <4>1. CASE input = args.input
        <5>1. Len(feed) = 0
          BY <3>1, <4>1
        <5>2. feed = <<>>
          <6>1. feed = [j \in 1 .. Len(feed) |-> feed[j]]
            BY TextsAssumption DEF CliInv, InputInv, IsSequence
          <6>2. feed = [j \in {} |-> feed[j]]
            BY <5>1, <6>1
          <6> QED
            BY <6>2
        <5> QED
          BY <3>1, <4>1, <5>2
      <4>2. CASE \E m \in 0 .. sent : input = SubSeq(feed, 1, m)
        <5>1. PICK m \in 0 .. sent : input = SubSeq(feed, 1, m)
          BY <4>2
        <5>2. m = Len(feed)
          BY <1>1, <3>1, <5>1, FeedPrefix DEF CliInv
        <5> QED
          BY <5>1, <5>2, WholeFeed DEF CliInv
      <4> QED
        BY <4>1, <4>2 DEF CliInv, InputInv
    <3> QED
      BY <1>1, <3>1, <3>2 DEF CliInv, InputInv, InputComplete
  <2>5. CASE Process
    <3>1. input' = input /\ step = "process" /\ step' = "output" /\ input \notin Endless
      BY <2>5 DEF Process, Proceed
    <3> QED
      BY <1>1, <3>1 DEF CliInv, InputInv, InputComplete
  <2> QED
    BY <2>1, <2>2, <2>3, <2>4, <2>5
<1> QED
  BY <1>2, <1>3, <1>4 DEF CliInv

-----------------------------------------------------------------------------
\* What is left to show when run returns.
LEMMA ExitKeepsInv ==
  ASSUME CliInv, step # "done", UNCHANGED <<world, n, input>>, step' = "done",
         exitCode' = "exitOK" /\ ~args.version => InputComplete /\ stdout' = Rendering(input),
         exitCode' = "exitFailure" =>
           diag' = 1 /\ (stdout' # <<>> => IsStrictPrefix(stdout', Rendering(input)))
  PROVE  CliInv'
<1>1. args' = args /\ feed' = feed /\ sent' = sent /\ stdin' = stdin /\ n' = n /\ input' = input
  BY DEF world
<1>2. Rendering(input)' = Rendering(input)
  BY <1>1 DEF Rendering, Format
<1>3. InputComplete' <=> InputComplete
  BY <1>1 DEF InputComplete
<1>4. InputInv'
  BY <1>1 DEF CliInv, InputInv
<1>5. OutputInv'
  BY <1>1 DEF CliInv, OutputInv
<1>6. ExitInv'
  BY <1>1, <1>2, <1>3 DEF ExitInv, FailureIsReported
<1> QED
  BY <1>4, <1>5, <1>6 DEF CliInv

\* What run is writing, and has written so far.
LEMMA WritingText ==
  ASSUME CliInv, Writing
  PROVE  /\ step = "output" /\ InputComplete /\ ~args.version /\ diag = 0
         /\ Format = "json" => stdout = <<>> /\ Rendering(input) = Json
         /\ Format = "text" =>
              /\ n \in 1 .. Len(Tokens) /\ stdout = Lines(Tokens, n - 1)
              /\ Rendering(input) = Lines(Tokens, Len(Tokens))
<1>1. step = "output" /\ InputComplete /\ ~args.version /\ diag = 0
  BY DEF Writing, CliInv, InputInv, OutputInv
<1>2. IsSequence(Tokens)
  BY <1>1, InputText DEF CliInv
<1>3. CASE Format = "json"
  BY <1>1, <1>3 DEF Writing, CliInv, OutputInv, Rendering, Json, Tokens
<1>4. CASE Format = "text"
  <2>1. Rendering(input) = Lines(Tokens, Len(Tokens))
    BY <1>2, <1>4, TextRendering DEF Tokens
  <2>2. n \in 1 .. Len(Tokens)
    BY <1>2, <1>4 DEF Writing, CliInv, OutputInv, IsSequence
  <2>3. stdout = Lines(Tokens, n - 1)
    <3>1. CASE n = 1
      <4>1. stdout = <<>> /\ Lines(Tokens, 0) = <<>>
        BY <1>1, <3>1 DEF CliInv, OutputInv, Lines
      <4> QED
        BY <3>1, <4>1
    <3>2. CASE n # 1
      BY <1>1, <3>2 DEF CliInv, OutputInv
    <3> QED
      BY <3>1, <3>2
  <2> QED
    BY <1>1, <1>4, <2>1, <2>2, <2>3
<1> QED
  BY <1>1, <1>3, <1>4

LEMMA WriteLineKeepsInv ==
  ASSUME CliInv, WriteLine
  PROVE  CliInv'
<1>1. /\ Writing /\ Format = "text" /\ step = "output"
      /\ n \in 1 .. Len(Tokens) /\ stdout = Lines(Tokens, n - 1)
  BY WritingText DEF WriteLine
<1>2. IsSequence(Tokens) /\ Len(Tokens) \in Nat
  BY <1>1, InputText DEF CliInv, IsSequence
<1>3. /\ stdout' = stdout \o <<Tokens[n], EndOfLine>> /\ n' = n + 1
      /\ args' = args /\ feed' = feed /\ sent' = sent /\ stdin' = stdin /\ step' = step
      /\ input' = input /\ diag' = diag /\ exitCode' = exitCode
  BY <1>1 DEF WriteLine, Data, TextLine, world
<1>4. n - 1 \in 0 .. (Len(Tokens) - 1) /\ (n - 1) + 1 = n /\ n' - 1 = n
  BY <1>1, <1>2, <1>3
<1>5. stdout' = Lines(Tokens, n)
  <2>1. Lines(Tokens, n - 1) \o <<Tokens[(n - 1) + 1], EndOfLine>> = Lines(Tokens, (n - 1) + 1)
    BY <1>2, <1>4, NextLines
  <2> QED
    BY <1>1, <1>3, <1>4, <2>1
<1>6. Tokens' = Tokens /\ Format' = Format
  BY <1>3 DEF Tokens, Format
<1>7. OutputInv'
  <2>1. n' \in Nat \ {0} /\ n' # 1 /\ n' <= Len(Tokens) + 1
    BY <1>1, <1>2, <1>3
  <2>2. stdout' = Lines(Tokens, n - 1)'
    BY <1>3, <1>4, <1>5, <1>6 DEF Lines
  <2> QED
    BY <1>1, <1>3, <1>6, <2>1, <2>2 DEF CliInv, OutputInv
<1>8. InputInv' /\ ExitInv'
  <2>1. InputComplete => InputComplete'
    BY <1>3 DEF InputComplete
  <2>2. exitCode' = "running"
    BY <1>1, <1>3 DEF CliInv, OutputInv
  <2> QED
    BY <1>1, <1>3, <2>1, <2>2 DEF CliInv, InputInv, ExitInv, FailureIsReported
<1> QED
  BY <1>7, <1>8 DEF CliInv

\* A write that puts out less than it was given leaves a strict prefix of the
\* rendering.
LEMMA CutShort ==
  ASSUME CliInv, Writing, NEW l \in 0 .. (Len(Data) - 1)
  PROVE  IsStrictPrefix(stdout \o SubSeq(Data, 1, l), Rendering(input))
<1> DEFINE P == Pieces(Tokens)
<1>1. IsSequence(Tokens)
  BY InputText DEF CliInv, Writing
<1>2. CASE Format = "json"
  <2>1. stdout = <<>> /\ Rendering(input) = Json /\ Data = Json
    BY <1>2, WritingText DEF Data
  <2>2. Json \in Seq(P) /\ Len(Json) \in Nat
    <3>1. <<JSON>> \in Seq(P) /\ <<JSON, EndOfLine>> \in Seq(P) /\ Tokens \in Seq(P)
      <4>1. JSON \in P /\ EndOfLine \in P
        BY DEF Pieces
      <4> HIDE DEF P
      <4>2. Tokens \in Seq(P)
        BY <1>1, TokensAreText DEF P
      <4> QED
        BY <4>1, <4>2
    <3> HIDE DEF P
    <3> QED
      BY <3>1 DEF Json
  <2> DEFINE w == SubSeq(Json, 1, l)
  <2> HIDE DEF P
  <2>3. /\ w \in Seq(P) /\ Len(w) = l /\ l < Len(Json)
        /\ \A h \in 1 .. l : w[h] = Json[h]
    BY <2>1, <2>2
  <2> HIDE DEF w
  <2>4. IsStrictPrefix(w, Json)
    BY <2>2, <2>3, StrictPrefix
  <2>5. <<>> \o w = w
    BY <2>3, ConcatEmptySeq
  <2> QED
    BY <2>1, <2>4, <2>5 DEF w
<1>3. CASE Format = "text"
  <2> DEFINE m   == Len(Tokens)
             all == Lines(Tokens, m)
  <2>1. /\ n \in 1 .. m /\ stdout = Lines(Tokens, n - 1) /\ Rendering(input) = all
        /\ Data = <<Tokens[n], EndOfLine>> /\ m \in Nat
    BY <1>1, <1>3, WritingText DEF Data, TextLine, IsSequence
  <2>2. /\ all \in Seq(P) /\ Len(all) = 2 * m
        /\ Lines(Tokens, n - 1) \in Seq(P) /\ Len(Lines(Tokens, n - 1)) = 2 * (n - 1)
    <3>1. m \in 0 .. m /\ n - 1 \in 0 .. m
      BY <2>1
    <3> QED
      BY <1>1, <3>1, LinesTyped
  <2>3. l = 0 \/ l = 1
    BY <2>1
  <2> DEFINE w == SubSeq(Data, 1, l)
  <2>4. w \in Seq(P) /\ Len(w) = l /\ (l = 1 => w[1] = Tokens[n])
    <3>1. <<Tokens[n], EndOfLine>> \in Seq(P)
      BY <1>1, <2>1, TokensAreText
    <3> HIDE DEF P
    <3> QED
      BY <2>1, <2>3, <3>1
  <2> HIDE DEF P, w
  <2> DEFINE first == Lines(Tokens, n - 1)
  <2>5. /\ first \o w \in Seq(P) /\ Len(first \o w) = 2 * (n - 1) + l
        /\ \A h \in 1 .. (2 * (n - 1) + l) :
             (first \o w)[h] = IF h <= 2 * (n - 1) THEN first[h] ELSE w[h - 2 * (n - 1)]
    <3>1. first \in Seq(P) /\ Len(first) = 2 * (n - 1)
      BY <2>2
    <3> HIDE DEF first
    <3>2. /\ first \o w \in Seq(P) /\ Len(first \o w) = Len(first) + Len(w)
          /\ \A h \in 1 .. (Len(first) + Len(w)) :
               (first \o w)[h] = IF h <= Len(first) THEN first[h] ELSE w[h - Len(first)]
      BY <3>1, <2>4, ConcatProperties
    <3> QED
      BY <2>4, <3>1, <3>2
  <2>6. ASSUME NEW h \in 1 .. (2 * (n - 1) + l) PROVE (first \o w)[h] = all[h]
    <3>1. n \in 1 .. m /\ m \in Nat /\ h \in 1 .. (2 * m)
      BY <2>1, <2>3
    <3>2. CASE h <= 2 * (n - 1)
      BY <2>5, <3>1, <3>2 DEF Lines
    <3>3. CASE h > 2 * (n - 1)
      <4>1. l = 1 /\ h = 2 * (n - 1) + 1 /\ h - 2 * (n - 1) = 1
        BY <2>3, <3>1, <3>3
      <4>2. h % 2 = 1 /\ (h + 1) \div 2 = n
        BY <3>1, <4>1
      <4>3. all[h] = Tokens[n]
        <5>1. all = [i \in 1 .. (2 * m) |-> IF i % 2 = 1 THEN Tokens[(i + 1) \div 2] ELSE EndOfLine]
          BY DEF Lines
        <5> HIDE DEF all
        <5> QED
          BY <3>1, <4>2, <5>1
      <4>4. (first \o w)[h] = w[1]
        BY <2>5, <3>1, <3>3, <4>1
      <4> QED
        BY <2>4, <4>1, <4>3, <4>4
    <3>4. h <= 2 * (n - 1) \/ h > 2 * (n - 1)
      BY <3>1
    <3> QED
      BY <3>2, <3>3, <3>4, Zenon
  <2>7. 2 * (n - 1) + l < 2 * m
    BY <2>1, <2>3
  <2> HIDE DEF all
  <2>8. IsStrictPrefix(first \o w, all)
    <3> DEFINE s == first \o w
    <3>1. s \in Seq(P) /\ Len(s) < Len(all) /\ all \in Seq(P)
          /\ \A h \in 1 .. Len(s) : s[h] = all[h]
      BY <2>2, <2>5, <2>6, <2>7
    <3> HIDE DEF s
    <3> QED
      BY <3>1, StrictPrefix DEF s
  <2> QED
    BY <2>1, <2>8 DEF w
<1> QED
  BY <1>2, <1>3 DEF Writing

LEMMA ExitsKeepInv ==
  ASSUME CliInv,
         \/ RejectFlags \/ PrintVersion \/ RejectMode \/ NewFails \/ ReadFails
         \/ RejectOutput \/ WriteJSON \/ WriteFails \/ ReaderGone \/ WriteEnd
  PROVE  CliInv'
<1>1. step # "done" => diag = 0 /\ exitCode = "running"
  BY DEF CliInv, OutputInv
<1>2. CASE \/ RejectFlags \/ RejectMode \/ NewFails \/ ReadFails \/ RejectOutput
  <2>1. /\ step # "done" /\ step' = "done" /\ UNCHANGED <<world, n, input>>
        /\ \/ exitCode' = "exitFailure" /\ diag' = diag + 1
           \/ exitCode' = "killed"
        /\ stdout' = stdout
        /\ (step = "output" => Format \notin {"json", "text"})
    BY <1>2 DEF RejectFlags, RejectMode, NewFails, ReadFails, Reading, RejectOutput, Failure,
                Report, Exit
  <2>2. stdout = <<>>
    BY <2>1 DEF CliInv, OutputInv
  <2> QED
    BY <1>1, <2>1, <2>2, ExitKeepsInv
<1>3. CASE PrintVersion
  <2>1. /\ step # "done" /\ step' = "done" /\ UNCHANGED <<world, n, input>>
        /\ exitCode' = "exitOK"
    BY <1>3 DEF PrintVersion, Exit
  <2>2. args.version
    BY <1>3 DEF PrintVersion, CliInv, InputInv
  <2> QED
    BY <2>1, <2>2, ExitKeepsInv
<1>4. CASE ReaderGone
  <2>1. /\ step # "done" /\ step' = "done" /\ UNCHANGED <<world, n, input>>
        /\ exitCode' = "killed"
    BY <1>4 DEF ReaderGone, Writing, Exit
  <2> QED
    BY <2>1, ExitKeepsInv
<1>5. CASE WriteJSON
  <2>1. /\ step # "done" /\ step' = "done" /\ UNCHANGED <<world, n, input>>
        /\ exitCode' = "exitOK" /\ Writing /\ Format = "json" /\ stdout' = stdout \o Json
    BY <1>5 DEF WriteJSON, Writing, Exit, Data
  <2>2. InputComplete /\ stdout = <<>> /\ Rendering(input) = Json
    BY <2>1, WritingText
  <2>3. <<>> \o Json = Json
    <3>1. IsSequence(Tokens)
      BY <2>1, InputText DEF CliInv, Writing
    <3> DEFINE P == Pieces(Tokens)
    <3>2. JSON \in P /\ EndOfLine \in P
      BY DEF Pieces
    <3> HIDE DEF P
    <3>3. Tokens \in Seq(P)
      BY <3>1, TokensAreText DEF P
    <3>4. Json \in Seq(P)
      BY <3>2, <3>3 DEF Json
    <3> QED
      BY <3>4, ConcatEmptySeq
  <2> QED
    BY <2>1, <2>2, <2>3, ExitKeepsInv
<1>6. CASE WriteFails
  <2>1. /\ step # "done" /\ step' = "done" /\ UNCHANGED <<world, n, input>>
        /\ \/ exitCode' = "exitFailure" /\ diag' = diag + 1
           \/ exitCode' = "killed"
        /\ Writing
        /\ \E l \in 0 .. (Len(Data) - 1) : stdout' = stdout \o SubSeq(Data, 1, l)
    BY <1>6 DEF WriteFails, Writing, Report, Exit, Reported
  <2> QED
    BY <1>1, <2>1, CutShort, ExitKeepsInv
<1>7. CASE WriteEnd
  <2>1. /\ step # "done" /\ step' = "done" /\ UNCHANGED <<world, n, input>>
        /\ exitCode' = "exitOK" /\ stdout' = stdout
        /\ step = "output" /\ Format = "text" /\ n > Len(Tokens)
    BY <1>7 DEF WriteEnd, Exit
  <2>2. IsSequence(Tokens) /\ Len(Tokens) \in Nat
    BY <2>1, InputText DEF CliInv, IsSequence
  <2>3. n - 1 = Len(Tokens) /\ stdout = Lines(Tokens, n - 1)
    <3>1. CASE n = 1
      <4>1. stdout = <<>> /\ Len(Tokens) = 0 /\ Lines(Tokens, 0) = <<>>
        BY <2>1, <2>2, <3>1 DEF CliInv, OutputInv, Lines
      <4> QED
        BY <3>1, <4>1
    <3>2. CASE n # 1
      BY <2>1, <2>2, <3>2 DEF CliInv, OutputInv
    <3> QED
      BY <3>1, <3>2
  <2>4. Rendering(input) = Lines(Tokens, Len(Tokens))
    BY <2>1, <2>2, TextRendering DEF Tokens
  <2>5. InputComplete
    BY <2>1 DEF CliInv, InputInv
  <2> QED
    BY <2>1, <2>3, <2>4, <2>5, ExitKeepsInv
<1> QED
  BY <1>2, <1>3, <1>4, <1>5, <1>6, <1>7

LEMMA CliHolds == CliSpec => []CliInv
<1>1. CliInv /\ [CliNext]_cliVars => CliInv'
  <2> SUFFICES ASSUME CliInv, [CliNext]_cliVars PROVE CliInv'
    OBVIOUS
  <2>1. CASE UNCHANGED cliVars
    <3>1. /\ args' = args /\ feed' = feed /\ sent' = sent /\ stdin' = stdin /\ step' = step /\ n' = n
          /\ input' = input /\ stdout' = stdout /\ diag' = diag /\ exitCode' = exitCode
      BY <2>1 DEF cliVars, world, call
    <3> QED
      BY <3>1 DEF CliInv, InputInv, OutputInv, ExitInv, InputComplete, FailureIsReported, Rendering,
                  Format, Tokens, Lines
  <2> QED
    BY <2>1, FeederKeepsInv, ProceedKeepsInv, WriteLineKeepsInv, ExitsKeepInv DEF CliNext, Run
<1> QED
  BY <1>1, CliInitInv, PTL DEF CliSpec

\* Exit code 0 says that standard output has the rendering of all that was fed,
\* for any text, any tokens and however the input arrives.
THEOREM SuccessIsComplete == CliSpec => []SuccessMeansComplete
<1>1. CliInv => SuccessMeansComplete
  <2> SUFFICES ASSUME CliInv, exitCode = "exitOK", ~args.version
               PROVE  IF args.input # <<>> THEN stdout = Rendering(args.input)
                      ELSE stdin = "eof" /\ stdout = Rendering(feed)
    BY DEF SuccessMeansComplete
  <2>1. InputComplete /\ stdout = Rendering(input)
    BY DEF CliInv, ExitInv
  <2> QED
    BY <2>1 DEF InputComplete
<1> QED
  BY <1>1, CliHolds, PTL

\* Exit code 1 comes with one message and an output that is cut short.
THEOREM FailureIsTold == CliSpec => []FailureIsReported
<1>1. CliInv => FailureIsReported
  BY DEF CliInv, ExitInv
<1> QED
  BY <1>1, CliHolds, PTL
=============================================================================
