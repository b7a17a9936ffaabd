--------------------------- MODULE FullDictLoader ---------------------------
(***************************************************************************)
(* One call of g2p.New: option checks, loadDictionary, dict.LoadFull and   *)
(* the fallback to the embedded dictionary, while other processes change   *)
(* the dictionary file.                                                    *)
(*                                                                         *)
(* A file's content is a sequence of blocks, each the result of one read;  *)
(* sizes and the size band count blocks.  A block holds dictionary entries *)
(* or only comments.  SHA-256 is taken to be injective: a digest is        *)
(* represented by the content that has it.                                 *)
(*                                                                         *)
(* The file is the one at the path LoadFull resolves.  Its kind and its    *)
(* content may change between any two steps of the loader: this includes   *)
(* what a loader sees that stats one file and opens another which was      *)
(* renamed over it in between, and that other may be a FIFO, whose open    *)
(* and reads wait for a process that writes to it.                         *)
(***************************************************************************)
EXTENDS Integers, Sequences

CONSTANTS
  Contents,           \* the contents the file may have
  MinSize, MaxSize,   \* fullDictMinSize, fullDictMaxSize
  Expected,           \* the content whose digest is FullExpectedSHA256
  EmbeddedData,       \* the embedded dictionary
  None

Block == {"entries", "comments"}

ASSUME ContentsAssumption == Contents \subseteq Seq(Block)
ASSUME SizeAssumption == MinSize \in Nat /\ MaxSize \in Nat /\ MinSize <= MaxSize
ASSUME ExpectedAssumption == Expected \in Seq(Block)

VARIABLES
  opts,      \* Options, the environment of the process and the build tag
  file,      \* what is at the resolved path: its kind and its content
  pc,        \* where the call stands
  data,      \* the bytes read so far
  err,       \* the error LoadFull or New returns
  engine,    \* the engine New returns
  warnings   \* the reasons of the warnings logged

loader == <<pc, data, err, engine, warnings>>
vars == <<opts, file, loader>>

Reasons == {"no path resolved", "file unreadable", "size out of band",
            "checksum mismatch", "empty after parse"}

Errors == {"unsupported language", "invalid mode"}

HasEntries(content) == \E k \in DOMAIN content : content[k] = "entries"

Engine(dict, id, checksum, available) ==
  [dict |-> dict, dictID |-> id, dictChecksum |-> checksum, fullDictAvailable |-> available]

FullEngine == Engine(Expected, "cmudict-full-v0.7b", Expected, TRUE)
MiniEngine == Engine(EmbeddedData, "cmudict-mini-v0.1", EmbeddedData, FALSE)

ASSUME NoneAssumption == None \notin {FullEngine, MiniEngine}

\* A "fifo" stands for every file whose open or read may wait, as a terminal.
Kinds == {"absent", "regular", "locked", "directory", "fifo"}

\* Where os.Open waits for a writer of the FIFO, and io.ReadAll for its data.
Waiting == {"waiting", "pipe"}

Options == [language : {"en", "other"}, mode : {"valid", "invalid"}, tagged : BOOLEAN,
            override : BOOLEAN, env : BOOLEAN, home : BOOLEAN]

Init ==
  /\ opts \in Options
  /\ file \in [kind : Kinds, content : Contents]
  /\ pc = "new"
  /\ data = <<>>
  /\ err = None
  /\ engine = None
  /\ warnings = <<>>

-----------------------------------------------------------------------------
\* The steps of the call.

GoTo(step) == pc' = step /\ UNCHANGED <<data, err, engine, warnings>>

\* Fault: a failed load ends the construction.
Decline_Aborts(r) == pc' = "done" /\ err' = r /\ UNCHANGED <<data, engine, warnings>>

\* LoadFull returns the error whose reason code is r.
Decline(r) == pc' = "fallback" /\ err' = r /\ UNCHANGED <<data, engine, warnings>>

\* New refuses the options; the language is checked first.
RejectOptions ==
  /\ pc = "new"
  /\ \/ opts.language # "en" /\ err' = "unsupported language"
     \/ opts.language = "en" /\ opts.mode # "valid" /\ err' = "invalid mode"
  /\ pc' = "done"
  /\ UNCHANGED <<data, engine, warnings>>

AcceptOptions ==
  /\ pc = "new"
  /\ opts.language = "en" /\ opts.mode = "valid"
  /\ IF opts.tagged THEN GoTo("resolve") ELSE Decline("build tag absent")

\* The override, then GOFONIX_DICT_PATH, then HOME.
ResolvePath ==
  /\ pc = "resolve"
  /\ IF opts.override \/ opts.env \/ opts.home
       THEN GoTo("stat") ELSE Decline("no path resolved")

Stat ==
  /\ pc = "stat"
  /\ \/ file.kind \in {"absent", "directory", "fifo"} /\ Decline("file unreadable")
     \/ /\ file.kind \in {"regular", "locked"}
        /\ IF Len(file.content) \in MinSize .. MaxSize
             THEN GoTo("open") ELSE Decline("size out of band")

\* Opening a directory succeeds, but its first read fails with the same result.
\* Opening a FIFO does not return before another process opens it for writing.
Open ==
  /\ pc = "open"
  /\ CASE file.kind = "regular" -> GoTo("read")
       [] file.kind = "fifo"    -> GoTo("waiting")
       [] OTHER                 -> Decline("file unreadable")

\* LimitReader lets one block more than MaxSize through.
MoreToRead == Len(data) < Len(file.content) /\ Len(data) <= MaxSize

ReadBlock ==
  /\ pc = "read"
  /\ MoreToRead
  /\ data' = Append(data, file.content[Len(data) + 1])
  /\ UNCHANGED <<pc, err, engine, warnings>>

ReadError == pc = "read" /\ Decline("file unreadable")

\* The end of the file or, of a FIFO as well, of the LimitReader.  A file that
\* shrank below MinSize since Stat is not noticed here.
ReadEnd ==
  /\ \/ pc = "read" /\ ~MoreToRead
     \/ pc = "pipe" /\ Len(data) > MaxSize
  /\ IF Len(data) <= MaxSize THEN GoTo("verify") ELSE Decline("file unreadable")

\* Faults: no comparison of the digest; a mismatch that starts the load over.
Verify_Skipped == pc = "verify" /\ GoTo("parse")

Verify_Retries ==
  /\ pc = "verify"
  /\ IF data = Expected
       THEN GoTo("parse")
       ELSE pc' = "stat" /\ data' = <<>> /\ UNCHANGED <<err, engine, warnings>>

Verify ==
  /\ pc = "verify"
  /\ IF data = Expected THEN GoTo("parse") ELSE Decline("checksum mismatch")

Return(e) == engine' = e /\ pc' = "done" /\ UNCHANGED <<data, warnings>>

Parse ==
  /\ pc = "parse"
  /\ IF HasEntries(data)
       THEN Return(Engine(data, "cmudict-full-v0.7b", Expected, TRUE)) /\ UNCHANGED err
       ELSE Decline("empty after parse")

\* Faults: the default build warns as well; the load is retried after a warning.
LogWarning_Always ==
  /\ pc = "fallback"
  /\ warnings' = Append(warnings, err)
  /\ pc' = "mini"
  /\ UNCHANGED <<data, err, engine>>

LogWarning_Retries ==
  /\ pc = "fallback"
  /\ err # "build tag absent"
  /\ warnings' = Append(warnings, err)
  /\ pc' = IF Len(warnings) = 0 THEN "resolve" ELSE "mini"
  /\ UNCHANGED <<data, err, engine>>

LogWarning ==
  /\ pc = "fallback"
  /\ err # "build tag absent"
  /\ warnings' = Append(warnings, err)
  /\ pc' = "mini"
  /\ UNCHANGED <<data, err, engine>>

StaySilent == pc = "fallback" /\ err = "build tag absent" /\ GoTo("mini")

LoadEmbedded == pc = "mini" /\ Return(MiniEngine) /\ err' = None

New ==
  \/ RejectOptions \/ AcceptOptions \/ ResolvePath \/ Stat \/ Open
  \/ ReadBlock \/ ReadError \/ ReadEnd \/ Verify \/ Parse
  \/ LogWarning \/ StaySilent \/ LoadEmbedded

NewStep == New /\ UNCHANGED <<opts, file>>

-----------------------------------------------------------------------------
\* Other processes replace, rewrite, remove or protect the file at any time, or
\* put a directory or a FIFO in its place.
ChangeFile ==
  /\ pc # "done"
  /\ file' \in [kind : Kinds, content : Contents]
  /\ UNCHANGED <<opts, loader>>

\* A process opens the FIFO that the loader waits for, writes to it what it
\* likes, and closes it, which is the end of the file.
WriterOpens == pc = "waiting" /\ GoTo("pipe")

WriterSends ==
  /\ pc = "pipe" /\ Len(data) <= MaxSize
  /\ \E b \in Block : data' = Append(data, b)
  /\ UNCHANGED <<pc, err, engine, warnings>>

WriterCloses == pc = "pipe" /\ Len(data) <= MaxSize /\ GoTo("verify")

Writer == (WriterOpens \/ WriterSends \/ WriterCloses) /\ UNCHANGED <<opts, file>>

Returned == pc = "done" /\ UNCHANGED vars

Next == NewStep \/ ChangeFile \/ Writer \/ Returned

\* New is sequential code, and each of its own steps returns: reads of a regular
\* file do not block.  The waits for a FIFO end with a step of the Writer, which,
\* like the processes that change the file, owes New nothing.
Spec == Init /\ [][Next]_vars /\ WF_vars(NewStep)

-----------------------------------------------------------------------------
(***************************************************************************)
(* Properties                                                              *)
(***************************************************************************)

\* The variables of the call have their types.
TypeOK ==
  /\ opts \in Options
  /\ file \in [kind : Kinds, content : Contents]
  /\ pc \in {"new", "resolve", "stat", "open", "waiting", "pipe", "read",
             "verify", "parse", "fallback", "mini", "done"}
  /\ data \in Seq(Block)
  /\ err \in {None, "build tag absent"} \cup Reasons \cup Errors
  /\ engine \in {None, FullEngine, MiniEngine}
  /\ warnings \in {<<>>} \cup {<<r>> : r \in Reasons}

\* An engine that reports the full dictionary was parsed from the very bytes
\* that have the pinned digest and holds an entry, however the file changed
\* during the load (loader_full.go, ADR-0010 verification policy).
FullMeansVerified ==
  engine # None /\ engine.fullDictAvailable =>
    /\ engine.dict = Expected /\ HasEntries(engine.dict)
    /\ engine.dictID = "cmudict-full-v0.7b" /\ engine.dictChecksum = Expected

\* A tagged build that ends on the embedded dictionary has logged the reason,
\* once; any other call logs nothing (loader_full_errors.go, the sentinels).
OneWarningPerFallback ==
  pc = "done" =>
    Len(warnings) = IF engine = MiniEngine /\ opts.tagged THEN 1 ELSE 0

\* The state of the file never makes New fail: with valid options it returns
\* an engine and no error.
FileNeverFailsNew ==
  pc = "done" /\ opts.language = "en" /\ opts.mode = "valid" =>
    engine # None /\ err = None

\* The verified bytes are never empty of entries: "the file is present and
\* passes the checksum (impossible by construction)" (loader_full_errors.go:58).
EmptyAfterParseImpossible == err # "empty after parse"

\* While the placeholder digest is in place no file yields the full
\* dictionary (loader_full_errors.go:14-20).
PlaceholderMeansMini == Expected = <<>> /\ engine # None => engine = MiniEngine

\* New returns although the file may change for ever while it is read, unless it
\* waits for ever for the writer of a FIFO which came to the path after Stat had
\* found a regular file there (loader_full.go:76-87, 133-146).
NewReturns == <>(pc = "done") \/ <>[](pc \in Waiting)

\* The load implements the choice between the two dictionaries.
Selection == INSTANCE DictSelection WITH
  Full <- FullEngine, Mini <- MiniEngine, CanBeFull <- HasEntries(Expected)
ImplementsSelection == Selection!Spec
=============================================================================
