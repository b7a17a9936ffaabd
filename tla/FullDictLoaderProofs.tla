------------------------ MODULE FullDictLoaderProofs ------------------------
(***************************************************************************)
(* Proofs about the construction of an engine, for every set of contents   *)
(* the file may have, every size band and every pinned digest.             *)
(***************************************************************************)
EXTENDS FullDictLoader, TLAPS

Loading == {"new", "resolve", "stat", "open", "waiting", "pipe", "read", "verify", "parse"}

Declined == {"build tag absent"} \cup Reasons

(***************************************************************************)
(* What holds at each point of the call.  The bytes that are parsed are    *)
(* the bytes that were hashed, whatever the file holds by then.            *)
(***************************************************************************)
LoadInv ==
  /\ pc \in Loading =>
       /\ err = None /\ engine = None /\ warnings = <<>>
       /\ pc # "new" => opts.tagged = TRUE
  /\ pc = "parse" => data = Expected
  /\ pc = "fallback" =>
       /\ engine = None /\ warnings = <<>>
       /\ err \in Declined /\ (err = "build tag absent" <=> opts.tagged # TRUE)
  /\ pc = "mini" =>
       /\ engine = None
       /\ \/ warnings = <<>> /\ opts.tagged # TRUE
          \/ opts.tagged = TRUE /\ \E r \in Reasons : warnings = <<r>>
  /\ pc = "done" =>
       \/ /\ engine = None /\ warnings = <<>>
          /\ opts.language # "en" \/ opts.mode # "valid"
       \/ engine = FullEngine /\ HasEntries(Expected) /\ warnings = <<>> /\ err = None
       \/ /\ engine = MiniEngine /\ err = None
          /\ \/ warnings = <<>> /\ opts.tagged # TRUE
             \/ opts.tagged = TRUE /\ \E r \in Reasons : warnings = <<r>>

Inv == TypeOK /\ LoadInv

LEMMA InvInit == Init => Inv
BY DEF Init, Inv, TypeOK, LoadInv, Loading

LEMMA InvNext == Inv /\ [Next]_vars => Inv'
<1> SUFFICES ASSUME Inv, [Next]_vars PROVE Inv'
  OBVIOUS
<1> USE DEF Inv, GoTo, Decline, Loading, Declined, Return
<1>1. CASE NewStep
  <2>0. opts' = opts /\ file' = file
    BY <1>1 DEF NewStep
  <2>1. CASE RejectOptions
    BY <2>0, <2>1 DEF RejectOptions, TypeOK, LoadInv, Errors
  <2>2. CASE AcceptOptions
    BY <2>0, <2>2 DEF AcceptOptions, TypeOK, LoadInv
  <2>3. CASE ResolvePath
    BY <2>0, <2>3 DEF ResolvePath, TypeOK, LoadInv, Reasons
  <2>4. CASE Stat
    BY <2>0, <2>4 DEF Stat, TypeOK, LoadInv, Reasons
  <2>5. CASE Open
    BY <2>0, <2>5 DEF Open, TypeOK, LoadInv, Reasons
  <2>6. CASE ReadBlock
    <3>1. data \in Seq(Block) /\ file.content \in Seq(Block)
      BY ContentsAssumption DEF TypeOK
    <3>2. Len(data) + 1 \in 1 .. Len(file.content)
      BY <2>6, <3>1 DEF ReadBlock, MoreToRead
    <3>3. data' \in Seq(Block)
      BY <2>6, <3>1, <3>2 DEF ReadBlock
    <3> QED
      BY <2>0, <2>6, <3>3 DEF ReadBlock, TypeOK, LoadInv
  <2>7. CASE ReadError
    BY <2>0, <2>7 DEF ReadError, TypeOK, LoadInv, Reasons
  <2>8. CASE ReadEnd
    BY <2>0, <2>8 DEF ReadEnd, TypeOK, LoadInv, Reasons
  <2>9. CASE Verify
    BY <2>0, <2>9 DEF Verify, TypeOK, LoadInv, Reasons
  <2>10. CASE Parse
    BY <2>0, <2>10 DEF Parse, FullEngine, TypeOK, LoadInv, Reasons
  <2>11. CASE LogWarning
    <3>1. err \in Reasons /\ opts.tagged = TRUE /\ engine = None /\ warnings = <<>>
      BY <2>11 DEF LogWarning, LoadInv
    <3>2. /\ pc' = "mini" /\ warnings' = Append(warnings, err)
          /\ data' = data /\ err' = err /\ engine' = engine
      BY <2>11 DEF LogWarning
    <3>3. warnings' = <<err>>
      BY <3>1, <3>2
    <3>4. TypeOK'
      BY <2>0, <3>1, <3>2, <3>3 DEF TypeOK
    <3>5. LoadInv'
      BY <2>0, <3>1, <3>2, <3>3 DEF LoadInv
    <3> QED
      BY <3>4, <3>5
  <2>12. CASE StaySilent
    BY <2>0, <2>12 DEF StaySilent, TypeOK, LoadInv
  <2>13. CASE LoadEmbedded
    BY <2>0, <2>13 DEF LoadEmbedded, TypeOK, LoadInv
  <2> QED
    BY <1>1, <2>1, <2>2, <2>3, <2>4, <2>5, <2>6, <2>7, <2>8, <2>9, <2>10, <2>11,
       <2>12, <2>13 DEF NewStep, New
<1>2. CASE ChangeFile
  BY <1>2 DEF ChangeFile, loader, TypeOK, LoadInv
<1>3. CASE Writer
  <2>0. opts' = opts /\ file' = file
    BY <1>3 DEF Writer
  <2>1. CASE WriterOpens \/ WriterCloses
    BY <2>0, <2>1 DEF WriterOpens, WriterCloses, TypeOK, LoadInv
  <2>2. CASE WriterSends
    <3>1. PICK b \in Block : data' = Append(data, b)
      BY <2>2 DEF WriterSends
    <3>2. data' \in Seq(Block)
      <4>1. data \in Seq(Block)
        BY DEF TypeOK
      <4> QED
        BY <3>1, <4>1
    <3> QED
      BY <2>0, <2>2, <3>2 DEF WriterSends, TypeOK, LoadInv
  <2> QED
    BY <1>3, <2>1, <2>2 DEF Writer
<1>4. CASE Returned \/ UNCHANGED vars
  BY <1>4 DEF Returned, vars, loader, TypeOK, LoadInv
<1> QED
  BY <1>1, <1>2, <1>3, <1>4 DEF Next

\* The call's variables have their types in every reachable state.
THEOREM TypeCorrect == Spec => []TypeOK
BY InvInit, InvNext, PTL DEF Spec, Inv

\* Only the verified bytes become the full dictionary.
THEOREM FullIsVerified == Spec => []FullMeansVerified
<1>1. Inv => FullMeansVerified
  <2> SUFFICES ASSUME Inv, engine # None, engine.fullDictAvailable
               PROVE  /\ engine.dict = Expected /\ HasEntries(engine.dict)
                      /\ engine.dictID = "cmudict-full-v0.7b"
                      /\ engine.dictChecksum = Expected
    BY DEF FullMeansVerified
  <2>1. MiniEngine.fullDictAvailable = FALSE
    BY DEF MiniEngine, Engine
  <2>2. engine # MiniEngine
    BY <2>1, Zenon
  <2>3. engine = FullEngine /\ HasEntries(Expected)
    BY <2>2 DEF Inv, TypeOK, LoadInv, Loading
  <2>4. /\ FullEngine.dict = Expected /\ FullEngine.dictID = "cmudict-full-v0.7b"
        /\ FullEngine.dictChecksum = Expected
    BY DEF FullEngine, Engine
  <2> QED
    BY <2>3, <2>4, Zenon
<1> QED
  BY <1>1, InvInit, InvNext, PTL DEF Spec

LEMMA EnginesDiffer == FullEngine # MiniEngine /\ FullEngine # None /\ MiniEngine # None
<1>1. FullEngine.dictID # MiniEngine.dictID
  BY DEF FullEngine, MiniEngine, Engine
<1> QED
  BY <1>1, NoneAssumption

\* A fallback in a tagged build logs one warning; nothing else logs.
THEOREM OneWarning == Spec => []OneWarningPerFallback
<1>1. Inv => OneWarningPerFallback
  BY EnginesDiffer DEF Inv, LoadInv, OneWarningPerFallback
<1> QED
  BY <1>1, InvInit, InvNext, PTL DEF Spec

\* No state of the file makes New fail.
THEOREM FileIsHarmless == Spec => []FileNeverFailsNew
<1>1. Inv => FileNeverFailsNew
  BY EnginesDiffer DEF Inv, LoadInv, FileNeverFailsNew
<1> QED
  BY <1>1, InvInit, InvNext, PTL DEF Spec

\* The placeholder digest, that of the empty string, admits no file.
THEOREM PlaceholderIsMini == Spec => []PlaceholderMeansMini
<1>1. Inv => PlaceholderMeansMini
  <2> SUFFICES ASSUME Inv, Expected = <<>>, engine # None
               PROVE  engine = MiniEngine
    BY DEF PlaceholderMeansMini
  <2>1. ~HasEntries(Expected)
    BY DEF HasEntries
  <2> QED
    BY <2>1 DEF Inv, TypeOK, LoadInv, Loading
<1> QED
  BY <1>1, InvInit, InvNext, PTL DEF Spec

\* The load implements the choice of a dictionary that New promises.
THEOREM Refinement == Spec => ImplementsSelection
<1>1. Init => Selection!Init
  BY DEF Init, Selection!Init
<1>2. Inv /\ [Next]_vars => [Selection!Next]_<<engine, warnings>>
  <2> SUFFICES ASSUME Inv, [Next]_vars, ~UNCHANGED <<engine, warnings>>
               PROVE  Selection!Next
    OBVIOUS
  <2>1. Parse \/ LogWarning \/ LoadEmbedded
    BY DEF Next, NewStep, New, ChangeFile, Returned, vars, loader, GoTo, Decline,
       RejectOptions, AcceptOptions, ResolvePath, Stat, Open, ReadBlock, ReadError,
       ReadEnd, Verify, StaySilent, Writer, WriterOpens, WriterSends, WriterCloses
  <2>2. CASE Parse
    <3>1. /\ HasEntries(Expected) /\ engine' = FullEngine /\ warnings' = warnings
          /\ engine = None /\ warnings = <<>>
      BY <2>2 DEF Parse, Return, Decline, FullEngine, Inv, LoadInv, Loading
    <3> QED
      BY <3>1 DEF Selection!Next, Selection!BuildFull
  <2>3. CASE LogWarning
    <3>1. /\ engine = None /\ warnings = <<>> /\ err \in Reasons
          /\ warnings' = Append(warnings, err) /\ engine' = engine
      BY <2>3 DEF LogWarning, Inv, LoadInv, Declined
    <3>2. warnings' = <<err>>
      BY <3>1
    <3> QED
      BY <3>1, <3>2 DEF Selection!Next, Selection!Warn
  <2>4. CASE LoadEmbedded
    BY <2>4 DEF LoadEmbedded, Return, Inv, LoadInv, Selection!Next, Selection!BuildMini
  <2> QED
    BY <2>1, <2>2, <2>3, <2>4
<1> QED
  BY <1>1, <1>2, InvInit, InvNext, PTL DEF Spec, ImplementsSelection, Selection!Spec
=============================================================================
