------------------------------ MODULE Download ------------------------------
(***************************************************************************)
(* scripts/download_testdata.sh and the verification it ends with: a run   *)
(* that may fail or be interrupted between any two of its steps, and the   *)
(* runs after it, which find what it has left in the download directory.   *)
(*                                                                         *)
(* A file is "absent", "partial", "good" or "other": complete, but not the *)
(* dataset that the checksums are for.                                     *)
(***************************************************************************)
EXTENDS Integers, Sequences

CONSTANTS
  Datasets,    \* enwik8 and enwik9
  TargetLists, \* the lists of datasets a run may be asked for
  Tools,       \* what may be installed: "unzip", "bsdtar"
  Servers,     \* what it may be like: "honest", or "changed"
  MaxFaults    \* bound on the failures and interruptions of all runs together

ASSUME TargetsAssumption == \A targets \in TargetLists : targets \in Seq(Datasets)
ASSUME FaultsAssumption == MaxFaults \in Nat

VARIABLES
  tool,     \* the program that extracts
  server,   \* whether what it sends is the dataset the checksums are for
  targets,  \* TARGETS of the current run
  pc,       \* the step it is at
  t,        \* the target it is at
  zipTmp, zip, outTmp, out,  \* dataset -> the state of the file
  exit,     \* "running", "success" or "failure"
  faults    \* the failures and interruptions so far

files == <<zipTmp, zip, outTmp, out>>
vars == <<tool, server, targets, pc, t, files, exit, faults>>

Absent == [d \in Datasets |-> "absent"]

Init ==
  /\ tool \in Tools /\ server \in Servers
  /\ targets = <<>>
  /\ pc = "exited"
  /\ t = 1
  /\ zipTmp = Absent /\ zip = Absent /\ outTmp = Absent /\ out = Absent
  /\ exit = "failure"
  /\ faults = 0

-----------------------------------------------------------------------------

name == targets[t]

At(step) == pc = step /\ UNCHANGED <<tool, server, targets>>

Goto(step) == pc' = step /\ UNCHANGED <<t, exit, faults>>

NextTarget == pc' = "target" /\ t' = t + 1 /\ UNCHANGED <<exit, faults>>

\* Somebody calls the script.
Start ==
  /\ pc = "exited"
  /\ targets' \in TargetLists
  /\ pc' = "target" /\ t' = 1 /\ exit' = "running"
  /\ UNCHANGED <<tool, server, files, faults>>

\* Fault: a file with another suffix is taken for the dataset as well.
Present_AnySuffix == out[name] # "absent" \/ outTmp[name] # "absent"

\* Whatever stands at the path is taken for the dataset.
Present == out[name] # "absent"

Skip ==
  /\ At("target") /\ t <= Len(targets) /\ Present
  /\ NextTarget /\ UNCHANGED files

\* fetch: curl and wget overwrite what is left of an earlier download.
FetchStart ==
  /\ At("target") /\ t <= Len(targets) /\ ~Present
  /\ zipTmp' = [zipTmp EXCEPT ![name] = "partial"]
  /\ Goto("fetch") /\ UNCHANGED <<zip, outTmp, out>>

Sent == IF server = "honest" THEN {"good"} ELSE {"good", "other"}

FetchEnd ==
  /\ At("fetch")
  /\ \E content \in Sent : zipTmp' = [zipTmp EXCEPT ![name] = content]
  /\ Goto("fetched") /\ UNCHANGED <<zip, outTmp, out>>

RenameZip ==
  /\ At("fetched")
  /\ zip' = [zip EXCEPT ![name] = zipTmp[name]]
  /\ zipTmp' = [zipTmp EXCEPT ![name] = "absent"]
  /\ Goto("unpack") /\ UNCHANGED <<outTmp, out>>

\* Fault: unzip writes to the final path, as bsdtar does.
InPlace_Always == TRUE

InPlace == tool = "bsdtar"

\* The file being extracted to.
Extracted(content) ==
  IF InPlace THEN out' = [out EXCEPT ![name] = content] /\ UNCHANGED outTmp
             ELSE outTmp' = [outTmp EXCEPT ![name] = content] /\ UNCHANGED out

ExtractStart ==
  /\ At("unpack")
  /\ Extracted("partial")
  /\ Goto("extract") /\ UNCHANGED <<zipTmp, zip>>

ExtractEnd ==
  /\ At("extract")
  /\ Extracted(zip[name])
  /\ Goto(IF InPlace THEN "extracted" ELSE "move") /\ UNCHANGED <<zipTmp, zip>>

MoveOut ==
  /\ At("move")
  /\ out' = [out EXCEPT ![name] = outTmp[name]]
  /\ outTmp' = [outTmp EXCEPT ![name] = "absent"]
  /\ Goto("extracted") /\ UNCHANGED <<zipTmp, zip>>

RemoveZip ==
  /\ At("extracted")
  /\ zip' = [zip EXCEPT ![name] = "absent"]
  /\ NextTarget /\ UNCHANGED <<zipTmp, outTmp, out>>

-----------------------------------------------------------------------------
\* verify_checksums.sh with the names of the targets: a missing file, and one
\* with another size or digest, is a failure.

\* Fault: only the last target counts.
Verified_Last == out[targets[Len(targets)]] = "good"

Verified == \A j \in DOMAIN targets : out[targets[j]] = "good"

Verify ==
  /\ At("target") /\ t > Len(targets)
  /\ pc' = "exited"
  /\ exit' = IF Verified THEN "success" ELSE "failure"
  /\ UNCHANGED <<t, files, faults>>

-----------------------------------------------------------------------------
\* A command fails, which set -e makes the end of the script, or the run is
\* interrupted: either way the files stay as they are.
Break ==
  /\ pc # "exited" /\ faults < MaxFaults
  /\ pc' = "exited" /\ exit' = "failure" /\ faults' = faults + 1
  /\ UNCHANGED <<tool, server, targets, t, files>>

Step ==
  \/ Skip \/ FetchStart \/ FetchEnd \/ RenameZip
  \/ ExtractStart \/ ExtractEnd \/ MoveOut \/ RemoveZip \/ Verify

Next == Start \/ Step \/ Break

\* A run that is not interrupted goes on, and after a run there is another.
Spec == Init /\ [][Next]_vars /\ WF_vars(Step) /\ WF_vars(Start)

-----------------------------------------------------------------------------
(***************************************************************************)
(* Properties                                                              *)
(***************************************************************************)

\* With unzip, what stands at the path of a dataset is complete, whenever a run
\* was interrupted: Skip may take it for the dataset.
PresentMeansWhole == tool = "unzip" => \A d \in Datasets : out[d] # "partial"

\* A run that reports success leaves every dataset it was asked for as the
\* checksums want it, with either tool, and whatever earlier runs have left; and
\* no later run, failed or not, damages it.
SuccessLasts ==
  [][ /\ exit' = "success" => \A j \in DOMAIN targets' : out'[targets'[j]] = "good"
      /\ \A d \in Datasets : out[d] = "good" => out'[d] = "good" ]_vars

\* If the server sends what it should, calling the script again repairs what
\* failed and interrupted runs have left: in the end every run succeeds.
Heals == tool = "unzip" /\ server = "honest" => <>[](pc = "exited" => exit = "success")
=============================================================================
