--------------------------- MODULE DictSelection ---------------------------
(***************************************************************************)
(* What New promises about the dictionary of an engine (ADR-0010): either  *)
(* the full dictionary, verified, in silence, or the embedded one, after   *)
(* at most one warning.  The file, the checks and their order do not       *)
(* appear.                                                                 *)
(***************************************************************************)
CONSTANTS
  Full,       \* the engine over the full dictionary with the pinned digest
  Mini,       \* the engine over the embedded dictionary
  CanBeFull,  \* a file with the pinned digest holds an entry
  Reasons,    \* the reason codes of a warning
  None        \* no engine yet

VARIABLES engine, warnings

Init == engine = None /\ warnings = <<>>

BuildFull ==
  /\ CanBeFull
  /\ engine = None /\ warnings = <<>>
  /\ engine' = Full
  /\ UNCHANGED warnings

Warn ==
  /\ engine = None /\ warnings = <<>>
  /\ \E r \in Reasons : warnings' = <<r>>
  /\ UNCHANGED engine

BuildMini ==
  /\ engine = None
  /\ engine' = Mini
  /\ UNCHANGED warnings

Next == BuildFull \/ Warn \/ BuildMini

Spec == Init /\ [][Next]_<<engine, warnings>>
=============================================================================
