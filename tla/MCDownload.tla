----------------------------- MODULE MCDownload -----------------------------
(***************************************************************************)
(* The three lists of targets of the script.                               *)
(***************************************************************************)
EXTENDS Download

ScriptTargets == {<<"enwik8">>, <<"enwik9">>, <<"enwik8", "enwik9">>}
=============================================================================
