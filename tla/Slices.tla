------------------------------- MODULE Slices -------------------------------
(***************************************************************************)
(* Go slices: what the assumptions on the inputs say of them.              *)
(***************************************************************************)
EXTENDS Integers, Sequences

IsSequence(s) == Len(s) \in Nat /\ s = [j \in 1 .. Len(s) |-> s[j]]
=============================================================================
