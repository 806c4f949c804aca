----------------------------- MODULE MCHandover -----------------------------
(***************************************************************************)
(* A small instance of Handover for TLC.  Instances are interchangeable.   *)
(***************************************************************************)
EXTENDS Handover, TLC

AnyOrder == Permutations(Pids)
=============================================================================
