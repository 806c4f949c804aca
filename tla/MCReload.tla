------------------------------ MODULE MCReload ------------------------------
(***************************************************************************)
(* Small instances of Reload for TLC.                                      *)
(***************************************************************************)
EXTENDS Reload
=============================================================================
