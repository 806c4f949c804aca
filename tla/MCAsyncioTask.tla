--------------------------- MODULE MCAsyncioTask ----------------------------
(***************************************************************************)
(* Small instances of AsyncioTask for TLC.                                 *)
(***************************************************************************)
EXTENDS AsyncioTask, TLC
=============================================================================
