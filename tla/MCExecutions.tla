---------------------------- MODULE MCExecutions ----------------------------
(***************************************************************************)
(* Instances of Executions for TLC.                                         *)
(***************************************************************************)
EXTENDS ExecutionsProperties

CONSTANTS own, peer  \* a run of this window, a run of another one
=============================================================================
