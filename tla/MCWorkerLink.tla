---------------------------- MODULE MCWorkerLink ----------------------------
(***************************************************************************)
(* Symmetry for the instances of WorkerLink that TLC checks.                *)
(***************************************************************************)
EXTENDS WorkerLinkProperties, TLC

DocSymmetry == Permutations(Docs)
=============================================================================
