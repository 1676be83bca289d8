--------------------------- MODULE MCKeyLifecycle ---------------------------
(***************************************************************************)
(* Instances of KeyLifecycle for TLC; command lines are interchangeable.   *)
(***************************************************************************)
EXTENDS KeyLifecycle, TLC

ProcSymmetry == Permutations(Procs)
=============================================================================
