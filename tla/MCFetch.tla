------------------------------ MODULE MCFetch ------------------------------
(***************************************************************************)
(* Instances of Fetch for TLC; the workers of the pool are interchangeable.*)
(***************************************************************************)
EXTENDS Fetch, TLC

WorkerSymmetry == Permutations(Workers)
=============================================================================
