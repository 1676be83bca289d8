---------------------------- MODULE MCBlobStore ----------------------------
(***************************************************************************)
(* Instances of BlobStore for TLC.  Worker threads are interchangeable in  *)
(* the initial state, in every action and in every property; digests are   *)
(* not permuted because IdleThread chooses one of them.                    *)
(***************************************************************************)
EXTENDS BlobStore, TLC

ThreadSymmetry == Permutations(Threads)
=============================================================================
