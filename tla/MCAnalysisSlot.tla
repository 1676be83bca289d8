--------------------------- MODULE MCAnalysisSlot ---------------------------
(***************************************************************************)
(* Instances of AnalysisSlot for TLC; worker threads are interchangeable.  *)
(***************************************************************************)
EXTENDS AnalysisSlot, TLC

ThreadSymmetry == Permutations(Threads)
=============================================================================
