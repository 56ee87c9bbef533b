--------------------------- MODULE MCSuggestFlow ---------------------------
(***************************************************************************)
(* Model-checking instance of SuggestFlow: the two threads are alike.      *)
(***************************************************************************)
EXTENDS SuggestFlow, TLC

ThreadSymmetry == Permutations(Threads)
============================================================================
