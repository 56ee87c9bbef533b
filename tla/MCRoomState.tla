---------------------------- MODULE MCRoomState ----------------------------
(***************************************************************************)
(* Model-checking instances of RoomState.                                  *)
(***************************************************************************)
EXTENDS RoomState, TLC

PodSymmetry == Permutations(Pods) \cup Permutations(Updates)
=============================================================================
