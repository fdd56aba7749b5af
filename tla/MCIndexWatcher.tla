---------------------------- MODULE MCIndexWatcher ----------------------------
(***************************************************************************)
(* Instances of IndexWatcher: one replica, which handles one message at a  *)
(* time, and two, whose transactions overlap.                              *)
(***************************************************************************)
EXTENDS IndexWatcher, TLC

ReplicaSymmetry == Permutations(Replicas)
=============================================================================
