------------------------------ MODULE MCKVUpdate ------------------------------
(***************************************************************************)
(* An instance of KVUpdate: three callers and a limit of two conflicts, so *)
(* that a caller can be overtaken up to the limit.                         *)
(***************************************************************************)
EXTENDS KVUpdate
=============================================================================
