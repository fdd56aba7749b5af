--------------------------- MODULE MCOrchestration ---------------------------
(***************************************************************************)
(* Instances of Orchestration.  Plans of two steps, one of them with two     *)
(* activities that run in parallel: first, they race to hand over to the   *)
(* next step; last, they race to complete the orchestration.               *)
(***************************************************************************)
EXTENDS Orchestration, TLC

CONSTANTS a1, a2, a3

TwoThenOne == a1 :> 1 @@ a2 :> 1 @@ a3 :> 2
OneThenTwo == a1 :> 1 @@ a2 :> 2 @@ a3 :> 2
TwoInOne == a1 :> 1 @@ a2 :> 1
TwoAfterAnother == a1 :> 1 @@ a2 :> 2

Symmetric == Permutations(Workers)
=============================================================================
