-------------------------- MODULE MCParticipantSaga --------------------------
(***************************************************************************)
(* Instances of ParticipantSaga: a deployment, and two disposals that both *)
(* may find the profile active.                                            *)
(***************************************************************************)
EXTENDS ParticipantSaga
=============================================================================
