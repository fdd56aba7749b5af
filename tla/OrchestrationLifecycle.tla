----------------------- MODULE OrchestrationLifecycle -----------------------
(***************************************************************************)
(* What an orchestration promises to whoever reads its KV entry or its     *)
(* response: activities complete step by step, the entry leaves            *)
(* "Initialized" once, it is "Completed" and reported successful only when *)
(* every activity completed.  How the queues, the workers and their        *)
(* retries achieve this is left to Orchestration.                          *)
(***************************************************************************)
EXTENDS Naturals

CONSTANTS
  Activities,   \* the activities of the orchestration
  StepOf        \* the execution step each one belongs to

VARIABLES
  state,        \* Orchestration.State, or "None" before it is stored
  completed,    \* Orchestration.Completed
  responses     \* the verdicts published for it so far

lvars == <<state, completed, responses>>

Earlier(a) == {b \in Activities : StepOf[b] < StepOf[a]}

Init ==
  /\ state = "None"
  /\ completed = {}
  /\ responses = {}

\* The orchestration is stored.
Create ==
  /\ state = "None"
  /\ state' = "Initialized"
  /\ UNCHANGED <<completed, responses>>

\* The activities of its first step are queued.
Start ==
  /\ state = "Initialized"
  /\ state' = "Running"
  /\ UNCHANGED <<completed, responses>>

\* An activity completes, only after every activity of the earlier steps.
Complete(a) ==
  /\ state # "None"
  /\ Earlier(a) \subseteq completed
  /\ completed' = completed \union {a}
  /\ UNCHANGED <<state, responses>>

\* The last step is done.
Finish ==
  /\ state # "None"
  /\ completed = Activities
  /\ state' = "Completed"
  /\ UNCHANGED <<completed, responses>>

\* An activity gave up.
Fail ==
  /\ state # "None"
  /\ state' = "Errored"
  /\ UNCHANGED <<completed, responses>>

\* A verdict is published; success only when everything completed.
Notify(v) ==
  /\ v = "success" => completed = Activities
  /\ responses' = responses \union {v}
  /\ UNCHANGED <<state, completed>>

\* The request is refused: storing it failed, or seemed to.
Refuse ==
  /\ state' \in {state, IF state = "None" THEN "Initialized" ELSE state}
  /\ responses' = responses \union {"failure"}
  /\ UNCHANGED completed

Next ==
  \/ Create \/ Start \/ Finish \/ Fail \/ Refuse
  \/ \E a \in Activities : Complete(a)
  \/ \E v \in {"success", "failure"} : Notify(v)

Spec == Init /\ [][Next]_lvars
=============================================================================
