--------------------------- MODULE ParticipantSaga ---------------------------
(***************************************************************************)
(* One participant profile of the Tenant Manager, from DeployProfile to    *)
(* DisposeProfile, and the orchestrations the Provision Manager runs for   *)
(* it: the deployment, its compensation and one disposal for each call of  *)
(* DisposeProfile.  Manifests and responses are delivered at least once    *)
(* and in any order.                                                       *)
(*                                                                         *)
(* A transaction of the Tenant Manager reads the profile's row without a   *)
(* lock and overwrites it: the read is one action, the write and commit    *)
(* another.  An orchestration is what OrchestrationLifecycle leaves of     *)
(* Orchestration: a state and the responses published for it.              *)
(***************************************************************************)
EXTENDS Naturals

CONSTANTS
  Disposals,   \* calls of DisposeProfile, each with a manifest of its own
  Handlers,    \* replicas that handle responses
  MaxFaults    \* bound: failing calls, crashes, repeated messages

Deploy == "deploy"
Compensation == "compensation"
None == "none"

ASSUME SagaAssumption ==
  /\ MaxFaults \in Nat
  /\ {Deploy, Compensation, None} \intersect Disposals = {}
  /\ ({Deploy} \union Disposals) \intersect Handlers = {}

Calls == {Deploy} \union Disposals
Orchestrations == Calls \union {Compensation}

VARIABLES
  profile,    \* the committed row, NoProfile while there is none
  call,       \* where each call of DeployProfile and DisposeProfile is
  manifests,  \* manifests the Provision Manager is to handle
  orch,       \* the state of each orchestration
  told,       \* orchestrations whose response was published
  responses,  \* responses the Tenant Manager is to handle
  hpc,        \* where each handler is
  held,       \* the response it handles
  copy,       \* the profile each transaction read
  lost,       \* orchestrations that will not be heard of any more
  faults      \* how many of MaxFaults have happened

pmanager == <<manifests, orch, told>>
handler == <<hpc, held>>
vars == <<profile, call, pmanager, responses, handler, copy, lost, faults>>

NoProfile ==
  [vpas |-> "none", pending |-> None, failed |-> FALSE, stateData |-> FALSE]

Response(o, s) == [id |-> o, success |-> s]
NoResponse == Response(None, FALSE)

Fault ==
  /\ faults < MaxFaults
  /\ faults' = faults + 1

-----------------------------------------------------------------------------
\* DeployProfile and DisposeProfile.

CallAt(c, here, next) ==
  /\ call[c] = here
  /\ call' = [call EXCEPT ![c] = next]

\* Read what the transaction t goes on with.
FindByID(t) == copy' = [copy EXCEPT ![t] = profile]

\* An update of a row that is gone fails.
Updated(new) == IF profile = NoProfile THEN profile ELSE new

\* Mutant: the manifest is sent before the transaction commits.
CommitProfile_SendsFirst ==
  /\ \/ /\ CallAt(Deploy, "idle", "commit")
        /\ manifests' = manifests \union {Deploy}
        /\ UNCHANGED profile
     \/ /\ CallAt(Deploy, "commit", "done")
        /\ profile' = [NoProfile EXCEPT !.vpas = "pending", !.pending = Deploy]
        /\ UNCHANGED manifests
  /\ UNCHANGED <<orch, told, responses, handler, copy, lost, faults>>

\* The profile is stored with its pending orchestration.
CommitProfile ==
  /\ CallAt(Deploy, "idle", "send")
  /\ profile' = [NoProfile EXCEPT !.vpas = "pending", !.pending = Deploy]
  /\ UNCHANGED <<pmanager, responses, handler, copy, lost, faults>>

\* Only an active profile with state data is disposed.
FindActive(x) ==
  /\ profile.vpas = "active"
  /\ profile.stateData
  /\ CallAt(x, "idle", "commit")
  /\ FindByID(x)
  /\ UNCHANGED <<profile, pmanager, responses, handler, lost, faults>>

CommitDispose(x) ==
  /\ CallAt(x, "commit", IF profile = NoProfile THEN "done" ELSE "send")
  /\ profile' = Updated([copy[x] EXCEPT !.vpas = "disposing", !.pending = x])
  /\ UNCHANGED <<pmanager, responses, handler, copy, lost, faults>>

Send(c) ==
  /\ CallAt(c, "send", "done")
  /\ manifests' = manifests \union {c}
  /\ UNCHANGED <<profile, orch, told, responses, handler, copy, lost, faults>>

\* Publishing fails, though the message may have been stored.
SendFails(c) ==
  /\ Fault
  /\ CallAt(c, "send", "undo")
  /\ manifests' \in {manifests, manifests \union {c}}
  /\ UNCHANGED <<profile, orch, told, responses, handler, copy, lost>>

DeleteProfile ==
  /\ CallAt(Deploy, "undo", "done")
  /\ profile' = NoProfile
  /\ UNCHANGED <<pmanager, responses, handler, copy, lost, faults>>

\* Mutant: the profile is left as it is.
RevertDispose_Returns(x) ==
  /\ CallAt(x, "undo", "done")
  /\ UNCHANGED <<profile, pmanager, responses, handler, copy, lost, faults>>

\* revertDispose, unless another orchestration has been started since.
RevertDispose(x) ==
  /\ CallAt(x, "undo", IF profile.pending = x THEN "revert" ELSE "done")
  /\ FindByID(x)
  /\ UNCHANGED <<profile, pmanager, responses, handler, lost, faults>>

CommitRevert(x) ==
  /\ CallAt(x, "revert", "done")
  /\ profile' = Updated([copy[x] EXCEPT !.vpas = "active", !.pending = None])
  /\ UNCHANGED <<pmanager, responses, handler, copy, lost, faults>>

\* The process dies, or undoing what was committed fails.
CallEnds(c) ==
  /\ Fault
  /\ call[c] \in {"send", "undo", "revert"}
  /\ call' = [call EXCEPT ![c] = "done"]
  /\ lost' = lost \union {c}
  /\ UNCHANGED <<profile, pmanager, responses, handler, copy>>

-----------------------------------------------------------------------------
\* The Provision Manager.

\* A manifest is acked once it is handled, or delivered again.
Handled(o) ==
  \/ /\ manifests' = manifests \ {o}
     /\ UNCHANGED faults
  \/ /\ Fault
     /\ UNCHANGED manifests

\* Start: an orchestration that was not started yet is.
Start(o) ==
  /\ o \in manifests
  /\ Handled(o)
  /\ orch' = [orch EXCEPT ![o] = IF @ \in {"none", "stored"} THEN "running" ELSE @]
  /\ UNCHANGED <<profile, call, told, responses, handler, copy, lost>>

\* Start fails for good, though the orchestration may have been stored, or even
\* run since an earlier delivery: a failure is answered.
Refuse(o) ==
  /\ o \in manifests
  /\ Fault
  /\ manifests' = manifests \ {o}
  /\ orch' \in {orch, [orch EXCEPT ![o] = IF @ = "none" THEN "stored" ELSE @]}
  /\ responses' = responses \union {Response(o, FALSE)}
  /\ UNCHANGED <<profile, call, told, handler, copy, lost>>

\* Start fails on the manifest's last delivery: the manifest is terminated, and
\* nobody is told.
GiveUp(o) ==
  /\ o \in manifests
  /\ Fault
  /\ manifests' = manifests \ {o}
  /\ orch' \in {orch, [orch EXCEPT ![o] = IF @ = "none" THEN "stored" ELSE @]}
  /\ lost' = lost \union {o}
  /\ UNCHANGED <<profile, call, told, responses, handler, copy>>

\* The index watcher starts the compensation of the failed deployment.
StartCompensation ==
  /\ orch[Deploy] = "errored"
  /\ orch[Compensation] = "none"
  /\ orch' = [orch EXCEPT ![Compensation] = "running"]
  /\ UNCHANGED <<profile, call, manifests, told, responses, handler, copy, lost, faults>>

Finish(o) ==
  /\ orch[o] = "running"
  /\ \E s \in {"completed", "errored"} : orch' = [orch EXCEPT ![o] = s]
  /\ UNCHANGED <<profile, call, manifests, told, responses, handler, copy, lost, faults>>

\* It is stranded: nothing goes on with it.
Stall(o) ==
  /\ orch[o] = "running"
  /\ Fault
  /\ orch' = [orch EXCEPT ![o] = "stalled"]
  /\ lost' = lost \union {o}
  /\ UNCHANGED <<profile, call, manifests, told, responses, handler, copy>>

Published(o) ==
  /\ told' = told \union {o}
  /\ responses' = responses \union {Response(o, orch[o] = "completed")}

PublishResponse(o) ==
  /\ orch[o] \in {"completed", "errored"}
  /\ o \notin told
  /\ Published(o)
  /\ UNCHANGED <<profile, call, manifests, orch, handler, copy, lost, faults>>

\* A failure is published although the state could not be set, or a second
\* worker publishes what the first one did.
PublishAgain(o) ==
  /\ Fault
  /\ orch[o] = "stalled" \/ o \in told
  /\ Published(o)
  /\ UNCHANGED <<profile, call, manifests, orch, handler, copy, lost>>

\* The response is never published (Orchestration's CompletionIsNotified).
LoseResponse(o) ==
  /\ Fault
  /\ orch[o] \in {"completed", "errored"}
  /\ o \notin told
  /\ told' = told \union {o}
  /\ lost' = lost \union {o}
  /\ UNCHANGED <<profile, call, manifests, orch, responses, handler, copy>>

-----------------------------------------------------------------------------
\* vpaCallbackHandler.

\* The response of the pending orchestration, or of the compensation of a
\* deployment that is pending.
isPendingOrchestration(p, m) ==
  \/ p.pending # None /\ p.pending = m.id
  \/ p.pending = Deploy /\ m.id = Compensation

\* Mutant: the deployment's success is taken for granted.
TargetState_Active(m) == IF m.id = Deploy THEN "active" ELSE "disposed"

\* handleDeploy and handleDispose; the latter whether or not it succeeded.
TargetState(m) ==
  CASE m.id = Deploy /\ m.success -> "active"
    [] m.id = Deploy /\ ~m.success -> "error"
    [] OTHER -> "disposed"

\* A failed orchestration stays pending, for its compensation.
Applied(p, m) ==
  [vpas |-> TargetState(m),
   pending |-> IF m.success THEN None ELSE p.pending,
   failed |-> p.failed \/ ~m.success,
   stateData |-> p.stateData \/ m.id = Deploy]

\* Mutant: every response for the profile is applied.
Handle_Unchecked(h, m) ==
  /\ hpc[h] = "idle"
  /\ m \in responses
  /\ responses' = responses \ {m}
  /\ held' = [held EXCEPT ![h] = m]
  /\ hpc' = [hpc EXCEPT ![h] = IF profile # NoProfile THEN "commit" ELSE "ack"]
  /\ FindByID(h)
  /\ UNCHANGED <<profile, call, pmanager, lost, faults>>

\* A response is fetched and the profile read.
Handle(h, m) ==
  /\ hpc[h] = "idle"
  /\ m \in responses
  /\ responses' = responses \ {m}
  /\ held' = [held EXCEPT ![h] = m]
  /\ hpc' = [hpc EXCEPT ![h] =
               IF profile # NoProfile /\ isPendingOrchestration(profile, m)
               THEN "commit" ELSE "ack"]
  /\ FindByID(h)
  /\ UNCHANGED <<profile, call, pmanager, lost, faults>>

\* The profile cannot be read: the response is acked all the same.
ReadFails(h, m) ==
  /\ Fault
  /\ hpc[h] = "idle"
  /\ m \in responses
  /\ responses' = responses \ {m}
  /\ lost' = lost \union {m.id}
  /\ UNCHANGED <<profile, call, pmanager, handler, copy>>

Released(h) ==
  /\ hpc' = [hpc EXCEPT ![h] = "idle"]
  /\ held' = [held EXCEPT ![h] = NoResponse]

\* The profile is written; if it is gone, the update fails and the response is
\* delivered again.
CommitResponse(h) ==
  /\ hpc[h] = "commit"
  /\ profile' = Updated(Applied(copy[h], held[h]))
  /\ \/ /\ profile # NoProfile
        /\ hpc' = [hpc EXCEPT ![h] = "ack"]
        /\ UNCHANGED <<held, responses>>
     \/ /\ profile = NoProfile
        /\ Released(h)
        /\ responses' = responses \union {held[h]}
  /\ UNCHANGED <<call, pmanager, copy, lost, faults>>

Ack(h) ==
  /\ hpc[h] = "ack"
  /\ Released(h)
  /\ UNCHANGED <<profile, call, pmanager, responses, copy, lost, faults>>

\* The transaction, its commit or the ack fails, or the process dies: the
\* response is delivered again, unless this was its last delivery.
HandleFails(h) ==
  /\ Fault
  /\ hpc[h] # "idle"
  /\ profile' \in {profile} \union
       (IF hpc[h] = "commit" THEN {Updated(Applied(copy[h], held[h]))} ELSE {})
  /\ Released(h)
  /\ \/ /\ responses' = responses \union {held[h]}
        /\ UNCHANGED lost
     \/ /\ lost' = lost \union {held[h].id}
        /\ UNCHANGED responses
  /\ UNCHANGED <<call, pmanager, copy>>

-----------------------------------------------------------------------------
Init ==
  /\ profile = NoProfile
  /\ call = [c \in Calls |-> "idle"]
  /\ manifests = {}
  /\ orch = [o \in Orchestrations |-> "none"]
  /\ told = {}
  /\ responses = {}
  /\ hpc = [h \in Handlers |-> "idle"]
  /\ held = [h \in Handlers |-> NoResponse]
  /\ copy = [t \in Calls \union Handlers |-> NoProfile]
  /\ lost = {}
  /\ faults = 0

\* A call that began goes on to its end.
Proceed(c) ==
  \/ c = Deploy /\ DeleteProfile
  \/ c \in Disposals /\ (CommitDispose(c) \/ RevertDispose(c) \/ CommitRevert(c))
  \/ Send(c)

Provision(o) == Start(o) \/ Finish(o) \/ PublishResponse(o)

Dispatch(h) ==
  \/ \E m \in responses : Handle(h, m)
  \/ CommitResponse(h) \/ Ack(h)

Next ==
  \/ CommitProfile \/ StartCompensation
  \/ \E x \in Disposals : FindActive(x)
  \/ \E c \in Calls : Proceed(c) \/ SendFails(c) \/ CallEnds(c)
  \/ \E o \in Orchestrations :
       \/ Provision(o)
       \/ Refuse(o) \/ GiveUp(o) \/ Stall(o) \/ PublishAgain(o) \/ LoseResponse(o)
  \/ \E h \in Handlers :
       \/ Dispatch(h) \/ HandleFails(h)
       \/ \E m \in responses : ReadFails(h, m)

Spec == Init /\ [][Next]_vars

\* Calls run to their end, the Provision Manager handles manifests and decides
\* orchestrations (Orchestration's EventuallyDecided), responses are dispatched.
\* All of these come to an end, so that none can keep the others from being taken.
Fairness ==
  /\ WF_vars(\E c \in Calls : Proceed(c))
  /\ WF_vars(\E o \in Orchestrations : Provision(o))
  /\ WF_vars(\E h \in Handlers : Dispatch(h))

FairSpec == Spec /\ Fairness

-----------------------------------------------------------------------------
\* Properties.

VPAStates == {"none", "pending", "active", "error", "disposing", "disposed"}

Profiles ==
  [vpas : VPAStates, pending : Calls \union {None}, failed : BOOLEAN, stateData : BOOLEAN]

AllResponses == [id : Orchestrations, success : BOOLEAN]

\* Types; a handler is about to write only what answered the profile it read.
TypeOK ==
  /\ profile \in Profiles
  /\ call \in [Calls -> {"idle", "commit", "send", "undo", "revert", "done"}]
  /\ manifests \subseteq Calls
  /\ orch \in [Orchestrations -> {"none", "stored", "running", "completed", "errored", "stalled"}]
  /\ told \subseteq Orchestrations
  /\ responses \subseteq AllResponses
  /\ hpc \in [Handlers -> {"idle", "commit", "ack"}]
  /\ held \in [Handlers -> AllResponses \union {NoResponse}]
  /\ copy \in [Calls \union Handlers -> Profiles]
  /\ lost \subseteq Orchestrations
  /\ faults \in 0..MaxFaults
  /\ \A h \in Handlers :
       /\ hpc[h] = "idle" <=> held[h] = NoResponse
       /\ hpc[h] = "commit" => isPendingOrchestration(copy[h], held[h])

\* Whatever is refused, repeated, reverted or overwritten: a profile is shown as
\* active, or as being disposed, only if its deployment completed, and then it
\* has the state data that DisposeProfile asks for.
ActiveMeansDeployed ==
  profile.vpas \in {"active", "disposing"} =>
    orch[Deploy] = "completed" /\ profile.stateData

\* While one replica handles the responses: a profile that waits for an
\* orchestration which reported success has that response still to come.  None is
\* dropped for coming too early, none is dropped as not pending.
NotForgotten ==
  \A o \in Orchestrations \ lost :
    (orch[o] = "completed" /\ o \in told /\ profile # NoProfile
       /\ isPendingOrchestration(profile, Response(o, TRUE)))
    => \/ Response(o, TRUE) \in responses
       \/ \E h \in Handlers : hpc[h] = "commit" /\ held[h] = Response(o, TRUE)

\* While one replica handles the responses: a late or repeated response to the
\* deployment or its compensation does not touch a profile that is no longer
\* waiting for the deployment.
LateResponseIsIgnored ==
  [][\A h \in Handlers :
       (/\ hpc[h] = "commit" /\ profile' # profile
        /\ held[h].id \in {Deploy, Compensation}
        /\ hpc'[h] # "commit")
       => profile.pending = Deploy]_vars

\* A profile does not stay pending or disposing, unless an orchestration was
\* stranded or its response lost, or the Tenant Manager died before it sent it.
Settles ==
  profile.vpas \in {"pending", "disposing"} ~>
    (profile.vpas \notin {"pending", "disposing"} \/ lost # {})
=============================================================================
