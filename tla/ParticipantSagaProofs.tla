------------------------ MODULE ParticipantSagaProofs ------------------------
(***************************************************************************)
(* What holds of ParticipantSaga for any number of disposals, handlers and *)
(* faults: type correctness, and that no profile is shown as active or as  *)
(* being disposed whose deployment did not complete.  And for one handler: *)
(* no response that a profile waits for is dropped, and a late one is not  *)
(* applied.                                                                *)
(***************************************************************************)
EXTENDS ParticipantSaga, TLAPS

-----------------------------------------------------------------------------
\* Type correctness.

\* The empty row is a profile.
LEMMA NoProfileType == NoProfile \in Profiles
  BY DEF NoProfile, Profiles, VPAStates, None

\* What an update of the row leaves is a profile.
LEMMA UpdatedType ==
  ASSUME profile \in Profiles, NEW p \in Profiles
  PROVE  Updated(p) \in Profiles
  BY DEF Updated

\* Applying a response gives a profile.
LEMMA AppliedType ==
  ASSUME NEW p \in Profiles, NEW m
  PROVE  Applied(p, m) \in Profiles
  <1>1. TargetState(m) \in VPAStates
    BY DEF TargetState, VPAStates
  <1> QED
    BY <1>1 DEF Applied, Profiles

\* No response to an orchestration is the record that stands for none.
LEMMA NoResponseIsNone == NoResponse \notin AllResponses
  BY SagaAssumption
     DEF NoResponse, Response, AllResponses, Orchestrations, Calls, Deploy, Compensation, None

\* A response to an orchestration is one.
LEMMA ResponseType ==
  ASSUME NEW o \in Orchestrations, NEW s \in BOOLEAN
  PROVE  Response(o, s) \in AllResponses
  BY DEF Response, AllResponses

\* No handler is a call.
LEMMA HandlersAreNoCalls == Calls \intersect Handlers = {}
  BY SagaAssumption DEF Calls

\* The actions of DeployProfile and DisposeProfile keep the types.
LEMMA CallTypes ==
  ASSUME TypeOK,
         \/ CommitProfile
         \/ \E x \in Disposals : FindActive(x)
         \/ \E c \in Calls : Proceed(c) \/ SendFails(c) \/ CallEnds(c)
  PROVE  TypeOK'
<1> USE DEF TypeOK, CallAt, Fault, pmanager, handler
<1>a. Deploy \in Calls /\ Disposals \subseteq Calls /\ Calls \subseteq Orchestrations
  BY DEF Calls, Orchestrations
<1>1. CASE CommitProfile
  <2>1. profile' \in Profiles
    BY <1>1, <1>a, NoProfileType DEF CommitProfile, Profiles, VPAStates
  <2> QED
    BY <1>1, <1>a, <2>1 DEF CommitProfile
<1>2. ASSUME NEW x \in Disposals, FindActive(x)
      PROVE  TypeOK'
  <2>1. \A h \in Handlers : copy'[h] = copy[h]
    BY <1>2, <1>a, HandlersAreNoCalls DEF FindActive, FindByID
  <2> QED
    BY <1>2, <1>a, <2>1 DEF FindActive, FindByID
<1>3. CASE DeleteProfile
  BY <1>3, <1>a, NoProfileType DEF DeleteProfile
<1>4. ASSUME NEW x \in Disposals, CommitDispose(x)
      PROVE  TypeOK'
  <2>1. [copy[x] EXCEPT !.vpas = "disposing", !.pending = x] \in Profiles
    BY <1>a DEF Profiles, VPAStates
  <2>2. profile' \in Profiles
    BY <1>4, <2>1, UpdatedType DEF CommitDispose
  <2> QED
    BY <1>4, <1>a, <2>2 DEF CommitDispose
<1>5. ASSUME NEW x \in Disposals, RevertDispose(x)
      PROVE  TypeOK'
  <2>1. \A h \in Handlers : copy'[h] = copy[h]
    BY <1>5, <1>a, HandlersAreNoCalls DEF RevertDispose, FindByID
  <2> QED
    BY <1>5, <1>a, <2>1 DEF RevertDispose, FindByID
<1>6. ASSUME NEW x \in Disposals, CommitRevert(x)
      PROVE  TypeOK'
  <2>1. [copy[x] EXCEPT !.vpas = "active", !.pending = None] \in Profiles
    BY <1>a DEF Profiles, VPAStates
  <2>2. profile' \in Profiles
    BY <1>6, <2>1, UpdatedType DEF CommitRevert
  <2> QED
    BY <1>6, <1>a, <2>2 DEF CommitRevert
<1>7. ASSUME NEW c \in Calls, Send(c)
      PROVE  TypeOK'
  BY <1>7 DEF Send
<1>8. ASSUME NEW c \in Calls, SendFails(c)
      PROVE  TypeOK'
  BY <1>8, SagaAssumption DEF SendFails
<1>9. ASSUME NEW c \in Calls, CallEnds(c)
      PROVE  TypeOK'
  BY <1>9, <1>a, SagaAssumption DEF CallEnds
<1> QED
  BY <1>1, <1>2, <1>3, <1>4, <1>5, <1>6, <1>7, <1>8, <1>9 DEF Proceed

\* The actions of the Provision Manager keep the types.
LEMMA ProvisionTypes ==
  ASSUME TypeOK,
         \/ StartCompensation
         \/ \E o \in Orchestrations :
              \/ Provision(o)
              \/ Refuse(o) \/ GiveUp(o) \/ Stall(o) \/ PublishAgain(o) \/ LoseResponse(o)
  PROVE  TypeOK'
<1> USE DEF TypeOK, Fault, pmanager, handler
<1>1. CASE StartCompensation
  BY <1>1 DEF StartCompensation, Orchestrations
<1>2. ASSUME NEW o \in Orchestrations, Start(o)
      PROVE  TypeOK'
  BY <1>2, SagaAssumption DEF Start, Handled
<1>3. ASSUME NEW o \in Orchestrations, Finish(o)
      PROVE  TypeOK'
  BY <1>3 DEF Finish
<1>4. ASSUME NEW o \in Orchestrations, PublishResponse(o)
      PROVE  TypeOK'
  BY <1>4, ResponseType DEF PublishResponse, Published
<1>5. ASSUME NEW o \in Orchestrations, Refuse(o)
      PROVE  TypeOK'
  <2>1. Response(o, FALSE) \in AllResponses
    BY ResponseType
  <2>2. responses' \subseteq AllResponses
    BY <1>5, <2>1 DEF Refuse
  <2>3. orch' \in [Orchestrations -> {"none", "stored", "running", "completed", "errored", "stalled"}]
    BY <1>5 DEF Refuse
  <2>4. faults' \in 0..MaxFaults
    BY <1>5, SagaAssumption DEF Refuse
  <2> QED
    BY <1>5, <2>2, <2>3, <2>4 DEF Refuse
<1>6. ASSUME NEW o \in Orchestrations, Stall(o)
      PROVE  TypeOK'
  BY <1>6, SagaAssumption DEF Stall
<1>7. ASSUME NEW o \in Orchestrations, PublishAgain(o)
      PROVE  TypeOK'
  <2>1. responses' \subseteq AllResponses
    BY <1>7, ResponseType DEF PublishAgain, Published
  <2>2. faults' \in 0..MaxFaults
    BY <1>7, SagaAssumption DEF PublishAgain
  <2> QED
    BY <1>7, <2>1, <2>2 DEF PublishAgain, Published
<1>8. ASSUME NEW o \in Orchestrations, LoseResponse(o)
      PROVE  TypeOK'
  BY <1>8, SagaAssumption DEF LoseResponse
<1>9. ASSUME NEW o \in Orchestrations, GiveUp(o)
      PROVE  TypeOK'
  <2>1. orch' \in [Orchestrations -> {"none", "stored", "running", "completed", "errored", "stalled"}]
    BY <1>9 DEF GiveUp
  <2>2. faults' \in 0..MaxFaults
    BY <1>9, SagaAssumption DEF GiveUp
  <2> QED
    BY <1>9, <2>1, <2>2 DEF GiveUp
<1> QED
  BY <1>1, <1>2, <1>3, <1>4, <1>5, <1>6, <1>7, <1>8, <1>9 DEF Provision

\* The actions of the handlers keep the types.
LEMMA HandlerTypes ==
  ASSUME TypeOK, NEW h \in Handlers,
         \/ Dispatch(h) \/ HandleFails(h)
         \/ \E m \in responses : ReadFails(h, m)
  PROVE  TypeOK'
<1> USE DEF TypeOK, Fault, pmanager, handler
<1>1. ASSUME NEW m \in responses, Handle(h, m)
      PROVE  TypeOK'
  <2>1. copy' \in [Calls \union Handlers -> Profiles] /\ copy'[h] = profile
    BY <1>1 DEF Handle, FindByID
  <2>2. \A g \in Handlers \ {h} : copy'[g] = copy[g]
    BY <1>1 DEF Handle, FindByID
  <2> QED
    BY <1>1, <2>1, <2>2, NoResponseIsNone DEF Handle
<1>2. CASE CommitResponse(h)
  <2>1. profile' \in Profiles
    BY <1>2, AppliedType, UpdatedType DEF CommitResponse
  <2>2. held[h] \in AllResponses
    BY <1>2 DEF CommitResponse
  <2> QED
    BY <1>2, <2>1, <2>2 DEF CommitResponse, Released
<1>3. CASE Ack(h)
  BY <1>3 DEF Ack, Released
<1>4. CASE HandleFails(h)
  <2>1. Updated(Applied(copy[h], held[h])) \in Profiles
    BY AppliedType, UpdatedType
  <2>2. profile' \in Profiles
    BY <1>4, <2>1 DEF HandleFails
  <2>3. held[h] \in AllResponses
    BY <1>4 DEF HandleFails
  <2>4. lost' \subseteq Orchestrations /\ responses' \subseteq AllResponses
    BY <1>4, <2>3 DEF HandleFails, AllResponses
  <2>5. faults' \in 0..MaxFaults
    BY <1>4, SagaAssumption DEF HandleFails
  <2> QED
    BY <1>4, <2>2, <2>4, <2>5 DEF HandleFails, Released
<1>5. ASSUME NEW m \in responses, ReadFails(h, m)
      PROVE  TypeOK'
  BY <1>5, SagaAssumption DEF ReadFails, AllResponses
<1> QED
  BY <1>1, <1>2, <1>3, <1>4, <1>5 DEF Dispatch

\* The initial state is well typed.
LEMMA TypeInit == Init => TypeOK
  BY NoProfileType, SagaAssumption DEF Init, TypeOK

\* Every step keeps the types.
LEMMA TypeNext == TypeOK /\ [Next]_vars => TypeOK'
<1> SUFFICES ASSUME TypeOK, [Next]_vars
             PROVE  TypeOK'
  OBVIOUS
<1>1. CASE Next
  BY <1>1, CallTypes, ProvisionTypes, HandlerTypes DEF Next
<1>2. CASE UNCHANGED vars
  BY <1>2 DEF TypeOK, vars, pmanager, handler, isPendingOrchestration
<1> QED
  BY <1>1, <1>2

\* Type correctness of the saga: a handler is about to write only what answered the
\* profile that it read.
THEOREM TypeCorrect == Spec => []TypeOK
  BY TypeInit, TypeNext, PTL DEF Spec

-----------------------------------------------------------------------------
\* A profile is active only if it was deployed.

Deployed == orch[Deploy] = "completed"

\* A profile as it may be stored, or read and held by a transaction: one that is
\* active, or waits for a disposal, was deployed and has state data.
Sound(p) ==
  p.vpas \in {"active", "disposing"} \/ p.pending \in Disposals
    => Deployed /\ p.stateData

\* ActiveMeansDeployed speaks of the row; what is about to overwrite it has to be
\* sound as well: copies that were read, and responses on their way.
DeployInv ==
  /\ Sound(profile)
  /\ \A t \in Calls \union Handlers : Sound(copy[t])
  /\ \A x \in Disposals : call[x] \in {"commit", "revert"} => Deployed /\ copy[x].stateData
  /\ Response(Deploy, TRUE) \in responses => Deployed
  /\ \A h \in Handlers : held[h] = Response(Deploy, TRUE) => Deployed

\* A deployment that completed stays completed.
LEMMA DeployedStays ==
  ASSUME TypeOK, Deployed, [Next]_vars
  PROVE  Deployed'
<1>a. Deploy \in Orchestrations /\ Compensation \in Orchestrations /\ Deploy # Compensation
  BY DEF Orchestrations, Calls, Deploy, Compensation
<1> USE <1>a DEF Deployed, TypeOK, pmanager
<1>1. CASE CommitProfile \/ StartCompensation \/ \E x \in Disposals : FindActive(x)
  BY <1>1 DEF CommitProfile, StartCompensation, FindActive
<1>2. ASSUME NEW c \in Calls, Proceed(c) \/ SendFails(c) \/ CallEnds(c)
      PROVE  orch' = orch
  BY <1>2 DEF Proceed, DeleteProfile, CommitDispose, RevertDispose, CommitRevert, Send,
              SendFails, CallEnds
<1>3. ASSUME NEW o \in Orchestrations, Start(o) \/ Finish(o) \/ Refuse(o) \/ GiveUp(o) \/ Stall(o)
      PROVE  Deployed'
  BY <1>3 DEF Start, Finish, Refuse, GiveUp, Stall
<1>4. ASSUME NEW o \in Orchestrations, PublishResponse(o) \/ PublishAgain(o) \/ LoseResponse(o)
      PROVE  orch' = orch
  BY <1>4 DEF PublishResponse, PublishAgain, LoseResponse
<1>5. ASSUME NEW h \in Handlers,
             \/ Dispatch(h) \/ HandleFails(h)
             \/ \E m \in responses : ReadFails(h, m)
      PROVE  orch' = orch
  BY <1>5 DEF Dispatch, Handle, CommitResponse, Ack, HandleFails, ReadFails
<1>6. CASE UNCHANGED vars
  BY <1>6 DEF vars
<1> QED
  BY <1>1, <1>2, <1>3, <1>4, <1>5, <1>6 DEF Next, Provision

\* Applying a response to the profile that waits for it leaves a sound one, if the
\* deployment's success is reported only when it completed.
LEMMA AppliedSound ==
  ASSUME NEW p \in Profiles, NEW m \in AllResponses,
         Sound(p), isPendingOrchestration(p, m),
         m = Response(Deploy, TRUE) => Deployed
  PROVE  Sound(Applied(p, m))
<1>a. Deploy \notin Disposals /\ None \notin Disposals
  BY SagaAssumption
<1>b. m = [id |-> m.id, success |-> m.success] /\ m.success \in BOOLEAN
  BY DEF AllResponses
<1>1. CASE m.id = Deploy /\ m.success
  <2>1. m = Response(Deploy, TRUE)
    BY <1>1, <1>b DEF Response
  <2> QED
    BY <2>1, <1>1 DEF Sound, Applied
<1>2. CASE m.id = Deploy /\ ~m.success
  <2>1. p.pending = Deploy
    BY <1>2 DEF isPendingOrchestration, Deploy, Compensation
  <2> QED
    BY <2>1, <1>2, <1>a DEF Sound, Applied, TargetState
<1>3. CASE m.id # Deploy
  <2>1. TargetState(m) = "disposed"
    BY <1>3 DEF TargetState
  <2> QED
    BY <2>1, <1>a DEF Sound, Applied, Profiles
<1> QED
  BY <1>1, <1>2, <1>3, <1>b

\* The calls keep the profile and its copies sound: what a disposal is about to
\* write, or to revert to, was read from a profile that was deployed.
LEMMA CallsKeepSound ==
  ASSUME TypeOK, DeployInv, orch' = orch,
         \/ CommitProfile
         \/ \E x \in Disposals : FindActive(x)
         \/ \E c \in Calls : Proceed(c) \/ SendFails(c) \/ CallEnds(c)
  PROVE  DeployInv'
<1>a. /\ Deploy \in Calls /\ Disposals \subseteq Calls
      /\ Deploy \notin Disposals /\ None \notin Disposals
  BY SagaAssumption DEF Calls
<1>b. Sound(NoProfile)' /\ Sound([NoProfile EXCEPT !.vpas = "pending", !.pending = Deploy])'
  BY <1>a DEF Sound, NoProfile
<1> USE <1>a DEF TypeOK, CallAt, pmanager, handler
<1>1. CASE CommitProfile
  BY <1>1, <1>b DEF CommitProfile, DeployInv, Sound, Deployed
<1>2. ASSUME NEW x \in Disposals, FindActive(x)
      PROVE  DeployInv'
  BY <1>2 DEF FindActive, FindByID, DeployInv, Sound, Deployed
<1>3. CASE DeleteProfile
  BY <1>3, <1>b DEF DeleteProfile, DeployInv, Sound, Deployed
<1>4. ASSUME NEW x \in Disposals, CommitDispose(x)
      PROVE  DeployInv'
  <2>1. Deployed /\ copy[x].stateData
    BY <1>4 DEF CommitDispose, DeployInv
  <2>2. Sound(profile)'
    BY <1>4, <2>1 DEF CommitDispose, DeployInv, Updated, Sound, Deployed, Profiles
  <2> QED
    BY <1>4, <2>2 DEF CommitDispose, DeployInv, Sound, Deployed
<1>5. ASSUME NEW x \in Disposals, RevertDispose(x)
      PROVE  DeployInv'
  <2>1. profile.pending = x => Deployed /\ profile.stateData
    BY DEF DeployInv, Sound
  <2> QED
    BY <1>5, <2>1 DEF RevertDispose, FindByID, DeployInv, Sound, Deployed
<1>6. ASSUME NEW x \in Disposals, CommitRevert(x)
      PROVE  DeployInv'
  <2>1. Deployed /\ copy[x].stateData
    BY <1>6 DEF CommitRevert, DeployInv
  <2>2. Sound(profile)'
    BY <1>6, <2>1 DEF CommitRevert, DeployInv, Updated, Sound, Deployed, Profiles
  <2> QED
    BY <1>6, <2>2 DEF CommitRevert, DeployInv, Sound, Deployed
<1>7. ASSUME NEW c \in Calls, Send(c) \/ SendFails(c) \/ CallEnds(c)
      PROVE  DeployInv'
  BY <1>7 DEF Send, SendFails, CallEnds, Fault, DeployInv, Sound, Deployed
<1> QED
  BY <1>1, <1>2, <1>3, <1>4, <1>5, <1>6, <1>7 DEF Proceed

\* The Provision Manager reports the deployment's success only when it completed.
LEMMA ProvisionKeepsSound ==
  ASSUME TypeOK, DeployInv, Deployed => Deployed',
         \/ StartCompensation
         \/ \E o \in Orchestrations :
              \/ Provision(o)
              \/ Refuse(o) \/ GiveUp(o) \/ Stall(o) \/ PublishAgain(o) \/ LoseResponse(o)
  PROVE  DeployInv'
<1>1. UNCHANGED <<profile, call, copy, held>>
  BY DEF StartCompensation, Provision, Start, Finish, PublishResponse, Refuse, GiveUp, Stall,
         PublishAgain, LoseResponse, handler
<1>2. Response(Deploy, TRUE) \in responses' => Response(Deploy, TRUE) \in responses \/ Deployed
  <2>1. ASSUME NEW o \in Orchestrations, Published(o),
               Response(Deploy, TRUE) \in responses'
        PROVE  Response(Deploy, TRUE) \in responses \/ Deployed
    BY <2>1 DEF Published, Response, Deployed
  <2>2. ASSUME NEW o \in Orchestrations, Refuse(o),
               Response(Deploy, TRUE) \in responses'
        PROVE  Response(Deploy, TRUE) \in responses
    BY <2>2 DEF Refuse, Response
  <2>3. ASSUME NEW o \in Orchestrations, Start(o) \/ Finish(o) \/ GiveUp(o) \/ Stall(o) \/ LoseResponse(o)
        PROVE  responses' = responses
    BY <2>3 DEF Start, Finish, GiveUp, Stall, LoseResponse
  <2> QED
    BY <2>1, <2>2, <2>3 DEF StartCompensation, Provision, PublishResponse, PublishAgain
<1> QED
  BY <1>1, <1>2 DEF DeployInv, Sound

\* The handlers write sound profiles.
LEMMA HandlersKeepSound ==
  ASSUME TypeOK, DeployInv, orch' = orch, NEW h \in Handlers,
         \/ Dispatch(h) \/ HandleFails(h)
         \/ \E m \in responses : ReadFails(h, m)
  PROVE  DeployInv'
<1>a. h \notin Calls /\ Disposals \subseteq Calls
  BY HandlersAreNoCalls DEF Calls
<1>b. NoResponse # Response(Deploy, TRUE)
  BY DEF NoResponse, Response
<1>c. hpc[h] = "commit" => Sound(Updated(Applied(copy[h], held[h])))
  <2> SUFFICES ASSUME hpc[h] = "commit"
               PROVE  Sound(Updated(Applied(copy[h], held[h])))
    OBVIOUS
  <2>1. held[h] \in AllResponses /\ copy[h] \in Profiles
    BY DEF TypeOK
  <2>2. Sound(Applied(copy[h], held[h]))
    BY <2>1, AppliedSound DEF DeployInv, TypeOK
  <2> QED
    BY <2>2 DEF Updated, DeployInv
<1> USE <1>a DEF pmanager, handler
<1>1. ASSUME NEW m \in responses, Handle(h, m)
      PROVE  DeployInv'
  BY <1>1 DEF Handle, FindByID, DeployInv, Sound, Deployed, TypeOK
<1>2. CASE CommitResponse(h)
  BY <1>2, <1>b, <1>c DEF CommitResponse, Released, DeployInv, Sound, Deployed, TypeOK
<1>3. CASE Ack(h)
  BY <1>3, <1>b DEF Ack, Released, DeployInv, Sound, Deployed, TypeOK
<1>4. CASE HandleFails(h)
  <2>1. Sound(profile)'
    BY <1>4, <1>c DEF HandleFails, DeployInv, Sound, Deployed
  <2> QED
    BY <1>4, <2>1, <1>b DEF HandleFails, Released, DeployInv, Sound, Deployed, TypeOK
<1>5. ASSUME NEW m \in responses, ReadFails(h, m)
      PROVE  DeployInv'
  BY <1>5 DEF ReadFails, DeployInv, Sound, Deployed
<1> QED
  BY <1>1, <1>2, <1>3, <1>4, <1>5 DEF Dispatch

\* The strengthened invariant holds at first and every step keeps it.
LEMMA DeployInductive ==
  /\ Init => DeployInv
  /\ TypeOK /\ DeployInv /\ [Next]_vars => DeployInv'
<1>1. ASSUME Init
      PROVE  DeployInv
  <2>1. Sound(NoProfile)
    BY SagaAssumption DEF Sound, NoProfile
  <2>2. NoResponse # Response(Deploy, TRUE)
    BY DEF NoResponse, Response
  <2> QED
    BY <1>1, <2>1, <2>2 DEF Init, DeployInv, Calls
<1>2. ASSUME TypeOK, DeployInv, [Next]_vars
      PROVE  DeployInv'
  <2>a. Deployed => Deployed'
    BY <1>2, DeployedStays
  <2>1. CASE \/ CommitProfile
             \/ \E x \in Disposals : FindActive(x)
             \/ \E c \in Calls : Proceed(c) \/ SendFails(c) \/ CallEnds(c)
    <3>1. orch' = orch
      BY <2>1 DEF CommitProfile, FindActive, Proceed, DeleteProfile, CommitDispose,
                  RevertDispose, CommitRevert, Send, SendFails, CallEnds, pmanager
    <3> QED
      BY <1>2, <2>1, <3>1, CallsKeepSound
  <2>2. CASE \/ StartCompensation
             \/ \E o \in Orchestrations :
                  \/ Provision(o)
                  \/ Refuse(o) \/ GiveUp(o) \/ Stall(o) \/ PublishAgain(o) \/ LoseResponse(o)
    BY <1>2, <2>a, <2>2, ProvisionKeepsSound
  <2>3. ASSUME NEW h \in Handlers,
               \/ Dispatch(h) \/ HandleFails(h)
               \/ \E m \in responses : ReadFails(h, m)
        PROVE  DeployInv'
    <3>1. orch' = orch
      BY <2>3 DEF Dispatch, Handle, CommitResponse, Ack, HandleFails, ReadFails, pmanager
    <3> QED
      BY <1>2, <2>3, <3>1, HandlersKeepSound
  <2>4. CASE UNCHANGED vars
    BY <1>2, <2>4 DEF vars, pmanager, handler, DeployInv, Sound, Deployed
  <2> QED
    BY <1>2, <2>1, <2>2, <2>3, <2>4 DEF Next
<1> QED
  BY <1>1, <1>2

\* However many disposals, handlers, refusals, repeated responses and overwritten
\* rows there are, a profile is active or being disposed only if its deployment
\* completed, and then it has its state data.
THEOREM ActiveIsDeployed == Spec => []ActiveMeansDeployed
<1>1. DeployInv => ActiveMeansDeployed
  BY DEF DeployInv, Sound, Deployed, ActiveMeansDeployed
<1> QED
  BY <1>1, DeployInductive, TypeCorrect, PTL DEF Spec

-----------------------------------------------------------------------------
\* While one replica handles the responses.

OneHandler == \E h : Handlers = {h}

\* A response that must not be lost: o is heard of, and reported success.
Owed(o) == o \in Orchestrations \ lost /\ orch[o] = "completed" /\ o \in told

\* A call whose manifest is not sent has no orchestration, the compensation
\* follows the failure of the deployment, and what is reported is decided.
StartedInOrder ==
  /\ \A c \in Calls :
       call[c] \in {"idle", "commit"} => c \notin manifests /\ orch[c] = "none"
  /\ orch[Compensation] # "none" => orch[Deploy] = "errored"
  /\ \A o \in told : orch[o] \in {"completed", "errored", "stalled"}

\* While a failure is applied, the profile it was read with waits on: the success
\* that follows was not handled yet.
FailureKeepsWaiting ==
  \A h \in Handlers : hpc[h] = "commit" /\ ~held[h].success =>
    \A o \in Orchestrations :
      Owed(o) /\ isPendingOrchestration(copy[h], Response(o, TRUE))
        => Response(o, TRUE) \in responses

\* NotForgotten, in these words.
Heard ==
  \A o \in Orchestrations :
    Owed(o) /\ profile # NoProfile /\ isPendingOrchestration(profile, Response(o, TRUE))
    => \/ Response(o, TRUE) \in responses
       \/ \E h \in Handlers : hpc[h] = "commit" /\ held[h] = Response(o, TRUE)

HeardInv == OneHandler /\ StartedInOrder /\ FailureKeepsWaiting /\ Heard

\* The calls send manifests and make profiles wait only for what was not started.
LEMMA CallsKeepHeard ==
  ASSUME TypeOK, HeardInv,
         \/ CommitProfile
         \/ \E x \in Disposals : FindActive(x)
         \/ \E c \in Calls : Proceed(c) \/ SendFails(c) \/ CallEnds(c)
  PROVE  HeardInv'
<1>a. /\ Deploy \in Calls /\ Disposals \subseteq Calls /\ Calls \subseteq Orchestrations
      /\ Deploy \notin Disposals /\ None \notin Disposals /\ Compensation \notin Calls
      /\ Deploy # None /\ Deploy # Compensation
  BY SagaAssumption DEF Calls, Orchestrations, Deploy, Compensation, None
<1> DEFINE Rest ==
      /\ orch' = orch /\ told' = told /\ responses' = responses /\ hpc' = hpc /\ held' = held
      /\ lost \subseteq lost'
      /\ copy' = copy \/ \E x \in Disposals : copy' = [copy EXCEPT ![x] = profile]
<1>b. Rest
  <2>1. CASE CommitProfile
    BY <2>1 DEF CommitProfile, pmanager, handler
  <2>2. ASSUME NEW x \in Disposals, FindActive(x) \/ RevertDispose(x)
        PROVE  Rest
    BY <2>2 DEF FindActive, RevertDispose, FindByID, pmanager, handler
  <2>3. CASE DeleteProfile
    BY <2>3 DEF DeleteProfile, pmanager, handler
  <2>4. ASSUME NEW x \in Disposals, CommitDispose(x) \/ CommitRevert(x)
        PROVE  Rest
    <3>1. UNCHANGED <<pmanager, responses, handler, copy, lost, faults>>
      BY <2>4 DEF CommitDispose, CommitRevert
    <3> QED
      BY <3>1 DEF pmanager, handler
  <2>5. ASSUME NEW c \in Calls, Send(c) \/ SendFails(c)
        PROVE  Rest
    BY <2>5 DEF Send, SendFails, handler
  <2>6. ASSUME NEW c \in Calls, CallEnds(c)
        PROVE  Rest
    BY <2>6 DEF CallEnds, pmanager, handler
  <2> HIDE DEF Rest
  <2> QED
    BY <2>1, <2>2, <2>3, <2>4, <2>5, <2>6 DEF Proceed
<1>c. \A h \in Handlers : copy'[h] = copy[h]
  BY <1>b, <1>a, HandlersAreNoCalls DEF TypeOK
<1>m. \A o \in Orchestrations : Owed(o)' => Owed(o)
  BY <1>b DEF Owed
<1>d. FailureKeepsWaiting'
  BY <1>b, <1>c, <1>m DEF HeardInv, FailureKeepsWaiting
<1>e. ASSUME profile' \in {profile, NoProfile}
      PROVE  Heard'
  BY <1>e, <1>b, <1>m DEF HeardInv, Heard
<1>f. ASSUME NEW c \in Calls, orch[c] = "none", profile'.pending = c
      PROVE  Heard'
  <2>1. SUFFICES ASSUME NEW o \in Orchestrations, Owed(o),
                        isPendingOrchestration(profile', Response(o, TRUE))
                 PROVE  FALSE
    BY <1>f, <1>m DEF Heard
  \* Neither c nor, if c is the deployment, its compensation was started.
  <2>2. o = c \/ (c = Deploy /\ o = Compensation)
    BY <1>f, <2>1 DEF isPendingOrchestration, Response
  <2> QED
    BY <1>f, <2>1, <2>2 DEF HeardInv, StartedInOrder, Owed
<1>g. ASSUME profile'.pending = None
      PROVE  Heard'
  BY <1>a, <1>g DEF Heard, isPendingOrchestration, Response
<1> USE <1>a, <1>b DEF HeardInv, StartedInOrder, TypeOK, CallAt
<1>1. CASE CommitProfile
  <2>1. profile'.pending = Deploy /\ orch[Deploy] = "none"
    BY <1>1 DEF CommitProfile, NoProfile
  <2>2. StartedInOrder'
    BY <1>1 DEF CommitProfile, pmanager
  <2> QED
    BY <2>1, <2>2, <1>d, <1>f
<1>2. ASSUME NEW x \in Disposals, FindActive(x)
      PROVE  HeardInv'
  <2>1. StartedInOrder' /\ profile' = profile
    BY <1>2 DEF FindActive, pmanager
  <2> QED
    BY <2>1, <1>d, <1>e
<1>3. CASE DeleteProfile
  <2>1. StartedInOrder' /\ profile' = NoProfile
    BY <1>3 DEF DeleteProfile, pmanager
  <2> QED
    BY <2>1, <1>d, <1>e
<1>4. ASSUME NEW x \in Disposals, CommitDispose(x)
      PROVE  HeardInv'
  <2>1. StartedInOrder' /\ orch[x] = "none"
    BY <1>4 DEF CommitDispose, pmanager
  <2>2. profile' = NoProfile \/ profile'.pending = x
    BY <1>4 DEF CommitDispose, Updated, Profiles
  <2> QED
    BY <2>1, <2>2, <1>d, <1>e, <1>f
<1>5. ASSUME NEW x \in Disposals, RevertDispose(x)
      PROVE  HeardInv'
  <2>1. StartedInOrder' /\ profile' = profile
    BY <1>5 DEF RevertDispose, pmanager
  <2> QED
    BY <2>1, <1>d, <1>e
<1>6. ASSUME NEW x \in Disposals, CommitRevert(x)
      PROVE  HeardInv'
  <2>1. StartedInOrder'
    BY <1>6 DEF CommitRevert, pmanager
  <2>2. profile' = NoProfile \/ profile'.pending = None
    BY <1>6 DEF CommitRevert, Updated, Profiles
  <2> QED
    BY <2>1, <2>2, <1>d, <1>e, <1>g
<1>7. ASSUME NEW c \in Calls, Send(c) \/ SendFails(c) \/ CallEnds(c)
      PROVE  HeardInv'
  <2>1. StartedInOrder' /\ profile' = profile
    <3>1. CASE Send(c)
      BY <3>1 DEF Send
    <3>2. CASE SendFails(c)
      BY <3>2 DEF SendFails
    <3>3. CASE CallEnds(c)
      BY <3>3 DEF CallEnds, pmanager
    <3> QED
      BY <1>7, <3>1, <3>2, <3>3
  <2> QED
    BY <2>1, <1>d, <1>e
<1> QED
  BY <1>1, <1>2, <1>3, <1>4, <1>5, <1>6, <1>7 DEF Proceed

\* The Provision Manager reports success together with the response, and what it
\* reported it does not decide again.
LEMMA ProvisionKeepsHeard ==
  ASSUME TypeOK, HeardInv,
         \/ StartCompensation
         \/ \E o \in Orchestrations :
              \/ Provision(o)
              \/ Refuse(o) \/ GiveUp(o) \/ Stall(o) \/ PublishAgain(o) \/ LoseResponse(o)
  PROVE  HeardInv'
<1>a. /\ Deploy \in Orchestrations /\ Calls \subseteq Orchestrations
      /\ Compensation \in Orchestrations /\ Compensation \notin Calls
  BY SagaAssumption DEF Calls, Orchestrations, Deploy, Compensation
<1>b. UNCHANGED <<profile, call, copy, hpc, held>> /\ lost \subseteq lost'
      /\ responses \subseteq responses' /\ told \subseteq told'
  BY DEF StartCompensation, Provision, Start, Finish, PublishResponse, Refuse, GiveUp, Stall,
         PublishAgain, LoseResponse, Published, handler
<1>c. StartedInOrder'
  <2> USE <1>a DEF HeardInv, StartedInOrder, TypeOK
  <2>1. CASE StartCompensation
    BY <2>1 DEF StartCompensation
  <2>2. ASSUME NEW o \in Orchestrations, Start(o)
        PROVE  StartedInOrder'
    <3>1. o \in Calls /\ manifests' \subseteq manifests /\ call' = call /\ told' = told
      BY <2>2 DEF Start, Handled
    <3>2. orch' = [orch EXCEPT ![o] = IF @ \in {"none", "stored"} THEN "running" ELSE @]
      BY <2>2 DEF Start
    <3>3. call[o] \notin {"idle", "commit"}
      BY <2>2, <3>1 DEF Start
    <3>4. orch[Deploy] = "errored" => orch'[Deploy] = "errored"
      BY <3>2
    <3>5. orch'[Compensation] = orch[Compensation]
      BY <3>1, <3>2
    <3> QED
      BY <3>1, <3>2, <3>3, <3>4, <3>5
  <2>3. ASSUME NEW o \in Orchestrations, Finish(o)
        PROVE  StartedInOrder'
    BY <2>3 DEF Finish
  <2>4. ASSUME NEW o \in Orchestrations, PublishResponse(o) \/ PublishAgain(o) \/ LoseResponse(o)
        PROVE  StartedInOrder'
    BY <2>4 DEF PublishResponse, PublishAgain, LoseResponse, Published
  <2>5. ASSUME NEW o \in Orchestrations, Refuse(o) \/ GiveUp(o)
        PROVE  StartedInOrder'
    <3>1. o \in Calls /\ manifests' \subseteq manifests /\ call' = call /\ told' = told
      BY <2>5 DEF Refuse, GiveUp
    <3>2. orch' \in {orch, [orch EXCEPT ![o] = IF @ = "none" THEN "stored" ELSE @]}
      BY <2>5 DEF Refuse, GiveUp
    <3>3. call[o] \notin {"idle", "commit"}
      BY <2>5, <3>1 DEF Refuse, GiveUp
    <3>4. orch[Deploy] = "errored" => orch'[Deploy] = "errored"
      BY <3>2
    <3>5. orch'[Compensation] = orch[Compensation]
      BY <3>1, <3>2
    <3> QED
      BY <3>1, <3>2, <3>3, <3>4, <3>5
  <2>6. ASSUME NEW o \in Orchestrations, Stall(o)
        PROVE  StartedInOrder'
    BY <2>6 DEF Stall
  <2> QED
    BY <2>1, <2>2, <2>3, <2>4, <2>5, <2>6 DEF Provision
<1>d. ASSUME NEW p \in Orchestrations, Owed(p)'
      PROVE  Owed(p) \/ Response(p, TRUE) \in responses'
  <2> USE <1>a, <1>d DEF HeardInv, StartedInOrder, TypeOK, Owed
  <2>1. CASE StartCompensation
    BY <2>1 DEF StartCompensation
  <2>2. ASSUME NEW o \in Orchestrations, Start(o) \/ Finish(o) \/ Refuse(o) \/ GiveUp(o) \/ Stall(o)
        PROVE  Owed(p)
    BY <2>2, <1>b DEF Start, Finish, Refuse, GiveUp, Stall
  <2>3. ASSUME NEW o \in Orchestrations, PublishResponse(o) \/ PublishAgain(o)
        PROVE  Owed(p) \/ Response(p, TRUE) \in responses'
    <3>1. orch' = orch /\ lost' = lost /\ Published(o)
      BY <2>3 DEF PublishResponse, PublishAgain
    <3>2. CASE p = o
      BY <3>1, <3>2 DEF Published
    <3>3. CASE p # o
      BY <3>1, <3>3 DEF Published
    <3> QED
      BY <3>2, <3>3
  <2>4. ASSUME NEW o \in Orchestrations, LoseResponse(o)
        PROVE  Owed(p)
    BY <2>4 DEF LoseResponse
  <2> QED
    BY <2>1, <2>2, <2>3, <2>4 DEF Provision
<1>e. FailureKeepsWaiting'
  BY <1>b, <1>d DEF HeardInv, FailureKeepsWaiting
<1>f. Heard'
  BY <1>b, <1>d DEF HeardInv, Heard, Owed
<1> QED
  BY <1>c, <1>e, <1>f DEF HeardInv

\* The handler takes a response from the profile that waits for it only to apply
\* it, and applying a failure leaves what the profile waited on.
LEMMA HandlersKeepHeard ==
  ASSUME TypeOK, HeardInv, NEW h \in Handlers,
         \/ Dispatch(h) \/ HandleFails(h)
         \/ \E m \in responses : ReadFails(h, m)
  PROVE  HeardInv'
<1>a. Handlers = {h} /\ h \notin Calls
  BY HandlersAreNoCalls DEF HeardInv, OneHandler
<1>b. UNCHANGED <<call, manifests, orch, told>> /\ lost \subseteq lost'
  BY DEF Dispatch, Handle, CommitResponse, Ack, HandleFails, ReadFails, pmanager
<1>c. StartedInOrder'
  BY <1>b DEF HeardInv, StartedInOrder
<1>d. \A o \in Orchestrations : Owed(o)' => Owed(o)
  BY <1>b DEF Owed
<1>e. ASSUME hpc[h] = "commit", responses \subseteq responses',
             profile' = Updated(Applied(copy[h], held[h])), profile' # NoProfile
      PROVE  Heard'
  <2>1. profile' = Applied(copy[h], held[h])
    BY <1>e DEF Updated
  <2>2. CASE held[h].success
    <3>1. profile'.pending = None
      BY <2>1, <2>2 DEF Applied
    <3> QED
      BY <3>1 DEF Heard, isPendingOrchestration, Deploy, None
  <2>3. CASE ~held[h].success
    <3>1. profile'.pending = copy[h].pending
      BY <2>1, <2>3 DEF Applied
    <3>2. \A o : isPendingOrchestration(profile', Response(o, TRUE))
                 => isPendingOrchestration(copy[h], Response(o, TRUE))
      BY <3>1 DEF isPendingOrchestration
    <3> QED
      BY <2>3, <3>2, <1>d, <1>e DEF HeardInv, FailureKeepsWaiting, Heard
  <2> QED
    BY <2>2, <2>3
<1>f. ASSUME hpc'[h] # "commit"
      PROVE  FailureKeepsWaiting'
  BY <1>f, <1>a DEF FailureKeepsWaiting
<1> USE <1>a DEF TypeOK, pmanager, handler
<1>1. ASSUME NEW m \in responses, Handle(h, m)
      PROVE  HeardInv'
  <2>1. /\ hpc[h] = "idle" /\ profile' = profile /\ copy'[h] = profile /\ held'[h] = m
        /\ responses' = responses \ {m} /\ lost' = lost
    BY <1>1 DEF Handle, FindByID
  <2>2. ASSUME NEW o \in Orchestrations, Owed(o), profile # NoProfile,
               isPendingOrchestration(profile, Response(o, TRUE))
        PROVE  \/ Response(o, TRUE) \in responses'
               \/ m = Response(o, TRUE) /\ hpc'[h] = "commit"
    <3>1. Response(o, TRUE) \in responses
      BY <2>1, <2>2 DEF HeardInv, Heard
    <3> QED
      BY <3>1, <2>1, <2>2, <1>1 DEF Handle
  <2>3. Heard'
    BY <2>1, <2>2, <1>d DEF Heard
  <2>4. FailureKeepsWaiting'
    <3> SUFFICES ASSUME NEW o \in Orchestrations, hpc'[h] = "commit", ~m.success, Owed(o),
                        isPendingOrchestration(profile, Response(o, TRUE))
                 PROVE  Response(o, TRUE) \in responses'
      BY <2>1, <1>d DEF FailureKeepsWaiting
    <3>1. profile # NoProfile
      BY <1>1 DEF Handle
    <3>2. m # Response(o, TRUE)
      BY DEF Response
    <3> QED
      BY <2>2, <3>1, <3>2
  <2> QED
    BY <1>c, <2>3, <2>4 DEF HeardInv
<1>2. CASE CommitResponse(h)
  <2>1. hpc'[h] # "commit" /\ responses \subseteq responses' /\ hpc[h] = "commit"
        /\ profile' = Updated(Applied(copy[h], held[h]))
    BY <1>2 DEF CommitResponse, Released
  <2> QED
    BY <2>1, <1>c, <1>e, <1>f DEF HeardInv, Heard
<1>3. CASE Ack(h)
  <2>1. hpc'[h] # "commit" /\ hpc[h] = "ack" /\ UNCHANGED <<profile, responses, lost>>
    BY <1>3 DEF Ack, Released
  <2>2. Heard'
    BY <2>1, <1>d DEF HeardInv, Heard
  <2> QED
    BY <2>1, <2>2, <1>c, <1>f DEF HeardInv
<1>4. CASE HandleFails(h)
  <2>1. hpc'[h] # "commit" /\ responses \subseteq responses'
    BY <1>4 DEF HandleFails, Released
  <2>2. CASE profile' = profile
    <3>1. held[h] \in responses' \/ held[h].id \in lost'
      BY <1>4 DEF HandleFails
    <3>2. Heard'
      <4>1. SUFFICES ASSUME NEW o \in Orchestrations, Owed(o)', profile # NoProfile,
                            isPendingOrchestration(profile, Response(o, TRUE))
                     PROVE  Response(o, TRUE) \in responses'
        BY <2>2 DEF Heard
      <4>2. Response(o, TRUE) \in responses \/ held[h] = Response(o, TRUE)
        BY <4>1, <1>d DEF HeardInv, Heard
      <4>3. Response(o, TRUE).id = o /\ o \notin lost'
        BY <4>1 DEF Response, Owed
      <4> QED
        BY <4>2, <4>3, <3>1, <2>1
    <3> QED
      BY <2>1, <3>2, <1>c, <1>f DEF HeardInv
  <2>3. CASE profile' # profile
    <3>1. hpc[h] = "commit" /\ profile' = Updated(Applied(copy[h], held[h]))
      BY <1>4, <2>3 DEF HandleFails
    <3>2. Heard'
      BY <2>1, <3>1, <1>e DEF Heard
    <3> QED
      BY <2>1, <3>2, <1>c, <1>f DEF HeardInv
  <2> QED
    BY <2>2, <2>3
<1>5. ASSUME NEW m \in responses, ReadFails(h, m)
      PROVE  HeardInv'
  <2>1. /\ hpc[h] = "idle" /\ UNCHANGED <<profile, hpc, held, copy>>
        /\ responses' = responses \ {m} /\ lost' = lost \union {m.id}
    BY <1>5 DEF ReadFails
  <2>2. Heard'
    BY <2>1, <1>d DEF HeardInv, Heard, Response, Owed
  <2> QED
    BY <2>1, <2>2, <1>c, <1>f DEF HeardInv
<1> QED
  BY <1>1, <1>2, <1>3, <1>4, <1>5 DEF Dispatch

\* It holds at first and every step keeps it.
LEMMA HeardInductive ==
  /\ OneHandler /\ Init => HeardInv
  /\ TypeOK /\ HeardInv /\ [Next]_vars => HeardInv'
<1>1. ASSUME OneHandler, Init
      PROVE  HeardInv
  BY <1>1 DEF Init, HeardInv, StartedInOrder, FailureKeepsWaiting, Heard, Owed, Calls,
              Orchestrations
<1>2. ASSUME TypeOK, HeardInv, [Next]_vars
      PROVE  HeardInv'
  <2>1. CASE UNCHANGED vars
    BY <1>2, <2>1 DEF vars, pmanager, handler, HeardInv, StartedInOrder, FailureKeepsWaiting,
                      Heard, Owed
  <2>2. CASE Next
    BY <1>2, <2>2, CallsKeepHeard, ProvisionKeepsHeard, HandlersKeepHeard DEF Next
  <2> QED
    BY <1>2, <2>1, <2>2
<1> QED
  BY <1>1, <1>2

\* With one handler, however many disposals and faults: a profile that waits for
\* an orchestration which reported success has that response still to come, unless
\* a lost manifest, response or process is to blame.
THEOREM NotForgottenHolds == OneHandler /\ Spec => []NotForgotten
<1>1. HeardInv => NotForgotten
  BY DEF HeardInv, Heard, Owed, NotForgotten
<1> QED
  BY <1>1, HeardInductive, TypeCorrect, PTL DEF Spec

-----------------------------------------------------------------------------
\* A late response to the deployment is ignored.

\* While the profile waits for its deployment no disposal has begun, so that
\* nobody but the handler overwrites the row that it read.
WaitingInv ==
  /\ OneHandler
  /\ call[Deploy] = "idle" =>
       /\ profile = NoProfile
       /\ \A x \in Disposals : call[x] = "idle"
  /\ profile.pending = Deploy =>
       /\ profile.vpas \notin {"active", "disposing"}
       /\ \A x \in Disposals : call[x] = "idle"
  /\ \A h \in Handlers :
       hpc[h] = "commit" /\ copy[h].pending = Deploy /\ profile # NoProfile
         => profile.pending = Deploy

\* A disposal begins with an active profile, so none overwrites one that waits for
\* its deployment.
LEMMA CallsKeepWaiting ==
  ASSUME TypeOK, WaitingInv,
         \/ CommitProfile
         \/ \E x \in Disposals : FindActive(x)
         \/ \E c \in Calls : Proceed(c) \/ SendFails(c) \/ CallEnds(c)
  PROVE  WaitingInv'
<1>a. /\ Deploy \in Calls /\ Disposals \subseteq Calls /\ Deploy \notin Disposals
      /\ Deploy # None
      /\ NoProfile.pending # Deploy
  BY SagaAssumption DEF Calls, Deploy, None, NoProfile
<1> USE <1>a DEF TypeOK, CallAt, pmanager, handler
<1>1. CASE CommitProfile
  <2>1. /\ profile'.pending = Deploy /\ profile'.vpas = "pending"
        /\ call' = [call EXCEPT ![Deploy] = "send"] /\ call[Deploy] = "idle"
    BY <1>1 DEF CommitProfile, NoProfile
  <2> QED
    BY <1>1, <2>1 DEF CommitProfile, WaitingInv
<1>2. ASSUME NEW x \in Disposals, FindActive(x)
      PROVE  WaitingInv'
  <2>1. profile.vpas = "active" /\ NoProfile.vpas # "active"
    BY <1>2 DEF FindActive, NoProfile
  <2>2. \A h \in Handlers : copy'[h] = copy[h]
    BY <1>2, HandlersAreNoCalls DEF FindActive, FindByID
  <2> QED
    BY <1>2, <2>1, <2>2 DEF FindActive, WaitingInv
<1>3. CASE DeleteProfile
  BY <1>3 DEF DeleteProfile, WaitingInv
<1>4. ASSUME NEW x \in Disposals, CommitDispose(x)
      PROVE  WaitingInv'
  <2>1. call[x] = "commit" /\ x # Deploy /\ call'[Deploy] = call[Deploy]
    BY <1>4 DEF CommitDispose
  <2>2. profile.pending # Deploy /\ call[Deploy] # "idle"
    BY <2>1 DEF WaitingInv
  <2>3. profile' = NoProfile \/ profile'.pending = x
    BY <1>4 DEF CommitDispose, Updated, Profiles
  <2>4. profile = NoProfile => profile' = NoProfile
    BY <1>4 DEF CommitDispose, Updated
  <2> QED
    BY <1>4, <2>1, <2>2, <2>3, <2>4 DEF CommitDispose, WaitingInv
<1>5. ASSUME NEW x \in Disposals, RevertDispose(x)
      PROVE  WaitingInv'
  <2>1. call[x] = "undo" /\ x # Deploy /\ call'[Deploy] = call[Deploy]
    BY <1>5 DEF RevertDispose
  <2>2. profile.pending # Deploy /\ call[Deploy] # "idle"
    BY <2>1 DEF WaitingInv
  <2>3. \A h \in Handlers : copy'[h] = copy[h]
    BY <1>5, HandlersAreNoCalls DEF RevertDispose, FindByID
  <2> QED
    BY <1>5, <2>1, <2>2, <2>3 DEF RevertDispose, WaitingInv
<1>6. ASSUME NEW x \in Disposals, CommitRevert(x)
      PROVE  WaitingInv'
  <2>1. call[x] = "revert" /\ x # Deploy /\ call'[Deploy] = call[Deploy]
    BY <1>6 DEF CommitRevert
  <2>2. profile.pending # Deploy /\ call[Deploy] # "idle"
    BY <2>1 DEF WaitingInv
  <2>3. profile' = NoProfile \/ profile'.pending = None
    BY <1>6 DEF CommitRevert, Updated, Profiles
  <2>4. profile = NoProfile => profile' = NoProfile
    BY <1>6 DEF CommitRevert, Updated
  <2> QED
    BY <1>6, <2>1, <2>2, <2>3, <2>4 DEF CommitRevert, WaitingInv
<1>7. ASSUME NEW c \in Calls, Send(c) \/ SendFails(c) \/ CallEnds(c)
      PROVE  WaitingInv'
  <2>1. /\ UNCHANGED <<profile, hpc, copy>>
        /\ call[c] # "idle" /\ \E next \in {"undo", "done"} : call' = [call EXCEPT ![c] = next]
    <3>1. CASE Send(c)
      BY <3>1 DEF Send
    <3>2. CASE SendFails(c)
      BY <3>2 DEF SendFails
    <3>3. CASE CallEnds(c)
      BY <3>3 DEF CallEnds
    <3> QED
      BY <1>7, <3>1, <3>2, <3>3
  <2> QED
    BY <2>1 DEF WaitingInv
<1> QED
  BY <1>1, <1>2, <1>3, <1>4, <1>5, <1>6, <1>7 DEF Proceed

\* The handler makes a profile wait for its deployment only if it still did.
LEMMA HandlersKeepWaiting ==
  ASSUME TypeOK, WaitingInv, NEW h \in Handlers,
         \/ Dispatch(h) \/ HandleFails(h)
         \/ \E m \in responses : ReadFails(h, m)
  PROVE  WaitingInv'
<1>a. /\ Handlers = {h} /\ h \notin Calls /\ Deploy # None
      /\ call' = call
  BY HandlersAreNoCalls
     DEF WaitingInv, OneHandler, Dispatch, Handle, CommitResponse, Ack, HandleFails, ReadFails,
         Deploy, None
<1> USE <1>a DEF TypeOK
<1>1. ASSUME hpc[h] = "commit", hpc'[h] # "commit",
             profile' \in {profile, Updated(Applied(copy[h], held[h]))}
      PROVE  WaitingInv'
  <2>1. CASE profile' = profile
    BY <1>1, <2>1 DEF WaitingInv
  <2>2. CASE profile # NoProfile /\ profile' = Applied(copy[h], held[h])
    <3>1. profile'.pending = Deploy => ~held[h].success /\ copy[h].pending = Deploy
      BY <2>2 DEF Applied
    <3>2. ~held[h].success => profile'.vpas \notin {"active", "disposing"}
      BY <2>2 DEF Applied, TargetState
    <3> QED
      BY <1>1, <2>2, <3>1, <3>2 DEF WaitingInv
  <2> QED
    BY <1>1, <2>1, <2>2 DEF Updated
<1>2. ASSUME NEW m \in responses, Handle(h, m)
      PROVE  WaitingInv'
  BY <1>2 DEF Handle, FindByID, WaitingInv
<1>3. CASE CommitResponse(h)
  BY <1>1, <1>3 DEF CommitResponse, Released
<1>4. CASE Ack(h)
  BY <1>4 DEF Ack, Released, WaitingInv
<1>5. CASE HandleFails(h)
  <2>1. CASE hpc[h] = "commit"
    BY <1>1, <1>5, <2>1 DEF HandleFails, Released
  <2>2. CASE hpc[h] # "commit"
    BY <1>5, <2>2 DEF HandleFails, Released, WaitingInv
  <2> QED
    BY <2>1, <2>2
<1>6. ASSUME NEW m \in responses, ReadFails(h, m)
      PROVE  WaitingInv'
  BY <1>6 DEF ReadFails, handler, WaitingInv
<1> QED
  BY <1>2, <1>3, <1>4, <1>5, <1>6 DEF Dispatch

\* It holds at first and every step keeps it.
LEMMA WaitingInductive ==
  /\ OneHandler /\ Init => WaitingInv
  /\ TypeOK /\ WaitingInv /\ [Next]_vars => WaitingInv'
<1>1. ASSUME OneHandler, Init
      PROVE  WaitingInv
  BY <1>1 DEF Init, WaitingInv, NoProfile, Calls, Deploy, None
<1>2. ASSUME TypeOK, WaitingInv, [Next]_vars
      PROVE  WaitingInv'
  <2>1. ASSUME UNCHANGED <<profile, call, hpc, copy>>
        PROVE  WaitingInv'
    BY <1>2, <2>1 DEF WaitingInv
  <2>2. CASE \/ StartCompensation
             \/ \E o \in Orchestrations :
                  \/ Provision(o)
                  \/ Refuse(o) \/ GiveUp(o) \/ Stall(o) \/ PublishAgain(o) \/ LoseResponse(o)
    <3>1. UNCHANGED <<profile, call, hpc, copy>>
      BY <2>2 DEF StartCompensation, Provision, Start, Finish, PublishResponse, Refuse, GiveUp,
                  Stall, PublishAgain, LoseResponse, handler
    <3> QED
      BY <3>1, <2>1
  <2>3. CASE UNCHANGED vars
    BY <2>1, <2>3 DEF vars, handler
  <2> QED
    BY <1>2, <2>2, <2>3, CallsKeepWaiting, HandlersKeepWaiting DEF Next
<1> QED
  BY <1>1, <1>2

\* With one handler, a response to the deployment or to its compensation changes
\* the row only while the row waits for the deployment, however the calls and the
\* redeliveries interleave with what the handler read.
THEOREM LateResponseIsIgnoredHolds == OneHandler /\ Spec => LateResponseIsIgnored
<1> DEFINE Ignored ==
      \A h \in Handlers :
        (/\ hpc[h] = "commit" /\ profile' # profile
         /\ held[h].id \in {Deploy, Compensation}
         /\ hpc'[h] # "commit")
        => profile.pending = Deploy
<1>1. ASSUME TypeOK, WaitingInv, [Next]_vars
      PROVE  [Ignored]_vars
  <2>1. SUFFICES ASSUME NEW h \in Handlers, Next,
                        hpc[h] = "commit", profile' # profile,
                        held[h].id \in {Deploy, Compensation}, hpc'[h] # "commit"
                 PROVE  profile.pending = Deploy
    BY <1>1
  <2>2. copy[h].pending = Deploy
    <3>1. isPendingOrchestration(copy[h], held[h]) /\ copy[h] \in Profiles
      BY <1>1, <2>1 DEF TypeOK
    <3>2. copy[h].pending # Compensation
      BY <3>1, SagaAssumption DEF Profiles, Calls, Deploy, Compensation, None
    <3> QED
      BY <2>1, <3>1, <3>2 DEF isPendingOrchestration
  <2>3. ASSUME NEW g \in Handlers,
               \/ Dispatch(g) \/ HandleFails(g)
               \/ \E m \in responses : ReadFails(g, m)
        PROVE  profile # NoProfile
    BY <1>1, <2>1, <2>3
       DEF Dispatch, Handle, CommitResponse, Ack, HandleFails, ReadFails, Updated
  <2>4. \E g \in Handlers :
          \/ Dispatch(g) \/ HandleFails(g)
          \/ \E m \in responses : ReadFails(g, m)
    <3>1. CASE \/ CommitProfile
               \/ \E x \in Disposals : FindActive(x)
      BY <2>1, <3>1 DEF CommitProfile, FindActive, handler
    <3>2. ASSUME NEW c \in Calls, Proceed(c) \/ SendFails(c) \/ CallEnds(c)
          PROVE  hpc' = hpc
      BY <3>2 DEF Proceed, DeleteProfile, CommitDispose, RevertDispose, CommitRevert, Send,
                  SendFails, CallEnds, handler
    <3>3. CASE \/ StartCompensation
               \/ \E o \in Orchestrations :
                    \/ Provision(o)
                    \/ Refuse(o) \/ GiveUp(o) \/ Stall(o) \/ PublishAgain(o) \/ LoseResponse(o)
      BY <2>1, <3>3 DEF StartCompensation, Provision, Start, Finish, PublishResponse, Refuse,
                        GiveUp, Stall, PublishAgain, LoseResponse
    <3> QED
      BY <2>1, <3>1, <3>2, <3>3 DEF Next
  <2> QED
    BY <1>1, <2>1, <2>2, <2>3, <2>4 DEF WaitingInv
<1> QED
  BY <1>1, WaitingInductive, TypeCorrect, PTL DEF Spec, LateResponseIsIgnored
=============================================================================
