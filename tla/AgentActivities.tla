--------------------------- MODULE AgentActivities ---------------------------
(***************************************************************************)
(* What the agents' activities do to the systems they provision: the       *)
(* deployment of one participant and its disposal, which is either asked   *)
(* for or the compensation of the deployment.                              *)
(*                                                                         *)
(* An activity is a sequence of remote calls.  Between any two of them its *)
(* process may die, and the message is delivered again, so that the        *)
(* activity starts over; or heartbeats are lost and a second worker runs   *)
(* the activity beside the first.  What the executor makes of an           *)
(* activity's result is Orchestration's; here it is one step.              *)
(***************************************************************************)
EXTENDS Sequences, Naturals, Functions

CONSTANTS
  Plans,      \* the sets of activities that a deployment may have after jwtlet's
  Workers,    \* workers of an agent
  MaxFaults   \* bound: failing calls, crashes, messages delivered twice

Others == {"edcv", "siglet", "certo", "ih", "registration", "onboarding"}
Activities == Others \union {"jwtlet"}

ASSUME ActivitiesAssumption ==
  /\ Plans \subseteq SUBSET Others
  /\ Workers # {}
  /\ MaxFaults \in Nat

Inputs == {"full", "less", "none", "bad"}
Orchestrations == {"deploy", "dispose"}
Attempts == Orchestrations \X Activities \X Workers

VARIABLES
  plan,      \* the activities of this deployment beside jwtlet's
  input,     \* what their properties hold: all, less, none of it, or nonsense
  orch,      \* the state of each orchestration
  done,      \* the activities each has completed
  data,      \* keys in ProcessingData, handed to the disposal
  remote,    \* what exists in the remote systems
  request,   \* the credential request whose holderPid was stored last
  pc,        \* the call each attempt makes next
  leftover,  \* resources whose deletion failed and was only logged
  blame,     \* which activity ended an orchestration, and why
  overlap,   \* the deployment was still at work when the disposal began
  faults     \* how many of MaxFaults have happened

engine == <<plan, input, orch, done>>
history == <<leftover, blame, overlap>>
vars == <<engine, data, remote, request, pc, history, faults>>

Fault ==
  /\ faults < MaxFaults
  /\ faults' = faults + 1

-----------------------------------------------------------------------------
\* The clients.  A call names the resource, the method (REPLACE is a PUT of what
\* must exist) and the answers it takes for success; every other answer, or
\* none, is an error.

Call(resource, method, accepted) ==
  [resource |-> resource, method |-> method, accepted |-> accepted]

\* jwtlet, with the agent's own token.
createMapping(m) == Call(m, "POST", {"ok", "conflict"})
replaceMapping(m) == Call(m, "REPLACE", {"ok"})
deleteMapping(m) == Call(m, "DELETE", {"ok", "notFound"})
verifyTokenExchange == Call("token", "GET", {"ok"})

\* The control plane.
CreateParticipantContext == Call("context", "POST", {"ok"})
PatchConfig == Call("config", "PUT", {"ok"})
AssociateProfiles == Call("profiles", "PUT", {"ok"})
DeleteParticipantContext == Call("context", "DELETE", {"ok"})
RegisterDataPlane == Call("dataPlane", "PUT", {"ok"})
UnregisterDataPlane == Call("dataPlane", "DELETE", {"ok", "notFound"})

\* IdentityHub.
CreateIdentity == Call("identity", "POST", {"ok"})
DeleteIdentity == Call("identity", "DELETE", {"ok"})
RequestCredentials == Call("request", "POST", {"ok"})
GetCredentialRequestState == Call("request", "GET", {"created", "issued", "error", "unknown"})

\* The issuer service.
CreateHolder == Call("holder", "POST", {"ok"})
DeleteHolder == Call("holder", "DELETE", {"ok"})
QueryCredentialsByType == Call("credential", "GET", {"ok", "notFound"})
RevokeCredential == Call("credential", "DELETE", {"ok"})

\* Siglet.
GetTransferTypeMapping == Call("transferTypes", "GET", {"ok", "notFound"})
CreateTransferTypeMapping == Call("transferTypes", "POST", {"ok"})
ReplaceTransferTypeMapping == Call("transferTypes", "REPLACE", {"ok"})
DeleteTransferTypeMapping == Call("transferTypes", "DELETE", {"ok", "notFound"})

\* Certo, with a token for "sudo".
CreateCerto == Call("certo", "POST", {"ok"})
DeleteCerto == Call("certo", "DELETE", {"ok", "notFound"})

\* Every other call exchanges the agent's token for one of the participant
\* first, which the agent's mapping allows.
NeedsMapping(c) ==
  c.resource \notin {"agentMapping", "workloadMapping", "certo"}

-----------------------------------------------------------------------------
\* The remote systems: what they answer, and what becomes of the resource.

\* A request for a token asks for no resource.
Exists(c) == c.resource \in remote \union {"token"}

Answer(c) ==
  IF NeedsMapping(c) /\ "agentMapping" \notin remote THEN "noToken"
  ELSE CASE c = GetCredentialRequestState -> request
         [] c.resource # "request" /\ c.method = "POST" /\ Exists(c) -> "conflict"
         [] c.resource # "request" /\ c.method \in {"GET", "REPLACE", "DELETE"} /\ ~Exists(c) -> "notFound"
         [] OTHER -> "ok"

\* The participant's context takes its config and its profiles along.
Removed(r) == IF r = "context" THEN {"context", "config", "profiles"} ELSE {r}

Effect(c) ==
  CASE c.method \in {"POST", "PUT"} /\ Answer(c) = "ok" /\ c.resource # "request"
         -> remote \union {c.resource}
    [] c.method = "DELETE" /\ Answer(c) = "ok" -> remote \ Removed(c.resource)
    [] OTHER -> remote

\* A new request takes the place of the one that was stored.
Requested(c) ==
  IF c = RequestCredentials /\ Answer(c) = "ok" THEN "created" ELSE request

\* The issuer answers the open request.
Issue ==
  /\ request \in {"created", "unknown"}
  /\ \/ /\ request' = "issued"
        /\ remote' = remote \union {"credential"}
     \/ /\ request' \in {"error", "unknown"}
        /\ UNCHANGED remote
  /\ request' # request
  /\ UNCHANGED <<engine, data, pc, history, faults>>

-----------------------------------------------------------------------------
\* The activities: ProcessDeploy and ProcessDispose of each agent.

\* An attempt that makes no call has a result, or is idle.
Result(r) == Call(r, "none", {})
Idle == Result("idle")

\* What the activities make of the participant's properties: dataspace profiles, transfer
\* types, and those that Siglet can be configured with are found, the authorization
\* profile and all else can be used.
extractProfiles == input = "full"
extractMappings == input # "none"
isSigletConfigurable == input = "full"
authorizationProfile == input # "bad"
ReadValues == input # "bad"

\* jwtlet.
JwtletDeploy ==
  <<createMapping("agentMapping"), createMapping("workloadMapping"), verifyTokenExchange>>

JwtletDispose == <<deleteMapping("agentMapping"), deleteMapping("workloadMapping")>>

\* edcv: profiles are optional; DeleteConfig does nothing.
EdcvDeploy ==
  <<CreateParticipantContext, PatchConfig>> \o
  (IF extractProfiles THEN <<AssociateProfiles>> ELSE <<>>)

EdcvDispose == <<DeleteParticipantContext>>

\* siglet: without transfer types there is nothing to do, and those that cannot
\* be configured in Siglet are only registered.
SigletDeploy ==
  IF ~extractMappings THEN <<>>
  ELSE (IF isSigletConfigurable THEN <<GetTransferTypeMapping>> ELSE <<>>) \o <<RegisterDataPlane>>

SigletDispose == <<DeleteTransferTypeMapping, UnregisterDataPlane>>

CertoDeploy == <<CreateCerto>>
CertoDispose == <<DeleteCerto>>

IHDeploy == <<CreateIdentity>>
IHDispose == <<DeleteIdentity>>

RegistrationDeploy == <<CreateHolder>>
RegistrationDispose == <<DeleteHolder>>

\* onboarding: a request is made once, then its state is asked for.
OnboardingDeploy ==
  IF "holderPid" \in data THEN <<GetCredentialRequestState>> ELSE <<RequestCredentials>>

OnboardingDispose == <<QueryCredentialsByType, RevokeCredential>>

CallsOf(o, a) ==
  LET deploy ==
        [jwtlet |-> JwtletDeploy, edcv |-> EdcvDeploy, siglet |-> SigletDeploy,
         certo |-> CertoDeploy, ih |-> IHDeploy, registration |-> RegistrationDeploy,
         onboarding |-> OnboardingDeploy]
      dispose ==
        [jwtlet |-> JwtletDispose, edcv |-> EdcvDispose, siglet |-> SigletDispose,
         certo |-> CertoDispose, ih |-> IHDispose, registration |-> RegistrationDispose,
         onboarding |-> OnboardingDispose]
  IN  IF o = "deploy" THEN deploy[a] ELSE dispose[a]

\* The activity's input cannot be used: no credential specs or more than one
\* issuer, no service URLs, an authorization profile that is incomplete,
\* properties that cannot be read.  Every activity but jwtlet's deployment reads
\* participantContextId.
InvalidInput(o, a) ==
  \/ o = "deploy" /\ a = "siglet" /\ ~authorizationProfile
  \/ o = "deploy" /\ a \notin {"jwtlet", "siglet"} /\ ~ReadValues
  \/ <<o, a>> # <<"deploy", "jwtlet">> /\ "participantContextId" \notin data

\* These disposals log their errors and complete.
LogsErrors(o, a) == o = "dispose" /\ a \in {"edcv", "siglet", "certo", "ih"}

\* Where an activity begins.
First(o, a) ==
  CASE InvalidInput(o, a) -> Result("fatal")
    [] ~InvalidInput(o, a) /\ CallsOf(o, a) = <<>> -> Result("complete")
    [] OTHER -> CallsOf(o, a)[1]

\* The call that follows a call which is dealt with.
Following(o, a, c) ==
  LET calls == CallsOf(o, a)
      i == CHOOSE i \in 1..Len(calls) :
             \/ calls[i] = c
             \/ c \notin Range(calls) /\ calls[i].resource = c.resource
  IN  IF i < Len(calls) THEN calls[i + 1] ELSE Result("complete")

\* Mutant: a mapping that exists is taken for one of the finished activity.
AfterConflict_Done(c) == Result("complete")

\* createOrReplaceMapping.
AfterConflict(c) == replaceMapping(c.resource)

\* Siglet's upsert.
AfterGet(s) ==
  IF s = "ok" THEN ReplaceTransferTypeMapping ELSE CreateTransferTypeMapping

\* processNewRequest, whose request is accepted, and processExistingRequest.
AfterRequest(s) ==
  CASE s \in {"ok", "created"} -> Result("schedule")
    [] s = "issued" -> Result("complete")
    [] s = "unknown" -> Result("retry")
    [] OTHER -> Result("fatal")

\* Mutant: a disposal that finds nothing to delete is over.
Accepted_NothingThere(o, a, c, s) ==
  CASE c.resource = "request" -> AfterRequest(s)
    [] s = "conflict" -> AfterConflict(c)
    [] c = GetTransferTypeMapping -> AfterGet(s)
    [] c # GetTransferTypeMapping /\ s = "notFound" -> Result("complete")
    [] OTHER -> Following(o, a, c)

\* What an attempt goes on with when the answer s is accepted.
Accepted(o, a, c, s) ==
  CASE c.resource = "request" -> AfterRequest(s)
    [] s = "conflict" -> AfterConflict(c)
    [] c = GetTransferTypeMapping -> AfterGet(s)
    [] c = QueryCredentialsByType /\ s = "notFound" -> Result("complete")
    [] OTHER -> Following(o, a, c)

-----------------------------------------------------------------------------
\* An attempt.

Proceed(t, next) == pc' = [pc EXCEPT ![t] = next]

Running(t) == pc[t] # Idle
AtWork(t) == pc[t].method # "none"

\* The deployment sets up the participant's tokens first, the disposal removes
\* them last.
Enqueued(o, a) ==
  /\ orch[o] = "running"
  /\ a \in plan \union {"jwtlet"}
  /\ o = "deploy" /\ a # "jwtlet" => "jwtlet" \in done[o]
  /\ o = "dispose" /\ a = "jwtlet" => plan \subseteq done[o]

\* The activity's message is delivered, to any of the workers, which are all the
\* same; the activity is not run again once it has completed.
Begin(o, a, w) ==
  LET free == {v \in Workers : ~Running(<<o, a, v>>)}
  IN  /\ Enqueued(o, a)
      /\ a \notin done[o]
      /\ free # {} /\ w = CHOOSE v \in free : TRUE
      /\ \/ free = Workers /\ UNCHANGED faults
         \/ free # Workers /\ Fault
      /\ Proceed(<<o, a, w>>, First(o, a))
      /\ blame' = IF InvalidInput(o, a) THEN blame \union {<<o, a, "input">>} ELSE blame
      /\ UNCHANGED <<engine, data, remote, request, leftover, overlap>>

\* The call c failed, for the reason s.  Certo's disposal logs a failing request,
\* but not a failure to get its token.  An activity that ran out of time is retried.
Failed(o, a, w, c, s) ==
  \/ /\ LogsErrors(o, a)
     /\ Proceed(<<o, a, w>>, Following(o, a, c))
     /\ leftover' = leftover \union (IF s = "notFound" THEN {} ELSE Removed(c.resource))
     /\ UNCHANGED blame
  \/ /\ ~LogsErrors(o, a) \/ (a = "certo" /\ s = "failed")
     /\ \/ /\ Proceed(<<o, a, w>>, Result("fatal"))
           /\ blame' = blame \union {<<o, a, s>>}
        \/ /\ s = "failed"
           /\ Proceed(<<o, a, w>>, Result("retry"))
           /\ UNCHANGED blame
     /\ UNCHANGED leftover

Reply(o, a, w) ==
  LET c == pc[<<o, a, w>>]
      s == Answer(c)
  IN  /\ AtWork(<<o, a, w>>)
      /\ remote' = Effect(c)
      /\ request' = Requested(c)
      /\ IF s \in c.accepted
         THEN /\ Proceed(<<o, a, w>>, Accepted(o, a, c, s))
              /\ blame' = IF pc'[<<o, a, w>>] = Result("fatal") THEN blame \union {<<o, a, s>>} ELSE blame
              /\ UNCHANGED leftover
         ELSE Failed(o, a, w, c, s)
      /\ UNCHANGED <<engine, data, overlap, faults>>

\* The token, the request or its answer fails, whether or not the request was
\* carried out.  A request for credentials whose answer is lost stays open.
CallFails(o, a, w) ==
  LET c == pc[<<o, a, w>>]
  IN  /\ AtWork(<<o, a, w>>)
      /\ Fault
      /\ \/ UNCHANGED <<remote, request>>
         \/ /\ remote' = Effect(c)
            /\ request' = Requested(c)
      /\ Failed(o, a, w, c, "failed")
      /\ UNCHANGED <<engine, data, overlap>>

\* A request that is carried out gets no answer in time, or the answer of a server
\* that fails: the HTTP client sends it again, whatever its method.
customCheckRetry(o, a, w) ==
  LET c == pc[<<o, a, w>>]
  IN  /\ AtWork(<<o, a, w>>)
      /\ Effect(c) # remote
      /\ Fault
      /\ remote' = Effect(c)
      /\ UNCHANGED <<engine, data, request, pc, history>>

\* The process dies and the message is delivered again.
Crash(o, a, w) ==
  /\ Running(<<o, a, w>>)
  /\ Fault
  /\ Proceed(<<o, a, w>>, Idle)
  /\ UNCHANGED <<engine, data, remote, request, history>>

-----------------------------------------------------------------------------
\* What the executor makes of the result.

\* Mutant: the ID is stored only when the activity completes.
Stored_AtTheEnd(a, result) ==
  IF a = "jwtlet" /\ result = "complete" THEN {"participantContextId"}
  ELSE IF a = "onboarding" /\ result = "schedule" THEN {"holderPid"} ELSE {}

\* Mutant: the holderPid of the request is not stored.
Stored_NoHolderPid(a, result) ==
  IF a = "jwtlet" THEN {"participantContextId"} ELSE {}

\* What SetValue left in the activity's context, whatever the result.
Stored(a, result) ==
  IF a = "jwtlet" THEN {"participantContextId"}
  ELSE IF a = "onboarding" /\ result = "schedule" THEN {"holderPid"} ELSE {}

Settle(o, a, w) ==
  LET r == pc[<<o, a, w>>].resource
  IN  /\ Running(<<o, a, w>>) /\ ~AtWork(<<o, a, w>>)
      /\ Proceed(<<o, a, w>>, Idle)
      /\ data' = data \union (IF o = "deploy" THEN Stored(a, r) ELSE {})
      /\ done' = IF r = "complete" THEN [done EXCEPT ![o] = @ \union {a}] ELSE done
      /\ orch' = [orch EXCEPT ![o] =
                    CASE r = "fatal" -> "errored"
                      [] r # "fatal" /\ @ = "running" /\ plan \union {"jwtlet"} \subseteq done'[o] -> "completed"
                      [] OTHER -> @]
      /\ UNCHANGED <<plan, input, remote, request, history, faults>>

\* The last delivery: the orchestration is failed without running the activity.
GiveUp(o, a) ==
  /\ Enqueued(o, a)
  /\ a \notin done[o]
  /\ Fault
  /\ orch' = [orch EXCEPT ![o] = "errored"]
  /\ blame' = blame \union {<<o, a, "gaveUp">>}
  /\ UNCHANGED <<plan, input, done, data, remote, request, pc, leftover, overlap>>

\* The compensation of a failed deployment, or DisposeProfile after a
\* successful one.  Neither waits for attempts or requests of the deployment.
Dispose ==
  /\ orch["deploy"] \in {"completed", "errored"}
  /\ orch["dispose"] = "none"
  /\ orch' = [orch EXCEPT !["dispose"] = "running"]
  /\ overlap' = \/ request \in {"created", "unknown"}
                \/ \E t \in Attempts : t[1] = "deploy" /\ Running(t)
  /\ UNCHANGED <<plan, input, done, data, remote, request, pc, leftover, blame, faults>>

-----------------------------------------------------------------------------
\* An input is told from "full" by some activity of the plan.
Matters(i, p) ==
  \/ i \in {"full", "bad"}
  \/ i = "less" /\ p \intersect {"edcv", "siglet"} # {}
  \/ i = "none" /\ "siglet" \in p

Init ==
  /\ plan \in Plans
  /\ input \in {i \in Inputs : Matters(i, plan)}
  /\ orch = [deploy |-> "running", dispose |-> "none"]
  /\ done = [o \in Orchestrations |-> {}]
  /\ data = {}
  /\ remote = {}
  /\ request = "none"
  /\ pc = [t \in Attempts |-> Idle]
  /\ leftover = {}
  /\ blame = {}
  /\ overlap = FALSE
  /\ faults = 0

Step(o, a, w) == Begin(o, a, w) \/ Reply(o, a, w) \/ Settle(o, a, w)

Next ==
  \/ Issue \/ Dispose
  \/ \E o \in Orchestrations, a \in Activities :
       \/ GiveUp(o, a)
       \/ \E w \in Workers : Step(o, a, w) \/ CallFails(o, a, w) \/ customCheckRetry(o, a, w) \/ Crash(o, a, w)

Spec == Init /\ [][Next]_vars

\* Messages are delivered until they are settled, and the credential service
\* decides every request in the end.
Fairness ==
  /\ \A a \in Activities :
       WF_vars(\E o \in Orchestrations, w \in Workers : Step(o, a, w))
  /\ WF_vars(Issue /\ request' # "unknown")

FairSpec == Spec /\ Fairness

-----------------------------------------------------------------------------
\* Properties.

\* The resources an activity is there to create.
Created(a) ==
  LET named == {c.resource : c \in Range(CallsOf("deploy", a))} \ {"token"}
  IN  IF "request" \in named THEN {"credential"} ELSE named

\* A deployment that completed, through crashes and attempts running side by
\* side, has left all that its activities are there to create until it is
\* disposed.
DeployedIsComplete ==
  orch["deploy"] = "completed" /\ orch["dispose"] = "none" =>
    UNION {Created(a) : a \in plan \union {"jwtlet"}} \subseteq remote

\* "A mapping already exists when an earlier attempt of the activity created it,
\* so replacing it makes the deploy step safe to repeat", "so the dispose step is
\* safe to repeat": jwtlet's activity fails only when a call does, when it was
\* given up, or when the disposal works against a late attempt.  The ID it stores
\* "is persisted even if the activity fails": the disposal lacks it only if the
\* activity never came to an end.
RepeatsAreSafe ==
  /\ \A b \in blame : b[2] = "jwtlet" =>
       \/ b[3] \in {"failed", "gaveUp", "input"}
       \/ b[1] = "deploy" /\ orch["dispose"] # "none"
  /\ \A b \in blame : b[1] = "dispose" /\ b[3] = "input" =>
       <<"deploy", "jwtlet", "gaveUp">> \in blame

\* A disposal that completed has removed what the deployment created, however
\* far that got and however often either was repeated, except for what it has
\* logged, provided the deployment was not still at work when it began.
DisposedIsClean ==
  orch["dispose"] = "completed" /\ ~overlap => remote \subseteq leftover

\* An orchestration that runs is decided, the one that waits for credentials too.
EveryRunEnds ==
  \A o \in Orchestrations : orch[o] = "running" ~> orch[o] # "running"
=============================================================================
