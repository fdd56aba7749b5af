----------------------- MODULE AgentActivitiesProofs -----------------------
(***************************************************************************)
(* Proofs about AgentActivities, for any plans, any number of workers and  *)
(* any number of faults: what a completed deployment has left, what a      *)
(* completed disposal has removed, and that jwtlet's activities may be     *)
(* repeated.                                                               *)
(***************************************************************************)
EXTENDS AgentActivities, SequenceTheorems, TLAPS

\* What an attempt that makes no call can be at.
Results == {Result(r) : r \in {"idle", "complete", "schedule", "retry", "fatal"}}

Mappings == {"agentMapping", "workloadMapping"}

\* The calls that each activity can be at.
DeployCalls(a) ==
  CASE a = "jwtlet" -> {createMapping("agentMapping"), createMapping("workloadMapping"),
                        replaceMapping("agentMapping"), replaceMapping("workloadMapping"),
                        verifyTokenExchange}
    [] a = "edcv" -> {CreateParticipantContext, PatchConfig} \union
                     (IF extractProfiles THEN {AssociateProfiles} ELSE {})
    [] a = "siglet" -> (IF extractMappings THEN {RegisterDataPlane} ELSE {}) \union
                       (IF isSigletConfigurable
                        THEN {GetTransferTypeMapping, CreateTransferTypeMapping, ReplaceTransferTypeMapping}
                        ELSE {})
    [] a = "certo" -> {CreateCerto}
    [] a = "ih" -> {CreateIdentity}
    [] a = "registration" -> {CreateHolder}
    [] a = "onboarding" -> {GetCredentialRequestState, RequestCredentials}

DisposeCalls(a) ==
  CASE a = "jwtlet" -> {deleteMapping("agentMapping"), deleteMapping("workloadMapping")}
    [] a = "edcv" -> {DeleteParticipantContext}
    [] a = "siglet" -> {DeleteTransferTypeMapping, UnregisterDataPlane}
    [] a = "certo" -> {DeleteCerto}
    [] a = "ih" -> {DeleteIdentity}
    [] a = "registration" -> {DeleteHolder}
    [] a = "onboarding" -> {QueryCredentialsByType, RevokeCredential}

Calls(o, a) == IF o = "deploy" THEN DeployCalls(a) ELSE DisposeCalls(a)

\* What an activity can leave in the remote systems, whatever its input ...
Resources(a) ==
  CASE a = "jwtlet" -> Mappings
    [] a = "edcv" -> {"context", "config", "profiles"}
    [] a = "siglet" -> {"transferTypes", "dataPlane"}
    [] a = "certo" -> {"certo"}
    [] a = "ih" -> {"identity"}
    [] a = "registration" -> {"holder"}
    [] a = "onboarding" -> {"credential"}

\* ... and what it has left when it completes.
Made(a) ==
  CASE a = "edcv" -> IF extractProfiles THEN {"context", "config", "profiles"} ELSE {"context", "config"}
    [] a = "siglet" -> (IF extractMappings THEN {"dataPlane"} ELSE {}) \union
                       (IF isSigletConfigurable THEN {"transferTypes"} ELSE {})
    [] a \notin {"edcv", "siglet"} -> Resources(a)

\* What exists once a deploying attempt is at c ...
Behind(a, c) ==
  (IF c.method = "REPLACE" THEN {c.resource} ELSE {}) \union
  CASE c = Result("complete") -> Made(a)
    [] c.resource = "workloadMapping" -> {"agentMapping"}
    [] c.resource = "token" -> Mappings
    [] c.resource = "config" -> {"context"}
    [] c.resource = "profiles" -> {"context", "config"}
    [] c.resource = "dataPlane" /\ isSigletConfigurable -> {"transferTypes"}
    [] OTHER -> {}

\* ... and what is gone, or was logged, once a disposing one is.
Gone(a, c) ==
  CASE c = Result("complete") -> Resources(a)
    [] c.resource = "workloadMapping" -> {"agentMapping"}
    [] c.resource = "dataPlane" -> {"transferTypes"}
    [] OTHER -> {}

-----------------------------------------------------------------------------
\* The inductive invariant.

TypeOK ==
  /\ plan \subseteq Others
  /\ orch \in [Orchestrations -> {"none", "running", "completed", "errored"}]
  /\ done \in [Orchestrations -> SUBSET Activities]
  /\ request \in {"none", "created", "issued", "error", "unknown"}
  /\ overlap \in BOOLEAN
  /\ DOMAIN pc = Attempts

\* An attempt is at a call of its activity, or has a result.
PcOK ==
  \A o \in Orchestrations, a \in Activities, w \in Workers :
    pc[<<o, a, w>>] \in Results \union Calls(o, a)

\* The orchestrations start one after the other and complete with their
\* activities; no other activity is run.
EngineOK ==
  /\ orch["deploy"] # "none"
  /\ orch["dispose"] # "none" => orch["deploy"] # "running"
  /\ orch["dispose"] = "none" => done["dispose"] = {} /\ ~overlap
  /\ \A o \in Orchestrations : orch[o] = "completed" => plan \union {"jwtlet"} \subseteq done[o]
  /\ \A o \in Orchestrations, a \in Activities, w \in Workers :
       Running(<<o, a, w>>) => a \in plan \union {"jwtlet"} /\ orch[o] # "none"

\* The participant's ID is handed on by jwtlet's activity, which precedes the others.
IDHandedOn ==
  LET known == "participantContextId" \in data
  IN  /\ "jwtlet" \in done["deploy"] => known
      /\ \A a \in Activities \ {"jwtlet"}, w \in Workers : Running(<<"deploy", a, w>>) => known
      /\ orch["deploy"] # "running" => known \/ <<"deploy", "jwtlet", "gaveUp">> \in blame

\* Nothing is removed before the disposal: what an attempt has passed exists.
Deploying ==
  orch["dispose"] = "none" =>
    /\ \A a \in Activities, w \in Workers : Behind(a, pc[<<"deploy", a, w>>]) \subseteq remote
    /\ \A a \in done["deploy"] : Made(a) \subseteq remote
    /\ request = "issued" => "credential" \in remote

\* What exists belongs to an activity of the plan.
OwnedOK ==
  /\ \A r \in remote : \E a \in plan \union {"jwtlet"} : r \in Resources(a)
  /\ request # "none" => "onboarding" \in plan

\* The config and the profiles are the context's.
ContextFirst == {"config", "profiles"} \intersect remote # {} => "context" \in remote

\* Nothing is created any more once the disposal has begun, if the deployment
\* was at rest then: what an attempt has passed is gone.
Disposing ==
  ~overlap =>
    /\ ContextFirst
    /\ orch["dispose"] # "none" =>
         /\ \A a \in Activities, w \in Workers : pc[<<"deploy", a, w>>] = Idle
         /\ request \notin {"created", "unknown"}
         /\ \A a \in Activities, w \in Workers :
              Gone(a, pc[<<"dispose", a, w>>]) \intersect remote \subseteq leftover
         /\ \A a \in done["dispose"] : Resources(a) \intersect remote \subseteq leftover

SInv == TypeOK /\ PcOK /\ EngineOK /\ IDHandedOn /\ Deploying /\ OwnedOK /\ Disposing

AInv == SInv /\ RepeatsAreSafe

-----------------------------------------------------------------------------
\* The calls of an activity, one after the other.

\* The fields of a call.
LEMMA CallIs ==
  ASSUME NEW r, NEW m, NEW x
  PROVE  Call(r, m, x).resource = r /\ Call(r, m, x).method = m /\ Call(r, m, x).accepted = x
BY DEF Call

\* The call that follows is the one behind the only call that matches ...
LEMMA FollowingAt ==
  ASSUME NEW o, NEW a, NEW c, NEW calls, calls = CallsOf(o, a),
         NEW n \in 1..Len(calls),
         \A i \in 1..Len(calls) :
           (calls[i] = c \/ (c \notin Range(calls) /\ calls[i].resource = c.resource)) <=> i = n
  PROVE  Following(o, a, c) = IF n < Len(calls) THEN calls[n + 1] ELSE Result("complete")
<1> DEFINE Match(i) == calls[i] = c \/ (c \notin Range(calls) /\ calls[i].resource = c.resource)
<1>1. (CHOOSE i \in 1..Len(calls) : Match(i)) = n
  OBVIOUS
<1>2. QED
  BY <1>1 DEF Following

\* ... and that is the only one for the resource.
LEMMA FollowingIs ==
  ASSUME NEW o, NEW a, NEW c, NEW calls, calls = CallsOf(o, a),
         \A d \in Range(calls) : \E i \in 1..Len(calls) : d = calls[i],
         NEW n \in 1..Len(calls),
         \A i \in 1..Len(calls) : calls[i].resource = c.resource <=> i = n
  PROVE  Following(o, a, c) = IF n < Len(calls) THEN calls[n + 1] ELSE Result("complete")
<1>1. \A i \in 1..Len(calls) :
        (calls[i] = c \/ (c \notin Range(calls) /\ calls[i].resource = c.resource)) <=> i = n
  OBVIOUS
<1>2. QED
  BY <1>1, FollowingAt

\* What follows the calls of an activity that makes three ...
LEMMA FollowingOf3 ==
  ASSUME NEW o, NEW a, NEW c, NEW x, NEW y, NEW z, CallsOf(o, a) = <<x, y, z>>,
         x.resource # y.resource, x.resource # z.resource, y.resource # z.resource
  PROVE  /\ c.resource = x.resource => Following(o, a, c) = y
         /\ c.resource = y.resource => Following(o, a, c) = z
         /\ c.resource = z.resource => Following(o, a, c) = Result("complete")
<1>1. PICK calls : calls = <<x, y, z>>
  OBVIOUS
<1>2. /\ \A d \in Range(calls) : \E i \in 1..Len(calls) : d = calls[i]
      /\ Len(calls) = 3 /\ 1..Len(calls) = {1, 2, 3}
      /\ calls[1] = x /\ calls[2] = y /\ calls[3] = z
      /\ calls = CallsOf(o, a)
  BY <1>1 DEF Range
<1>3. \A n \in 1..Len(calls) : calls[n].resource = c.resource =>
        \A i \in 1..Len(calls) : calls[i].resource = c.resource <=> i = n
  BY ONLY <1>2, x.resource # y.resource, x.resource # z.resource, y.resource # z.resource
<1>4. c.resource = x.resource => Following(o, a, c) = y
  <2>1. SUFFICES ASSUME c.resource = x.resource PROVE Following(o, a, c) = y
    OBVIOUS
  <2>2. \A i \in 1..Len(calls) : calls[i].resource = c.resource <=> i = 1
    BY <1>2, <1>3, <2>1
  <2>3. 1 \in 1..Len(calls)
    BY <1>2
  <2>4. Following(o, a, c) = IF 1 < Len(calls) THEN calls[1 + 1] ELSE Result("complete")
    <3>1. /\ calls = CallsOf(o, a)
          /\ \A d \in Range(calls) : \E i \in 1..Len(calls) : d = calls[i]
      BY <1>2
    <3>2. QED
      BY ONLY <3>1, <2>2, <2>3, FollowingIs
  <2>5. QED
    BY <1>2, <2>4
<1>5. c.resource = y.resource => Following(o, a, c) = z
  <2>1. SUFFICES ASSUME c.resource = y.resource PROVE Following(o, a, c) = z
    OBVIOUS
  <2>2. \A i \in 1..Len(calls) : calls[i].resource = c.resource <=> i = 2
    BY <1>2, <1>3, <2>1
  <2>3. 2 \in 1..Len(calls)
    BY <1>2
  <2>4. Following(o, a, c) = IF 2 < Len(calls) THEN calls[2 + 1] ELSE Result("complete")
    <3>1. /\ calls = CallsOf(o, a)
          /\ \A d \in Range(calls) : \E i \in 1..Len(calls) : d = calls[i]
      BY <1>2
    <3>2. QED
      BY ONLY <3>1, <2>2, <2>3, FollowingIs
  <2>5. QED
    BY <1>2, <2>4
<1>6. c.resource = z.resource => Following(o, a, c) = Result("complete")
  <2>1. SUFFICES ASSUME c.resource = z.resource PROVE Following(o, a, c) = Result("complete")
    OBVIOUS
  <2>2. \A i \in 1..Len(calls) : calls[i].resource = c.resource <=> i = 3
    BY <1>2, <1>3, <2>1
  <2>3. 3 \in 1..Len(calls)
    BY <1>2
  <2>4. Following(o, a, c) = IF 3 < Len(calls) THEN calls[3 + 1] ELSE Result("complete")
    <3>1. /\ calls = CallsOf(o, a)
          /\ \A d \in Range(calls) : \E i \in 1..Len(calls) : d = calls[i]
      BY <1>2
    <3>2. QED
      BY ONLY <3>1, <2>2, <2>3, FollowingIs
  <2>5. QED
    BY <1>2, <2>4
<1>7. QED
  BY <1>4, <1>5, <1>6

\* ... two ...
LEMMA FollowingOf2 ==
  ASSUME NEW o, NEW a, NEW c, NEW x, NEW y, CallsOf(o, a) = <<x, y>>, x.resource # y.resource
  PROVE  /\ c.resource = x.resource => Following(o, a, c) = y
         /\ c.resource = y.resource => Following(o, a, c) = Result("complete")
<1>1. PICK calls : calls = <<x, y>>
  OBVIOUS
<1>2. /\ \A d \in Range(calls) : \E i \in 1..Len(calls) : d = calls[i]
      /\ Len(calls) = 2 /\ 1..Len(calls) = {1, 2}
      /\ calls[1] = x /\ calls[2] = y
      /\ calls = CallsOf(o, a)
  BY <1>1 DEF Range
<1>3. \A n \in 1..Len(calls) : calls[n].resource = c.resource =>
        \A i \in 1..Len(calls) : calls[i].resource = c.resource <=> i = n
  BY ONLY <1>2, x.resource # y.resource
<1>4. c.resource = x.resource => Following(o, a, c) = y
  <2>1. SUFFICES ASSUME c.resource = x.resource PROVE Following(o, a, c) = y
    OBVIOUS
  <2>2. \A i \in 1..Len(calls) : calls[i].resource = c.resource <=> i = 1
    BY <1>2, <1>3, <2>1
  <2>3. 1 \in 1..Len(calls)
    BY <1>2
  <2>4. Following(o, a, c) = IF 1 < Len(calls) THEN calls[1 + 1] ELSE Result("complete")
    <3>1. /\ calls = CallsOf(o, a)
          /\ \A d \in Range(calls) : \E i \in 1..Len(calls) : d = calls[i]
      BY <1>2
    <3>2. QED
      BY ONLY <3>1, <2>2, <2>3, FollowingIs
  <2>5. QED
    BY <1>2, <2>4
<1>5. c.resource = y.resource => Following(o, a, c) = Result("complete")
  <2>1. SUFFICES ASSUME c.resource = y.resource PROVE Following(o, a, c) = Result("complete")
    OBVIOUS
  <2>2. \A i \in 1..Len(calls) : calls[i].resource = c.resource <=> i = 2
    BY <1>2, <1>3, <2>1
  <2>3. 2 \in 1..Len(calls)
    BY <1>2
  <2>4. Following(o, a, c) = IF 2 < Len(calls) THEN calls[2 + 1] ELSE Result("complete")
    <3>1. /\ calls = CallsOf(o, a)
          /\ \A d \in Range(calls) : \E i \in 1..Len(calls) : d = calls[i]
      BY <1>2
    <3>2. QED
      BY ONLY <3>1, <2>2, <2>3, FollowingIs
  <2>5. QED
    BY <1>2, <2>4
<1>6. QED
  BY <1>4, <1>5

\* ... or one.
LEMMA FollowingOf1 ==
  ASSUME NEW o, NEW a, NEW c, NEW x, CallsOf(o, a) = <<x>>, c.resource = x.resource
  PROVE  Following(o, a, c) = Result("complete")
<1>0. PICK calls : calls = <<x>>
  OBVIOUS
<1>1. /\ \A d \in Range(calls) : \E i \in 1..Len(calls) : d = calls[i]
      /\ Len(calls) = 1 /\ 1..Len(calls) = {1}
      /\ calls[1] = x
      /\ calls = CallsOf(o, a)
  BY <1>0 DEF Range
<1>2. \A i \in 1..Len(calls) : calls[i].resource = c.resource <=> i = 1
  BY <1>1
<1>3. /\ calls = CallsOf(o, a)
      /\ \A d \in Range(calls) : \E i \in 1..Len(calls) : d = calls[i]
      /\ 1 \in 1..Len(calls)
  BY <1>1
<1>4. Following(o, a, c) = IF 1 < Len(calls) THEN calls[1 + 1] ELSE Result("complete")
  BY ONLY <1>2, <1>3, FollowingIs
<1>5. QED
  BY <1>1, <1>4

\* The call lists that DeployCalls puts together.
LEMMA ConcatIs ==
  ASSUME NEW x, NEW y, NEW z
  PROVE  /\ <<x, y>> \o <<z>> = <<x, y, z>>
         /\ <<x, y>> \o <<>> = <<x, y>>
         /\ <<x>> \o <<y>> = <<x, y>>
         /\ <<>> \o <<x>> = <<x>>
<1> DEFINE S == {x, y, z}
<1>1. /\ <<x, y>> \in Seq(S) /\ <<z>> \in Seq(S) /\ <<x>> \in Seq(S) /\ <<y>> \in Seq(S)
      /\ <<>> \in Seq(S) /\ <<x, y, z>> \in Seq(S)
  OBVIOUS
<1> HIDE DEF S
<1>2. <<x, y>> \o <<z>> = <<x, y, z>>
  <2>1. /\ <<x, y>> \o <<z>> \in Seq(S)
        /\ Len(<<x, y>> \o <<z>>) = 3
        /\ (<<x, y>> \o <<z>>)[1] = x
        /\ (<<x, y>> \o <<z>>)[2] = y
        /\ (<<x, y>> \o <<z>>)[3] = z
    BY <1>1
  <2>2. /\ Len(<<x, y, z>>) = 3
        /\ \A i \in 1..3 : (<<x, y>> \o <<z>>)[i] = <<x, y, z>>[i]
    <3>1. 1..3 = {1, 2, 3}
      OBVIOUS
    <3>2. <<x, y, z>>[1] = x /\ <<x, y, z>>[2] = y /\ <<x, y, z>>[3] = z
      OBVIOUS
    <3>3. QED
      BY <2>1, <3>1, <3>2
  <2>3. QED
    BY <2>1, <2>2, <1>1, SeqEqual
<1>3. <<x, y>> \o <<>> = <<x, y>> /\ <<>> \o <<x>> = <<x>>
  BY <1>1
<1>4. <<x>> \o <<y>> = <<x, y>>
  <2>1. /\ <<x>> \o <<y>> \in Seq(S)
        /\ Len(<<x>> \o <<y>>) = 2
        /\ (<<x>> \o <<y>>)[1] = x
        /\ (<<x>> \o <<y>>)[2] = y
    BY <1>1
  <2>2. /\ Len(<<x, y>>) = 2
        /\ \A i \in 1..2 : (<<x>> \o <<y>>)[i] = <<x, y>>[i]
    <3>1. 1..2 = {1, 2}
      OBVIOUS
    <3>2. <<x, y>>[1] = x /\ <<x, y>>[2] = y
      OBVIOUS
    <3>3. QED
      BY <2>1, <3>1, <3>2
  <2>3. QED
    BY <2>1, <2>2, <1>1, SeqEqual
<1>5. QED
  BY <1>2, <1>3, <1>4

\* The calls of each deployment ...
LEMMA DeployCallsOf ==
  /\ CallsOf("deploy", "jwtlet") =
       <<createMapping("agentMapping"), createMapping("workloadMapping"), verifyTokenExchange>>
  /\ CallsOf("deploy", "edcv") =
       IF extractProfiles THEN <<CreateParticipantContext, PatchConfig, AssociateProfiles>>
       ELSE <<CreateParticipantContext, PatchConfig>>
  /\ CallsOf("deploy", "siglet") =
       CASE ~extractMappings -> <<>>
         [] extractMappings /\ isSigletConfigurable -> <<GetTransferTypeMapping, RegisterDataPlane>>
         [] OTHER -> <<RegisterDataPlane>>
  /\ CallsOf("deploy", "certo") = <<CreateCerto>>
  /\ CallsOf("deploy", "ih") = <<CreateIdentity>>
  /\ CallsOf("deploy", "registration") = <<CreateHolder>>
  /\ CallsOf("deploy", "onboarding") =
       IF "holderPid" \in data THEN <<GetCredentialRequestState>> ELSE <<RequestCredentials>>
<1>1. /\ CallsOf("deploy", "jwtlet") = JwtletDeploy
      /\ CallsOf("deploy", "edcv") = EdcvDeploy
      /\ CallsOf("deploy", "siglet") = SigletDeploy
      /\ CallsOf("deploy", "certo") = CertoDeploy
      /\ CallsOf("deploy", "ih") = IHDeploy
      /\ CallsOf("deploy", "registration") = RegistrationDeploy
      /\ CallsOf("deploy", "onboarding") = OnboardingDeploy
  BY DEF CallsOf
<1>2. EdcvDeploy = IF extractProfiles THEN <<CreateParticipantContext, PatchConfig, AssociateProfiles>>
                   ELSE <<CreateParticipantContext, PatchConfig>>
  BY ConcatIs DEF EdcvDeploy
<1>3. SigletDeploy = CASE ~extractMappings -> <<>>
                       [] extractMappings /\ isSigletConfigurable ->
                            <<GetTransferTypeMapping, RegisterDataPlane>>
                       [] OTHER -> <<RegisterDataPlane>>
  BY ConcatIs DEF SigletDeploy
<1>4. QED
  BY <1>1, <1>2, <1>3 DEF JwtletDeploy, CertoDeploy, IHDeploy, RegistrationDeploy, OnboardingDeploy

\* ... and of each disposal.
LEMMA DisposeCallsOf ==
  /\ CallsOf("dispose", "jwtlet") = <<deleteMapping("agentMapping"), deleteMapping("workloadMapping")>>
  /\ CallsOf("dispose", "edcv") = <<DeleteParticipantContext>>
  /\ CallsOf("dispose", "siglet") = <<DeleteTransferTypeMapping, UnregisterDataPlane>>
  /\ CallsOf("dispose", "certo") = <<DeleteCerto>>
  /\ CallsOf("dispose", "ih") = <<DeleteIdentity>>
  /\ CallsOf("dispose", "registration") = <<DeleteHolder>>
  /\ CallsOf("dispose", "onboarding") = <<QueryCredentialsByType, RevokeCredential>>
BY DEF CallsOf, JwtletDispose, EdcvDispose, SigletDispose, CertoDispose, IHDispose,
     RegistrationDispose, OnboardingDispose

\* What follows each call of a deployment ...
LEMMA DeployFollowing ==
  ASSUME NEW c
  PROVE  /\ c.resource = "agentMapping" =>
              Following("deploy", "jwtlet", c) = createMapping("workloadMapping")
         /\ c.resource = "workloadMapping" => Following("deploy", "jwtlet", c) = verifyTokenExchange
         /\ c.resource = "token" => Following("deploy", "jwtlet", c) = Result("complete")
         /\ c.resource = "context" => Following("deploy", "edcv", c) = PatchConfig
         /\ c.resource = "config" => Following("deploy", "edcv", c) =
              IF extractProfiles THEN AssociateProfiles ELSE Result("complete")
         /\ c.resource = "profiles" /\ extractProfiles =>
              Following("deploy", "edcv", c) = Result("complete")
         /\ c.resource = "transferTypes" /\ isSigletConfigurable =>
              Following("deploy", "siglet", c) = RegisterDataPlane
         /\ c.resource = "dataPlane" /\ extractMappings =>
              Following("deploy", "siglet", c) = Result("complete")
         /\ c.resource = "certo" => Following("deploy", "certo", c) = Result("complete")
         /\ c.resource = "identity" => Following("deploy", "ih", c) = Result("complete")
         /\ c.resource = "holder" => Following("deploy", "registration", c) = Result("complete")
<1>1. /\ createMapping("agentMapping").resource = "agentMapping"
      /\ createMapping("workloadMapping").resource = "workloadMapping"
      /\ verifyTokenExchange.resource = "token"
      /\ CreateParticipantContext.resource = "context"
      /\ PatchConfig.resource = "config"
      /\ AssociateProfiles.resource = "profiles"
      /\ GetTransferTypeMapping.resource = "transferTypes"
      /\ RegisterDataPlane.resource = "dataPlane"
      /\ CreateCerto.resource = "certo"
      /\ CreateIdentity.resource = "identity"
      /\ CreateHolder.resource = "holder"
  BY CallIs DEF createMapping, verifyTokenExchange, CreateParticipantContext, PatchConfig,
       AssociateProfiles, GetTransferTypeMapping, RegisterDataPlane, CreateCerto, CreateIdentity,
       CreateHolder
<1>2. /\ c.resource = "agentMapping" =>
           Following("deploy", "jwtlet", c) = createMapping("workloadMapping")
      /\ c.resource = "workloadMapping" => Following("deploy", "jwtlet", c) = verifyTokenExchange
      /\ c.resource = "token" => Following("deploy", "jwtlet", c) = Result("complete")
  BY <1>1, DeployCallsOf, FollowingOf3
<1>3. /\ c.resource = "context" => Following("deploy", "edcv", c) = PatchConfig
      /\ c.resource = "config" => Following("deploy", "edcv", c) =
           IF extractProfiles THEN AssociateProfiles ELSE Result("complete")
      /\ c.resource = "profiles" /\ extractProfiles =>
           Following("deploy", "edcv", c) = Result("complete")
  <2>1. CASE extractProfiles
    BY <1>1, <2>1, DeployCallsOf, FollowingOf3
  <2>2. CASE ~extractProfiles
    BY <1>1, <2>2, DeployCallsOf, FollowingOf2
  <2>3. QED
    BY <2>1, <2>2
<1>4. /\ c.resource = "transferTypes" /\ isSigletConfigurable =>
           Following("deploy", "siglet", c) = RegisterDataPlane
      /\ c.resource = "dataPlane" /\ extractMappings =>
           Following("deploy", "siglet", c) = Result("complete")
  <2>1. isSigletConfigurable => extractMappings
    BY DEF isSigletConfigurable, extractMappings
  <2>2. CASE isSigletConfigurable
    BY <1>1, <2>1, <2>2, DeployCallsOf, FollowingOf2
  <2>3. CASE ~isSigletConfigurable /\ extractMappings
    BY <1>1, <2>3, DeployCallsOf, FollowingOf1
  <2>4. QED
    BY <2>1, <2>2, <2>3
<1>5. /\ c.resource = "certo" => Following("deploy", "certo", c) = Result("complete")
      /\ c.resource = "identity" => Following("deploy", "ih", c) = Result("complete")
      /\ c.resource = "holder" => Following("deploy", "registration", c) = Result("complete")
  BY <1>1, DeployCallsOf, FollowingOf1
<1>6. QED
  BY <1>2, <1>3, <1>4, <1>5

\* ... and of a disposal.
LEMMA DisposeFollowing ==
  ASSUME NEW c
  PROVE  /\ c.resource = "agentMapping" =>
              Following("dispose", "jwtlet", c) = deleteMapping("workloadMapping")
         /\ c.resource = "workloadMapping" => Following("dispose", "jwtlet", c) = Result("complete")
         /\ c.resource = "context" => Following("dispose", "edcv", c) = Result("complete")
         /\ c.resource = "transferTypes" => Following("dispose", "siglet", c) = UnregisterDataPlane
         /\ c.resource = "dataPlane" => Following("dispose", "siglet", c) = Result("complete")
         /\ c.resource = "certo" => Following("dispose", "certo", c) = Result("complete")
         /\ c.resource = "identity" => Following("dispose", "ih", c) = Result("complete")
         /\ c.resource = "holder" => Following("dispose", "registration", c) = Result("complete")
<1>1. /\ deleteMapping("agentMapping").resource = "agentMapping"
      /\ deleteMapping("workloadMapping").resource = "workloadMapping"
      /\ DeleteParticipantContext.resource = "context"
      /\ DeleteTransferTypeMapping.resource = "transferTypes"
      /\ UnregisterDataPlane.resource = "dataPlane"
      /\ DeleteCerto.resource = "certo"
      /\ DeleteIdentity.resource = "identity"
      /\ DeleteHolder.resource = "holder"
  BY CallIs DEF deleteMapping, DeleteParticipantContext, DeleteTransferTypeMapping,
       UnregisterDataPlane, DeleteCerto, DeleteIdentity, DeleteHolder
<1>2. /\ c.resource = "agentMapping" =>
           Following("dispose", "jwtlet", c) = deleteMapping("workloadMapping")
      /\ c.resource = "workloadMapping" => Following("dispose", "jwtlet", c) = Result("complete")
      /\ c.resource = "transferTypes" => Following("dispose", "siglet", c) = UnregisterDataPlane
      /\ c.resource = "dataPlane" => Following("dispose", "siglet", c) = Result("complete")
  BY <1>1, DisposeCallsOf, FollowingOf2
<1>3. /\ c.resource = "context" => Following("dispose", "edcv", c) = Result("complete")
      /\ c.resource = "certo" => Following("dispose", "certo", c) = Result("complete")
      /\ c.resource = "identity" => Following("dispose", "ih", c) = Result("complete")
      /\ c.resource = "holder" => Following("dispose", "registration", c) = Result("complete")
  BY <1>1, DisposeCallsOf, FollowingOf1
<1>4. QED
  BY <1>2, <1>3

\* The issuer's disposal queries the credential and revokes it.
LEMMA OnboardingFollowing ==
  /\ Following("dispose", "onboarding", QueryCredentialsByType) = RevokeCredential
  /\ Following("dispose", "onboarding", RevokeCredential) = Result("complete")
<1>1. QueryCredentialsByType # RevokeCredential
  BY CallIs DEF QueryCredentialsByType, RevokeCredential
<1>2. CallsOf("dispose", "onboarding") = <<QueryCredentialsByType, RevokeCredential>>
  BY DisposeCallsOf
<1>3. PICK calls : calls = <<QueryCredentialsByType, RevokeCredential>>
  OBVIOUS
<1>4. /\ \A d : d \in Range(calls) <=> (d = QueryCredentialsByType \/ d = RevokeCredential)
      /\ Len(calls) = 2 /\ 1..Len(calls) = {1, 2}
      /\ calls[1] = QueryCredentialsByType /\ calls[2] = RevokeCredential
      /\ calls = CallsOf("dispose", "onboarding")
  BY <1>2, <1>3 DEF Range
<1>5. \A n \in 1..Len(calls) : \A i \in 1..Len(calls) :
        (calls[i] = calls[n] \/ (calls[n] \notin Range(calls) /\ calls[i].resource = calls[n].resource))
          <=> i = n
  BY ONLY <1>1, <1>4
<1>6. ASSUME NEW n \in 1..Len(calls)
      PROVE  Following("dispose", "onboarding", calls[n]) =
               IF n < Len(calls) THEN calls[n + 1] ELSE Result("complete")
  <2>1. \A i \in 1..Len(calls) :
          (calls[i] = calls[n] \/ (calls[n] \notin Range(calls) /\ calls[i].resource = calls[n].resource))
            <=> i = n
    BY <1>5
  <2>2. calls = CallsOf("dispose", "onboarding")
    BY <1>4
  <2>3. QED
    BY ONLY <1>6, <2>1, <2>2, FollowingAt
<1>7. QED
  BY <1>4, <1>6

\* What the calls name.
LEMMA CallFacts ==
  /\ \A m : /\ createMapping(m).resource = m /\ createMapping(m).method = "POST"
            /\ createMapping(m).accepted = {"ok", "conflict"}
            /\ replaceMapping(m).resource = m /\ replaceMapping(m).method = "REPLACE"
            /\ replaceMapping(m).accepted = {"ok"}
            /\ deleteMapping(m).resource = m /\ deleteMapping(m).method = "DELETE"
            /\ deleteMapping(m).accepted = {"ok", "notFound"}
  /\ verifyTokenExchange.resource = "token" /\ verifyTokenExchange.method = "GET"
  /\ verifyTokenExchange.accepted = {"ok"}
  /\ CreateParticipantContext.resource = "context" /\ CreateParticipantContext.method = "POST"
  /\ CreateParticipantContext.accepted = {"ok"}
  /\ PatchConfig.resource = "config" /\ PatchConfig.method = "PUT" /\ PatchConfig.accepted = {"ok"}
  /\ AssociateProfiles.resource = "profiles" /\ AssociateProfiles.method = "PUT"
  /\ AssociateProfiles.accepted = {"ok"}
  /\ DeleteParticipantContext.resource = "context" /\ DeleteParticipantContext.method = "DELETE"
  /\ DeleteParticipantContext.accepted = {"ok"}
  /\ RegisterDataPlane.resource = "dataPlane" /\ RegisterDataPlane.method = "PUT"
  /\ RegisterDataPlane.accepted = {"ok"}
  /\ UnregisterDataPlane.resource = "dataPlane" /\ UnregisterDataPlane.method = "DELETE"
  /\ UnregisterDataPlane.accepted = {"ok", "notFound"}
  /\ CreateIdentity.resource = "identity" /\ CreateIdentity.method = "POST"
  /\ CreateIdentity.accepted = {"ok"}
  /\ DeleteIdentity.resource = "identity" /\ DeleteIdentity.method = "DELETE"
  /\ DeleteIdentity.accepted = {"ok"}
  /\ RequestCredentials.resource = "request" /\ RequestCredentials.method = "POST"
  /\ RequestCredentials.accepted = {"ok"}
  /\ GetCredentialRequestState.resource = "request" /\ GetCredentialRequestState.method = "GET"
  /\ GetCredentialRequestState.accepted = {"created", "issued", "error", "unknown"}
  /\ CreateHolder.resource = "holder" /\ CreateHolder.method = "POST" /\ CreateHolder.accepted = {"ok"}
  /\ DeleteHolder.resource = "holder" /\ DeleteHolder.method = "DELETE" /\ DeleteHolder.accepted = {"ok"}
  /\ QueryCredentialsByType.resource = "credential" /\ QueryCredentialsByType.method = "GET"
  /\ QueryCredentialsByType.accepted = {"ok", "notFound"}
  /\ RevokeCredential.resource = "credential" /\ RevokeCredential.method = "DELETE"
  /\ RevokeCredential.accepted = {"ok"}
  /\ GetTransferTypeMapping.resource = "transferTypes" /\ GetTransferTypeMapping.method = "GET"
  /\ GetTransferTypeMapping.accepted = {"ok", "notFound"}
  /\ CreateTransferTypeMapping.resource = "transferTypes" /\ CreateTransferTypeMapping.method = "POST"
  /\ CreateTransferTypeMapping.accepted = {"ok"}
  /\ ReplaceTransferTypeMapping.resource = "transferTypes"
  /\ ReplaceTransferTypeMapping.method = "REPLACE" /\ ReplaceTransferTypeMapping.accepted = {"ok"}
  /\ DeleteTransferTypeMapping.resource = "transferTypes" /\ DeleteTransferTypeMapping.method = "DELETE"
  /\ DeleteTransferTypeMapping.accepted = {"ok", "notFound"}
  /\ CreateCerto.resource = "certo" /\ CreateCerto.method = "POST" /\ CreateCerto.accepted = {"ok"}
  /\ DeleteCerto.resource = "certo" /\ DeleteCerto.method = "DELETE"
  /\ DeleteCerto.accepted = {"ok", "notFound"}
  /\ \A r : Result(r).resource = r /\ Result(r).method = "none" /\ Result(r).accepted = {}
BY CallIs DEF createMapping, replaceMapping, deleteMapping, verifyTokenExchange,
     CreateParticipantContext, PatchConfig, AssociateProfiles, DeleteParticipantContext,
     RegisterDataPlane, UnregisterDataPlane, CreateIdentity, DeleteIdentity, RequestCredentials,
     GetCredentialRequestState, CreateHolder, DeleteHolder, QueryCredentialsByType,
     RevokeCredential, GetTransferTypeMapping, CreateTransferTypeMapping,
     ReplaceTransferTypeMapping, DeleteTransferTypeMapping, CreateCerto, DeleteCerto, Result

\* The four activities are different.
LEMMA ActivitiesAre ==
  Activities = {"jwtlet", "edcv", "siglet", "certo", "ih", "registration", "onboarding"}
BY DEF Activities, Others

\* The resources that DeployedIsComplete is about.
LEMMA CreatedIs == \A a \in Activities : Created(a) = Made(a)
<1> DEFINE Named(a) == {c.resource : c \in Range(CallsOf("deploy", a))} \ {"token"}
<1>1. Named("jwtlet") = {"agentMapping", "workloadMapping"}
  BY DeployCallsOf, CallFacts DEF Range
<1>2. Named("edcv") = IF extractProfiles THEN {"context", "config", "profiles"} ELSE {"context", "config"}
  BY DeployCallsOf, CallFacts DEF Range
<1>3. Named("siglet") = (IF extractMappings THEN {"dataPlane"} ELSE {}) \union
                       (IF isSigletConfigurable THEN {"transferTypes"} ELSE {})
  <2>1. isSigletConfigurable => extractMappings
    BY DEF isSigletConfigurable, extractMappings
  <2>2. QED
    BY <2>1, DeployCallsOf, CallFacts DEF Range
<1>4. /\ Named("certo") = {"certo"}
      /\ Named("ih") = {"identity"}
      /\ Named("registration") = {"holder"}
      /\ Named("onboarding") = {"request"}
  BY DeployCallsOf, CallFacts DEF Range
<1>5. \A a : Created(a) = IF "request" \in Named(a) THEN {"credential"} ELSE Named(a)
  BY DEF Created
<1> HIDE DEF Named
<1>6. QED
  BY <1>1, <1>2, <1>3, <1>4, <1>5, ActivitiesAre DEF Made, Resources, Mappings

\* The results an attempt can have.
LEMMA ResultsAre ==
  \A c : c \in Results <=> \/ c = Result("idle") \/ c = Result("complete") \/ c = Result("schedule")
                           \/ c = Result("retry") \/ c = Result("fatal")
BY DEF Results

\* An activity begins with one of its calls, or without any is complete.
LEMMA Begins ==
  ASSUME NEW o \in Orchestrations, NEW a \in Activities
  PROVE  /\ First(o, a) \in Results \union Calls(o, a)
         /\ o = "deploy" => Behind(a, First(o, a)) = {}
         /\ o = "dispose" => Gone(a, First(o, a)) = {}
<1>1. /\ Result("fatal") \in Results
      /\ Behind(a, Result("fatal")) = {}
      /\ Gone(a, Result("fatal")) = {}
  BY ResultsAre, CallFacts DEF Behind, Gone
<1>2. CASE InvalidInput(o, a)
  BY <1>1, <1>2 DEF First
<1>3. CASE ~InvalidInput(o, a) /\ o = "deploy"
  <2> DEFINE calls == CallsOf("deploy", a)
  <2>1. calls = <<>> => First(o, a) = Result("complete")
    BY <1>3 DEF First
  <2>2. calls # <<>> => First(o, a) = calls[1]
    BY <1>3 DEF First
  <2> HIDE DEF calls
  <2>3. CASE a = "jwtlet"
    <3>1. calls # <<>> /\ calls[1] = createMapping("agentMapping")
      BY <2>3, DeployCallsOf DEF calls
    <3>2. QED
      BY <1>3, <2>2, <2>3, <3>1, CallFacts DEF Calls, DeployCalls, Behind
  <2>4. CASE a = "edcv"
    <3>1. calls # <<>> /\ calls[1] = CreateParticipantContext
      BY <2>4, DeployCallsOf DEF calls
    <3>2. QED
      BY <1>3, <2>2, <2>4, <3>1, CallFacts DEF Calls, DeployCalls, Behind
  <2>5. CASE a = "siglet"
    <3>1. isSigletConfigurable => extractMappings
      BY DEF isSigletConfigurable, extractMappings
    <3>2. CASE ~extractMappings
      <4>1. calls = <<>>
        BY <2>5, <3>2, DeployCallsOf DEF calls
      <4>2. QED
        BY <1>3, <2>1, <2>5, <3>1, <3>2, <4>1, CallFacts, ResultsAre DEF Behind, Made
    <3>3. CASE isSigletConfigurable
      <4>1. calls # <<>> /\ calls[1] = GetTransferTypeMapping
        BY <2>5, <3>1, <3>3, DeployCallsOf DEF calls
      <4>2. QED
        BY <1>3, <2>2, <2>5, <3>3, <4>1, CallFacts DEF Calls, DeployCalls, Behind
    <3>4. CASE extractMappings /\ ~isSigletConfigurable
      <4>1. calls # <<>> /\ calls[1] = RegisterDataPlane
        BY <2>5, <3>4, DeployCallsOf DEF calls
      <4>2. QED
        BY <1>3, <2>2, <2>5, <3>4, <4>1, CallFacts DEF Calls, DeployCalls, Behind
    <3>5. QED
      BY <3>2, <3>3, <3>4
  <2>6. CASE a \in {"certo", "ih", "registration"}
    <3>1. calls # <<>> /\ calls[1] = CASE a = "certo" -> CreateCerto
                                       [] a = "ih" -> CreateIdentity
                                       [] a = "registration" -> CreateHolder
      BY <2>6, DeployCallsOf DEF calls
    <3>2. QED
      BY <1>3, <2>2, <2>6, <3>1, CallFacts DEF Calls, DeployCalls, Behind
  <2>7. CASE a = "onboarding"
    <3>1. calls # <<>> /\ calls[1] \in {GetCredentialRequestState, RequestCredentials}
      BY <2>7, DeployCallsOf DEF calls
    <3>2. QED
      BY <1>3, <2>2, <2>7, <3>1, CallFacts DEF Calls, DeployCalls, Behind
  <2>8. QED
    BY <2>3, <2>4, <2>5, <2>6, <2>7, ActivitiesAre
<1>4. CASE ~InvalidInput(o, a) /\ o = "dispose"
  <2> DEFINE calls == CallsOf("dispose", a)
  <2>1. calls # <<>> => First(o, a) = calls[1]
    BY <1>4 DEF First
  <2>2. calls # <<>> /\ calls[1] = CASE a = "jwtlet" -> deleteMapping("agentMapping")
                                     [] a = "edcv" -> DeleteParticipantContext
                                     [] a = "siglet" -> DeleteTransferTypeMapping
                                     [] a = "certo" -> DeleteCerto
                                     [] a = "ih" -> DeleteIdentity
                                     [] a = "registration" -> DeleteHolder
                                     [] a = "onboarding" -> QueryCredentialsByType
    BY DisposeCallsOf, ActivitiesAre
  <2> HIDE DEF calls
  <2>3. QED
    BY <1>4, <2>1, <2>2, CallFacts, ActivitiesAre DEF Calls, DisposeCalls, Gone
<1>5. QED
  BY <1>2, <1>3, <1>4 DEF Orchestrations

-----------------------------------------------------------------------------
\* What a call finds, and what its attempt goes on with.

\* The answers, in terms of the systems.
LEMMA AnswerIs ==
  ASSUME NEW c
  PROVE  /\ NeedsMapping(c) <=> c.resource \notin {"agentMapping", "workloadMapping", "certo"}
         /\ NeedsMapping(c) /\ "agentMapping" \notin remote => Answer(c) = "noToken"
         /\ ~(NeedsMapping(c) /\ "agentMapping" \notin remote) =>
              /\ c = GetCredentialRequestState => Answer(c) = request
              /\ c.resource # "request" /\ c.method = "POST" =>
                   Answer(c) = IF c.resource \in remote \union {"token"} THEN "conflict" ELSE "ok"
              /\ c.resource # "request" /\ c.method \in {"GET", "REPLACE", "DELETE"} =>
                   Answer(c) = IF c.resource \in remote \union {"token"} THEN "ok" ELSE "notFound"
              /\ c.resource # "request" /\ c.method \notin {"POST", "GET", "REPLACE", "DELETE"} => Answer(c) = "ok"
<1>1. c = GetCredentialRequestState => c.resource = "request"
  BY CallFacts
<1>2. QED
  BY <1>1 DEF Answer, NeedsMapping, Exists

\* A deploying call removes nothing, and creates what its activity owns.
LEMMA DeployEffect ==
  ASSUME NEW a \in Activities, NEW c \in DeployCalls(a)
  PROVE  /\ c.method \in {"POST", "PUT", "REPLACE", "GET"}
         /\ c.resource \in Resources(a) \union {"token", "request"}
         /\ c.resource = "request" => a = "onboarding"
         /\ remote \subseteq Effect(c)
         /\ Effect(c) \subseteq remote \union (Resources(a) \ {"token", "request"})
         /\ c.method \in {"POST", "PUT"} /\ Answer(c) = "ok" /\ c.resource # "request" =>
              c.resource \in Effect(c)
         /\ Requested(c) \in {request, "created"}
         /\ Requested(c) # request => a = "onboarding"
<1>1. /\ c.method \in {"POST", "PUT", "REPLACE", "GET"}
      /\ c.resource \in Resources(a) \union {"token", "request"}
      /\ c.resource = "request" => a = "onboarding"
      /\ c.method \in {"POST", "PUT"} => c.resource # "token"
  BY CallFacts, ActivitiesAre DEF DeployCalls, Resources, Mappings
<1>2. Effect(c) = IF c.method \in {"POST", "PUT"} /\ Answer(c) = "ok" /\ c.resource # "request"
                  THEN remote \union {c.resource} ELSE remote
  BY <1>1 DEF Effect
<1>3. c = RequestCredentials => c.resource = "request"
  BY CallFacts
<1>4. QED
  BY <1>1, <1>2, <1>3 DEF Requested

\* What an accepted answer to a deploying call is followed by.
LEMMA AcceptedIs ==
  ASSUME NEW a \in Activities, NEW c \in DeployCalls(a), NEW s \in c.accepted
  PROVE  LET next == Accepted("deploy", a, c, s)
         IN  /\ c.resource # "request" /\ s = "conflict" => next = replaceMapping(c.resource)
             /\ c = GetTransferTypeMapping /\ s = "ok" => next = ReplaceTransferTypeMapping
             /\ c = GetTransferTypeMapping /\ s = "notFound" => next = CreateTransferTypeMapping
             /\ c.resource # "request" /\ c # GetTransferTypeMapping /\ s = "ok" =>
                  next = Following("deploy", a, c)
             /\ c.resource = "request" => next = AfterRequest(s)
<1>1. /\ GetTransferTypeMapping.resource # "request" /\ QueryCredentialsByType.resource # "request"
      /\ GetTransferTypeMapping # QueryCredentialsByType
  BY CallFacts
<1>2. s = "conflict" => c # GetTransferTypeMapping /\ c.resource # "request"
  BY CallFacts, ActivitiesAre DEF DeployCalls
<1>3. CASE c.resource = "request"
  BY <1>1, <1>2, <1>3 DEF Accepted
<1>4. CASE c.resource # "request" /\ s = "conflict"
  BY <1>1, <1>2, <1>4 DEF Accepted, AfterConflict
<1>5. CASE c = GetTransferTypeMapping /\ s # "conflict"
  BY <1>1, <1>5 DEF Accepted, AfterGet
<1>6. CASE c.resource # "request" /\ c # GetTransferTypeMapping /\ s = "ok"
  BY <1>6 DEF Accepted
<1>7. QED
  BY <1>1, <1>2, <1>3, <1>4, <1>5, <1>6

\* An attempt stays at the calls of its activity, whatever exists.
LEMMA JwtletNext ==
  ASSUME NEW c \in DeployCalls("jwtlet"), NEW s \in c.accepted
  PROVE  Accepted("deploy", "jwtlet", c, s) \in {Result("complete")} \union DeployCalls("jwtlet")
<1>1. PICK next : next = Accepted("deploy", "jwtlet", c, s)
  OBVIOUS
<1>2. /\ c.resource # "request" /\ s = "conflict" => next = replaceMapping(c.resource)
      /\ c.resource # "request" /\ c # GetTransferTypeMapping /\ s = "ok" =>
           next = Following("deploy", "jwtlet", c)
  BY <1>1, AcceptedIs, ActivitiesAre
<1>3. CASE s = "conflict"
  <2>1. c \in {createMapping("agentMapping"), createMapping("workloadMapping")}
    BY <1>3, CallFacts DEF DeployCalls
  <2>2. QED
    BY <1>1, <1>2, <1>3, <2>1, CallFacts DEF DeployCalls
<1>4. CASE s # "conflict"
  <2>1. /\ s = "ok" /\ next = Following("deploy", "jwtlet", c)
        /\ c.resource \in {"agentMapping", "workloadMapping", "token"}
    BY <1>2, <1>4, CallFacts DEF DeployCalls
  <2>2. next \in {createMapping("workloadMapping"), verifyTokenExchange, Result("complete")}
    BY <2>1, DeployFollowing
  <2>3. QED
    BY <1>1, <2>2 DEF DeployCalls
<1>5. QED
  BY <1>3, <1>4

\* ... and so does an attempt of any other activity.
LEMMA DeployNext ==
  ASSUME NEW a \in Activities, NEW c \in DeployCalls(a), NEW s \in c.accepted
  PROVE  Accepted("deploy", a, c, s) \in Results \union DeployCalls(a)
<1>1. PICK next : next = Accepted("deploy", a, c, s)
  OBVIOUS
<1>2. /\ c.resource # "request" /\ s = "conflict" => next = replaceMapping(c.resource)
      /\ c = GetTransferTypeMapping /\ s = "ok" => next = ReplaceTransferTypeMapping
      /\ c = GetTransferTypeMapping /\ s = "notFound" => next = CreateTransferTypeMapping
      /\ c.resource # "request" /\ c # GetTransferTypeMapping /\ s = "ok" =>
           next = Following("deploy", a, c)
      /\ c.resource = "request" => next = AfterRequest(s)
  BY <1>1, AcceptedIs
<1>3. CASE a = "jwtlet"
  BY <1>1, <1>3, JwtletNext, ResultsAre
<1>4. CASE a = "edcv"
  <2>1. /\ next = Following("deploy", a, c)
        /\ c.resource \in {"context", "config"} \/ (c.resource = "profiles" /\ extractProfiles)
    BY <1>2, <1>4, CallFacts DEF DeployCalls
  <2>2. next \in {PatchConfig, Result("complete")} \union (IF extractProfiles THEN {AssociateProfiles} ELSE {})
    BY <1>4, <2>1, DeployFollowing
  <2>3. QED
    BY <1>1, <1>4, <2>2, ResultsAre DEF DeployCalls
<1>5. CASE a = "siglet"
  <2>1. isSigletConfigurable => extractMappings
    BY DEF isSigletConfigurable, extractMappings
  <2>2. CASE c = GetTransferTypeMapping
    BY <1>1, <1>2, <1>5, <2>2, CallFacts DEF DeployCalls
  <2>3. CASE c # GetTransferTypeMapping
    <3>1. /\ next = Following("deploy", a, c)
          /\ \/ c.resource = "transferTypes" /\ isSigletConfigurable
             \/ c.resource = "dataPlane" /\ extractMappings
      BY <1>2, <1>5, <2>3, CallFacts DEF DeployCalls
    <3>2. next = Result("complete") \/ (next = RegisterDataPlane /\ extractMappings)
      BY <1>5, <2>1, <3>1, DeployFollowing
    <3>3. QED
      BY <1>1, <1>5, <3>2, ResultsAre DEF DeployCalls
  <2>4. QED
    BY <2>2, <2>3
<1>6. CASE a \in {"certo", "ih", "registration"}
  <2>1. next = Result("complete")
    BY <1>2, <1>6, DeployFollowing, CallFacts DEF DeployCalls
  <2>2. QED
    BY <1>1, <2>1, ResultsAre
<1>7. CASE a = "onboarding"
  <2>1. next = AfterRequest(s)
    BY <1>2, <1>7, CallFacts DEF DeployCalls
  <2>2. QED
    BY <1>1, <2>1, ResultsAre DEF AfterRequest
<1>8. QED
  BY <1>3, <1>4, <1>5, <1>6, <1>7, ActivitiesAre

\* A deploying call that is answered as it should leaves its resource, whatever it
\* goes on with.
LEMMA DeployAccepted ==
  ASSUME NEW a \in Activities, NEW c \in DeployCalls(a), Answer(c) \in c.accepted,
         Behind(a, c) \subseteq remote, request = "issued" => "credential" \in remote
  PROVE  LET next == Accepted("deploy", a, c, Answer(c))
         IN  /\ next \in Results \union DeployCalls(a)
             /\ Behind(a, next) \subseteq Effect(c)
<1> DEFINE s == Answer(c)
           next == Accepted("deploy", a, c, s)
<1>1. remote \subseteq Effect(c)
  BY DeployEffect
<1>2. /\ c.resource # "request" /\ s = "conflict" => next = replaceMapping(c.resource)
      /\ c = GetTransferTypeMapping /\ s = "ok" => next = ReplaceTransferTypeMapping
      /\ c = GetTransferTypeMapping /\ s = "notFound" => next = CreateTransferTypeMapping
      /\ c.resource # "request" /\ c # GetTransferTypeMapping /\ s = "ok" => next = Following("deploy", a, c)
      /\ c.resource = "request" => next = AfterRequest(s)
  BY AcceptedIs
<1> HIDE DEF next
<1>3. /\ \A m \in Mappings :
           /\ Behind(a, createMapping(m)) = IF m = "workloadMapping" THEN {"agentMapping"} ELSE {}
           /\ Behind(a, replaceMapping(m)) = {m} \union IF m = "workloadMapping" THEN {"agentMapping"} ELSE {}
      /\ Behind(a, verifyTokenExchange) = Mappings
  BY CallFacts DEF Behind, Mappings
<1>4. CASE a = "jwtlet"
  <2>1. ASSUME NEW m \in Mappings, c = createMapping(m), s = "conflict"
        PROVE  /\ next = replaceMapping(m) /\ next \in DeployCalls(a)
               /\ Behind(a, next) \subseteq remote
    <3>1. m \in remote
      BY <2>1, AnswerIs, CallFacts DEF Mappings
    <3>2. next = replaceMapping(m)
      BY <1>2, <2>1, CallFacts DEF Mappings
    <3>3. QED
      BY <1>3, <1>4, <2>1, <3>1, <3>2 DEF DeployCalls, Mappings
  <2>2. ASSUME NEW m \in Mappings, c \in {createMapping(m), replaceMapping(m)}, s = "ok"
        PROVE  m \in Effect(c) /\ next = Following("deploy", a, c)
    <3>1. CASE c = createMapping(m)
      BY <1>2, <2>2, <3>1, DeployEffect, CallFacts DEF Mappings
    <3>2. CASE c = replaceMapping(m)
      <4>1. m \in remote
        BY <1>3, <3>2
      <4>2. QED
        BY <1>1, <1>2, <2>2, <3>2, <4>1, CallFacts DEF Mappings
    <3>3. QED
      BY <2>2, <3>1, <3>2
  <2>3. CASE c = verifyTokenExchange
    <3>1. s = "ok" /\ next = Result("complete")
      BY <1>2, <1>4, <2>3, DeployFollowing, CallFacts
    <3>2. QED
      BY <1>1, <1>3, <1>4, <2>3, <3>1, CallFacts, ResultsAre DEF Behind, Made, Resources, next
  <2>4. CASE c \in {createMapping("agentMapping"), replaceMapping("agentMapping")} /\ s = "ok"
    <3>1. next = createMapping("workloadMapping") /\ "agentMapping" \in Effect(c)
      BY <1>4, <2>2, <2>4, DeployFollowing, CallFacts DEF Mappings
    <3>2. QED
      BY <1>3, <1>4, <3>1, CallFacts, ResultsAre DEF DeployCalls, Mappings, next
  <2>5. CASE c \in {createMapping("workloadMapping"), replaceMapping("workloadMapping")} /\ s = "ok"
    <3>1. next = verifyTokenExchange /\ "workloadMapping" \in Effect(c)
      BY <1>4, <2>2, <2>5, DeployFollowing, CallFacts DEF Mappings
    <3>2. "agentMapping" \in remote
      BY <1>3, <2>5 DEF Mappings
    <3>3. QED
      BY <1>1, <1>3, <1>4, <3>1, <3>2, CallFacts, ResultsAre DEF DeployCalls, Mappings, next
  <2>6. CASE \E m \in Mappings : c = createMapping(m) /\ s = "conflict"
    BY <1>1, <2>1, <2>6, CallFacts, ResultsAre DEF next
  <2>7. /\ c \in {createMapping("agentMapping"), createMapping("workloadMapping")} => s \in {"ok", "conflict"}
        /\ c \in {replaceMapping("agentMapping"), replaceMapping("workloadMapping")} => s = "ok"
    BY CallFacts
  <2>8. QED
    BY <1>4, <2>3, <2>4, <2>5, <2>6, <2>7 DEF DeployCalls, Mappings
<1>5. CASE a = "edcv"
  <2>1. c \in {CreateParticipantContext, PatchConfig} \/ (extractProfiles /\ c = AssociateProfiles)
    BY <1>5 DEF DeployCalls
  <2>2. s = "ok" /\ next = Following("deploy", a, c) /\ c.resource \in Effect(c)
    BY <1>2, <2>1, DeployEffect, CallFacts
  <2>3. CASE c = CreateParticipantContext
    <3>1. next = PatchConfig
      BY <1>5, <2>2, <2>3, DeployFollowing, CallFacts
    <3>2. QED
      BY <1>5, <2>2, <2>3, <3>1, CallFacts, ResultsAre DEF DeployCalls, Behind, next
  <2>4. CASE c = PatchConfig
    <3>1. next = IF extractProfiles THEN AssociateProfiles ELSE Result("complete")
      BY <1>5, <2>2, <2>4, DeployFollowing, CallFacts
    <3>2. "context" \in remote
      BY <2>4, CallFacts DEF Behind
    <3>3. QED
      BY <1>1, <1>5, <2>2, <2>4, <3>1, <3>2, CallFacts, ResultsAre DEF DeployCalls, Behind, Made, next
  <2>5. CASE extractProfiles /\ c = AssociateProfiles
    <3>1. next = Result("complete")
      BY <1>5, <2>2, <2>5, DeployFollowing, CallFacts
    <3>2. {"context", "config"} \subseteq remote
      BY <2>5, CallFacts DEF Behind
    <3>3. QED
      BY <1>1, <1>5, <2>2, <2>5, <3>1, <3>2, CallFacts, ResultsAre DEF Behind, Made, next
  <2>6. QED
    BY <2>1, <2>3, <2>4, <2>5
<1>6. CASE a = "siglet"
  <2>1. \/ isSigletConfigurable /\ c \in {GetTransferTypeMapping, CreateTransferTypeMapping, ReplaceTransferTypeMapping}
        \/ extractMappings /\ c = RegisterDataPlane
    BY <1>6 DEF DeployCalls
  <2>2. isSigletConfigurable => extractMappings
    BY DEF isSigletConfigurable, extractMappings
  <2>3. CASE isSigletConfigurable /\ c = GetTransferTypeMapping
    <3>1. s \in {"ok", "notFound"}
      BY <2>3, CallFacts
    <3>2. s = "ok" => "transferTypes" \in remote
      BY <2>3, AnswerIs, CallFacts
    <3>3. QED
      BY <1>1, <1>2, <1>6, <2>3, <3>1, <3>2, CallFacts, ResultsAre DEF DeployCalls, Behind, next
  <2>4. CASE isSigletConfigurable /\ c \in {CreateTransferTypeMapping, ReplaceTransferTypeMapping}
    <3>1. s = "ok" /\ next = RegisterDataPlane
      BY <1>2, <1>6, <2>4, DeployFollowing, CallFacts
    <3>2. "transferTypes" \in Effect(c)
      <4>1. CASE c = CreateTransferTypeMapping
        BY <3>1, <4>1, DeployEffect, CallFacts
      <4>2. CASE c = ReplaceTransferTypeMapping
        BY <1>1, <4>2, CallFacts DEF Behind
      <4>3. QED
        BY <2>4, <4>1, <4>2
    <3>3. QED
      BY <1>6, <2>2, <2>4, <3>1, <3>2, CallFacts, ResultsAre DEF DeployCalls, Behind, next
  <2>5. CASE extractMappings /\ c = RegisterDataPlane
    <3>1. s = "ok" /\ next = Result("complete") /\ "dataPlane" \in Effect(c)
      BY <1>2, <1>6, <2>5, DeployFollowing, DeployEffect, CallFacts
    <3>2. isSigletConfigurable => "transferTypes" \in remote
      BY <2>5, CallFacts DEF Behind
    <3>3. QED
      BY <1>1, <1>6, <2>5, <3>1, <3>2, CallFacts, ResultsAre DEF Behind, Made, next
  <2>6. QED
    BY <2>1, <2>3, <2>4, <2>5
<1>7. CASE a \in {"certo", "ih", "registration"}
  <2>1. s = "ok" /\ next = Result("complete") /\ Resources(a) \subseteq Effect(c)
    BY <1>2, <1>7, DeployFollowing, DeployEffect, CallFacts DEF DeployCalls, Resources
  <2>2. QED
    BY <1>7, <2>1, CallFacts, ResultsAre DEF Behind, Made, next
<1>8. CASE a = "onboarding"
  <2>1. c.resource = "request" /\ s \in {"ok", "created", "issued", "error", "unknown"}
    BY <1>8, CallFacts DEF DeployCalls
  <2>2. s = "issued" => request = "issued"
    BY <1>8, CallFacts, AnswerIs DEF DeployCalls
  <2>3. next = CASE s \in {"ok", "created"} -> Result("schedule")
                 [] s = "issued" -> Result("complete")
                 [] s = "unknown" -> Result("retry")
                 [] OTHER -> Result("fatal")
    BY <1>2, <2>1 DEF AfterRequest
  <2>4. QED
    BY <1>1, <1>8, <2>1, <2>2, <2>3, CallFacts, ResultsAre DEF Behind, Made, Resources, next
<1>9. QED
  BY <1>4, <1>5, <1>6, <1>7, <1>8, ActivitiesAre

\* A disposing call only removes.
LEMMA DisposeEffect ==
  ASSUME NEW a \in Activities, NEW c \in DisposeCalls(a)
  PROVE  /\ c.method \in {"GET", "DELETE"}
         /\ c.resource \in Resources(a)
         /\ Requested(c) = request
         /\ Effect(c) = IF c.method = "DELETE" /\ Answer(c) = "ok" THEN remote \ Removed(c.resource) ELSE remote
<1>1. c.method \in {"GET", "DELETE"} /\ c.resource \in Resources(a)
  BY CallFacts, ActivitiesAre DEF DisposeCalls, Resources, Mappings
<1>2. c # RequestCredentials
  BY <1>1, CallFacts
<1>3. QED
  BY <1>1, <1>2 DEF Effect, Requested

\* Where a disposing attempt goes once it is done with the call c.
LEMMA DisposeFollows ==
  ASSUME NEW a \in Activities, NEW c \in DisposeCalls(a)
  PROVE  LET next == Following("dispose", a, c)
         IN  /\ next \in {Result("complete")} \union DisposeCalls(a)
             /\ c # QueryCredentialsByType =>
                  \A R : /\ Gone(a, c) \intersect R = {}
                         /\ Removed(c.resource) \intersect R = {}
                         => Gone(a, next) \intersect R = {}
             /\ c = QueryCredentialsByType => Gone(a, next) = {}
<1> DEFINE next == Following("dispose", a, c)
<1>1. CASE a = "jwtlet"
  <2>1. c \in {deleteMapping("agentMapping"), deleteMapping("workloadMapping")}
    BY <1>1 DEF DisposeCalls
  <2>2. next = IF c.resource = "agentMapping" THEN deleteMapping("workloadMapping") ELSE Result("complete")
    BY <1>1, <2>1, DisposeFollowing, CallFacts
  <2>3. QED
    BY <1>1, <2>1, <2>2, CallFacts DEF DisposeCalls, Gone, Removed, Resources, Mappings
<1>2. CASE a = "edcv"
  <2>1. c = DeleteParticipantContext /\ next = Result("complete")
    BY <1>2, DisposeFollowing, CallFacts DEF DisposeCalls
  <2>2. QED
    BY <1>2, <2>1, CallFacts DEF DisposeCalls, Gone, Removed, Resources
<1>3. CASE a = "siglet"
  <2>1. c \in {DeleteTransferTypeMapping, UnregisterDataPlane}
    BY <1>3 DEF DisposeCalls
  <2>2. next = IF c.resource = "transferTypes" THEN UnregisterDataPlane ELSE Result("complete")
    BY <1>3, <2>1, DisposeFollowing, CallFacts
  <2>3. QED
    BY <1>3, <2>1, <2>2, CallFacts DEF DisposeCalls, Gone, Removed, Resources
<1>4. CASE a \in {"certo", "ih", "registration"}
  <2>1. Resources(a) = {c.resource} /\ c.resource # "context" /\ next = Result("complete")
    BY <1>4, DisposeFollowing, CallFacts DEF DisposeCalls, Resources
  <2>2. QED
    BY <1>4, <2>1, CallFacts DEF DisposeCalls, Gone, Removed
<1>5. CASE a = "onboarding"
  <2>1. c \in {QueryCredentialsByType, RevokeCredential}
    BY <1>5 DEF DisposeCalls
  <2>2. next = IF c = QueryCredentialsByType THEN RevokeCredential ELSE Result("complete")
    BY <2>1, <1>5, OnboardingFollowing, CallFacts
  <2>3. QED
    BY <1>5, <2>1, <2>2, CallFacts DEF DisposeCalls, Gone, Removed, Resources
<1>6. QED
  BY <1>1, <1>2, <1>3, <1>4, <1>5, ActivitiesAre

\* What an answer to a disposing call is followed by, whatever exists.
LEMMA DisposeNext ==
  ASSUME NEW a \in Activities, NEW c \in DisposeCalls(a), NEW s \in c.accepted
  PROVE  Accepted("dispose", a, c, s) \in {Result("complete")} \union DisposeCalls(a)
<1>1. /\ c.resource # "request" /\ c # GetTransferTypeMapping /\ s \in {"ok", "notFound"}
  BY CallFacts, ActivitiesAre DEF DisposeCalls
<1>2. Accepted("dispose", a, c, s) \in {Result("complete"), Following("dispose", a, c)}
  BY <1>1 DEF Accepted
<1>3. QED
  BY <1>2, DisposeFollows

\* A disposing call that is answered as it should leaves nothing of what it was
\* to remove ...
LEMMA DisposeAccepted ==
  ASSUME NEW a \in Activities, NEW c \in DisposeCalls(a), Answer(c) \in c.accepted,
         Gone(a, c) \intersect remote \subseteq leftover
  PROVE  LET next == Accepted("dispose", a, c, Answer(c))
         IN  /\ next \in {Result("complete")} \union DisposeCalls(a)
             /\ Gone(a, next) \intersect Effect(c) \subseteq leftover
<1> DEFINE s == Answer(c)
           next == Accepted("dispose", a, c, s)
           R == Effect(c) \ leftover
<1>1. /\ c.resource # "request" /\ c # GetTransferTypeMapping /\ s \in {"ok", "notFound"}
      /\ s = "notFound" => c.resource # "context"
  BY CallFacts, ActivitiesAre DEF DisposeCalls
<1>2. next = IF c = QueryCredentialsByType /\ s = "notFound" THEN Result("complete")
             ELSE Following("dispose", a, c)
  BY <1>1 DEF Accepted
<1>3. s = "notFound" => c.resource \notin remote
  BY <1>1, AnswerIs, DisposeEffect
<1> HIDE DEF s
<1>4. CASE c = QueryCredentialsByType
  <2>1. a = "onboarding" /\ c.resource = "credential"
    BY <1>4, CallFacts, ActivitiesAre DEF DisposeCalls
  <2>2. Effect(c) = remote
    BY <1>4, DisposeEffect, CallFacts
  <2>3. CASE s = "notFound"
    <3>1. next = Result("complete")
      BY <1>2, <1>4, <2>3
    <3>2. Gone(a, Result("complete")) = {"credential"}
      BY <2>1, CallFacts DEF Gone, Resources
    <3>3. QED
      BY <1>3, <2>1, <2>2, <2>3, <3>1, <3>2 DEF s
  <2>4. CASE s # "notFound"
    <3>1. next = Following("dispose", a, c) /\ Gone(a, next) = {}
      BY <1>2, <1>4, <2>4, DisposeFollows
    <3>2. QED
      BY <3>1, DisposeFollows DEF s
  <2>5. QED
    BY <2>3, <2>4
<1>5. CASE c # QueryCredentialsByType
  <2>1. c.method = "DELETE"
    BY <1>5, CallFacts, ActivitiesAre DEF DisposeCalls
  <2>2. Removed(c.resource) \intersect R = {}
    <3>1. CASE s = "ok"
      BY <2>1, <3>1, DisposeEffect DEF s
    <3>2. CASE s = "notFound"
      BY <1>1, <1>3, <3>2, DisposeEffect DEF s, Removed
    <3>3. QED
      BY <1>1, <3>1, <3>2
  <2>3. Gone(a, c) \intersect R = {}
    BY DisposeEffect
  <2>4. next = Following("dispose", a, c)
    BY <1>2, <1>5
  <2> HIDE DEF R, next
  <2>5. next \in {Result("complete")} \union DisposeCalls(a) /\ Gone(a, next) \intersect R = {}
    BY <1>5, <2>2, <2>3, <2>4, DisposeFollows
  <2>6. QED
    BY <2>5 DEF R, next, s
<1>6. QED
  BY <1>4, <1>5

\* ... and one that failed and is only logged has that in the log.
LEMMA DisposeLogged ==
  ASSUME NEW a \in {"edcv", "siglet", "certo", "ih"}, NEW c \in DisposeCalls(a),
         NEW s, s = "notFound" => Answer(c) = "notFound",
         ContextFirst, Gone(a, c) \intersect remote \subseteq leftover
  PROVE  \A r \in {remote, Effect(c)} :
           Gone(a, Following("dispose", a, c)) \intersect r \subseteq
             leftover \union (IF s = "notFound" THEN {} ELSE Removed(c.resource))
<1> TAKE r \in {remote, Effect(c)}
<1> DEFINE l == leftover \union (IF s = "notFound" THEN {} ELSE Removed(c.resource))
<1>1. a \in Activities /\ c # QueryCredentialsByType
  BY ActivitiesAre, CallFacts DEF DisposeCalls
<1>2. r \subseteq remote
  BY <1>1, DisposeEffect
<1>3. c.resource \in {"context", "transferTypes", "dataPlane", "certo", "identity"} /\ c.method = "DELETE"
  BY CallFacts DEF DisposeCalls
<1>4. Removed(c.resource) \intersect (r \ l) = {}
  <2>1. CASE s = "notFound"
    <3>1. c.resource \notin remote
      BY <1>3, <2>1, AnswerIs
    <3>2. QED
      BY <1>2, <3>1 DEF Removed, ContextFirst
  <2>2. CASE s # "notFound"
    BY <2>2
  <2>3. QED
    BY <2>1, <2>2
<1>5. Gone(a, c) \intersect (r \ l) = {}
  BY <1>2
<1>6. /\ Following("dispose", a, c) \in {Result("complete")} \union DisposeCalls(a)
      /\ Gone(a, Following("dispose", a, c)) \intersect (r \ l) = {}
  BY <1>1, <1>4, <1>5, DisposeFollows
<1>7. QED
  BY <1>6

\* The calls of jwtlet's activities are answered as they should, unless the
\* disposal has removed what the deployment created.
LEMMA JwtletAccepted ==
  /\ \A c \in DeployCalls("jwtlet") : Behind("jwtlet", c) \subseteq remote => Answer(c) \in c.accepted
  /\ \A c \in DisposeCalls("jwtlet") : Answer(c) \in c.accepted
<1>1. ASSUME NEW m \in Mappings
      PROVE  /\ Answer(createMapping(m)) \in {"ok", "conflict"}
             /\ Answer(deleteMapping(m)) \in {"ok", "notFound"}
             /\ m \in remote => Answer(replaceMapping(m)) = "ok"
  BY AnswerIs, CallFacts DEF Mappings
<1>2. "agentMapping" \in remote => Answer(verifyTokenExchange) = "ok"
  BY AnswerIs, CallFacts
<1>3. ASSUME NEW m \in Mappings
      PROVE  m \in Behind("jwtlet", replaceMapping(m))
  BY CallFacts DEF Behind
<1>4. "agentMapping" \in Behind("jwtlet", verifyTokenExchange)
  BY CallFacts DEF Behind, Mappings
<1>5. QED
  BY <1>1, <1>2, <1>3, <1>4, CallFacts DEF DeployCalls, DisposeCalls, Mappings

-----------------------------------------------------------------------------
\* What a step keeps.

\* The attempt goes on with next, the others stay where they are.
Moves(o, a, w, next) ==
  /\ DOMAIN pc' = Attempts
  /\ \A p \in Orchestrations, b \in Activities, v \in Workers :
       pc'[<<p, b, v>>] = IF p = o /\ b = a /\ v = w THEN next ELSE pc[<<p, b, v>>]

\* Proceed moves one attempt.
LEMMA PcMoves ==
  ASSUME DOMAIN pc = Attempts, NEW o \in Orchestrations, NEW a \in Activities, NEW w \in Workers,
         NEW next, Proceed(<<o, a, w>>, next)
  PROVE  Moves(o, a, w, next)
<1>1. \A p \in Orchestrations, b \in Activities, v \in Workers : <<p, b, v>> \in Attempts
  BY DEF Attempts
<1>2. QED
  BY <1>1 DEF Proceed, Moves

\* An attempt that goes on from one call to the next, or to a result, keeps the
\* invariant if a deployment leaves what it has passed and a disposal does not.
LEMMA AttemptStep ==
  ASSUME SInv, NEW o \in Orchestrations, NEW a \in Activities, NEW w \in Workers,
         NEW next, next \in Results \union Calls(o, a),
         next # Idle => /\ a \in plan \union {"jwtlet"} /\ orch[o] # "none"
                        /\ o = "deploy" /\ a # "jwtlet" => "participantContextId" \in data,
         Moves(o, a, w, next),
         UNCHANGED <<engine, data, overlap>>,
         blame \subseteq blame', leftover \subseteq leftover',
         request' \in {request, "created"},
         request' # request => o = "deploy" /\ a = "onboarding" /\ a \in plan,
         o = "deploy" =>
           /\ orch["dispose"] = "none" \/ overlap
           /\ remote \subseteq remote' /\ remote' \subseteq remote \union Resources(a)
           /\ a \in plan \union {"jwtlet"}
           /\ Behind(a, next) \subseteq remote' \/ orch["dispose"] # "none"
           /\ ContextFirst' \/ overlap,
         o = "dispose" =>
           /\ orch["dispose"] # "none" /\ remote' \subseteq remote
           /\ Gone(a, next) \intersect remote' \subseteq leftover' \/ overlap
           /\ ContextFirst' \/ overlap
  PROVE  SInv'
<1> DEFINE known == "participantContextId" \in data
<1> USE DEF engine, Moves
<1>1. TypeOK'
  BY DEF SInv, TypeOK
<1>2. /\ plan' = plan /\ input' = input /\ orch' = orch /\ done' = done /\ data' = data
      /\ overlap' = overlap
  OBVIOUS
<1>3. PcOK'
  <2>1. ASSUME NEW p \in Orchestrations, NEW b \in Activities
        PROVE  Calls(p, b)' = Calls(p, b)
    BY <1>2 DEF Calls, DeployCalls, extractProfiles, extractMappings, isSigletConfigurable, DisposeCalls
  <2>2. SUFFICES ASSUME NEW p \in Orchestrations, NEW b \in Activities, NEW v \in Workers
                 PROVE  pc'[<<p, b, v>>] \in Results \union Calls(p, b)'
    BY DEF PcOK, Results
  <2>3. pc'[<<p, b, v>>] = IF p = o /\ b = a /\ v = w THEN next ELSE pc[<<p, b, v>>]
    OBVIOUS
  <2>4. pc[<<p, b, v>>] \in Results \union Calls(p, b)
    BY DEF SInv, PcOK
  <2>5. pc'[<<p, b, v>>] \in Results \union Calls(p, b)
    BY ONLY <2>3, <2>4, next \in Results \union Calls(o, a)
  <2>6. QED
    BY ONLY <2>1, <2>5
<1>4. EngineOK'
  BY <1>2 DEF SInv, EngineOK, Running
<1>5. IDHandedOn'
  BY <1>2 DEF SInv, IDHandedOn, Running, Orchestrations
<1>6. Deploying'
  <2>1. SUFFICES ASSUME orch["dispose"] = "none" PROVE Deploying'
    BY <1>2 DEF Deploying
  <2>2. o = "deploy" /\ remote \subseteq remote'
    BY <2>1 DEF Orchestrations
  <2>3. ASSUME NEW b, NEW c
        PROVE  Made(b)' = Made(b) /\ Behind(b, c)' = Behind(b, c)
    BY <1>2 DEF Made, Behind, extractProfiles, extractMappings, isSigletConfigurable
  <2>4. ASSUME NEW b \in Activities, NEW v \in Workers
        PROVE  Behind(b, pc[<<"deploy", b, v>>])' \subseteq remote'
    <3>1. Behind(b, pc[<<"deploy", b, v>>])' = Behind(b, pc'[<<"deploy", b, v>>])
      BY <1>2 DEF Made, Behind, extractProfiles, extractMappings, isSigletConfigurable
    <3>2. QED
      BY <2>1, <2>2, <3>1 DEF SInv, Deploying, Orchestrations
  <2>5. ASSUME NEW b \in done["deploy"]
        PROVE  Made(b)' \subseteq remote'
    BY <2>1, <2>2, <2>3 DEF SInv, Deploying
  <2>6. request' = "issued" => "credential" \in remote'
    BY <2>1, <2>2 DEF SInv, Deploying
  <2>7. QED
    BY <1>2, <2>4, <2>5, <2>6 DEF Deploying
<1>7. OwnedOK'
  BY <1>2 DEF SInv, OwnedOK, Orchestrations
<1>8. Disposing'
  <2>1. SUFFICES ASSUME ~overlap PROVE Disposing'
    BY <1>2 DEF Disposing
  <2>2. ContextFirst'
    BY <2>1 DEF Orchestrations
  <2>3. SUFFICES ASSUME orch["dispose"] # "none"
                 PROVE  /\ \A b \in Activities, v \in Workers : pc'[<<"deploy", b, v>>] = Idle
                        /\ request' \notin {"created", "unknown"}
                        /\ \A b \in Activities, v \in Workers :
                             Gone(b, pc'[<<"dispose", b, v>>]) \intersect remote' \subseteq leftover'
                        /\ \A b \in done["dispose"] : Resources(b) \intersect remote' \subseteq leftover'
    BY <1>2, <2>2 DEF Disposing, Gone, Idle
  <2>4. o = "dispose" /\ request' = request /\ remote' \subseteq remote
    BY <2>1, <2>3 DEF Orchestrations
  <2>5. QED
    BY <2>1, <2>3, <2>4 DEF SInv, Disposing, Orchestrations
<1>9. QED
  BY <1>1, <1>3, <1>4, <1>5, <1>6, <1>7, <1>8 DEF SInv

\* An attempt that runs is one of the plan, at work for an orchestration that has
\* begun; nothing of the deployment runs beside the disposal unless it overlaps.
LEMMA RunningFacts ==
  ASSUME SInv, NEW o \in Orchestrations, NEW a \in Activities, NEW w \in Workers, Running(<<o, a, w>>)
  PROVE  /\ a \in plan \union {"jwtlet"} /\ orch[o] # "none"
         /\ o = "deploy" /\ a # "jwtlet" => "participantContextId" \in data
         /\ o = "deploy" => orch["dispose"] = "none" \/ overlap
         /\ AtWork(<<o, a, w>>) => pc[<<o, a, w>>] \in Calls(o, a)
         /\ ~AtWork(<<o, a, w>>) => pc[<<o, a, w>>] \in Results
<1>1. ASSUME NEW c \in Results
      PROVE  c.method = "none"
  BY CallFacts, ResultsAre
<1>2. ASSUME NEW c \in Calls(o, a)
      PROVE  c.method # "none"
  BY DeployEffect, DisposeEffect DEF Calls, Orchestrations
<1>3. QED
  BY <1>1, <1>2 DEF SInv, PcOK, EngineOK, IDHandedOn, Disposing, Running, AtWork

\* The context precedes the config and the profiles and is removed with them.
LEMMA ContextKept ==
  ASSUME NEW o \in Orchestrations, NEW a \in Activities, NEW c \in Calls(o, a), ContextFirst,
         o = "deploy" => Behind(a, c) \subseteq remote
  PROVE  {"config", "profiles"} \intersect Effect(c) # {} => "context" \in Effect(c)
<1>1. CASE o = "deploy"
  <2>1. c \in DeployCalls(a)
    BY <1>1 DEF Calls
  <2>2. Effect(c) \subseteq remote \union {c.resource} /\ remote \subseteq Effect(c)
    BY <2>1, DeployEffect DEF Effect
  <2>3. c.resource \in {"config", "profiles"} => "context" \in Behind(a, c)
    BY <2>1, DeployEffect, CallFacts DEF Behind
  <2>4. QED
    BY <1>1, <2>2, <2>3 DEF ContextFirst
<1>2. CASE o = "dispose"
  <2>1. c \in DisposeCalls(a) /\ c.resource \in Resources(a)
    BY <1>2, DisposeEffect DEF Calls, Orchestrations
  <2>2. Effect(c) = remote \/ Effect(c) = remote \ Removed(c.resource)
    BY <2>1, DisposeEffect
  <2>3. QED
    BY <2>2 DEF ContextFirst, Removed
<1>3. QED
  BY <1>1, <1>2 DEF Orchestrations

\* The attempt t runs on, whatever has become of the call it was at.
LEMMA CallStep ==
  ASSUME SInv, NEW o \in Orchestrations, NEW a \in Activities, NEW w \in Workers,
         AtWork(<<o, a, w>>), UNCHANGED <<engine, data, overlap>>,
         NEW c, c = pc[<<o, a, w>>],
         NEW next, next \in Results \union Calls(o, a), Moves(o, a, w, next),
         blame \subseteq blame', leftover \subseteq leftover',
         remote' \in {remote, Effect(c)},
         request' \in {request, Requested(c)},
         o = "deploy" => Behind(a, next) \subseteq remote' \/ orch["dispose"] # "none",
         o = "dispose" => Gone(a, next) \intersect remote' \subseteq leftover' \/ overlap
  PROVE  SInv'
<1>1. Running(<<o, a, w>>)
  BY CallFacts DEF Running, AtWork, Idle
<1>2. /\ c \in Calls(o, a) /\ a \in plan \union {"jwtlet"} /\ orch[o] # "none"
      /\ o = "deploy" /\ a # "jwtlet" => "participantContextId" \in data
      /\ o = "deploy" => orch["dispose"] = "none" \/ overlap
  BY <1>1, RunningFacts
<1>3. o = "deploy" =>
        /\ remote \subseteq remote' /\ remote' \subseteq remote \union Resources(a)
        /\ request' \in {request, "created"}
        /\ request' # request => a = "onboarding"
  BY <1>2, DeployEffect DEF Calls
<1>4. o = "dispose" => remote' \subseteq remote /\ request' = request
  BY <1>2, DisposeEffect DEF Calls
<1>5. o = "deploy" => Behind(a, c) \subseteq remote \/ overlap
  BY <1>2 DEF SInv, Deploying
<1>6. ContextFirst' \/ overlap
  <2>1. SUFFICES ASSUME ~overlap PROVE ContextFirst'
    OBVIOUS
  <2>2. ContextFirst
    BY <2>1 DEF SInv, Disposing
  <2>3. {"config", "profiles"} \intersect Effect(c) # {} => "context" \in Effect(c)
    BY <1>2, <1>5, <2>1, <2>2, ContextKept
  <2>4. QED
    BY <2>2, <2>3 DEF ContextFirst
<1>7. /\ request' \in {request, "created"}
      /\ request' # request => o = "deploy" /\ a = "onboarding" /\ a \in plan
  BY <1>2, <1>3, <1>4 DEF Orchestrations
<1>8. QED
  BY <1>2, <1>3, <1>4, <1>6, <1>7, AttemptStep

-----------------------------------------------------------------------------
\* The actions.

\* A worker takes a message ...
LEMMA BeginKeeps ==
  ASSUME SInv, NEW o \in Orchestrations, NEW a \in Activities, NEW w \in Workers, Begin(o, a, w)
  PROVE  SInv'
<1> DEFINE next == First(o, a)
<1>1. /\ Enqueued(o, a)
      /\ UNCHANGED <<engine, data, overlap, remote, request, leftover>>
      /\ Proceed(<<o, a, w>>, next) /\ blame \subseteq blame'
  BY DEF Begin
<1>2. /\ next \in Results \union Calls(o, a)
      /\ o = "deploy" => Behind(a, next) = {}
      /\ o = "dispose" => Gone(a, next) = {}
  BY Begins
<1>3. /\ a \in plan \union {"jwtlet"} /\ orch[o] = "running"
      /\ o = "deploy" /\ a # "jwtlet" => "participantContextId" \in data
  BY <1>1 DEF Enqueued, SInv, IDHandedOn
<1>4. o = "deploy" => orch["dispose"] = "none"
  BY <1>3 DEF SInv, EngineOK
<1>5. ContextFirst' \/ overlap
  BY <1>1 DEF SInv, Disposing, ContextFirst
<1> HIDE DEF next
<1>6. Moves(o, a, w, next)
  BY <1>1, PcMoves DEF SInv, TypeOK
<1>7. /\ request' = request /\ remote' = remote /\ leftover' = leftover
      /\ UNCHANGED <<engine, data, overlap>>
  BY <1>1
<1>8. QED
  BY <1>1, <1>2, <1>3, <1>4, <1>5, <1>6, <1>7, AttemptStep

\* ... dies with the attempt unfinished ...
LEMMA CrashKeeps ==
  ASSUME SInv, NEW o \in Orchestrations, NEW a \in Activities, NEW w \in Workers, Crash(o, a, w)
  PROVE  SInv'
<1>1. /\ Running(<<o, a, w>>) /\ Proceed(<<o, a, w>>, Idle)
      /\ UNCHANGED <<engine, data, overlap>>
      /\ request' = request /\ remote' = remote /\ leftover' = leftover /\ blame' = blame
  BY DEF Crash, history
<1>2. /\ a \in plan \union {"jwtlet"} /\ orch[o] # "none"
      /\ o = "deploy" => orch["dispose"] = "none" \/ overlap
  BY <1>1, RunningFacts
<1>3. Idle \in Results /\ Behind(a, Idle) = {} /\ Gone(a, Idle) = {}
  BY CallFacts, ResultsAre DEF Idle, Behind, Gone
<1>4. ContextFirst' \/ overlap
  BY <1>1 DEF SInv, Disposing, ContextFirst
<1>5. Moves(o, a, w, Idle)
  BY <1>1, PcMoves DEF SInv, TypeOK
<1>6. QED
  BY <1>1, <1>2, <1>3, <1>4, <1>5, AttemptStep

\* ... or repeats a call whose answer the client retries.
LEMMA RetryKeeps ==
  ASSUME SInv, NEW o \in Orchestrations, NEW a \in Activities, NEW w \in Workers,
         customCheckRetry(o, a, w)
  PROVE  SInv'
<1>0. PICK c : c = pc[<<o, a, w>>]
  OBVIOUS
<1>1. /\ AtWork(<<o, a, w>>) /\ remote' = Effect(c)
      /\ UNCHANGED <<engine, data, overlap>>
      /\ request' = request /\ leftover' = leftover /\ blame' = blame /\ pc' = pc
  BY <1>0 DEF customCheckRetry, history
<1>2. Running(<<o, a, w>>)
  BY <1>1, CallFacts DEF Running, AtWork, Idle
<1>3. c \in Calls(o, a)
  BY <1>0, <1>1, <1>2, RunningFacts
<1>4. o = "deploy" => Behind(a, c) \subseteq remote' \/ orch["dispose"] # "none"
  BY <1>0, <1>1, <1>3, DeployEffect DEF SInv, Deploying, Calls
<1>5. o = "dispose" => Gone(a, c) \intersect remote' \subseteq leftover' \/ overlap
  <2>1. SUFFICES ASSUME o = "dispose", ~overlap PROVE Gone(a, c) \intersect remote' \subseteq leftover'
    OBVIOUS
  <2>2. orch["dispose"] # "none"
    BY <1>2, <2>1, RunningFacts
  <2>3. Gone(a, c) \intersect remote \subseteq leftover
    BY <1>0, <2>1, <2>2 DEF SInv, Disposing
  <2>4. remote' \subseteq remote
    BY <1>1, <1>3, <2>1, DisposeEffect DEF Calls
  <2>5. QED
    BY <1>1, <2>3, <2>4
<1>6. Moves(o, a, w, c)
  BY <1>0, <1>1 DEF SInv, TypeOK, Moves
<1>7. remote' \in {remote, Effect(c)} /\ request' \in {request, Requested(c)}
  BY <1>1
<1>8. QED
  BY <1>0, <1>1, <1>3, <1>4, <1>5, <1>6, <1>7, CallStep

\* A call that failed: its attempt fails, is retried, or goes on with a log.
LEMMA FailedKeeps ==
  ASSUME SInv, NEW o \in Orchestrations, NEW a \in Activities, NEW w \in Workers,
         AtWork(<<o, a, w>>), UNCHANGED <<engine, data, overlap>>,
         NEW c, c = pc[<<o, a, w>>], NEW s, s = "notFound" => Answer(c) = "notFound",
         remote' \in {remote, Effect(c)}, request' \in {request, Requested(c)}, Failed(o, a, w, c, s)
  PROVE  SInv'
<1>1. Running(<<o, a, w>>)
  BY CallFacts DEF Running, AtWork, Idle
<1>2. c \in Calls(o, a) /\ (o = "dispose" => orch["dispose"] # "none")
  BY <1>1, RunningFacts
<1>3. ASSUME NEW next, next \in Results \union Calls(o, a), Proceed(<<o, a, w>>, next),
             blame \subseteq blame', leftover \subseteq leftover',
             o = "deploy" => Behind(a, next) \subseteq remote',
             o = "dispose" => Gone(a, next) \intersect remote' \subseteq leftover' \/ overlap
      PROVE  SInv'
  <2>1. Moves(o, a, w, next)
    BY <1>3, PcMoves DEF SInv, TypeOK
  <2>2. QED
    BY <1>3, <2>1, CallStep
<1>4. CASE /\ LogsErrors(o, a)
           /\ Proceed(<<o, a, w>>, Following(o, a, c))
           /\ leftover' = leftover \union (IF s = "notFound" THEN {} ELSE Removed(c.resource))
           /\ UNCHANGED blame
  <2>1. o = "dispose" /\ a \in {"edcv", "siglet", "certo", "ih"} /\ c \in DisposeCalls(a)
    BY <1>2, <1>4 DEF LogsErrors, Calls
  <2>2. ASSUME ~overlap
        PROVE  ContextFirst /\ Gone(a, c) \intersect remote \subseteq leftover
    BY <1>2, <2>1, <2>2 DEF SInv, Disposing
  <2>3. Following(o, a, c) \in Results \union Calls(o, a)
    BY <2>1, DisposeFollows, ResultsAre DEF Calls
  <2>4. Gone(a, Following(o, a, c)) \intersect remote' \subseteq leftover' \/ overlap
    <3>1. SUFFICES ASSUME ~overlap PROVE Gone(a, Following(o, a, c)) \intersect remote' \subseteq leftover'
      OBVIOUS
    <3>2. ContextFirst /\ Gone(a, c) \intersect remote \subseteq leftover
      BY <2>2, <3>1
    <3>3. Gone(a, Following("dispose", a, c)) \intersect remote' \subseteq leftover'
      BY ONLY <1>4, <2>1, <3>2, remote' \in {remote, Effect(c)}, s = "notFound" => Answer(c) = "notFound",
              DisposeLogged
    <3>4. QED
      BY <2>1, <3>3
  <2>5. leftover \subseteq leftover' /\ blame \subseteq blame'
    BY <1>4
  <2>6. QED
    BY <1>3, <1>4, <2>1, <2>3, <2>4, <2>5
<1>5. CASE /\ Proceed(<<o, a, w>>, Result("fatal"))
           /\ blame' = blame \union {<<o, a, s>>}
           /\ UNCHANGED leftover
  <2>1. /\ Result("fatal") \in Results /\ Behind(a, Result("fatal")) = {}
        /\ Gone(a, Result("fatal")) = {}
    BY CallFacts, ResultsAre DEF Behind, Gone
  <2>2. QED
    BY <1>3, <1>5, <2>1
<1>6. CASE Proceed(<<o, a, w>>, Result("retry")) /\ UNCHANGED <<blame, leftover>>
  <2>1. /\ Result("retry") \in Results /\ Behind(a, Result("retry")) = {}
        /\ Gone(a, Result("retry")) = {}
    BY CallFacts, ResultsAre DEF Behind, Gone
  <2>2. QED
    BY <1>3, <1>6, <2>1
<1>7. QED
  BY <1>4, <1>5, <1>6 DEF Failed

\* A call that is answered.
LEMMA ReplyKeeps ==
  ASSUME SInv, NEW o \in Orchestrations, NEW a \in Activities, NEW w \in Workers, Reply(o, a, w)
  PROVE  SInv'
<1>0. PICK c : c = pc[<<o, a, w>>]
  OBVIOUS
<1> DEFINE s == Answer(c)
<1>1. /\ AtWork(<<o, a, w>>) /\ remote' = Effect(c) /\ request' = Requested(c)
      /\ UNCHANGED <<engine, data, overlap>>
  BY <1>0 DEF Reply
<1>2. CASE s \notin c.accepted
  <2>1. Failed(o, a, w, c, s)
    BY <1>0, <1>2 DEF Reply
  <2>2. QED
    BY <1>0, <1>1, <2>1, FailedKeeps
<1>3. CASE s \in c.accepted
  <2>0. PICK next : next = Accepted(o, a, c, s)
    OBVIOUS
  <2>1. Proceed(<<o, a, w>>, next) /\ blame \subseteq blame' /\ leftover' = leftover
    BY <1>0, <1>3, <2>0 DEF Reply
  <2>2. Running(<<o, a, w>>)
    BY <1>1, CallFacts DEF Running, AtWork, Idle
  <2>3. c \in Calls(o, a) /\ (o = "dispose" => orch["dispose"] # "none")
    BY <1>0, <1>1, <2>2, RunningFacts
  <2>4. Moves(o, a, w, next)
    BY <2>1, PcMoves DEF SInv, TypeOK
  <2>5. CASE o = "deploy" /\ orch["dispose"] = "none"
    <3>1. Behind(a, c) \subseteq remote /\ (request = "issued" => "credential" \in remote)
      BY <1>0, <2>5 DEF SInv, Deploying
    <3>2. next \in Results \union Calls(o, a) /\ Behind(a, next) \subseteq remote'
      BY <1>1, <1>3, <2>0, <2>3, <2>5, <3>1, DeployAccepted DEF Calls
    <3>3. QED
      BY <1>0, <1>1, <2>1, <2>4, <2>5, <3>2, CallStep
  <2>6. CASE o = "deploy" /\ orch["dispose"] # "none"
    <3>1. next \in Results \union Calls(o, a)
      BY <1>3, <2>0, <2>3, <2>6, DeployNext DEF Calls
    <3>2. QED
      BY <1>0, <1>1, <2>1, <2>4, <2>6, <3>1, CallStep
  <2>7. CASE o = "dispose" /\ ~overlap
    <3>1. Gone(a, c) \intersect remote \subseteq leftover
      BY <1>0, <2>3, <2>7 DEF SInv, Disposing
    <3>2. /\ next \in {Result("complete")} \union DisposeCalls(a)
          /\ Gone(a, next) \intersect remote' \subseteq leftover'
      BY <1>1, <1>3, <2>0, <2>1, <2>3, <2>7, <3>1, DisposeAccepted DEF Calls
    <3>3. next \in Results \union Calls(o, a)
      BY <2>7, <3>2, ResultsAre DEF Calls
    <3>4. QED
      BY <1>0, <1>1, <2>1, <2>4, <2>7, <3>2, <3>3, CallStep
  <2>8. CASE o = "dispose" /\ overlap
    <3>1. next \in Results \union Calls(o, a)
      BY <1>3, <2>0, <2>3, <2>8, DisposeNext, ResultsAre DEF Calls
    <3>2. QED
      BY <1>0, <1>1, <2>1, <2>4, <2>8, <3>1, CallStep
  <2>9. QED
    BY <2>5, <2>6, <2>7, <2>8 DEF Orchestrations
<1>4. QED
  BY <1>2, <1>3

\* The executor records the result of an attempt.
LEMMA SettleKeeps ==
  ASSUME SInv, NEW o \in Orchestrations, NEW a \in Activities, NEW w \in Workers, Settle(o, a, w)
  PROVE  SInv'
<1>0. PICK r : r = pc[<<o, a, w>>].resource
  OBVIOUS
<1>1. /\ Running(<<o, a, w>>) /\ ~AtWork(<<o, a, w>>) /\ Proceed(<<o, a, w>>, Idle)
      /\ data' = data \union (IF o = "deploy" THEN Stored(a, r) ELSE {})
      /\ done' = IF r = "complete" THEN [done EXCEPT ![o] = @ \union {a}] ELSE done
      /\ plan' = plan /\ input' = input /\ remote' = remote /\ request' = request
      /\ leftover' = leftover /\ blame' = blame /\ overlap' = overlap
  BY <1>0 DEF Settle, history
<1>2. orch' = [orch EXCEPT ![o] =
                 CASE r = "fatal" -> "errored"
                   [] r # "fatal" /\ @ = "running" /\ plan \union {"jwtlet"} \subseteq done'[o] -> "completed"
                   [] OTHER -> @]
  BY <1>0 DEF Settle
<1>3. Moves(o, a, w, Idle)
  BY <1>1, PcMoves DEF SInv, TypeOK
<1>4. /\ a \in plan \union {"jwtlet"} /\ orch[o] # "none"
      /\ o = "deploy" /\ a # "jwtlet" => "participantContextId" \in data
      /\ o = "deploy" => orch["dispose"] = "none" \/ overlap
      /\ pc[<<o, a, w>>] \in Results
  BY <1>1, RunningFacts
<1>5. r = "complete" => pc[<<o, a, w>>] = Result("complete")
  <2>1. \A x : Result(x).resource = x
    BY CallFacts
  <2>2. PICK x : pc[<<o, a, w>>] = Result(x)
    BY <1>4, ResultsAre
  <2>3. x = r
    BY <1>0, <2>1, <2>2
  <2>4. QED
    BY <2>2, <2>3
<1>6. /\ DOMAIN orch' = Orchestrations
      /\ \A p \in Orchestrations : p # o => orch'[p] = orch[p]
      /\ orch'[o] \in {"errored", "completed", orch[o]}
      /\ orch'[o] = "completed" /\ orch[o] # "completed" => plan \union {"jwtlet"} \subseteq done'[o]
      /\ orch' \in [Orchestrations -> {"none", "running", "completed", "errored"}]
  BY <1>2 DEF SInv, TypeOK
<1>7. /\ DOMAIN done' = Orchestrations
      /\ done' \in [Orchestrations -> SUBSET Activities]
      /\ \A p \in Orchestrations : p # o => done'[p] = done[p]
      /\ done'[o] = IF r = "complete" THEN done[o] \union {a} ELSE done[o]
  BY <1>1 DEF SInv, TypeOK
<1>8. TypeOK'
  BY <1>1, <1>3, <1>6, <1>7 DEF SInv, TypeOK, Moves
<1>9. PcOK'
  <2>1. ASSUME NEW p \in Orchestrations, NEW b \in Activities
        PROVE  Calls(p, b)' = Calls(p, b)
    BY <1>1 DEF Calls, DeployCalls, extractProfiles, extractMappings, isSigletConfigurable, DisposeCalls
  <2>2. SUFFICES ASSUME NEW p \in Orchestrations, NEW b \in Activities, NEW v \in Workers
                 PROVE  pc'[<<p, b, v>>] \in Results \union Calls(p, b)'
    BY DEF PcOK, Results
  <2>3. pc'[<<p, b, v>>] = IF p = o /\ b = a /\ v = w THEN Idle ELSE pc[<<p, b, v>>]
    BY <1>3 DEF Moves
  <2>4. pc[<<p, b, v>>] \in Results \union Calls(p, b) /\ Idle \in Results
    BY ResultsAre DEF SInv, PcOK, Idle
  <2>5. pc'[<<p, b, v>>] \in Results \union Calls(p, b)
    BY ONLY <2>3, <2>4
  <2>6. QED
    BY ONLY <2>1, <2>5
<1>10. EngineOK'
  <2>1. orch'["deploy"] # "none"
    BY <1>6 DEF SInv, EngineOK, Orchestrations
  <2>2. orch'["dispose"] # "none" => orch'["deploy"] # "running"
    BY <1>4, <1>6 DEF SInv, EngineOK, Orchestrations
  <2>3. orch'["dispose"] = "none" => done'["dispose"] = {} /\ ~overlap'
    BY <1>1, <1>4, <1>6, <1>7 DEF SInv, EngineOK, Orchestrations
  <2>4. ASSUME NEW p \in Orchestrations, orch'[p] = "completed"
        PROVE  plan \union {"jwtlet"} \subseteq done'[p]
    BY <1>6, <1>7, <2>4 DEF SInv, EngineOK
  <2>5. ASSUME NEW p \in Orchestrations, NEW b \in Activities, NEW v \in Workers, pc'[<<p, b, v>>] # Idle
        PROVE  b \in plan \union {"jwtlet"} /\ orch'[p] # "none"
    BY <1>3, <1>6, <2>5 DEF SInv, EngineOK, Running, Moves
  <2>6. QED
    BY <1>1, <2>1, <2>2, <2>3, <2>4, <2>5 DEF EngineOK, Running, Idle
<1>11. IDHandedOn'
  <2>1. data \subseteq data' /\ (o = "deploy" /\ a = "jwtlet" => "participantContextId" \in data')
    BY <1>1 DEF Stored
  <2>2. QED
    BY <1>1, <1>3, <1>4, <1>6, <1>7, <2>1 DEF SInv, IDHandedOn, Running, Moves, Orchestrations, Idle
<1>12. Deploying'
  <2>1. SUFFICES ASSUME orch["dispose"] = "none" PROVE Deploying'
    BY <1>4, <1>6 DEF Deploying, Orchestrations
  <2>2. o = "deploy"
    BY <1>4, <2>1 DEF Orchestrations
  <2>3. ASSUME NEW b \in Activities, NEW v \in Workers
        PROVE  Behind(b, pc[<<"deploy", b, v>>])' \subseteq remote
    <3>1. Behind(b, pc[<<"deploy", b, v>>])' = Behind(b, pc'[<<"deploy", b, v>>])
      BY <1>1 DEF Made, Behind, extractProfiles, extractMappings, isSigletConfigurable
    <3>2. Behind(b, Idle) = {}
      BY CallFacts DEF Behind, Idle
    <3>3. QED
      BY <1>3, <2>1, <3>1, <3>2 DEF SInv, Deploying, Moves, Orchestrations
  <2>4. ASSUME NEW b \in done'["deploy"]
        PROVE  Made(b)' \subseteq remote
    <3>1. Made(b)' = Made(b)
      BY <1>1 DEF Made, extractProfiles, extractMappings, isSigletConfigurable
    <3>2. r = "complete" => Made(a) \subseteq remote
      <4>1. r = "complete" => Behind(a, Result("complete")) \subseteq remote
        BY <1>5, <2>1, <2>2 DEF SInv, Deploying
      <4>2. Behind(a, Result("complete")) = Made(a)
        BY CallFacts DEF Behind
      <4>3. QED
        BY <4>1, <4>2
    <3>3. b \in done["deploy"] \/ (b = a /\ r = "complete")
      BY <1>7, <2>2, <2>4 DEF Orchestrations
    <3>4. QED
      BY <2>1, <3>1, <3>2, <3>3 DEF SInv, Deploying
  <2>5. QED
    BY <1>1, <1>6, <2>1, <2>3, <2>4 DEF SInv, Deploying
<1>13. OwnedOK'
  BY <1>1 DEF SInv, OwnedOK, Resources
<1>14. Disposing'
  <2>1. SUFFICES ASSUME ~overlap PROVE Disposing'
    BY <1>1 DEF Disposing
  <2>2. ContextFirst'
    BY <1>1, <2>1 DEF SInv, Disposing, ContextFirst
  <2>3. SUFFICES ASSUME orch'["dispose"] # "none"
                 PROVE  /\ \A b \in Activities, v \in Workers : pc'[<<"deploy", b, v>>] = Idle
                        /\ request \notin {"created", "unknown"}
                        /\ \A b \in Activities, v \in Workers :
                             Gone(b, pc'[<<"dispose", b, v>>]) \intersect remote \subseteq leftover
                        /\ \A b \in done'["dispose"] : Resources(b) \intersect remote \subseteq leftover
    BY <1>1, <2>2 DEF Disposing, Gone, Idle
  <2>4. o = "dispose" /\ orch["dispose"] # "none"
    BY <1>4, <1>6, <2>1, <2>3 DEF Orchestrations
  <2>5. Gone(a, Idle) = {} /\ Gone(a, Result("complete")) = Resources(a)
    BY CallFacts DEF Gone, Idle
  <2>6. r = "complete" => Resources(a) \intersect remote \subseteq leftover
    BY <1>5, <2>1, <2>4, <2>5 DEF SInv, Disposing
  <2>7. QED
    BY <1>3, <1>7, <2>1, <2>4, <2>5, <2>6 DEF SInv, Disposing, Moves, Orchestrations
<1>15. QED
  BY <1>8, <1>9, <1>10, <1>11, <1>12, <1>13, <1>14 DEF SInv

\* The steps that move no attempt.
LEMMA StillKeeps ==
  ASSUME SInv, UNCHANGED <<plan, input, done, data, pc, leftover>>
  PROVE  /\ PcOK'
         /\ \A b, c : Behind(b, c)' = Behind(b, c) /\ Made(b)' = Made(b)
<1>1. ASSUME NEW p \in Orchestrations, NEW b \in Activities
      PROVE  Calls(p, b)' = Calls(p, b)
  BY DEF Calls, DeployCalls, extractProfiles, extractMappings, isSigletConfigurable, DisposeCalls
<1>2. PcOK'
  BY <1>1 DEF SInv, PcOK
<1>3. ASSUME NEW b, NEW c
      PROVE  Behind(b, c)' = Behind(b, c) /\ Made(b)' = Made(b)
  BY DEF Made, Behind, extractProfiles, extractMappings, isSigletConfigurable
<1>4. QED
  BY <1>2, <1>3

\* The activity's message is delivered no more.
LEMMA GiveUpKeeps ==
  ASSUME SInv, NEW o \in Orchestrations, NEW a \in Activities, GiveUp(o, a)
  PROVE  SInv'
<1>1. /\ Enqueued(o, a) /\ a \notin done[o]
      /\ orch' = [orch EXCEPT ![o] = "errored"]
      /\ blame' = blame \union {<<o, a, "gaveUp">>}
      /\ UNCHANGED <<plan, input, done, data, remote, request, pc, leftover, overlap>>
  BY DEF GiveUp
<1>2. orch[o] = "running" /\ (o = "deploy" /\ a # "jwtlet" => "jwtlet" \in done["deploy"])
  BY <1>1 DEF Enqueued
<1>3. /\ DOMAIN orch' = Orchestrations /\ orch'[o] = "errored"
      /\ \A p \in Orchestrations : p # o => orch'[p] = orch[p]
      /\ orch' \in [Orchestrations -> {"none", "running", "completed", "errored"}]
  BY <1>1 DEF SInv, TypeOK
<1>4. TypeOK'
  BY <1>1, <1>3 DEF SInv, TypeOK
<1>5. PcOK' /\ \A b, c : Behind(b, c)' = Behind(b, c) /\ Made(b)' = Made(b)
  BY <1>1, StillKeeps
<1>6. EngineOK'
  BY <1>1, <1>2, <1>3 DEF SInv, EngineOK, Orchestrations, Running, Idle
<1>7. IDHandedOn'
  BY <1>1, <1>2, <1>3 DEF SInv, IDHandedOn, Orchestrations, Running, Idle
<1>8. Deploying'
  <2>1. SUFFICES ASSUME orch["dispose"] = "none" PROVE Deploying'
    BY <1>2, <1>3 DEF Deploying, Orchestrations
  <2>2. ASSUME NEW b \in Activities, NEW v \in Workers
        PROVE  Behind(b, pc[<<"deploy", b, v>>])' = Behind(b, pc[<<"deploy", b, v>>])
    BY <1>1 DEF Made, Behind, extractProfiles, extractMappings, isSigletConfigurable
  <2>3. QED
    BY <1>1, <1>5, <2>1, <2>2 DEF SInv, Deploying
<1>9. OwnedOK'
  BY <1>1 DEF SInv, OwnedOK
<1>10. Disposing'
  <2>1. orch'["dispose"] # "none" => orch["dispose"] # "none"
    BY <1>2, <1>3 DEF Orchestrations
  <2>2. QED
    BY <1>1, <2>1 DEF SInv, Disposing, ContextFirst, Gone, Idle
<1>11. QED
  BY <1>4, <1>5, <1>6, <1>7, <1>8, <1>9, <1>10 DEF SInv

\* The disposal begins.
LEMMA DisposeKeeps ==
  ASSUME SInv, Dispose
  PROVE  SInv'
<1>1. /\ orch["deploy"] \in {"completed", "errored"} /\ orch["dispose"] = "none"
      /\ orch' = [orch EXCEPT !["dispose"] = "running"]
      /\ overlap' = (request \in {"created", "unknown"} \/ \E t \in Attempts : t[1] = "deploy" /\ Running(t))
      /\ UNCHANGED <<plan, input, done, data, remote, request, pc, leftover, blame>>
  BY DEF Dispose
<1>2. /\ orch'["deploy"] = orch["deploy"] /\ orch'["dispose"] = "running"
      /\ orch' \in [Orchestrations -> {"none", "running", "completed", "errored"}]
  BY <1>1 DEF SInv, TypeOK, Orchestrations
<1>3. TypeOK'
  <2>1. overlap' \in BOOLEAN
    BY <1>1
  <2>2. QED
    BY <1>1, <1>2, <2>1 DEF SInv, TypeOK
<1>4. PcOK' /\ \A b, c : Behind(b, c)' = Behind(b, c) /\ Made(b)' = Made(b)
  BY <1>1, StillKeeps
<1>5. EngineOK'
  BY <1>1, <1>2 DEF SInv, EngineOK, Orchestrations, Running, Idle
<1>6. IDHandedOn'
  BY <1>1, <1>2 DEF SInv, IDHandedOn, Running, Idle
<1>7. Deploying'
  BY <1>2 DEF Deploying
<1>8. OwnedOK'
  BY <1>1 DEF SInv, OwnedOK
<1>9. Disposing'
  <2>1. SUFFICES ASSUME ~overlap' PROVE Disposing'
    BY DEF Disposing
  <2>2. /\ ContextFirst /\ done["dispose"] = {}
    BY <1>1 DEF SInv, EngineOK, Disposing
  <2>3. request \notin {"created", "unknown"}
    BY <1>1, <2>1
  <2>4. ASSUME NEW b \in Activities, NEW v \in Workers
        PROVE  /\ pc[<<"deploy", b, v>>] = Idle
               /\ Gone(b, pc[<<"dispose", b, v>>]) = {}
    <3>1. <<"deploy", b, v>> \in Attempts /\ <<"deploy", b, v>>[1] = "deploy"
      BY DEF Attempts, Orchestrations
    <3>2. pc[<<"deploy", b, v>>] = Idle
      BY <1>1, <2>1, <3>1 DEF Running
    <3>3. pc[<<"dispose", b, v>>] = Idle
      BY <1>1 DEF SInv, EngineOK, Running, Orchestrations
    <3>4. Gone(b, Idle) = {}
      BY CallFacts DEF Gone, Idle
    <3>5. QED
      BY <3>2, <3>3, <3>4
  <2>5. QED
    BY <1>1, <2>2, <2>3, <2>4 DEF Disposing, ContextFirst, Gone, Idle
<1>10. QED
  BY <1>3, <1>4, <1>5, <1>6, <1>7, <1>8, <1>9 DEF SInv

\* The issuer issues the credential, or fails to.
LEMMA IssueKeeps ==
  ASSUME SInv, Issue
  PROVE  SInv'
<1>1. /\ request \in {"created", "unknown"}
      /\ request' \in {"issued", "error", "unknown"}
      /\ remote' = remote \/ (remote' = remote \union {"credential"})
      /\ request' = "issued" => "credential" \in remote'
      /\ UNCHANGED <<plan, input, orch, done, data, pc, leftover, blame, overlap>>
  BY DEF Issue, engine, history
<1>2. TypeOK'
  BY <1>1 DEF SInv, TypeOK
<1>3. PcOK' /\ \A b, c : Behind(b, c)' = Behind(b, c) /\ Made(b)' = Made(b)
  BY <1>1, StillKeeps
<1>4. EngineOK'
  BY <1>1 DEF SInv, EngineOK, Running, Idle
<1>5. IDHandedOn'
  BY <1>1 DEF SInv, IDHandedOn, Running, Idle
<1>6. Deploying'
  <2>1. ASSUME NEW b \in Activities, NEW v \in Workers
        PROVE  Behind(b, pc[<<"deploy", b, v>>])' = Behind(b, pc[<<"deploy", b, v>>])
    BY <1>1 DEF Made, Behind, extractProfiles, extractMappings, isSigletConfigurable
  <2>2. QED
    BY <1>1, <1>3, <2>1 DEF SInv, Deploying
<1>7. OwnedOK'
  <2>1. "onboarding" \in plan /\ "credential" \in Resources("onboarding")
    BY <1>1 DEF SInv, OwnedOK, Resources
  <2>2. ASSUME NEW r \in remote'
        PROVE  \E a \in plan \union {"jwtlet"} : r \in Resources(a)
    BY <1>1, <2>1, <2>2 DEF SInv, OwnedOK
  <2>3. QED
    BY <1>1, <2>1, <2>2 DEF OwnedOK
<1>8. Disposing'
  <2>1. ~overlap => orch["dispose"] = "none"
    BY <1>1 DEF SInv, Disposing
  <2>2. QED
    BY <1>1, <2>1 DEF SInv, Disposing, ContextFirst
<1>9. QED
  BY <1>2, <1>3, <1>4, <1>5, <1>6, <1>7, <1>8 DEF SInv

-----------------------------------------------------------------------------
\* What is blamed.

\* An answer is never one of the reasons that are not answers.
LEMMA AnswerRange ==
  ASSUME TypeOK, NEW c
  PROVE  Answer(c) \notin {"failed", "gaveUp", "input"}
BY DEF TypeOK, Answer

\* A reason that RepeatsAreSafe allows for.
LEMMA BlameKeeps ==
  ASSUME RepeatsAreSafe, NEW o \in Orchestrations, NEW a \in Activities, NEW s,
         orch["dispose"] # "none" => orch'["dispose"] # "none",
         blame' \in {blame, blame \union {<<o, a, s>>}},
         blame' # blame =>
           /\ a = "jwtlet" => s \in {"failed", "gaveUp", "input"} \/ (o = "deploy" /\ orch["dispose"] # "none")
           /\ o = "dispose" /\ s = "input" => <<"deploy", "jwtlet", "gaveUp">> \in blame
  PROVE  RepeatsAreSafe'
<1>1. ASSUME NEW b \in blame', b[2] = "jwtlet"
      PROVE  b[3] \in {"failed", "gaveUp", "input"} \/ (b[1] = "deploy" /\ orch'["dispose"] # "none")
  BY <1>1 DEF RepeatsAreSafe
<1>2. ASSUME NEW b \in blame', b[1] = "dispose", b[3] = "input"
      PROVE  <<"deploy", "jwtlet", "gaveUp">> \in blame'
  BY <1>2 DEF RepeatsAreSafe
<1>3. QED
  BY <1>1, <1>2 DEF RepeatsAreSafe

\* A step that begins an attempt, and what it leaves to blame.
LEMMA BeginIsSafe ==
  ASSUME AInv, NEW o \in Orchestrations, NEW a \in Activities, NEW w \in Workers, Begin(o, a, w)
  PROVE  RepeatsAreSafe'
<1>1. /\ orch[o] = "running" /\ orch' = orch
      /\ blame' = IF InvalidInput(o, a) THEN blame \union {<<o, a, "input">>} ELSE blame
  BY DEF Begin, Enqueued, engine
<1>2. o = "dispose" /\ InvalidInput(o, a) => <<"deploy", "jwtlet", "gaveUp">> \in blame
  BY <1>1 DEF InvalidInput, AInv, SInv, EngineOK, IDHandedOn
<1>3. QED
  BY <1>1, <1>2, BlameKeeps DEF AInv

\* The blame for a call of jwtlet's that is answered, or is not.
LEMMA FailedIsSafe ==
  ASSUME AInv, NEW o \in Orchestrations, NEW a \in Activities, NEW w \in Workers,
         AtWork(<<o, a, w>>), orch' = orch,
         NEW c, c = pc[<<o, a, w>>], NEW s,
         s = "failed" \/ (s = Answer(c) /\ s \notin c.accepted), Failed(o, a, w, c, s)
  PROVE  RepeatsAreSafe'
<1>1. blame' = blame \/ blame' = blame \union {<<o, a, s>>}
  BY DEF Failed
<1>2. Running(<<o, a, w>>)
  BY CallFacts DEF Running, AtWork, Idle
<1>3. c \in Calls(o, a)
  BY <1>2, RunningFacts DEF AInv
<1>4. s # "input"
  BY AnswerRange DEF AInv, SInv
<1>5. a = "jwtlet" => s = "failed" \/ (o = "deploy" /\ orch["dispose"] # "none")
  <2>1. SUFFICES ASSUME a = "jwtlet", s # "failed" PROVE o = "deploy" /\ orch["dispose"] # "none"
    OBVIOUS
  <2>2. Answer(c) \notin c.accepted
    BY <2>1
  <2>3. o = "deploy"
    BY <1>3, <2>1, <2>2, JwtletAccepted DEF Calls
  <2>4. ~(Behind("jwtlet", c) \subseteq remote)
    BY <1>3, <2>1, <2>2, <2>3, JwtletAccepted DEF Calls
  <2>5. QED
    BY <2>1, <2>3, <2>4 DEF AInv, SInv, Deploying
<1>6. QED
  BY <1>1, <1>4, <1>5, BlameKeeps DEF AInv

\* A call that is answered leaves its reason, if the attempt fails.
LEMMA ReplyIsSafe ==
  ASSUME AInv, NEW o \in Orchestrations, NEW a \in Activities, NEW w \in Workers, Reply(o, a, w)
  PROVE  RepeatsAreSafe'
<1>0. PICK c : c = pc[<<o, a, w>>]
  OBVIOUS
<1>1. PICK s : s = Answer(c)
  OBVIOUS
<1>2. AtWork(<<o, a, w>>) /\ orch' = orch
  BY DEF Reply, engine
<1>3. CASE s \notin c.accepted
  <2>1. Failed(o, a, w, c, s)
    BY <1>0, <1>1, <1>3 DEF Reply
  <2>2. QED
    BY <1>0, <1>1, <1>2, <1>3, <2>1, FailedIsSafe
<1>4. CASE s \in c.accepted
  <2>0. PICK next : next = Accepted(o, a, c, s)
    OBVIOUS
  <2>1. /\ Proceed(<<o, a, w>>, next)
        /\ blame' = IF pc'[<<o, a, w>>] = Result("fatal") THEN blame \union {<<o, a, s>>} ELSE blame
    BY <1>0, <1>1, <1>4, <2>0 DEF Reply
  <2>2. Moves(o, a, w, next)
    BY <2>1, PcMoves DEF AInv, SInv, TypeOK
  <2>3. pc'[<<o, a, w>>] = next
    BY <2>2 DEF Moves
  <2>4. Running(<<o, a, w>>)
    BY <1>2, CallFacts DEF Running, AtWork, Idle
  <2>5. c \in Calls(o, a)
    BY <1>0, <1>2, <2>4, RunningFacts DEF AInv
  <2>6. s # "input"
    BY <1>1, AnswerRange DEF AInv, SInv
  <2>7. next = Result("fatal") => a # "jwtlet"
    <3>1. /\ Result("fatal") # Result("complete")
          /\ Result("fatal") \notin DisposeCalls("jwtlet")
          /\ Result("fatal") \notin DeployCalls("jwtlet")
      BY CallFacts DEF DeployCalls, DisposeCalls
    <3>2. CASE o = "dispose"
      BY <1>4, <2>0, <2>5, <3>1, <3>2, DisposeNext DEF Calls
    <3>3. CASE o = "deploy"
      BY <1>4, <2>0, <2>5, <3>1, <3>3, JwtletNext DEF Calls
    <3>4. QED
      BY <3>2, <3>3 DEF Orchestrations
  <2>8. QED
    BY <1>2, <2>1, <2>3, <2>6, <2>7, BlameKeeps DEF AInv
<1>5. QED
  BY <1>3, <1>4

\* A step that moves no attempt adds no reason.
LEMMA StillIsSafe ==
  ASSUME RepeatsAreSafe, blame' = blame, orch["dispose"] # "none" => orch'["dispose"] # "none"
  PROVE  RepeatsAreSafe'
BY DEF RepeatsAreSafe

-----------------------------------------------------------------------------

\* The invariant holds when the deployment starts ...
LEMMA InitHolds == Init => AInv
<1> SUFFICES ASSUME Init PROVE AInv
  OBVIOUS
<1>1. /\ plan \subseteq Others /\ data = {} /\ remote = {} /\ request = "none" /\ blame = {}
      /\ overlap = FALSE
  BY ActivitiesAssumption DEF Init
<1>2. /\ orch["deploy"] = "running" /\ orch["dispose"] = "none"
      /\ orch \in [Orchestrations -> {"none", "running", "completed", "errored"}]
  BY DEF Init, Orchestrations
<1>3. /\ done \in [Orchestrations -> SUBSET Activities]
      /\ done["deploy"] = {} /\ done["dispose"] = {}
  BY DEF Init, Orchestrations
<1>4. /\ DOMAIN pc = Attempts
      /\ \A o \in Orchestrations, a \in Activities, w \in Workers : pc[<<o, a, w>>] = Idle
  BY DEF Init, Attempts
<1>5. TypeOK
  BY <1>1, <1>2, <1>3, <1>4 DEF TypeOK
<1>6. PcOK
  BY <1>4, ResultsAre DEF PcOK, Idle
<1>7. EngineOK
  BY <1>1, <1>2, <1>3, <1>4 DEF EngineOK, Running, Orchestrations
<1>8. IDHandedOn
  BY <1>2, <1>3, <1>4 DEF IDHandedOn, Running, Orchestrations
<1>9. Deploying
  <2>1. \A a : Behind(a, Idle) = {}
    BY CallFacts DEF Behind, Idle
  <2>2. QED
    BY <1>1, <1>3, <1>4, <2>1 DEF Deploying, Orchestrations
<1>10. OwnedOK
  BY <1>1 DEF OwnedOK
<1>11. Disposing
  BY <1>1, <1>2 DEF Disposing, ContextFirst
<1>12. RepeatsAreSafe
  BY <1>1 DEF RepeatsAreSafe
<1>13. QED
  BY <1>5, <1>6, <1>7, <1>8, <1>9, <1>10, <1>11, <1>12 DEF AInv, SInv

\* ... and every step keeps it.
LEMMA NextKeeps == AInv /\ [Next]_vars => AInv'
<1> SUFFICES ASSUME AInv, [Next]_vars PROVE AInv'
  OBVIOUS
<1> USE DEF AInv
<1>1. CASE Issue
  BY <1>1, IssueKeeps, StillIsSafe DEF Issue, engine, history
<1>2. CASE Dispose
  <2>1. blame' = blame /\ orch["dispose"] = "none"
    BY <1>2 DEF Dispose
  <2>2. QED
    BY <1>2, <2>1, DisposeKeeps, StillIsSafe
<1>3. ASSUME NEW o \in Orchestrations, NEW a \in Activities, GiveUp(o, a)
      PROVE  AInv'
  <2>1. /\ orch' = [orch EXCEPT ![o] = "errored"] /\ blame' = blame \union {<<o, a, "gaveUp">>}
    BY <1>3 DEF GiveUp
  <2>2. orch["dispose"] # "none" => orch'["dispose"] # "none"
    BY <2>1 DEF SInv, TypeOK
  <2>3. "gaveUp" # "input"
    OBVIOUS
  <2>4. RepeatsAreSafe'
    BY <2>1, <2>2, <2>3, BlameKeeps
  <2>5. QED
    BY <1>3, <2>4, GiveUpKeeps
<1>4. ASSUME NEW o \in Orchestrations, NEW a \in Activities, NEW w \in Workers,
             Step(o, a, w) \/ CallFails(o, a, w) \/ customCheckRetry(o, a, w) \/ Crash(o, a, w)
      PROVE  AInv'
  <2>1. CASE Begin(o, a, w)
    BY <2>1, BeginKeeps, BeginIsSafe
  <2>2. CASE Reply(o, a, w)
    BY <2>2, ReplyKeeps, ReplyIsSafe
  <2>3. CASE Settle(o, a, w)
    <3>1. blame' = blame
      BY <2>3 DEF Settle, history
    <3>2. orch["dispose"] # "none" => orch'["dispose"] # "none"
      BY <2>3 DEF Settle, SInv, TypeOK
    <3>3. QED
      BY <2>3, <3>1, <3>2, SettleKeeps, StillIsSafe
  <2>4. CASE CallFails(o, a, w)
    <3>1. PICK c : c = pc[<<o, a, w>>]
      OBVIOUS
    <3>2. /\ AtWork(<<o, a, w>>) /\ Failed(o, a, w, c, "failed")
          /\ remote' \in {remote, Effect(c)} /\ request' \in {request, Requested(c)}
          /\ UNCHANGED <<engine, data, overlap>>
      BY <2>4, <3>1 DEF CallFails
    <3>3. SInv'
      BY <3>1, <3>2, FailedKeeps
    <3>4. orch' = orch
      BY <3>2 DEF engine
    <3>5. RepeatsAreSafe'
      BY <3>1, <3>2, <3>4, FailedIsSafe
    <3>6. QED
      BY <3>3, <3>5
  <2>5. CASE customCheckRetry(o, a, w)
    <3>1. blame' = blame /\ orch' = orch
      BY <2>5 DEF customCheckRetry, history, engine
    <3>2. QED
      BY <2>5, <3>1, RetryKeeps, StillIsSafe
  <2>6. CASE Crash(o, a, w)
    <3>1. blame' = blame /\ orch' = orch
      BY <2>6 DEF Crash, history, engine
    <3>2. QED
      BY <2>6, <3>1, CrashKeeps, StillIsSafe
  <2>7. QED
    BY <1>4, <2>1, <2>2, <2>3, <2>4, <2>5, <2>6 DEF Step
<1>5. CASE UNCHANGED vars
  <2>1. UNCHANGED <<plan, input, orch, done, data, remote, request, pc, leftover, blame, overlap>>
    BY <1>5 DEF vars, engine, history
  <2>2. PcOK' /\ \A b, c : Behind(b, c)' = Behind(b, c) /\ Made(b)' = Made(b)
    BY <2>1, StillKeeps
  <2>3. ASSUME NEW b \in Activities, NEW v \in Workers
        PROVE  Behind(b, pc[<<"deploy", b, v>>])' = Behind(b, pc[<<"deploy", b, v>>])
    BY <2>1 DEF Made, Behind, extractProfiles, extractMappings, isSigletConfigurable
  <2>4. Deploying'
    BY <2>1, <2>2, <2>3 DEF SInv, Deploying
  <2>5. TypeOK' /\ EngineOK' /\ IDHandedOn' /\ OwnedOK'
    BY <2>1 DEF SInv, TypeOK, EngineOK, IDHandedOn, OwnedOK, Running, Idle
  <2>6. Disposing' /\ RepeatsAreSafe'
    BY <2>1 DEF SInv, Disposing, ContextFirst, Gone, Idle, RepeatsAreSafe
  <2>7. QED
    BY <2>2, <2>4, <2>5, <2>6 DEF SInv
<1>6. QED
  BY <1>1, <1>2, <1>3, <1>4, <1>5 DEF Next

\* The inductive invariant holds of every plan, with any number of workers and of
\* failing calls, crashes and repeated deliveries.
THEOREM Invariant == Spec => []AInv
<1>1. QED
  BY InitHolds, NextKeeps, PTL DEF Spec

\* A deployment that completed has left all that its activities are there to
\* create until it is disposed, however the calls of repeated attempts interleave.
THEOREM DeployedIsCompleteHolds == Spec => []DeployedIsComplete
<1>1. AInv => DeployedIsComplete
  <2>1. SUFFICES ASSUME AInv, orch["deploy"] = "completed", orch["dispose"] = "none"
                 PROVE  UNION {Created(a) : a \in plan \union {"jwtlet"}} \subseteq remote
    BY DEF DeployedIsComplete
  <2>2. ASSUME NEW a \in plan \union {"jwtlet"}
        PROVE  Created(a) \subseteq remote
    <3>1. a \in done["deploy"] /\ a \in Activities
      BY <2>1 DEF AInv, SInv, EngineOK, TypeOK, Orchestrations, Activities
    <3>2. QED
      BY <2>1, <3>1, CreatedIs DEF AInv, SInv, Deploying
  <2>3. QED
    BY <2>2
<1>2. QED
  BY <1>1, Invariant, PTL

\* jwtlet's activities can be repeated: neither fails because an earlier or a
\* concurrent attempt got further, and the participant's ID reaches the disposal.
THEOREM RepeatsAreSafeHolds == Spec => []RepeatsAreSafe
<1>1. AInv => RepeatsAreSafe
  BY DEF AInv
<1>2. QED
  BY <1>1, Invariant, PTL

\* A disposal that completed has left nothing but what it has logged, if the
\* deployment was at rest when it began.
THEOREM DisposedIsCleanHolds == Spec => []DisposedIsClean
<1>1. AInv => DisposedIsClean
  <2>1. SUFFICES ASSUME AInv, orch["dispose"] = "completed", ~overlap PROVE remote \subseteq leftover
    BY DEF DisposedIsClean
  <2>2. plan \union {"jwtlet"} \subseteq done["dispose"]
    BY <2>1 DEF AInv, SInv, EngineOK, Orchestrations
  <2>3. QED
    BY <2>1, <2>2 DEF AInv, SInv, OwnedOK, Disposing
<1>2. QED
  BY <1>1, Invariant, PTL
=============================================================================
