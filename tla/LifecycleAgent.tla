--------------------------- MODULE LifecycleAgent ---------------------------
(***************************************************************************)
(* The key management agent: how it sets up its stream and consumer beside *)
(* other agents, its fetch loop, the events it handles and the token cache *)
(* its clients share.                                                      *)
(*                                                                         *)
(* Events are handled one at a time, by one process.  An event that failed *)
(* is delivered again later, behind events that were published after it.   *)
(* Time is what tokens age by: a token lives for two ticks of which the    *)
(* last is the refresh margin, and a call ends within one tick of asking   *)
(* for its token.                                                          *)
(***************************************************************************)
EXTENDS StreamSubjects

CONSTANTS
  Others,       \* agents that share the stream with this one
  SubjectsOf,   \* the subjects of each agent
  Scenarios,    \* a stream, the agents that have a consumer on it already, those
                \* with createStream set, and the events in the order of publication
  Tokens,       \* what the subjects are made of, but for wildcards
  Concrete,     \* the concrete subjects that events are published on
  MaxDeliver,   \* deliveries of an event
  MaxFaults,    \* bound: deletions, failing calls, crashes
  MaxTicks      \* bound: ticks

Me == "keymanagement"
Agents == Others \union {Me}
NoKey == "none"
NoToken == 3

ASSUME AgentAssumption ==
  /\ Me \notin Others
  /\ \A c \in Scenarios :
       /\ Len(c.events) \in Nat /\ DOMAIN c.events = 1..Len(c.events)
       /\ \A i \in DOMAIN c.events :
            c.events[i].kind \in {"activated", "rotated", "revoked"} /\ c.events[i].key # NoKey
  /\ MaxDeliver \in Nat \ {0} /\ MaxFaults \in Nat /\ MaxTicks \in Nat

\* What NATS sees to: no agent asks for a stream whose subjects overlap, none is there
\* to begin with, and one that has a consumer carries its subjects.
ASSUME SubjectAssumption ==
  /\ Tokens \intersect Wildcards = {} /\ Concrete \subseteq ConcreteSubjects(Tokens)
  /\ \A a \in Agents :
       SubjectsOf[a] \in Seq(Subjects(Tokens)) /\ NoOverlap(Range(SubjectsOf[a]), Concrete)
  /\ \A c \in Scenarios :
       /\ c.stream \in [exists : BOOLEAN, subjects : SUBSET Subjects(Tokens)]
       /\ NoOverlap(c.stream.subjects, Concrete)
       /\ c.running \subseteq Agents /\ (c.running # {} => c.stream.exists)
       /\ \A a \in c.running :
            Carries(Range(SubjectsOf[a]), Concrete) \subseteq Carries(c.stream.subjects, Concrete)

VARIABLES
  scenario,   \* the one of Scenarios
  stream,     \* the stream: whether it exists, and its subjects
  consumers,  \* agents whose durable consumer exists
  pc,         \* where each agent is
  seen,       \* what each has read of the stream
  up,         \* agents that have started
  raced,      \* a stream update has overwritten one it did not see
  status,     \* what became of each event
  delivered,  \* how often each was delivered
  cur, op,    \* the event in hand and the call it is at
  siglet,     \* the key Siglet maps for the participant
  sts,        \* the key in the participant's config, on the control plane
  config,     \* whether that config is provisioned
  cache,      \* the cached token: the life it was recorded with and its real one
  asked,      \* the recorded life of the token that is being fetched
  hand,       \* the real life of the token in hand
  slow,       \* the call has taken a tick
  faults, ticks

Script == scenario.events
Creators == scenario.creators

setup == <<scenario, stream, consumers, pc, seen, up, raced>>
remote == <<siglet, sts, config>>
token == <<cache, asked, hand, slow>>
events == <<status, delivered, cur, op>>
bounds == <<faults, ticks>>
vars == <<setup, events, remote, token, bounds>>

Fault ==
  /\ faults < MaxFaults
  /\ faults' = faults + 1

-----------------------------------------------------------------------------
\* The stream and its consumers.

Goto(a, here, next) ==
  /\ pc[a] = here
  /\ pc' = [pc EXCEPT ![a] = next]

\* GetStream, or GetExistingStream for an agent that creates none: setting up
\* fails, and is tried again.
LookUp(a) ==
  /\ Goto(a, "look", CASE stream.exists /\ a \in Creators -> "info"
                       [] stream.exists /\ a \notin Creators -> "consumer"
                       [] ~stream.exists /\ a \in Creators -> "create"
                       [] OTHER -> "look")
  /\ UNCHANGED <<scenario, stream, consumers, seen, up, raced, events, remote, token, bounds>>

\* createStream; a stream that exists by now is taken as it is.
createStream(a) ==
  /\ Goto(a, "create", "info")
  /\ stream' = IF stream.exists THEN stream
               ELSE [exists |-> TRUE, subjects |-> Range(SubjectsOf[a])]
  /\ UNCHANGED <<scenario, consumers, seen, up, raced, events, remote, token, bounds>>

\* EnsureStreamSubjects reads the subjects ...
ReadSubjects(a) ==
  LET m == mergeStreamSubjects(stream.subjects, SubjectsOf[a])
  IN  /\ Goto(a, "info", CASE ~stream.exists \/ ~m.ok -> "look"
                           [] stream.exists /\ m.ok /\ m.subjects = stream.subjects -> "consumer"
                           [] OTHER -> "update")
      /\ seen' = [seen EXCEPT ![a] = stream]
      /\ UNCHANGED <<scenario, stream, consumers, up, raced, events, remote, token, bounds>>

\* ... and writes them back, merged.
UpdateSubjects(a) ==
  /\ Goto(a, "update", IF stream.exists THEN "consumer" ELSE "look")
  /\ IF stream.exists
     THEN /\ stream' = [stream EXCEPT
                !.subjects = mergeStreamSubjects(seen[a].subjects, SubjectsOf[a]).subjects]
          /\ raced' = (raced \/ stream # seen[a])
     ELSE UNCHANGED <<stream, raced>>
  /\ UNCHANGED <<scenario, consumers, seen, up, events, remote, token, bounds>>

\* SetupMultiSubjectConsumer.  The server wants the stream to carry the subjects.
SetupConsumer(a) ==
  LET ok == stream.exists /\ \A s \in Range(SubjectsOf[a]) : anySubjectCovers(stream.subjects, s)
  IN  /\ Goto(a, "consumer", IF ok THEN "fetch" ELSE "look")
      /\ consumers' = IF ok THEN consumers \union {a} ELSE consumers
      /\ up' = IF ok THEN up \union {a} ELSE up
      /\ UNCHANGED <<scenario, stream, seen, raced, events, remote, token, bounds>>

SetUp(a) ==
  LookUp(a) \/ createStream(a) \/ ReadSubjects(a) \/ UpdateSubjects(a) \/ SetupConsumer(a)

\* Somebody deletes the consumer or the stream, with the messages it holds: the
\* stream keeps a message only for a consumer that wants it.
Delete ==
  /\ Fault
  /\ \/ /\ consumers' = consumers \ {Me}
        /\ UNCHANGED <<stream, raced>>
     \/ /\ stream' = [stream EXCEPT !.exists = FALSE, !.subjects = {}]
        /\ consumers' = {}
        /\ raced' = FALSE
  /\ status' = [i \in DOMAIN status |->
                  IF status[i] \in {"queued", "delayed", "held"} THEN "lost" ELSE status[i]]
  /\ UNCHANGED <<scenario, pc, seen, up, delivered, cur, op, remote, token, ticks>>

-----------------------------------------------------------------------------
\* FetchLoop.

\* An event is published; without a consumer nobody will see it.
Publish ==
  \E i \in DOMAIN Script :
    /\ status[i] = "none"
    /\ \A j \in 1..i - 1 : status[j] # "none"
    /\ Me \in up
    /\ status' = [status EXCEPT ![i] = IF Me \in consumers THEN "queued" ELSE "lost"]
    /\ UNCHANGED <<setup, delivered, cur, op, remote, token, bounds>>

\* Where the handling of an event begins.  There is nothing to do for a rotated
\* key.
FirstCall(e) ==
  CASE e.kind = "activated" -> "get"
    [] e.kind = "revoked" -> "delete"
    [] OTHER -> "done"

\* The next event, or one that is delivered again.
Fetch(i) ==
  /\ pc[Me] = "fetch" /\ Me \in consumers
  /\ \/ status[i] = "queued" /\ \A j \in 1..i - 1 : status[j] # "queued"
     \/ status[i] = "delayed"
  /\ pc' = [pc EXCEPT ![Me] = "handle"]
  /\ status' = [status EXCEPT ![i] = "held"]
  /\ delivered' = [delivered EXCEPT ![i] = @ + 1]
  /\ cur' = i
  /\ op' = FirstCall(Script[i])
  /\ UNCHANGED <<scenario, stream, consumers, seen, up, raced, remote, token, bounds>>

\* Mutant: the loop keeps asking a consumer that is gone.
FetchGone_Retries ==
  /\ pc[Me] = "fetch" /\ Me \notin consumers
  /\ pc' = [pc EXCEPT ![Me] = "backoff"]
  /\ UNCHANGED <<scenario, stream, consumers, seen, up, raced, events, remote, token, bounds>>

\* The consumer is gone: Recreate sets it up again.
FetchGone ==
  /\ pc[Me] = "fetch" /\ Me \notin consumers
  /\ pc' = [pc EXCEPT ![Me] = "look"]
  /\ UNCHANGED <<scenario, stream, consumers, seen, up, raced, events, remote, token, bounds>>

\* Any other error is retried after a delay.
FetchFails ==
  /\ pc[Me] = "fetch"
  /\ Fault
  /\ pc' = [pc EXCEPT ![Me] = "backoff"]
  /\ UNCHANGED <<scenario, stream, consumers, seen, up, raced, events, remote, token, ticks>>

Backoff ==
  /\ Goto(Me, "backoff", "fetch")
  /\ UNCHANGED <<scenario, stream, consumers, seen, up, raced, events, remote, token, bounds>>

-----------------------------------------------------------------------------
\* CachingTokenProvider.

\* GetToken: a cached token is used until shortly before it expires, or one is
\* fetched.
GetToken ==
  /\ op \notin {"none", "done"} /\ hand = NoToken /\ asked = NoToken
  /\ IF cache.recorded = 2
     THEN hand' = cache.real /\ UNCHANGED asked
     ELSE asked' = 2 /\ UNCHANGED hand
  /\ UNCHANGED <<setup, events, remote, cache, slow, bounds>>

\* Mutant: the life of a token is measured from when it arrives.
TokenArrives_FromNow ==
  /\ asked # NoToken
  /\ \E real \in asked..2 :
       /\ cache' = [recorded |-> 2, real |-> real]
       /\ hand' = real
  /\ asked' = NoToken
  /\ UNCHANGED <<setup, events, remote, slow, bounds>>

\* A token that is about to expire is not kept.
store(real) ==
  IF asked = 2 THEN [recorded |-> 2, real |-> real] ELSE [recorded |-> 0, real |-> 0]

\* GetExpiringToken: the life is measured from before the request.
TokenArrives ==
  /\ asked # NoToken
  /\ \E real \in asked..2 :
       /\ cache' = store(real)
       /\ hand' = real
  /\ asked' = NoToken
  /\ UNCHANGED <<setup, events, remote, slow, bounds>>

Less(life) == IF life \in {0, NoToken} THEN life ELSE life - 1

Tick ==
  /\ ticks < MaxTicks
  /\ ticks' = ticks + 1
  /\ ~slow
  /\ cache' = [recorded |-> Less(cache.recorded), real |-> Less(cache.real)]
  /\ asked' = Less(asked)
  /\ hand' = Less(hand)
  /\ slow' = (op \notin {"none", "done"} /\ (hand # NoToken \/ asked # NoToken))
  /\ UNCHANGED <<setup, events, remote, faults>>

-----------------------------------------------------------------------------
\* Process: the calls to Siglet and the control plane.

Key == Script[cur].key

\* handleKeyActivated, handleKeyDecommissioned.
AfterCall(o) ==
  CASE o = "get" -> IF siglet = NoKey THEN "create" ELSE "update"
    [] o \in {"create", "update"} -> "patch"
    [] OTHER -> "done"

SigletAfter(o) ==
  CASE o \in {"create", "update"} -> Key
    [] o = "delete" -> NoKey
    [] OTHER -> siglet

CallOver ==
  /\ hand' = NoToken
  /\ slow' = FALSE
  /\ UNCHANGED <<cache, asked>>

\* A call that is answered.  The config may not be provisioned yet.
Call ==
  /\ op \notin {"none", "done"} /\ hand \in 1..2
  /\ op = "patch" => config
  /\ op' = AfterCall(op)
  /\ siglet' = SigletAfter(op)
  /\ sts' = IF op = "patch" THEN Key ELSE sts
  /\ CallOver
  /\ UNCHANGED <<setup, status, delivered, cur, config, bounds>>

\* The message is settled, and the loop fetches the next.
Settled(outcome) ==
  /\ status' = [status EXCEPT ![cur] = outcome]
  /\ cur' = 0
  /\ op' = "none"
  /\ pc' = [pc EXCEPT ![Me] = "fetch"]
  /\ UNCHANGED <<scenario, stream, consumers, seen, up, raced, delivered>>

\* Delivered again later, unless this was the last delivery or the consumer that
\* delivered it is gone.
Redelivered ==
  CASE status[cur] = "lost" -> "lost"
    [] status[cur] # "lost" /\ delivered[cur] < MaxDeliver -> "delayed"
    [] OTHER -> "dead"

\* Mutant: a config that is missing is an error of the client.
NotProvisioned_Dropped ==
  /\ op = "patch" /\ ~config /\ hand \in 1..2
  /\ Settled("acked")
  /\ CallOver
  /\ UNCHANGED <<remote, bounds>>

\* updateControlPlaneKeyAssociation: the config is missing, which is recoverable.
NotProvisioned ==
  /\ op = "patch" /\ ~config /\ hand \in 1..2
  /\ Settled(Redelivered)
  /\ CallOver
  /\ UNCHANGED <<remote, bounds>>

\* The call fails, whether or not it took effect: no answer or a transient status
\* is retried, a rejection is not.
CallFails ==
  /\ op \notin {"none", "done"} /\ hand \in 1..2
  /\ Fault
  /\ siglet' \in {siglet, SigletAfter(op)}
  /\ sts' \in {sts, IF op = "patch" /\ config THEN Key ELSE sts}
  /\ \E outcome \in {Redelivered, "dropped"} : Settled(outcome)
  /\ CallOver
  /\ UNCHANGED <<config, ticks>>

\* The event is acked.
Done ==
  /\ op = "done"
  /\ Settled("acked")
  /\ UNCHANGED <<remote, token, bounds>>

\* The process dies, with its cache, and starts again; AckWait passes.
Crash ==
  /\ Fault
  /\ cur # 0
  /\ status' = [status EXCEPT ![cur] = Redelivered]
  /\ cur' = 0
  /\ op' = "none"
  /\ pc' = [pc EXCEPT ![Me] = "look"]
  /\ cache' = [recorded |-> 0, real |-> 0]
  /\ asked' = NoToken
  /\ hand' = NoToken
  /\ slow' = FALSE
  /\ UNCHANGED <<scenario, stream, consumers, seen, up, raced, delivered, remote, ticks>>

\* The edcv agent provisions the participant's config.
Provision ==
  /\ ~config
  /\ config' = TRUE
  /\ UNCHANGED <<setup, events, siglet, sts, token, bounds>>

-----------------------------------------------------------------------------
Init ==
  /\ scenario \in Scenarios
  /\ stream = scenario.stream
  /\ consumers = scenario.running
  /\ pc = [a \in Agents |-> IF a \in consumers THEN "fetch" ELSE "look"]
  /\ seen = [a \in Agents |-> stream]
  /\ up = consumers
  /\ raced = FALSE
  /\ status = [i \in DOMAIN Script |-> "none"]
  /\ delivered = [i \in DOMAIN Script |-> 0]
  /\ cur = 0
  /\ op = "none"
  /\ siglet = NoKey
  /\ sts = NoKey
  /\ config = FALSE
  /\ cache = [recorded |-> 0, real |-> 0]
  /\ asked = NoToken
  /\ hand = NoToken
  /\ slow = FALSE
  /\ faults = 0
  /\ ticks = 0

Handle == GetToken \/ TokenArrives \/ Call \/ NotProvisioned \/ Done

Loop == (\E i \in DOMAIN Script : Fetch(i)) \/ FetchGone \/ Backoff

Next ==
  \/ \E a \in Agents : SetUp(a)
  \/ Loop \/ Handle \/ Publish \/ Provision \/ Tick
  \/ Delete \/ FetchFails \/ CallFails \/ Crash

Spec == Init /\ [][Next]_vars

\* The agent goes on: it sets up its consumer, fetches, and handles what it holds.
Fairness == WF_vars(SetUp(Me)) /\ WF_vars(Loop) /\ WF_vars(Handle)

FairSpec == Spec /\ Fairness

-----------------------------------------------------------------------------
\* Properties.

\* Whatever wildcards the agents and the stream use, its subjects never overlap,
\* which NATS would refuse.  An agent that has its consumer has its subjects
\* carried, unless one update has overwritten another.
StreamIsSound ==
  stream.exists =>
    /\ NoOverlap(stream.subjects, Concrete)
    /\ ~raced => \A a \in consumers :
         Carries(Range(SubjectsOf[a]), Concrete) \subseteq Carries(stream.subjects, Concrete)

\* The key that the events ask for.
Expected ==
  LET decisive == {i \in DOMAIN Script : Script[i].kind # "rotated"}
      last == CHOOSE i \in decisive : \A j \in decisive : j <= i
  IN  IF decisive # {} /\ Script[last].kind = "activated" THEN Script[last].key ELSE NoKey

\* Once every event was handled, however often some were repeated: Siglet maps no
\* other key than the control plane signs with, and if none was delivered again
\* it is the one the last event asks for.
KeysAgree ==
  (\A i \in DOMAIN Script : status[i] = "acked") =>
    /\ siglet \in {NoKey, sts}
    /\ (\A i \in DOMAIN Script : delivered[i] = 1) => siglet = Expected

\* "Dropping a revocation would leave the revoked key in use": none is dropped
\* because its call was rejected for a token that expired in the cache or while
\* it was fetched.
TokenIsValid == op \notin {"none", "done"} => hand # 0

\* An event that reached the consumer is handled, dropped or dead in the end, and
\* an agent that may create the stream has its consumer back after either was
\* deleted, while fetches, calls and the process fail.
EventsSettle ==
  /\ \A i \in 1..Max({Len(c.events) : c \in Scenarios}) :
       (i \in DOMAIN Script /\ status[i] = "queued")
         ~> (i \in DOMAIN Script /\ status[i] \in {"acked", "dropped", "dead", "lost"})
  /\ (Me \in up \intersect Creators /\ Me \notin consumers) ~> Me \in consumers
=============================================================================
