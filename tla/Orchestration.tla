---------------------------- MODULE Orchestration ----------------------------
(***************************************************************************)
(* One orchestration of the Provision Manager: its entry in the JetStream  *)
(* KV bucket, the JetStream messages of its activities, the replicas that  *)
(* execute (start) it and the NatsActivityExecutors that run the           *)
(* activities.  One action is one call that leaves the process (a fetch    *)
(* and the read that follows it, a KV update, a publish, an ack), so that  *)
(* other workers act between any two of them.                              *)
(*                                                                         *)
(* UpdateOrchestration is one atomic read-modify-write here: KVUpdate      *)
(* models its compare-and-set loop.  A failing update may or may not have  *)
(* been applied.                                                           *)
(***************************************************************************)
EXTENDS Naturals

CONSTANTS
  Activities,     \* the activities of the orchestration
  NumSteps,       \* the number of execution steps
  StepOf,         \* the execution step of each activity
  Workers,        \* message slots of the NatsActivityExecutors, all replicas
  Starters,       \* deliveries of the manifest that reach Execute
  Copies,         \* JetStream messages one activity may get: one more for each
                  \* enqueue after the duplicate window has passed
  Results,        \* the outcomes the activity processors may report
  MaxDeliver,     \* natsclient.ActivityMaxDeliver
  MaxRetries,     \* NatsActivityExecutor.maxActivityRetries()
  MaxFaults,      \* bound: calls that fail, crashes and lost heartbeats
  LostHeartbeats  \* may a message be redelivered while it is being processed?

ActivityResults == {"complete", "retry", "fatal", "wait", "schedule", "panic"}

ASSUME StepsAssumption ==
  /\ NumSteps \in Nat \ {0}
  /\ StepOf \in [Activities -> 1..NumSteps]
  /\ \A s \in 1..NumSteps : \E a \in Activities : StepOf[a] = s

ASSUME BoundsAssumption ==
  /\ MaxDeliver \in Nat \ {0}
  /\ MaxRetries \in Nat \ {0}
  /\ MaxFaults \in Nat
  /\ LostHeartbeats \in BOOLEAN
  /\ Results \subseteq ActivityResults
  /\ Copies # {}

VARIABLES
  state,       \* Orchestration.State of the KV entry, "None" before it exists
  completed,   \* Orchestration.Completed of the KV entry
  retries,     \* Orchestration.EngineState.Retries of the KV entry
  stream,      \* what became of each JetStream message
  deliveries,  \* NumDelivered of each message
  window,      \* activities whose message ID is in the duplicate window
  spc,         \* where each starter is in Execute
  pc,          \* where each worker is in processMessage
  held,        \* the message a worker is processing
  snapshot,    \* the retry counts of the orchestration it works with
  verdict,     \* the Success flag of the response it is about to publish
  responses,   \* the verdicts published so far
  faults       \* how many of MaxFaults have happened

entry == <<state, completed, retries>>
queue == <<stream, deliveries, window>>
local == <<pc, held, snapshot, verdict>>
vars == <<entry, queue, spc, local, responses, faults>>

Messages == Activities \X Copies
NoMessage == <<>>
NoRetries == [a \in Activities |-> 0]
Terminal == {"Completed", "Errored"}
Live == {"queued", "inflight"}

-----------------------------------------------------------------------------
\* The execution plan.

StepActivities(s) == {a \in Activities : StepOf[a] = s}

Earlier(a) == {b \in Activities : StepOf[b] < StepOf[a]}

GetInitialActivities == StepActivities(1)

\* Mutant: the step after the next.
GetNextStepActivities_SkipsOne(a) == StepActivities(StepOf[a] + 2)

GetNextStepActivities(a) == StepActivities(StepOf[a] + 1)

\* Mutant: the parallel activities are not waited for.
CanProceedToNextStep_NoWait(a, done) == a \in done

CanProceedToNextStep(a, done) == StepActivities(StepOf[a]) \ {a} \subseteq done

-----------------------------------------------------------------------------
\* JetStream.

FreshCopy(a) == CHOOSE c \in Copies : stream[<<a, c>>] = "absent"

\* Publish the messages of the activities in S.  JetStream drops the one whose
\* message ID it has seen within the duplicate window.
Published(S) ==
  LET new == {<<a, FreshCopy(a)>> : a \in S \ window}
  IN  [m \in Messages |-> IF m \in new THEN "queued" ELSE stream[m]]

EnqueueActivityMessages(S) ==
  /\ stream' = Published(S)
  /\ window' = window \union S
  /\ UNCHANGED deliveries

\* A NAK returns the message to the queue; an ack or a TERM removes it.  Neither
\* changes a message that another delivery of it has settled already.
Settled(messages, m, outcome) ==
  [messages EXCEPT ![m] = IF @ \in Live THEN outcome ELSE @]

Nak(m) == stream' = Settled(stream, m, "queued")

Term(m) == stream' = Settled(stream, m, "termed")

\* A message that nobody acks or NAKs is delivered again after AckWait.
AckWaitExpires(m) ==
  /\ stream[m] = "inflight"
  /\ \A w \in Workers : held[w] # m
  /\ stream' = [stream EXCEPT ![m] = "queued"]
  /\ UNCHANGED <<entry, deliveries, window, spc, local, responses, faults>>

Fault ==
  /\ faults < MaxFaults
  /\ faults' = faults + 1

\* While a message is being processed, heartbeats reset AckWait, unless they do
\* not reach the server: then a second worker gets the message.
HeartbeatsLost(m) ==
  /\ LostHeartbeats
  /\ Fault
  /\ stream[m] = "inflight"
  /\ \E w \in Workers : held[w] = m
  /\ stream' = [stream EXCEPT ![m] = "queued"]
  /\ UNCHANGED <<entry, deliveries, window, spc, local, responses>>

DuplicateWindowPasses(a) ==
  /\ a \in window
  /\ \E c \in Copies : stream[<<a, c>>] = "absent"
  /\ window' = window \ {a}
  /\ UNCHANGED <<entry, stream, deliveries, spc, local, responses, faults>>

-----------------------------------------------------------------------------
\* Execute and start.

StarterAt(s, here, next) ==
  /\ spc[s] = here
  /\ spc' = [spc EXCEPT ![s] = next]

\* Mutant: an orchestration that exists is never started again.
Store_NoResume(s) ==
  /\ StarterAt(s, "idle", IF state = "None" THEN "enqueue" ELSE "done")
  /\ state' = IF state = "None" THEN "Initialized" ELSE state
  /\ UNCHANGED <<completed, retries, queue, local, responses, faults>>

\* Update at revision 0 stores the orchestration.  If it exists already, it is
\* started again only when its start did not get to the end.
Store(s) ==
  /\ \/ /\ state = "None"
        /\ state' = "Initialized"
        /\ StarterAt(s, "idle", "enqueue")
     \/ /\ state # "None"
        /\ StarterAt(s, "idle", IF state = "Initialized" THEN "enqueue" ELSE "done")
        /\ UNCHANGED state
  /\ UNCHANGED <<completed, retries, queue, local, responses, faults>>

\* The update fails other than by a conflict: Execute's error is not
\* recoverable, so the manifest is acked and answered with a failure.
StoreRefused(s) ==
  /\ Fault
  /\ StarterAt(s, "idle", "done")
  /\ state' \in {state, IF state = "None" THEN "Initialized" ELSE state}
  /\ responses' = responses \union {"failure"}
  /\ UNCHANGED <<completed, retries, queue, local>>

EnqueueInitial(s) ==
  /\ StarterAt(s, "enqueue", "mark")
  /\ EnqueueActivityMessages(GetInitialActivities)
  /\ UNCHANGED <<entry, local, responses, faults>>

\* Mutant: the state is set whatever it has become.
MarkRunning_Always(s) ==
  /\ StarterAt(s, "mark", "done")
  /\ state' = "Running"
  /\ UNCHANGED <<completed, retries, queue, local, responses, faults>>

\* The activities may have finished meanwhile: only Initialized moves.
MarkRunning(s) ==
  /\ StarterAt(s, "mark", "done")
  /\ state' = IF state = "Initialized" THEN "Running" ELSE state
  /\ UNCHANGED <<completed, retries, queue, local, responses, faults>>

\* A recoverable error or a crash: the manifest is delivered again, and Execute
\* starts over.  Any of the messages may have been published by then.
StarterFails(s) ==
  /\ Fault
  /\ \/ /\ StarterAt(s, "enqueue", "idle")
        /\ \E S \in SUBSET GetInitialActivities : EnqueueActivityMessages(S)
        /\ UNCHANGED state
     \/ /\ StarterAt(s, "mark", "idle")
        /\ state' \in {state, IF state = "Initialized" THEN "Running" ELSE state}
        /\ UNCHANGED queue
  /\ UNCHANGED <<completed, retries, local, responses>>

-----------------------------------------------------------------------------
\* processMessage.

Goto(w, here, next) ==
  /\ pc[w] = here
  /\ pc' = [pc EXCEPT ![w] = next]

\* Mutant: the message is not let go.
Return_KeepsMessage(w) ==
  /\ pc' = [pc EXCEPT ![w] = "idle"]
  /\ snapshot' = [snapshot EXCEPT ![w] = NoRetries]
  /\ verdict' = [verdict EXCEPT ![w] = "none"]
  /\ UNCHANGED held

\* The handler returns and the worker fetches again.
Return(w) ==
  /\ pc' = [pc EXCEPT ![w] = "idle"]
  /\ held' = [held EXCEPT ![w] = NoMessage]
  /\ snapshot' = [snapshot EXCEPT ![w] = NoRetries]
  /\ verdict' = [verdict EXCEPT ![w] = "none"]

Activity(w) == held[w][1]

\* EngineState.Merge: every count the worker's copy holds replaces the entry's.
Merged(w) ==
  [a \in Activities |-> IF snapshot[w][a] > 0 THEN snapshot[w][a] ELSE retries[a]]

\* Mutant: the Completed map is not looked at.
NextStepFor_Reruns(a, final) == IF final THEN "fatal" ELSE "run"

\* What the entry that was just read asks for: a completed activity is not run
\* again, and the last delivery gives up.
NextStepFor(a, final) ==
  CASE final -> "fatal"
    [] ~final /\ a \notin completed -> "run"
    [] ~final /\ a \in completed /\ state \in Terminal -> "ack"
    [] OTHER -> "complete"

Delivered(w, m) ==
  /\ pc[w] = "idle"
  /\ stream[m] = "queued"
  /\ deliveries[m] < MaxDeliver
  /\ deliveries' = [deliveries EXCEPT ![m] = @ + 1]

IsFinalDelivery(m) == deliveries[m] + 1 >= MaxDeliver

\* The message is fetched and the orchestration read.
Fetch(w, m) ==
  /\ Delivered(w, m)
  /\ stream' = [stream EXCEPT ![m] = "inflight"]
  /\ held' = [held EXCEPT ![w] = m]
  /\ snapshot' = [snapshot EXCEPT ![w] = retries]
  /\ pc' = [pc EXCEPT ![w] = NextStepFor(m[1], IsFinalDelivery(m))]
  /\ verdict' = [verdict EXCEPT ![w] = IF IsFinalDelivery(m) THEN "failure" ELSE "none"]
  /\ UNCHANGED <<entry, window, spc, responses, faults>>

\* The orchestration cannot be read: the message is left to AckWait, or dropped
\* on its last delivery.
ReadFails(w, m) ==
  /\ Fault
  /\ Delivered(w, m)
  /\ stream' = [stream EXCEPT ![m] = IF IsFinalDelivery(m) THEN "termed" ELSE "inflight"]
  /\ UNCHANGED <<entry, window, spc, local, responses>>

\* runActivity: the processor runs and reports an outcome.  A fatal error after
\* ActivityTimeout counts as "retry", and so does every error once too often as
\* "fatal"; a panic terminates the message.
RunActivity(w) ==
  \E r \in Results :
    LET count == snapshot[w][Activity(w)] + 1
        fatal == r = "fatal" \/ (r = "retry" /\ count >= MaxRetries)
    IN  /\ pc[w] = "run"
        /\ IF r = "panic"
           THEN /\ Return(w)
                /\ Term(held[w])
           ELSE /\ pc' = [pc EXCEPT ![w] = IF fatal THEN "fatal" ELSE r]
                /\ snapshot' = [snapshot EXCEPT ![w][Activity(w)] =
                                  IF r = "retry" THEN count ELSE @]
                /\ verdict' = [verdict EXCEPT ![w] = IF fatal THEN "failure" ELSE @]
                /\ UNCHANGED <<stream, held>>
        /\ UNCHANGED <<entry, deliveries, window, spc, responses, faults>>

\* handleRetryError and ActivityResultSchedule: the state is persisted and the
\* message redelivered later, whether or not it was persisted.
PersistAndNak(w) ==
  /\ pc[w] \in {"retry", "schedule"}
  /\ \/ /\ retries' = Merged(w)
        /\ UNCHANGED faults
     \/ /\ Fault
        /\ retries' \in {retries, Merged(w)}
  /\ Nak(held[w])
  /\ Return(w)
  /\ UNCHANGED <<state, completed, deliveries, window, spc, responses>>

\* ActivityResultWait: the message is acked once the state is persisted, and
\* nothing in this code completes the activity afterwards ("parked").
PersistAndWait(w) ==
  /\ \/ /\ Goto(w, "wait", "park")
        /\ retries' = Merged(w)
        /\ UNCHANGED <<stream, held, snapshot, verdict, faults>>
     \/ /\ pc[w] = "wait"
        /\ Fault
        /\ retries' \in {retries, Merged(w)}
        /\ Nak(held[w])
        /\ Return(w)
  /\ UNCHANGED <<state, completed, deliveries, window, spc, responses>>

\* handleFatalError: the orchestration is marked errored.  If that fails it is
\* only logged, and the failure is published all the same.
HandleFatalError(w) ==
  /\ Goto(w, "fatal", "respond")
  /\ \/ /\ state' = "Errored"
        /\ retries' = Merged(w)
        /\ UNCHANGED faults
     \/ /\ Fault
        /\ UNCHANGED <<state, retries>>
  /\ UNCHANGED <<completed, queue, spc, held, snapshot, verdict, responses>>

\* Mutant: an errored orchestration goes on.
AfterCompletion_IgnoresErrored(w) ==
  LET a == Activity(w)
  IN  IF ~CanProceedToNextStep(a, completed \union {a})
      THEN "ack"
      ELSE IF GetNextStepActivities(a) = {} THEN "finish" ELSE "enqueue"

\* What follows once the activity is in the entry's Completed map.
AfterCompletion(w) ==
  LET a == Activity(w)
  IN  IF state = "Errored" \/ ~CanProceedToNextStep(a, completed \union {a})
      THEN "ack"
      ELSE IF GetNextStepActivities(a) = {} THEN "finish" ELSE "enqueue"

\* processOnActivityCompletion.
CompleteActivity(w) ==
  /\ Goto(w, "complete", AfterCompletion(w))
  /\ completed' = completed \union {Activity(w)}
  /\ retries' = Merged(w)
  /\ UNCHANGED <<state, queue, spc, held, snapshot, verdict, responses, faults>>

CompleteActivityFails(w) ==
  /\ Fault
  /\ pc[w] = "complete"
  /\ \/ UNCHANGED <<completed, retries>>
     \/ /\ completed' = completed \union {Activity(w)}
        /\ retries' = Merged(w)
  /\ Nak(held[w])
  /\ Return(w)
  /\ UNCHANGED <<state, deliveries, window, spc, responses>>

EnqueueNext(w) ==
  /\ Goto(w, "enqueue", "ack")
  /\ EnqueueActivityMessages(GetNextStepActivities(Activity(w)))
  /\ UNCHANGED <<entry, spc, held, snapshot, verdict, responses, faults>>

\* Mutant: the message is acked although enqueueing failed.
EnqueueNextFails_Acked(w) ==
  /\ Fault
  /\ pc[w] = "enqueue"
  /\ \E S \in SUBSET GetNextStepActivities(Activity(w)) :
       /\ stream' = Settled(Published(S), held[w], "gone")
       /\ window' = window \union S
  /\ Return(w)
  /\ UNCHANGED <<entry, deliveries, spc, responses>>

EnqueueNextFails(w) ==
  /\ Fault
  /\ pc[w] = "enqueue"
  /\ \E S \in SUBSET GetNextStepActivities(Activity(w)) :
       /\ stream' = Settled(Published(S), held[w], "queued")
       /\ window' = window \union S
  /\ Return(w)
  /\ UNCHANGED <<entry, deliveries, spc, responses>>

\* handleOrchestrationCompletion: whatever the state has become, it is set.
Finish(w) ==
  /\ Goto(w, "finish", "respond")
  /\ state' = "Completed"
  /\ verdict' = [verdict EXCEPT ![w] = "success"]
  /\ UNCHANGED <<completed, retries, queue, spc, held, snapshot, responses, faults>>

FinishFails(w) ==
  /\ Fault
  /\ pc[w] = "finish"
  /\ state' \in {state, "Completed"}
  /\ Nak(held[w])
  /\ Return(w)
  /\ UNCHANGED <<completed, retries, deliveries, window, spc, responses>>

\* publishResponse.
PublishResponse(w) ==
  /\ Goto(w, "respond", "ack")
  /\ responses' = responses \union {verdict[w]}
  /\ UNCHANGED <<entry, queue, spc, held, snapshot, verdict, faults>>

AckMessage(w) ==
  /\ pc[w] \in {"ack", "park"}
  /\ stream' = Settled(stream, held[w], IF pc[w] = "park" THEN "parked" ELSE "gone")
  /\ Return(w)
  /\ UNCHANGED <<entry, deliveries, window, spc, responses, faults>>

\* The process dies, or publishing the response or acking fails and the handler
\* returns: the message stays in flight.
Abandon(w) ==
  /\ Fault
  /\ pc[w] # "idle"
  /\ Return(w)
  /\ UNCHANGED <<entry, queue, spc, responses>>

-----------------------------------------------------------------------------
Init ==
  /\ state = "None"
  /\ completed = {}
  /\ retries = NoRetries
  /\ stream = [m \in Messages |-> "absent"]
  /\ deliveries = [m \in Messages |-> 0]
  /\ window = {}
  /\ spc = [s \in Starters |-> "idle"]
  /\ pc = [w \in Workers |-> "idle"]
  /\ held = [w \in Workers |-> NoMessage]
  /\ snapshot = [w \in Workers |-> NoRetries]
  /\ verdict = [w \in Workers |-> "none"]
  /\ responses = {}
  /\ faults = 0

Start(s) == Store(s) \/ EnqueueInitial(s) \/ MarkRunning(s)

Handle(w) ==
  \/ RunActivity(w)
  \/ PersistAndNak(w)
  \/ PersistAndWait(w)
  \/ HandleFatalError(w)
  \/ CompleteActivity(w)
  \/ EnqueueNext(w)
  \/ Finish(w)
  \/ PublishResponse(w)
  \/ AckMessage(w)

HandleFails(w) ==
  \/ CompleteActivityFails(w)
  \/ EnqueueNextFails(w)
  \/ FinishFails(w)
  \/ Abandon(w)

Next ==
  \/ \E s \in Starters : Start(s) \/ StoreRefused(s) \/ StarterFails(s)
  \/ \E w \in Workers : Handle(w) \/ HandleFails(w)
  \/ \E w \in Workers, m \in Messages : Fetch(w, m) \/ ReadFails(w, m)
  \/ \E m \in Messages : AckWaitExpires(m) \/ HeartbeatsLost(m)
  \/ \E a \in Activities : DuplicateWindowPasses(a)

Spec == Init /\ [][Next]_vars

\* The dispatcher and the fetch loops keep running, and JetStream redelivers.
Fairness ==
  /\ \A s \in Starters : WF_vars(Start(s))
  /\ \A w \in Workers : WF_vars(Handle(w))
  /\ \A m \in Messages : WF_vars(\E w \in Workers : Fetch(w, m))
  /\ \A m \in Messages : WF_vars(AckWaitExpires(m))

FairSpec == Spec /\ Fairness

-----------------------------------------------------------------------------
\* Properties.

PCs == {"idle", "run", "retry", "schedule", "wait", "fatal", "complete",
        "enqueue", "finish", "respond", "ack", "park"}

\* Types; a worker holds a message exactly while its handler runs, and the
\* response it is about to publish carries a verdict.
TypeOK ==
  /\ state \in {"None", "Initialized", "Running", "Completed", "Errored"}
  /\ completed \subseteq Activities
  /\ retries \in [Activities -> Nat]
  /\ stream \in [Messages -> {"absent", "queued", "inflight", "gone", "parked", "termed"}]
  /\ deliveries \in [Messages -> 0..MaxDeliver]
  /\ window \subseteq Activities
  /\ spc \in [Starters -> {"idle", "enqueue", "mark", "done"}]
  /\ pc \in [Workers -> PCs]
  /\ held \in [Workers -> Messages \union {NoMessage}]
  /\ snapshot \in [Workers -> [Activities -> Nat]]
  /\ verdict \in [Workers -> {"none", "success", "failure"}]
  /\ responses \subseteq {"success", "failure"}
  /\ faults \in 0..MaxFaults
  /\ \A w \in Workers :
       /\ pc[w] = "idle" <=> held[w] = NoMessage
       /\ pc[w] \in {"fatal", "respond"} => verdict[w] # "none"

\* processMessage never runs or completes an activity before every activity of
\* the earlier steps is in the Completed map, however messages are duplicated
\* and whoever crashes.
StepOrder ==
  \A w \in Workers : pc[w] # "idle" => Earlier(Activity(w)) \subseteq completed

\* handleOrchestrationCompletion and publishResponse: the entry is Completed,
\* and success is reported, only when every activity of the plan completed.
SuccessMeansAllCompleted ==
  state = "Completed" \/ "success" \in responses => completed = Activities

\* The orchestration was given up: marked errored, reported as failed, or one
\* of its messages was terminated.
GivenUp ==
  \/ state = "Errored"
  \/ "failure" \in responses
  \/ \E m \in Messages : stream[m] = "termed"

Enqueued(a) == \E c \in Copies : stream[<<a, c>>] # "absent"
Owned(a) == \E c \in Copies : stream[<<a, c>>] \in Live \union {"parked"}

\* Some message still obliges a worker to do what comes next: to run a queued
\* activity, to enqueue the step after one that is complete, to mark the
\* orchestration completed.  processOnActivityCompletion decides that from the
\* entry its own update returned, so that of two activities that complete in
\* parallel one goes on.  (An activity that reported Wait
\* is its external system's.)
NoLostHandoff ==
  ~GivenUp =>
    /\ \A a \in Activities : Enqueued(a) /\ a \notin completed => Owned(a)
    /\ \A a \in Activities :
         (/\ StepActivities(StepOf[a]) \subseteq completed
          /\ IF GetNextStepActivities(a) = {}
             THEN state # "Completed"
             ELSE \E b \in GetNextStepActivities(a) : ~Enqueued(b))
         => \E b \in StepActivities(StepOf[a]) : Owned(b)

\* The KV entry and the responses behave as OrchestrationLifecycle promises.
Lifecycle == INSTANCE OrchestrationLifecycle
ImplementsLifecycle == Lifecycle!Spec

\* While heartbeats get through and no message ID leaves the duplicate window
\* ("The activity already completed and the message was delivered again ...
\* Don't run the activity again"): a worker that runs an activity is not too
\* late, since nobody else can have completed it.
NoRerun ==
  \A w \in Workers : pc[w] = "run" => Activity(w) \notin completed

\* Under the same condition an orchestration keeps the first terminal state it
\* reaches, as the index watcher relies on.
VerdictIsFinal == [][(state \in Terminal) => state' = state]_vars

\* An activity waits for an outside event, panicked, or lost the worker of the
\* last delivery JetStream allows.
Stranded ==
  \E m \in Messages :
    \/ stream[m] \in {"parked", "termed"}
    \/ stream[m] = "inflight" /\ deliveries[m] = MaxDeliver

\* A stored orchestration ends completed or errored, or the Tenant Manager is
\* told that it failed, unless an activity is stranded.
EventuallyDecided ==
  state # "None" ~> (state \in Terminal \/ "failure" \in responses \/ Stranded)

\* What the system documentation says of the Provision Manager: when processing
\* is completed the Tenant Manager is notified.
CompletionIsNotified == state = "Completed" ~> "success" \in responses
=============================================================================
