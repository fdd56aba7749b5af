------------------------- MODULE OrchestrationProofs -------------------------
(***************************************************************************)
(* What holds of Orchestration for every plan, every number of workers,    *)
(* starters and message copies, and every bound: type correctness, the     *)
(* order of the steps, and that the entry and the responses behave as      *)
(* OrchestrationLifecycle promises.                                        *)
(***************************************************************************)
EXTENDS Orchestration, TLAPS

StreamStates == {"absent", "queued", "inflight", "gone", "parked", "termed"}

-----------------------------------------------------------------------------
\* The operators the actions are built from.

\* No message is the empty tuple that stands for none.
LEMMA NoMessageIsNone == NoMessage \notin Messages
  BY DEF NoMessage, Messages

\* Publishing queues messages of the activities in S only, and takes none away.
LEMMA PublishedFacts ==
  ASSUME stream \in [Messages -> StreamStates], NEW S
  PROVE  /\ Published(S) \in [Messages -> StreamStates]
         /\ \A m \in Messages :
              /\ stream[m] # "absent" => Published(S)[m] # "absent"
              /\ Published(S)[m] # "absent" => stream[m] # "absent" \/ m[1] \in S
  BY DEF Published, StreamStates

\* Settling a message keeps absent what is absent, and only that.
LEMMA SettledFacts ==
  ASSUME NEW f \in [Messages -> StreamStates], NEW x \in Messages,
         NEW outcome \in StreamStates \ {"absent"}
  PROVE  /\ Settled(f, x, outcome) \in [Messages -> StreamStates]
         /\ \A m \in Messages :
              Settled(f, x, outcome)[m] = "absent" <=> f[m] = "absent"
  BY DEF Settled, StreamStates, Live

\* A merge of retry counts is a table of retry counts.
LEMMA MergedType ==
  ASSUME TypeOK, NEW w \in Workers
  PROVE  Merged(w) \in [Activities -> Nat]
  BY DEF TypeOK, Merged

\* The part of TypeOK about the workers' own variables.
LocalOK ==
  /\ pc \in [Workers -> PCs]
  /\ held \in [Workers -> Messages \union {NoMessage}]
  /\ snapshot \in [Workers -> [Activities -> Nat]]
  /\ verdict \in [Workers -> {"none", "success", "failure"}]
  /\ \A w \in Workers :
       /\ pc[w] = "idle" <=> held[w] = NoMessage
       /\ pc[w] \in {"fatal", "respond"} => verdict[w] # "none"

\* A worker that returns leaves its variables well typed.
LEMMA ReturnType ==
  ASSUME TypeOK, NEW w \in Workers, Return(w)
  PROVE  LocalOK'
  BY NoMessageIsNone DEF TypeOK, LocalOK, Return, NoRetries, PCs

\* A worker that goes on with its message leaves its variables well typed.
LEMMA GotoType ==
  ASSUME TypeOK, NEW w \in Workers, NEW next \in PCs \ {"idle"},
         pc[w] # "idle", pc' = [pc EXCEPT ![w] = next],
         UNCHANGED held,
         snapshot' \in [Workers -> [Activities -> Nat]],
         verdict' \in [Workers -> {"none", "success", "failure"}],
         \A x \in Workers : x # w => verdict'[x] = verdict[x],
         next \in {"fatal", "respond"} => verdict'[w] # "none"
  PROVE  LocalOK'
  BY DEF TypeOK, LocalOK

\* A worker whose handler runs holds a message of one of the activities.
LEMMA HeldType ==
  ASSUME TypeOK, NEW w \in Workers, pc[w] # "idle"
  PROVE  held[w] \in Messages /\ Activity(w) \in Activities
  BY DEF TypeOK, Activity, Messages

\* A handler that NAKs its message and returns keeps the types of the stream.
LEMMA NakAndReturn ==
  ASSUME TypeOK, NEW w \in Workers, pc[w] # "idle", Nak(held[w]), Return(w)
  PROVE  LocalOK' /\ stream' \in [Messages -> StreamStates]
<1>1. held[w] \in Messages
  BY HeldType
<1>2. stream' = Settled(stream, held[w], "queued") /\ stream \in [Messages -> StreamStates]
  BY DEF Nak, TypeOK, StreamStates
<1>3. stream' \in [Messages -> StreamStates]
  BY <1>1, <1>2, SettledFacts DEF StreamStates
<1>4. QED
  BY <1>3, ReturnType

\* Faults stay within their bound.
LEMMA FaultType ==
  ASSUME TypeOK, Fault
  PROVE  faults' \in 0..MaxFaults
  BY BoundsAssumption DEF TypeOK, Fault

-----------------------------------------------------------------------------
\* Type correctness.

\* Every variable starts with its type.
LEMMA TypeAtInit == Init => TypeOK
  BY BoundsAssumption, NoMessageIsNone DEF Init, TypeOK, NoRetries, PCs

\* Every step keeps the types.
LEMMA TypeStep ==
  ASSUME TypeOK, [Next]_vars
  PROVE  TypeOK'
<1>1. ASSUME NEW s \in Starters, Start(s) \/ StoreRefused(s) \/ StarterFails(s)
      PROVE  TypeOK'
  <2>1. CASE Store(s)
    BY <2>1 DEF TypeOK, Store, StarterAt, queue, local, PCs
  <2>2. CASE EnqueueInitial(s)
    BY <2>2, PublishedFacts DEF TypeOK, EnqueueInitial, StarterAt, EnqueueActivityMessages,
       GetInitialActivities, StepActivities, entry, local, PCs, StreamStates
  <2>3. CASE MarkRunning(s)
    BY <2>3 DEF TypeOK, MarkRunning, StarterAt, queue, local, PCs
  <2>4. CASE StoreRefused(s)
    BY <2>4, BoundsAssumption DEF TypeOK, StoreRefused, Fault, StarterAt, queue, local, PCs
  <2>5. CASE StarterFails(s)
    BY <2>5, PublishedFacts, BoundsAssumption DEF TypeOK, StarterFails, Fault, StarterAt,
       EnqueueActivityMessages, GetInitialActivities, StepActivities, queue, local, PCs,
       StreamStates
  <2>6. QED
    BY <1>1, <2>1, <2>2, <2>3, <2>4, <2>5 DEF Start
<1>2. ASSUME NEW w \in Workers, Handle(w)
      PROVE  TypeOK'
  <2>1. CASE RunActivity(w)
    <3>1. PICK r \in Results : RunActivity(w)!(r)
      BY <2>1 DEF RunActivity
    <3>2. held[w] \in Messages /\ Activity(w) \in Activities
      BY <3>1, HeldType
    <3>3. CASE r = "panic"
      BY <3>1, <3>2, <3>3, ReturnType, SettledFacts
      DEF TypeOK, LocalOK, Term, entry, StreamStates
    <3>4. CASE r # "panic"
      <4> DEFINE next == IF r = "fatal" \/ (r = "retry" /\ snapshot[w][Activity(w)] + 1 >= MaxRetries)
                         THEN "fatal" ELSE r
      <4>1. next \in PCs \ {"idle"} /\ next # "respond"
        BY <3>4, BoundsAssumption DEF PCs, ActivityResults
      <4> DEFINE count == IF r = "retry" THEN snapshot[w][Activity(w)] + 1
                                         ELSE snapshot[w][Activity(w)]
      <4>2. snapshot' \in [Workers -> [Activities -> Nat]]
        <5>1. count \in Nat
          BY <3>2 DEF TypeOK
        <5>2. snapshot' = [snapshot EXCEPT ![w] = [@ EXCEPT ![Activity(w)] = count]]
          BY <3>1, <3>4
        <5>3. QED
          BY <3>2, <5>1, <5>2 DEF TypeOK
      <4>3. /\ verdict' \in [Workers -> {"none", "success", "failure"}]
            /\ pc[w] # "idle"
            /\ pc' = [pc EXCEPT ![w] = next]
            /\ UNCHANGED held
            /\ \A x \in Workers : x # w => verdict'[x] = verdict[x]
            /\ next = "fatal" => verdict'[w] # "none"
        BY <3>1, <3>4 DEF TypeOK
      <4>4. LocalOK'
        BY <4>1, <4>2, <4>3, GotoType
      <4>5. QED
        BY <3>1, <3>4, <4>4 DEF TypeOK, LocalOK, entry
    <3>5. QED
      BY <3>3, <3>4
  <2>2. CASE PersistAndNak(w)
    BY <2>2, NakAndReturn, MergedType, FaultType
    DEF TypeOK, LocalOK, PersistAndNak, StreamStates
  <2>3. CASE PersistAndWait(w)
    <3>1. CASE Goto(w, "wait", "park") /\ UNCHANGED <<held, snapshot, verdict>>
      BY <2>3, <3>1, GotoType, MergedType, SettledFacts, HeldType, ReturnType, BoundsAssumption
      DEF TypeOK, LocalOK, PersistAndWait, Goto, PCs, Fault, Nak, StreamStates
    <3>2. CASE Return(w)
      <4>1. /\ pc[w] = "wait" /\ Nak(held[w]) /\ Fault
            /\ retries' \in {retries, Merged(w)}
        BY <2>3, <3>2, HeldType, NoMessageIsNone DEF PersistAndWait, Return, Goto, TypeOK
      <4>2. LocalOK' /\ stream' \in [Messages -> StreamStates] /\ faults' \in 0..MaxFaults
        BY <3>2, <4>1, NakAndReturn, FaultType
      <4>3. QED
        BY <2>3, <4>1, <4>2, MergedType DEF TypeOK, LocalOK, PersistAndWait, StreamStates
    <3>3. QED
      BY <2>3, <3>1, <3>2 DEF PersistAndWait
  <2>4. CASE HandleFatalError(w)
    BY <2>4, GotoType, MergedType, BoundsAssumption
    DEF TypeOK, LocalOK, HandleFatalError, Goto, PCs, Fault, queue
  <2>5. CASE CompleteActivity(w)
    <3>1. AfterCompletion(w) \in {"ack", "finish", "enqueue"}
      BY DEF AfterCompletion
    <3>2. LocalOK'
      BY <2>5, <3>1, GotoType DEF CompleteActivity, Goto, PCs, TypeOK
    <3>3. QED
      BY <2>5, <3>2, MergedType, HeldType DEF TypeOK, LocalOK, CompleteActivity, Goto, queue
  <2>6. CASE EnqueueNext(w)
    BY <2>6, GotoType, PublishedFacts
    DEF TypeOK, LocalOK, EnqueueNext, Goto, PCs, entry, EnqueueActivityMessages,
        GetNextStepActivities, StepActivities, StreamStates
  <2>7. CASE Finish(w)
    BY <2>7, GotoType DEF TypeOK, LocalOK, Finish, Goto, PCs, queue
  <2>8. CASE PublishResponse(w)
    BY <2>8, GotoType DEF TypeOK, LocalOK, PublishResponse, Goto, PCs, entry, queue
  <2>9. CASE AckMessage(w)
    BY <2>9, ReturnType, HeldType, SettledFacts
    DEF TypeOK, LocalOK, AckMessage, entry, StreamStates
  <2>10. QED
    BY <1>2, <2>1, <2>2, <2>3, <2>4, <2>5, <2>6, <2>7, <2>8, <2>9 DEF Handle
<1>3. ASSUME NEW w \in Workers, HandleFails(w)
      PROVE  TypeOK'
  <2>1. CASE CompleteActivityFails(w)
    BY <2>1, NakAndReturn, HeldType, MergedType, FaultType
    DEF TypeOK, LocalOK, CompleteActivityFails, StreamStates
  <2>2. CASE EnqueueNextFails(w)
    <3>1. PICK S \in SUBSET GetNextStepActivities(Activity(w)) :
            /\ stream' = Settled(Published(S), held[w], "queued")
            /\ window' = window \union S
      BY <2>2 DEF EnqueueNextFails
    <3>2. pc[w] # "idle" /\ Return(w) /\ Fault
      BY <2>2 DEF EnqueueNextFails
    <3>3. held[w] \in Messages /\ S \subseteq Activities
      BY <3>2, HeldType DEF GetNextStepActivities, StepActivities
    <3>4. Published(S) \in [Messages -> StreamStates]
      BY PublishedFacts DEF TypeOK, StreamStates
    <3>5. stream' \in [Messages -> StreamStates]
      BY <3>1, <3>3, <3>4, SettledFacts DEF StreamStates
    <3>6. LocalOK' /\ faults' \in 0..MaxFaults
      BY <3>2, ReturnType, FaultType
    <3>7. QED
      BY <2>2, <3>1, <3>3, <3>5, <3>6
      DEF TypeOK, LocalOK, EnqueueNextFails, entry, StreamStates
  <2>3. CASE FinishFails(w)
    BY <2>3, NakAndReturn, FaultType DEF TypeOK, LocalOK, FinishFails, StreamStates
  <2>4. CASE Abandon(w)
    BY <2>4, ReturnType, BoundsAssumption DEF TypeOK, LocalOK, Abandon, Fault, entry, queue
  <2>5. QED
    BY <1>3, <2>1, <2>2, <2>3, <2>4 DEF HandleFails
<1>4. ASSUME NEW w \in Workers, NEW m \in Messages, Fetch(w, m) \/ ReadFails(w, m)
      PROVE  TypeOK'
  <2>1. CASE Fetch(w, m)
    <3>1. /\ NextStepFor(m[1], IsFinalDelivery(m)) \in PCs \ {"idle", "respond"}
          /\ NextStepFor(m[1], IsFinalDelivery(m)) = "fatal" => IsFinalDelivery(m)
      BY DEF NextStepFor, PCs
    <3>2. LocalOK'
      BY <2>1, <3>1, NoMessageIsNone DEF TypeOK, LocalOK, Fetch
    <3>3. QED
      BY <2>1, <3>2, BoundsAssumption DEF TypeOK, LocalOK, Fetch, Delivered, entry
  <2>2. CASE ReadFails(w, m)
    BY <2>2, BoundsAssumption DEF TypeOK, ReadFails, Delivered, Fault, entry, local
  <2>3. QED
    BY <1>4, <2>1, <2>2
<1>5. ASSUME NEW m \in Messages, AckWaitExpires(m) \/ HeartbeatsLost(m)
      PROVE  TypeOK'
  <2>1. CASE AckWaitExpires(m)
    BY <2>1 DEF TypeOK, AckWaitExpires, entry, local
  <2>2. CASE HeartbeatsLost(m)
    BY <2>2, FaultType DEF TypeOK, HeartbeatsLost, entry, local
  <2>3. QED
    BY <1>5, <2>1, <2>2
<1>6. ASSUME NEW a \in Activities, DuplicateWindowPasses(a)
      PROVE  TypeOK'
  BY <1>6 DEF TypeOK, DuplicateWindowPasses, entry, local
<1>7. CASE UNCHANGED vars
  BY <1>7 DEF TypeOK, vars, entry, queue, local
<1>8. QED
  BY <1>1, <1>2, <1>3, <1>4, <1>5, <1>6, <1>7 DEF Next

\* TypeOK: every variable keeps its type, a worker holds a message exactly
\* while its handler runs.
THEOREM TypeCorrect == Spec => []TypeOK
  BY TypeAtInit, TypeStep, PTL DEF Spec

-----------------------------------------------------------------------------
\* The order of the steps.

\* A message is published only when every earlier step is complete.
PublishedInOrder ==
  \A m \in Messages :
    stream[m] # "absent" => state # "None" /\ Earlier(m[1]) \subseteq completed

\* What a worker's place in processMessage says of the entry.
WorkerKnows ==
  \A w \in Workers :
    /\ pc[w] # "idle" => stream[held[w]] # "absent"
    /\ pc[w] = "enqueue" => StepActivities(StepOf[Activity(w)]) \subseteq completed
    /\ pc[w] = "finish" => completed = Activities
    /\ verdict[w] = "success" => completed = Activities

\* A starter past Store has stored the orchestration.
StarterKnows == \A s \in Starters : spc[s] \in {"enqueue", "mark"} => state # "None"

\* The inductive invariant.
StepsInv ==
  /\ TypeOK
  /\ PublishedInOrder
  /\ WorkerKnows
  /\ StarterKnows
  /\ SuccessMeansAllCompleted

\* A worker whose handler runs has every earlier step behind it.
LEMMA HeldInOrder ==
  ASSUME StepsInv, NEW w \in Workers, pc[w] # "idle"
  PROVE  /\ held[w] \in Messages
         /\ Activity(w) \in Activities
         /\ state # "None"
         /\ Earlier(Activity(w)) \subseteq completed
  BY HeldType DEF StepsInv, PublishedInOrder, WorkerKnows, Activity

\* When a step is complete, all that is earlier than the next one is.
LEMMA NextStepInOrder ==
  ASSUME NEW a \in Activities, NEW b \in GetNextStepActivities(a), NEW done,
         Earlier(a) \subseteq done, StepActivities(StepOf[a]) \subseteq done
  PROVE  Earlier(b) \subseteq done
  BY StepsAssumption DEF GetNextStepActivities, StepActivities, Earlier

\* When there is no next step, the plan is complete with the current one.
LEMMA LastStepIsAll ==
  ASSUME NEW a \in Activities, NEW done \in SUBSET Activities,
         GetNextStepActivities(a) = {},
         Earlier(a) \subseteq done, StepActivities(StepOf[a]) \subseteq done
  PROVE  done = Activities
<1>1. ASSUME NEW c \in Activities PROVE c \in done
  <2>1. CASE StepOf[c] <= StepOf[a]
    BY <2>1, StepsAssumption DEF Earlier, StepActivities
  <2>2. CASE StepOf[c] > StepOf[a]
    <3>1. StepOf[a] + 1 \in 1..NumSteps
      BY <2>2, StepsAssumption
    <3>2. PICK b \in Activities : StepOf[b] = StepOf[a] + 1
      BY <3>1, StepsAssumption
    <3>3. QED
      BY <3>2 DEF GetNextStepActivities, StepActivities
  <2>3. QED
    BY <2>1, <2>2, StepsAssumption
<1>2. QED
  BY <1>1

\* Nothing is earlier than the initial activities.
LEMMA InitialInOrder ==
  ASSUME NEW a \in GetInitialActivities
  PROVE  a \in Activities /\ Earlier(a) = {}
  BY StepsAssumption DEF GetInitialActivities, StepActivities, Earlier

\* What a step of the specification may change, as far as the order is
\* concerned: nothing already true of a message or a worker is taken back.
LEMMA OrderPreserved ==
  ASSUME StepsInv, TypeOK',
         completed \subseteq completed',
         state # "None" => state' # "None",
         \A m \in Messages : stream'[m] # "absent" =>
            \/ stream[m] # "absent"
            \/ state' # "None" /\ Earlier(m[1]) \subseteq completed'
  PROVE  PublishedInOrder'
  BY DEF StepsInv, PublishedInOrder, Earlier

\* What a worker knows stays true while it stays where it is.
LEMMA KnowledgeStays ==
  ASSUME StepsInv, TypeOK', NEW x \in Workers,
         pc'[x] = pc[x], held'[x] = held[x], verdict'[x] = verdict[x],
         completed \subseteq completed',
         \A m \in Messages : stream[m] # "absent" => stream'[m] # "absent"
  PROVE  WorkerKnows!(x)'
<1>1. completed' \subseteq Activities
  BY DEF TypeOK
<1>2. pc[x] # "idle" => held[x] \in Messages
  BY HeldInOrder
<1>3. Activity(x)' = Activity(x)
  BY DEF Activity
<1>4. QED
  BY <1>1, <1>2, <1>3 DEF StepsInv, WorkerKnows, StepActivities

\* A worker that returns knows nothing any more.
LEMMA ReturnKnows ==
  ASSUME StepsInv, TypeOK', NEW w \in Workers, Return(w),
         completed \subseteq completed',
         \A m \in Messages : stream[m] # "absent" => stream'[m] # "absent"
  PROVE  WorkerKnows'
<1>1. ASSUME NEW x \in Workers
      PROVE  WorkerKnows!(x)'
  <2>1. CASE x = w
    BY <2>1 DEF Return, StepsInv, TypeOK
  <2>2. CASE x # w
    <3>1. pc'[x] = pc[x] /\ held'[x] = held[x] /\ verdict'[x] = verdict[x]
      BY <2>2 DEF Return, StepsInv, TypeOK
    <3>2. QED
      BY <3>1, KnowledgeStays
  <2>3. QED
    BY <2>1, <2>2
<1>2. QED
  BY <1>1 DEF WorkerKnows

\* A worker that moves on knows what the step it makes tells it.
LEMMA GotoKnows ==
  ASSUME StepsInv, TypeOK', NEW w \in Workers, pc[w] # "idle",
         UNCHANGED held,
         \A x \in Workers : x # w => pc'[x] = pc[x] /\ verdict'[x] = verdict[x],
         completed \subseteq completed',
         \A m \in Messages : stream[m] # "absent" => stream'[m] # "absent",
         pc'[w] = "enqueue" => StepActivities(StepOf[Activity(w)]) \subseteq completed',
         pc'[w] = "finish" => completed' = Activities,
         verdict'[w] = "success" => completed' = Activities
  PROVE  WorkerKnows'
<1>1. ASSUME NEW x \in Workers
      PROVE  WorkerKnows!(x)'
  <2>1. CASE x = w
    <3>1. stream'[held'[w]] # "absent"
      BY HeldInOrder DEF StepsInv, WorkerKnows
    <3>2. QED
      BY <2>1, <3>1 DEF Activity, StepActivities
  <2>2. CASE x # w
    BY <2>2, KnowledgeStays
  <2>3. QED
    BY <2>1, <2>2
<1>2. QED
  BY <1>1 DEF WorkerKnows

\* The steps of a starter preserve the invariant.
LEMMA StarterPreserves ==
  ASSUME StepsInv, TypeOK', NEW s \in Starters,
         Start(s) \/ StoreRefused(s) \/ StarterFails(s)
  PROVE  StepsInv'
<1>1. completed' = completed /\ (state # "None" => state' # "None")
      /\ (state' = "Completed" => state = "Completed")
      /\ ("success" \in responses' => "success" \in responses)
  BY DEF Start, Store, EnqueueInitial, MarkRunning, StoreRefused, StarterFails, entry
<1>2. UNCHANGED local
  BY DEF Start, Store, EnqueueInitial, MarkRunning, StoreRefused, StarterFails
<1>3. /\ \A m \in Messages : stream[m] # "absent" => stream'[m] # "absent"
      /\ \A m \in Messages : stream'[m] # "absent" =>
            stream[m] # "absent" \/ (state' # "None" /\ m[1] \in GetInitialActivities)
  <2>1. CASE \E S \in SUBSET GetInitialActivities :
               spc[s] = "enqueue" /\ stream' = Published(S) /\ state' = state
    BY <2>1, PublishedFacts DEF StepsInv, StarterKnows, TypeOK, StreamStates
  <2>2. CASE UNCHANGED stream
    BY <2>2
  <2>3. QED
    BY <2>1, <2>2 DEF Start, Store, EnqueueInitial, MarkRunning, StoreRefused, StarterFails,
       StarterAt, EnqueueActivityMessages, queue, entry
<1>4. PublishedInOrder'
  BY <1>1, <1>3, InitialInOrder, OrderPreserved
<1>5. WorkerKnows'
  BY <1>1, <1>2, <1>3, KnowledgeStays DEF local, WorkerKnows
<1>6. StarterKnows'
  BY DEF StepsInv, StarterKnows, TypeOK, Start, Store, EnqueueInitial, MarkRunning, StoreRefused,
     StarterFails, StarterAt, entry
<1>7. SuccessMeansAllCompleted'
  BY <1>1 DEF StepsInv, SuccessMeansAllCompleted
<1>8. QED
  BY <1>4, <1>5, <1>6, <1>7 DEF StepsInv

\* A step that leaves Completed and the published messages alone preserves the
\* invariant if it preserves what the workers know.
LEMMA QuietStep ==
  ASSUME StepsInv, TypeOK', WorkerKnows',
         UNCHANGED <<completed, responses, spc>>,
         state' \in {state, "Errored"},
         state # "None" => state' # "None",
         \A m \in Messages : stream'[m] # "absent" <=> stream[m] # "absent"
  PROVE  StepsInv'
BY OrderPreserved DEF StepsInv, StarterKnows, SuccessMeansAllCompleted

\* Settling the message a worker holds publishes and removes nothing.
LEMMA SettledHeld ==
  ASSUME StepsInv, NEW w \in Workers, pc[w] # "idle",
         NEW outcome \in StreamStates \ {"absent"},
         stream' = Settled(stream, held[w], outcome)
  PROVE  \A m \in Messages : stream'[m] # "absent" <=> stream[m] # "absent"
BY HeldInOrder, SettledFacts DEF StepsInv, TypeOK, StreamStates

\* Every step of a worker that goes well preserves the invariant.
LEMMA HandlePreserves ==
  ASSUME StepsInv, TypeOK', NEW w \in Workers, Handle(w)
  PROVE  StepsInv'
<1>1. CASE RunActivity(w)
  <2>1. PICK r \in Results : RunActivity(w)!(r)
    BY <1>1 DEF RunActivity
  <2>2. pc[w] = "run"
    BY <2>1
  <2>3. CASE r = "panic"
    <3>1. stream' = Settled(stream, held[w], "termed") /\ Return(w)
      BY <2>1, <2>3 DEF Term
    <3>2. \A m \in Messages : stream'[m] # "absent" <=> stream[m] # "absent"
      BY <2>2, <3>1, SettledHeld DEF StreamStates
    <3>3. WorkerKnows'
      BY <2>1, <3>1, <3>2, ReturnKnows DEF entry
    <3>4. QED
      BY <2>1, <3>2, <3>3, QuietStep DEF entry
  <2>4. CASE r # "panic"
    <3>1. /\ UNCHANGED held
          /\ \A x \in Workers : x # w => pc'[x] = pc[x] /\ verdict'[x] = verdict[x]
          /\ pc'[w] \notin {"enqueue", "finish"}
          /\ verdict'[w] = "success" => verdict[w] = "success"
          /\ UNCHANGED <<stream, entry, responses, spc>>
      BY <2>1, <2>4, BoundsAssumption DEF StepsInv, TypeOK, ActivityResults
    <3>2. WorkerKnows'
      BY <2>2, <3>1, GotoKnows DEF StepsInv, WorkerKnows, entry
    <3>3. QED
      BY <3>1, <3>2, QuietStep DEF entry
  <2>5. QED
    BY <2>3, <2>4
<1>2. CASE PersistAndNak(w)
  <2>1. /\ stream' = Settled(stream, held[w], "queued") /\ Return(w) /\ pc[w] # "idle"
        /\ UNCHANGED <<state, completed, responses, spc>>
    BY <1>2 DEF PersistAndNak, Nak
  <2>2. \A m \in Messages : stream'[m] # "absent" <=> stream[m] # "absent"
    BY <2>1, SettledHeld DEF StreamStates
  <2>3. QED
    BY <2>1, <2>2, ReturnKnows, QuietStep
<1>3. CASE PersistAndWait(w)
  <2>1. CASE Goto(w, "wait", "park") /\ UNCHANGED <<stream, held, verdict>>
    <3>1. WorkerKnows'
      BY <1>3, <2>1, GotoKnows DEF PersistAndWait, Goto, StepsInv, WorkerKnows, TypeOK
    <3>2. QED
      BY <1>3, <2>1, <3>1, QuietStep DEF PersistAndWait
  <2>2. CASE pc[w] = "wait" /\ Nak(held[w]) /\ Return(w)
    <3>1. \A m \in Messages : stream'[m] # "absent" <=> stream[m] # "absent"
      BY <2>2, SettledHeld DEF StreamStates, Nak
    <3>2. QED
      BY <1>3, <2>2, <3>1, ReturnKnows, QuietStep DEF PersistAndWait
  <2>3. QED
    BY <1>3, <2>1, <2>2 DEF PersistAndWait
<1>4. CASE HandleFatalError(w)
  <2>1. WorkerKnows'
    BY <1>4, GotoKnows DEF HandleFatalError, Goto, queue, StepsInv, WorkerKnows, TypeOK
  <2>2. state # "None"
    BY <1>4, HeldInOrder DEF HandleFatalError, Goto
  <2>3. QED
    BY <1>4, <2>1, <2>2, QuietStep DEF HandleFatalError, queue
<1>5. CASE CompleteActivity(w)
  <2>1. /\ held[w] \in Messages /\ Activity(w) \in Activities /\ state # "None"
        /\ Earlier(Activity(w)) \subseteq completed
    BY <1>5, HeldInOrder DEF CompleteActivity, Goto
  <2>2. /\ completed' = completed \union {Activity(w)} /\ completed' \subseteq Activities
        /\ UNCHANGED <<state, stream, held, verdict, responses, spc>>
        /\ pc[w] = "complete" /\ pc' = [pc EXCEPT ![w] = AfterCompletion(w)]
    BY <1>5 DEF CompleteActivity, Goto, queue, TypeOK
  <2>3. /\ AfterCompletion(w) = "enqueue" => StepActivities(StepOf[Activity(w)]) \subseteq completed'
        /\ AfterCompletion(w) = "finish" => completed' = Activities
    <3>1. AfterCompletion(w) # "ack" => StepActivities(StepOf[Activity(w)]) \subseteq completed'
      BY <2>2 DEF AfterCompletion, CanProceedToNextStep
    <3>2. AfterCompletion(w) = "finish" => GetNextStepActivities(Activity(w)) = {}
      BY DEF AfterCompletion
    <3>3. QED
      BY <2>1, <2>2, <3>1, <3>2, LastStepIsAll
  <2>4. WorkerKnows'
    BY <2>2, <2>3, GotoKnows DEF StepsInv, WorkerKnows, TypeOK
  <2>5. PublishedInOrder'
    BY <2>2, OrderPreserved
  <2>6. QED
    BY <2>2, <2>4, <2>5 DEF StepsInv, StarterKnows, SuccessMeansAllCompleted
<1>6. CASE EnqueueNext(w)
  <2> DEFINE S == GetNextStepActivities(Activity(w))
  <2>1. /\ Activity(w) \in Activities /\ state # "None"
        /\ Earlier(Activity(w)) \subseteq completed
        /\ StepActivities(StepOf[Activity(w)]) \subseteq completed
        /\ stream' = Published(S) /\ pc[w] # "idle"
        /\ pc' = [pc EXCEPT ![w] = "ack"]
        /\ UNCHANGED <<entry, held, verdict, responses, spc>>
    BY <1>6, HeldInOrder
    DEF EnqueueNext, Goto, EnqueueActivityMessages, StepsInv, WorkerKnows
  <2>2. \A m \in Messages :
          /\ stream[m] # "absent" => stream'[m] # "absent"
          /\ stream'[m] # "absent" => stream[m] # "absent" \/ m[1] \in S
    BY <2>1, PublishedFacts DEF StepsInv, TypeOK, StreamStates
  <2>3. \A b \in S : Earlier(b) \subseteq completed
    BY <2>1, NextStepInOrder
  <2>4. PublishedInOrder'
    BY <2>1, <2>2, <2>3, OrderPreserved DEF entry
  <2>5. WorkerKnows'
    <3>1. /\ completed' = completed /\ pc'[w] = "ack"
          /\ \A x \in Workers : x # w => pc'[x] = pc[x] /\ verdict'[x] = verdict[x]
          /\ verdict'[w] = "success" => completed' = Activities
      BY <2>1 DEF entry, StepsInv, WorkerKnows, TypeOK
    <3>2. QED
      BY <2>1, <2>2, <3>1, GotoKnows
  <2>6. QED
    BY <2>1, <2>4, <2>5 DEF StepsInv, StarterKnows, SuccessMeansAllCompleted, entry
<1>7. CASE Finish(w)
  <2>1. /\ completed = Activities /\ state' = "Completed" /\ pc[w] # "idle"
        /\ UNCHANGED <<completed, stream, held, responses, spc>>
        /\ pc' = [pc EXCEPT ![w] = "respond"]
        /\ verdict' = [verdict EXCEPT ![w] = "success"]
    BY <1>7 DEF Finish, Goto, queue, StepsInv, WorkerKnows
  <2>2. WorkerKnows'
    BY <2>1, GotoKnows DEF StepsInv, TypeOK
  <2>3. PublishedInOrder'
    BY <2>1, OrderPreserved
  <2>4. QED
    BY <2>1, <2>2, <2>3 DEF StepsInv, StarterKnows, SuccessMeansAllCompleted
<1>8. CASE PublishResponse(w)
  <2>1. /\ UNCHANGED <<entry, stream, held, verdict, spc>> /\ pc[w] # "idle"
        /\ pc' = [pc EXCEPT ![w] = "ack"]
        /\ responses' = responses \union {verdict[w]}
    BY <1>8 DEF PublishResponse, Goto, queue
  <2>2. WorkerKnows'
    BY <2>1, GotoKnows DEF entry, StepsInv, WorkerKnows, TypeOK
  <2>3. PublishedInOrder'
    BY <2>1, OrderPreserved DEF entry
  <2>4. QED
    BY <2>1, <2>2, <2>3 DEF StepsInv, StarterKnows, WorkerKnows, SuccessMeansAllCompleted, entry
<1>9. CASE AckMessage(w)
  <2>1. /\ Return(w) /\ pc[w] # "idle" /\ UNCHANGED <<entry, responses, spc>>
        /\ \E outcome \in {"parked", "gone"} : stream' = Settled(stream, held[w], outcome)
    BY <1>9 DEF AckMessage
  <2>2. \A m \in Messages : stream'[m] # "absent" <=> stream[m] # "absent"
    BY <2>1, SettledHeld DEF StreamStates
  <2>3. QED
    BY <2>1, <2>2, ReturnKnows, QuietStep DEF entry
<1>10. QED
  BY <1>1, <1>2, <1>3, <1>4, <1>5, <1>6, <1>7, <1>8, <1>9 DEF Handle

\* Every step of a worker that fails preserves the invariant: it returns, and
\* what it wrote before it failed is what it would have written.
LEMMA HandleFailsPreserves ==
  ASSUME StepsInv, TypeOK', NEW w \in Workers, HandleFails(w)
  PROVE  StepsInv'
<1>1. Return(w) /\ pc[w] # "idle" /\ UNCHANGED <<responses, spc>>
  BY DEF HandleFails, CompleteActivityFails, EnqueueNextFails, FinishFails, Abandon
<1>2. /\ held[w] \in Messages /\ Activity(w) \in Activities /\ state # "None"
      /\ Earlier(Activity(w)) \subseteq completed
  BY <1>1, HeldInOrder
<1>3. CASE CompleteActivityFails(w)
  <2>1. /\ stream' = Settled(stream, held[w], "queued") /\ UNCHANGED state
        /\ completed \subseteq completed'
    BY <1>3 DEF CompleteActivityFails, Nak
  <2>2. \A m \in Messages : stream'[m] # "absent" <=> stream[m] # "absent"
    BY <1>1, <2>1, SettledHeld DEF StreamStates
  <2>3. WorkerKnows'
    BY <1>1, <2>1, <2>2, ReturnKnows
  <2>4. PublishedInOrder'
    BY <2>1, <2>2, OrderPreserved
  <2>5. SuccessMeansAllCompleted'
    <3>1. completed' \subseteq Activities
      BY DEF TypeOK
    <3>2. SuccessMeansAllCompleted
      BY DEF StepsInv
    <3>3. QED
      BY <1>1, <2>1, <3>1, <3>2 DEF SuccessMeansAllCompleted
  <2>6. QED
    BY <1>1, <2>1, <2>3, <2>4, <2>5 DEF StepsInv, StarterKnows
<1>4. CASE EnqueueNextFails(w)
  <2>1. PICK S \in SUBSET GetNextStepActivities(Activity(w)) :
          stream' = Settled(Published(S), held[w], "queued")
    BY <1>4 DEF EnqueueNextFails
  <2>2. /\ UNCHANGED entry
        /\ StepActivities(StepOf[Activity(w)]) \subseteq completed
    BY <1>4 DEF EnqueueNextFails, StepsInv, WorkerKnows
  <2>3. /\ Published(S) \in [Messages -> StreamStates]
        /\ \A m \in Messages :
             /\ stream[m] # "absent" => Published(S)[m] # "absent"
             /\ Published(S)[m] # "absent" => stream[m] # "absent" \/ m[1] \in S
    BY PublishedFacts DEF StepsInv, TypeOK, StreamStates
  <2>4. \A m \in Messages : stream'[m] # "absent" <=> Published(S)[m] # "absent"
    BY <1>2, <2>1, <2>3, SettledFacts DEF StreamStates
  <2>5. \A b \in S : Earlier(b) \subseteq completed
    BY <1>2, <2>2, NextStepInOrder
  <2>6. PublishedInOrder'
    BY <1>2, <2>2, <2>3, <2>4, <2>5, OrderPreserved DEF entry
  <2>7. WorkerKnows'
    BY <1>1, <2>2, <2>3, <2>4, ReturnKnows DEF entry
  <2>8. QED
    BY <1>1, <2>2, <2>6, <2>7 DEF StepsInv, StarterKnows, SuccessMeansAllCompleted, entry
<1>5. CASE FinishFails(w)
  <2>1. /\ stream' = Settled(stream, held[w], "queued") /\ UNCHANGED completed
        /\ completed = Activities /\ state' # "None"
    BY <1>2, <1>5 DEF FinishFails, Nak, StepsInv, WorkerKnows
  <2>2. \A m \in Messages : stream'[m] # "absent" <=> stream[m] # "absent"
    BY <1>1, <2>1, SettledHeld DEF StreamStates
  <2>3. WorkerKnows'
    BY <1>1, <2>1, <2>2, ReturnKnows
  <2>4. PublishedInOrder'
    BY <2>1, <2>2, OrderPreserved
  <2>5. QED
    BY <1>1, <2>1, <2>3, <2>4 DEF StepsInv, StarterKnows, SuccessMeansAllCompleted
<1>6. CASE Abandon(w)
  <2>1. UNCHANGED <<state, completed, stream>>
    BY <1>6 DEF Abandon, entry, queue
  <2>2. QED
    BY <1>1, <2>1, ReturnKnows, QuietStep
<1>7. QED
  BY <1>3, <1>4, <1>5, <1>6 DEF HandleFails

\* A delivery hands a published message to an idle worker.
LEMMA FetchPreserves ==
  ASSUME StepsInv, TypeOK', NEW w \in Workers, NEW m \in Messages,
         Fetch(w, m) \/ ReadFails(w, m)
  PROVE  StepsInv'
<1>1. /\ \A n \in Messages : stream'[n] # "absent" <=> stream[n] # "absent"
      /\ UNCHANGED <<entry, responses, spc>>
      /\ stream[m] = "queued" /\ pc[w] = "idle"
  BY DEF Fetch, ReadFails, Delivered, StepsInv, TypeOK
<1>2. WorkerKnows'
  <2>1. CASE Fetch(w, m)
    <3>1. ASSUME NEW x \in Workers PROVE WorkerKnows!(x)'
      <4>1. CASE x = w
        <5>1. held'[w] = m /\ pc'[w] \notin {"enqueue", "finish"} /\ verdict'[w] # "success"
          BY <2>1 DEF Fetch, NextStepFor, StepsInv, TypeOK
        <5>2. QED
          BY <1>1, <4>1, <5>1
      <4>2. CASE x # w
        BY <1>1, <2>1, <4>2, KnowledgeStays DEF Fetch, StepsInv, TypeOK, entry
      <4>3. QED
        BY <4>1, <4>2
    <3>2. QED
      BY <3>1 DEF WorkerKnows
  <2>2. CASE ReadFails(w, m)
    BY <1>1, <2>2, KnowledgeStays DEF ReadFails, local, entry, WorkerKnows
  <2>3. QED
    BY <2>1, <2>2
<1>3. QED
  BY <1>1, <1>2, QuietStep DEF entry

\* Redelivery and the end of the duplicate window change nothing the order
\* depends on.
LEMMA BrokerPreserves ==
  ASSUME StepsInv, TypeOK',
         \/ \E m \in Messages : AckWaitExpires(m) \/ HeartbeatsLost(m)
         \/ \E a \in Activities : DuplicateWindowPasses(a)
         \/ UNCHANGED vars
  PROVE  StepsInv'
<1>1. /\ \A n \in Messages : stream'[n] # "absent" <=> stream[n] # "absent"
      /\ UNCHANGED <<entry, responses, spc, local>>
  BY DEF AckWaitExpires, HeartbeatsLost, DuplicateWindowPasses, vars, queue, StepsInv, TypeOK
<1>2. WorkerKnows'
  BY <1>1, KnowledgeStays DEF local, entry, WorkerKnows
<1>3. QED
  BY <1>1, <1>2, QuietStep DEF entry

\* Every step preserves the invariant.
LEMMA StepsStep ==
  ASSUME StepsInv, [Next]_vars
  PROVE  StepsInv'
<1>1. TypeOK'
  BY TypeStep DEF StepsInv
<1>2. QED
  BY <1>1, StarterPreserves, HandlePreserves, HandleFailsPreserves, FetchPreserves,
     BrokerPreserves DEF Next

\* StepsInv is inductive: a message in the stream, a worker's place and a
\* verdict always tell the truth about the Completed map, which only grows.
THEOREM StepsInvariant == Spec => []StepsInv
<1>1. Init => StepsInv
  BY TypeAtInit DEF Init, StepsInv, PublishedInOrder, WorkerKnows, StarterKnows,
     SuccessMeansAllCompleted
<1>2. StepsInv /\ [Next]_vars => StepsInv'
  BY StepsStep
<1>3. QED
  BY <1>1, <1>2, PTL DEF Spec

\* StepOrder: processMessage works on an activity only when every activity of
\* the earlier steps is in the Completed map.
THEOREM StepOrderHolds == Spec => []StepOrder
<1>1. StepsInv => StepOrder
  BY HeldInOrder DEF StepOrder
<1>2. QED
  BY <1>1, StepsInvariant, PTL

\* SuccessMeansAllCompleted: handleOrchestrationCompletion marks the entry
\* Completed, and publishResponse reports success, only for a complete plan.
THEOREM SuccessHolds == Spec => []SuccessMeansAllCompleted
<1>1. StepsInv => SuccessMeansAllCompleted
  BY DEF StepsInv
<1>2. QED
  BY <1>1, StepsInvariant, PTL

-----------------------------------------------------------------------------
\* The refinement of OrchestrationLifecycle.

\* Every step of a starter is a Create, a Refuse, a Start or a stutter.
LEMMA StarterRefines ==
  ASSUME NEW s \in Starters, Start(s) \/ StoreRefused(s) \/ StarterFails(s)
  PROVE  [Lifecycle!Next]_(Lifecycle!lvars)
<1>1. CASE Store(s) \/ EnqueueInitial(s) \/ MarkRunning(s)
  BY <1>1 DEF Store, EnqueueInitial, MarkRunning, entry, Lifecycle!Next, Lifecycle!lvars,
     Lifecycle!Create, Lifecycle!Start
<1>2. CASE StoreRefused(s)
  BY <1>2 DEF StoreRefused, Lifecycle!Next, Lifecycle!Refuse
<1>3. CASE StarterFails(s)
  BY <1>3 DEF StarterFails, Lifecycle!Next, Lifecycle!lvars, Lifecycle!Start
<1>4. QED
  BY <1>1, <1>2, <1>3 DEF Start

\* Every step of a worker that goes well is one of the lifecycle or a stutter.
LEMMA HandleRefines ==
  ASSUME StepsInv, NEW w \in Workers, Handle(w)
  PROVE  [Lifecycle!Next]_(Lifecycle!lvars)
<1>1. CASE RunActivity(w)
  <2>1. UNCHANGED <<state, completed, responses>>
    BY <1>1 DEF RunActivity, entry
  <2>2. QED
    BY <2>1 DEF Lifecycle!lvars
<1>2. CASE PersistAndNak(w) \/ PersistAndWait(w) \/ EnqueueNext(w) \/ AckMessage(w)
  BY <1>2 DEF PersistAndNak, PersistAndWait, EnqueueNext, AckMessage, entry, Lifecycle!lvars
<1>3. CASE HandleFatalError(w)
  <2>1. state # "None"
    BY <1>3, HeldInOrder DEF HandleFatalError, Goto
  <2>2. QED
    BY <1>3, <2>1 DEF HandleFatalError, Lifecycle!Next, Lifecycle!lvars, Lifecycle!Fail
<1>4. CASE CompleteActivity(w)
  <2>1. Activity(w) \in Activities /\ state # "None" /\ Earlier(Activity(w)) \subseteq completed
    BY <1>4, HeldInOrder DEF CompleteActivity, Goto
  <2>2. Lifecycle!Complete(Activity(w))
    BY <1>4, <2>1 DEF CompleteActivity, Lifecycle!Complete, Lifecycle!Earlier, Earlier
  <2>3. QED
    BY <2>1, <2>2 DEF Lifecycle!Next
<1>5. CASE Finish(w)
  <2>1. completed = Activities /\ state # "None"
    BY <1>5, HeldInOrder DEF Finish, Goto, StepsInv, WorkerKnows
  <2>2. QED
    BY <1>5, <2>1 DEF Finish, Lifecycle!Next, Lifecycle!Finish
<1>6. CASE PublishResponse(w)
  <2>1. verdict[w] \in {"success", "failure"}
    BY <1>6 DEF PublishResponse, Goto, StepsInv, TypeOK
  <2>2. Lifecycle!Notify(verdict[w])
    BY <1>6 DEF PublishResponse, entry, StepsInv, WorkerKnows, Lifecycle!Notify
  <2>3. QED
    BY <2>1, <2>2 DEF Lifecycle!Next
<1>7. QED
  BY <1>1, <1>2, <1>3, <1>4, <1>5, <1>6 DEF Handle

\* A failing call does its part of the lifecycle's step, or nothing.
LEMMA HandleFailsRefines ==
  ASSUME StepsInv, NEW w \in Workers, HandleFails(w)
  PROVE  [Lifecycle!Next]_(Lifecycle!lvars)
<1>1. CASE CompleteActivityFails(w)
  <2>1. Activity(w) \in Activities /\ state # "None" /\ Earlier(Activity(w)) \subseteq completed
    BY <1>1, HeldInOrder DEF CompleteActivityFails
  <2>2. Lifecycle!Complete(Activity(w)) \/ UNCHANGED <<state, completed, responses>>
    BY <1>1, <2>1 DEF CompleteActivityFails, Lifecycle!Complete, Lifecycle!Earlier, Earlier
  <2>3. QED
    BY <2>1, <2>2 DEF Lifecycle!Next, Lifecycle!lvars
<1>2. CASE EnqueueNextFails(w) \/ Abandon(w)
  BY <1>2 DEF EnqueueNextFails, Abandon, entry, Lifecycle!lvars
<1>3. CASE FinishFails(w)
  <2>1. completed = Activities /\ state # "None"
    BY <1>3, HeldInOrder DEF FinishFails, StepsInv, WorkerKnows
  <2>2. QED
    BY <1>3, <2>1 DEF FinishFails, Lifecycle!Next, Lifecycle!lvars, Lifecycle!Finish
<1>4. QED
  BY <1>1, <1>2, <1>3 DEF HandleFails

\* ImplementsLifecycle: whoever watches the KV entry and the responses sees an
\* OrchestrationLifecycle, whatever the queues, retries and crashes do.
THEOREM Implements == Spec => ImplementsLifecycle
<1>1. Init => Lifecycle!Init
  BY DEF Init, Lifecycle!Init
<1>2. StepsInv /\ [Next]_vars => [Lifecycle!Next]_(Lifecycle!lvars)
  <2> SUFFICES ASSUME StepsInv, [Next]_vars
               PROVE  [Lifecycle!Next]_(Lifecycle!lvars)
    OBVIOUS
  <2>1. CASE \/ \E w \in Workers, m \in Messages : Fetch(w, m) \/ ReadFails(w, m)
             \/ \E m \in Messages : AckWaitExpires(m) \/ HeartbeatsLost(m)
             \/ \E a \in Activities : DuplicateWindowPasses(a)
             \/ UNCHANGED vars
    BY <2>1 DEF Fetch, ReadFails, AckWaitExpires, HeartbeatsLost, DuplicateWindowPasses, vars,
       entry, Lifecycle!lvars
  <2>2. QED
    BY <2>1, StarterRefines, HandleRefines, HandleFailsRefines DEF Next
<1>3. QED
  BY <1>1, <1>2, StepsInvariant, PTL DEF Spec, ImplementsLifecycle, Lifecycle!Spec

-----------------------------------------------------------------------------
\* What comes next is never lost.

\* The orchestration is decided, one way or the other, or given up.
Over == GivenUp \/ state = "Completed"

\* An activity in the duplicate window has a message, and one that is not can
\* get another.
WindowOK ==
  \A a \in Activities :
    /\ a \in window => Enqueued(a)
    /\ a \notin window => \E c \in Copies : stream[<<a, c>>] = "absent"

\* The step of a is complete and what follows it is not all in the stream.
Open(a) ==
  /\ StepActivities(StepOf[a]) \subseteq completed
  /\ \/ GetNextStepActivities(a) = {}
     \/ \E b \in GetNextStepActivities(a) : ~Enqueued(b)

\* An activity of the step has a message that nobody is about to ack.
Carried(a) ==
  \E b \in StepActivities(StepOf[a]) :
    Owned(b) /\ \A w \in Workers : pc[w] = "ack" => Activity(w) # b

Handoff ==
  /\ \A a \in Activities : Enqueued(a) /\ a \notin completed => Owned(a)
  /\ \A a \in Activities : Open(a) => Carried(a)
  /\ \A w \in Workers : pc[w] = "ack" => Activity(w) \in completed

\* The inductive invariant.
HandInv ==
  /\ StepsInv
  /\ WindowOK
  /\ \A a \in completed : Enqueued(a)
  /\ \A w \in Workers :
       /\ pc[w] = "enqueue" => GetNextStepActivities(Activity(w)) # {}
       /\ verdict[w] = "success" => Over
  /\ ~Over => Handoff

\* Messages are published, redelivered and settled; one is removed by the worker
\* that acks it only.
StreamStep ==
  \A m \in Messages :
    \/ stream'[m] = stream[m]
    \/ stream[m] = "absent" /\ stream'[m] = "queued"
    \/ stream[m] \in Live /\ stream'[m] \in Live \union {"parked", "termed"}
    \/ /\ stream[m] \in Live /\ stream'[m] = "gone"
       /\ \E w \in Workers : pc[w] = "ack" /\ held[w] = m

\* While activities are in the duplicate window when they have a message, only
\* those that are not get one.
LEMMA PublishedIs ==
  ASSUME TypeOK, WindowOK, NEW S \in SUBSET Activities
  PROVE  /\ \A m \in Messages :
              \/ Published(S)[m] = stream[m]
              \/ stream[m] = "absent" /\ Published(S)[m] = "queued" /\ m[1] \in S \ window
         /\ \A a \in S \ window : \E c \in Copies : Published(S)[<<a, c>>] = "queued"
<1> DEFINE new == {<<a, FreshCopy(a)>> : a \in S \ window}
<1>1. ASSUME NEW a \in S \ window
      PROVE  FreshCopy(a) \in Copies /\ stream[<<a, FreshCopy(a)>>] = "absent"
  <2>1. \E c \in Copies : stream[<<a, c>>] = "absent"
    BY DEF WindowOK
  <2>2. QED
    BY <2>1 DEF FreshCopy
<1>2. \A m \in Messages : Published(S)[m] = IF m \in new THEN "queued" ELSE stream[m]
  BY DEF Published
<1>3. \A m \in Messages : m \in new => stream[m] = "absent" /\ m[1] \in S \ window
  BY <1>1
<1>4. \A a \in S \ window : <<a, FreshCopy(a)>> \in Messages /\ <<a, FreshCopy(a)>> \in new
  BY <1>1 DEF Messages
<1>5. QED
  <2> HIDE DEF new
  <2>1. \A a \in S \ window : Published(S)[<<a, FreshCopy(a)>>] = "queued"
    BY <1>2, <1>4
  <2>2. QED
    BY <1>1, <1>2, <1>3, <2>1

\* Publishing keeps the window true.
LEMMA EnqueueKeeps ==
  ASSUME TypeOK, WindowOK, NEW S \in SUBSET Activities, NEW f,
         \A m \in Messages : f[m] = Published(S)[m] \/ (stream[m] # "absent" /\ f[m] # "absent"),
         stream' = f, window' = window \union S
  PROVE  /\ WindowOK'
         /\ \A a \in S : Enqueued(a)'
<1>1. \A a \in Activities, c \in Copies : <<a, c>> \in Messages /\ <<a, c>>[1] = a
  BY DEF Messages
<1>2. \A m \in Messages : stream[m] # "absent" => f[m] # "absent"
  BY PublishedIs
<1>3. \A a \in Activities : Enqueued(a) => Enqueued(a)'
  BY <1>1, <1>2 DEF Enqueued
<1>4. \A a \in S : Enqueued(a)'
  <2>1. SUFFICES ASSUME NEW a \in S \ window PROVE Enqueued(a)'
    BY <1>3 DEF WindowOK
  <2>2. PICK c \in Copies : Published(S)[<<a, c>>] = "queued"
    BY PublishedIs
  <2>3. f[<<a, c>>] # "absent"
    BY <1>1, <2>2
  <2>4. QED
    BY <2>3 DEF Enqueued
<1>5. ASSUME NEW a \in Activities, a \notin window'
      PROVE  \E c \in Copies : stream'[<<a, c>>] = "absent"
  <2>1. PICK c \in Copies : stream[<<a, c>>] = "absent"
    BY <1>5 DEF WindowOK
  <2>2. Published(S)[<<a, c>>] = stream[<<a, c>>]
    BY <1>1, <1>5, PublishedIs
  <2>3. QED
    BY <1>1, <2>1, <2>2
<1>6. QED
  BY <1>3, <1>4, <1>5 DEF WindowOK

\* A step that publishes nothing keeps the window true.
LEMMA WindowKeeps ==
  ASSUME WindowOK, window' \subseteq window,
         \A m \in Messages : stream'[m] = "absent" <=> stream[m] = "absent",
         \A a \in window \ window' : \E c \in Copies : stream[<<a, c>>] = "absent"
  PROVE  WindowOK'
BY DEF WindowOK, Enqueued, Messages

\* What a step of the stream does to an activity's messages.
LEMMA StreamKeeps ==
  ASSUME TypeOK, StreamStep
  PROVE  /\ \A a \in Activities : Enqueued(a) => Enqueued(a)'
         /\ ~Over' => \A a \in Activities :
              /\ Enqueued(a)' /\ ~Enqueued(a) => Owned(a)'
              /\ Owned(a) /\ (\A w \in Workers : pc[w] = "ack" => Activity(w) # a) => Owned(a)'
<1>1. \A a \in Activities, c \in Copies : <<a, c>> \in Messages /\ <<a, c>>[1] = a
  BY DEF Messages
<1>2. \A a \in Activities : Enqueued(a) => Enqueued(a)'
  BY <1>1 DEF StreamStep, Enqueued, Live
<1>3. ~Over' => \A m \in Messages : stream'[m] # "termed"
  BY DEF Over, GivenUp
<1>4. ASSUME ~Over', NEW a \in Activities, Enqueued(a)', ~Enqueued(a)
      PROVE  Owned(a)'
  <2>1. PICK c \in Copies : stream'[<<a, c>>] # "absent"
    BY <1>4 DEF Enqueued
  <2>2. stream[<<a, c>>] = "absent"
    BY <1>4 DEF Enqueued
  <2>3. stream'[<<a, c>>] = "queued"
    BY <1>1, <2>1, <2>2 DEF StreamStep, Live
  <2>4. QED
    BY <2>3 DEF Owned, Live
<1>5. ASSUME ~Over', NEW a \in Activities, Owned(a),
             \A w \in Workers : pc[w] = "ack" => Activity(w) # a
      PROVE  Owned(a)'
  <2>1. PICK c \in Copies : stream[<<a, c>>] \in Live \union {"parked"}
    BY <1>5 DEF Owned
  <2>2. \A w \in Workers : pc[w] = "ack" => held[w] # <<a, c>>
    BY <1>1, <1>5 DEF Activity
  <2>3. stream'[<<a, c>>] \in Live \union {"parked"}
    BY <1>1, <1>3, <1>5, <2>1, <2>2 DEF StreamStep, Live
  <2>4. QED
    BY <2>3 DEF Owned, Live
<1>6. QED
  BY <1>2, <1>4, <1>5

\* A decision is never taken back.
LEMMA OverStays ==
  ASSUME StreamStep, Over,
         responses \subseteq responses',
         state \in Terminal => state' \in Terminal
  PROVE  Over'
<1>1. \A m \in Messages : stream[m] = "termed" => stream'[m] = "termed"
  BY DEF StreamStep, Live
<1>2. QED
  BY <1>1 DEF Over, GivenUp, Terminal

\* A step keeps the invariant if an activity is only completed by the worker that
\* holds its message, and a worker comes to ack only what it has passed on.
LEMMA HandStep ==
  ASSUME HandInv, StepsInv', WindowOK', StreamStep, Over => Over',
         \/ completed' = completed
         \/ \E w \in Workers : /\ pc[w] = "complete"
                               /\ completed' = completed \union {Activity(w)},
         \A w \in Workers :
           /\ pc'[w] = "enqueue" => GetNextStepActivities(Activity(w)') # {}
           /\ verdict'[w] = "success" => verdict[w] = "success" \/ Over'
           /\ ~Over' /\ pc'[w] = "ack" =>
                \/ pc[w] = "ack" /\ held'[w] = held[w]
                \/ Activity(w)' \in completed' /\ ~Open(Activity(w))'
  PROVE  HandInv'
<1>1. TypeOK /\ TypeOK' /\ completed \subseteq Activities
  BY DEF HandInv, StepsInv, TypeOK
<1>2. /\ \A a \in Activities : Enqueued(a) => Enqueued(a)'
      /\ ~Over' => \A a \in Activities :
           /\ Enqueued(a)' /\ ~Enqueued(a) => Owned(a)'
           /\ Owned(a) /\ (\A w \in Workers : pc[w] = "ack" => Activity(w) # a) => Owned(a)'
  BY <1>1, StreamKeeps
<1>3. ASSUME NEW w \in Workers, pc[w] = "complete"
      PROVE  Activity(w) \in Activities /\ Enqueued(Activity(w))
  <2>1. held[w] \in Messages /\ stream[held[w]] # "absent"
    BY <1>3, HeldInOrder DEF HandInv, StepsInv, WorkerKnows
  <2>2. QED
    BY <2>1 DEF Activity, Enqueued, Messages
<1>4. \A a \in completed' : Enqueued(a)'
  BY <1>1, <1>2, <1>3 DEF HandInv
<1>5. \A w \in Workers : verdict'[w] = "success" => Over'
  BY DEF HandInv
<1>6. ASSUME ~Over' PROVE Handoff'
  <2>1. Handoff /\ ~Over
    BY <1>6 DEF HandInv
  <2>2. ASSUME NEW a \in Activities, Enqueued(a)', a \notin completed'
        PROVE  Owned(a)'
    BY <1>2, <1>6, <2>1, <2>2 DEF Handoff
  <2>3. \A w \in Workers : pc'[w] = "ack" => Activity(w)' \in completed'
    BY <1>6, <2>1 DEF Handoff, Activity
  <2>4. ASSUME NEW a \in Activities, Open(a)'
        PROVE  Carried(a)'
    <3>1. \A b \in StepActivities(StepOf[a]) : b \in Activities /\ (Open(b)' <=> Open(a)')
      BY DEF StepActivities, Open, GetNextStepActivities
    <3>2. ASSUME NEW b \in StepActivities(StepOf[a]), Owned(b),
                 \A w \in Workers : pc[w] = "ack" => Activity(w) # b
          PROVE  Carried(a)'
      <4>1. Owned(b)'
        BY <1>2, <1>6, <3>1, <3>2
      <4>2. ASSUME NEW w \in Workers, pc'[w] = "ack", Activity(w)' = b PROVE FALSE
        <5>1. ~(pc[w] = "ack" /\ held'[w] = held[w])
          BY <3>2, <4>2 DEF Activity
        <5>2. ~Open(b)'
          BY <1>6, <4>2, <5>1
        <5>3. QED
          BY <2>4, <3>1, <5>2
      <4>3. b \in StepActivities(StepOf[a])'
        BY DEF StepActivities
      <4>4. QED
        BY <4>1, <4>2, <4>3 DEF Carried, StepActivities
    <3>3. CASE StepActivities(StepOf[a]) \subseteq completed
      <4>1. \A b \in GetNextStepActivities(a) : b \in Activities
        BY DEF GetNextStepActivities, StepActivities
      <4>2. Open(a)
        BY <1>2, <2>4, <3>3, <4>1 DEF Open, GetNextStepActivities, StepActivities
      <4>3. QED
        BY <2>1, <3>2, <4>2 DEF Handoff, Carried
    <3>4. CASE ~(StepActivities(StepOf[a]) \subseteq completed)
      <4>1. StepActivities(StepOf[a]) \subseteq completed'
        BY <2>4 DEF Open, StepActivities
      <4>2. PICK w \in Workers : /\ pc[w] = "complete" /\ completed' = completed \union {Activity(w)}
                                 /\ Activity(w) \notin completed
                                 /\ Activity(w) \in StepActivities(StepOf[a])
        BY <3>4, <4>1
      <4>3. Owned(Activity(w)) /\ \A x \in Workers : pc[x] = "ack" => Activity(x) # Activity(w)
        BY <1>3, <2>1, <4>2 DEF Handoff
      <4>4. QED
        BY <3>2, <4>2, <4>3
    <3>5. QED
      BY <3>3, <3>4
  <2>5. QED
    BY <2>2, <2>3, <2>4 DEF Handoff
<1>7. QED
  BY <1>4, <1>5, <1>6 DEF HandInv

\* Settling the message a worker holds is a step of the stream.
LEMMA SettledStep ==
  ASSUME StepsInv, NEW w \in Workers, pc[w] # "idle",
         NEW outcome \in {"queued", "parked", "termed", "gone"},
         outcome = "gone" => pc[w] = "ack",
         stream' = Settled(stream, held[w], outcome)
  PROVE  /\ StreamStep
         /\ \A m \in Messages : stream'[m] = "absent" <=> stream[m] = "absent"
<1>1. held[w] \in Messages /\ stream \in [Messages -> StreamStates]
  BY HeldInOrder DEF StepsInv, TypeOK, StreamStates
<1>2. \A m \in Messages :
        stream'[m] = IF m = held[w] /\ stream[m] \in Live THEN outcome ELSE stream[m]
  BY <1>1 DEF Settled
<1>3. StreamStep
  BY <1>2 DEF StreamStep, Live
<1>4. QED
  BY <1>2, <1>3 DEF Live

\* A step that leaves the stream alone.
LEMMA StillStep ==
  ASSUME stream' = stream
  PROVE  /\ StreamStep
         /\ \A m \in Messages : stream'[m] = "absent" <=> stream[m] = "absent"
BY DEF StreamStep

\* A starter loses nothing.
LEMMA StarterHandsOn ==
  ASSUME HandInv, StepsInv', NEW s \in Starters,
         Start(s) \/ StoreRefused(s) \/ StarterFails(s)
  PROVE  HandInv'
<1>1. /\ completed' = completed /\ UNCHANGED local /\ responses \subseteq responses'
      /\ state \in Terminal => state' \in Terminal
  BY DEF Start, Store, EnqueueInitial, MarkRunning, StoreRefused, StarterFails, entry, Terminal
<1>2. \/ stream' = stream /\ window' = window
      \/ \E S \in SUBSET GetInitialActivities : EnqueueActivityMessages(S)
  BY DEF Start, Store, EnqueueInitial, MarkRunning, StoreRefused, StarterFails, queue
<1>3. StreamStep /\ WindowOK'
  <2>1. CASE stream' = stream /\ window' = window
    BY <2>1, StillStep, WindowKeeps DEF HandInv
  <2>2. ASSUME NEW S \in SUBSET GetInitialActivities, EnqueueActivityMessages(S)
        PROVE  StreamStep /\ WindowOK'
    <3>1. S \in SUBSET Activities
      BY DEF GetInitialActivities, StepActivities
    <3>2. stream' = Published(S) /\ window' = window \union S
      BY <2>2 DEF EnqueueActivityMessages
    <3>3. QED
      BY <3>1, <3>2, PublishedIs, EnqueueKeeps DEF HandInv, StepsInv, StreamStep
  <2>3. QED
    BY <1>2, <2>1, <2>2
<1>4. Over => Over'
  BY <1>1, <1>3, OverStays
<1>5. QED
  BY <1>1, <1>3, <1>4, HandStep DEF HandInv, local, Activity, GetNextStepActivities, StepActivities

\* Redelivery and the end of the duplicate window lose nothing.
LEMMA BrokerHandsOn ==
  ASSUME HandInv, StepsInv',
         \/ \E m \in Messages : AckWaitExpires(m) \/ HeartbeatsLost(m)
         \/ \E a \in Activities : DuplicateWindowPasses(a)
         \/ UNCHANGED vars
  PROVE  HandInv'
<1>1. UNCHANGED <<entry, responses, spc, local>>
  BY DEF AckWaitExpires, HeartbeatsLost, DuplicateWindowPasses, vars
<1>2. StreamStep /\ \A m \in Messages : stream'[m] = "absent" <=> stream[m] = "absent"
  BY StillStep DEF AckWaitExpires, HeartbeatsLost, DuplicateWindowPasses, vars, queue, StreamStep,
     Live, HandInv, StepsInv, TypeOK
<1>3. /\ window' \subseteq window
      /\ \A a \in window \ window' : \E c \in Copies : stream[<<a, c>>] = "absent"
  BY DEF AckWaitExpires, HeartbeatsLost, DuplicateWindowPasses, vars, queue
<1>4. WindowOK'
  BY <1>2, <1>3, WindowKeeps DEF HandInv
<1>5. Over => Over'
  BY <1>1, <1>2, OverStays DEF entry
<1>6. QED
  BY <1>1, <1>2, <1>4, <1>5, HandStep
  DEF HandInv, local, entry, Activity, GetNextStepActivities, StepActivities

\* A worker that takes a message loses nothing.
LEMMA FetchHandsOn ==
  ASSUME HandInv, StepsInv', NEW w \in Workers, NEW m \in Messages, Fetch(w, m) \/ ReadFails(w, m)
  PROVE  HandInv'
<1>1. /\ UNCHANGED <<entry, window, responses>>
      /\ stream[m] = "queued" /\ pc[w] = "idle"
      /\ \E s \in {"inflight", "termed"} : stream' = [stream EXCEPT ![m] = s]
  BY DEF Fetch, ReadFails, Delivered
<1>2. StreamStep /\ \A n \in Messages : stream'[n] = "absent" <=> stream[n] = "absent"
  BY <1>1 DEF StreamStep, Live, HandInv, StepsInv, TypeOK
<1>3. WindowOK'
  BY <1>1, <1>2, WindowKeeps DEF HandInv
<1>4. Over => Over'
  BY <1>1, <1>2, OverStays DEF entry
<1>5. \/ UNCHANGED local
      \/ /\ \A x \in Workers : x # w =>
              pc'[x] = pc[x] /\ held'[x] = held[x] /\ verdict'[x] = verdict[x]
         /\ pc'[w] \in {"fatal", "run", "ack", "complete"}
         /\ pc'[w] = "ack" => state \in Terminal
         /\ verdict'[w] # "success"
  <2>1. CASE Fetch(w, m)
    BY <2>1 DEF Fetch, NextStepFor, HandInv, StepsInv, TypeOK
  <2>2. CASE ReadFails(w, m)
    BY <2>2 DEF ReadFails
  <2>3. QED
    BY <2>1, <2>2
<1>6. state \in Terminal => Over'
  BY <1>4 DEF Terminal, Over, GivenUp
<1>7. ASSUME NEW x \in Workers
      PROVE  /\ pc'[x] = "enqueue" => GetNextStepActivities(Activity(x))' # {}
             /\ verdict'[x] = "success" => verdict[x] = "success" \/ Over'
             /\ ~Over' /\ pc'[x] = "ack" => pc[x] = "ack" /\ held'[x] = held[x]
  <2>1. CASE UNCHANGED local \/ x # w
    <3>1. pc'[x] = pc[x] /\ held'[x] = held[x] /\ verdict'[x] = verdict[x]
      BY <1>5, <2>1 DEF local
    <3>2. QED
      BY <3>1 DEF HandInv, Activity, GetNextStepActivities, StepActivities
  <2>2. CASE ~(UNCHANGED local) /\ x = w
    BY <1>5, <1>6, <2>2
  <2>3. QED
    BY <2>1, <2>2
<1>8. QED
  BY <1>1, <1>2, <1>3, <1>4, <1>7, HandStep DEF entry

\* One worker goes on with its message, or returns.
LEMMA WorkerHandsOn ==
  ASSUME HandInv, StepsInv', WindowOK', StreamStep, Over => Over',
         NEW w \in Workers,
         \A x \in Workers : x # w =>
           pc'[x] = pc[x] /\ held'[x] = held[x] /\ verdict'[x] = verdict[x],
         \/ completed' = completed
         \/ pc[w] = "complete" /\ completed' = completed \union {Activity(w)},
         pc'[w] = "enqueue" => GetNextStepActivities(Activity(w))' # {},
         verdict'[w] = "success" => verdict[w] = "success" \/ Over',
         ~Over' /\ pc'[w] = "ack" => Activity(w)' \in completed' /\ ~Open(Activity(w))'
  PROVE  HandInv'
<1>1. ASSUME NEW x \in Workers
      PROVE  /\ pc'[x] = "enqueue" => GetNextStepActivities(Activity(x))' # {}
             /\ verdict'[x] = "success" => verdict[x] = "success" \/ Over'
             /\ ~Over' /\ pc'[x] = "ack" =>
                  \/ pc[x] = "ack" /\ held'[x] = held[x]
                  \/ Activity(x)' \in completed' /\ ~Open(Activity(x))'
  <2>1. CASE x = w
    BY <2>1
  <2>2. CASE x # w
    BY <2>2 DEF HandInv, Activity, GetNextStepActivities, StepActivities
  <2>3. QED
    BY <2>1, <2>2
<1>2. QED
  BY <1>1, HandStep

\* A worker returns, having settled its message and not acked it.
LEMMA ReturnHandsOn ==
  ASSUME HandInv, StepsInv', NEW w \in Workers, pc[w] # "idle", Return(w),
         \/ UNCHANGED stream
         \/ \E outcome \in {"queued", "parked", "termed", "gone"} :
              /\ outcome = "gone" => pc[w] = "ack"
              /\ stream' = Settled(stream, held[w], outcome),
         \/ completed' = completed
         \/ pc[w] = "complete" /\ completed' = completed \union {Activity(w)},
         UNCHANGED <<window, responses>>,
         state \in Terminal => state' \in Terminal
  PROVE  HandInv'
<1>1. StreamStep /\ \A m \in Messages : stream'[m] = "absent" <=> stream[m] = "absent"
  BY SettledStep, StillStep DEF HandInv
<1>2. WindowOK' /\ (Over => Over')
  BY <1>1, WindowKeeps, OverStays DEF HandInv
<1>3. /\ \A x \in Workers : x # w =>
           pc'[x] = pc[x] /\ held'[x] = held[x] /\ verdict'[x] = verdict[x]
      /\ pc'[w] = "idle" /\ verdict'[w] = "none"
  BY DEF Return, HandInv, StepsInv, TypeOK
<1>4. QED
  BY <1>1, <1>2, <1>3, WorkerHandsOn

\* A worker goes on with its message and leaves the stream alone.
LEMMA GotoHandsOn ==
  ASSUME HandInv, StepsInv', NEW w \in Workers, NEW next, pc' = [pc EXCEPT ![w] = next],
         UNCHANGED <<stream, window, held>>,
         \A x \in Workers : x # w => verdict'[x] = verdict[x],
         \/ completed' = completed
         \/ pc[w] = "complete" /\ completed' = completed \union {Activity(w)},
         responses \subseteq responses',
         state \in Terminal => state' \in Terminal,
         next = "enqueue" => GetNextStepActivities(Activity(w)) # {},
         verdict'[w] = "success" => verdict[w] = "success" \/ Over',
         next = "ack" =>
           Over' \/ /\ Activity(w) \in completed'
                    /\ ~(StepActivities(StepOf[Activity(w)]) \subseteq completed')
  PROVE  HandInv'
<1>1. StreamStep /\ \A m \in Messages : stream'[m] = "absent" <=> stream[m] = "absent"
  BY StillStep
<1>2. WindowOK' /\ (Over => Over')
  BY <1>1, WindowKeeps, OverStays DEF HandInv
<1>3. pc'[w] = next /\ \A x \in Workers : x # w => pc'[x] = pc[x]
  BY DEF HandInv, StepsInv, TypeOK
<1>4. Activity(w)' = Activity(w)
  BY DEF Activity
<1>5. (next = "enqueue" => GetNextStepActivities(Activity(w))' # {})
      /\ (~Over' /\ next = "ack" => Activity(w)' \in completed' /\ ~Open(Activity(w))')
  BY <1>4 DEF GetNextStepActivities, StepActivities, Open
<1>6. QED
  BY <1>1, <1>2, <1>3, <1>5, WorkerHandsOn

\* The worker's steps lose nothing.
LEMMA HandleHandsOn ==
  ASSUME HandInv, StepsInv', NEW w \in Workers, Handle(w)
  PROVE  HandInv'
<1>1. CASE RunActivity(w)
  <2>1. PICK r \in Results : RunActivity(w)!(r)
    BY <1>1 DEF RunActivity
  <2>2. CASE r = "panic"
    BY <2>1, <2>2, ReturnHandsOn DEF Term, entry
  <2>3. CASE r # "panic"
    <3> DEFINE fatal == r = "fatal" \/ (r = "retry" /\ snapshot[w][Activity(w)] + 1 >= MaxRetries)
               next == IF fatal THEN "fatal" ELSE r
    <3>1. next \notin {"ack", "enqueue"}
      BY <2>3, BoundsAssumption DEF ActivityResults
    <3>2. /\ pc' = [pc EXCEPT ![w] = next] /\ UNCHANGED <<stream, window, held>>
          /\ \A x \in Workers : x # w => verdict'[x] = verdict[x]
          /\ completed' = completed /\ responses' = responses /\ state' = state
          /\ verdict'[w] \in {"failure", verdict[w]}
      BY <2>1, <2>3 DEF entry, HandInv, StepsInv, TypeOK
    <3> HIDE DEF next
    <3>3. QED
      BY <3>1, <3>2, GotoHandsOn
  <2>4. QED
    BY <2>2, <2>3
<1>2. CASE PersistAndNak(w)
  <2>1. stream' = Settled(stream, held[w], "queued") /\ pc[w] # "idle"
    BY <1>2 DEF PersistAndNak, Nak
  <2>2. QED
    BY <1>2, <2>1, ReturnHandsOn DEF PersistAndNak
<1>3. CASE PersistAndWait(w)
  <2>1. CASE Return(w)
    <3>1. stream' = Settled(stream, held[w], "queued") /\ pc[w] # "idle"
      BY <1>3, <2>1 DEF PersistAndWait, Nak, Goto, Return, HandInv, StepsInv, TypeOK
    <3>2. QED
      BY <1>3, <2>1, <3>1, ReturnHandsOn DEF PersistAndWait
  <2>2. CASE ~Return(w)
    <3>1. /\ pc' = [pc EXCEPT ![w] = "park"] /\ UNCHANGED <<stream, held, verdict>>
      BY <1>3, <2>2 DEF PersistAndWait, Goto
    <3>2. QED
      BY <1>3, <3>1, GotoHandsOn DEF PersistAndWait
  <2>3. QED
    BY <2>1, <2>2
<1>4. CASE HandleFatalError(w)
  BY <1>4, GotoHandsOn DEF HandleFatalError, Goto, queue, Terminal
<1>5. CASE CompleteActivity(w)
  <2>1. pc' = [pc EXCEPT ![w] = AfterCompletion(w)] /\ pc[w] = "complete" /\ state' = state
    BY <1>5 DEF CompleteActivity, Goto
  <2>2. completed' = completed \union {Activity(w)} /\ verdict' = verdict /\ responses' = responses
        /\ UNCHANGED <<stream, window, held>>
    BY <1>5 DEF CompleteActivity, queue
  <2>3. AfterCompletion(w) = "enqueue" => GetNextStepActivities(Activity(w)) # {}
    BY DEF AfterCompletion
  <2>4. AfterCompletion(w) = "ack" =>
          Over' \/ ~(StepActivities(StepOf[Activity(w)]) \subseteq completed')
    BY <2>1, <2>2 DEF AfterCompletion, CanProceedToNextStep, Over, GivenUp
  <2>5. PICK next : next = AfterCompletion(w)
    OBVIOUS
  <2>6. QED
    BY <2>1, <2>2, <2>3, <2>4, <2>5, GotoHandsOn
<1>6. CASE EnqueueNext(w)
  <2> DEFINE a == Activity(w)
  <2>1. a \in Activities /\ StepActivities(StepOf[a]) \subseteq completed
        /\ GetNextStepActivities(a) # {}
    BY <1>6, HeldInOrder DEF EnqueueNext, Goto, HandInv, StepsInv, WorkerKnows
  <2>2. GetNextStepActivities(a) \in SUBSET Activities /\ a \in StepActivities(StepOf[a])
    BY <2>1 DEF GetNextStepActivities, StepActivities
  <2>3. /\ pc' = [pc EXCEPT ![w] = "ack"]
        /\ stream' = Published(GetNextStepActivities(a))
        /\ window' = window \union GetNextStepActivities(a)
        /\ UNCHANGED <<entry, held, verdict, responses>>
    BY <1>6 DEF EnqueueNext, Goto, EnqueueActivityMessages
  <2>4. StreamStep /\ WindowOK' /\ \A b \in GetNextStepActivities(a) : Enqueued(b)'
    BY <2>2, <2>3, PublishedIs, EnqueueKeeps DEF HandInv, StepsInv, StreamStep
  <2>5. Over => Over'
    BY <2>3, <2>4, OverStays DEF entry
  <2>6. a' = a /\ GetNextStepActivities(a)' = GetNextStepActivities(a)
    BY <2>3 DEF Activity, GetNextStepActivities, StepActivities
  <2>7. Activity(w)' \in completed' /\ ~Open(Activity(w))'
    BY <2>1, <2>2, <2>3, <2>4, <2>6 DEF Open, entry
  <2>8. pc'[w] = "ack" /\ \A x \in Workers : x # w => pc'[x] = pc[x]
    BY <2>3 DEF HandInv, StepsInv, TypeOK
  <2>9. QED
    BY <2>3, <2>4, <2>5, <2>7, <2>8, WorkerHandsOn DEF entry
<1>7. CASE Finish(w)
  <2>1. Over'
    BY <1>7 DEF Finish, Over
  <2>2. \A x \in Workers : x # w => verdict'[x] = verdict[x]
    BY <1>7 DEF Finish, HandInv, StepsInv, TypeOK
  <2>3. QED
    BY <1>7, <2>1, <2>2, GotoHandsOn DEF Finish, Goto, queue, Terminal
<1>8. CASE PublishResponse(w)
  <2>1. verdict[w] \in {"success", "failure"} /\ responses' = responses \union {verdict[w]}
        /\ stream' = stream /\ state' = state
    BY <1>8 DEF PublishResponse, Goto, HandInv, StepsInv, TypeOK, entry, queue
  <2>2. Over'
    <3>1. CASE verdict[w] = "failure"
      BY <2>1, <3>1 DEF Over, GivenUp
    <3>2. CASE verdict[w] = "success"
      BY <2>1, <3>2, OverStays, StillStep DEF HandInv
    <3>3. QED
      BY <2>1, <3>1, <3>2
  <2>3. QED
    BY <1>8, <2>1, <2>2, GotoHandsOn DEF PublishResponse, Goto, entry, queue
<1>9. CASE AckMessage(w)
  BY <1>9, ReturnHandsOn DEF AckMessage, entry
<1>10. QED
  BY <1>1, <1>2, <1>3, <1>4, <1>5, <1>6, <1>7, <1>8, <1>9 DEF Handle

\* ... not even when they fail.
LEMMA HandleFailsHandsOn ==
  ASSUME HandInv, StepsInv', NEW w \in Workers, HandleFails(w)
  PROVE  HandInv'
<1>1. CASE CompleteActivityFails(w)
  <2>1. stream' = Settled(stream, held[w], "queued") /\ pc[w] = "complete"
        /\ (completed' = completed \/ completed' = completed \union {Activity(w)})
    BY <1>1 DEF CompleteActivityFails, Nak
  <2>2. QED
    BY <1>1, <2>1, ReturnHandsOn DEF CompleteActivityFails
<1>2. CASE EnqueueNextFails(w)
  <2>1. PICK S \in SUBSET GetNextStepActivities(Activity(w)) :
          /\ stream' = Settled(Published(S), held[w], "queued")
          /\ window' = window \union S
    BY <1>2 DEF EnqueueNextFails
  <2>2. /\ pc[w] = "enqueue" /\ Return(w) /\ UNCHANGED <<entry, responses>>
        /\ held[w] \in Messages /\ stream[held[w]] # "absent"
    BY <1>2, HeldInOrder DEF EnqueueNextFails, HandInv, StepsInv, WorkerKnows
  <2>3. S \in SUBSET Activities
    BY DEF GetNextStepActivities, StepActivities
  <2>4. Published(S) \in [Messages -> StreamStates]
    BY <2>3, PublishedFacts DEF HandInv, StepsInv, TypeOK, StreamStates
  <2>5. \A m \in Messages : stream'[m] = IF m = held[w] /\ Published(S)[m] \in Live
                                         THEN "queued" ELSE Published(S)[m]
    BY <2>1, <2>2, <2>4 DEF Settled
  <2>6. \A m \in Messages : \/ Published(S)[m] = stream[m]
                            \/ stream[m] = "absent" /\ Published(S)[m] = "queued"
    BY <2>3, PublishedIs DEF HandInv, StepsInv
  <2>7. StreamStep
    BY <2>2, <2>5, <2>6 DEF StreamStep, Live
  <2>8. WindowOK'
    BY <2>1, <2>2, <2>3, <2>5, <2>6, EnqueueKeeps DEF HandInv, StepsInv, Live
  <2>9. Over => Over'
    BY <2>2, <2>7, OverStays DEF entry
  <2>10. /\ \A x \in Workers : x # w =>
              pc'[x] = pc[x] /\ held'[x] = held[x] /\ verdict'[x] = verdict[x]
         /\ pc'[w] = "idle" /\ verdict'[w] = "none"
    BY <2>2 DEF Return, HandInv, StepsInv, TypeOK
  <2>11. QED
    BY <2>2, <2>7, <2>8, <2>9, <2>10, WorkerHandsOn DEF entry
<1>3. CASE FinishFails(w)
  <2>1. stream' = Settled(stream, held[w], "queued") /\ pc[w] = "finish"
        /\ (state \in Terminal => state' \in Terminal)
    BY <1>3 DEF FinishFails, Nak, Terminal
  <2>2. QED
    BY <1>3, <2>1, ReturnHandsOn DEF FinishFails
<1>4. CASE Abandon(w)
  BY <1>4, ReturnHandsOn DEF Abandon, entry, queue
<1>5. QED
  BY <1>1, <1>2, <1>3, <1>4 DEF HandleFails

\* HandInv is inductive: as long as the orchestration is neither decided nor
\* given up, an activity that has a message and is not complete keeps one, and a
\* step that is complete keeps one of its activities' messages until all of the
\* next step are in the stream.
THEOREM HandInvariant == Spec => []HandInv
<1>1. Init => HandInv
  <2>1. SUFFICES ASSUME Init PROVE HandInv
    OBVIOUS
  <2>2. StepsInv
    BY <2>1, TypeAtInit DEF Init, StepsInv, PublishedInOrder, WorkerKnows, StarterKnows,
       SuccessMeansAllCompleted
  <2>3. \A a \in Activities, c \in Copies : stream[<<a, c>>] = "absent"
    BY <2>1 DEF Init, Messages
  <2>4. ASSUME NEW a \in Activities PROVE a \in StepActivities(StepOf[a]) /\ ~Enqueued(a)
    BY <2>3 DEF StepActivities, Enqueued
  <2>5. WindowOK /\ Handoff
    BY <2>1, <2>3, <2>4, BoundsAssumption DEF Init, WindowOK, Handoff, Open
  <2>6. QED
    BY <2>1, <2>2, <2>5 DEF Init, HandInv
<1>2. HandInv /\ [Next]_vars => HandInv'
  <2>1. SUFFICES ASSUME HandInv, [Next]_vars PROVE HandInv'
    OBVIOUS
  <2>2. StepsInv'
    BY <2>1, StepsStep DEF HandInv
  <2>3. QED
    BY <2>1, <2>2, StarterHandsOn, HandleHandsOn, HandleFailsHandsOn, FetchHandsOn, BrokerHandsOn
    DEF Next
<1>3. QED
  BY <1>1, <1>2, PTL DEF Spec

\* NoLostHandoff: whatever the faults, the lost heartbeats and the duplicates,
\* some message obliges a worker to do what comes next until the orchestration is
\* completed or given up; for every plan and any number of workers and copies.
THEOREM NoLostHandoffHolds == Spec => []NoLostHandoff
<1>1. HandInv => NoLostHandoff
  <2>1. SUFFICES ASSUME HandInv, ~GivenUp PROVE NoLostHandoff
    BY DEF NoLostHandoff
  <2>2. CASE state = "Completed"
    <3>0. completed = Activities
      BY <2>1, <2>2 DEF HandInv, StepsInv, SuccessMeansAllCompleted
    <3>1. ASSUME NEW a \in Activities PROVE a \in completed /\ Enqueued(a)
      BY <2>1, <3>0 DEF HandInv
    <3>2. ASSUME NEW a \in Activities
          PROVE  ~ IF GetNextStepActivities(a) = {} THEN state # "Completed"
                   ELSE \E b \in GetNextStepActivities(a) : ~Enqueued(b)
      BY <2>2, <3>1 DEF GetNextStepActivities, StepActivities
    <3>3. QED
      BY <3>1, <3>2 DEF NoLostHandoff
  <2>3. CASE state # "Completed"
    <3>1. Handoff
      BY <2>1, <2>3 DEF HandInv, Over
    <3>2. QED
      BY <3>1 DEF Handoff, NoLostHandoff, Open, Carried
  <2>4. QED
    BY <2>2, <2>3
<1>2. QED
  BY <1>1, HandInvariant, PTL

-----------------------------------------------------------------------------
\* The undisturbed case.

\* Heartbeats get through, and no message ID leaves the duplicate window while
\* its activity can be enqueued again.
Undisturbed == ~LostHeartbeats /\ \E c : Copies = {c}

\* Some message has reached the last delivery, on which its worker gives up.
Late == \E m \in Messages : deliveries[m] >= MaxDeliver

\* A message that is held is in flight, and has one holder.
HeldOnce ==
  \A w \in Workers : pc[w] # "idle" =>
    stream[held[w]] = "inflight" /\ \A x \in Workers : held[x] = held[w] => x = w

\* Whoever runs an activity, or gives it up, is not too late.
NotTooLate ==
  /\ \A w \in Workers : pc[w] = "run" => Activity(w) \notin completed
  /\ ~Late =>
       \A w \in Workers :
         /\ pc[w] = "fatal" => Activity(w) \notin completed
         /\ pc[w] = "finish" => state # "Errored"

\* The inductive invariant.
OnceInv == Undisturbed /\ HandInv /\ HeldOnce /\ NotTooLate

\* Two workers work on two activities.
LEMMA ApartIs ==
  ASSUME OnceInv, NEW w \in Workers, NEW x \in Workers, x # w, pc[w] # "idle", pc[x] # "idle"
  PROVE  Activity(x) # Activity(w) /\ held[x] # held[w]
<1>1. held[w] \in Messages /\ held[x] \in Messages
  BY HeldInOrder DEF OnceInv, HandInv
<1>2. PICK c : Copies = {c}
  BY DEF OnceInv, Undisturbed
<1>3. held[w] = <<Activity(w), c>> /\ held[x] = <<Activity(x), c>>
  BY <1>1, <1>2 DEF Messages, Activity
<1>4. held[x] # held[w]
  BY DEF OnceInv, HeldOnce
<1>5. QED
  BY <1>3, <1>4

\* Deliveries are not taken back.
LEMMA LateStays ==
  ASSUME TypeOK, Late, \/ deliveries' = deliveries
                       \/ \E m \in Messages : deliveries' = [deliveries EXCEPT ![m] = @ + 1]
  PROVE  Late'
<1>1. \A m \in Messages : deliveries'[m] \in Nat /\ deliveries'[m] >= deliveries[m]
  BY BoundsAssumption DEF TypeOK
<1>2. PICK m \in Messages : deliveries[m] >= MaxDeliver
  BY DEF Late
<1>3. deliveries'[m] >= MaxDeliver
  BY <1>1, <1>2, BoundsAssumption DEF TypeOK
<1>4. QED
  BY <1>3 DEF Late

\* A step in which one worker goes on, or returns and settles its message.
LEMMA OneWorker ==
  ASSUME OnceInv, HandInv', NEW w \in Workers, pc[w] # "idle", deliveries' = deliveries,
         \A x \in Workers : x # w => pc'[x] = pc[x] /\ held'[x] = held[x],
         pc'[w] = "idle" \/ held'[w] = held[w],
         \A m \in Messages : stream[m] = "inflight" =>
           stream'[m] = "inflight" \/ (m = held[w] /\ pc'[w] = "idle"),
         completed' \subseteq completed \/ (pc[w] = "complete" /\ completed' = completed \union {Activity(w)}),
         pc'[w] # "run",
         pc'[w] = "fatal" => (pc[w] = "run" \/ pc[w] = "fatal") /\ completed' = completed,
         pc'[w] = "finish" => state' # "Errored",
         state' = "Errored" => state = "Errored" \/ (pc[w] = "fatal" /\ completed' = completed)
  PROVE  OnceInv'
<1>1. /\ \A x \in Workers : x # w /\ pc[x] # "idle" =>
           Activity(x) # Activity(w) /\ held[x] # held[w] /\ Activity(x)' = Activity(x)
      /\ pc'[w] # "idle" => Activity(w)' = Activity(w)
  BY ApartIs DEF Activity
<1>2. \A x \in Workers : pc[x] # "idle" => held[x] \in Messages /\ Activity(x) \in Activities
  BY HeldInOrder DEF OnceInv, HandInv
<1>3. HeldOnce'
  <2>1. SUFFICES ASSUME NEW x \in Workers, pc'[x] # "idle"
                 PROVE  /\ stream'[held'[x]] = "inflight"
                        /\ \A y \in Workers : held'[y] = held'[x] => y = x
    BY DEF HeldOnce
  <2>2. pc[x] # "idle" /\ held'[x] = held[x]
    BY <2>1
  <2>3. stream'[held'[x]] = "inflight"
    BY <1>1, <1>2, <2>1, <2>2 DEF OnceInv, HeldOnce
  <2>4. ASSUME NEW y \in Workers, held'[y] = held'[x] PROVE y = x
    <3>1. held'[y] # NoMessage
      BY <1>2, <2>2, <2>4, NoMessageIsNone
    <3>2. pc'[y] # "idle"
      BY <3>1 DEF HandInv, StepsInv, TypeOK
    <3>3. held'[y] = held[y]
      BY <3>2
    <3>4. QED
      BY <2>2, <2>4, <3>3 DEF OnceInv, HeldOnce
  <2>5. QED
    BY <2>3, <2>4
<1>4. Late' <=> Late
  BY DEF Late
<1>5. ASSUME NEW x \in Workers
      PROVE  /\ pc'[x] = "run" => Activity(x)' \notin completed'
             /\ ~Late => /\ pc'[x] = "fatal" => Activity(x)' \notin completed'
                         /\ pc'[x] = "finish" => state' # "Errored"
  <2>1. pc[x] = "finish" /\ pc[w] = "fatal" => Late
    BY <1>2 DEF OnceInv, NotTooLate, HandInv, StepsInv, WorkerKnows
  <2>2. CASE x = w
    BY <1>1, <2>2 DEF OnceInv, NotTooLate
  <2>3. CASE x # w
    BY <1>1, <2>1, <2>3 DEF OnceInv, NotTooLate
  <2>4. QED
    BY <2>2, <2>3
<1>6. NotTooLate'
  BY <1>4, <1>5 DEF NotTooLate
<1>7. QED
  BY <1>3, <1>6 DEF OnceInv, Undisturbed

\* Settling the message a worker holds leaves the others in flight.
LEMMA SettledOthers ==
  ASSUME StepsInv, NEW w \in Workers, pc[w] # "idle", NEW outcome,
         stream' = Settled(stream, held[w], outcome)
  PROVE  \A m \in Messages : stream[m] = "inflight" => stream'[m] = "inflight" \/ m = held[w]
BY HeldInOrder DEF StepsInv, TypeOK, Settled

\* What Return and Goto do to the workers.
LEMMA MovesOne ==
  ASSUME TypeOK, NEW w \in Workers,
         Return(w) \/ (UNCHANGED held /\ \E next : pc' = [pc EXCEPT ![w] = next])
  PROVE  /\ \A x \in Workers : x # w => pc'[x] = pc[x] /\ held'[x] = held[x]
         /\ Return(w) => pc'[w] = "idle"
BY DEF TypeOK, Return

\* A worker's steps keep the invariant.
LEMMA HandleOnce ==
  ASSUME OnceInv, HandInv', NEW w \in Workers, Handle(w)
  PROVE  OnceInv'
<1>0. StepsInv /\ TypeOK
  BY DEF OnceInv, HandInv, StepsInv
<1>1. CASE RunActivity(w)
  <2>1. PICK r \in Results : RunActivity(w)!(r)
    BY <1>1 DEF RunActivity
  <2>2. CASE r = "panic"
    <3>1. Return(w) /\ stream' = Settled(stream, held[w], "termed") /\ pc[w] # "idle"
          /\ deliveries' = deliveries /\ completed' = completed /\ state' = state
      BY <2>1, <2>2 DEF Term, entry
    <3>2. QED
      BY <1>0, <3>1, SettledOthers, MovesOne, OneWorker
  <2>3. CASE r # "panic"
    <3> DEFINE fatal == r = "fatal" \/ (r = "retry" /\ snapshot[w][Activity(w)] + 1 >= MaxRetries)
               next == IF fatal THEN "fatal" ELSE r
    <3>1. next \notin {"ack", "enqueue", "run", "finish", "idle"}
      BY <2>3, BoundsAssumption DEF ActivityResults
    <3>2. /\ pc' = [pc EXCEPT ![w] = next] /\ UNCHANGED <<stream, held>>
          /\ deliveries' = deliveries /\ completed' = completed /\ state' = state /\ pc[w] = "run"
      BY <2>1, <2>3 DEF entry
    <3> HIDE DEF next
    <3>3. pc'[w] = next
      BY <1>0, <3>2 DEF TypeOK
    <3>4. QED
      BY <1>0, <3>1, <3>2, <3>3, MovesOne, OneWorker
  <2>4. QED
    BY <2>2, <2>3
<1>2. CASE PersistAndNak(w)
  <2>1. Return(w) /\ stream' = Settled(stream, held[w], "queued") /\ pc[w] # "idle"
        /\ deliveries' = deliveries /\ completed' = completed /\ state' = state
    BY <1>2 DEF PersistAndNak, Nak
  <2>2. QED
    BY <1>0, <2>1, SettledOthers, MovesOne, OneWorker
<1>3. CASE PersistAndWait(w)
  <2>1. deliveries' = deliveries /\ completed' = completed /\ state' = state
    BY <1>3 DEF PersistAndWait
  <2>2. CASE Return(w)
    <3>1. stream' = Settled(stream, held[w], "queued") /\ pc[w] # "idle"
      BY <1>0, <1>3, <2>2 DEF PersistAndWait, Nak, Goto, Return, TypeOK
    <3>2. QED
      BY <1>0, <2>1, <2>2, <3>1, SettledOthers, MovesOne, OneWorker
  <2>3. CASE ~Return(w)
    <3>1. /\ pc' = [pc EXCEPT ![w] = "park"] /\ UNCHANGED <<stream, held>> /\ pc[w] = "wait"
      BY <1>3, <2>3 DEF PersistAndWait, Goto
    <3>2. pc'[w] = "park"
      BY <1>0, <3>1 DEF TypeOK
    <3>3. QED
      BY <1>0, <2>1, <3>1, <3>2, MovesOne, OneWorker
  <2>4. QED
    BY <2>2, <2>3
<1>4. CASE HandleFatalError(w)
  <2>1. /\ pc[w] = "fatal" /\ pc' = [pc EXCEPT ![w] = "respond"] /\ UNCHANGED <<stream, held>>
        /\ deliveries' = deliveries /\ completed' = completed
    BY <1>4 DEF HandleFatalError, Goto, queue
  <2>2. pc'[w] = "respond"
    BY <1>0, <2>1 DEF TypeOK
  <2>3. QED
    BY <1>0, <2>1, <2>2, MovesOne, OneWorker
<1>5. CASE CompleteActivity(w)
  <2>1. /\ pc[w] = "complete" /\ pc' = [pc EXCEPT ![w] = AfterCompletion(w)]
        /\ UNCHANGED <<stream, held>> /\ deliveries' = deliveries /\ state' = state
        /\ completed' = completed \union {Activity(w)}
    BY <1>5 DEF CompleteActivity, Goto, queue
  <2>2. pc'[w] \in {"ack", "finish", "enqueue"} /\ (pc'[w] = "finish" => state # "Errored")
    BY <1>0, <2>1 DEF TypeOK, AfterCompletion
  <2>3. QED
    BY <1>0, <2>1, <2>2, MovesOne, OneWorker
<1>6. CASE EnqueueNext(w)
  <2>1. /\ pc[w] = "enqueue" /\ pc' = [pc EXCEPT ![w] = "ack"] /\ UNCHANGED held
        /\ deliveries' = deliveries /\ completed' = completed /\ state' = state
        /\ stream' = Published(GetNextStepActivities(Activity(w)))
    BY <1>6 DEF EnqueueNext, Goto, EnqueueActivityMessages, entry
  <2>2. GetNextStepActivities(Activity(w)) \in SUBSET Activities
    BY DEF GetNextStepActivities, StepActivities
  <2>3. \A m \in Messages : stream[m] = "inflight" => stream'[m] = "inflight"
    BY <1>0, <2>1, <2>2, PublishedIs DEF OnceInv, HandInv
  <2>4. pc'[w] = "ack"
    BY <1>0, <2>1 DEF TypeOK
  <2>5. QED
    BY <1>0, <2>1, <2>3, <2>4, MovesOne, OneWorker
<1>7. CASE Finish(w)
  <2>1. /\ pc[w] = "finish" /\ pc' = [pc EXCEPT ![w] = "respond"] /\ UNCHANGED <<stream, held>>
        /\ deliveries' = deliveries /\ completed' = completed /\ state' = "Completed"
    BY <1>7 DEF Finish, Goto, queue
  <2>2. pc'[w] = "respond"
    BY <1>0, <2>1 DEF TypeOK
  <2>3. QED
    BY <1>0, <2>1, <2>2, MovesOne, OneWorker
<1>8. CASE PublishResponse(w)
  <2>1. /\ pc[w] = "respond" /\ pc' = [pc EXCEPT ![w] = "ack"] /\ UNCHANGED <<stream, held>>
        /\ deliveries' = deliveries /\ completed' = completed /\ state' = state
    BY <1>8 DEF PublishResponse, Goto, queue, entry
  <2>2. pc'[w] = "ack"
    BY <1>0, <2>1 DEF TypeOK
  <2>3. QED
    BY <1>0, <2>1, <2>2, MovesOne, OneWorker
<1>9. CASE AckMessage(w)
  <2>1. PICK outcome : stream' = Settled(stream, held[w], outcome)
    BY <1>9 DEF AckMessage
  <2>2. Return(w) /\ pc[w] # "idle"
        /\ deliveries' = deliveries /\ completed' = completed /\ state' = state
    BY <1>9 DEF AckMessage, entry
  <2>3. QED
    BY <1>0, <2>1, <2>2, SettledOthers, MovesOne, OneWorker
<1>10. QED
  BY <1>1, <1>2, <1>3, <1>4, <1>5, <1>6, <1>7, <1>8, <1>9 DEF Handle

\* ... and so do those that fail.
LEMMA HandleFailsOnce ==
  ASSUME OnceInv, HandInv', NEW w \in Workers, HandleFails(w)
  PROVE  OnceInv'
<1>0. StepsInv /\ TypeOK
  BY DEF OnceInv, HandInv, StepsInv
<1>1. Return(w) /\ deliveries' = deliveries /\ pc[w] # "idle"
  BY DEF HandleFails, CompleteActivityFails, EnqueueNextFails, FinishFails, Abandon, queue
<1>2. /\ state' \in {state, "Completed"}
      /\ \/ completed' = completed
         \/ pc[w] = "complete" /\ completed' = completed \union {Activity(w)}
  BY DEF HandleFails, CompleteActivityFails, EnqueueNextFails, FinishFails, Abandon, entry
<1>3. \A m \in Messages : stream[m] = "inflight" => stream'[m] = "inflight" \/ m = held[w]
  <2>1. CASE EnqueueNextFails(w)
    <3>1. PICK S \in SUBSET GetNextStepActivities(Activity(w)) :
            stream' = Settled(Published(S), held[w], "queued")
      BY <2>1 DEF EnqueueNextFails
    <3>2. S \in SUBSET Activities /\ held[w] \in Messages
      BY <1>0, <1>1, HeldInOrder DEF GetNextStepActivities, StepActivities
    <3>3. Published(S) \in [Messages -> StreamStates]
      BY <1>0, <3>2, PublishedFacts DEF TypeOK, StreamStates
    <3>4. \A m \in Messages : stream[m] = "inflight" => Published(S)[m] = "inflight"
      BY <1>0, <3>2, PublishedIs DEF OnceInv, HandInv
    <3>5. QED
      BY <3>1, <3>2, <3>3, <3>4 DEF Settled
  <2>2. CASE ~EnqueueNextFails(w)
    <3>1. stream' = stream \/ stream' = Settled(stream, held[w], "queued")
      BY <2>2 DEF HandleFails, CompleteActivityFails, FinishFails, Abandon, queue, Nak
    <3>2. QED
      BY <1>0, <1>1, <3>1, SettledOthers
  <2>3. QED
    BY <2>1, <2>2
<1>4. QED
  BY <1>0, <1>1, <1>2, <1>3, MovesOne, OneWorker

\* A step that moves no worker and lets go of no message that is held.
LEMMA NobodyMoves ==
  ASSUME OnceInv, HandInv', UNCHANGED <<pc, held, completed>>,
         \A w \in Workers : pc[w] # "idle" => stream'[held[w]] = stream[held[w]],
         state' = "Errored" => state = "Errored",
         Late => Late'
  PROVE  OnceInv'
<1>1. \A w \in Workers : Activity(w)' = Activity(w)
  BY DEF Activity
<1>2. HeldOnce'
  BY DEF OnceInv, HeldOnce
<1>3. NotTooLate'
  BY <1>1 DEF OnceInv, NotTooLate
<1>4. QED
  BY <1>2, <1>3 DEF OnceInv, Undisturbed

\* A starter keeps the invariant.
LEMMA StarterOnce ==
  ASSUME OnceInv, HandInv', NEW s \in Starters, Start(s) \/ StoreRefused(s) \/ StarterFails(s)
  PROVE  OnceInv'
<1>1. /\ completed' = completed /\ pc' = pc /\ held' = held /\ deliveries' = deliveries
      /\ state' = "Errored" => state = "Errored"
  BY DEF Start, Store, EnqueueInitial, MarkRunning, StoreRefused, StarterFails, entry, local, queue,
     EnqueueActivityMessages
<1>2. \/ stream' = stream
      \/ \E S \in SUBSET GetInitialActivities : EnqueueActivityMessages(S)
  BY DEF Start, Store, EnqueueInitial, MarkRunning, StoreRefused, StarterFails, queue
<1>3. \A m \in Messages : stream[m] # "absent" => stream'[m] = stream[m]
  <2>1. ASSUME NEW S \in SUBSET GetInitialActivities, stream' = Published(S),
               NEW m \in Messages, stream[m] # "absent"
        PROVE  stream'[m] = stream[m]
    <3>1. S \in SUBSET Activities
      BY DEF GetInitialActivities, StepActivities
    <3>2. QED
      BY <2>1, <3>1, PublishedIs DEF OnceInv, HandInv, StepsInv
  <2>2. QED
    BY <1>2, <2>1 DEF EnqueueActivityMessages
<1>4. \A w \in Workers : pc[w] # "idle" => held[w] \in Messages /\ stream[held[w]] # "absent"
  BY HeldInOrder DEF OnceInv, HandInv, StepsInv, WorkerKnows
<1>5. Late => Late'
  BY <1>1 DEF Late
<1>6. QED
  BY <1>1, <1>3, <1>4, <1>5, NobodyMoves

\* Redelivery takes no message from its holder.
LEMMA BrokerOnce ==
  ASSUME OnceInv, HandInv',
         \/ \E m \in Messages : AckWaitExpires(m) \/ HeartbeatsLost(m)
         \/ \E a \in Activities : DuplicateWindowPasses(a)
         \/ UNCHANGED vars
  PROVE  OnceInv'
<1>1. /\ UNCHANGED <<pc, held, completed, state, deliveries>>
      /\ \/ stream' = stream
         \/ \E m \in Messages : AckWaitExpires(m)
  BY DEF AckWaitExpires, HeartbeatsLost, DuplicateWindowPasses, vars, local, entry, queue, OnceInv,
     Undisturbed
<1>2. \A w \in Workers : pc[w] # "idle" => held[w] \in Messages
  BY HeldInOrder DEF OnceInv, HandInv
<1>3. ASSUME NEW w \in Workers, pc[w] # "idle" PROVE stream'[held[w]] = stream[held[w]]
  BY <1>1, <1>2, <1>3 DEF AckWaitExpires, OnceInv, HandInv, StepsInv, TypeOK
<1>4. Late => Late'
  BY <1>1 DEF Late
<1>5. QED
  BY <1>1, <1>3, <1>4, NobodyMoves

\* A worker takes a message that nobody holds.
LEMMA FetchOnce ==
  ASSUME OnceInv, HandInv', NEW w \in Workers, NEW m \in Messages, Fetch(w, m) \/ ReadFails(w, m)
  PROVE  OnceInv'
<1>0. TypeOK
  BY DEF OnceInv, HandInv, StepsInv
<1>1. /\ stream[m] = "queued" /\ pc[w] = "idle" /\ completed' = completed /\ state' = state
      /\ deliveries' = [deliveries EXCEPT ![m] = @ + 1]
      /\ \E s \in {"inflight", "termed"} : stream' = [stream EXCEPT ![m] = s]
  BY DEF Fetch, ReadFails, Delivered, entry
<1>2. Late => Late'
  BY <1>0, <1>1, LateStays
<1>3. \A x \in Workers : pc[x] # "idle" =>
        held[x] \in Messages /\ held[x] # m /\ stream'[held[x]] = stream[held[x]]
  BY <1>0, <1>1, HeldInOrder DEF OnceInv, HandInv, HeldOnce, TypeOK
<1>4. CASE ReadFails(w, m)
  BY <1>1, <1>2, <1>3, <1>4, NobodyMoves DEF ReadFails, local
<1>5. CASE Fetch(w, m)
  <2>1. /\ held' = [held EXCEPT ![w] = m] /\ stream' = [stream EXCEPT ![m] = "inflight"]
        /\ pc' = [pc EXCEPT ![w] = NextStepFor(m[1], IsFinalDelivery(m))]
    BY <1>5 DEF Fetch
  <2>2. /\ held'[w] = m /\ stream'[m] = "inflight"
        /\ pc'[w] \in {"fatal", "run", "ack", "complete"}
        /\ pc'[w] = "run" => m[1] \notin completed
        /\ pc'[w] = "fatal" => IsFinalDelivery(m)
        /\ \A x \in Workers : x # w => pc'[x] = pc[x] /\ held'[x] = held[x]
    BY <1>0, <2>1 DEF TypeOK, NextStepFor
  <2>3. IsFinalDelivery(m) => Late'
    BY <1>0, <1>1 DEF IsFinalDelivery, Late, TypeOK
  <2>4. HeldOnce'
    <3>1. m # NoMessage /\ \A x \in Workers : pc[x] = "idle" => held[x] = NoMessage
      BY <1>0, NoMessageIsNone DEF TypeOK
    <3>2. \A x \in Workers : x # w => held'[x] # m
      BY <1>3, <2>2, <3>1
    <3>3. QED
      BY <1>3, <2>2, <3>1, <3>2 DEF OnceInv, HeldOnce
  <2>5. NotTooLate'
    BY <1>1, <1>2, <2>2, <2>3 DEF OnceInv, NotTooLate, Activity
  <2>6. QED
    BY <2>4, <2>5 DEF OnceInv, Undisturbed
<1>6. QED
  BY <1>4, <1>5

\* Every step preserves the invariant.
LEMMA OnceStep ==
  ASSUME OnceInv, HandInv', [Next]_vars
  PROVE  OnceInv'
BY StarterOnce, HandleOnce, HandleFailsOnce, FetchOnce, BrokerOnce DEF Next

\* OnceInv is inductive when heartbeats get through and an activity has one
\* message: it has one holder then, and nobody else completes it meanwhile.
THEOREM OnceInvariant == Undisturbed /\ Spec => []OnceInv
<1>1. Undisturbed /\ Init /\ HandInv => OnceInv
  BY DEF Init, OnceInv, HeldOnce, NotTooLate
<1>2. OnceInv /\ HandInv' /\ [Next]_vars => OnceInv'
  BY OnceStep
<1>3. QED
  BY <1>1, <1>2, HandInvariant, PTL DEF Spec

\* NoRerun: in the undisturbed case processMessage never runs an activity that is
\* in the Completed map, however often workers die and messages are redelivered.
THEOREM NoRerunHolds == Undisturbed /\ Spec => []NoRerun
<1>1. OnceInv => NoRerun
  BY DEF OnceInv, NotTooLate, NoRerun
<1>2. QED
  BY <1>1, OnceInvariant, PTL

\* VerdictIsFinal: in the undisturbed case, and as long as no message reaches its
\* last delivery, Completed and Errored are final for the index watcher.
THEOREM VerdictIsFinalHolds ==
  Undisturbed /\ Spec /\ []~Late => VerdictIsFinal
<1>1. ASSUME OnceInv, ~Late, [Next]_vars
      PROVE  [(state \in Terminal) => state' = state]_vars
  <2>1. SUFFICES ASSUME Next, state \in Terminal PROVE state' = state
    BY <1>1
  <2>2. CASE \E s \in Starters : Start(s) \/ StoreRefused(s) \/ StarterFails(s)
    BY <2>1, <2>2 DEF Terminal, Start, Store, EnqueueInitial, MarkRunning, StoreRefused,
       StarterFails, entry
  <2>3. ASSUME NEW w \in Workers, Handle(w) \/ HandleFails(w)
        PROVE  state' = state
    <3>1. pc[w] = "fatal" => state # "Completed"
      <4>1. pc[w] = "fatal" => Activity(w) \in Activities /\ Activity(w) \notin completed
        BY <1>1, HeldInOrder DEF OnceInv, HandInv, NotTooLate
      <4>2. QED
        BY <1>1, <4>1 DEF OnceInv, HandInv, StepsInv, SuccessMeansAllCompleted
    <3>2. pc[w] = "finish" => state # "Errored"
      BY <1>1 DEF OnceInv, NotTooLate
    <3>3. \/ state' = state
          \/ pc[w] = "fatal" /\ state' = "Errored"
          \/ pc[w] = "finish" /\ state' = "Completed"
      BY <2>3 DEF Handle, HandleFails, RunActivity, PersistAndNak, PersistAndWait, HandleFatalError,
         CompleteActivity, EnqueueNext, Finish, PublishResponse, AckMessage, CompleteActivityFails,
         EnqueueNextFails, FinishFails, Abandon, Goto, entry
    <3>4. QED
      BY <2>1, <3>1, <3>2, <3>3 DEF Terminal
  <2>4. CASE \/ \E w \in Workers, m \in Messages : Fetch(w, m) \/ ReadFails(w, m)
             \/ \E m \in Messages : AckWaitExpires(m) \/ HeartbeatsLost(m)
             \/ \E a \in Activities : DuplicateWindowPasses(a)
    BY <2>4 DEF Fetch, ReadFails, AckWaitExpires, HeartbeatsLost, DuplicateWindowPasses, entry
  <2>5. QED
    BY <2>1, <2>2, <2>3, <2>4 DEF Next
<1>2. QED
  BY <1>1, OnceInvariant, PTL DEF Spec, VerdictIsFinal
=============================================================================
