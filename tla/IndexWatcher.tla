----------------------------- MODULE IndexWatcher -----------------------------
(***************************************************************************)
(* OrchestrationIndexWatcher: the Provision Manager's replicas share a     *)
(* consumer of the KV bucket's stream, record the state of an orchestration *)
(* in the index and start its compensation when it fails.                  *)
(*                                                                         *)
(* The bucket keeps one revision of a key: an update that was not          *)
(* delivered before the next one, or is to be delivered again, is gone.    *)
(* An index transaction reads committed rows; a row it wrote is locked     *)
(* until it ends.                                                          *)
(***************************************************************************)
EXTENDS Naturals

CONSTANTS
  Replicas,      \* the watchers, one per replica
  MaxRevision,   \* bound: revisions of the orchestration's KV entry
  MaxFaults      \* bound: failing calls, crashes, lost heartbeats

ASSUME WatcherAssumption ==
  /\ MaxRevision \in Nat
  /\ MaxFaults \in Nat
  /\ "nobody" \notin Replicas

VARIABLES
  compensable,   \* the orchestration is no VPA dispose, and the definition's
                 \* template has exactly one dispose definition
  kv,            \* State of the orchestration's KV entry
  revision,      \* its revision
  pending,       \* is the entry's last revision to be delivered (again)?
  index,         \* State of its committed index entry, or "none"
  locked,        \* the replica whose transaction wrote the index entry
  compensation,  \* the orchestration with its CompensationID
  pc,            \* where each replica is in onMessage
  held,          \* the state and revision in the message it handles
  faults         \* how many of MaxFaults have happened

entry == <<kv, revision>>
handler == <<pc, held>>
vars == <<compensable, entry, pending, index, locked, compensation, handler, faults>>

States == {"Initialized", "Running", "Completed", "Errored"}
Terminal == {"Completed", "Errored"}
Nobody == "nobody"
NoMessage == [state |-> "none", revision |-> 0]

Fault ==
  /\ faults < MaxFaults
  /\ faults' = faults + 1

-----------------------------------------------------------------------------
\* The orchestration and the stream behind the bucket.

\* Orchestration's writes, as OrchestrationLifecycle promises them, after which
\* the last revision replaces the others.  A terminal state stays (while
\* Orchestration's VerdictIsFinal holds), but activities that run in parallel
\* still update the entry.
Update(s) ==
  /\ revision < MaxRevision
  /\ \/ kv = "none" /\ s = "Initialized"
     \/ kv = "Initialized" /\ s \in States
     \/ kv = "Running" /\ s \in States \ {"Initialized"}
     \/ kv \in Terminal /\ s = kv
  /\ kv' = s
  /\ revision' = revision + 1
  /\ pending' = TRUE
  /\ UNCHANGED <<compensable, index, locked, compensation, handler, faults>>

\* A message that is not acked is delivered again if it still exists.
Redelivered(r) == pending' = (pending \/ held[r].revision = revision)

\* Heartbeats do not reach the server while the message is handled.
HeartbeatsLost(r) ==
  /\ Fault
  /\ pc[r] # "idle"
  /\ Redelivered(r)
  /\ UNCHANGED <<compensable, entry, index, locked, compensation, handler>>

-----------------------------------------------------------------------------
\* onMessage.

Goto(r, here, next) ==
  /\ pc[r] = here
  /\ pc' = [pc EXCEPT ![r] = next]

Unlock(r) == locked' = IF locked = r THEN Nobody ELSE locked

Return(r) ==
  /\ pc' = [pc EXCEPT ![r] = "idle"]
  /\ held' = [held EXCEPT ![r] = NoMessage]

\* Mutant: the transaction is left open.
RollbackAndNak_Open(r) ==
  /\ Return(r)
  /\ Redelivered(r)
  /\ UNCHANGED locked

\* The transaction is rolled back and the message rejected.
RollbackAndNak(r) ==
  /\ Return(r)
  /\ Unlock(r)
  /\ Redelivered(r)

Fetch(r) ==
  /\ pending
  /\ pending' = FALSE
  /\ Goto(r, "idle", "find")
  /\ held' = [held EXCEPT ![r] = [state |-> kv, revision |-> revision]]
  /\ UNCHANGED <<compensable, entry, index, locked, compensation, faults>>

\* Updates may arrive out of order: a terminal entry is not written again.
ToWrite(current, new) == current # new /\ current \notin Terminal

FindByID(r) ==
  /\ \/ index = "none" /\ Goto(r, "find", "create")
     \/ index # "none" /\ ToWrite(index, held[r].state) /\ Goto(r, "find", "update")
     \/ index # "none" /\ ~ToWrite(index, held[r].state) /\ Goto(r, "find", "ack")
  /\ UNCHANGED <<compensable, entry, pending, index, locked, compensation, held, faults>>

\* The entry is inserted and committed, unless another transaction did so since.
Create(r) ==
  /\ locked = Nobody
  /\ \/ /\ index = "none"
        /\ index' = held[r].state
        /\ Goto(r, "create", "ack")
        /\ UNCHANGED <<pending, locked, held>>
     \/ /\ index # "none"
        /\ pc[r] = "create"
        /\ RollbackAndNak(r)
        /\ UNCHANGED index
  /\ UNCHANGED <<compensable, entry, compensation, faults>>

\* Mutant: every failed orchestration is compensated, disposals too.
ToCompensate_Always(state) == state = "Errored"

ToCompensate(state) == state = "Errored" /\ compensable

\* The row is overwritten, whatever it has become since it was read, and locked.
UpdateEntry(r) ==
  /\ locked = Nobody
  /\ Goto(r, "update", IF ToCompensate(held[r].state) THEN "compensate" ELSE "commit")
  /\ locked' = r
  /\ UNCHANGED <<compensable, entry, pending, index, compensation, held, faults>>

\* startCompensationOrchestration: Start stores and starts it, or starts what an
\* earlier attempt stored.
StartCompensation(r) ==
  /\ Goto(r, "compensate", "commit")
  /\ compensation' = "started"
  /\ UNCHANGED <<compensable, entry, pending, index, locked, held, faults>>

\* Mutant: the error is ignored.
StartCompensationFails_Ignored(r) ==
  /\ Fault
  /\ Goto(r, "compensate", "commit")
  /\ compensation' \in {compensation, IF compensation = "none" THEN "stored" ELSE compensation}
  /\ UNCHANGED <<compensable, entry, pending, index, locked, held>>

\* Nothing, a part or all of it happened.
StartCompensationFails(r) ==
  /\ Fault
  /\ pc[r] = "compensate"
  /\ compensation' \in {compensation, IF compensation = "none" THEN "stored" ELSE compensation,
                        "started"}
  /\ RollbackAndNak(r)
  /\ UNCHANGED <<compensable, entry, index>>

Commit(r) ==
  /\ Goto(r, "commit", "ack")
  /\ index' = held[r].state
  /\ locked' = Nobody
  /\ UNCHANGED <<compensable, entry, pending, compensation, held, faults>>

\* Mutant: a message that was not recorded is acked.
TransactionFails_Acked(r) ==
  /\ Fault
  /\ pc[r] \in {"find", "create", "update", "commit"}
  /\ index' \in {index, IF pc[r] \in {"create", "commit"} THEN held[r].state ELSE index}
  /\ Return(r)
  /\ Unlock(r)
  /\ UNCHANGED <<compensable, entry, pending, compensation>>

\* A read or a write fails, or a commit, which may have happened nevertheless.
TransactionFails(r) ==
  /\ Fault
  /\ \/ /\ pc[r] \in {"find", "create", "update", "commit"}
        /\ UNCHANGED index
     \/ /\ pc[r] = "commit" \/ (pc[r] = "create" /\ index = "none" /\ locked = Nobody)
        /\ index' = held[r].state
  /\ RollbackAndNak(r)
  /\ UNCHANGED <<compensable, entry, compensation>>

Ack(r) ==
  /\ pc[r] = "ack"
  /\ Return(r)
  /\ UNCHANGED <<compensable, entry, pending, index, locked, compensation, faults>>

\* The process dies, or the ack fails.
Crash(r) ==
  /\ Fault
  /\ pc[r] # "idle"
  /\ RollbackAndNak(r)
  /\ UNCHANGED <<compensable, entry, index, compensation>>

-----------------------------------------------------------------------------
Init ==
  /\ compensable \in BOOLEAN
  /\ kv = "none"
  /\ revision = 0
  /\ pending = FALSE
  /\ index = "none"
  /\ locked = Nobody
  /\ compensation = "none"
  /\ pc = [r \in Replicas |-> "idle"]
  /\ held = [r \in Replicas |-> NoMessage]
  /\ faults = 0

onMessage(r) ==
  \/ FindByID(r) \/ Create(r) \/ UpdateEntry(r)
  \/ StartCompensation(r) \/ Commit(r) \/ Ack(r)

onMessageFails(r) == StartCompensationFails(r) \/ TransactionFails(r) \/ Crash(r)

Next ==
  \/ \E s \in States : Update(s)
  \/ \E r \in Replicas :
       Fetch(r) \/ onMessage(r) \/ onMessageFails(r) \/ HeartbeatsLost(r)

Spec == Init /\ [][Next]_vars

\* The watcher loop fetches and handles what it fetched.
FairSpec ==
  /\ Spec
  /\ WF_vars(\E r \in Replicas : Fetch(r))
  /\ \A r \in Replicas : WF_vars(onMessage(r))

-----------------------------------------------------------------------------
\* Properties.

\* Types; a transaction that is compensating or about to commit holds the row.
TypeOK ==
  /\ compensable \in BOOLEAN
  /\ kv \in States \union {"none"}
  /\ revision \in 0..MaxRevision
  /\ pending \in BOOLEAN
  /\ index \in States \union {"none"}
  /\ locked \in Replicas \union {Nobody}
  /\ compensation \in {"none", "stored", "started"}
  /\ pc \in [Replicas -> {"idle", "find", "create", "update", "compensate", "commit", "ack"}]
  /\ held \in [Replicas -> [state : States \union {"none"}, revision : 0..MaxRevision]]
  /\ faults \in 0..MaxFaults
  /\ \A r \in Replicas : pc[r] \in {"compensate", "commit"} <=> locked = r

\* No orchestration is rolled back that did not fail, no disposal is compensated
\* by another disposal.
CompensationIsJustified ==
  compensation # "none" => compensable /\ kv = "Errored"

\* An index entry moves to Errored only once the compensation has been started:
\* from then on redelivered updates are ignored, and nothing would start it.
ErrorIsIndexedAfterCompensation ==
  [][compensable /\ index \notin {"none", "Errored"} /\ index' = "Errored"
       => compensation' = "started"]_vars

\* However deliveries fail, the index shows in the end how the orchestration ended,
\* and no redelivered update takes that back.
IndexCatchesUp ==
  \A s \in Terminal : kv = s ~> [](index = s)

\* A failure of an orchestration that the index knows is compensated.
KnownErrorIsCompensated ==
  (compensable /\ kv = "Errored" /\ index \in {"Initialized", "Running"})
     ~> compensation = "started"

\* What the comment on onMessage says: it "starts a compensation when an
\* orchestration has failed".
EveryErrorIsCompensated ==
  (compensable /\ kv = "Errored") ~> compensation = "started"
=============================================================================
