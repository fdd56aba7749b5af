------------------------- MODULE IndexWatcherProofs -------------------------
(***************************************************************************)
(* What holds of IndexWatcher for every number of replicas, revisions and  *)
(* faults: types and the row lock, that no orchestration is compensated    *)
(* that did not fail, and that the index shows an error only once its      *)
(* compensation has been started.                                          *)
(***************************************************************************)
EXTENDS IndexWatcher, TLAPS

-----------------------------------------------------------------------------
\* The invariant.

\* A terminal state in a message is the entry's: it does not change any more.
HeldIsTrue ==
  /\ pending => kv # "none"
  /\ \A r \in Replicas :
       /\ pc[r] # "idle" => kv # "none"
       /\ held[r].state \in Terminal => kv = held[r].state

\* A replica starts a compensation for a failed orchestration only, and commits
\* the failure of one that is to be compensated only after that.
CompensatesErrors ==
  \A r \in Replicas :
    /\ pc[r] = "compensate" => ToCompensate(held[r].state)
    /\ pc[r] = "commit" /\ ToCompensate(held[r].state) => compensation = "started"

WInv ==
  /\ TypeOK
  /\ HeldIsTrue
  /\ CompensatesErrors
  /\ CompensationIsJustified

LEMMA WInit == Init => WInv
<1> SUFFICES ASSUME Init PROVE WInv
  OBVIOUS
<1>1. TypeOK
  <2>1. /\ revision \in 0..MaxRevision /\ faults \in 0..MaxFaults
        /\ held \in [Replicas -> [state : States \union {"none"}, revision : 0..MaxRevision]]
    BY WatcherAssumption DEF Init, NoMessage
  <2>2. \A r \in Replicas : pc[r] \notin {"compensate", "commit"} /\ locked # r
    BY WatcherAssumption DEF Init, Nobody
  <2>3. QED
    BY <2>1, <2>2 DEF Init, TypeOK
<1>2. HeldIsTrue /\ CompensatesErrors /\ CompensationIsJustified
  BY DEF Init, HeldIsTrue, CompensatesErrors, CompensationIsJustified, Terminal, NoMessage
<1>3. QED
  BY <1>1, <1>2 DEF WInv

-----------------------------------------------------------------------------
\* The steps.


\* The orchestration's own updates touch neither the replicas nor what is final.
LEMMA UpdateStep ==
  ASSUME WInv, NEW s \in States, Update(s)
  PROVE  WInv'
<1>1. TypeOK'
  BY WatcherAssumption DEF WInv, TypeOK, Update, States, handler
<1>2. kv \in Terminal => kv' = kv
  BY DEF Update, Terminal
<1>3. HeldIsTrue'
  BY <1>2 DEF WInv, HeldIsTrue, Update, States, handler, Terminal
<1>4. CompensatesErrors'
  BY DEF WInv, CompensatesErrors, ToCompensate, Update, handler
<1>5. CompensationIsJustified'
  BY <1>2 DEF WInv, CompensationIsJustified, Update, Terminal
<1>6. QED
  BY <1>1, <1>3, <1>4, <1>5 DEF WInv

\* A replica that goes back to idle lets go of its message and its lock.
LEMMA ReturnStep ==
  ASSUME WInv, NEW r \in Replicas, Return(r), Unlock(r),
         index' \in States \union {"none"}, pending' \in BOOLEAN,
         faults' \in 0..MaxFaults, UNCHANGED <<compensable, entry>>,
         pending' => pending \/ pc[r] # "idle",
         compensation' \in {"none", "stored", "started"},
         compensation = "started" => compensation' = "started",
         compensation' # "none" => compensation # "none" \/ pc[r] = "compensate"
  PROVE  WInv'
<1>1. TypeOK'
  BY WatcherAssumption DEF WInv, TypeOK, Return, Unlock, NoMessage, Nobody, entry
<1>2. HeldIsTrue'
  BY DEF WInv, TypeOK, HeldIsTrue, Return, NoMessage, Terminal, entry
<1>3. CompensatesErrors'
  BY DEF WInv, TypeOK, CompensatesErrors, ToCompensate, Return
<1>4. CompensationIsJustified'
  <2>1. pc[r] = "compensate" => compensable /\ kv = "Errored"
    BY DEF WInv, CompensatesErrors, ToCompensate, HeldIsTrue, Terminal
  <2>2. QED
    BY <2>1 DEF WInv, CompensationIsJustified, entry
<1>5. QED
  BY <1>1, <1>2, <1>3, <1>4 DEF WInv

\* A replica goes on from here to next with its message.
LEMMA GotoStep ==
  ASSUME WInv, NEW r \in Replicas,
         NEW here \in {"find", "create", "update", "compensate", "commit"},
         NEW next \in {"create", "update", "compensate", "commit", "ack"},
         Goto(r, here, next),
         IF next \in {"compensate", "commit"}
         THEN IF here = "update" THEN locked = Nobody /\ locked' = r ELSE UNCHANGED locked
         ELSE locked' = IF here = "commit" THEN Nobody ELSE locked,
         here = "commit" => next = "ack",
         here = "compensate" => next = "commit" /\ compensation' = "started",
         here = "update" => next = IF ToCompensate(held[r].state) THEN "compensate" ELSE "commit",
         here \in {"find", "create"} => next \notin {"compensate", "commit"},
         here # "compensate" => UNCHANGED compensation,
         index' \in States \union {"none"},
         UNCHANGED <<compensable, entry, pending, held, faults>>
  PROVE  WInv'
<1>1. TypeOK'
  BY WatcherAssumption DEF WInv, TypeOK, Goto, Nobody, entry
<1>2. HeldIsTrue'
  BY DEF WInv, TypeOK, HeldIsTrue, Goto, entry
<1>3. CompensatesErrors'
  BY DEF WInv, TypeOK, CompensatesErrors, ToCompensate, Goto
<1>4. CompensationIsJustified'
  <2>1. pc[r] = "compensate" => compensable /\ kv = "Errored"
    BY DEF WInv, CompensatesErrors, ToCompensate, HeldIsTrue, Terminal
  <2>2. QED
    BY <2>1 DEF WInv, CompensationIsJustified, entry, Goto
<1>5. QED
  BY <1>1, <1>2, <1>3, <1>4 DEF WInv

LEMMA FetchStep ==
  ASSUME WInv, NEW r \in Replicas, Fetch(r)
  PROVE  WInv'
<1>1. kv \in States
  BY DEF WInv, TypeOK, HeldIsTrue, Fetch
<1>2. TypeOK'
  BY <1>1, WatcherAssumption DEF WInv, TypeOK, Fetch, Goto, entry
<1>3. HeldIsTrue'
  BY <1>1 DEF WInv, TypeOK, HeldIsTrue, Fetch, Goto, entry, States
<1>4. CompensatesErrors'
  BY DEF WInv, TypeOK, CompensatesErrors, ToCompensate, Fetch, Goto
<1>5. CompensationIsJustified'
  BY DEF WInv, CompensationIsJustified, Fetch, entry
<1>6. QED
  BY <1>2, <1>3, <1>4, <1>5 DEF WInv

LEMMA HeartbeatsStep ==
  ASSUME WInv, NEW r \in Replicas, HeartbeatsLost(r)
  PROVE  WInv'
<1>1. TypeOK'
  BY WatcherAssumption DEF WInv, TypeOK, HeartbeatsLost, Fault, Redelivered, entry, handler
<1>2. HeldIsTrue' /\ CompensatesErrors' /\ CompensationIsJustified'
  BY DEF WInv, HeldIsTrue, CompensatesErrors, CompensationIsJustified, ToCompensate,
         HeartbeatsLost, Redelivered, entry, handler
<1>3. QED
  BY <1>1, <1>2 DEF WInv

\* Every step of onMessage is one of the two kinds above.
LEMMA HandlerStep ==
  ASSUME WInv, NEW r \in Replicas, onMessage(r)
  PROVE  WInv'
<1>1. held[r].state \in States \union {"none"} /\ index \in States \union {"none"}
  BY DEF WInv, TypeOK
<1>2. CASE FindByID(r)
  <2>1. PICK next \in {"create", "update", "ack"} : Goto(r, "find", next)
    BY <1>2 DEF FindByID
  <2>2. QED
    BY <1>1, <1>2, <2>1, GotoStep DEF FindByID
<1>3. CASE Create(r)
  <2>1. locked = Nobody /\ pc[r] = "create"
    BY <1>3 DEF Create, Goto
  <2>2. CASE index = "none"
    BY <1>1, <1>3, <2>1, <2>2, GotoStep DEF Create
  <2>3. CASE index # "none"
    <3>1. /\ RollbackAndNak(r)
          /\ UNCHANGED <<index, compensable, entry, compensation, faults>>
      BY <1>3, <2>3 DEF Create
    <3>2. Return(r) /\ Unlock(r) /\ pending' \in BOOLEAN
          /\ (pending' => pending \/ pc[r] # "idle")
      BY <2>1, <3>1 DEF RollbackAndNak, Redelivered
    <3>3. QED
      BY <1>1, <3>1, <3>2, ReturnStep DEF WInv, TypeOK
  <2>4. QED
    BY <2>2, <2>3
<1>4. CASE UpdateEntry(r)
  <2> DEFINE next == IF ToCompensate(held[r].state) THEN "compensate" ELSE "commit"
  <2>1. Goto(r, "update", next) /\ locked = Nobody /\ locked' = r
    BY <1>4 DEF UpdateEntry
  <2>2. QED
    BY <1>1, <1>4, <2>1, GotoStep DEF UpdateEntry
<1>5. CASE StartCompensation(r)
  BY <1>1, <1>5, GotoStep DEF StartCompensation
<1>6. CASE Commit(r)
  BY <1>1, <1>6, GotoStep DEF Commit
<1>7. CASE Ack(r)
  <2>1. Unlock(r)
    BY <1>7 DEF Ack, Unlock, WInv, TypeOK
  <2>2. QED
    BY <1>1, <1>7, <2>1, ReturnStep DEF Ack, WInv, TypeOK
<1>8. QED
  BY <1>2, <1>3, <1>4, <1>5, <1>6, <1>7 DEF onMessage

\* Every failure rolls the transaction back, whatever it did before.
LEMMA FailureStep ==
  ASSUME WInv, NEW r \in Replicas, onMessageFails(r)
  PROVE  WInv'
<1>1. /\ Return(r) /\ Unlock(r) /\ pending' \in BOOLEAN /\ pc[r] # "idle"
      /\ UNCHANGED <<compensable, entry>>
  BY DEF onMessageFails, StartCompensationFails, TransactionFails, Crash,
         RollbackAndNak, Redelivered
<1>2. faults' \in 0..MaxFaults
  BY WatcherAssumption
  DEF onMessageFails, StartCompensationFails, TransactionFails, Crash, Fault, WInv, TypeOK
<1>3. index' \in States \union {"none"}
  BY DEF onMessageFails, StartCompensationFails, TransactionFails, Crash, WInv, TypeOK
<1>4. /\ compensation' \in {"none", "stored", "started"}
      /\ compensation = "started" => compensation' = "started"
      /\ compensation' # "none" => compensation # "none" \/ pc[r] = "compensate"
  BY DEF onMessageFails, StartCompensationFails, TransactionFails, Crash, WInv, TypeOK
<1>5. QED
  BY <1>1, <1>2, <1>3, <1>4, ReturnStep

LEMMA WStep == WInv /\ [Next]_vars => WInv'
<1> SUFFICES ASSUME WInv, [Next]_vars PROVE WInv'
  OBVIOUS
<1>1. CASE UNCHANGED vars
  <2>1. TypeOK'
    BY <1>1 DEF vars, entry, handler, WInv, TypeOK
  <2>2. HeldIsTrue' /\ CompensatesErrors' /\ CompensationIsJustified'
    BY <1>1 DEF vars, entry, handler, WInv, HeldIsTrue, CompensatesErrors,
                CompensationIsJustified, ToCompensate
  <2>3. QED
    BY <2>1, <2>2 DEF WInv
<1>2. QED
  BY <1>1, UpdateStep, FetchStep, HandlerStep, FailureStep, HeartbeatsStep DEF Next

-----------------------------------------------------------------------------
\* The theorems.

\* WInv holds of every reachable state.
THEOREM WInvariant == Spec => []WInv
  BY WInit, WStep, PTL DEF Spec

\* TypeOK: types, and a transaction that compensates or commits holds the row.
THEOREM TypeCorrect == Spec => []TypeOK
<1>1. WInv => TypeOK
  BY DEF WInv
<1>2. QED
  BY <1>1, WInvariant, PTL

\* CompensationIsJustified: startCompensationOrchestration runs for orchestrations
\* that failed and are to be compensated only.
THEOREM CompensationJustified == Spec => []CompensationIsJustified
<1>1. WInv => CompensationIsJustified
  BY DEF WInv
<1>2. QED
  BY <1>1, WInvariant, PTL

\* A step that moves the index entry to Errored finds the compensation started.
LEMMA IndexedAfterCompensation ==
  ASSUME WInv, [Next]_vars, compensable, index \notin {"none", "Errored"}, index' = "Errored"
  PROVE  compensation' = "started"
<1>1. PICK r \in Replicas : index' = held[r].state /\ pc[r] = "commit" /\ UNCHANGED compensation
  BY DEF Next, vars, Update, Fetch, HeartbeatsLost, onMessage, onMessageFails, FindByID, Create,
         UpdateEntry, StartCompensation, Commit, Ack, StartCompensationFails,
         TransactionFails, Crash, Goto
<1>2. ToCompensate(held[r].state)
  BY <1>1 DEF ToCompensate
<1>3. QED
  BY <1>1, <1>2 DEF WInv, CompensatesErrors

\* ErrorIsIndexedAfterCompensation: onMessage commits a failure to an existing index
\* entry only after the compensation has been started.
THEOREM ErrorIndexedAfterCompensation == Spec => ErrorIsIndexedAfterCompensation
<1>1. WInv /\ [Next]_vars =>
        [compensable /\ index \notin {"none", "Errored"} /\ index' = "Errored"
           => compensation' = "started"]_vars
  BY IndexedAfterCompensation
<1>2. QED
  BY <1>1, WInvariant, PTL DEF Spec, ErrorIsIndexedAfterCompensation
=============================================================================
