---------------------------- MODULE KVUpdateProofs ----------------------------
(***************************************************************************)
(* UpdateOrchestration for any number of callers, any limit of conflicts   *)
(* and any bounds: updates are atomic, a call gives up only when it was    *)
(* overtaken maxUpdateConflicts times, results are consistent.             *)
(***************************************************************************)
EXTENDS KVUpdate, TLAPS

\* A copy is what the entry was at the revision it was read at.
Snapshot(v, r) ==
  /\ Len(v) = r
  /\ r <= revision
  /\ \A i \in 1..r : v[i] = value[i]

\* Every copy is such a snapshot,
CopyOK(c) == Snapshot(copy[c], read[c])

\* every delayed write was made from one,
DelayedOK(c) ==
  delayed[c] # None =>
    \E v \in Seq(Clients) :
      Snapshot(v, delayed[c].at) /\ delayed[c].value = Append(v, c)

\* and a call is overtaken by another update each time.
CountsOK(c) ==
  /\ pc[c] = "ok" => read[c] > 0
  /\ pc[c] = "update" => begun[c] + conflicts[c] <= read[c]
  /\ pc[c] = "reread" => begun[c] + conflicts[c] <= revision
  /\ pc[c] = "exhausted" => begun[c] + maxUpdateConflicts <= revision

Consistent ==
  /\ Len(value) = revision
  /\ \A c \in Clients : CopyOK(c) /\ DelayedOK(c) /\ CountsOK(c)

\* The inductive invariant.
KInv == TypeOK /\ Consistent

\* A request that is on its way is not the absence of one.
LEMMA NoneIsNoWrite == None \notin Writes
  BY DEF None, Writes

\* A snapshot of the current revision is the current value.
LEMMA CurrentSnapshot ==
  ASSUME value \in Seq(Clients), Len(value) = revision, NEW v \in Seq(Clients),
         Snapshot(v, revision)
  PROVE  v = value
  BY DEF Snapshot

\* An accepted write appends the update to the current value.
LEMMA AcceptedAppends ==
  ASSUME KInv, NEW c \in Clients, NEW v \in Seq(Clients), NEW r \in Nat,
         Snapshot(v, r), Accepts(r), Stored(Append(v, c))
  PROVE  /\ value' = Append(value, c)
         /\ value' \in Seq(Clients)
         /\ revision' = revision + 1
         /\ Len(value') = revision'
<1>1. v = value
  BY CurrentSnapshot DEF KInv, TypeOK, Consistent, Accepts
<1>2. value \in Seq(Clients) /\ Len(value) = revision
  BY DEF KInv, TypeOK, Consistent
<1>3. QED
  BY <1>1, <1>2 DEF Stored

\* A snapshot remains one when the entry grows.
LEMMA GrowthKeeps ==
  ASSUME KInv, NEW c \in Clients, NEW r \in Nat, r <= revision,
         value' = Append(value, c), revision' = revision + 1
  PROVE  r <= revision' /\ \A i \in 1..r : value'[i] = value[i]
  BY DEF KInv, TypeOK, Consistent

\* Every variable starts with its type, and every copy is current.
LEMMA KInit == Init => KInv
  BY KVAssumption DEF Init, KInv, TypeOK, Consistent, CopyOK, DelayedOK, CountsOK,
     Snapshot, Clean, None

\* Every step keeps the types.
LEMMA TypeStep ==
  ASSUME KInv, [Next]_vars
  PROVE  TypeOK'
<1>1. ASSUME NEW c \in Clients, Begin(c) PROVE TypeOK'
  BY <1>1, KVAssumption DEF KInv, TypeOK, Begin, NextCall, ReadOrchestration, store, Clean
<1>2. ASSUME NEW c \in Clients, BeginFromResult(c) PROVE TypeOK'
  BY <1>2, KVAssumption DEF KInv, TypeOK, BeginFromResult, NextCall, Goto, store, mine, Clean
<1>3. ASSUME NEW c \in Clients, Update(c) PROVE TypeOK'
  BY <1>3 DEF KInv, TypeOK, Update, Goto, Stored, updateFn, Clean
<1>4. ASSUME NEW c \in Clients, Conflict(c) PROVE TypeOK'
  BY <1>4, KVAssumption DEF KInv, TypeOK, Conflict, GivesUp, Goto, store, mine, Clean
<1>5. ASSUME NEW c \in Clients, Reread(c) PROVE TypeOK'
  BY <1>5 DEF KInv, TypeOK, Reread, ReadOrchestration, Goto, store, Clean
<1>6. ASSUME NEW c \in Clients, RereadFails(c) PROVE TypeOK'
  <2>1. /\ pc' \in [Clients -> Clean \union {"update", "reread"}]
        /\ faults' \in 0..MaxFaults
        /\ \A d \in Clients : pc'[d] \in {"update", "reread"} => pc'[d] = pc[d]
    BY <1>6, KVAssumption DEF KInv, TypeOK, RereadFails, Fault, Goto, Clean
  <2>2. QED
    BY <1>6, <2>1 DEF KInv, TypeOK, RereadFails, store, mine
<1>7. ASSUME NEW c \in Clients, UpdateFails(c) PROVE TypeOK'
  <2>1. Write(updateFn(c, copy[c]), read[c]) \in Writes
    BY DEF KInv, TypeOK, Write, Writes, updateFn
  <2>2. delayed' \in [Clients -> Writes \union {None}]
    BY <1>7, <2>1 DEF KInv, TypeOK, UpdateFails
  <2>3. /\ Fault /\ Goto(c, "update", "failed")
        /\ UNCHANGED <<mine, conflicts, begun, calls>>
        /\ UNCHANGED store \/ Stored(updateFn(c, copy[c]))
    BY <1>7 DEF UpdateFails, store
  <2>4. value' \in Seq(Clients) /\ revision' \in Nat
    <3>1. /\ value \in Seq(Clients) /\ revision \in Nat
          /\ Append(copy[c], c) \in Seq(Clients)
      BY DEF KInv, TypeOK
    <3>2. CASE UNCHANGED store
      BY <3>1, <3>2 DEF store
    <3>3. CASE Stored(updateFn(c, copy[c]))
      <4>1. value' = Append(copy[c], c) /\ revision' = revision + 1
        BY <3>3 DEF Stored, updateFn
      <4>2. QED
        BY <3>1, <4>1
    <3>4. QED
      BY <2>3, <3>2, <3>3
  <2>5. /\ pc' \in [Clients -> Clean \union {"update", "reread"}]
        /\ faults' \in 0..MaxFaults
        /\ \A d \in Clients : pc'[d] \in {"update", "reread"} => pc'[d] = pc[d]
    BY <2>3, KVAssumption DEF KInv, TypeOK, Fault, Goto, Clean
  <2>6. UNCHANGED <<copy, read, conflicts, begun, calls>>
    BY <2>3 DEF mine
  <2>7. QED
    BY <2>2, <2>4, <2>5, <2>6 DEF KInv, TypeOK
<1>8. ASSUME NEW c \in Clients, Arrives(c) PROVE TypeOK'
  <2>1. delayed[c] \in Writes
    BY <1>8 DEF Arrives, KInv, TypeOK
  <2>2. delayed[c].value \in Seq(Clients)
    BY <2>1 DEF Writes
  <2>3. QED
    BY <1>8, <2>2 DEF KInv, TypeOK, Arrives, Stored, store, mine
<1>9. CASE UNCHANGED vars
  BY <1>9 DEF KInv, TypeOK, vars, store, mine
<1>10. QED
  BY <1>1, <1>2, <1>3, <1>4, <1>5, <1>6, <1>7, <1>8, <1>9 DEF Next, Loop

\* The step of a client leaves the entry alone or appends one update.
Grows ==
  \/ UNCHANGED store
  \/ \E c \in Clients : value' = Append(value, c) /\ revision' = revision + 1

\* A snapshot remains one whatever the entry goes through.
LEMMA SnapshotStays ==
  ASSUME KInv, Grows, NEW v \in Seq(Clients), NEW r \in Nat, Snapshot(v, r)
  PROVE  /\ Len(v) = r
         /\ r <= revision'
         /\ \A i \in 1..r : v[i] = value'[i]
<1>1. CASE UNCHANGED store
  BY <1>1 DEF Snapshot, store
<1>2. CASE \E c \in Clients : value' = Append(value, c) /\ revision' = revision + 1
  BY <1>2, GrowthKeeps DEF Snapshot
<1>3. QED
  BY <1>1, <1>2 DEF Grows

\* A copy that a step leaves alone remains a snapshot.
LEMMA CopyStays ==
  ASSUME KInv, Grows, NEW x \in Clients, UNCHANGED <<copy[x], read[x]>>
  PROVE  CopyOK(x)'
<1>1. copy[x] \in Seq(Clients) /\ read[x] \in Nat /\ Snapshot(copy[x], read[x])
  BY DEF KInv, TypeOK, Consistent, CopyOK
<1>2. QED
  BY <1>1, SnapshotStays DEF CopyOK, Snapshot

\* So does what a delayed write was made from.
LEMMA DelayedStays ==
  ASSUME KInv, Grows, NEW x \in Clients, UNCHANGED delayed[x]
  PROVE  DelayedOK(x)'
<1>1. CASE delayed[x] = None
  BY <1>1 DEF DelayedOK
<1>2. CASE delayed[x] # None
  <2>1. delayed[x].at \in Nat
    BY <1>2 DEF KInv, TypeOK, Writes
  <2>2. PICK v \in Seq(Clients) : Snapshot(v, delayed[x].at) /\ delayed[x].value = Append(v, x)
    BY <1>2 DEF KInv, Consistent, DelayedOK
  <2>3. /\ Len(v) = delayed[x].at
        /\ delayed[x].at <= revision'
        /\ \A i \in 1..delayed[x].at : v[i] = value'[i]
    BY <2>1, <2>2, SnapshotStays
  <2>4. QED
    BY <2>2, <2>3 DEF DelayedOK, Snapshot
<1>3. QED
  BY <1>1, <1>2

\* And the counts of a client that does not move.
LEMMA CountsStay ==
  ASSUME KInv, Grows, NEW x \in Clients,
         UNCHANGED <<pc[x], read[x], conflicts[x], begun[x]>>
  PROVE  CountsOK(x)'
<1>1. /\ begun[x] \in Nat /\ conflicts[x] \in Nat /\ maxUpdateConflicts \in Nat
      /\ revision \in Nat /\ CountsOK(x)
  BY KVAssumption DEF KInv, TypeOK, Consistent
<1>2. revision' = revision \/ revision' = revision + 1
  BY DEF Grows, store
<1>3. QED
  BY <1>1, <1>2 DEF CountsOK

\* A step that is right about the client that makes it is right about all.
LEMMA OthersConsistent ==
  ASSUME KInv, Grows, NEW c \in Clients,
         \A x \in Clients : x # c =>
           UNCHANGED <<pc[x], copy[x], read[x], delayed[x], conflicts[x], begun[x]>>,
         CopyOK(c)', DelayedOK(c)', CountsOK(c)'
  PROVE  Consistent'
<1>1. Len(value') = revision'
  BY DEF Grows, KInv, TypeOK, Consistent, store
<1>2. ASSUME NEW x \in Clients, x # c
      PROVE  CopyOK(x)' /\ DelayedOK(x)' /\ CountsOK(x)'
  BY <1>2, CopyStays, DelayedStays, CountsStay
<1>3. QED
  BY <1>1, <1>2 DEF Consistent

\* A client that reads has a snapshot.
LEMMA ReadIsSnapshot ==
  ASSUME KInv, NEW c \in Clients, ReadOrchestration(c), UNCHANGED store
  PROVE  CopyOK(c)'
  BY DEF KInv, TypeOK, Consistent, ReadOrchestration, CopyOK, Snapshot, store

\* Begin, BeginFromResult and Reread work on a snapshot.
LEMMA ReadersConsistent ==
  ASSUME KInv, TypeOK', NEW c \in Clients, Begin(c) \/ BeginFromResult(c) \/ Reread(c)
  PROVE  Consistent'
<1>1. Grows /\ UNCHANGED store /\ UNCHANGED delayed
  BY DEF Begin, BeginFromResult, Reread, Grows
<1>2. \A x \in Clients : x # c =>
        UNCHANGED <<pc[x], copy[x], read[x], delayed[x], conflicts[x], begun[x]>>
  BY DEF KInv, TypeOK, Begin, BeginFromResult, Reread, Goto, ReadOrchestration, mine
<1>3. CopyOK(c)'
  <2>1. CASE ReadOrchestration(c)
    BY <1>1, <2>1, ReadIsSnapshot
  <2>2. CASE UNCHANGED mine
    BY <1>1, <2>2, CopyStays DEF mine
  <2>3. QED
    BY <2>1, <2>2 DEF Begin, BeginFromResult, Reread
<1>4. DelayedOK(c)'
  BY <1>1, DelayedStays
<1>5. CountsOK(c)'
  <2>1. revision \in Nat /\ read[c] \in Nat /\ begun[c] \in Nat /\ conflicts[c] \in Nat /\ CountsOK(c)
    BY KVAssumption DEF KInv, TypeOK, Consistent
  <2>2. CASE Begin(c)
    BY <1>1, <2>1, <2>2 DEF Begin, ReadOrchestration, CountsOK, KInv, TypeOK, store
  <2>3. CASE BeginFromResult(c)
    BY <1>1, <2>1, <2>3 DEF BeginFromResult, Goto, CountsOK, KInv, TypeOK, store, mine
  <2>4. CASE Reread(c)
    BY <1>1, <2>1, <2>4 DEF Reread, Goto, ReadOrchestration, CountsOK, KInv, TypeOK, store
  <2>5. QED
    BY <2>2, <2>3, <2>4
<1>6. QED
  BY <1>1, <1>2, <1>3, <1>4, <1>5, OthersConsistent

\* A conflict means that the revision read is behind: one more update was made.
LEMMA ConflictConsistent ==
  ASSUME KInv, TypeOK', NEW c \in Clients, Conflict(c)
  PROVE  Consistent'
<1>1. Grows /\ UNCHANGED <<store, mine, delayed, begun>>
  BY DEF Conflict, Grows
<1>2. \A x \in Clients : x # c =>
        UNCHANGED <<pc[x], copy[x], read[x], delayed[x], conflicts[x], begun[x]>>
  BY <1>1 DEF KInv, TypeOK, Conflict, Goto, mine
<1>3. CopyOK(c)' /\ DelayedOK(c)'
  BY <1>1, CopyStays, DelayedStays DEF mine
<1>4. CountsOK(c)'
  <2>1. /\ revision \in Nat /\ read[c] \in Nat /\ begun[c] \in Nat
        /\ conflicts[c] \in Nat /\ maxUpdateConflicts \in Nat
        /\ begun[c] + conflicts[c] <= read[c] /\ read[c] <= revision /\ read[c] # revision
        /\ conflicts[c] < maxUpdateConflicts
    BY KVAssumption DEF KInv, TypeOK, Consistent, CopyOK, CountsOK, Snapshot, Conflict, Goto, Accepts
  <2>2. /\ conflicts'[c] = conflicts[c] + 1 /\ UNCHANGED <<revision, begun>>
        /\ pc'[c] = IF GivesUp(c) THEN "exhausted" ELSE "reread"
    BY <1>1 DEF Conflict, Goto, KInv, TypeOK, store
  <2>3. QED
    BY <2>1, <2>2 DEF CountsOK, GivesUp
<1>5. QED
  BY <1>1, <1>2, <1>3, <1>4, OthersConsistent

\* A write that is accepted is an update of the current value.
LEMMA UpdateConsistent ==
  ASSUME KInv, TypeOK', NEW c \in Clients, Update(c)
  PROVE  /\ Consistent'
         /\ value' = Append(value, c)
<1>1. /\ copy[c] \in Seq(Clients) /\ read[c] \in Nat /\ Snapshot(copy[c], read[c])
      /\ Accepts(read[c]) /\ Stored(Append(copy[c], c)) /\ read[c] = revision
  BY DEF KInv, TypeOK, Consistent, CopyOK, Update, updateFn, Accepts
<1>2. /\ value' = Append(value, c) /\ value' \in Seq(Clients)
      /\ revision' = revision + 1 /\ Len(value') = revision'
  BY <1>1, AcceptedAppends
<1>3. Grows
  BY <1>2 DEF Grows
<1>4. copy'[c] = value' /\ read'[c] = revision' /\ pc'[c] = "ok"
  BY <1>1, <1>2 DEF KInv, TypeOK, Update, updateFn, Stored, Goto
<1>5. CopyOK(c)' /\ CountsOK(c)'
  <2>1. revision \in Nat
    BY DEF KInv, TypeOK
  <2>2. QED
    BY <1>2, <1>4, <2>1 DEF CopyOK, CountsOK, Snapshot
<1>6. DelayedOK(c)'
  BY <1>3, DelayedStays DEF Update
<1>7. \A x \in Clients : x # c =>
        UNCHANGED <<pc[x], copy[x], read[x], delayed[x], conflicts[x], begun[x]>>
  BY DEF KInv, TypeOK, Update, Goto
<1>8. QED
  BY <1>2, <1>3, <1>5, <1>6, <1>7, OthersConsistent

\* A call that ends with an error has made its update, has not, or has a write
\* on its way that was made from a snapshot.
LEMMA FailuresConsistent ==
  ASSUME KInv, TypeOK', NEW c \in Clients, RereadFails(c) \/ UpdateFails(c)
  PROVE  /\ Consistent'
         /\ UNCHANGED store \/ value' = Append(value, c)
<1>1. /\ copy[c] \in Seq(Clients) /\ read[c] \in Nat /\ Snapshot(copy[c], read[c])
  BY DEF KInv, TypeOK, Consistent, CopyOK
<1>2. UNCHANGED store \/ (value' = Append(value, c) /\ revision' = revision + 1)
  <2>1. CASE Accepts(read[c]) /\ Stored(Append(copy[c], c))
    BY <1>1, <2>1, AcceptedAppends
  <2>2. CASE UNCHANGED store
    BY <2>2
  <2>3. QED
    BY <2>1, <2>2 DEF RereadFails, UpdateFails, updateFn, store
<1>3. Grows
  BY <1>2 DEF Grows
<1>4. /\ UNCHANGED <<copy, read, conflicts, begun>> /\ pc'[c] = "failed"
      /\ \A x \in Clients : x # c => pc'[x] = pc[x]
  BY DEF RereadFails, UpdateFails, Goto, mine, KInv, TypeOK
<1>5. CopyOK(c)' /\ CountsOK(c)'
  BY <1>3, <1>4, CopyStays DEF CountsOK
<1>6. \/ UNCHANGED delayed
      \/ /\ delayed' = [delayed EXCEPT ![c] = Write(Append(copy[c], c), read[c])]
         /\ UNCHANGED store
  BY DEF RereadFails, UpdateFails, updateFn
<1>7. DelayedOK(c)' /\ \A x \in Clients : x # c => UNCHANGED delayed[x]
  <2>1. CASE UNCHANGED delayed
    BY <1>3, <2>1, DelayedStays
  <2>2. CASE /\ delayed' = [delayed EXCEPT ![c] = Write(Append(copy[c], c), read[c])]
             /\ UNCHANGED store
    <3>1. /\ delayed'[c].at = read[c] /\ delayed'[c].value = Append(copy[c], c)
          /\ \A x \in Clients : x # c => UNCHANGED delayed[x]
      BY <2>2 DEF KInv, TypeOK, Write
    <3>2. Snapshot(copy[c], read[c])'
      BY <1>5 DEF CopyOK
    <3>3. UNCHANGED <<copy, read>>
      BY <1>4
    <3>4. QED
      BY <1>1, <3>1, <3>2, <3>3 DEF DelayedOK, Snapshot
  <2>3. QED
    BY <1>6, <2>1, <2>2
<1>8. \A x \in Clients : x # c =>
        UNCHANGED <<pc[x], copy[x], read[x], delayed[x], conflicts[x], begun[x]>>
  BY <1>4, <1>7
<1>9. QED
  BY <1>2, <1>3, <1>5, <1>7, <1>8, OthersConsistent

\* A delayed write updates the current value or is refused.
LEMMA ArrivesConsistent ==
  ASSUME KInv, TypeOK', NEW c \in Clients, Arrives(c)
  PROVE  /\ Consistent'
         /\ UNCHANGED store \/ value' = Append(value, c)
<1>1. delayed[c] # None /\ delayed[c].at \in Nat
  BY DEF Arrives, KInv, TypeOK, Writes
<1>2. PICK v \in Seq(Clients) : Snapshot(v, delayed[c].at) /\ delayed[c].value = Append(v, c)
  BY <1>1 DEF KInv, Consistent, DelayedOK
<1>3. UNCHANGED store \/ (value' = Append(value, c) /\ revision' = revision + 1)
  BY <1>1, <1>2, AcceptedAppends DEF Arrives
<1>4. Grows
  BY <1>3 DEF Grows
<1>5. /\ UNCHANGED <<pc, copy, read, conflicts, begun>> /\ delayed'[c] = None
      /\ \A x \in Clients : x # c => UNCHANGED delayed[x]
  BY DEF Arrives, mine, KInv, TypeOK
<1>6. CopyOK(c)' /\ CountsOK(c)' /\ DelayedOK(c)'
  BY <1>4, <1>5, CopyStays, CountsStay DEF DelayedOK
<1>7. QED
  BY <1>3, <1>4, <1>5, <1>6, OthersConsistent

\* KInv is inductive: copies and delayed writes stay snapshots of the entry,
\* so that a write is accepted only on top of every earlier update.
THEOREM KInvariant == Spec => []KInv
<1>1. KInv /\ [Next]_vars => KInv'
  <2> SUFFICES ASSUME KInv, [Next]_vars PROVE KInv'
    OBVIOUS
  <2>1. TypeOK'
    BY TypeStep
  <2>2. CASE UNCHANGED vars
    BY <2>1, <2>2 DEF vars, store, mine, KInv, Consistent, CopyOK, DelayedOK, CountsOK, Snapshot
  <2>3. QED
    BY <2>1, <2>2, ReadersConsistent, ConflictConsistent, UpdateConsistent,
       FailuresConsistent, ArrivesConsistent DEF Next, Loop, KInv
<1>2. QED
  BY <1>1, KInit, PTL DEF Spec

\* TypeOK: types, and a client overtaken too often has given up.
THEOREM TypeCorrect == Spec => []TypeOK
<1>1. KInv => TypeOK
  BY DEF KInv
<1>2. QED
  BY <1>1, KInvariant, PTL

\* GivesUpUnderContentionOnly: UpdateOrchestration fails for conflicts only
\* after maxUpdateConflicts updates of others were made during the call.
THEOREM GivesUpHolds == Spec => []GivesUpUnderContentionOnly
<1>1. KInv => GivesUpUnderContentionOnly
  BY KVAssumption DEF KInv, TypeOK, Consistent, CountsOK, GivesUpUnderContentionOnly
<1>2. QED
  BY <1>1, KInvariant, PTL

\* LaterSeesEarlier: what a successful call returns holds the update of every
\* call that succeeded before it, which the check for the last of several
\* parallel activities relies on.
THEOREM LaterSeesEarlierHolds == Spec => []LaterSeesEarlier
<1>1. KInv => LaterSeesEarlier
  <2> SUFFICES ASSUME KInv, NEW c \in Clients, NEW d \in Clients,
                      pc[c] = "ok", pc[d] = "ok", read[c] < read[d]
               PROVE  \E i \in 1..Len(copy[d]) : copy[c] = SubSeq(copy[d], 1, i)
    BY DEF LaterSeesEarlier
  <2>1. /\ copy[c] \in Seq(Clients) /\ copy[d] \in Seq(Clients)
        /\ read[c] \in Nat /\ read[d] \in Nat /\ read[c] > 0
        /\ Len(copy[c]) = read[c] /\ Len(copy[d]) = read[d]
    BY DEF KInv, TypeOK, Consistent, CopyOK, CountsOK, Snapshot
  <2>2. \A i \in 1..read[c] : copy[c][i] = copy[d][i]
    <3>1. /\ \A i \in 1..read[c] : copy[c][i] = value[i]
          /\ \A i \in 1..read[d] : copy[d][i] = value[i]
      BY DEF KInv, Consistent, CopyOK, Snapshot
    <3>2. QED
      BY <2>1, <3>1
  <2>3. copy[c] = SubSeq(copy[d], 1, read[c])
    BY <2>1, <2>2
  <2>4. QED
    BY <2>1, <2>3
<1>2. QED
  BY <1>1, KInvariant, PTL

-----------------------------------------------------------------------------
\* The refinement of AtomicUpdate.

lateClients == {c \in Clients : delayed[c] # None}

\* A step that moves one client changes the status of that one only.
LEMMA StatusMoves ==
  ASSUME KInv, NEW c \in Clients, NEW next, pc' = [pc EXCEPT ![c] = next]
  PROVE  /\ \A x \in Clients : x # c => status'[x] = status[x]
         /\ next \in {"update", "reread"} => status'[c] = "busy"
         /\ next \in {"exhausted", "failed"} => status'[c] = "failed"
         /\ next = "ok" => status'[c] = "ok"
         /\ pc[c] \in {"update", "reread"} => status[c] = "busy"
         /\ pc[c] \in Clean => status[c] # "busy"
  BY DEF KInv, TypeOK, status, Clean

\* Statuses are a function, so they change where they differ.
LEMMA StatusIs ==
  ASSUME KInv, NEW c \in Clients, NEW outcome, status'[c] = outcome,
         \A x \in Clients : x # c => status'[x] = status[x]
  PROVE  status' = [status EXCEPT ![c] = outcome]
  BY DEF status

\* A call begins.
LEMMA BeginRefines ==
  ASSUME KInv, NEW c \in Clients, Begin(c) \/ BeginFromResult(c)
  PROVE  Atomic!Begin(c)
<1>1. pc' = [pc EXCEPT ![c] = "update"] /\ pc[c] \in Clean /\ UNCHANGED <<store, delayed>>
  BY DEF Begin, BeginFromResult, Goto, Clean
<1>2. status' = [status EXCEPT ![c] = "busy"] /\ status[c] # "busy"
  BY <1>1, StatusMoves, StatusIs
<1>3. QED
  BY <1>1, <1>2 DEF Atomic!Begin, store

\* A call ends with an error: it happened, did not, or may still.
LEMMA FailRefines ==
  ASSUME KInv, NEW c \in Clients, pc[c] \in {"update", "reread"},
         NEW next \in {"failed", "exhausted"}, pc' = [pc EXCEPT ![c] = next],
         \/ /\ UNCHANGED value
            /\ lateClients' \in {lateClients, lateClients \union {c}}
         \/ value' = Append(value, c) /\ UNCHANGED lateClients
  PROVE  Atomic!Fail(c)
<1>1. status' = [status EXCEPT ![c] = "failed"] /\ status[c] = "busy"
  BY StatusMoves, StatusIs
<1>2. QED
  BY <1>1 DEF Atomic!Fail, Atomic!Ends, Atomic!Happens, lateClients

\* Every step of a client maps to a step of AtomicUpdate or to none.
LEMMA StepRefines ==
  ASSUME KInv, KInv', [Next]_vars
  PROVE  [Atomic!Next]_(Atomic!avars)
<1>1. ASSUME NEW c \in Clients, Begin(c) \/ BeginFromResult(c)
      PROVE  Atomic!Next
  BY <1>1, BeginRefines DEF Atomic!Next
<1>2. ASSUME NEW c \in Clients, Update(c)
      PROVE  Atomic!Next
  <2>1. pc' = [pc EXCEPT ![c] = "ok"] /\ pc[c] = "update" /\ UNCHANGED delayed
    BY <1>2 DEF Update, Goto
  <2>2. status' = [status EXCEPT ![c] = "ok"] /\ status[c] = "busy"
    BY <2>1, StatusMoves, StatusIs
  <2>3. value' = Append(value, c)
    BY <1>2, UpdateConsistent DEF KInv
  <2>4. Atomic!Succeed(c)
    BY <2>1, <2>2, <2>3 DEF Atomic!Succeed, Atomic!Ends, Atomic!Happens
  <2>5. QED
    BY <2>4 DEF Atomic!Next
<1>3. ASSUME NEW c \in Clients, Conflict(c)
      PROVE  Atomic!Next \/ UNCHANGED <<value, status, lateClients>>
  <2>1. pc[c] = "update" /\ UNCHANGED <<value, delayed>>
    BY <1>3 DEF Conflict, Goto, store
  <2>2. CASE GivesUp(c)
    <3>1. pc' = [pc EXCEPT ![c] = "exhausted"]
      BY <1>3, <2>2 DEF Conflict, Goto
    <3>2. Atomic!Fail(c)
      BY <2>1, <3>1, FailRefines DEF lateClients
    <3>3. QED
      BY <3>2 DEF Atomic!Next
  <2>3. CASE ~GivesUp(c)
    <3>1. pc' = [pc EXCEPT ![c] = "reread"]
      BY <1>3, <2>3 DEF Conflict, Goto
    <3>2. \A x \in Clients : status'[x] = status[x]
      BY <2>1, <3>1, StatusMoves
    <3>3. QED
      BY <2>1, <3>2 DEF status, lateClients
  <2>4. QED
    BY <2>2, <2>3
<1>4. ASSUME NEW c \in Clients, Reread(c)
      PROVE  UNCHANGED <<value, status, lateClients>>
  <2>1. /\ pc' = [pc EXCEPT ![c] = "update"] /\ pc[c] = "reread"
        /\ UNCHANGED <<value, delayed>>
    BY <1>4 DEF Reread, Goto, store
  <2>2. \A x \in Clients : status'[x] = status[x]
    BY <2>1, StatusMoves
  <2>3. QED
    BY <2>1, <2>2 DEF status, lateClients
<1>5. ASSUME NEW c \in Clients, RereadFails(c) \/ UpdateFails(c)
      PROVE  Atomic!Next
  <2>1. pc' = [pc EXCEPT ![c] = "failed"] /\ pc[c] \in {"update", "reread"}
    BY <1>5 DEF RereadFails, UpdateFails, Goto
  <2>2. \/ UNCHANGED <<value, delayed>>
        \/ value' = Append(value, c) /\ UNCHANGED delayed
        \/ /\ UNCHANGED value
           /\ delayed' = [delayed EXCEPT ![c] = Write(Append(copy[c], c), read[c])]
    BY <1>5, FailuresConsistent DEF RereadFails, UpdateFails, updateFn, store, KInv
  <2>3. ASSUME delayed' = [delayed EXCEPT ![c] = Write(Append(copy[c], c), read[c])]
        PROVE  lateClients' = lateClients \union {c}
    BY <2>3 DEF lateClients, KInv, TypeOK, Write, None
  <2>4. Atomic!Fail(c)
    BY <2>1, <2>2, <2>3, FailRefines DEF lateClients
  <2>5. QED
    BY <2>4 DEF Atomic!Next
<1>6. ASSUME NEW c \in Clients, Arrives(c)
      PROVE  Atomic!Next
  <2>1. /\ delayed[c] # None /\ delayed' = [delayed EXCEPT ![c] = None] /\ UNCHANGED pc
        /\ UNCHANGED value \/ value' = Append(value, c)
    BY <1>6, ArrivesConsistent DEF Arrives, KInv, store
  <2>2. c \in lateClients /\ lateClients' = lateClients \ {c} /\ UNCHANGED status
    BY <2>1 DEF lateClients, KInv, TypeOK, status
  <2>3. Atomic!HappenLate(c)
    BY <2>1, <2>2 DEF Atomic!HappenLate, Atomic!Happens, lateClients
  <2>4. QED
    BY <2>3 DEF Atomic!Next
<1>7. CASE UNCHANGED vars
  BY <1>7 DEF vars, store, status, Atomic!avars
<1>8. QED
  BY <1>1, <1>2, <1>3, <1>4, <1>5, <1>6, <1>7 DEF Next, Loop, Atomic!avars, lateClients

\* ImplementsAtomicUpdate: a call of UpdateOrchestration is one atomic update,
\* or a failure that may have been one or still become one.
THEOREM Implements == Spec => ImplementsAtomicUpdate
<1>1. Init => Atomic!Init
  BY DEF Init, Atomic!Init, status
<1>2. QED
  BY <1>1, StepRefines, KInvariant, PTL DEF Spec, ImplementsAtomicUpdate, Atomic!Spec
=============================================================================
