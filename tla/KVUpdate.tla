------------------------------- MODULE KVUpdate -------------------------------
(***************************************************************************)
(* UpdateOrchestration: the compare-and-set loop by which every change of  *)
(* an orchestration's KV entry is made.  A client applies its function to  *)
(* the copy it has, writes it at the revision it read, and reads again     *)
(* when another write came first.  The function of a client appends the    *)
(* client to the entry, so that a value shows the updates it is made of.   *)
(*                                                                         *)
(* One action is one request to the KV store.                              *)
(***************************************************************************)
EXTENDS Naturals, Sequences

CONSTANTS
  Clients,             \* the callers of UpdateOrchestration for one entry
  maxUpdateConflicts,  \* client.go
  MaxCalls,            \* bound: calls of UpdateOrchestration
  MaxFaults            \* bound: requests that fail or time out

ASSUME KVAssumption ==
  /\ maxUpdateConflicts \in Nat \ {0}
  /\ MaxCalls \in Nat
  /\ MaxFaults \in Nat

VARIABLES
  value,      \* the entry
  revision,   \* its revision
  pc,         \* where each client is
  copy,       \* the orchestration each client works on
  read,       \* the revision it last read or wrote
  conflicts,  \* how often its current call was overtaken
  begun,      \* the revision at which its current call began
  delayed,    \* the write of each client that timed out on its way, if any
  calls,      \* how many of MaxCalls have begun
  faults      \* how many of MaxFaults have happened

store == <<value, revision>>
mine == <<copy, read>>
vars == <<store, pc, mine, conflicts, begun, delayed, calls, faults>>

None == [kind |-> "none"]
Write(v, r) == [kind |-> "write", value |-> v, at |-> r]
Writes == [kind : {"write"}, value : Seq(Clients), at : Nat]
Clean == {"idle", "ok", "failed", "exhausted"}

\* The client's function applied to a copy of the entry.
updateFn(c, v) == Append(v, c)

Goto(c, here, next) ==
  /\ pc[c] = here
  /\ pc' = [pc EXCEPT ![c] = next]

Fault ==
  /\ faults < MaxFaults
  /\ faults' = faults + 1

-----------------------------------------------------------------------------
\* The KV store.

\* Mutant: the store takes every write.
Accepts_Always(r) == TRUE

\* Update at a revision succeeds only while the entry still has it.
Accepts(r) == r = revision

Stored(v) ==
  /\ value' = v
  /\ revision' = revision + 1

-----------------------------------------------------------------------------
\* The callers and the loop.

NextCall ==
  /\ calls < MaxCalls
  /\ calls' = calls + 1

\* ReadOrchestration, before the update or long before it.
ReadOrchestration(c) ==
  /\ copy' = [copy EXCEPT ![c] = value]
  /\ read' = [read EXCEPT ![c] = revision]

Begin(c) ==
  /\ NextCall
  /\ pc[c] \in Clean
  /\ pc' = [pc EXCEPT ![c] = "update"]
  /\ ReadOrchestration(c)
  /\ conflicts' = [conflicts EXCEPT ![c] = 0]
  /\ begun' = [begun EXCEPT ![c] = revision]
  /\ UNCHANGED <<store, delayed, faults>>

\* handleOrchestrationCompletion updates what the previous update returned.
BeginFromResult(c) ==
  /\ NextCall
  /\ Goto(c, "ok", "update")
  /\ conflicts' = [conflicts EXCEPT ![c] = 0]
  /\ begun' = [begun EXCEPT ![c] = read[c]]
  /\ UNCHANGED <<store, mine, delayed, faults>>

Update(c) ==
  /\ Goto(c, "update", "ok")
  /\ Accepts(read[c])
  /\ Stored(updateFn(c, copy[c]))
  /\ copy' = [copy EXCEPT ![c] = updateFn(c, copy[c])]
  /\ read' = [read EXCEPT ![c] = revision + 1]
  /\ UNCHANGED <<conflicts, begun, delayed, calls, faults>>

\* Mutant: it gives up one conflict too early.
GivesUp_Early(c) == conflicts[c] + 2 >= maxUpdateConflicts

\* Mutant: it goes on for ever.
GivesUp_Never(c) == FALSE

GivesUp(c) == conflicts[c] + 1 >= maxUpdateConflicts

\* Mutant: the same write is tried again and again.
Conflict_Spins(c) ==
  /\ Goto(c, "update", "update")
  /\ ~Accepts(read[c])
  /\ UNCHANGED <<store, mine, conflicts, begun, delayed, calls, faults>>

Conflict(c) ==
  /\ Goto(c, "update", IF GivesUp(c) THEN "exhausted" ELSE "reread")
  /\ ~Accepts(read[c])
  /\ conflicts' = [conflicts EXCEPT ![c] = @ + 1]
  /\ UNCHANGED <<store, mine, begun, delayed, calls, faults>>

\* Mutant: after a conflict only the revision is read again.
Reread_KeepsCopy(c) ==
  /\ Goto(c, "reread", "update")
  /\ read' = [read EXCEPT ![c] = revision]
  /\ UNCHANGED <<store, copy, conflicts, begun, delayed, calls, faults>>

Reread(c) ==
  /\ Goto(c, "reread", "update")
  /\ ReadOrchestration(c)
  /\ UNCHANGED <<store, conflicts, begun, delayed, calls, faults>>

RereadFails(c) ==
  /\ Fault
  /\ Goto(c, "reread", "failed")
  /\ UNCHANGED <<store, mine, conflicts, begun, delayed, calls>>

\* Any other error than a conflict ends the call.  The write was not made, was
\* made without an answer, or is still on its way.
UpdateFails(c) ==
  /\ Fault
  /\ Goto(c, "update", "failed")
  /\ LET v == updateFn(c, copy[c])
     IN  \/ UNCHANGED <<store, delayed>>
         \/ /\ Accepts(read[c])
            /\ Stored(v)
            /\ UNCHANGED delayed
         \/ /\ delayed[c] = None
            /\ delayed' = [delayed EXCEPT ![c] = Write(v, read[c])]
            /\ UNCHANGED store
  /\ UNCHANGED <<mine, conflicts, begun, calls>>

\* A delayed write arrives; nobody waits for the answer.
Arrives(c) ==
  /\ delayed[c] # None
  /\ IF Accepts(delayed[c].at) THEN Stored(delayed[c].value) ELSE UNCHANGED store
  /\ delayed' = [delayed EXCEPT ![c] = None]
  /\ UNCHANGED <<pc, mine, conflicts, begun, calls, faults>>

-----------------------------------------------------------------------------
Init ==
  /\ value = <<>>
  /\ revision = 0
  /\ pc = [c \in Clients |-> "idle"]
  /\ copy = [c \in Clients |-> <<>>]
  /\ read = [c \in Clients |-> 0]
  /\ conflicts = [c \in Clients |-> 0]
  /\ begun = [c \in Clients |-> 0]
  /\ delayed = [c \in Clients |-> None]
  /\ calls = 0
  /\ faults = 0

Loop(c) == Update(c) \/ Conflict(c) \/ Reread(c)

Next ==
  \E c \in Clients :
    \/ Begin(c) \/ BeginFromResult(c)
    \/ Loop(c)
    \/ RereadFails(c) \/ UpdateFails(c)
    \/ Arrives(c)

Spec == Init /\ [][Next]_vars

\* A caller waits for UpdateOrchestration to return.
FairSpec == Spec /\ \A c \in Clients : WF_vars(Loop(c))

-----------------------------------------------------------------------------
\* Properties.

\* Types; a client overtaken maxUpdateConflicts times has given up.
TypeOK ==
  /\ value \in Seq(Clients)
  /\ revision \in Nat
  /\ pc \in [Clients -> Clean \union {"update", "reread"}]
  /\ copy \in [Clients -> Seq(Clients)]
  /\ read \in [Clients -> Nat]
  /\ conflicts \in [Clients -> 0..maxUpdateConflicts]
  /\ begun \in [Clients -> Nat]
  /\ delayed \in [Clients -> Writes \union {None}]
  /\ calls \in 0..MaxCalls
  /\ faults \in 0..MaxFaults
  /\ \A c \in Clients :
       pc[c] \in {"update", "reread"} => conflicts[c] < maxUpdateConflicts

\* UpdateOrchestration gives up for conflicts only if maxUpdateConflicts other
\* updates of the entry have been made since the call began: an orchestration
\* with fewer activities in parallel never runs into the limit.
GivesUpUnderContentionOnly ==
  \A c \in Clients :
    pc[c] = "exhausted" => revision >= begun[c] + maxUpdateConflicts

\* The entry behaves as if every update were one step: none is lost, none is
\* made twice, and what a successful call returns is the entry as it was right
\* after that call's own update.
status ==
  [c \in Clients |->
    CASE pc[c] \in {"update", "reread"} -> "busy"
      [] pc[c] = "exhausted" -> "failed"
      [] OTHER -> pc[c]]

Atomic == INSTANCE AtomicUpdate WITH late <- {c \in Clients : delayed[c] # None}

ImplementsAtomicUpdate == Atomic!Spec

\* processOnActivityCompletion decides from what its update returned whether the
\* step is done.  Of two calls that succeeded, the later one has seen the other.
LaterSeesEarlier ==
  \A c, d \in Clients :
    pc[c] = "ok" /\ pc[d] = "ok" /\ read[c] < read[d] =>
      \E i \in 1..Len(copy[d]) : copy[c] = SubSeq(copy[d], 1, i)

\* Every call returns: it is overtaken at most maxUpdateConflicts times.
CallsReturn ==
  \A c \in Clients : pc[c] = "update" ~> pc[c] \in Clean
=============================================================================
