----------------------------- MODULE AtomicUpdate -----------------------------
(***************************************************************************)
(* What UpdateOrchestration promises to its callers: an update happens at  *)
(* once, on top of every earlier one, exactly once if it succeeds and at   *)
(* most once if it fails; one that failed may still happen later.  The     *)
(* value of the entry is the history of the updates it went through.       *)
(***************************************************************************)
EXTENDS Sequences

CONSTANT Clients   \* the callers of UpdateOrchestration for one entry

VARIABLES
  value,    \* the clients whose updates have happened, in that order
  status,   \* what each client knows of its latest update
  late      \* clients with an update that failed and may still happen

avars == <<value, status, late>>

Init ==
  /\ value = <<>>
  /\ status = [c \in Clients |-> "idle"]
  /\ late = {}

Ends(c, outcome) ==
  /\ status[c] = "busy"
  /\ status' = [status EXCEPT ![c] = outcome]

Happens(c) == value' = Append(value, c)

Begin(c) ==
  /\ status[c] # "busy"
  /\ status' = [status EXCEPT ![c] = "busy"]
  /\ UNCHANGED <<value, late>>

Succeed(c) == Ends(c, "ok") /\ Happens(c) /\ UNCHANGED late

\* Whether it happened, will happen or never will, the client cannot tell.
Fail(c) ==
  /\ Ends(c, "failed")
  /\ \/ Happens(c) /\ UNCHANGED late
     \/ UNCHANGED value /\ late' \in {late, late \union {c}}

HappenLate(c) ==
  /\ c \in late
  /\ late' = late \ {c}
  /\ Happens(c) \/ UNCHANGED value
  /\ UNCHANGED status

Next == \E c \in Clients : Begin(c) \/ Succeed(c) \/ Fail(c) \/ HappenLate(c)

Spec == Init /\ [][Next]_avars
=============================================================================
