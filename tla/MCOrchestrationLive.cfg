\* The manifest is delivered twice.  Every message has one copy and one holder,
\* and deliveries never run out: 1 + one retry + one fault < MaxDeliver (1000
\* deliveries in the code).
CONSTANTS
  a1 = a1
  a2 = a2
  a3 = a3
  Activities = {a1, a2, a3}
  NumSteps = 2
  StepOf <- OneThenTwo
  Workers = {w1, w2}
  Starters = {s1, s2}
  Copies = {1}
  Results = {"complete", "retry"}
  MaxDeliver = 4
  MaxRetries = 2
  MaxFaults = 1
  LostHeartbeats = FALSE
SPECIFICATION FairSpec
INVARIANT NoRerun
PROPERTIES VerdictIsFinal EventuallyDecided
CHECK_DEADLOCK FALSE
