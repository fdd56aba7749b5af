\* Duplicated messages, lost heartbeats, crashes, last deliveries.
CONSTANTS
  a1 = a1
  a2 = a2
  a3 = a3
  Activities = {a1, a2, a3}
  NumSteps = 2
  StepOf <- TwoThenOne
  Workers = {w1, w2}
  Starters = {s1}
  Copies = {1, 2}
  Results = {"complete", "retry", "fatal", "wait", "schedule", "panic"}
  MaxDeliver = 2
  MaxRetries = 2
  MaxFaults = 1
  LostHeartbeats = TRUE
SPECIFICATION Spec
INVARIANTS TypeOK StepOrder SuccessMeansAllCompleted NoLostHandoff
PROPERTY ImplementsLifecycle
SYMMETRY Symmetric
CHECK_DEADLOCK FALSE
