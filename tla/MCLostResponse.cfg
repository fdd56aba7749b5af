\* One activity after another, one failing call.
CONSTANTS
  a1 = a1
  a2 = a2
  a3 = a3
  Activities = {a1, a2}
  NumSteps = 2
  StepOf <- TwoAfterAnother
  Workers = {w1}
  Starters = {s1}
  Copies = {1}
  Results = {"complete"}
  MaxDeliver = 4
  MaxRetries = 2
  MaxFaults = 1
  LostHeartbeats = FALSE
SPECIFICATION FairSpec
PROPERTY CompletionIsNotified
CHECK_DEADLOCK FALSE
