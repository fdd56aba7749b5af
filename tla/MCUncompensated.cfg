\* One replica, nothing fails.
CONSTANTS
  Replicas = {r1}
  MaxRevision = 3
  MaxFaults = 0
SPECIFICATION FairSpec
PROPERTY EveryErrorIsCompensated
CHECK_DEADLOCK FALSE
