\* One replica: redelivered and skipped revisions, failing transactions, crashes.
CONSTANTS
  Replicas = {r1}
  MaxRevision = 5
  MaxFaults = 3
SPECIFICATION FairSpec
PROPERTIES IndexCatchesUp KnownErrorIsCompensated
CHECK_DEADLOCK FALSE
