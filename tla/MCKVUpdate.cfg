\* Three callers, two conflicts allowed, one failing request.
CONSTANTS
  Clients = {c1, c2, c3}
  maxUpdateConflicts = 2
  MaxCalls = 5
  MaxFaults = 1
SPECIFICATION FairSpec
INVARIANTS TypeOK GivesUpUnderContentionOnly LaterSeesEarlier
PROPERTIES ImplementsAtomicUpdate CallsReturn
CHECK_DEADLOCK FALSE
