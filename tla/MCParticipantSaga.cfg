\* Two disposals, one handler, three faults.
CONSTANTS
  Disposals = {x1, x2}
  Handlers = {h1}
  MaxFaults = 3
SPECIFICATION FairSpec
INVARIANTS TypeOK ActiveMeansDeployed NotForgotten
PROPERTIES LateResponseIsIgnored Settles
CHECK_DEADLOCK FALSE
