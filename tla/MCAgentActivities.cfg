CONSTANTS
  Plans <- SmallPlans
  Workers = {w1, w2}
  MaxFaults = 2
SPECIFICATION FairSpec
INVARIANTS DeployedIsComplete RepeatsAreSafe DisposedIsClean
PROPERTY EveryRunEnds
CHECK_DEADLOCK FALSE
