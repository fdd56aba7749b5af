\* Two replicas, whose transactions overlap.
CONSTANTS
  Replicas = {r1, r2}
  MaxRevision = 5
  MaxFaults = 2
SYMMETRY ReplicaSymmetry
SPECIFICATION Spec
INVARIANTS TypeOK CompensationIsJustified
PROPERTY ErrorIsIndexedAfterCompensation
CHECK_DEADLOCK FALSE
