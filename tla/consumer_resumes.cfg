SPECIFICATION Spec
CONSTANTS
  Partitions = {p1, p2}
  Keys = {k1, k2}
  Bodies = {"valid"}
  MaxLog = 2
  Consumers = {c1, c2}
  None = None
  Capacity = 2
  NoLimit = NoLimit
  MaxEvents = 2
  CallerResumes = TRUE
  MaxFaults = 2
SYMMETRY SafetySymmetry
INVARIANTS
  RepeatsOnlyAfterEviction
PROPERTIES
  CommitFollowsSuccess
  CommittedNeverRetreats
CHECK_DEADLOCK FALSE
