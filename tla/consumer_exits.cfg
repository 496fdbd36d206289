SPECIFICATION FairSpec
CONSTRAINTS FewEvents FirstNamesFirst
CONSTANTS
  Partitions = {p1, p2}
  Keys = {k1, k2}
  Bodies = {"valid", "undecodable"}
  MaxLog = 3
  Consumers = {c1, c2}
  None = None
  Capacity = 1
  NoLimit = NoLimit
  MaxEvents = NoLimit
  CallerResumes = FALSE
  MaxFaults = 2
INVARIANTS
  TypeOK
  NoEventSkipped
PROPERTIES
  DeliversAtLeastOnce
  EveryValidEventPassed
  CloseEndsRun
CHECK_DEADLOCK FALSE
