SPECIFICATION Spec
CONSTANTS
  Partitions = {p1}
  Keys = {k1, k2}
  Bodies = {"valid"}
  MaxLog = 2
  Consumers = {c1}
  None = None
  Capacity = 2
  NoLimit = NoLimit
  MaxEvents = NoLimit
  CallerResumes = TRUE
  MaxFaults = 1
INVARIANTS
  NoEventSkipped
CHECK_DEADLOCK FALSE
