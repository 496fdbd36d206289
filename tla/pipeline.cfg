SPECIFICATION PipelineSpec
CONSTANTS
  Partitions = {p1}
  Keys = {k1, k2}
  Bodies = {"valid"}
  MaxLog = 2
  Consumers = {c1, c2}
  None = None
  Capacity = 1
  NoLimit = NoLimit
  MaxEvents = NoLimit
  CallerResumes = FALSE
  MaxFaults = 3
  d1 = d1
  Domains = {d1}
  DomainOf <- OneDomain
  RowIds = {r1, r2, r3, r4}
INVARIANTS
  PassedEventsStored
  WindowKeysAreStored
CHECK_DEADLOCK FALSE
