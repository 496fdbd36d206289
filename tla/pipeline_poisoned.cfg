SPECIFICATION PipelineFairSpec
CONSTANTS
  Partitions = {p1}
  Keys = {k1}
  Bodies = {"valid"}
  MaxLog = 1
  Consumers = {c1, c2}
  None = None
  Capacity = 1
  NoLimit = NoLimit
  MaxEvents = NoLimit
  CallerResumes = FALSE
  MaxFaults = 2
  d1 = d1
  Domains = {d1}
  DomainOf <- OneDomain
  RowIds = {r1, r2, r3, r4}
PROPERTIES
  StoredEventPassed
CHECK_DEADLOCK FALSE
