SPECIFICATION FairSpec
CONSTRAINT FirstNamesFirst
CONSTANTS
  Partitions = {t1, t2}
  Keys = {k1, k2}
  Bodies = {"valid"}
  MaxLog = 2
  Consumers = {c1, c2}
  None = None
  Capacity = 1
  MaxFaults = 2
  MaxEvents = 2
INVARIANTS
  TypeOK
  RepeatsOnlyAfterEviction
PROPERTIES
  DeliversAtLeastOnce
  ServedEventsPassed
  CloseEndsLoop
CHECK_DEADLOCK FALSE
