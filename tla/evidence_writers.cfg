SPECIFICATION FairSpec
CONSTANTS
  d1 = d1
  Writers = {w1, w2}
  Keys = {k1, k2}
  Domains = {d1}
  DomainOf <- OneDomain
  None = None
  RowIds = {r1, r2, r3, r4}
INVARIANTS
  TypeOK
  NoOrphans
  ResultsAreStored
  OnePairPerWriter
PROPERTIES
  WritesAreAtomic
  WriteEnds
CHECK_DEADLOCK FALSE
