SPECIFICATION FairSpec
CONSTRAINTS FirstNameFirst ThreeCallsInPython
CONSTANTS
    Python = {py}
    TypeScript = {ts}
    Versions = {v1, v2}
    Payloads <- MCPayloads
    None = None
    QueueSize = 2
    MaxCalls = 3
INVARIANTS
    TypeOK
    RaisedIsNotPublished
    ReturnedIsAccountedFor
    BusConforms
    OrderFollowsReturns
PROPERTIES
    ProduceEnds
CHECK_DEADLOCK FALSE
