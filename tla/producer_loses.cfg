SPECIFICATION Spec
CONSTANTS
    Python = {py}
    TypeScript = {}
    Versions = {v1}
    Payloads <- MCPayloads
    None = None
    QueueSize = 1
    MaxCalls = 2
INVARIANTS
    FlushedIsAcknowledged
CHECK_DEADLOCK FALSE
