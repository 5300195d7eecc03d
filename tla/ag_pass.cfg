CONSTANTS
    Graphs <- MCResolvable
    PoolSizes <- MCPoolSizes
    Error = Error
    None = None
    Pending = Pending
SPECIFICATION Spec
CHECK_DEADLOCK FALSE
INVARIANTS
    TypeOK
    OutputsMatchJoin
