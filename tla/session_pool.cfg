SPECIFICATION FairSpec
CONSTANTS
    Key = {a, b, c}
    MaxSize = 2
    MaxChats = 4
    MaxRemoves = 1
    MaxAborts = 1
    MaxGets = 1
INVARIANTS
    LruMatches
    RunsExact
PROPERTY PoolLockFreed
CHECK_DEADLOCK FALSE
