\* Two workers, two calls of any kind, two parts each.
SPECIFICATION FairSpec
CONSTANTS
    Worker <- TwoWorkers
    MaxQueueSize = 2
    Call <- TwoCalls
    Kinds <- AllKinds
    MaxParallel = 2
    MaxUses = 1
    MaxStops = 1
    MaxCompletedStatus = 1
INVARIANTS StatusMatches
PROPERTIES CallerFreed SinglesEnd
CHECK_DEADLOCK FALSE
