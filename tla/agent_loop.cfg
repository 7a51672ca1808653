\* Two runs of up to two steps, a plan, a restart, every way a step can end.
SPECIFICATION AgentFairSpec
CONSTANTS
    ProtectRecent = 1
    HardPruneAfter = 2
    Levels <- AllLevels
    MaxToolSteps = 2
    MaxToolCalls = 2
    MaxToolCallsPerStep = 1
    MaxCompactCalls = 1
    MaxRuns = 2
    MaxCallIds = 2
    MaxPlans = 1
    MaxCrashes = 1
INVARIANTS RequestsPaired PruneExact RestoreFaithful
PROPERTY RunEnds
CHECK_DEADLOCK FALSE
