\* One execution, started in any way, of any graph the calls can build.
SPECIFICATION EFairSpec
CONSTANTS
    e1 = e1  a = a  b = b  c = c  d = d  self = self
    Exec <- OneExec
    Task <- Tasks
    Deps <- Diamond
    FirstTasks <- Single
    Strategies <- AllStrategies
    Modes <- AllModes
    MaxRetries = 1
    MaxThrows = 1
INVARIANTS DepsFirst StatusHonest StateMatchesRegistry
PROPERTY ExecutionsEnd
CHECK_DEADLOCK FALSE
