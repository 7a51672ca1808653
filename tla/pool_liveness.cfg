\* Clients that submit and wait: every accepted task runs.
SPECIFICATION FairSpec
CONSTANTS
    t1 = t1  t2 = t2  t3 = t3  w1 = w1  w2 = w2
    Task <- ThreeTasks
    Worker <- TwoWorkers
    MaxQueueSize = 2
    Calls <- JustWait
    MaxSpurious = 1
PROPERTY AcceptedRuns
CHECK_DEADLOCK FALSE
