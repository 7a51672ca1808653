\* Two workers, three tasks, a queue of two, every call of the pool.
SPECIFICATION Spec
CONSTANTS
    t1 = t1  t2 = t2  t3 = t3  w1 = w1  w2 = w2
    Task <- ThreeTasks
    Worker <- TwoWorkers
    MaxQueueSize = 2
    Calls <- AllCalls
    MaxSpurious = 0
SYMMETRY Symmetric
INVARIANTS FifoDispatch ExactlyOnce WaitDrains ShutdownDrains
CHECK_DEADLOCK FALSE
