\* Every graph of four tasks that add_dependency accepts, every iteration order.
SPECIFICATION Spec
CONSTANTS
    a = a  b = b  c = c  d = d
    TaskId <- FourTasks
SYMMETRY Symmetric
INVARIANTS NoLongCycle SearchesSound
CHECK_DEADLOCK FALSE
