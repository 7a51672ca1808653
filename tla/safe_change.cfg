\* Two threads, two files, two diffs, an editor, a fault and a crash.
SPECIFICATION Spec
CONSTANTS
    Files <- TwoFiles
    InitialFiles <- Existing
    Patches <- BothDiffs
    DiffOf <- Diffs
    Thread = {t1, t2}
    Requests <- ChangeAndSafeDrop
    Kinds <- AllKinds
    Contested <- Existing
    InitialAllow <- Allowances
    MaxAsks = 1
    MaxCommands = 3
    MaxEvents = 1
SYMMETRY Symmetric
INVARIANT ApprovalSpentOnce
PROPERTIES Recoverable EditsKept Delivers
CHECK_DEADLOCK FALSE
