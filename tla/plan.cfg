SPECIFICATION FairSpec
CONSTANTS
    Option = {o1}
    MaxStarts = 2
    MaxQuestions = 3
    MaxRevision = 5
    MaxThrows = 1
    MaxBusy = 1
    MaxRestarts = 1
INVARIANTS
    FinalMatchesRevision
    ExecutesFinalPlan
    ExecutingHasTodos
PROPERTY PlanSettles
CHECK_DEADLOCK FALSE
