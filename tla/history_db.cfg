\* Two sessions, a second object of the first and the REST one; one flush, call or
\* fault.
SPECIFICATION FairSpec
CONSTANTS
    s1 = s1  s2 = s2
    t1 = t1
    Session <- TwoSessions
    Twin = {t1}
    TwinOf <- TwinOfFirst
    MaxAppends = 3
    MaxOpens = 2
    MaxEvents = 1
    Events = {"flush", "call", "fault"}
INVARIANTS FlushSettles RowsListed
PROPERTY LogSpec
PROPERTY AppendSettles
CHECK_DEADLOCK FALSE
