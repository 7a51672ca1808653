---------------------------- MODULE MCDelegation ----------------------------
EXTENDS Delegation
TwoWorkers == {"w1", "w2"}
TwoCalls == {"c1", "c2"}
OneCall == {"c1"}
JustParallel == {"parallel"}
AllKinds == {"tool", "delegate", "parallel", "speculative"}
=============================================================================
