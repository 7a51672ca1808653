---------------------------- MODULE MCThreadPool ----------------------------
(* Instances of ThreadPool for TLC, and mutated operations of the pool.    *)
EXTENDS ThreadPool, TLC

CONSTANTS t1, t2, t3, w1, w2

TwoTasks == {t1, t2}
ThreeTasks == {t1, t2, t3}
OneWorker == {w1}
TwoWorkers == {w1, w2}
Symmetric == Permutations({w1, w2}) \cup Permutations({t1, t2, t3})
AllCalls == {"submit_batch", "wait", "pause", "shutdown"}
JustWait == {"wait"}
JustShutdown == {"shutdown"}
=============================================================================
