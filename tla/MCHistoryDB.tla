---------------------------- MODULE MCHistoryDB ----------------------------
(* Two sessions of one user; the first may have a second object.           *)
EXTENDS HistoryDB
CONSTANTS s1, s2, t1
TwoSessions == {s1, s2}
TwinOfFirst == [t \in {t1} |-> s1]
=============================================================================
