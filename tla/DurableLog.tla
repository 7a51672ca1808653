----------------------------- MODULE DurableLog -----------------------------
(***************************************************************************)
(* What HistoryDB promises the sessions that write their messages to it:   *)
(* a message is first pending and later settled, in the order in which the *)
(* session appended it. Settling puts it at the END of what load_session   *)
(* returns or drops it; a stored message is only ever erased. Of a session *)
(* that two objects write to at once nothing is promised any more.         *)
(***************************************************************************)
EXTENDS Naturals, Sequences

CONSTANTS
    Session        \* the sessions of one user's history.db

VARIABLES
    log,           \* per session: the messages load_session returns, in order
    pend,          \* per session: appended and not yet settled
    shared,        \* the sessions two objects have written to; their lists are empty
    appended       \* number of messages appended so far; also their identity

logVars == <<log, pend, shared, appended>>

\* q is p with some of its elements taken out.
Thinned(q, p) ==
    \E place \in [1 .. Len(q) -> 1 .. Len(p)] :
        /\ \A i, j \in 1 .. Len(q) : i < j => place[i] < place[j]
        /\ \A i \in 1 .. Len(q) : q[i] = p[place[i]]

LogInit ==
    /\ log = [s \in Session |-> <<>>]
    /\ pend = [s \in Session |-> <<>>]
    /\ shared = {} /\ appended = 0

\* The session's next message.
AppendMessage(s) ==
    /\ s \notin shared
    /\ appended' = appended + 1
    /\ pend' = [pend EXCEPT ![s] = Append(@, appended')]
    /\ UNCHANGED <<log, shared>>

\* The session gets a second object, and its next messages.
Share(s) ==
    /\ shared' = shared \cup {s}
    /\ log' = [log EXCEPT ![s] = <<>>]
    /\ pend' = [pend EXCEPT ![s] = <<>>]
    /\ UNCHANGED appended

AppendShared ==
    /\ shared # {} /\ appended' = appended + 1
    /\ UNCHANGED <<log, pend, shared>>

\* The oldest pending messages are stored behind the stored ones.
Store(s) ==
    \E n \in 1 .. Len(pend[s]) :
        /\ log' = [log EXCEPT ![s] = @ \o SubSeq(pend[s], 1, n)]
        /\ pend' = [pend EXCEPT ![s] = SubSeq(@, n + 1, Len(@))]
        /\ UNCHANGED <<shared, appended>>

\* The oldest pending messages are given up.
Drop(s) ==
    \E n \in 1 .. Len(pend[s]) :
        /\ pend' = [pend EXCEPT ![s] = SubSeq(@, n + 1, Len(@))]
        /\ UNCHANGED <<log, shared, appended>>

\* Some stored messages, of any sessions, are deleted.
Erase ==
    /\ log' = [s \in Session |-> log'[s]]
    /\ \A s \in Session : Thinned(log'[s], log[s])
    /\ UNCHANGED <<pend, shared, appended>>

\* The process dies with what it had not stored.
LosePending ==
    /\ pend' = [s \in Session |-> <<>>]
    /\ UNCHANGED <<log, shared, appended>>

LogNext ==
    \/ \E s \in Session : AppendMessage(s) \/ Store(s) \/ Drop(s) \/ Share(s)
    \/ AppendShared \/ Erase \/ LosePending

LogSpec == LogInit /\ [][LogNext]_logVars
=============================================================================
