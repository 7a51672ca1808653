----------------------------- MODULE SessionPool -----------------------------
(***************************************************************************)
(* The sessions the server keeps in memory: server::SessionPool, the       *)
(* messages that take an entry out of it, and the ActiveRunGuard of        *)
(* handle_ws_chat. A message is taken by a connection's thread, which asks *)
(* the pool for the entry of its session and posts the handler to the loop *)
(* of the entry's agent; the handler starts there some time later.         *)
(*                                                                         *)
(* mutex_ of the pool is held over several steps (op): it does not keep    *)
(* the loops from starting and ending runs, which take run_mutex alone.    *)
(* A key stands for (user, workspace, session id).                         *)
(***************************************************************************)
EXTENDS Naturals, Sequences, FiniteSets, SequencesExt

CONSTANTS
    Key,           \* sessions
    MaxSize,       \* max_size_
    MaxChats,      \* bound on chat messages, and so on the entries ever made
    MaxRemoves,    \* bound on deleted sessions
    MaxAborts,     \* bound on aborts
    MaxGets        \* bound on look-ups by the HTTP API

ASSUME PoolAssumption ==
    /\ MaxSize \in Nat \ {0} /\ MaxChats \in Nat
    /\ MaxRemoves \in Nat /\ MaxAborts \in Nat /\ MaxGets \in Nat

NoEntry == 0
Entry == 1 .. MaxChats

VARIABLES
    entries,        \* entries_: the entry of a key, or NoEntry
    lru_order,      \* lru_order_, the oldest first
    op,             \* what the holder of mutex_ is doing
    made,           \* number of entries made so far
    key,            \* the session an entry was made for
    pending_remove, active_run, active_cancel, \* fields of an entry; is the token cancelled
    posted,         \* chat handlers of an entry that have not started
    runs,           \* chat handlers of an entry that are running the agent
    aborting,       \* entries found by cancel(), whose run_mutex it waits for
    chats, removes, aborts, gets

vars == <<entries, lru_order, op, made, key, pending_remove, active_run, active_cancel, posted,
          runs, aborting, chats, removes, aborts, gets>>

entryVars == <<made, key, pending_remove>>
runVars == <<active_run, active_cancel, runs>>
bounds == <<chats, removes, aborts, gets>>

Idle == [do |-> "nothing"]
Free == op = Idle
Pooled == {k \in Key : entries[k] # NoEntry}

Init ==
    /\ entries = [k \in Key |-> NoEntry] /\ lru_order = <<>> /\ op = Idle
    /\ made = 0 /\ key = [e \in Entry |-> CHOOSE k \in Key : TRUE]
    /\ pending_remove = [e \in Entry |-> FALSE]
    /\ active_run = [e \in Entry |-> FALSE] /\ active_cancel = [e \in Entry |-> FALSE]
    /\ posted = [e \in Entry |-> 0] /\ runs = [e \in Entry |-> 0] /\ aborting = {}
    /\ chats = 0 /\ removes = 0 /\ aborts = 0 /\ gets = 0

-----------------------------------------------------------------------------
(* get_or_create, for a chat message.                                      *)

erase_lru(k) == RemoveFirst(lru_order, k)
touch_lru(k) == Append(erase_lru(k), k)

\* fire_and_forget(handle_ws_chat).
PostHandler(e) == posted' = [posted EXCEPT ![e] = @ + 1]

\* The entry is there: it is handed out, or it is marked, idle, and goes.
Reuse(k) ==
    /\ Free /\ chats < MaxChats /\ entries[k] # NoEntry
    /\ chats' = chats + 1
    /\ LET e == entries[k] IN
       IF pending_remove[e] /\ ~active_run[e]
       THEN /\ op' = [do |-> "replace", k |-> k]
            /\ UNCHANGED <<lru_order, posted>>
       ELSE /\ lru_order' = touch_lru(k)
            /\ PostHandler(e)
            /\ UNCHANGED op
    /\ UNCHANGED <<entries, aborting, removes, aborts, gets, entryVars, runVars>>

Erase(k) ==
    /\ entries' = [entries EXCEPT ![k] = NoEntry]
    /\ lru_order' = erase_lru(k)

ErasePending ==
    /\ op.do = "replace"
    /\ Erase(op.k)
    /\ op' = [do |-> "make", k |-> op.k, i |-> 1]
    /\ UNCHANGED <<posted, aborting, bounds, entryVars, runVars>>

Missing(k) ==
    /\ Free /\ chats < MaxChats /\ entries[k] = NoEntry
    /\ chats' = chats + 1
    /\ op' = [do |-> "make", k |-> k, i |-> 1]
    /\ UNCHANGED <<entries, lru_order, posted, aborting, removes, aborts, gets, entryVars,
                   runVars>>

Full == Cardinality(Pooled) >= MaxSize /\ lru_order # <<>>

\* Mutant: an active entry sends the scan back to the oldest.
Evict_Again ==
    /\ op.do = "make" /\ Full /\ op.i <= Len(lru_order)
    /\ LET k == lru_order[op.i] IN
       IF active_run[entries[k]]
       THEN op' = [op EXCEPT !.i = 1] /\ UNCHANGED <<entries, lru_order>>
       ELSE op' = [op EXCEPT !.i = 1] /\ Erase(k)
    /\ UNCHANGED <<posted, aborting, bounds, entryVars, runVars>>

\* Mutant: an evicted entry stays in lru_order_.
Evict_KeepLru ==
    /\ op.do = "make" /\ Full /\ op.i <= Len(lru_order)
    /\ LET k == lru_order[op.i] IN
       IF entries[k] # NoEntry /\ active_run[entries[k]]
       THEN op' = [op EXCEPT !.i = @ + 1] /\ UNCHANGED <<entries, lru_order>>
       ELSE /\ op' = [op EXCEPT !.i = 1]
            /\ entries' = [entries EXCEPT ![k] = NoEntry] /\ UNCHANGED lru_order
    /\ UNCHANGED <<posted, aborting, bounds, entryVars, runVars>>

\* One entry of the scan from the oldest on, under its run_mutex: the first
\* that is not running goes.
Evict ==
    /\ op.do = "make" /\ Full /\ op.i <= Len(lru_order)
    /\ LET k == lru_order[op.i] IN
       IF entries[k] # NoEntry /\ active_run[entries[k]]
       THEN op' = [op EXCEPT !.i = @ + 1] /\ UNCHANGED <<entries, lru_order>>
       ELSE /\ op' = [op EXCEPT !.i = 1]
            /\ entries' = [entries EXCEPT ![k] = NoEntry]
            /\ lru_order' = RemoveAt(lru_order, op.i)
    /\ UNCHANGED <<posted, aborting, bounds, entryVars, runVars>>

\* "session pool is full of active sessions" is thrown: no handler.
RefuseChat ==
    /\ op.do = "make" /\ Full /\ op.i > Len(lru_order)
    /\ op' = Idle
    /\ UNCHANGED <<entries, lru_order, posted, aborting, bounds, entryVars, runVars>>

\* The new entry takes its history from the database.
Make ==
    /\ op.do = "make" /\ ~Full
    /\ made' = made + 1
    /\ key' = [key EXCEPT ![made + 1] = op.k]
    /\ entries' = [entries EXCEPT ![op.k] = made + 1]
    /\ lru_order' = touch_lru(op.k)
    /\ PostHandler(made + 1)
    /\ op' = Idle
    /\ UNCHANGED <<pending_remove, aborting, bounds, runVars>>

-----------------------------------------------------------------------------
(* The other operations of the pool.                                       *)

\* get(), for the HTTP API and the permission messages.
get(k) ==
    /\ Free /\ gets < MaxGets /\ entries[k] # NoEntry
    /\ gets' = gets + 1
    /\ lru_order' = touch_lru(k)
    /\ UNCHANGED <<entries, op, posted, aborting, chats, removes, aborts, entryVars, runVars>>

\* remove() of a running session only marks it and cancels the run.
RemoveActive(k) ==
    /\ Free /\ removes < MaxRemoves /\ entries[k] # NoEntry /\ active_run[entries[k]]
    /\ removes' = removes + 1
    /\ pending_remove' = [pending_remove EXCEPT ![entries[k]] = TRUE]
    /\ active_cancel' = [active_cancel EXCEPT ![entries[k]] = TRUE]
    /\ UNCHANGED <<entries, lru_order, op, made, key, active_run, runs, posted, aborting, chats,
                   aborts, gets>>

\* Otherwise it has seen the session idle, and lets run_mutex go ...
RemoveIdle(k) ==
    /\ Free /\ removes < MaxRemoves /\ entries[k] # NoEntry /\ ~active_run[entries[k]]
    /\ removes' = removes + 1
    /\ op' = [do |-> "remove", k |-> k]
    /\ UNCHANGED <<entries, lru_order, posted, aborting, chats, aborts, gets, entryVars, runVars>>

\* ... before the entry goes.
RemoveErase ==
    /\ op.do = "remove"
    /\ Erase(op.k)
    /\ op' = Idle
    /\ UNCHANGED <<posted, aborting, bounds, entryVars, runVars>>

\* cancel(), for an abort: get() first, mutex_ is free again ...
cancel(k) ==
    /\ Free /\ aborts < MaxAborts /\ entries[k] # NoEntry
    /\ aborts' = aborts + 1
    /\ lru_order' = touch_lru(k)
    /\ aborting' = aborting \cup {entries[k]}
    /\ UNCHANGED <<entries, op, posted, chats, removes, gets, entryVars, runVars>>

\* ... then run_mutex: whatever run there is now is cancelled.
CancelRun(e) ==
    /\ e \in aborting
    /\ aborting' = aborting \ {e}
    /\ active_cancel' = [active_cancel EXCEPT ![e] = active_run[e]]
    /\ UNCHANGED <<entries, lru_order, op, posted, active_run, runs, bounds, entryVars>>

-----------------------------------------------------------------------------
(* handle_ws_chat on the loop of the agent: ActiveRunGuard.                *)

StartRun(e) ==
    /\ posted[e] > 0 /\ ~active_run[e]
    /\ posted' = [posted EXCEPT ![e] = @ - 1]
    /\ active_run' = [active_run EXCEPT ![e] = TRUE]
    /\ active_cancel' = [active_cancel EXCEPT ![e] = FALSE]
    /\ runs' = [runs EXCEPT ![e] = @ + 1]
    /\ UNCHANGED <<entries, lru_order, op, aborting, bounds, entryVars>>

\* Mutant: the guard that got nothing lets go all the same.
RejectChat_Releases(e) ==
    /\ posted[e] > 0 /\ active_run[e]
    /\ posted' = [posted EXCEPT ![e] = @ - 1]
    /\ active_run' = [active_run EXCEPT ![e] = FALSE]
    /\ active_cancel' = [active_cancel EXCEPT ![e] = FALSE]
    /\ UNCHANGED <<entries, lru_order, op, runs, aborting, bounds, entryVars>>

\* "session is already running": a guard that did not acquire releases
\* nothing.
RejectChat(e) ==
    /\ posted[e] > 0 /\ active_run[e]
    /\ posted' = [posted EXCEPT ![e] = @ - 1]
    /\ UNCHANGED <<entries, lru_order, op, aborting, bounds, entryVars, runVars>>

\* The run returns or throws: its outcome is sent and the guard is destroyed.
EndRun(e) ==
    /\ runs[e] > 0
    /\ runs' = [runs EXCEPT ![e] = @ - 1]
    /\ active_run' = [active_run EXCEPT ![e] = FALSE]
    /\ active_cancel' = [active_cancel EXCEPT ![e] = FALSE]
    /\ UNCHANGED <<entries, lru_order, op, posted, aborting, bounds, entryVars>>

-----------------------------------------------------------------------------

LockStep == ErasePending \/ Evict \/ RefuseChat \/ Make \/ RemoveErase

Next ==
    \/ \E k \in Key : \/ Reuse(k) \/ Missing(k) \/ get(k) \/ cancel(k)
                      \/ RemoveActive(k) \/ RemoveIdle(k)
    \/ ErasePending \/ Evict \/ RefuseChat \/ Make \/ RemoveErase
    \/ \E e \in Entry : StartRun(e) \/ RejectChat(e) \/ EndRun(e) \/ CancelRun(e)

Spec == Init /\ [][Next]_vars

\* The holder of mutex_ goes on; the loops start the handlers they are given.
\* Nothing is assumed of when a run ends.
Fairness ==
    /\ WF_vars(LockStep)
    /\ \A e \in Entry : WF_vars(StartRun(e) \/ RejectChat(e)) /\ WF_vars(CancelRun(e))

FairSpec == Spec /\ Fairness

-----------------------------------------------------------------------------
(* Properties.                                                             *)

\* lru_order_ lists the sessions of the pool, each once: no entry is out of
\* reach of the eviction, none is erased twice, and there are never more than
\* max_size_, though entries start and end runs while get_or_create looks for
\* one to evict.
LruMatches ==
    /\ IsInjective(lru_order) /\ ToSet(lru_order) = Pooled
    /\ Len(lru_order) <= MaxSize

\* active_run says exactly whether a handler is running the agent of the
\* entry: at most one does, and the ones that are turned away do not take
\* the flag from the one that runs. A cancellation does not outlive the run
\* it was meant for: the next run of the session does not start cancelled.
RunsExact ==
    \A e \in Entry :
        /\ runs[e] = IF active_run[e] THEN 1 ELSE 0
        /\ active_cancel[e] => active_run[e]

\* get_or_create and remove let mutex_ go again, even if no run ever ends:
\* the scan gives up after the last entry.
PoolLockFreed == []<>Free
=============================================================================
