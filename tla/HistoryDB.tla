----------------------------- MODULE HistoryDB -----------------------------
(***************************************************************************)
(* workspace::HistoryDB: one SQLite file per user, and on it one HistoryDB *)
(* object per live session entry (each Agent opens its own) besides the    *)
(* short-lived ones the REST handlers open. append() only queues; a flush  *)
(* thread per object writes a batch in one transaction. There is no busy   *)
(* timeout: a statement that finds the file's write lock taken by another  *)
(* object fails at once, and most callers only log that.                   *)
(*                                                                         *)
(* The object of a session's entry is named by the session. When the pool  *)
(* evicts or removes the entry while a handler still holds it, the next    *)
(* message makes a second entry, with an object of its own: a twin. "api"  *)
(* is the object a REST handler opens. Only a session's own objects append *)
(* to it.                                                                  *)
(***************************************************************************)
EXTENDS Naturals, FiniteSets, SequencesExt

CONSTANTS
    Session,       \* the sessions of one user
    Twin, TwinOf,  \* further objects of a session, and whose they are
    MaxAppends,    \* bound on messages
    MaxOpens,      \* bound on objects opened
    MaxEvents,     \* bound on flush() and the other calls, crashes and faults
    Events         \* which of them happen

ASSUME HistoryAssumption ==
    /\ IsFiniteSet(Session) /\ Twin \cap Session = {} /\ TwinOf \in [Twin -> Session]
    /\ {"api", "none"} \cap (Session \cup Twin) = {}
    /\ {MaxAppends, MaxOpens, MaxEvents} \subseteq Nat
    /\ Events \subseteq {"flush", "call", "fault"}

VARIABLES
    messages,      \* table messages: per session a set of [id, seq]
    sessions,      \* table sessions: per session "absent", "unnamed", "named"
    session_states,\* table session_states: sessions that have a row
    writer,        \* the object that holds SQLite's write lock, or "none"
    life,          \* per object of a session: "closed", "open", "closing"
    global_seq, pending_count, write_queue,
    batch,         \* the rows the flush thread has swapped out, not yet tried
    tx,            \* the rows its open transaction has inserted
    size,          \* batch_size
    flusher,       \* control state of the flush thread
    job,           \* per object: the SQL statements its current call has left
    flushCall,     \* control state of the thread in flush()
    owed,          \* history: the messages queued when flush() was called
    shared,        \* history: sessions that had two objects open at once
    unlistable,    \* history: sessions a delete may have left with messages
    appended, opens, events

fileVars == <<messages, sessions, session_states, writer>>
objectVars == <<life, global_seq, pending_count, write_queue, batch, tx, size, flusher>>
callVars == <<job, flushCall, owed>>
histVars == <<shared, unlistable, appended, opens, events>>
vars == <<fileVars, objectVars, callVars, histVars>>

\* The objects that append, and all.
Handle == Session \cup Twin
Object == Handle \cup {"api"}

SessionOf(o) == IF o \in Twin THEN TwinOf[o] ELSE o

Init ==
    /\ messages = [s \in Session |-> {}]
    /\ sessions = [s \in Session |-> "absent"]
    /\ session_states = {} /\ writer = "none"
    /\ life = [o \in Handle |-> "closed"]
    /\ global_seq = [o \in Handle |-> 0]
    /\ pending_count = [o \in Handle |-> 0]
    /\ write_queue = [o \in Handle |-> <<>>]
    /\ batch = [o \in Handle |-> <<>>]
    /\ tx = [o \in Handle |-> <<>>]
    /\ size = [o \in Handle |-> 0]
    /\ flusher = [o \in Handle |-> "loop"]
    /\ job = [o \in Object |-> <<>>]
    /\ flushCall = [o \in Handle |-> "idle"]
    /\ owed = [o \in Handle |-> {}]
    /\ shared = {} /\ unlistable = {}
    /\ appended = 0 /\ opens = 0 /\ events = 0

Event(kind) == kind \in Events /\ events < MaxEvents /\ events' = events + 1

-----------------------------------------------------------------------------
(* Opening and closing an object.                                          *)

\* Mutant: the counter starts at 0, as if the file were new.
init_seq_Zero == 0

\* SELECT COALESCE(MAX(seq),0) FROM messages: over all sessions of the file,
\* and only what is committed.
init_seq ==
    LET seqs == {r.seq : r \in UNION {messages[s] : s \in Session}}
    IN  CHOOSE m \in seqs \cup {0} : \A q \in seqs : q <= m

\* An Agent is made for an entry of SessionPool and opens its object. A second
\* object of the session is opened while the first one lives on.
Open(o) ==
    /\ life[o] = "closed" /\ opens < MaxOpens
    /\ o \in Twin => life[TwinOf[o]] # "closed"
    /\ opens' = opens + 1
    /\ life' = [life EXCEPT ![o] = "open"]
    /\ global_seq' = [global_seq EXCEPT ![o] = init_seq]
    /\ shared' = IF o \in Twin THEN shared \cup {TwinOf[o]} ELSE shared
    /\ UNCHANGED <<fileVars, callVars, pending_count, write_queue, batch, tx, size,
                   flusher, unlistable, appended, events>>

\* ~HistoryDB: running = false, notify, join. A call on the object keeps its
\* entry alive, so none is under way.
Close(o) ==
    /\ life[o] = "open" /\ job[o] = <<>> /\ flushCall[o] \in {"idle", "returned"}
    /\ life' = [life EXCEPT ![o] = "closing"]
    /\ UNCHANGED <<fileVars, callVars, histVars, global_seq, pending_count, write_queue,
                   batch, tx, size, flusher>>

\* The flush thread has drained the queue and ended; sqlite3_close.
Closed(o) ==
    /\ life[o] = "closing" /\ flusher[o] = "loop" /\ write_queue[o] = <<>>
    /\ life' = [life EXCEPT ![o] = "closed"]
    /\ global_seq' = [global_seq EXCEPT ![o] = 0]
    /\ flushCall' = [flushCall EXCEPT ![o] = "idle"]
    /\ owed' = [owed EXCEPT ![o] = {}]
    /\ UNCHANGED <<fileVars, histVars, pending_count, write_queue, batch, tx,
                   size, flusher, job>>

-----------------------------------------------------------------------------
(* append() and flush().                                                   *)

\* next_seq, push_back, pending_count + 1. What appends to an object, a run of the
\* session or plan_start, is on the loop of its Agent, so the number is taken and
\* queued in one step.
append(o) ==
    /\ life[o] = "open" /\ appended < MaxAppends
    /\ appended' = appended + 1
    /\ global_seq' = [global_seq EXCEPT ![o] = @ + 1]
    /\ write_queue' = [write_queue EXCEPT ![o] = Append(@, [id |-> appended', seq |-> global_seq'[o]])]
    /\ pending_count' = [pending_count EXCEPT ![o] = @ + 1]
    /\ UNCHANGED <<fileVars, callVars, life, batch, tx, size, flusher, shared, unlistable,
                   opens, events>>

Queued(o) == tx[o] \o batch[o] \o write_queue[o]

FlushCall(o) ==
    /\ life[o] = "open" /\ flushCall[o] \in {"idle", "returned"} /\ job[o] = <<>>
    /\ Event("flush")
    /\ flushCall' = [flushCall EXCEPT ![o] = "checking"]
    /\ owed' = [owed EXCEPT ![o] = {r.id : r \in Range(Queued(o))}]
    /\ UNCHANGED <<fileVars, objectVars, job, shared, unlistable, appended, opens>>

\* flush_cv.wait: the predicate, then the wait set. flush_batch changes
\* pending_count and notifies without flush_mutex, possibly in between.
FlushStep(o) ==
    /\ \/ /\ flushCall[o] = "checking"
          /\ flushCall' = [flushCall EXCEPT ![o] = IF pending_count[o] = 0 THEN "returned"
                                                   ELSE "parking"]
       \/ /\ flushCall[o] = "parking"
          /\ flushCall' = [flushCall EXCEPT ![o] = "waiting"]
    /\ UNCHANGED <<fileVars, objectVars, histVars, job, owed>>

-----------------------------------------------------------------------------
(* The flush thread.                                                       *)

\* No synchronous call holds rw_mutex (a trim has let go of it at the end).
RwFree(o) == job[o] # <<>> => Head(job[o]).op \in {"count", "cleanup"}

\* Mutant: the count is lowered when the batch is swapped out.
SwapBatch_CountFirst(o) ==
    /\ life[o] # "closed" /\ flusher[o] = "loop" /\ write_queue[o] # <<>>
    /\ RwFree(o)
    /\ batch' = [batch EXCEPT ![o] = write_queue[o]]
    /\ size' = [size EXCEPT ![o] = 0]
    /\ pending_count' = [pending_count EXCEPT ![o] = @ - Len(write_queue[o])]
    /\ write_queue' = [write_queue EXCEPT ![o] = <<>>]
    /\ flusher' = [flusher EXCEPT ![o] = "inserting"]
    /\ UNCHANGED <<fileVars, callVars, histVars, life, global_seq, tx>>

\* Mutant: an object that is being closed writes nothing more.
SwapBatch_OpenOnly(o) ==
    /\ life[o] = "open" /\ flusher[o] = "loop" /\ write_queue[o] # <<>>
    /\ RwFree(o)
    /\ batch' = [batch EXCEPT ![o] = write_queue[o]]
    /\ size' = [size EXCEPT ![o] = Len(write_queue[o])]
    /\ write_queue' = [write_queue EXCEPT ![o] = <<>>]
    /\ flusher' = [flusher EXCEPT ![o] = "inserting"]
    /\ UNCHANGED <<fileVars, callVars, histVars, life, global_seq, pending_count, tx>>

\* flush_loop swaps the queue out; flush_batch takes rw_mutex and BEGINs.
SwapBatch(o) ==
    /\ life[o] # "closed" /\ flusher[o] = "loop" /\ write_queue[o] # <<>>
    /\ RwFree(o)
    /\ batch' = [batch EXCEPT ![o] = write_queue[o]]
    /\ size' = [size EXCEPT ![o] = Len(write_queue[o])]
    /\ write_queue' = [write_queue EXCEPT ![o] = <<>>]
    /\ flusher' = [flusher EXCEPT ![o] = "inserting"]
    /\ UNCHANGED <<fileVars, callVars, histVars, life, global_seq, pending_count, tx>>

\* sqlite3_prepare_v2 fails: ROLLBACK, and the batch is given up.
PrepareFails(o) ==
    /\ flusher[o] = "inserting" /\ tx[o] = <<>> /\ Len(batch[o]) = size[o]
    /\ Event("fault")
    /\ batch' = [batch EXCEPT ![o] = <<>>]
    /\ flusher' = [flusher EXCEPT ![o] = "committed"]
    /\ UNCHANGED <<fileVars, callVars, life, global_seq, pending_count, write_queue, tx,
                   size, shared, unlistable, appended, opens>>

\* One INSERT. The first that succeeds takes the write lock; one that finds
\* it taken is logged and the loop goes on with the next row.
Insert(o) ==
    /\ flusher[o] = "inserting" /\ batch[o] # <<>>
    /\ IF writer \in {"none", o}
       THEN /\ writer' = o
            /\ tx' = [tx EXCEPT ![o] = Append(@, Head(batch[o]))]
       ELSE UNCHANGED <<writer, tx>>
    /\ batch' = [batch EXCEPT ![o] = Tail(@)]
    /\ UNCHANGED <<messages, sessions, session_states, callVars, life, global_seq,
                   pending_count, write_queue, size, flusher, shared, unlistable,
                   appended, opens, events>>

\* upsert_session_meta: a row that is there keeps its name.
upsert_session_meta(s) ==
    sessions' = [sessions EXCEPT ![s] = IF @ = "absent" THEN "unnamed" ELSE @]

\* Mutant: the session is not listed with its messages.
Commit_NoMeta(o) ==
    /\ flusher[o] = "inserting" /\ batch[o] = <<>>
    /\ messages' = [messages EXCEPT ![SessionOf(o)] = @ \cup Range(tx[o])]
    /\ writer' = IF writer = o THEN "none" ELSE writer
    /\ tx' = [tx EXCEPT ![o] = <<>>]
    /\ unlistable' = IF tx[o] = <<>> THEN unlistable ELSE unlistable \ {SessionOf(o)}
    /\ flusher' = [flusher EXCEPT ![o] = "committed"]
    /\ UNCHANGED <<sessions, session_states, callVars, life, global_seq, pending_count,
                   write_queue, batch, size, shared, appended, opens, events>>

\* The sessions that got a row are upserted, COMMIT, rw_mutex is released.
Commit(o) ==
    /\ flusher[o] = "inserting" /\ batch[o] = <<>>
    /\ messages' = [messages EXCEPT ![SessionOf(o)] = @ \cup Range(tx[o])]
    /\ IF tx[o] = <<>> THEN UNCHANGED sessions ELSE upsert_session_meta(SessionOf(o))
    /\ writer' = IF writer = o THEN "none" ELSE writer
    /\ tx' = [tx EXCEPT ![o] = <<>>]
    /\ unlistable' = IF tx[o] = <<>> THEN unlistable ELSE unlistable \ {SessionOf(o)}
    /\ flusher' = [flusher EXCEPT ![o] = "committed"]
    /\ UNCHANGED <<session_states, callVars, life, global_seq, pending_count,
                   write_queue, batch, size, shared, appended, opens, events>>

\* pending_count -= batch_size, flush_cv.notify_all(), round the loop again.
CountDown(o) ==
    /\ flusher[o] = "committed"
    /\ pending_count' = [pending_count EXCEPT ![o] = @ - size[o]]
    /\ flushCall' = [flushCall EXCEPT ![o] = IF @ = "waiting" THEN "checking" ELSE @]
    /\ flusher' = [flusher EXCEPT ![o] = "loop"]
    /\ size' = [size EXCEPT ![o] = 0]
    /\ UNCHANGED <<fileVars, histVars, life, global_seq, write_queue, batch, tx, job, owed>>

-----------------------------------------------------------------------------
(* The synchronous calls: each is a list of autocommit statements run      *)
(* under the object's rw_mutex (the last two of a trim without it).        *)

\* must: a busy file ends the call; otherwise the next statement is tried.
Stmt(op, on, must) == [op |-> op, on |-> on, must |-> must]

DeleteStmts(S, must) ==
    <<Stmt("messages", S, must), Stmt("states", S, FALSE), Stmt("sessions", S, must)>>

\* delete_session, and each turn of delete_sessions_by_keyword
delete_session(s) == DeleteStmts({s}, TRUE)

\* delete_all_sessions: three statements over the whole workspace. It counts
\* the listed sessions first and returns when there is none.
delete_all_sessions == DeleteStmts(Session, FALSE)

\* delete_sessions_before, delete_sessions_after: the chosen sessions one
\* after the other (three statements each), whatever fails. The SELECT that
\* chooses them has no ORDER BY.
delete_sessions_by_time(chosen) ==
    [i \in 1 .. 3 * Len(chosen) |->
        DeleteStmts({chosen[(i + 2) \div 3]}, FALSE)[((i + 2) % 3) + 1]]

\* delete_messages_before, delete_messages_by_keyword, then a clean-up of
\* all empty sessions if this one has become empty.
delete_messages(s, gone) ==
    <<[op |-> "trim", on |-> {s}, must |-> TRUE, gone |-> gone],
      Stmt("count", {s}, FALSE), Stmt("cleanup", Session, FALSE)>>

save_session_state(s) == <<Stmt("save", {s}, TRUE), Stmt("upsert", {s}, FALSE)>>
create_session(s) == <<Stmt("create", {s}, TRUE)>>
rename_session(s) == <<Stmt("rename", {s}, TRUE)>>

Listed == {s \in Session : sessions[s] # "absent"}

\* The statements a call on object o may consist of: the REST handlers
\* delete a session, and rename one that has no entry; the history tools and
\* the agent call an object of the session.
CallsOn(o) ==
    IF o = "api"
    THEN {delete_session(s) : s \in Session} \cup {rename_session(s) : s \in Session}
    ELSE {create_session(SessionOf(o)), save_session_state(SessionOf(o)),
          rename_session(SessionOf(o))}
         \cup {delete_session(s) : s \in Session}
         \cup {delete_all_sessions : s \in Listed}
         \cup {delete_sessions_by_time(chosen) :
                 chosen \in UNION {SetToSeqs(S) : S \in SUBSET Listed \ {{}}}}
         \cup UNION {{delete_messages(s, g) : g \in SUBSET messages[s]} : s \in Session}

Call(o) ==
    /\ job[o] = <<>> /\ Event("call")
    /\ o \in Handle => /\ life[o] = "open" /\ flushCall[o] \in {"idle", "returned"}
                      /\ flusher[o] # "inserting"
    /\ \E stmts \in CallsOn(o) : job' = [job EXCEPT ![o] = stmts]
    /\ UNCHANGED <<fileVars, objectVars, flushCall, owed, shared, unlistable, appended, opens>>

\* What one statement does to the file when it gets the write lock.
Effect(st) ==
    /\ messages' = [s \in Session |->
          IF s \notin st.on THEN messages[s]
          ELSE CASE st.op = "messages" -> {}
                 [] st.op = "trim" -> messages[s] \ st.gone
                 [] OTHER -> messages[s]]
    /\ sessions' = [s \in Session |->
          IF s \notin st.on THEN sessions[s]
          ELSE CASE st.op = "sessions" -> "absent"
                 [] st.op = "cleanup" -> IF messages[s] = {} THEN "absent" ELSE sessions[s]
                 [] st.op = "create" -> "named"
                 [] st.op = "rename" -> IF sessions[s] = "absent" THEN "absent" ELSE "named"
                 [] st.op = "upsert" -> IF sessions[s] = "absent" THEN "unnamed" ELSE sessions[s]
                 [] OTHER -> sessions[s]]
    /\ session_states' = CASE st.op = "states" -> session_states \ st.on
                           [] st.op = "save" -> session_states \cup st.on
                           [] OTHER -> session_states

\* A statement runs when the object's flush thread is not inside its
\* transaction. count is a read; the others need the write lock.
RunStmt(o) ==
    /\ job[o] # <<>>
    /\ o \in Handle => flusher[o] # "inserting"
    /\ LET st == Head(job[o])
       IN  \/ /\ st.op = "count"
              /\ job' = [job EXCEPT ![o] = IF \A s \in st.on : messages[s] = {} THEN Tail(@) ELSE <<>>]
              /\ UNCHANGED <<messages, sessions, session_states, unlistable>>
           \/ /\ st.op # "count" /\ writer # "none"
              /\ job' = [job EXCEPT ![o] = IF st.must THEN <<>> ELSE Tail(@)]
              /\ UNCHANGED <<messages, sessions, session_states, unlistable>>
           \/ /\ st.op # "count" /\ writer = "none"
              /\ Effect(st)
              /\ job' = [job EXCEPT ![o] = Tail(@)]
              /\ unlistable' = IF st.op # "sessions" THEN unlistable
                                ELSE unlistable \cup (IF st.must THEN st.on \ ({o} \ shared) ELSE st.on)
    /\ UNCHANGED <<writer, objectVars, flushCall, owed, shared, appended, opens, events>>

-----------------------------------------------------------------------------

\* The process dies: SQLite rolls the open transaction back, queues are gone.
Crash ==
    /\ Event("fault")
    /\ life' = [o \in Handle |-> "closed"]
    /\ global_seq' = [o \in Handle |-> 0]
    /\ pending_count' = [o \in Handle |-> 0]
    /\ write_queue' = [o \in Handle |-> <<>>]
    /\ batch' = [o \in Handle |-> <<>>]
    /\ tx' = [o \in Handle |-> <<>>]
    /\ size' = [o \in Handle |-> 0]
    /\ flusher' = [o \in Handle |-> "loop"]
    /\ job' = [o \in Object |-> <<>>]
    /\ flushCall' = [o \in Handle |-> "idle"]
    /\ owed' = [o \in Handle |-> {}]
    /\ writer' = "none"
    /\ UNCHANGED <<messages, sessions, session_states, shared, unlistable,
                   appended, opens>>

FlusherStep(o) ==
    SwapBatch(o) \/ Insert(o) \/ Commit(o) \/ CountDown(o)

Next ==
    \/ \E o \in Handle :
        \/ Open(o) \/ Close(o) \/ Closed(o)
        \/ append(o) \/ FlushCall(o) \/ FlushStep(o)
        \/ FlusherStep(o) \/ PrepareFails(o)
    \/ \E o \in Object : Call(o) \/ RunStmt(o)
    \/ Crash

Spec == Init /\ [][Next]_vars

\* The flush threads run, and the statements of a call that was made, whose
\* locks they may wait for; nobody has to open, append, call, flush or close.
Fairness ==
    /\ \A o \in Handle : WF_vars(FlusherStep(o))
    /\ \A o \in Object : WF_vars(RunStmt(o))

FairSpec == Spec /\ Fairness

-----------------------------------------------------------------------------
(* Properties.                                                             *)

\* Of two rows with one number, which only two objects of a session make, the
\* one whose INSERT came first is first; the model has the older message first,
\* and looks at no list of such a session.
Before(a, b) == a.seq < b.seq \/ (a.seq = b.seq /\ a.id < b.id)

Rank(rows, r) == Cardinality({q \in rows : Before(q, r)})

\* The k-th row has k - 1 before it.
RowAt(rows, k) == CHOOSE r \in rows : Rank(rows, r) = k - 1

\* load_session: SELECT ... ORDER BY seq ASC
OrderBySeq(rows) == [k \in 1 .. Cardinality(rows) |-> RowAt(rows, k).id]

load_session(s) == OrderBySeq(messages[s])

PendingIds(o) == [i \in DOMAIN Queued(o) |-> Queued(o)[i].id]

LogOf(s) == IF s \in shared THEN <<>> ELSE load_session(s)
PendOf(s) == IF s \in shared THEN <<>> ELSE PendingIds(s)

Log == INSTANCE DurableLog WITH
          log <- [s \in Session |-> LogOf(s)],
          pend <- [s \in Session |-> PendOf(s)]

\* append, flush_batch, init_seq, the destructor and the deletes together
\* are a durable log: over closings, crashes and re-openings, messages are
\* stored in the order they were appended, each at most once, each behind
\* everything load_session returned before. Excepted is a session from the
\* moment it has two objects at once, whose numbers are taken independently.
LogSpec == Log!LogSpec

\* flush() "同步等待所有异步写入落盘": when it returns, no message queued
\* before the call is still queued, swapped out or in an open transaction.
FlushSettles ==
    \A o \in Handle : flushCall[o] = "returned" => owed[o] \cap Range(PendingIds(o)) = {}

\* flush_batch writes the session's row with its messages: a session that
\* has messages is listed. What may leave it unlisted is a bulk delete, which
\* goes on after a busy statement, or a delete through another object, whose
\* statements a commit of an object of the session may fall between.
RowsListed ==
    \A s \in Session : messages[s] # {} /\ sessions[s] = "absent" => s \in unlistable

\* flush_loop, ~HistoryDB: every message leaves the queue, through a commit,
\* a failed insert or a crash, also while its object is being closed.
AppendSettles == \A o \in Handle : []<>(Queued(o) = <<>>)

\* history_db.cpp says of global_seq "全局序列号，保证消息严格有序" (messages are
\* strictly ordered): what was appended later has the higher number. True of a
\* session with one object at a time. TLC refutes it for one with two: no run
\* keeps it.
StrictlyOrdered ==
    \A s \in Session : \A a, b \in messages[s] : a.id < b.id => a.seq < b.seq
=============================================================================
