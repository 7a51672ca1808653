----------------------------- MODULE ThreadPool -----------------------------
(***************************************************************************)
(* base::concurrency::ThreadPool: a fixed set of worker threads, one FIFO  *)
(* of packaged tasks, one mutex and two condition variables.               *)
(*                                                                         *)
(* A critical section that only reads and writes is one step; the one that *)
(* ends in condition_variable::wait is two, because stop_, pause_ and      *)
(* active_threads_ are atomics that other threads change, and notify,      *)
(* without the mutex: a notification that falls between the predicate and  *)
(* the moment the thread joins the wait set wakes nobody.                  *)
(***************************************************************************)
EXTENDS Naturals, Sequences, FiniteSets

CONSTANTS
    Task,           \* the tasks clients may submit, each at most once
    Worker,         \* the worker threads (config.min_threads of them)
    MaxQueueSize,   \* config.max_queue_size
    Calls,          \* which calls besides submit the clients make
    MaxSpurious     \* bound on spurious wakeups of condition variables

ASSUME PoolAssumption ==
    /\ MaxQueueSize \in Nat \ {0}
    /\ MaxSpurious \in Nat
    /\ Calls \subseteq {"submit_batch", "wait", "pause", "shutdown"}
    /\ IsFiniteSet(Worker) /\ Worker # {}
    /\ Worker \cap {"free", "waiter"} = {}

VARIABLES
    tasks_,          \* the queue
    stop_, pause_, active_threads_,
    queue_mutex_,    \* the thread inside cv.wait's predicate window, or "free"
    worker,          \* control state of each worker thread
    current,         \* the task each worker holds (a set of at most one)
    waiter,          \* control state of the thread that called wait()
    owed,            \* tasks accepted and unfinished when wait() was called
    signals,         \* submit calls that have pushed and not yet notified
    broadcast,       \* calls that have yet to do their notify_all
    joined,          \* shutdown() has joined every worker
    spurious,        \* spurious wakeups so far
    accepted,        \* history: tasks in the order the queue accepted them
    acceptedOpen,    \* history: tasks accepted before stop_ was stored
    taken,           \* history: tasks in the order workers popped them
    finished         \* tasks whose future is ready

vars == <<tasks_, stop_, pause_, active_threads_, queue_mutex_, worker, current,
          waiter, owed, signals, broadcast, joined, spurious, accepted,
          acceptedOpen, taken, finished>>

Elems(s) == {s[i] : i \in DOMAIN s}

WorkerState == {"top", "parking", "blocked", "holding", "counted", "ran",
                "signalling", "exited"}

Init ==
    /\ tasks_ = <<>>
    /\ stop_ = FALSE /\ pause_ = FALSE /\ active_threads_ = 0
    /\ queue_mutex_ = "free"
    /\ worker = [w \in Worker |-> "top"]
    /\ current = [w \in Worker |-> {}]
    /\ waiter = "idle" /\ owed = {}
    /\ signals = 0 /\ broadcast = {} /\ joined = FALSE /\ spurious = 0
    /\ accepted = <<>> /\ acceptedOpen = {} /\ taken = <<>> /\ finished = {}

-----------------------------------------------------------------------------
(* Clients.                                                                *)

\* Push ts at the back of the queue, under queue_mutex_.
Enqueue(ts) ==
    /\ tasks_' = tasks_ \o ts
    /\ accepted' = accepted \o ts
    /\ acceptedOpen' = IF stop_ THEN acceptedOpen ELSE acceptedOpen \cup Elems(ts)

\* Mutant: the task is queued and nobody is notified.
submit_Silent(t) ==
    /\ t \notin Elems(accepted)
    /\ queue_mutex_ = "free"
    /\ Len(tasks_) < MaxQueueSize
    /\ Enqueue(<<t>>)
    /\ UNCHANGED <<stop_, pause_, active_threads_, queue_mutex_, worker, current,
                   waiter, owed, signals, broadcast, joined, spurious, taken, finished>>

\* submit(): throws "Task queue is full" (no state change) when the queue is
\* full; never looks at stop_. The notify_one comes after the unlock.
submit(t) ==
    /\ t \notin Elems(accepted)
    /\ queue_mutex_ = "free"
    /\ Len(tasks_) < MaxQueueSize
    /\ Enqueue(<<t>>)
    /\ signals' = signals + 1
    /\ UNCHANGED <<stop_, pause_, active_threads_, queue_mutex_, worker, current,
                   waiter, owed, broadcast, joined, spurious, taken, finished>>

\* condition_.notify_one(): wakes one blocked worker, if there is one.
NotifyOne ==
    /\ signals > 0
    /\ signals' = signals - 1
    /\ \/ /\ \A w \in Worker : worker[w] # "blocked"
          /\ UNCHANGED worker
       \/ \E w \in Worker : /\ worker[w] = "blocked"
                            /\ worker' = [worker EXCEPT ![w] = "top"]
    /\ UNCHANGED <<tasks_, stop_, pause_, active_threads_, queue_mutex_, current,
                   waiter, owed, broadcast, joined, spurious, accepted,
                   acceptedOpen, taken, finished>>

\* submit_batch(): pushes until the queue is full; the element that does not
\* fit throws, which leaves the earlier ones queued and skips notify_all.
submit_batch(ts) ==
    /\ "submit_batch" \in Calls
    /\ Elems(ts) \cap Elems(accepted) = {}
    /\ queue_mutex_ = "free"
    /\ LET room == MaxQueueSize - Len(tasks_)
       IN  IF Len(ts) <= room
           THEN Enqueue(ts) /\ broadcast' = broadcast \cup {"batch"}
           ELSE Enqueue(SubSeq(ts, 1, room)) /\ UNCHANGED broadcast
    /\ UNCHANGED <<stop_, pause_, active_threads_, queue_mutex_, worker, current,
                   waiter, owed, signals, joined, spurious, taken, finished>>

\* condition_.notify_all() of submit_batch, resume and shutdown.
NotifyAll(call) ==
    /\ call \in broadcast
    /\ broadcast' = broadcast \ {call}
    /\ worker' = [w \in Worker |-> IF worker[w] = "blocked" THEN "top" ELSE worker[w]]
    /\ UNCHANGED <<tasks_, stop_, pause_, active_threads_, queue_mutex_, current,
                   waiter, owed, signals, joined, spurious, accepted,
                   acceptedOpen, taken, finished>>

pause ==
    /\ "pause" \in Calls
    /\ pause_' = TRUE
    /\ UNCHANGED <<tasks_, stop_, active_threads_, queue_mutex_, worker, current,
                   waiter, owed, signals, broadcast, joined, spurious, accepted,
                   acceptedOpen, taken, finished>>

resume ==
    /\ "pause" \in Calls
    /\ pause_' = FALSE
    /\ broadcast' = broadcast \cup {"resume"}
    /\ UNCHANGED <<tasks_, stop_, active_threads_, queue_mutex_, worker, current,
                   waiter, owed, signals, joined, spurious, accepted,
                   acceptedOpen, taken, finished>>

\* shutdown(), also run by the destructor: store stop_, then notify_all, then
\* join every worker.
shutdown ==
    /\ "shutdown" \in Calls
    /\ ~stop_
    /\ stop_' = TRUE
    /\ broadcast' = broadcast \cup {"shutdown"}
    /\ UNCHANGED <<tasks_, pause_, active_threads_, queue_mutex_, worker, current,
                   waiter, owed, signals, joined, spurious, accepted,
                   acceptedOpen, taken, finished>>

ShutdownJoin ==
    /\ stop_ /\ "shutdown" \notin broadcast /\ ~joined
    /\ \A w \in Worker : worker[w] = "exited"
    /\ joined' = TRUE
    /\ UNCHANGED <<tasks_, stop_, pause_, active_threads_, queue_mutex_, worker,
                   current, waiter, owed, signals, broadcast, spurious, accepted,
                   acceptedOpen, taken, finished>>

-----------------------------------------------------------------------------
(* wait(): a client waits on done_condition_ for an empty queue and no     *)
(* active thread.                                                          *)

WaitCall ==
    /\ "wait" \in Calls
    /\ waiter = "idle"
    /\ waiter' = "top"
    /\ owed' = Elems(accepted) \ finished
    /\ UNCHANGED <<tasks_, stop_, pause_, active_threads_, queue_mutex_, worker,
                   current, signals, broadcast, joined, spurious, accepted,
                   acceptedOpen, taken, finished>>

\* Mutant: only the active count is looked at.
Quiet_CountOnly == active_threads_ = 0

Quiet == tasks_ = <<>> /\ active_threads_ = 0

WaitStep ==
    /\ \/ /\ waiter = "top" /\ queue_mutex_ = "free" /\ Quiet
          /\ waiter' = "returned" /\ UNCHANGED queue_mutex_
       \/ /\ waiter = "top" /\ queue_mutex_ = "free" /\ ~Quiet
          /\ waiter' = "parking" /\ queue_mutex_' = "waiter"
       \/ /\ waiter = "parking"
          /\ waiter' = "blocked" /\ queue_mutex_' = "free"
    /\ UNCHANGED <<tasks_, stop_, pause_, active_threads_, worker, current, owed,
                   signals, broadcast, joined, spurious, accepted, acceptedOpen,
                   taken, finished>>

-----------------------------------------------------------------------------
(* worker_thread().                                                        *)

WakePredicate == stop_ \/ (~pause_ /\ tasks_ # <<>>)

\* The predicate is false: go to sleep, in two steps.
WorkerPark(w) ==
    /\ \/ /\ worker[w] = "top" /\ queue_mutex_ = "free" /\ ~WakePredicate
          /\ worker' = [worker EXCEPT ![w] = "parking"]
          /\ queue_mutex_' = w
       \/ /\ worker[w] = "parking"
          /\ worker' = [worker EXCEPT ![w] = "blocked"]
          /\ queue_mutex_' = "free"
    /\ UNCHANGED <<tasks_, stop_, pause_, active_threads_, current, waiter, owed,
                   signals, broadcast, joined, spurious, accepted, acceptedOpen,
                   taken, finished>>

\* Mutant: the newest task is popped.
WorkerTake_Back(w) ==
    /\ worker[w] = "top" /\ queue_mutex_ = "free"
    /\ WakePredicate /\ tasks_ # <<>>
    /\ current' = [current EXCEPT ![w] = {tasks_[Len(tasks_)]}]
    /\ taken' = Append(taken, tasks_[Len(tasks_)])
    /\ tasks_' = SubSeq(tasks_, 1, Len(tasks_) - 1)
    /\ worker' = [worker EXCEPT ![w] = "holding"]
    /\ UNCHANGED <<stop_, pause_, active_threads_, queue_mutex_, waiter, owed,
                   signals, broadcast, joined, spurious, accepted, acceptedOpen,
                   finished>>

\* Mutant: the front is read and not popped.
WorkerTake_NoPop(w) ==
    /\ worker[w] = "top" /\ queue_mutex_ = "free"
    /\ WakePredicate /\ tasks_ # <<>>
    /\ current' = [current EXCEPT ![w] = {Head(tasks_)}]
    /\ taken' = Append(taken, Head(tasks_))
    /\ worker' = [worker EXCEPT ![w] = "holding"]
    /\ UNCHANGED <<tasks_, stop_, pause_, active_threads_, queue_mutex_, waiter, owed,
                   signals, broadcast, joined, spurious, accepted, acceptedOpen,
                   finished>>

\* The predicate is true and the queue is not empty: pop the front, unlock.
WorkerTake(w) ==
    /\ worker[w] = "top" /\ queue_mutex_ = "free"
    /\ WakePredicate /\ tasks_ # <<>>
    /\ current' = [current EXCEPT ![w] = {Head(tasks_)}]
    /\ taken' = Append(taken, Head(tasks_))
    /\ tasks_' = Tail(tasks_)
    /\ worker' = [worker EXCEPT ![w] = "holding"]
    /\ UNCHANGED <<stop_, pause_, active_threads_, queue_mutex_, waiter, owed,
                   signals, broadcast, joined, spurious, accepted, acceptedOpen,
                   finished>>

\* active_threads_ is incremented only now, outside the mutex.
WorkerCount(w) ==
    /\ worker[w] = "holding"
    /\ active_threads_' = active_threads_ + 1
    /\ worker' = [worker EXCEPT ![w] = "counted"]
    /\ UNCHANGED <<tasks_, stop_, pause_, queue_mutex_, current, waiter, owed,
                   signals, broadcast, joined, spurious, accepted, acceptedOpen,
                   taken, finished>>

\* Run the task; a packaged_task turns an exception into the future's value.
WorkerRun(w) ==
    /\ worker[w] = "counted"
    /\ finished' = finished \cup current[w]
    /\ current' = [current EXCEPT ![w] = {}]
    /\ worker' = [worker EXCEPT ![w] = "ran"]
    /\ UNCHANGED <<tasks_, stop_, pause_, active_threads_, queue_mutex_, waiter,
                   owed, signals, broadcast, joined, spurious, accepted,
                   acceptedOpen, taken>>

WorkerUncount(w) ==
    /\ worker[w] = "ran"
    /\ active_threads_' = active_threads_ - 1
    /\ worker' = [worker EXCEPT ![w] = "signalling"]
    /\ UNCHANGED <<tasks_, stop_, pause_, queue_mutex_, current, waiter, owed,
                   signals, broadcast, joined, spurious, accepted, acceptedOpen,
                   taken, finished>>

\* done_condition_.notify_all().
WorkerSignal(w) ==
    /\ worker[w] = "signalling"
    /\ worker' = [worker EXCEPT ![w] = "top"]
    /\ waiter' = IF waiter = "blocked" THEN "top" ELSE waiter
    /\ UNCHANGED <<tasks_, stop_, pause_, active_threads_, queue_mutex_, current,
                   owed, signals, broadcast, joined, spurious, accepted,
                   acceptedOpen, taken, finished>>

\* Mutant: a stopped worker leaves whatever the queue holds.
WorkerExit_Early(w) ==
    /\ worker[w] = "top" /\ queue_mutex_ = "free"
    /\ stop_
    /\ worker' = [worker EXCEPT ![w] = "exited"]
    /\ UNCHANGED <<tasks_, stop_, pause_, active_threads_, queue_mutex_, current,
                   waiter, owed, signals, broadcast, joined, spurious, accepted,
                   acceptedOpen, taken, finished>>

WorkerExit(w) ==
    /\ worker[w] = "top" /\ queue_mutex_ = "free"
    /\ stop_ /\ tasks_ = <<>>
    /\ worker' = [worker EXCEPT ![w] = "exited"]
    /\ UNCHANGED <<tasks_, stop_, pause_, active_threads_, queue_mutex_, current,
                   waiter, owed, signals, broadcast, joined, spurious, accepted,
                   acceptedOpen, taken, finished>>

SpuriousWakeup ==
    /\ spurious < MaxSpurious
    /\ spurious' = spurious + 1
    /\ \/ /\ waiter = "blocked" /\ waiter' = "top" /\ UNCHANGED worker
       \/ /\ \E w \in Worker : /\ worker[w] = "blocked"
                               /\ worker' = [worker EXCEPT ![w] = "top"]
          /\ UNCHANGED waiter
    /\ UNCHANGED <<tasks_, stop_, pause_, active_threads_, queue_mutex_, current,
                   owed, signals, broadcast, joined, accepted, acceptedOpen,
                   taken, finished>>

-----------------------------------------------------------------------------

WorkerStep(w) ==
    \/ WorkerPark(w) \/ WorkerTake(w) \/ WorkerCount(w) \/ WorkerRun(w)
    \/ WorkerUncount(w) \/ WorkerSignal(w) \/ WorkerExit(w)

\* Batches of two are enough to overflow the queue part-way through.
Batches == {<<t, u>> : t, u \in Task} \ {<<t, t>> : t \in Task}

Next ==
    \/ \E t \in Task : submit(t)
    \/ \E ts \in Batches : submit_batch(ts)
    \/ NotifyOne
    \/ \E call \in {"batch", "resume", "shutdown"} : NotifyAll(call)
    \/ pause \/ resume \/ shutdown \/ ShutdownJoin
    \/ WaitCall \/ WaitStep
    \/ \E w \in Worker : WorkerStep(w)
    \/ SpuriousWakeup

Spec == Init /\ [][Next]_vars

\* Threads keep running, and a call that was made runs to its end.
Fairness ==
    /\ \A w \in Worker : WF_vars(WorkerStep(w))
    /\ WF_vars(NotifyOne) /\ WF_vars(WaitStep) /\ WF_vars(ShutdownJoin)
    /\ \A call \in {"batch", "resume", "shutdown"} : WF_vars(NotifyAll(call))

FairSpec == Spec /\ Fairness

-----------------------------------------------------------------------------
(* Properties.                                                             *)

TypeOK ==
    /\ tasks_ \in Seq(Task) /\ Len(tasks_) <= MaxQueueSize
    /\ stop_ \in BOOLEAN /\ pause_ \in BOOLEAN /\ joined \in BOOLEAN
    /\ active_threads_ \in Nat /\ signals \in Nat /\ spurious \in Nat
    /\ queue_mutex_ \in Worker \cup {"free", "waiter"}
    /\ worker \in [Worker -> WorkerState]
    /\ current \in [Worker -> SUBSET Task]
    /\ waiter \in {"idle", "top", "parking", "blocked", "returned"}
    /\ owed \subseteq Task /\ finished \subseteq Task /\ acceptedOpen \subseteq Task
    /\ broadcast \subseteq {"batch", "resume", "shutdown"}
    /\ accepted \in Seq(Task) /\ taken \in Seq(Task)

\* submit/worker_thread: workers pop tasks in exactly the order in which
\* submit and submit_batch accepted them, none lost, none twice.
FifoDispatch == accepted = taken \o tasks_

\* worker_thread: every task a worker popped is in the hands of exactly one
\* worker until its future is ready, and never afterwards.
ExactlyOnce ==
    /\ \A t \in Task : t \in Elems(taken)
                          <=> (t \in finished \/ \E w \in Worker : t \in current[w])
    /\ \A w \in Worker : current[w] \cap finished = {}
    /\ \A v, w \in Worker : v # w => current[v] \cap current[w] = {}

\* stats(): active_threads_ never drifts from the number of workers inside
\* the counted region, so idle_threads = threads - active cannot underflow.
ActiveCounted ==
    active_threads_ = Cardinality({w \in Worker : worker[w] \in {"counted", "ran"}})

\* shutdown(): once it has joined the workers, every task accepted before
\* stop_ was stored has run, although pause() may have been in force.
ShutdownDrains == joined => acceptedOpen \subseteq finished

\* wait(): when it returns, no task accepted before the call is still in the
\* queue. It has run, or a worker holds it: a worker that has popped a task
\* and not counted itself yet is not waited for.
WaitDrains ==
    waiter = "returned" =>
        \A t \in owed : t \in finished \/ \E w \in Worker : t \in current[w]

\* A task the pool accepted is eventually run, while nobody pauses the pool
\* and no batch overflows.
AcceptedRuns == \A t \in Task : (t \in Elems(accepted)) ~> (t \in finished)
=============================================================================
