----------------------------- MODULE Delegation -----------------------------
(***************************************************************************)
(* Tool calls and sub-agents: ToolCallManager::execute_tool, the tools     *)
(* delegate_task and delegate_tasks, SubAgentRuntime, and the two threads  *)
(* and the pool they block: the io loop's thread waits for a tool call of  *)
(* the parent agent, a pool worker that runs a delegation waits in         *)
(* sync_wait for a coroutine of the workflow loop, and that loop's one     *)
(* thread waits for the tool calls of its sub-agents (pool items again),   *)
(* or for the parts of a parallel or speculative delegation.               *)
(*                                                                         *)
(* The pool is the FIFO with a bound that ThreadPool is (FifoDispatch,     *)
(* ExactlyOnce); here only who holds a worker matters.                     *)
(***************************************************************************)
EXTENDS Naturals, Sequences, FiniteSets

CONSTANTS
    Worker,             \* the workers of core_pool
    MaxQueueSize,       \* the pool's max_queue_size
    Call,               \* bound: the parent's tool calls, each made once
    Kinds,              \* which tools they call
    MaxParallel,        \* parts of a delegation (config_.max_parallel)
    MaxUses,            \* bound on tool calls of sub-agents
    MaxStops,           \* bound on deadlines and cancellations
    MaxCompletedStatus  \* kMaxCompletedStatus

ASSUME DelegationAssumption ==
    /\ {MaxQueueSize, MaxParallel, MaxCompletedStatus} \subseteq Nat \ {0}
    /\ {MaxUses, MaxStops} \subseteq Nat
    /\ Kinds \subseteq {"tool", "delegate", "parallel", "speculative"}
    /\ IsFiniteSet(Worker) /\ Worker # {} /\ IsFiniteSet(Call)

\* Sub-agents: <<c, 0>> for delegate_task, <<c, i>> for the i-th part.
Task == Call \X (0 .. MaxParallel)

Item(what, id) == [what |-> what, id |-> id]
Nothing == Item("nothing", <<>>)

VARIABLES
    kind, seen,          \* per call: its tool; what the caller was told
    io,                  \* the item the io thread waits for
    queue, worker,       \* the pool: its queue, and what each worker holds
    ready,               \* items whose future is set
    inbound,             \* coroutines submitted to the workflow loop
    loopAt,              \* the item its thread is blocked on
    submitted,           \* per call: parts handed to the pool
    task,                \* control state of each sub-agent's execute()
    outcome,             \* its SubAgentStatus once it has ended
    uses,                \* tool calls sub-agents have made
    token,               \* sub-agents whose task_cancel is cancelled
    expired,             \* sub-agents whose deadline has passed
    asked,               \* sub-agents somebody cancelled
    active_tokens_, active_status_, completed_status_order_

ioVars == <<kind, seen, io>>
poolVars == <<queue, worker, ready>>
loopVars == <<inbound, loopAt, submitted>>
taskVars == <<task, outcome, uses, token, expired, asked>>
statusVars == <<active_tokens_, active_status_, completed_status_order_>>
vars == <<ioVars, poolVars, loopVars, taskVars, statusVars>>

Init ==
    /\ kind = [c \in Call |-> "none"] /\ seen = [c \in Call |-> "none"] /\ io = Nothing
    /\ queue = <<>> /\ worker = [w \in Worker |-> Nothing] /\ ready = {}
    /\ inbound = <<>> /\ loopAt = Nothing /\ submitted = [c \in Call |-> 0]
    /\ task = [t \in Task |-> "none"] /\ outcome = [t \in Task |-> "none"]
    /\ uses = 0 /\ token = {} /\ expired = {} /\ asked = {}
    /\ active_tokens_ = {} /\ active_status_ = <<>> /\ completed_status_order_ = <<>>

Full == Len(queue) >= MaxQueueSize

-----------------------------------------------------------------------------
(* ToolCallManager::execute_tool, called on the io loop by the parent.     *)

\* Refused by the permission provider, or the pool is full: an error at once.
CallRefused(c, k) ==
    /\ io = Nothing /\ kind[c] = "none"
    /\ kind' = [kind EXCEPT ![c] = k]
    /\ seen' = [seen EXCEPT ![c] = "error"]
    /\ UNCHANGED <<io, poolVars, loopVars, taskVars, statusVars>>

execute_tool(c, k) ==
    /\ io = Nothing /\ kind[c] = "none" /\ ~Full
    /\ kind' = [kind EXCEPT ![c] = k]
    /\ queue' = Append(queue, Item("call", c))
    /\ io' = Item("call", c)
    /\ UNCHANGED <<seen, worker, ready, loopVars, taskVars, statusVars>>

\* Mutant: future.wait() in place of wait_for.
CallReturns_NoTimeout ==
    /\ io # Nothing /\ io \in ready
    /\ seen' = [seen EXCEPT ![io.id] = "result"]
    /\ io' = Nothing
    /\ UNCHANGED <<kind, poolVars, loopVars, taskVars, statusVars>>

\* wait_for comes back with the result, or with a timeout: the tool goes on
\* and nobody will look at its result.
CallReturns ==
    /\ io # Nothing
    /\ seen' = [seen EXCEPT ![io.id] = IF io \in ready THEN "result" ELSE "timeout"]
    /\ io' = Nothing
    /\ UNCHANGED <<kind, poolVars, loopVars, taskVars, statusVars>>

-----------------------------------------------------------------------------
(* The workers.                                                            *)

\* The coroutine a worker waits for in sync_wait.
Coroutine(item) ==
    CASE item.what = "part" -> Item("execute", item.id)
      [] item.what = "call" /\ kind[item.id] = "delegate" -> Item("execute", <<item.id, 0>>)
      [] OTHER -> Item("gather", item.id)

Plain(item) == IF item.what = "call" THEN kind[item.id] = "tool" ELSE item.what = "use"

\* A worker takes the first item; a delegation goes to the loop at once.
Take(w) ==
    /\ worker[w] = Nothing /\ queue # <<>>
    /\ queue' = Tail(queue)
    /\ worker' = [worker EXCEPT ![w] = Head(queue)]
    /\ inbound' = IF Plain(Head(queue)) THEN inbound
                  ELSE Append(inbound, Coroutine(Head(queue)))
    /\ UNCHANGED <<ioVars, ready, loopAt, submitted, taskVars, statusVars>>

\* The coroutine has ended; the worker sets the promise and is free.
Ended(coroutine) ==
    IF coroutine.what = "execute" THEN task[coroutine.id] = "ended"
    ELSE coroutine \in ready

Finish(w) ==
    /\ worker[w] # Nothing
    /\ ~Plain(worker[w]) => Ended(Coroutine(worker[w]))
    /\ ready' = ready \cup {worker[w]}
    /\ worker' = [worker EXCEPT ![w] = Nothing]
    /\ UNCHANGED <<ioVars, queue, loopVars, taskVars, statusVars>>

-----------------------------------------------------------------------------
(* The registry of running sub-agents.                                     *)

register_active(t) ==
    /\ active_tokens_' = active_tokens_ \cup {t}
    /\ active_status_' = [u \in DOMAIN active_status_ \cup {t} |->
                             IF u = t THEN "running" ELSE active_status_[u]]
    /\ UNCHANGED completed_status_order_

\* Mutant: the status of the oldest registered task is dropped, ended or not.
unregister_active_AnyOldest(t, status) ==
    /\ active_tokens_' = active_tokens_ \ {t}
    /\ LET known == DOMAIN active_status_ \cup {t}
           over == Cardinality(known) > MaxCompletedStatus
           oldest == CHOOSE u \in known : u # t \/ known = {t}
       IN  /\ completed_status_order_' = completed_status_order_
           /\ active_status_' = [u \in (IF over THEN known \ {oldest} ELSE known) |->
                                    IF u = t THEN status ELSE active_status_[u]]

\* The last MaxCompletedStatus statuses of ended tasks are kept.
unregister_active(t, status) ==
    LET order == Append(completed_status_order_, t)
        dropped == IF Len(order) > MaxCompletedStatus THEN {Head(order)} \ (active_tokens_ \ {t})
                   ELSE {}
    IN  /\ active_tokens_' = active_tokens_ \ {t}
        /\ completed_status_order_' = IF Len(order) > MaxCompletedStatus THEN Tail(order) ELSE order
        /\ active_status_' = [u \in (DOMAIN active_status_ \cup {t}) \ dropped |->
                                 IF u = t THEN status ELSE active_status_[u]]

\* The catch of OperationCancelled tells a timeout from a cancellation by
\* looking at the clock again.
CancelStatus(t) == IF t \in expired THEN "timeout" ELSE "cancelled"

\* execute() is over with this status.
EndTask(t, status) ==
    /\ task' = [task EXCEPT ![t] = "ended"]
    /\ outcome' = [outcome EXCEPT ![t] = status]
    /\ unregister_active(t, status)
    /\ UNCHANGED <<uses, token, expired, asked>>

-----------------------------------------------------------------------------
(* The workflow loop's thread.                                             *)

\* execute() up to its first request: registered, its watchdog running.
execute ==
    /\ loopAt = Nothing /\ inbound # <<>> /\ Head(inbound).what = "execute"
    /\ inbound' = Tail(inbound)
    /\ task' = [task EXCEPT ![Head(inbound).id] = "requesting"]
    /\ register_active(Head(inbound).id)
    /\ UNCHANGED <<ioVars, poolVars, loopAt, submitted, outcome, uses, token, expired, asked>>

\* execute_parallel and execute_speculative: the parts are submitted one by
\* one, then the thread waits for their futures.
StartGather ==
    /\ loopAt = Nothing /\ inbound # <<>> /\ Head(inbound).what = "gather"
    /\ inbound' = Tail(inbound)
    /\ loopAt' = Item("submit", Head(inbound).id)
    /\ UNCHANGED <<ioVars, poolVars, submitted, taskVars, statusVars>>

\* A submit that throws leaves the coroutine, and the parts submitted so far
\* run on their own.
SubmitPart ==
    /\ loopAt.what = "submit"
    /\ LET c == loopAt.id
           n == submitted[c] + 1
       IN  IF Full
           THEN /\ loopAt' = Nothing /\ ready' = ready \cup {Item("gather", c)}
                /\ UNCHANGED <<queue, submitted>>
           ELSE /\ queue' = Append(queue, Item("part", <<c, n>>))
                /\ submitted' = [submitted EXCEPT ![c] = n]
                /\ loopAt' = IF n < MaxParallel THEN loopAt ELSE Item("part", <<c, 1>>)
                /\ UNCHANGED ready
    /\ UNCHANGED <<ioVars, worker, inbound, taskVars, statusVars>>

\* The provider's answer resumes the sub-agent: it ends, with what the
\* provider said or because its token is cancelled, ...
SubAgentEnds(t) ==
    /\ loopAt = Nothing /\ task[t] = "requesting"
    /\ \/ \E status \in {"completed", "failed"} : EndTask(t, status)
       \/ t \in token /\ EndTask(t, CancelStatus(t))
    /\ UNCHANGED <<ioVars, poolVars, loopVars>>

\* ... or makes a tool call, for which the thread waits; the result of a call
\* the pool has no room for is an error, and the sub-agent asks again.
SubAgentUses(t) ==
    /\ loopAt = Nothing /\ task[t] = "requesting" /\ t \notin token
    /\ uses < MaxUses
    /\ uses' = uses + 1
    /\ IF Full THEN UNCHANGED <<queue, loopAt, task>>
       ELSE /\ queue' = Append(queue, Item("use", <<t, uses'>>))
            /\ loopAt' = Item("use", <<t, uses'>>)
            /\ task' = [task EXCEPT ![t] = "using"]
    /\ UNCHANGED <<ioVars, worker, ready, inbound, submitted, outcome, token, expired, asked,
                   statusVars>>

\* Mutant: the tool call is awaited without a timeout.
Awaited_NoTimeout == loopAt.what \in {"use", "part"} /\ loopAt \in ready

\* The thread waits for the future of a sub-agent's tool call (wait_for) or
\* for that of a part of a delegation (get).
Awaited == loopAt.what = "use" \/ (loopAt.what = "part" /\ loopAt \in ready)

\* The tool call is over, done or timed out: throw_if_cancelled, or the next
\* request. A part is over: the next one, or the end of the delegation, which
\* for a speculative one is the first success. execute_speculative then cancels
\* the models after it (model_cancels[j]), which is left out: a part that has
\* started succeeds only on the thread that waits here for it, so that a first
\* success, and with it a loser to cancel, is never reached.
FutureReturns ==
    /\ Awaited
    /\ IF loopAt.what = "use"
       THEN LET t == loopAt.id[1]
            IN  /\ IF t \in token THEN EndTask(t, CancelStatus(t))
                   ELSE /\ task' = [task EXCEPT ![t] = "requesting"]
                        /\ UNCHANGED <<outcome, uses, token, expired, asked, statusVars>>
                /\ loopAt' = Nothing
                /\ UNCHANGED ready
       ELSE LET c == loopAt.id[1]
                i == loopAt.id[2]
                last == (i = MaxParallel) \/ (kind[c] = "speculative" /\ outcome[<<c, i>>] = "completed")
            IN  /\ loopAt' = IF last THEN Nothing ELSE Item("part", <<c, i + 1>>)
                /\ ready' = IF last THEN ready \cup {Item("gather", c)} ELSE ready
                /\ UNCHANGED <<taskVars, statusVars>>
    /\ UNCHANGED <<ioVars, queue, worker, inbound, submitted>>

-----------------------------------------------------------------------------
(* Cancellation.                                                           *)

Running(t) == task[t] \in {"requesting", "using"}

MayStop == Cardinality(expired) + Cardinality(asked) < MaxStops

Deadline(t) ==
    /\ Running(t) /\ t \notin expired /\ MayStop
    /\ expired' = expired \cup {t}
    /\ UNCHANGED <<ioVars, poolVars, loopVars, task, outcome, uses, token, asked, statusVars>>

\* The watchdog thread polls the deadline (the parent's token is a fresh one
\* that nobody cancels).
Watchdog(t) ==
    /\ Running(t) /\ t \in expired \ token
    /\ token' = token \cup {t}
    /\ UNCHANGED <<ioVars, poolVars, loopVars, task, outcome, uses, expired, asked, statusVars>>

\* cancel(task_id), or cancel_all().
cancel(ts) ==
    /\ MayStop
    /\ ts # {} /\ ts \subseteq active_tokens_ /\ ~(ts \subseteq token)
    /\ token' = token \cup ts /\ asked' = asked \cup ts
    /\ UNCHANGED <<ioVars, poolVars, loopVars, task, outcome, uses, expired, statusVars>>

-----------------------------------------------------------------------------

LoopStep ==
    \/ execute \/ StartGather \/ SubmitPart \/ FutureReturns
    \/ \E t \in Task : SubAgentEnds(t) \/ SubAgentUses(t)

Next ==
    \/ \E c \in Call, k \in Kinds : execute_tool(c, k) \/ CallRefused(c, k)
    \/ CallReturns
    \/ \E w \in Worker : Take(w) \/ Finish(w)
    \/ LoopStep
    \/ \E t \in Task : Deadline(t) \/ Watchdog(t) \/ cancel({t})
    \/ cancel(active_tokens_)

Spec == Init /\ [][Next]_vars

\* Threads run, tools and providers come back, and wait_for returns.
FairSpec ==
    /\ Spec
    /\ WF_vars(CallReturns)
    /\ \A w \in Worker : WF_vars(Take(w)) /\ WF_vars(Finish(w))
    /\ WF_vars(LoopStep)
    /\ \A t \in Task : WF_vars(Watchdog(t))

-----------------------------------------------------------------------------
(* Properties.                                                             *)

\* status(), active_count() and cancel() of SubAgentRuntime agree with what
\* runs: a task has a token and the status running from its registration to
\* its end, whatever order tasks end in and however many statuses of ended
\* tasks are dropped. A task that ran into its deadline is reported as timed
\* out, and as cancelled only if somebody cancelled it.
StatusMatches ==
    \A t \in Task :
        /\ Running(t) <=> t \in active_tokens_
        /\ Running(t) => t \in DOMAIN active_status_
        /\ t \in DOMAIN active_status_ =>
              active_status_[t] = IF Running(t) THEN "running" ELSE outcome[t]
        /\ outcome[t] = "cancelled" => t \in asked

\* execute_tool: the io loop's thread always comes back from a tool call,
\* also when the workflow loop and all workers are stuck.
CallerFreed == io # Nothing ~> io = Nothing

\* delegate_task: a sub-agent ends, even when its tool calls cannot run
\* because every worker waits for a sub-agent, as long as the loop's thread
\* is not taken by a parallel or speculative delegation.
SinglesEnd ==
    [](\A c \in Call : kind[c] \notin {"parallel", "speculative"})
        => \A c \in Call : task[<<c, 0>>] = "requesting" ~> task[<<c, 0>>] = "ended"
=============================================================================
