-------------------------- MODULE WorkflowScheduler --------------------------
(***************************************************************************)
(* workflow::WorkflowScheduler::run() and the TaskExecutor under it: the   *)
(* ready tasks of a dependency graph are executed batch by batch, each on  *)
(* a thread of its own with retries, while other threads call pause(),     *)
(* resume() and cancel(), which only store atomics.                        *)
(*                                                                         *)
(* Every variable is a function of the execution: WorkflowEngine starts    *)
(* the schedulers, hands the controls to them and publishes how they end.  *)
(***************************************************************************)
EXTENDS Naturals, FiniteSets

CONSTANTS
    Exec,          \* executions, one scheduler each
    Task,          \* task ids
    Deps,          \* Deps[t]: the tasks t depends on
    Strategies,    \* error strategies an execution may be given
    MaxRetries,    \* retry_policy_.max_retries
    MaxThrows      \* bound on exceptions out of execute_batch

ASSUME SchedulerAssumption ==
    /\ IsFiniteSet(Task)
    /\ Deps \in [Task -> SUBSET Task]
    /\ Strategies \subseteq {"FAIL_FAST", "CONTINUE", "RETRY"}
    /\ MaxRetries \in Nat /\ MaxThrows \in Nat

VARIABLES
    pc,            \* where run() is
    dag_,          \* the tasks of the execution's graph
    error_strategy_,
    running_, paused_, cancelled_,
    task_results_, \* per task: "none" (not completed), "ok" or "failed"
    work,          \* per task of the batch: "out", "running", "ok", "failed"
    attempt,       \* attempts of each task so far
    status,        \* result.status
    reported,      \* tasks listed in the result's task_results
    throws,        \* exceptions so far
    late           \* history: batches begun after cancel() was called

schedulerVars == <<pc, dag_, error_strategy_, running_, paused_, cancelled_,
                   task_results_, work, attempt, status, reported, throws, late>>

Status == {"RUNNING", "SUCCESS", "FAILED", "PAUSED", "CANCELLED"}

Nothing(v) == [t \in Task |-> v]

InitWith(dags, start) ==
    /\ pc = [e \in Exec |-> start]
    /\ dag_ \in [Exec -> dags]
    /\ error_strategy_ \in [Exec -> Strategies]
    /\ running_ = [e \in Exec |-> FALSE]
    /\ paused_ = [e \in Exec |-> FALSE]
    /\ cancelled_ = [e \in Exec |-> FALSE]
    /\ task_results_ = [e \in Exec |-> Nothing("none")]
    /\ work = [e \in Exec |-> Nothing("out")]
    /\ attempt = [e \in Exec |-> Nothing(0)]
    /\ status = [e \in Exec |-> "RUNNING"]
    /\ reported = [e \in Exec |-> {}]
    /\ throws = 0
    /\ late = [e \in Exec |-> 0]

-----------------------------------------------------------------------------
(* What run() reads.                                                       *)

completed_tasks_(e) == {t \in dag_[e] : task_results_[e][t] # "none"}
successful_task_ids(e) == {t \in dag_[e] : task_results_[e][t] = "ok"}

\* Mutant: a task is ready as soon as its dependencies have completed, well
\* or not.
Ready_Completed(e) == {t \in dag_[e] \ completed_tasks_(e) : Deps[t] \subseteq completed_tasks_(e)}

\* get_ready_tasks(successful) without the completed ones.
Ready(e) == {t \in dag_[e] \ completed_tasks_(e) : Deps[t] \subseteq successful_task_ids(e)}

should_stop(e) == cancelled_[e] \/ paused_[e]

\* DAG::has_cycle (module WorkflowDag has the algorithm): some set of tasks
\* in which each waits for another of the set.
has_cycle(D) == \E S \in (SUBSET D) \ {{}} : \A t \in S : Deps[t] \cap S # {}

\* run() returns: result.status, and running_ = false.
Return(e, s) ==
    /\ pc' = [pc EXCEPT ![e] = "returned"]
    /\ status' = [status EXCEPT ![e] = s]
    /\ running_' = [running_ EXCEPT ![e] = FALSE]

-----------------------------------------------------------------------------
(* run().                                                                  *)

\* The flags are reset, then the graph is looked at.
RunStart(e) ==
    /\ pc[e] = "created"
    /\ paused_' = [paused_ EXCEPT ![e] = FALSE]
    /\ cancelled_' = [cancelled_ EXCEPT ![e] = FALSE]
    /\ IF dag_[e] = {} THEN Return(e, "SUCCESS")
       ELSE IF has_cycle(dag_[e]) THEN Return(e, "FAILED")
       ELSE /\ pc' = [pc EXCEPT ![e] = "loop"]
            /\ running_' = [running_ EXCEPT ![e] = TRUE]
            /\ UNCHANGED status
    /\ UNCHANGED <<dag_, error_strategy_, task_results_, work, attempt, reported,
                   throws, late>>

\* The head of the loop while tasks are missing: stop, or go on to a batch.
LoopTop(e) ==
    /\ pc[e] = "loop"
    /\ completed_tasks_(e) # dag_[e]
    /\ pc' = [pc EXCEPT ![e] = IF should_stop(e) THEN "stopping" ELSE "dispatch"]
    /\ UNCHANGED <<dag_, error_strategy_, running_, paused_, cancelled_,
                   task_results_, work, attempt, status, reported, throws, late>>

\* The flags are read again for the status: resume() or cancel() may have
\* come in between. run() ends, paused or not.
Stop(e) ==
    /\ pc[e] = "stopping"
    /\ Return(e, IF cancelled_[e] THEN "CANCELLED" ELSE "PAUSED")
    /\ UNCHANGED <<dag_, error_strategy_, paused_, cancelled_, task_results_, work,
                   attempt, reported, throws, late>>

\* Incomplete and nothing ready: failed tasks block the rest.
Blocked(e) ==
    /\ pc[e] = "dispatch"
    /\ Ready(e) = {}
    /\ Return(e, "FAILED")
    /\ UNCHANGED <<dag_, error_strategy_, paused_, cancelled_, task_results_, work,
                   attempt, reported, throws, late>>

\* execute_batch_tasks: every ready task is handed to a thread.
Dispatch(e) ==
    /\ pc[e] = "dispatch"
    /\ Ready(e) # {}
    /\ pc' = [pc EXCEPT ![e] = "batch"]
    /\ work' = [work EXCEPT ![e] = [t \in Task |-> IF t \in Ready(e) THEN "running" ELSE "out"]]
    /\ attempt' = [attempt EXCEPT ![e] = [t \in Task |-> IF t \in Ready(e) THEN 1 ELSE @[t]]]
    /\ late' = [late EXCEPT ![e] = IF cancelled_[e] THEN @ + 1 ELSE @]
    /\ UNCHANGED <<dag_, error_strategy_, running_, paused_, cancelled_, task_results_,
                   status, reported, throws>>

\* The pool's queue is full part-way through the batch: submit throws, the
\* tasks handed over before it run on, and run() is left with running_ set.
DispatchThrow(e) ==
    /\ pc[e] = "dispatch"
    /\ Ready(e) # {} /\ throws < MaxThrows
    /\ throws' = throws + 1
    /\ \E sent \in SUBSET Ready(e) :
          /\ sent # Ready(e)
          /\ work' = [work EXCEPT ![e] = [t \in Task |-> IF t \in sent THEN "running" ELSE "out"]]
          /\ attempt' = [attempt EXCEPT ![e] = [t \in Task |-> IF t \in sent THEN 1 ELSE @[t]]]
    /\ pc' = [pc EXCEPT ![e] = "threw"]
    /\ UNCHANGED <<dag_, error_strategy_, running_, paused_, cancelled_, task_results_,
                   status, reported, late>>

\* execute_task_with_retry (execute_task when there are no retries): one
\* attempt ends well, or it fails and is retried until none is left.
Attempt(e, t) ==
    /\ work[e][t] = "running"
    /\ \/ /\ work' = [work EXCEPT ![e][t] = "ok"]
          /\ UNCHANGED attempt
       \/ /\ attempt[e][t] <= MaxRetries
          /\ attempt' = [attempt EXCEPT ![e][t] = @ + 1]
          /\ UNCHANGED work
       \/ /\ attempt[e][t] > MaxRetries
          /\ work' = [work EXCEPT ![e][t] = "failed"]
          /\ UNCHANGED attempt
    /\ UNCHANGED <<pc, dag_, error_strategy_, running_, paused_, cancelled_,
                   task_results_, status, reported, throws, late>>

\* Every future of the batch is ready.
Collect(e) ==
    /\ pc[e] = "batch"
    /\ \A t \in Task : work[e][t] # "running"
    /\ pc' = [pc EXCEPT ![e] = "record"]
    /\ UNCHANGED <<dag_, error_strategy_, running_, paused_, cancelled_,
                   task_results_, work, attempt, status, reported, throws, late>>

\* One result of the batch is recorded; under FAIL_FAST a failed one ends
\* run() and the results after it are dropped.
Record(e, t) ==
    /\ pc[e] = "record"
    /\ work[e][t] \in {"ok", "failed"}
    /\ task_results_' = [task_results_ EXCEPT ![e][t] = work[e][t]]
    /\ work' = [work EXCEPT ![e][t] = "out"]
    /\ IF work[e][t] = "failed" /\ error_strategy_[e] = "FAIL_FAST"
       THEN Return(e, "FAILED")
       ELSE UNCHANGED <<pc, status, running_>>
    /\ UNCHANGED <<dag_, error_strategy_, paused_, cancelled_, attempt, reported,
                   throws, late>>

\* The batch is recorded: emit progress, back to the head of the loop.
BatchDone(e) ==
    /\ pc[e] = "record"
    /\ \A t \in Task : work[e][t] = "out"
    /\ pc' = [pc EXCEPT ![e] = "loop"]
    /\ UNCHANGED <<dag_, error_strategy_, running_, paused_, cancelled_,
                   task_results_, work, attempt, status, reported, throws, late>>

\* Mutant: the status is taken from the last batch, not from all results.
Finish_Optimistic(e) ==
    /\ pc[e] = "loop"
    /\ completed_tasks_(e) = dag_[e]
    /\ Return(e, "SUCCESS")
    /\ reported' = [reported EXCEPT ![e] = dag_[e]]
    /\ UNCHANGED <<dag_, error_strategy_, paused_, cancelled_, task_results_, work,
                   attempt, throws, late>>

\* Everything completed: the only return that fills in the task results.
Finish(e) ==
    /\ pc[e] = "loop"
    /\ completed_tasks_(e) = dag_[e]
    /\ Return(e, IF successful_task_ids(e) = dag_[e] THEN "SUCCESS" ELSE "FAILED")
    /\ reported' = [reported EXCEPT ![e] = dag_[e]]
    /\ UNCHANGED <<dag_, error_strategy_, paused_, cancelled_, task_results_, work,
                   attempt, throws, late>>

RunStep(e) ==
    \/ LoopTop(e) \/ Stop(e) \/ Blocked(e) \/ Dispatch(e) \/ DispatchThrow(e)
    \/ Collect(e) \/ BatchDone(e) \/ Finish(e)
    \/ \E t \in Task : Record(e, t)

-----------------------------------------------------------------------------
(* The controls: each stores one atomic, at any time.                      *)

SetFlags(e, p, c) ==
    /\ paused_' = [paused_ EXCEPT ![e] = p]
    /\ cancelled_' = [cancelled_ EXCEPT ![e] = c]
    /\ UNCHANGED <<pc, dag_, error_strategy_, running_, task_results_, work, attempt,
                   status, reported, throws, late>>

pause(e) == SetFlags(e, TRUE, cancelled_[e])
resume(e) == SetFlags(e, FALSE, cancelled_[e])
cancel(e) == SetFlags(e, paused_[e], TRUE)

-----------------------------------------------------------------------------
(* Properties.                                                             *)

\* run(), get_ready_tasks: a task that was ever started, even one that runs
\* on after an exception, had every dependency succeed before it.
DepsFirst ==
    \A e \in Exec, t \in Task :
        attempt[e][t] > 0 =>
            \A d \in Deps[t] : task_results_[e][d] = "ok" /\ work[e][d] = "out"

\* run(): the status it returns is the truth about the tasks, and a task is
\* reported failed only after max_retries + 1 attempts, however the attempts
\* of the batch and the controls interleaved. After a cancel() while run() is
\* under way, at most the batch whose stop test came before it still begins.
StatusHonest ==
    \A e \in Exec : late[e] <= 1 /\ (pc[e] = "returned" =>
        /\ \A t \in Task : task_results_[e][t] = "failed" => attempt[e][t] = MaxRetries + 1
        /\ status[e] = "SUCCESS" <=> (successful_task_ids(e) = dag_[e] /\ ~has_cycle(dag_[e]))
        /\ status[e] = "FAILED" => \/ \E t \in dag_[e] : task_results_[e][t] = "failed"
                                   \/ has_cycle(dag_[e])
        /\ status[e] = "CANCELLED" => cancelled_[e])
=============================================================================
