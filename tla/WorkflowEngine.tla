--------------------------- MODULE WorkflowEngine ---------------------------
(***************************************************************************)
(* workflow::WorkflowEngine over its schedulers: workflow definitions, the *)
(* three ways of starting an execution, the registry of active schedulers  *)
(* that pause/resume/cancel look executions up in, and the states that     *)
(* get_state reports. mutex_ is held only around the map accesses, so the  *)
(* steps below are the critical sections and what runs between them.       *)
(***************************************************************************)
EXTENDS WorkflowScheduler

CONSTANTS
    FirstTasks,    \* the tasks of the definition register_workflow is given
    Modes          \* how executions are started

ASSUME EngineAssumption ==
    /\ FirstTasks \subseteq Task
    /\ Modes \subseteq {"execute", "start_async", "execute_async"}

VARIABLES
    workflows_,         \* the tasks of the registered definition; {} if none
    active_schedulers_, \* executions pause/resume/cancel can find
    running_workflows_, \* per execution: "absent" or a Status
    active_futures_,    \* per execution: "none", "launched" (not yet stored), "held"
    mode,               \* per execution: how it was started
    completedEvent      \* executions whose completed event was emitted

engineVars == <<workflows_, active_schedulers_, running_workflows_, active_futures_,
                mode, completedEvent>>
allVars == <<schedulerVars, engineVars>>

EInit ==
    /\ InitWith({{}}, "none")
    /\ workflows_ = {} /\ active_schedulers_ = {}
    /\ running_workflows_ = [e \in Exec |-> "absent"]
    /\ active_futures_ = [e \in Exec |-> "none"]
    /\ mode \in [Exec -> Modes]
    /\ completedEvent = {}

-----------------------------------------------------------------------------
(* Definitions.                                                            *)

\* register_workflow replaces whatever was there.
register_workflow ==
    /\ workflows_ # FirstTasks
    /\ workflows_' = FirstTasks
    /\ UNCHANGED <<schedulerVars, active_schedulers_, running_workflows_, active_futures_,
                   mode, completedEvent>>

\* validate_workflow: the dependencies exist and there is no cycle.
validate_workflow(D) == (\A t \in D : Deps[t] \subseteq D) /\ ~has_cycle(D)

\* WorkflowEngine::add_task: refused while ANY scheduler is running, for a known id, or when
\* a dependency is missing.
engine_add_task(t) ==
    /\ workflows_ # {}
    /\ \A e \in active_schedulers_ : ~running_[e]
    /\ t \notin workflows_ /\ Deps[t] \subseteq workflows_
    /\ workflows_' = workflows_ \cup {t}
    /\ UNCHANGED <<schedulerVars, active_schedulers_, running_workflows_, active_futures_,
                   mode, completedEvent>>

-----------------------------------------------------------------------------
(* Starting.                                                               *)

\* get_workflow copies the definition under the lock; validation and
\* build_dag work on the copy.
CopyWorkflow(e) ==
    /\ pc[e] = "none"
    /\ workflows_ # {} /\ validate_workflow(workflows_)
    /\ dag_' = [dag_ EXCEPT ![e] = workflows_]
    /\ pc' = [pc EXCEPT ![e] = "copied"]
    /\ UNCHANGED <<error_strategy_, running_, paused_, cancelled_, task_results_, work,
                   attempt, status, reported, throws, late, engineVars>>

\* The scheduler and the RUNNING state become visible; run() comes later.
RegisterExecution(e) ==
    /\ pc[e] = "copied"
    /\ active_schedulers_' = active_schedulers_ \cup {e}
    /\ running_workflows_' = [running_workflows_ EXCEPT ![e] = "RUNNING"]
    /\ active_futures_' = [active_futures_ EXCEPT ![e] = IF mode[e] = "start_async"
                                                         THEN "launched" ELSE "none"]
    /\ pc' = [pc EXCEPT ![e] = "created"]
    /\ UNCHANGED <<dag_, error_strategy_, running_, paused_, cancelled_, task_results_, work,
                   attempt, status, reported, throws, late, workflows_, mode,
                   completedEvent>>

\* start_async stores the future after launching the thread, perhaps after
\* that thread has ended.
StoreFuture(e) ==
    /\ active_futures_[e] = "launched"
    /\ active_futures_' = [active_futures_ EXCEPT ![e] = "held"]
    /\ UNCHANGED <<schedulerVars, workflows_, active_schedulers_, running_workflows_,
                   mode, completedEvent>>

-----------------------------------------------------------------------------
(* Ending.                                                                 *)

\* Mutant: start_async lets the exception through as the others do.
Ended_NoCatch(e) == pc[e] = "returned"

\* The result run() returned; start_async turns an exception into FAILED,
\* the other two let it through and do nothing more.
Outcome(e) == IF pc[e] = "returned" THEN status[e] ELSE "FAILED"

Ended(e) == pc[e] = "returned" \/ (pc[e] = "threw" /\ mode[e] = "start_async")

\* emit_workflow_completed comes before the state is published.
EmitCompleted(e) ==
    /\ Ended(e) /\ e \notin completedEvent
    /\ completedEvent' = completedEvent \cup {e}
    /\ UNCHANGED <<schedulerVars, workflows_, active_schedulers_, running_workflows_,
                   active_futures_, mode>>

\* Mutant: the scheduler stays registered.
Publish_NoErase(e) ==
    /\ Ended(e) /\ e \in completedEvent /\ e \in active_schedulers_
    /\ running_workflows_[e] = "RUNNING"
    /\ running_workflows_' = [running_workflows_ EXCEPT ![e] = Outcome(e)]
    /\ UNCHANGED <<schedulerVars, workflows_, active_schedulers_, active_futures_, mode,
                   completedEvent>>

Publish(e) ==
    /\ Ended(e) /\ e \in completedEvent /\ e \in active_schedulers_
    /\ active_schedulers_' = active_schedulers_ \ {e}
    /\ running_workflows_' = [running_workflows_ EXCEPT ![e] = Outcome(e)]
    /\ UNCHANGED <<schedulerVars, workflows_, active_futures_, mode, completedEvent>>

\* The thread start_async launched is over.
FutureReady(e) == Ended(e) /\ e \notin active_schedulers_

-----------------------------------------------------------------------------
(* Control. Each looks the execution up and answers whether it found it;   *)
(* for one it does not find nothing happens.                               *)

EPause(e) == e \in active_schedulers_ /\ pause(e) /\ UNCHANGED engineVars
EResume(e) == e \in active_schedulers_ /\ resume(e) /\ UNCHANGED engineVars
ECancel(e) == e \in active_schedulers_ /\ cancel(e) /\ UNCHANGED engineVars

\* get_state collects the future of an execution that is over, then reads
\* the state.
get_state(e) ==
    /\ active_futures_[e] = "held" /\ FutureReady(e)
    /\ active_futures_' = [active_futures_ EXCEPT ![e] = "none"]
    /\ UNCHANGED <<schedulerVars, workflows_, active_schedulers_, running_workflows_,
                   mode, completedEvent>>

-----------------------------------------------------------------------------

Run(e) ==
    /\ \/ RunStart(e) \/ RunStep(e)
       \/ \E t \in Task : Attempt(e, t)
    /\ UNCHANGED engineVars

ENext ==
    \/ register_workflow
    \/ \E t \in Task : engine_add_task(t)
    \/ \E e \in Exec :
        \/ CopyWorkflow(e) \/ RegisterExecution(e) \/ StoreFuture(e) \/ Run(e)
        \/ EmitCompleted(e) \/ Publish(e) \/ get_state(e)
        \/ EPause(e) \/ EResume(e) \/ ECancel(e)

ESpec == EInit /\ [][ENext]_allVars

\* A call that was made runs to its end; the threads of run() and of the
\* tasks keep running.
EFairness ==
    \A e \in Exec :
        /\ WF_allVars(RegisterExecution(e)) /\ WF_allVars(StoreFuture(e))
        /\ WF_allVars((RunStart(e) \/ RunStep(e)) /\ UNCHANGED engineVars)
        /\ \A t \in Task : WF_allVars(Attempt(e, t) /\ UNCHANGED engineVars)
        /\ WF_allVars(EmitCompleted(e) \/ Publish(e))

EFairSpec == ESpec /\ EFairness

-----------------------------------------------------------------------------
(* Properties.                                                             *)

\* get_state and the controls never disagree: an execution is reported
\* RUNNING exactly as long as pause/resume/cancel can find it, and a final
\* state is the outcome of run() and stays what it is.
StateMatchesRegistry ==
    \A e \in Exec :
        /\ running_workflows_[e] = "RUNNING" <=> e \in active_schedulers_
        /\ running_workflows_[e] \notin {"absent", "RUNNING"}
              => Ended(e) /\ e \in completedEvent /\ running_workflows_[e] = Outcome(e)

\* start_async: every execution it registered is published and leaves the
\* registry, whether run() returned or threw. execute and execute_async keep
\* the scheduler registered, as running, when run() throws.
ExecutionsEnd ==
    \A e \in Exec :
        e \in active_schedulers_ ~> \/ e \notin active_schedulers_
                                    \/ mode[e] # "start_async" /\ pc[e] = "threw"
=============================================================================
