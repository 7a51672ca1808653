----------------------------- MODULE PlanSession -----------------------------
(***************************************************************************)
(* The plan of a server session: orchestration::PlanManager under the      *)
(* WebSocket handlers of server/ws. A handler is a coroutine of the        *)
(* agent's event loop: it runs alone until it awaits the model, and        *)
(* between its question and the answer any number of other messages of the *)
(* same session are handled. Every change is saved to the history          *)
(* database, from which a restarted server takes the plan up again; a save *)
(* that finds the database busy is given up without a word.                *)
(*                                                                         *)
(* Texts are left out. A list of plan items is "none", "open" (a required  *)
(* decision is not taken) or "settled". The TODO list is the id of the     *)
(* plan it was made from, 0 for a list of the agent's own. Messages that a *)
(* guard refuses only answer an error, and are not steps. The rows that    *)
(* plan_start adds to the conversation are in AgentLoop.                   *)
(***************************************************************************)
EXTENDS Naturals, FiniteSets

CONSTANTS
    Option,        \* ids of the options the model proposes
    MaxStarts,     \* bound on plan_start messages
    MaxQuestions,  \* bound on questions to the model
    MaxRevision,   \* no client message once the revision is this high
    MaxThrows,     \* bound on exceptions out of chat_async
    MaxBusy,       \* bound on saves that fail
    MaxRestarts    \* bound on restarts of the server

ASSUME PlanAssumption ==
    /\ MaxStarts \in Nat /\ MaxQuestions \in Nat /\ MaxRevision \in Nat
    /\ MaxThrows \in Nat /\ MaxBusy \in Nat /\ MaxRestarts \in Nat
    /\ "none" \notin Option

VARIABLES
    draft,         \* plan_manager.draft()
    asked,         \* questions to the model that are under way
    questions,     \* number of questions so far
    rest,          \* what the running handler still has to do
    active_run,    \* an agent run is under way in the session
    dbPlan,        \* the plan in the history database
    todoFor, dbTodo, \* the plan the TODO list was made from: memory, database
    starts, throws, busy, restarts,
    orphaned,      \* history: the handler the plan is waiting for was lost
    excused        \* history: plans with a save that failed, or whose TODO list
                   \* the agent threw away

vars == <<draft, asked, questions, rest, active_run, dbPlan, todoFor, dbTodo, starts,
          throws, busy, restarts, orphaned, excused>>

todos == <<todoFor, dbTodo>>
counts == <<starts, throws, restarts>>

Status == {"idle", "drafting", "reviewing", "confirmed", "executing", "cancelled", "failed"}
Stage == {"idle", "option_review", "detailing", "decision_review", "finalizing",
          "final_review"}
Items == {"none", "open", "settled"}
Chosen == Option \cup {"none"}

Draft == [plan : Nat, status : Status, stage : Stage, revision : Nat, options : BOOLEAN,
          selected : Chosen, items : Items, final_items : Items,
          finalized_input_revision : Nat, request : Nat]

Kind == {"start", "options", "detail", "revise_detail", "revise_final"}
\* The revision is that of the draft a final plan is asked for (0 elsewhere).
Question(k) == [n : 1 .. k, kind : Kind, request : Nat, option : Chosen, revision : Nat]

EmptyDraft == [plan |-> 0, status |-> "idle", stage |-> "idle", revision |-> 0,
               options |-> FALSE, selected |-> "none", items |-> "none",
               final_items |-> "none", finalized_input_revision |-> 0, request |-> 0]

-----------------------------------------------------------------------------
(* PlanManager: what each method makes of a draft.                         *)

bump_revision(d) == [d EXCEPT !.revision = @ + 1]
next_request_id(d) == [d EXCEPT !.request = @ + 1]

clear_final_fields(d) == [d EXCEPT !.final_items = "none", !.finalized_input_revision = 0]
is_reviewing(d) == d.status \in {"drafting", "reviewing"}

start(n) == [EmptyDraft EXCEPT !.plan = n, !.status = "drafting", !.revision = 1]

apply_model_options(d) ==
    bump_revision(clear_final_fields(
        [d EXCEPT !.options = TRUE, !.selected = "none", !.items = "none",
                  !.stage = "option_review", !.status = "reviewing"]))

\* What parse_plan_options_text returns, under the id of the current plan.
ParsedOptions(d) == apply_model_options(start(d.plan))

begin_detailing(d, o) ==
    bump_revision(next_request_id(clear_final_fields(
        [d EXCEPT !.selected = o, !.items = "none", !.stage = "detailing",
                  !.status = "drafting"])))

\* apply_model_detail and apply_revised_detail after their checks.
TakeItems(d, is) ==
    bump_revision(clear_final_fields(
        [d EXCEPT !.items = is, !.stage = "decision_review", !.status = "reviewing"]))

apply_user_items(d, is) == TakeItems([d EXCEPT !.selected = "none"], is)

\* Mutant: a decision changed in final review leaves the final plan.
apply_decision_KeepFinal(d, is) == bump_revision([d EXCEPT !.items = is])

\* A decision changed in final review takes the plan back.
apply_decision(d, is) ==
    IF d.stage = "final_review"
    THEN bump_revision(clear_final_fields([d EXCEPT !.items = is, !.stage = "decision_review"]))
    ELSE bump_revision([d EXCEPT !.items = is])

begin_chat_revision(d) == next_request_id([d EXCEPT !.status = "drafting"])

begin_finalizing(d) ==
    next_request_id([d EXCEPT !.stage = "finalizing", !.status = "drafting"])

\* apply_model_final and apply_revised_final after their checks.
TakeFinal(d, is) ==
    bump_revision([d EXCEPT !.final_items = is, !.finalized_input_revision = d.revision,
                            !.stage = "final_review", !.status = "reviewing"])

mark_failed(d) == [d EXCEPT !.status = "failed"]

\* Mutant: the error is shown and the plan stays in drafting.
mark_review_error_Kept(d) == d

mark_review_error(d) ==
    [d EXCEPT !.status = IF @ = "drafting" THEN "reviewing" ELSE @]

-----------------------------------------------------------------------------

Init ==
    /\ draft = EmptyDraft /\ dbPlan = EmptyDraft
    /\ asked = {} /\ questions = 0 /\ rest = "nothing" /\ active_run = FALSE
    /\ todoFor = 0 /\ dbTodo = 0
    /\ starts = 0 /\ throws = 0 /\ busy = 0 /\ restarts = 0
    /\ orphaned = FALSE /\ excused = {}

\* save_session_state returns false at once when the database is busy, and
\* nobody looks at what it returns.
Busy == busy < MaxBusy /\ busy' = busy + 1

\* The plan becomes d, and persist_plan_state saves it or does not.
Save(d) ==
    /\ draft' = d
    /\ \/ dbPlan' = d /\ UNCHANGED <<busy, excused>>
       \/ /\ Busy /\ dbPlan' = dbPlan
          /\ excused' = IF dbPlan.plan = d.plan THEN excused ELSE excused \cup {dbPlan.plan}

\* The TODO list is that of plan p, and is saved or not.
persist_todo_state(p) ==
    /\ todoFor' = p
    /\ (dbTodo' = p /\ busy' = busy) \/ (dbTodo' = dbTodo /\ Busy)

\* The question a handler awaits the answer of.
Ask(kind, request, option) ==
    /\ questions < MaxQuestions
    /\ questions' = questions + 1
    /\ asked' = asked \cup {[n |-> questions + 1, kind |-> kind, request |-> request,
                             option |-> option,
                             revision |-> IF kind = "revise_final" THEN draft.revision ELSE 0]}
    /\ orphaned' = FALSE

\* A client message is handled: the loop is free.
Message == rest = "nothing" /\ draft.revision < MaxRevision

-----------------------------------------------------------------------------
(* Messages that ask the model.                                            *)

handle_ws_plan_start ==
    /\ Message /\ starts < MaxStarts
    /\ starts' = starts + 1
    /\ Save(start(starts + 1))
    /\ Ask("start", 0, "none")
    /\ UNCHANGED <<rest, active_run, todos, throws, restarts>>

handle_ws_plan_select_option(o) ==
    /\ Message
    /\ draft.stage = "option_review" /\ draft.status = "reviewing" /\ draft.options
    /\ Save(begin_detailing(draft, o))
    /\ Ask("detail", draft'.request, o)
    /\ UNCHANGED <<rest, active_run, todos, counts>>

\* What a request for changes is about: the stage, or the decision that is
\* rejected.
RevisionKinds(stage) ==
    CASE stage = "option_review"   -> {"options"}
      [] stage = "decision_review" -> {"revise_detail"}
      [] stage = "final_review"    -> {"revise_detail", "revise_final"}
      [] OTHER                     -> {}

handle_ws_plan_chat(kind) ==
    /\ Message
    /\ kind \in RevisionKinds(draft.stage) /\ draft.status = "reviewing"
    /\ Save(begin_chat_revision(draft))
    /\ Ask(kind, draft'.request, "none")
    /\ UNCHANGED <<rest, active_run, todos, counts>>

\* Whether the answer still fits: plan_start does not ask, the others
\* compare the request id, and apply_model_detail the option too.
Fits(q) ==
    \/ q.kind = "start"
    \/ q.kind = "detail" /\ q.request = draft.request /\ q.option = draft.selected
    \/ q.kind \notin {"start", "detail"} /\ q.request = draft.request

\* The answer (the third try at most) parses: it is applied, or refused as
\* stale and nothing is saved.
Answer(q) ==
    /\ rest = "nothing" /\ q \in asked
    /\ asked' = asked \ {q}
    /\ IF Fits(q)
       THEN \/ q.kind = "start" /\ Save(ParsedOptions(draft))
            \/ q.kind = "options" /\ Save(apply_model_options(draft))
            \/ /\ q.kind \in {"detail", "revise_detail"}
               /\ \E is \in {"open", "settled"} : Save(TakeItems(draft, is))
            \/ /\ q.kind = "revise_final"
               /\ \E is \in {"open", "settled"} : Save(TakeFinal(draft, is))
       ELSE UNCHANGED <<draft, dbPlan, busy, excused>>
    /\ UNCHANGED <<questions, rest, active_run, todos, counts, orphaned>>

\* Three answers that do not parse: no handler looks whether it is stale.
Unusable(q) ==
    /\ rest = "nothing" /\ q \in asked
    /\ asked' = asked \ {q}
    /\ Save(IF q.kind \in {"start", "detail"} THEN mark_failed(draft) ELSE mark_review_error(draft))
    /\ UNCHANGED <<questions, rest, active_run, todos, counts, orphaned>>

\* chat_async throws: the handler is over and the plan is left as it is.
Throw(q) ==
    /\ rest = "nothing" /\ q \in asked /\ throws < MaxThrows
    /\ asked' = asked \ {q} /\ throws' = throws + 1
    /\ orphaned' = (orphaned \/ (Fits(q) /\ draft.status = "drafting"))
    /\ UNCHANGED <<draft, dbPlan, busy, excused, questions, rest, active_run, todos, starts,
                   restarts>>

-----------------------------------------------------------------------------
(* Messages that do not.                                                   *)

handle_ws_plan_update_items(is) ==
    /\ Message /\ is_reviewing(draft)
    /\ Save(apply_user_items(draft, is))
    /\ UNCHANGED <<asked, questions, rest, active_run, todos, counts, orphaned>>

\* When the last decision is taken the handler goes on to finalize.
handle_ws_plan_apply_decision(is) ==
    /\ Message
    /\ draft.status = "reviewing" /\ draft.stage \in {"decision_review", "final_review"}
    /\ draft.items # "none"
    /\ Save(apply_decision(draft, is))
    /\ rest' = IF is = "settled" THEN "finalize" ELSE "nothing"
    /\ UNCHANGED <<asked, questions, active_run, todos, counts, orphaned>>

\* plan_finalize, or the rest of plan_apply_decision.
handle_ws_plan_finalize ==
    /\ Message \/ rest = "finalize"
    /\ draft.status = "reviewing" /\ draft.stage = "decision_review"
    /\ draft.items = "settled"
    /\ Save(begin_finalizing(draft))
    /\ rest' = "apply_final"
    /\ orphaned' = FALSE
    /\ UNCHANGED <<asked, questions, active_run, todos, counts>>

\* The same handler goes on at once with the final plan it put together.
FinishFinalize ==
    /\ rest = "apply_final"
    /\ Save(TakeFinal(draft, draft.items))
    /\ rest' = "nothing"
    /\ UNCHANGED <<asked, questions, active_run, todos, counts, orphaned>>

\* Mutant: any stage will do.
confirm_AnyStage(d) == d.status = "reviewing"

confirm(d) == d.status = "reviewing" /\ d.stage = "final_review" /\ d.final_items # "none"

\* Mutant: the plan is saved as executing before the TODO list is.
handle_ws_plan_confirm_PlanFirst ==
    /\ Message /\ confirm(draft)
    /\ draft' = [draft EXCEPT !.status = "confirmed"]
    /\ todoFor' = draft.plan
    /\ dbPlan' = [draft EXCEPT !.status = "executing"]
    /\ rest' = "execute"
    /\ UNCHANGED <<asked, questions, active_run, dbTodo, counts, busy, orphaned, excused>>

\* The TODO list is made from the final plan and its save comes first.
handle_ws_plan_confirm ==
    /\ Message /\ confirm(draft)
    /\ draft' = [draft EXCEPT !.status = "confirmed"]
    /\ persist_todo_state(draft.plan)
    /\ excused' = IF dbTodo' = draft.plan THEN excused ELSE excused \cup {draft.plan}
    /\ rest' = "execute"
    /\ UNCHANGED <<asked, questions, active_run, dbPlan, counts, orphaned>>

\* Then the plan is executing, whatever became of the list, and handle_ws_chat
\* runs the agent unless a run is under way.
FinishConfirm ==
    /\ rest = "execute"
    /\ Save([draft EXCEPT !.status = "executing"])
    /\ active_run' = TRUE
    /\ rest' = "nothing"
    /\ UNCHANGED <<asked, questions, todos, counts, orphaned>>

handle_ws_plan_cancel ==
    /\ Message
    /\ Save([draft EXCEPT !.status = "cancelled"])
    /\ UNCHANGED <<asked, questions, rest, active_run, todos, counts, orphaned>>

\* ActiveRunGuard of an ordinary chat message.
handle_ws_chat ==
    /\ Message /\ ~active_run
    /\ active_run' = TRUE
    /\ UNCHANGED <<draft, dbPlan, asked, questions, rest, todos, counts, busy, orphaned,
                   excused>>

\* An item of the TODO list changes, by the client or by update_todo of a
\* run: the list is saved again.
handle_ws_todo_update ==
    /\ rest = "nothing"
    /\ persist_todo_state(todoFor)
    /\ UNCHANGED <<draft, dbPlan, asked, questions, rest, active_run, counts, orphaned, excused>>

\* update_todo of a run throws the list away for one that is no plan's.
clear_todo_state ==
    /\ rest = "nothing" /\ active_run
    /\ persist_todo_state(0)
    /\ excused' = excused \cup {d.plan : d \in {e \in {draft, dbPlan} : e.status = "executing"}}
    /\ UNCHANGED <<draft, dbPlan, asked, questions, rest, active_run, counts, orphaned>>

\* finalize_todos saves a list that is not empty.
RunEnds ==
    /\ rest = "nothing" /\ active_run
    /\ active_run' = FALSE
    /\ \/ persist_todo_state(todoFor)
       \/ todoFor = 0 /\ UNCHANGED <<todos, busy>>
    /\ UNCHANGED <<draft, dbPlan, asked, questions, rest, counts, orphaned, excused>>

\* The server stops anywhere, and restores what was saved.
Restart ==
    /\ restarts < MaxRestarts
    /\ restarts' = restarts + 1
    /\ draft' = dbPlan /\ todoFor' = dbTodo
    /\ asked' = {} /\ rest' = "nothing" /\ active_run' = FALSE
    /\ orphaned' = (dbPlan.status = "drafting")
    /\ UNCHANGED <<questions, dbPlan, dbTodo, starts, throws, busy, excused>>

-----------------------------------------------------------------------------

Next ==
    \/ handle_ws_plan_start
    \/ \E o \in Option : handle_ws_plan_select_option(o)
    \/ \E k \in {"options", "revise_detail", "revise_final"} : handle_ws_plan_chat(k)
    \/ \E q \in asked : Answer(q) \/ Unusable(q) \/ Throw(q)
    \/ \E is \in Items : handle_ws_plan_update_items(is)
    \/ \E is \in {"open", "settled"} : handle_ws_plan_apply_decision(is)
    \/ handle_ws_plan_finalize \/ FinishFinalize
    \/ handle_ws_plan_confirm \/ FinishConfirm
    \/ handle_ws_plan_cancel
    \/ handle_ws_chat \/ RunEnds
    \/ handle_ws_todo_update \/ clear_todo_state
    \/ Restart

Spec == Init /\ [][Next]_vars

\* The loop goes on with a handler it is in, and the model answers (or the
\* request fails: chat_async is bounded by the client's timeouts).
Fairness ==
    /\ WF_vars(FinishFinalize \/ FinishConfirm \/ (rest = "finalize" /\ handle_ws_plan_finalize))
    /\ \A n \in 1 .. MaxQuestions :
          WF_vars(\E q \in asked : q.n = n /\ (Answer(q) \/ Unusable(q) \/ Throw(q)))

FairSpec == Spec /\ Fairness

-----------------------------------------------------------------------------
(* Properties.                                                             *)

\* The variables have their types, in memory and in the database.
TypeOK ==
    /\ draft \in Draft /\ dbPlan \in Draft
    /\ asked \subseteq Question(questions)
    /\ questions \in 0 .. MaxQuestions
    /\ rest \in {"nothing", "finalize", "apply_final", "execute"}
    /\ active_run \in BOOLEAN /\ orphaned \in BOOLEAN
    /\ todoFor \in Nat /\ dbTodo \in Nat
    /\ starts \in 0 .. MaxStarts /\ throws \in 0 .. MaxThrows
    /\ busy \in 0 .. MaxBusy /\ restarts \in 0 .. MaxRestarts
    /\ excused \subseteq Nat

Final(d) ==
    IF d.stage = "final_review"
    THEN d.final_items # "none" /\ d.finalized_input_revision + 1 = d.revision
    ELSE d.final_items = "none" /\ d.finalized_input_revision = 0

\* A draft has a final plan exactly in final review, and nothing of it was
\* changed since the final plan was taken: every later change of the items,
\* the options or a decision, by the client or by an answer that comes
\* late, takes the final plan away, in memory and in the database. (Whether
\* the final plan was made from that draft is FinalOfThisDraft.)
FinalMatchesRevision == Final(draft) /\ Final(dbPlan)

Executable(d) ==
    d.status \in {"confirmed", "executing"} => d.stage = "final_review" /\ d.final_items # "none"

\* A plan that is confirmed or executing, in memory or in the database, is a
\* final plan in final review: no answer that comes late changes the plan
\* and leaves the status, and no restart takes up another one. (It may take
\* the plan out of execution: ExecutingStays.)
ExecutesFinalPlan == Executable(draft) /\ Executable(dbPlan)

\* A plan that the database says is executing has its TODO list in the
\* database, wherever the server stopped (handle_ws_plan_confirm saves in
\* this order), unless the list was not saved, the plan that came after it
\* was not, or the agent threw the list away.
ExecutingHasTodos ==
    dbPlan.status = "executing" /\ dbPlan.plan \notin excused => dbTodo = dbPlan.plan

\* A plan does not stay in drafting: the answer to the last question, three
\* useless answers or the client end it. Lost are the plans whose handler
\* died: chat_async threw, or the server was restarted meanwhile.
PlanSettles == []<>(draft.status # "drafting" \/ orphaned)

-----------------------------------------------------------------------------
(* What the repository says, and the code does not do. TLC refutes each of *)
(* these within a few steps; no run keeps them.                            *)

\* "stale plan final revision result" (plan.cpp:333): a final plan that was
\* asked for before a change of the draft is refused. apply_user_items
\* leaves the request id that is compared, and it is taken.
FinalOfThisDraft ==
    [][\A q \in asked : q.kind = "revise_final" /\ Answer(q) /\ draft' # draft
                            => q.revision = draft.revision]_vars

\* docs/plan_mode.md:94: no way leads from executing back to reviewing. The
\* late answer to plan_start does.
ExecutingStays ==
    [][draft.status = "executing" /\ draft'.plan = draft.plan
           => draft'.status \notin {"drafting", "reviewing"}]_vars

\* docs/web_plan_todo.md:15: plan and TODO list are saved, and come back
\* after a restart. A save that fails is not noticed.
SavedAsHeld == rest = "nothing" => dbPlan = draft /\ dbTodo = todoFor
=============================================================================
