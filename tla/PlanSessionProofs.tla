-------------------------- MODULE PlanSessionProofs --------------------------
(***************************************************************************)
(* Proofs about PlanSession, for any bounds and any options.               *)
(*                                                                         *)
(* The methods of PlanManager keep a draft good (a lemma each), so the    *)
(* plan in memory and the saved one are good. The TODO list follows from   *)
(* how the copies stand to each other: they are of the same plan, and the  *)
(* list of an executing plan was saved, unless the plan is excused.        *)
(***************************************************************************)
EXTENDS PlanSession, TLAPS

Good(d) == d \in Draft /\ Final(d) /\ Executable(d)

Listed(p) == p \in excused \/ (todoFor = p /\ dbTodo = p)

\* Where the plan and its copies stand while a handler is under way.
Saved ==
    /\ rest = "execute" => draft.status = "confirmed"
    /\ rest = "apply_final" => /\ draft.stage = "finalizing"
                               /\ draft.status = "drafting"
                               /\ draft.items # "none"
    /\ dbPlan.plan = draft.plan \/ dbPlan.plan \in excused
    /\ draft.status = "executing" \/ rest = "execute" => Listed(draft.plan)
    /\ dbPlan.status = "executing" => Listed(dbPlan.plan)

IInv == TypeOK /\ Good(draft) /\ Good(dbPlan) /\ Saved

-----------------------------------------------------------------------------

\* bump_revision changes the revision alone.
LEMMA Bump ==
    ASSUME NEW d \in Draft
    PROVE  /\ bump_revision(d) \in Draft
           /\ bump_revision(d).revision = d.revision + 1
           /\ bump_revision(d).status = d.status /\ bump_revision(d).stage = d.stage
           /\ bump_revision(d).final_items = d.final_items
           /\ bump_revision(d).finalized_input_revision = d.finalized_input_revision
           /\ bump_revision(d).request = d.request
  BY DEF bump_revision, Draft

\* clear_final_fields takes the final plan away.
LEMMA Clear ==
    ASSUME NEW d \in Draft
    PROVE  /\ clear_final_fields(d) \in Draft
           /\ clear_final_fields(d).final_items = "none"
           /\ clear_final_fields(d).finalized_input_revision = 0
           /\ clear_final_fields(d).status = d.status /\ clear_final_fields(d).stage = d.stage
           /\ clear_final_fields(d).request = d.request
  BY DEF clear_final_fields, Draft, Items

\* next_request_id changes the request alone.
LEMMA NextRequest ==
    ASSUME NEW d \in Draft
    PROVE  /\ next_request_id(d) \in Draft /\ next_request_id(d).request \in Nat
           /\ next_request_id(d).status = d.status /\ next_request_id(d).stage = d.stage
           /\ next_request_id(d).items = d.items
           /\ next_request_id(d).final_items = d.final_items
           /\ next_request_id(d).revision = d.revision
           /\ next_request_id(d).finalized_input_revision = d.finalized_input_revision
  BY DEF next_request_id, Draft

\* A draft with its final plan taken away is good out of final review.
LEMMA ClearedGood ==
    ASSUME NEW d \in Draft, d.stage # "final_review",
           d.status \notin {"confirmed", "executing"}
    PROVE  /\ Good(bump_revision(clear_final_fields(d)))
           /\ bump_revision(clear_final_fields(d)).status = d.status
           /\ Good(bump_revision(next_request_id(clear_final_fields(d))))
           /\ bump_revision(next_request_id(clear_final_fields(d))).status = d.status
           /\ bump_revision(next_request_id(clear_final_fields(d))).request \in Nat
  <1>1. clear_final_fields(d) \in Draft
    BY Clear
  <1>2. next_request_id(clear_final_fields(d)) \in Draft
    BY <1>1, NextRequest
  <1>3. Good(bump_revision(clear_final_fields(d))) /\
        bump_revision(clear_final_fields(d)).status = d.status
    BY <1>1, Clear, Bump DEF Good, Final, Executable
  <1>4. Good(bump_revision(next_request_id(clear_final_fields(d)))) /\
        bump_revision(next_request_id(clear_final_fields(d))).status = d.status
    BY <1>1, <1>2, Clear, Bump, NextRequest DEF Good, Final, Executable
  <1>5. QED
    BY <1>1, <1>2, <1>3, <1>4, Bump, NextRequest

\* The draft of a new plan is good.
LEMMA StartGood ==
    ASSUME NEW n \in Nat
    PROVE  /\ Good(start(n)) /\ start(n) \in Draft /\ start(n).status = "drafting"
  BY DEF Good, start, EmptyDraft, Draft, Final, Executable, Status, Stage, Items, Chosen

\* Options of the model make a good draft of any draft.
LEMMA OptionsGood ==
    ASSUME NEW d \in Draft
    PROVE  Good(apply_model_options(d)) /\ apply_model_options(d).status = "reviewing"
  <1> DEFINE e == [d EXCEPT !.options = TRUE, !.selected = "none", !.items = "none",
                            !.stage = "option_review", !.status = "reviewing"]
  <1>1. e \in Draft /\ e.stage = "option_review" /\ e.status = "reviewing"
    BY DEF Draft, Status, Stage, Items, Chosen
  <1>2. apply_model_options(d) = bump_revision(clear_final_fields(e))
    BY DEF apply_model_options
  <1> HIDE DEF e
  <1>3. QED
    BY <1>1, <1>2, ClearedGood

\* So does the choice of an option.
LEMMA DetailingGood ==
    ASSUME NEW d \in Draft, NEW o \in Option
    PROVE  /\ Good(begin_detailing(d, o)) /\ begin_detailing(d, o).status = "drafting"
           /\ begin_detailing(d, o).request \in Nat
  <1> DEFINE e == [d EXCEPT !.selected = o, !.items = "none", !.stage = "detailing",
                            !.status = "drafting"]
  <1>1. e \in Draft /\ e.stage = "detailing" /\ e.status = "drafting"
    BY DEF Draft, Status, Stage, Items, Chosen
  <1>2. begin_detailing(d, o) = bump_revision(next_request_id(clear_final_fields(e)))
    BY DEF begin_detailing
  <1> HIDE DEF e
  <1>3. QED
    BY <1>1, <1>2, ClearedGood

\* So do new items.
LEMMA ItemsGood ==
    ASSUME NEW d \in Draft, NEW is \in Items
    PROVE  Good(TakeItems(d, is)) /\ TakeItems(d, is).status = "reviewing"
  <1> DEFINE e == [d EXCEPT !.items = is, !.stage = "decision_review", !.status = "reviewing"]
  <1>1. e \in Draft /\ e.stage = "decision_review" /\ e.status = "reviewing"
    BY DEF Draft, Status, Stage
  <1>2. TakeItems(d, is) = bump_revision(clear_final_fields(e))
    BY DEF TakeItems
  <1> HIDE DEF e
  <1>3. QED
    BY <1>1, <1>2, ClearedGood

\* So do the items of the client.
LEMMA UserItemsGood ==
    ASSUME NEW d \in Draft, NEW is \in Items
    PROVE  Good(apply_user_items(d, is)) /\ apply_user_items(d, is).status = "reviewing"
  <1>1. [d EXCEPT !.selected = "none"] \in Draft
    BY DEF Draft, Chosen
  <1>2. QED
    BY <1>1, ItemsGood DEF apply_user_items

\* So does a final plan that is not empty.
LEMMA FinalGood ==
    ASSUME NEW d \in Draft, NEW is \in Items, is # "none"
    PROVE  Good(TakeFinal(d, is)) /\ TakeFinal(d, is).status = "reviewing"
  <1> DEFINE e == [d EXCEPT !.final_items = is, !.finalized_input_revision = d.revision,
                            !.stage = "final_review", !.status = "reviewing"]
  <1>1. /\ e \in Draft /\ e.stage = "final_review" /\ e.status = "reviewing"
        /\ e.final_items = is /\ e.finalized_input_revision = e.revision
    BY DEF Draft, Status, Stage
  <1>2. TakeFinal(d, is) = bump_revision(e)
    BY DEF TakeFinal
  <1> HIDE DEF e
  <1>3. QED
    BY <1>1, <1>2, Bump DEF Good, Final, Executable

\* A decision keeps a draft in review good.
LEMMA DecisionGood ==
    ASSUME NEW d, Good(d), NEW is \in Items, d.status = "reviewing",
           d.stage \in {"decision_review", "final_review"}
    PROVE  Good(apply_decision(d, is)) /\ apply_decision(d, is).status = "reviewing"
  <1>1. d \in Draft
    BY DEF Good
  <1>2. CASE d.stage = "final_review"
    <2> DEFINE e == [d EXCEPT !.items = is, !.stage = "decision_review"]
    <2>1. e \in Draft /\ e.stage = "decision_review" /\ e.status = "reviewing"
      BY <1>1 DEF Draft, Stage
    <2>2. apply_decision(d, is) = bump_revision(clear_final_fields(e))
      BY <1>2 DEF apply_decision
    <2> HIDE DEF e
    <2>3. QED
      BY <2>1, <2>2, ClearedGood
  <1>3. CASE d.stage = "decision_review"
    <2> DEFINE e == [d EXCEPT !.items = is]
    <2>1. /\ e \in Draft /\ e.stage = "decision_review" /\ e.status = "reviewing"
          /\ e.final_items = d.final_items
          /\ e.finalized_input_revision = d.finalized_input_revision
      BY <1>1, <1>3 DEF Draft
    <2>2. apply_decision(d, is) = bump_revision(e)
      BY <1>3 DEF apply_decision
    <2> HIDE DEF e
    <2>3. QED
      BY <1>3, <2>1, <2>2, Bump DEF Good, Final, Executable
  <1>4. QED
    BY <1>2, <1>3

\* A change of the status alone keeps a draft good, unless it lets a plan
\* that has no final items be executed.
LEMMA StatusGood ==
    ASSUME NEW d, Good(d), NEW s \in Status,
           s \in {"confirmed", "executing"} =>
               d.stage = "final_review" /\ d.final_items # "none"
    PROVE  /\ Good([d EXCEPT !.status = s])
           /\ [d EXCEPT !.status = s].status = s
           /\ [d EXCEPT !.status = s].plan = d.plan
  BY DEF Good, Draft, Final, Executable

\* A request for changes keeps a draft good.
LEMMA RevisionGood ==
    ASSUME NEW d, Good(d)
    PROVE  /\ Good(begin_chat_revision(d)) /\ begin_chat_revision(d).status = "drafting"
           /\ begin_chat_revision(d).request \in Nat
  <1> DEFINE e == [d EXCEPT !.status = "drafting"]
  <1>1. Good(e) /\ e.status = "drafting"
    BY StatusGood DEF Status
  <1>2. begin_chat_revision(d) = next_request_id(e)
    BY DEF begin_chat_revision
  <1> HIDE DEF e
  <1>3. QED
    BY <1>1, <1>2, NextRequest DEF Good, Final, Executable

\* Finalizing keeps a draft in decision review good.
LEMMA FinalizingGood ==
    ASSUME NEW d, Good(d), d.stage = "decision_review"
    PROVE  /\ Good(begin_finalizing(d)) /\ begin_finalizing(d).status = "drafting"
           /\ begin_finalizing(d).stage = "finalizing"
           /\ begin_finalizing(d).items = d.items
  <1> DEFINE e == [d EXCEPT !.stage = "finalizing", !.status = "drafting"]
  <1>1. d \in Draft
    BY DEF Good
  <1>2. /\ e \in Draft /\ e.stage = "finalizing" /\ e.status = "drafting"
        /\ e.items = d.items /\ e.final_items = d.final_items
        /\ e.finalized_input_revision = d.finalized_input_revision
    BY <1>1 DEF Draft, Status, Stage
  <1>3. begin_finalizing(d) = next_request_id(e)
    BY DEF begin_finalizing
  <1> HIDE DEF e
  <1>4. QED
    BY <1>2, <1>3, NextRequest DEF Good, Final, Executable

-----------------------------------------------------------------------------

\* A question is added to those under way.
LEMMA AskType ==
    ASSUME TypeOK, NEW r \in Nat, NEW o \in Chosen,
           NEW k \in Kind,
           Ask(k, r, o)
    PROVE  /\ asked' \subseteq Question(questions')
           /\ questions' \in 0 .. MaxQuestions
           /\ orphaned' \in BOOLEAN
  <1>1. questions \in 0 .. MaxQuestions /\ questions' = questions + 1 /\ questions < MaxQuestions
        /\ orphaned' = FALSE
    BY DEF Ask, TypeOK
  <1>2. questions' \in 0 .. MaxQuestions
    BY <1>1, PlanAssumption
  <1>3. Question(questions) \subseteq Question(questions')
    BY <1>1, PlanAssumption DEF Question
  <1> DEFINE v == IF k = "revise_final" THEN draft.revision ELSE 0
  <1>a. v \in Nat
    BY DEF TypeOK, Draft
  <1>4. [n |-> questions + 1, kind |-> k, request |-> r, option |-> o, revision |-> v]
            \in Question(questions')
    BY <1>1, <1>a, PlanAssumption DEF Question
  <1>5. asked' \subseteq Question(questions')
    BY <1>3, <1>4 DEF Ask, TypeOK
  <1>6. QED
    BY <1>1, <1>2, <1>5

\* A question less leaves the type of the others.
LEMMA AnsweredType ==
    ASSUME TypeOK, NEW q \in asked, asked' = asked \ {q}, questions' = questions
    PROVE  /\ asked' \subseteq Question(questions')
           /\ q.kind \in Kind
  BY DEF TypeOK, Question

\* A draft that is saved or is not, when the list is left alone, keeps what
\* the invariant says of the plan and its copies.
LEMMA SaveGood ==
    ASSUME IInv, NEW d, Good(d), Save(d), UNCHANGED todos, rest' # "execute",
           rest' = "apply_final" =>
               d.stage = "finalizing" /\ d.status = "drafting" /\ d.items # "none",
           d.status = "executing" => Listed(d.plan)
    PROVE  /\ draft' \in Draft /\ dbPlan' \in Draft /\ busy' \in 0 .. MaxBusy
           /\ excused' \subseteq Nat
           /\ Good(draft)' /\ Good(dbPlan)' /\ Saved'
  <1>1. /\ draft' = d /\ todoFor' = todoFor /\ dbTodo' = dbTodo
        /\ TypeOK /\ Good(dbPlan) /\ Saved /\ dbPlan \in Draft
    BY DEF Save, todos, IInv, Good
  <1>2. CASE dbPlan' = d /\ UNCHANGED <<busy, excused>>
    <2>1. Good(draft)' /\ Good(dbPlan)'
      BY <1>1, <1>2 DEF Good, Final, Executable
    <2>2. Saved'
      BY <1>1, <1>2 DEF Saved, Listed
    <2>3. QED
      BY <1>1, <1>2, <2>1, <2>2 DEF Good, TypeOK
  <1>3. CASE /\ Busy /\ dbPlan' = dbPlan
             /\ excused' = IF dbPlan.plan = d.plan THEN excused ELSE excused \cup {dbPlan.plan}
    <2>1. Good(draft)' /\ Good(dbPlan)'
      BY <1>1, <1>3 DEF Good, Final, Executable
    <2>2. excused \subseteq excused' /\ (dbPlan.plan = d.plan \/ dbPlan.plan \in excused')
      BY <1>3
    <2>3. Saved'
      BY <1>1, <1>3, <2>2 DEF Saved, Listed
    <2>4. busy' \in 0 .. MaxBusy
      BY <1>1, <1>3, PlanAssumption DEF Busy, TypeOK
    <2>5. dbPlan.plan \in Nat
      BY <1>1 DEF Draft
    <2>6. excused' \subseteq Nat
      BY <1>1, <1>3, <2>5 DEF TypeOK
    <2>7. QED
      BY <2>1, <2>3, <2>4, <2>6 DEF Good
  <1>4. QED
    BY <1>2, <1>3 DEF Save

\* A step that leaves the plan and its copies alone.
LEMMA KeepGood ==
    ASSUME IInv, UNCHANGED <<draft, dbPlan, todoFor, dbTodo, rest, excused>>
    PROVE  /\ draft' \in Draft /\ dbPlan' \in Draft
           /\ Good(draft)' /\ Good(dbPlan)' /\ Saved'
  BY DEF IInv, Good, Final, Executable, Saved, Listed

\* Whatever becomes of a save of the list, its types are kept.
LEMMA TodoType ==
    ASSUME TypeOK, NEW p \in Nat, persist_todo_state(p)
    PROVE  /\ todoFor' = p /\ dbTodo' \in {p, dbTodo}
           /\ todoFor' \in Nat /\ dbTodo' \in Nat /\ busy' \in 0 .. MaxBusy
  BY PlanAssumption DEF persist_todo_state, Busy, TypeOK

\* A list that is saved again.
LEMMA AgainGood ==
    ASSUME IInv, todoFor' = todoFor, dbTodo' \in {todoFor, dbTodo},
           UNCHANGED <<draft, dbPlan, rest, excused>>
    PROVE  /\ draft' \in Draft /\ dbPlan' \in Draft
           /\ Good(draft)' /\ Good(dbPlan)' /\ Saved'
  <1>1. Good(draft)' /\ Good(dbPlan)'
    BY DEF IInv, Good, Final, Executable
  <1>2. Saved'
    BY DEF IInv, Saved, Listed
  <1>3. QED
    BY <1>1, <1>2 DEF Good

\* The invariant holds at the start.
LEMMA InitIInv == Init => IInv
  <1> SUFFICES ASSUME Init PROVE IInv
    OBVIOUS
  <1>1. Good(EmptyDraft) /\ EmptyDraft.status = "idle"
    BY DEF Good, EmptyDraft, Draft, Final, Executable, Status, Stage, Items, Chosen
  <1>2. TypeOK
    <2>1. draft \in Draft /\ dbPlan \in Draft /\ asked \subseteq Question(questions)
      BY <1>1 DEF Init, Good
    <2>2. /\ rest \in {"nothing", "finalize", "apply_final", "execute"}
          /\ active_run \in BOOLEAN /\ orphaned \in BOOLEAN
      BY DEF Init
    <2>3. /\ questions \in 0 .. MaxQuestions /\ todoFor \in Nat /\ dbTodo \in Nat
          /\ starts \in 0 .. MaxStarts /\ throws \in 0 .. MaxThrows
          /\ busy \in 0 .. MaxBusy /\ restarts \in 0 .. MaxRestarts /\ excused \subseteq Nat
      BY PlanAssumption DEF Init
    <2>4. QED
      BY <2>1, <2>2, <2>3 DEF TypeOK
  <1>3. QED
    BY <1>1, <1>2 DEF Init, IInv, Saved

\* Every step keeps the invariant.
LEMMA NextIInv == IInv /\ [Next]_vars => IInv'
  <1> SUFFICES ASSUME IInv, [Next]_vars PROVE IInv'
    OBVIOUS
  <1> DEFINE Copies == Good(draft)' /\ Good(dbPlan)' /\ Saved'
             Types == /\ draft' \in Draft /\ dbPlan' \in Draft
                      /\ busy' \in 0 .. MaxBusy /\ excused' \subseteq Nat
  <1>0. TypeOK /\ Good(draft) /\ Good(dbPlan) /\ Saved /\ draft \in Draft
    BY DEF IInv, Good
  <1>1. CASE handle_ws_plan_start
    <2>1. starts + 1 \in Nat /\ starts' \in 0 .. MaxStarts
      BY <1>0, <1>1, PlanAssumption DEF handle_ws_plan_start, TypeOK, todos, counts
    <2>2. Good(start(starts + 1)) /\ start(starts + 1).status = "drafting"
      BY <2>1, StartGood
    <2>3. Copies /\ Types
      <3>1. Save(start(starts + 1)) /\ UNCHANGED todos /\ rest' = "nothing"
        BY <1>1 DEF handle_ws_plan_start, Message
      <3>2. QED
        BY <2>2, <3>1, SaveGood
    <2>4. asked' \subseteq Question(questions') /\ questions' \in 0 .. MaxQuestions /\ orphaned' \in BOOLEAN
      <3>1. Ask("start", 0, "none")
        BY <1>1 DEF handle_ws_plan_start
      <3>2. QED
        BY <1>0, <3>1, AskType DEF Kind, Chosen
    <2>5. TypeOK'
      BY <1>0, <1>1, <2>1, <2>3, <2>4 DEF handle_ws_plan_start, TypeOK, todos, counts
    <2>6. QED
      BY <2>3, <2>5 DEF IInv
  <1>2. ASSUME NEW o \in Option, handle_ws_plan_select_option(o) PROVE IInv'
    <2>1. /\ Good(begin_detailing(draft, o)) /\ begin_detailing(draft, o).status = "drafting"
          /\ begin_detailing(draft, o).request \in Nat
      BY <1>0, DetailingGood
    <2>2. /\ Save(begin_detailing(draft, o)) /\ UNCHANGED todos /\ rest' = "nothing"
          /\ draft' = begin_detailing(draft, o) /\ Ask("detail", draft'.request, o)
      BY <1>2 DEF handle_ws_plan_select_option, Message, Save
    <2>3. Copies /\ Types
      BY <2>1, <2>2, SaveGood
    <2>4. asked' \subseteq Question(questions') /\ questions' \in 0 .. MaxQuestions /\ orphaned' \in BOOLEAN
      BY <1>0, <2>1, <2>2, AskType DEF Kind, Chosen
    <2>5. TypeOK'
      BY <1>0, <1>2, <2>3, <2>4 DEF handle_ws_plan_select_option, TypeOK, todos, counts
    <2>6. QED
      BY <2>3, <2>5 DEF IInv
  <1>3. ASSUME NEW k \in {"options", "revise_detail", "revise_final"}, handle_ws_plan_chat(k)
        PROVE  IInv'
    <2>1. /\ Good(begin_chat_revision(draft)) /\ begin_chat_revision(draft).status = "drafting"
          /\ begin_chat_revision(draft).request \in Nat
      BY <1>0, RevisionGood
    <2>2. /\ Save(begin_chat_revision(draft)) /\ UNCHANGED todos /\ rest' = "nothing"
          /\ draft' = begin_chat_revision(draft) /\ Ask(k, draft'.request, "none")
      BY <1>3 DEF handle_ws_plan_chat, Message, Save
    <2>3. Copies /\ Types
      BY <2>1, <2>2, SaveGood
    <2>4. asked' \subseteq Question(questions') /\ questions' \in 0 .. MaxQuestions /\ orphaned' \in BOOLEAN
      BY <1>0, <2>1, <2>2, AskType DEF Kind, Chosen
    <2>5. TypeOK'
      BY <1>0, <1>3, <2>3, <2>4 DEF handle_ws_plan_chat, TypeOK, todos, counts
    <2>6. QED
      BY <2>3, <2>5 DEF IInv
  <1>4. ASSUME NEW q \in asked, Answer(q) PROVE IInv'
    <2>1. /\ asked' = asked \ {q} /\ questions' = questions /\ UNCHANGED todos
          /\ rest = "nothing" /\ rest' = rest
      BY <1>4 DEF Answer
    <2>2. Copies /\ Types
      <3>1. CASE Save(ParsedOptions(draft))
        <4>1. start(draft.plan) \in Draft
          BY <1>0, StartGood DEF Draft
        <4>2. Good(ParsedOptions(draft)) /\ ParsedOptions(draft).status = "reviewing"
          BY <4>1, OptionsGood DEF ParsedOptions
        <4>3. QED
          BY <2>1, <3>1, <4>2, SaveGood
      <3>2. CASE Save(apply_model_options(draft))
        BY <1>0, <2>1, <3>2, OptionsGood, SaveGood
      <3>3. ASSUME NEW is \in {"open", "settled"}, Save(TakeItems(draft, is))
            PROVE  Copies /\ Types
        <4>1. Good(TakeItems(draft, is)) /\ TakeItems(draft, is).status = "reviewing"
          BY <1>0, ItemsGood DEF Items
        <4>2. QED
          BY <2>1, <3>3, <4>1, SaveGood
      <3>4. ASSUME NEW is \in {"open", "settled"}, Save(TakeFinal(draft, is))
            PROVE  Copies /\ Types
        <4>1. Good(TakeFinal(draft, is)) /\ TakeFinal(draft, is).status = "reviewing"
          BY <1>0, FinalGood DEF Items
        <4>2. QED
          BY <2>1, <3>4, <4>1, SaveGood
      <3>5. CASE UNCHANGED <<draft, dbPlan, busy, excused>>
        BY <1>0, <2>1, <3>5, KeepGood DEF TypeOK, todos
      <3>6. QED
        BY <1>4, <3>1, <3>2, <3>3, <3>4, <3>5 DEF Answer
    <2>3. asked' \subseteq Question(questions')
      BY <1>0, <2>1, AnsweredType
    <2>4. TypeOK'
      BY <1>0, <1>4, <2>2, <2>3 DEF Answer, TypeOK, todos, counts
    <2>5. QED
      BY <2>2, <2>4 DEF IInv
  <1>5. ASSUME NEW q \in asked, Unusable(q) PROVE IInv'
    <2>1. /\ asked' = asked \ {q} /\ questions' = questions /\ UNCHANGED todos
          /\ rest = "nothing" /\ rest' = rest
      BY <1>5 DEF Unusable
    <2>2. Copies /\ Types
      <3>1. CASE Save(mark_failed(draft))
        <4>1. Good(mark_failed(draft)) /\ mark_failed(draft).status = "failed"
          BY <1>0, StatusGood DEF mark_failed, Status
        <4>2. QED
          BY <2>1, <3>1, <4>1, SaveGood
      <3>2. CASE Save(mark_review_error(draft))
        <4>1. /\ Good(mark_review_error(draft))
              /\ mark_review_error(draft).status = "executing" =>
                     draft.status = "executing" /\ mark_review_error(draft).plan = draft.plan
          <5> DEFINE t == IF draft.status = "drafting" THEN "reviewing" ELSE draft.status
          <5>1. mark_review_error(draft) = [draft EXCEPT !.status = t]
            BY DEF mark_review_error
          <5>2. /\ t \in Status /\ (t = "executing" => draft.status = "executing")
                /\ t \in {"confirmed", "executing"} =>
                       draft.stage = "final_review" /\ draft.final_items # "none"
            BY <1>0 DEF Good, Executable, Draft, Status
          <5> HIDE DEF t
          <5>3. QED
            BY <1>0, <5>1, <5>2, StatusGood
        <4>2. draft.status = "executing" => Listed(draft.plan)
          BY <1>0 DEF Saved
        <4>3. QED
          BY <2>1, <3>2, <4>1, <4>2, SaveGood
      <3>3. QED
        BY <1>5, <3>1, <3>2 DEF Unusable
    <2>3. asked' \subseteq Question(questions')
      BY <1>0, <2>1, AnsweredType
    <2>4. TypeOK'
      BY <1>0, <1>5, <2>2, <2>3 DEF Unusable, TypeOK, todos, counts
    <2>5. QED
      BY <2>2, <2>4 DEF IInv
  <1>6. ASSUME NEW q \in asked, Throw(q) PROVE IInv'
    <2>1. /\ asked' = asked \ {q} /\ questions' = questions
          /\ UNCHANGED <<draft, dbPlan, todoFor, dbTodo, rest, busy, excused>>
      BY <1>6 DEF Throw, todos
    <2>2. Copies /\ Types
      BY <1>0, <2>1, KeepGood DEF TypeOK
    <2>3. asked' \subseteq Question(questions')
      BY <1>0, <2>1, AnsweredType
    <2>4. throws' \in 0 .. MaxThrows
      BY <1>0, <1>6, PlanAssumption DEF Throw, TypeOK, todos, counts
    <2>5. orphaned' \in BOOLEAN
      BY <1>6 DEF Throw
    <2>6. TypeOK'
      BY <1>0, <1>6, <2>2, <2>3, <2>4, <2>5 DEF Throw, TypeOK, todos, counts
    <2>7. QED
      BY <2>2, <2>6 DEF IInv
  <1>7. ASSUME NEW is \in Items, handle_ws_plan_update_items(is) PROVE IInv'
    <2>1. Save(apply_user_items(draft, is)) /\ UNCHANGED todos /\ rest' = "nothing"
      BY <1>7 DEF handle_ws_plan_update_items, Message
    <2>2. Copies /\ Types
      BY <1>0, <2>1, UserItemsGood, SaveGood
    <2>3. TypeOK'
      BY <1>0, <1>7, <2>2 DEF handle_ws_plan_update_items, TypeOK, todos, counts
    <2>4. QED
      BY <2>2, <2>3 DEF IInv
  <1>8. ASSUME NEW is \in {"open", "settled"}, handle_ws_plan_apply_decision(is) PROVE IInv'
    <2>1. /\ Save(apply_decision(draft, is)) /\ UNCHANGED todos
          /\ rest' \in {"finalize", "nothing"}
          /\ draft.status = "reviewing" /\ draft.stage \in {"decision_review", "final_review"}
      BY <1>8 DEF handle_ws_plan_apply_decision
    <2>2. Good(apply_decision(draft, is)) /\ apply_decision(draft, is).status = "reviewing"
      BY <1>0, <2>1, DecisionGood DEF Items
    <2>3. Copies /\ Types
      BY <2>1, <2>2, SaveGood
    <2>4. TypeOK'
      BY <1>0, <1>8, <2>1, <2>3 DEF handle_ws_plan_apply_decision, TypeOK, todos, counts
    <2>5. QED
      BY <2>3, <2>4 DEF IInv
  <1>9. CASE handle_ws_plan_finalize
    <2>1. /\ Save(begin_finalizing(draft)) /\ UNCHANGED todos /\ rest' = "apply_final"
          /\ draft.stage = "decision_review" /\ draft.items = "settled"
      BY <1>9 DEF handle_ws_plan_finalize
    <2>2. Copies /\ Types
      BY <1>0, <2>1, FinalizingGood, SaveGood
    <2>3. TypeOK'
      BY <1>0, <1>9, <2>1, <2>2 DEF handle_ws_plan_finalize, TypeOK, todos, counts
    <2>4. QED
      BY <2>2, <2>3 DEF IInv
  <1>10. CASE FinishFinalize
    <2>1. /\ Save(TakeFinal(draft, draft.items)) /\ UNCHANGED todos /\ rest' = "nothing"
          /\ draft.items # "none" /\ draft.items \in Items
      BY <1>0, <1>10 DEF FinishFinalize, Saved, Draft
    <2>2. Copies /\ Types
      BY <1>0, <2>1, FinalGood, SaveGood
    <2>3. TypeOK'
      BY <1>0, <1>10, <2>1, <2>2 DEF FinishFinalize, TypeOK, todos, counts
    <2>4. QED
      BY <2>2, <2>3 DEF IInv
  <1>11. CASE handle_ws_plan_confirm
    <2>1. /\ draft' = [draft EXCEPT !.status = "confirmed"] /\ dbPlan' = dbPlan
          /\ persist_todo_state(draft.plan) /\ rest' = "execute"
          /\ excused' = IF dbTodo' = draft.plan THEN excused ELSE excused \cup {draft.plan}
          /\ rest = "nothing" /\ confirm(draft)
      BY <1>11 DEF handle_ws_plan_confirm, Message
    <2>2. Good([draft EXCEPT !.status = "confirmed"]) /\ draft'.status = "confirmed"
          /\ draft'.plan = draft.plan
      BY <1>0, <2>1, StatusGood DEF confirm, Status
    <2>3. draft.plan \in Nat
      BY <1>0 DEF Draft
    <2>4. /\ todoFor' = draft.plan /\ todoFor' \in Nat /\ dbTodo' \in Nat
          /\ busy' \in 0 .. MaxBusy /\ excused' \subseteq Nat
      BY <1>0, <2>1, <2>3, TodoType DEF TypeOK
    <2>5. Good(draft)' /\ Good(dbPlan)'
      BY <1>0, <2>1, <2>2 DEF Good, Final, Executable
    <2>6. Listed(draft.plan)' /\ (dbPlan.plan = draft.plan \/ dbPlan.plan \in excused')
      BY <1>0, <2>1, <2>2, <2>4 DEF Saved, Listed
    <2>7. Saved'
      BY <2>1, <2>2, <2>6 DEF Saved, Listed
    <2>8. TypeOK'
      BY <1>0, <1>11, <2>1, <2>4, <2>5 DEF handle_ws_plan_confirm, TypeOK, Good, counts
    <2>9. QED
      BY <2>5, <2>7, <2>8 DEF IInv
  <1>12. CASE FinishConfirm
    <2> DEFINE d == [draft EXCEPT !.status = "executing"]
    <2>1. /\ Save(d) /\ UNCHANGED todos /\ rest' = "nothing" /\ rest = "execute"
          /\ active_run' = TRUE
      BY <1>12 DEF FinishConfirm
    <2>2. draft.stage = "final_review" /\ draft.final_items # "none" /\ Listed(draft.plan)
      BY <1>0, <2>1 DEF Saved, Good, Executable
    <2>3. Good(d) /\ d.plan = draft.plan
      BY <1>0, <2>2, StatusGood DEF Status
    <2> HIDE DEF d
    <2>4. Copies /\ Types
      BY <2>1, <2>2, <2>3, SaveGood
    <2>5. active_run' \in BOOLEAN
      BY <2>1
    <2>6. TypeOK'
      BY <1>0, <1>12, <2>1, <2>4, <2>5 DEF FinishConfirm, TypeOK, todos, counts
    <2>7. QED
      BY <2>4, <2>6 DEF IInv
  <1>13. CASE handle_ws_plan_cancel
    <2> DEFINE d == [draft EXCEPT !.status = "cancelled"]
    <2>1. Save(d) /\ UNCHANGED todos /\ rest' = "nothing"
      BY <1>13 DEF handle_ws_plan_cancel, Message
    <2>2. Good(d) /\ d.status = "cancelled"
      BY <1>0, StatusGood DEF Status
    <2> HIDE DEF d
    <2>3. Copies /\ Types
      BY <2>1, <2>2, SaveGood
    <2>4. TypeOK'
      BY <1>0, <1>13, <2>3 DEF handle_ws_plan_cancel, TypeOK, todos, counts
    <2>5. QED
      BY <2>3, <2>4 DEF IInv
  <1>14. CASE handle_ws_chat
    <2>1. UNCHANGED <<draft, dbPlan, todoFor, dbTodo, rest, busy, excused>>
      BY <1>14 DEF handle_ws_chat, todos
    <2>2. Copies /\ Types
      BY <1>0, <2>1, KeepGood DEF TypeOK
    <2>3. active_run' \in BOOLEAN
      BY <1>14 DEF handle_ws_chat
    <2>4. TypeOK'
      BY <1>0, <1>14, <2>1, <2>2, <2>3 DEF handle_ws_chat, TypeOK, counts
    <2>5. QED
      BY <2>2, <2>4 DEF IInv
  <1>a. CASE handle_ws_todo_update \/ RunEnds
    <2>1. /\ UNCHANGED <<draft, dbPlan, rest, excused, asked, questions, counts, orphaned>>
          /\ active_run' \in {active_run, FALSE}
          /\ persist_todo_state(todoFor) \/ UNCHANGED <<todoFor, dbTodo, busy>>
      BY <1>a DEF handle_ws_todo_update, RunEnds, todos
    <2>2. /\ todoFor' = todoFor /\ dbTodo' \in {todoFor, dbTodo} /\ busy' \in 0 .. MaxBusy
          /\ todoFor' \in Nat /\ dbTodo' \in Nat
      BY <1>0, <2>1, TodoType DEF TypeOK
    <2>3. Copies /\ draft' \in Draft /\ dbPlan' \in Draft
      BY <2>1, <2>2, AgainGood
    <2>4. TypeOK'
      BY <1>0, <2>1, <2>2, <2>3 DEF TypeOK, counts
    <2>5. QED
      BY <2>3, <2>4 DEF IInv
  <1>b. CASE clear_todo_state
    <2> DEFINE gone == {d.plan : d \in {e \in {draft, dbPlan} : e.status = "executing"}}
    <2>1. /\ UNCHANGED <<draft, dbPlan, rest, asked, questions, active_run, counts, orphaned>>
          /\ persist_todo_state(0) /\ excused' = excused \cup gone /\ rest = "nothing"
      BY <1>b DEF clear_todo_state
    <2>2. todoFor' \in Nat /\ dbTodo' \in Nat /\ busy' \in 0 .. MaxBusy
      BY <1>0, <2>1, TodoType
    <2>3. gone \subseteq Nat
      BY <1>0 DEF TypeOK, Draft
    <2>4. /\ draft.status = "executing" => draft.plan \in gone
          /\ dbPlan.status = "executing" => dbPlan.plan \in gone
      OBVIOUS
    <2> HIDE DEF gone
    <2>5. Good(draft)' /\ Good(dbPlan)'
      BY <1>0, <2>1 DEF Good, Final, Executable
    <2>6. Saved'
      BY <1>0, <2>1, <2>4 DEF Saved, Listed
    <2>7. TypeOK'
      BY <1>0, <2>1, <2>2, <2>3 DEF TypeOK, counts
    <2>8. QED
      BY <2>5, <2>6, <2>7 DEF IInv
  <1>15. CASE Restart
    <2>1. /\ draft' = dbPlan /\ dbPlan' = dbPlan /\ dbTodo' = dbTodo /\ todoFor' = dbTodo
          /\ busy' = busy /\ excused' = excused
          /\ rest' = "nothing" /\ asked' = {} /\ active_run' = FALSE
          /\ orphaned' = (dbPlan.status = "drafting")
      BY <1>15 DEF Restart
    <2>2. Good(draft)' /\ Good(dbPlan)'
      BY <1>0, <2>1 DEF Good, Final, Executable
    <2>3. Saved'
      BY <1>0, <2>1 DEF Saved, Listed
    <2>4. draft' \in Draft /\ dbPlan' \in Draft /\ asked' \subseteq Question(questions')
      BY <2>1, <2>2 DEF Good
    <2>5. active_run' \in BOOLEAN /\ orphaned' \in BOOLEAN
      BY <2>1
    <2>6. restarts' \in 0 .. MaxRestarts
      BY <1>0, <1>15, PlanAssumption DEF Restart, TypeOK
    <2>7. TypeOK'
      BY <1>0, <1>15, <2>1, <2>4, <2>5, <2>6 DEF Restart, TypeOK
    <2>8. QED
      BY <2>2, <2>3, <2>7 DEF IInv
  <1>16. CASE UNCHANGED vars
    <2>1. Copies
      BY <1>16, KeepGood DEF vars
    <2>2. TypeOK'
      BY <1>0, <1>16 DEF vars, TypeOK
    <2>3. QED
      BY <2>1, <2>2 DEF IInv
  <1>17. QED
    BY <1>1, <1>2, <1>3, <1>4, <1>5, <1>6, <1>7, <1>8, <1>9, <1>10, <1>11, <1>12, <1>13,
       <1>14, <1>a, <1>b, <1>15, <1>16 DEF Next

\* IInv is an invariant of the specification.
THEOREM Invariance == Spec => []IInv
  BY InitIInv, NextIInv, PTL DEF Spec

\* The types are kept by every handler, answer and restart.
THEOREM TypeCorrect == Spec => []TypeOK
  <1>1. IInv => TypeOK
    BY DEF IInv
  <1>2. QED
    BY <1>1, Invariance, PTL

\* A final plan is there exactly in final review, and no change was made to
\* the draft since it was taken, in memory and in the database, however late
\* the answers of the model come and whatever saves fail.
THEOREM FinalHolds == Spec => []FinalMatchesRevision
  <1>1. IInv => FinalMatchesRevision
    BY DEF IInv, Good, FinalMatchesRevision
  <1>2. QED
    BY <1>1, Invariance, PTL

\* What is confirmed or executing, in memory or in the database, is a final
\* plan in final review.
THEOREM ExecutesHolds == Spec => []ExecutesFinalPlan
  <1>1. IInv => ExecutesFinalPlan
    BY DEF IInv, Good, ExecutesFinalPlan
  <1>2. QED
    BY <1>1, Invariance, PTL

\* An executing plan has its TODO list in the database, wherever the server
\* stopped, unless a save of it failed or the agent threw the list away.
THEOREM TodosHold == Spec => []ExecutingHasTodos
  <1>1. IInv => ExecutingHasTodos
    BY DEF IInv, Saved, Listed, ExecutingHasTodos
  <1>2. QED
    BY <1>1, Invariance, PTL
=============================================================================
