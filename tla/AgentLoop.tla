----------------------------- MODULE AgentLoop -----------------------------
(***************************************************************************)
(* Agent::run_session_async over one session: the loop of requests, tool   *)
(* steps and limits (the streaming and the non-streaming path take the     *)
(* same steps), what it adds to the ConversationHistory and what it hands  *)
(* to the history database, recovery from a context overflow by            *)
(* Session::force_compact, and Session::restore_from_db.                   *)
(*                                                                         *)
(* The history database is a log of which a crash keeps a prefix (module   *)
(* DurableLog, for a session whose rows nobody drops or erases).           *)
(***************************************************************************)
EXTENDS ConversationHistory, FiniteSets

CONSTANTS
    Levels,               \* force_compact's levels, [hard, keep] each
    MaxToolSteps, MaxToolCalls, MaxToolCallsPerStep,
    MaxCompactCalls,
    MaxRuns,              \* bound on runs
    MaxCallIds,           \* bound on tool calls over all runs
    MaxPlans,             \* bound on plans that are started
    MaxCrashes            \* bound on restarts

ASSUME LoopAssumption ==
    /\ {MaxToolSteps, MaxToolCalls, MaxToolCallsPerStep} \subseteq Nat \ {0}
    /\ {MaxCompactCalls, MaxRuns, MaxCallIds, MaxPlans, MaxCrashes} \subseteq Nat
    /\ Levels \in Seq([hard : Nat, keep : Nat]) /\ Levels # <<>>

VARIABLES
    pc,                   \* where the run is
    step, total_tool_calls,
    tool_calls, blocked_calls, answerText, \* the tool step under way
    level, compact_calls, \* where force_compact is
    rows,                 \* what was handed to the database, in order
    stored,               \* how many of them are known to be in the file
    boundaries,           \* history: lengths of rows between two steps
    torn,                 \* history: a restore has found half a step
    planned,              \* history: the rows that are prompts of plans
    compacted,            \* history: messages_ has been compacted
    hidden,               \* history: calls that plan mode blocked
    nextCall, runs, plans, crashes

runVars == <<pc, step, total_tool_calls, tool_calls, blocked_calls, answerText, level,
              compact_calls>>
rowVars == <<rows, stored, boundaries, torn, planned, hidden>>
agentVars == <<historyVars, runVars, rowVars, compacted, nextCall, runs, plans, crashes>>

Row(role, call, text) == [role |-> role, call |-> call, text |-> text]

AgentInit ==
    /\ HistoryInit
    /\ pc = "idle" /\ step = 0 /\ total_tool_calls = 0
    /\ tool_calls = <<>> /\ blocked_calls = <<>> /\ answerText = FALSE
    /\ level = 0 /\ compact_calls = 0
    /\ rows = <<>> /\ stored = 0 /\ boundaries = {0} /\ torn = FALSE /\ planned = {}
    /\ compacted = FALSE /\ hidden = {}
    /\ nextCall = 1 /\ runs = 0 /\ plans = 0 /\ crashes = 0

\* The run is over, with a result or an exception.
EndRun ==
    /\ pc' = "idle" /\ step' = 0 /\ total_tool_calls' = 0
    /\ tool_calls' = <<>> /\ blocked_calls' = <<>> /\ answerText' = FALSE
    /\ level' = 0 /\ compact_calls' = 0

Persist(new) ==
    /\ rows' = rows \o new
    /\ boundaries' = boundaries \cup {Len(rows')}
    /\ UNCHANGED <<stored, torn>>

-----------------------------------------------------------------------------
(* The run.                                                                *)

\* set_system_prompt, add_user, and the user row unless a confirmed plan is
\* being executed. A changed prompt resets the caches.
StartRun ==
    /\ pc = "idle" /\ runs < MaxRuns
    /\ runs' = runs + 1
    /\ \E persisted \in BOOLEAN, changed \in BOOLEAN :
          /\ ~changed => (messages_ # <<>> /\ messages_[1] = System)
          /\ IF changed
             THEN Replace(Append(set_system_prompt(messages_), User(persisted)), hard_prune_after)
             ELSE AddMessages(<<User(persisted)>>)
          /\ Persist(IF persisted THEN <<Row("user", 0, TRUE)>> ELSE <<>>)
    /\ pc' = "request"
    /\ UNCHANGED <<step, total_tool_calls, tool_calls, blocked_calls, answerText, level,
                   compact_calls, compacted, planned, hidden, nextCall, plans, crashes>>

\* The head of the loop: throw_if_cancelled (the token may have been cancelled
\* by another thread at any time, which only these checks notice), the step
\* limit, the request.
Request ==
    /\ pc = "request"
    /\ \/ /\ EndRun
          /\ UNCHANGED historyVars
       \/ /\ step < MaxToolSteps
          /\ PruneWith(messages_)
          /\ pc' = "waiting"
          /\ UNCHANGED <<step, total_tool_calls, tool_calls, blocked_calls, answerText,
                         level, compact_calls>>
    /\ UNCHANGED <<rowVars, compacted, nextCall, runs, plans, crashes>>

\* An error status, or an exception out of the await, also on cancellation.
RespondError ==
    /\ pc = "waiting"
    /\ EndRun
    /\ UNCHANGED <<historyVars, rowVars, compacted, nextCall, runs, plans, crashes>>

\* detect_context_overflow: force_compact begins at its first level.
RespondOverflow ==
    /\ pc = "waiting"
    /\ pc' = "recovering" /\ level' = 1 /\ compact_calls' = 0
    /\ UNCHANGED <<historyVars, rowVars, step, total_tool_calls, tool_calls, blocked_calls,
                   answerText, compacted, nextCall, runs, plans, crashes>>

\* Compactor::compact: the last keep rounds stay; an older round becomes its
\* user message and a summary. batch_summarize files the summary of its j-th
\* long round under j, so a long round after short ones may find none and
\* disappears.
Rounds(ms) == {i \in DOMAIN ms : ms[i].role = "user"}

compact(ms, keep, short) ==
    LET users == Pick([i \in DOMAIN ms |-> i], Rounds(ms))
        old == Len(users) - keep
        summarised == short \cup (1 .. (old - Cardinality(short)))
        systems == {i \in DOMAIN ms : ms[i].role = "system"}
    IN  IF Len(users) <= 1 \/ old <= 0 THEN ms
        ELSE Pick(ms, {i \in systems : \A j \in systems : i <= j})
             \o FlattenSeq([i \in 1 .. old |->
                               IF i \in summarised THEN <<ms[users[i]], Assistant({}, TRUE)>>
                               ELSE <<>>])
             \o Without(SubSeq(ms, users[old + 1], Len(ms)), "system")

\* keep_recent_override, or the rounds that determine_keep_rounds finds room
\* for; which of the old ones are short.
Compactions(ms, override) ==
    LET n == Cardinality(Rounds(ms))
        keeps == IF override > 0 THEN {IF override < n THEN override ELSE n} ELSE 1 .. n
    IN  UNION {{compact(ms, k, short) : short \in SUBSET (1 .. (n - k))} : k \in keeps}

\* The final answer: assistant message and row (a thinking row before it is
\* skipped by restore_from_db and left out here), then maybe_compact, which
\* prunes to estimate the tokens.
RespondText ==
    /\ pc = "waiting"
    /\ LET ms == Append(messages_, Assistant({}, TRUE))
       IN  \/ PruneWith(ms) /\ UNCHANGED compacted
           \/ /\ Rounds(ms) # {}
              /\ \E new \in Compactions(ms, 0) : Replace(new, hard_prune_after)
              /\ compacted' = TRUE
    /\ Persist(<<Row("assistant", 0, TRUE)>>)
    /\ EndRun
    /\ UNCHANGED <<planned, hidden, nextCall, runs, plans, crashes>>

\* The calls of tools that are not read-only are set apart, in order.
filter_plan_mode_tools(ids, writing) ==
    LET blocked == {i \in DOMAIN ids : ids[i] \in writing}
    IN  [allowed |-> Pick(ids, DOMAIN ids \ blocked), blocked_calls |-> Pick(ids, blocked)]

\* Tool calls: n that count against the budgets, and perhaps an update_todo,
\* which does not. In plan mode those that are not read-only are blocked.
RespondTools(n, todo) ==
    /\ pc = "waiting"
    /\ LET ids == [i \in 1 .. (n + todo) |-> nextCall + i - 1]
       IN  \/ /\ (n > MaxToolCallsPerStep \/ total_tool_calls + n > MaxToolCalls)
              /\ EndRun
              /\ UNCHANGED <<nextCall, hidden>>
           \/ /\ n <= MaxToolCallsPerStep /\ total_tool_calls + n <= MaxToolCalls
              /\ nextCall + n + todo <= MaxCallIds + 1
              /\ total_tool_calls' = total_tool_calls + n
              /\ nextCall' = nextCall + n + todo
              /\ \E blocked \in SUBSET Range(ids) :
                    /\ tool_calls' = filter_plan_mode_tools(ids, blocked).allowed
                    /\ blocked_calls' = filter_plan_mode_tools(ids, blocked).blocked_calls
                    /\ hidden' = hidden \cup blocked
                    /\ answerText' \in IF blocked = {} THEN {TRUE} ELSE BOOLEAN
              /\ pc' = "tools"
              /\ UNCHANGED <<step, level, compact_calls>>
    /\ UNCHANGED <<historyVars, rows, stored, boundaries, torn, planned, compacted, runs, plans,
                   crashes>>

Results(calls) == [i \in DOMAIN calls |-> ToolResult(calls[i])]

\* persist_tool_step: the assistant row, a row per allowed call, a row per
\* result of one; blocked calls are not persisted.
ToolRows ==
    <<Row("assistant", 0, answerText)>>
    \o [i \in DOMAIN tool_calls |-> Row("tool_call", tool_calls[i], TRUE)]
    \o [i \in DOMAIN tool_calls |-> Row("tool", tool_calls[i], TRUE)]

\* The tools have run one after the other and nobody cancelled: all calls go
\* into the assistant message, all results behind it.
ToolStep ==
    /\ pc = "tools"
    /\ AddMessages(<<Assistant(Range(tool_calls \o blocked_calls), answerText)>>
                   \o Results(tool_calls) \o Results(blocked_calls))
    /\ Persist(ToolRows)
    /\ pc' = "request" /\ step' = step + 1
    /\ tool_calls' = <<>> /\ blocked_calls' = <<>> /\ answerText' = FALSE
    /\ UNCHANGED <<total_tool_calls, level, compact_calls, compacted, planned, hidden,
                   nextCall, runs, plans, crashes>>

\* throw_if_cancelled before or after the tools: what they did is not in the
\* history.
ToolsCancelled ==
    /\ pc = "tools"
    /\ EndRun
    /\ UNCHANGED <<historyVars, rowVars, compacted, nextCall, runs, plans, crashes>>

-----------------------------------------------------------------------------
(* The other writer of the session's rows.                                 *)

\* A plan is started (PlanSession has the rest of the handler): its prompt
\* is handed over as a user row, behind it a plan_anchor row, which
\* restore_from_db skips and which is left out here; no message is added. The
\* handler runs on the loop of the runs, so never within a step, but a run
\* may be waiting for an answer.
handle_ws_plan_start ==
    /\ pc \in {"idle", "waiting"} /\ plans < MaxPlans
    /\ plans' = plans + 1
    /\ Persist(<<Row("user", 0, TRUE)>>)
    /\ planned' = planned \cup {Len(rows')}
    /\ UNCHANGED <<historyVars, runVars, compacted, hidden, nextCall, runs, crashes>>

-----------------------------------------------------------------------------
(* Session::force_compact.                                                 *)

\* Mutant: continue without using up a step.
Recovered_FreeStep ==
    /\ pc' = "request" /\ step' = step /\ level' = 0 /\ compact_calls' = 0
    /\ UNCHANGED <<total_tool_calls, tool_calls, blocked_calls, answerText>>

\* force_compact returned true: continue, which uses up a step.
Recovered ==
    /\ pc' = "request" /\ step' = step + 1 /\ level' = 0 /\ compact_calls' = 0
    /\ UNCHANGED <<total_tool_calls, tool_calls, blocked_calls, answerText>>

\* One level: prune harder, and if that is not enough compact, and if that is
\* not enough go to the next level; after the last the run ends.
RecoverLevel ==
    /\ pc = "recovering"
    /\ LET lvl == Levels[level]
       IN  \/ /\ ReplaceAndPrune(messages_, lvl.hard)
              /\ Recovered
              /\ UNCHANGED compacted
           \/ /\ compact_calls < MaxCompactCalls
              /\ \E new \in Compactions(messages_, lvl.keep) : ReplaceAndPrune(new, lvl.hard)
              /\ compacted' = TRUE
              /\ \/ Recovered
                 \/ /\ level < Len(Levels)
                    /\ level' = level + 1 /\ compact_calls' = compact_calls + 1
                    /\ UNCHANGED <<pc, step, total_tool_calls, tool_calls, blocked_calls,
                                   answerText>>
                 \/ level = Len(Levels) /\ EndRun
           \/ /\ compact_calls >= MaxCompactCalls
              /\ ReplaceAndPrune(messages_, lvl.hard)
              /\ UNCHANGED compacted
              /\ \/ /\ level < Len(Levels)
                    /\ level' = level + 1
                    /\ UNCHANGED <<pc, step, total_tool_calls, tool_calls, blocked_calls,
                                   answerText, compact_calls>>
                 \/ level = Len(Levels) /\ EndRun
    /\ UNCHANGED <<rowVars, nextCall, runs, plans, crashes>>

-----------------------------------------------------------------------------
(* The database, and Session::restore_from_db.                             *)

\* The calls in the tool_call rows that follow assistant row i directly.
CallsAfter(rs, i) ==
    {rs[j].call : j \in {k \in (i + 1) .. Len(rs) :
                            \A l \in (i + 1) .. k : rs[l].role = "tool_call"}}

\* Mutant: the calls of an assistant row are not collected.
RestoreRow_NoCalls(rs, i) ==
    CASE rs[i].role = "user" -> <<User(TRUE)>>
      [] rs[i].role = "assistant" /\ rs[i].text -> <<Assistant({}, rs[i].text)>>
      [] rs[i].role = "tool" -> <<ToolResult(rs[i].call)>>
      [] OTHER -> <<>>

\* What row i adds to the messages; an assistant row that has neither text
\* nor calls adds none.
RestoreRow(rs, i) ==
    CASE rs[i].role = "user" -> <<User(TRUE)>>
      [] rs[i].role = "assistant" /\ (rs[i].text \/ CallsAfter(rs, i) # {}) ->
            <<Assistant(CallsAfter(rs, i), rs[i].text)>>
      [] rs[i].role = "tool" -> <<ToolResult(rs[i].call)>>
      [] OTHER -> <<>>

\* What the rows in S add among all the others.
RestoredFrom(rs, S) ==
    FlattenSeq([i \in DOMAIN rs |-> IF i \in S THEN RestoreRow(rs, i) ELSE <<>>])

restore_from_db(rs) == RestoredFrom(rs, DOMAIN rs)

\* The process dies at any point and the session is opened again: a new
\* Session object, filled from the rows that had reached the file, some
\* prefix of those handed over.
Restart ==
    /\ crashes < MaxCrashes
    /\ crashes' = crashes + 1
    /\ stored' \in stored .. Len(rows)
    /\ rows' = SubSeq(rows, 1, stored')
    /\ torn' = (torn \/ stored' \notin boundaries)
    /\ boundaries' = {b \in boundaries : b <= stored'}
    /\ planned' = {}
    /\ messages_' = restore_from_db(rows')
    /\ pruned_messages_' = <<>> /\ prune_dirty_' = TRUE /\ last_pruned_msg_count_' = 0
    /\ hard_prune_after' = HardPruneAfter
    /\ compacted' = FALSE
    /\ EndRun
    /\ UNCHANGED <<hidden, nextCall, runs, plans>>

-----------------------------------------------------------------------------

RunStep ==
    \/ Request \/ RespondError \/ RespondOverflow \/ RespondText
    \/ \E n \in 0 .. (MaxToolCallsPerStep + 1), todo \in 0 .. 1 : n + todo > 0 /\ RespondTools(n, todo)
    \/ ToolStep \/ ToolsCancelled \/ RecoverLevel

AgentNext == StartRun \/ RunStep \/ handle_ws_plan_start \/ Restart

AgentSpec == AgentInit /\ [][AgentNext]_agentVars

\* The coroutine goes on, and the provider answers or times out.
AgentFairSpec == AgentSpec /\ WF_agentVars(RunStep)

-----------------------------------------------------------------------------
(* Properties.                                                             *)

\* agent.cpp ("否则 LLM 协议断裂"): in every request that is sent each tool_use
\* is answered and each result has its tool_use, whatever steps, blocked
\* calls, cancellations, compactions and prunings came before, and also after
\* a restart that found whole steps. Excepted are the last two levels of
\* force_compact, which prune within the protected zone: there the frozen
\* front is cut short and a tool_use does go out unanswered.
RequestsPaired ==
    pc = "waiting" /\ ~torn /\ hard_prune_after >= ProtectRecent
        => Paired(Messages(pruned_messages_))

\* conversation_history.cpp:44 "核心不变量：once hard-pruned, always
\* hard-pruned": the incremental path of pruned_messages() yields what
\* pruning the whole list would, with the same exception.
PruneExact ==
    ~prune_dirty_ /\ hard_prune_after >= ProtectRecent
        => pruned_messages_ = prune(messages_, hard_prune_after)

\* The messages that are to survive a restart: not the system prompt, blocked
\* calls and the prompts of plan executions.
Visible(ms) ==
    FlattenSeq([i \in DOMAIN ms |->
        LET m == [ms[i] EXCEPT !.calls = @ \ hidden]
        IN  IF \/ m.role = "system"
               \/ m.role = "user" /\ ~m.text
               \/ m.role = "tool" /\ m.calls = {}
               \/ m.role = "assistant" /\ m.calls = {} /\ ~m.text
            THEN <<>> ELSE <<m>>])

\* What restore_from_db rebuilds from the rows handed over so far is what the
\* session holds in memory, as long as nothing was compacted: each row of a
\* run adds its message and nothing else. Excepted are the prompts of plans
\* started since the session was opened, which the database hands over as
\* user messages that the session has never held (README, Disagreements).
RestoreFaithful == ~compacted => RestoredFrom(rows, DOMAIN rows \ planned) = Visible(messages_)

\* Every run ends: the step limit holds also for steps that only recover
\* from an overflow.
RunEnds == []<>(pc = "idle")
=============================================================================
