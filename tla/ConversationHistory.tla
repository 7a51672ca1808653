------------------------ MODULE ConversationHistory ------------------------
(***************************************************************************)
(* workspace::ConversationHistory with memory::ContextPruner: the messages *)
(* of a session, and the pruned list that is what the provider gets to     *)
(* see. The pruned list is cached and brought up to date incrementally: a  *)
(* "frozen" front is taken over from the cache, the rest is pruned again.  *)
(***************************************************************************)
EXTENDS Naturals, FiniteSets, SequencesExt

CONSTANTS
    ProtectRecent,    \* prune_config_.protect_recent, never changed
    HardPruneAfter    \* hard_prune_after of the configuration

ASSUME PruneAssumption == {ProtectRecent, HardPruneAfter} \subseteq Nat

VARIABLES
    messages_,              \* [role, calls, text]: calls are the ids of the
                            \* tool_use blocks, or of the one tool_result;
                            \* text: there is text that is also persisted
    pruned_messages_,       \* [m, form]: form "full", "soft" or "stripped"
    prune_dirty_,
    last_pruned_msg_count_,
    hard_prune_after        \* prune_config_.hard_prune_after

historyVars == <<messages_, pruned_messages_, prune_dirty_, last_pruned_msg_count_,
                 hard_prune_after>>

Msg(role, calls, text) == [role |-> role, calls |-> calls, text |-> text]
System == Msg("system", {}, TRUE)
User(persisted) == Msg("user", {}, persisted)
Assistant(calls, text) == Msg("assistant", calls, text)
ToolResult(call) == Msg("tool", {call}, TRUE)

\* The elements of s whose index is in S, in order.
Pick(s, S) == FlattenSeq([i \in DOMAIN s |-> IF i \in S THEN <<s[i]>> ELSE <<>>])

Without(ms, role) == Pick(ms, {i \in DOMAIN ms : ms[i].role # role})

HistoryInit ==
    /\ messages_ = <<>> /\ pruned_messages_ = <<>>
    /\ prune_dirty_ = TRUE /\ last_pruned_msg_count_ = 0
    /\ hard_prune_after = HardPruneAfter

-----------------------------------------------------------------------------
(* ContextPruner.                                                          *)

Assistants(ms, from) == {i \in from .. Len(ms) : ms[i].role = "assistant"}

\* Assistant messages are numbered from the newest, 1, to the oldest; other
\* messages have none (-1 in the code, 0 here: both fail every test for > 0).
compute_depths(ms) ==
    [i \in DOMAIN ms |-> IF ms[i].role = "assistant" THEN Cardinality(Assistants(ms, i)) ELSE 0]

\* The depth of the last assistant message before i; 0 if there is none.
nearest_depth(ms, depths, i) ==
    LET before == {j \in 1 .. (i - 1) : ms[j].role = "assistant"}
    IN  IF before = {} THEN 0 ELSE depths[CHOOSE j \in before : \A k \in before : k <= j]

Keep(m, form) == <<[m |-> m, form |-> form]>>

\* Mutant: the tool results of the stripped zone are kept.
PruneOne_KeepResults(ms, depths, hard, i) ==
    LET m == ms[i]
        depth == IF m.role = "tool" THEN nearest_depth(ms, depths, i) ELSE depths[i]
    IN  IF m.role \notin {"tool", "assistant"} \/ (depth > 0 /\ depth <= ProtectRecent)
        THEN Keep(m, "full")
        ELSE IF depth <= hard \/ m.role = "tool" THEN Keep(m, "soft")
        ELSE Keep([m EXCEPT !.calls = {}], "stripped")

\* What becomes of message i: protected messages stay as they are; beyond
\* hard_prune_after a tool result goes and an assistant message loses its
\* tool_use blocks; in between only the result's text is shortened.
PruneOne(ms, depths, hard, i) ==
    LET m == ms[i]
        depth == IF m.role = "tool" THEN nearest_depth(ms, depths, i) ELSE depths[i]
    IN  IF m.role \notin {"tool", "assistant"} \/ (depth > 0 /\ depth <= ProtectRecent)
        THEN Keep(m, "full")
        ELSE IF depth <= hard THEN Keep(m, "soft")
        ELSE IF m.role = "tool" THEN <<>>
        ELSE Keep([m EXCEPT !.calls = {}], "stripped")

prune_range_with_depths(ms, start, depths, hard) ==
    FlattenSeq([k \in 1 .. (Len(ms) - start) |-> PruneOne(ms, depths, hard, start + k)])

prune(ms, hard) == prune_range_with_depths(ms, 0, compute_depths(ms), hard)

-----------------------------------------------------------------------------
(* The incremental path of pruned_messages().                              *)

\* Mutant: the new assistant messages are not counted.
freeze_end_NoNew(ms, depths, prev, hard) ==
    LET active == {i \in 1 .. prev : depths[i] > 0 /\ depths[i] <= hard}
    IN  IF active = {} THEN prev ELSE (CHOOSE i \in active : \A j \in active : i <= j) - 1

\* The length of the front without an assistant message that the last
\* pruning left outside the stripped zone.
freeze_end(ms, depths, prev, hard) ==
    LET threshold == hard + Cardinality(Assistants(ms, prev + 1))
        active == {i \in 1 .. prev : depths[i] > 0 /\ depths[i] <= threshold}
    IN  IF active = {} THEN prev ELSE (CHOOSE i \in active : \A j \in active : i <= j) - 1

\* The cached front, less the results that are stripped by now, and the rest
\* pruned anew.
incremental(ms, cached, prev, hard) ==
    LET depths == compute_depths(ms)
        end == freeze_end(ms, depths, prev, hard)
        freeze_stripped == {i \in 1 .. end : ms[i].role = "tool" /\ nearest_depth(ms, depths, i) > hard}
    IN  SubSeq(cached, 1, end - Cardinality(freeze_stripped))
        \o prune_range_with_depths(ms, end, depths, hard)

\* pruned_messages(): the cache if it is clean, the incremental path if there
\* is something to freeze, the full pruning otherwise.
PrunedList(ms, dirty) ==
    LET prev == last_pruned_msg_count_
        frozen == IF prev > 0 /\ prev <= Len(ms) /\ pruned_messages_ # <<>>
                  THEN freeze_end(ms, compute_depths(ms), prev, hard_prune_after)
                  ELSE 0
    IN  IF ~dirty THEN pruned_messages_
        ELSE IF frozen > 0 THEN incremental(ms, pruned_messages_, prev, hard_prune_after)
        ELSE prune(ms, hard_prune_after)

\* The messages become ms, by add_message or not at all, and are pruned.
PruneWith(ms) ==
    /\ messages_' = ms
    /\ pruned_messages_' = PrunedList(ms, prune_dirty_ \/ ms # messages_)
    /\ prune_dirty_' = FALSE
    /\ last_pruned_msg_count_' = Len(ms)
    /\ UNCHANGED hard_prune_after

-----------------------------------------------------------------------------
(* Changing the messages.                                                  *)

\* add_message: the pruned list is kept for the incremental path.
AddMessages(ms) ==
    /\ messages_' = messages_ \o ms
    /\ prune_dirty_' = TRUE
    /\ UNCHANGED <<pruned_messages_, last_pruned_msg_count_, hard_prune_after>>

\* invalidate_all_cache with new messages and a new configuration: the next
\* pruning is a full one.
Replace(ms, hard) ==
    /\ messages_' = ms
    /\ hard_prune_after' = hard
    /\ prune_dirty_' = TRUE
    /\ last_pruned_msg_count_' = 0
    /\ UNCHANGED pruned_messages_

\* set_system_prompt: the first system message is replaced or one is put in
\* front, others are erased; nothing happens when the text is the same.
set_system_prompt(ms) == <<System>> \o Without(ms, "system")

\* The same, and pruned_tokens() has pruned the new messages at once.
ReplaceAndPrune(ms, hard) ==
    /\ messages_' = ms
    /\ hard_prune_after' = hard
    /\ pruned_messages_' = prune(ms, hard)
    /\ prune_dirty_' = FALSE
    /\ last_pruned_msg_count_' = Len(ms)

-----------------------------------------------------------------------------
(* What a list of messages must be for a provider to accept it.            *)

\* Every tool_use of an assistant message is answered by a tool result
\* before the next assistant or user message, and every result has its use.
Answers(ms, i) ==
    UNION {ms[j].calls : j \in {k \in (i + 1) .. Len(ms) :
                                   \A l \in (i + 1) .. k : ms[l].role = "tool"}}

Paired(ms) ==
    /\ \A i \in DOMAIN ms : ms[i].role = "assistant" => Answers(ms, i) = ms[i].calls
    /\ \A i \in DOMAIN ms : ms[i].role = "tool" => i > 1 /\ ms[i - 1].role \in {"assistant", "tool"}

Messages(pruned) == [i \in DOMAIN pruned |-> pruned[i].m]
=============================================================================
