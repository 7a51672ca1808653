# BenGear agent: a TLA+ verification project

BenGear is an LLM agent in C++: a command line and a WebSocket server run
conversations in which a model calls tools, delegates to sub-agents, drafts plans,
changes files and executes workflows (graphs of tasks). The modules here model the
parts in which threads, coroutines, late answers, crashes and shared files meet.
Source paths below are relative to `src/` of the repository.

## 1. Inventory

| Component | State | Operations | Interacts with | Hard behaviour | What makes it correct |
|---|---|---|---|---|---|
| `base/concurrency/thread_pool` | queue, `stop_`, `pause_`, `active_threads_`, worker threads | `submit`, `submit_batch`, `wait`, `pause`, `resume`, `shutdown` | tool manager, workflow executor | two condition variables, flags stored outside the mutex, full queue | FIFO, each task once, drain on shutdown, no stranded task |
| `workflow/dag` | tasks, edges both ways | `add_task`, `add_dependency`, `has_cycle`, `topological_sort`, `get_ready_tasks` | scheduler, engine | incremental cycle test, hash iteration order | no cycle is closed, sort and verdict are right in any order |
| `workflow/scheduler`, `executor` | results, batch, retries, flags | `run`, `pause`, `resume`, `cancel` | thread pool, engine | controls at any moment, failure in a batch, exceptions | dependencies first, honest status, exact retries, ends |
| `workflow/workflow_engine` | definitions, active schedulers, reported states, futures | register, validate, `add_task`, `execute`, `execute_async`, `start_async`, controls, `get_state` | tools, event sink | several ways to start, publication order | state and registry agree, executions end |
| `orchestration/plan` + `server/ws` handlers | draft with status, stage, revision, request id; database rows | ten WebSocket messages | model, history database, agent | the plan changes while a question is under way; crash between saves | a final plan does not outlive a change of its draft, only a final plan runs, drafting ends |
| `server/session/pool` | entries, LRU order, run flags | `get_or_create`, `get`, `remove`, `cancel` | WebSocket threads, agent loops | entry handed out before its run is marked; two mutexes | LRU exact, one run per entry, no stale cancel |
| `workspace/history_db` | SQLite tables, write queue, sequence number, flush thread | open, close, `append`, `flush`, create, rename, save state, deletes | sessions, REST handlers | several objects on one file, no busy timeout, close while appending, crash | a durable log while a session has one object at a time: order kept, nothing stays pending, rows are listed |
| `agent/agent`, `workspace/session`, `conversation_history`, `memory/context_pruner`, `compactor` | messages, cached pruned list, prune thresholds, steps and calls | run a session, tool step, recover from overflow, compact, prune, restore | provider, tools, history database | incremental pruning, cancellation between tools, crash between rows | every request well formed, memory and database agree, runs end |
| `agent/sub_agent`, `tool/sub_agent_tools`, `tool/manager` | running tasks, tokens, statuses, the loop's one thread | `execute_tool`, `delegate_task`, `delegate_tasks`, `execute`, `execute_parallel`, `execute_speculative`, `cancel` | thread pool, workflow loop | threads that wait for each other, timeout with a late result, status limit | statuses are right, callers come back, sub-agents end |
| `capabilities/patch`, `checkpoint`, `permission`, `application/command_governance` | files, temporary files, checkpoints, change records, approvals | apply, revert, safe change, restore, remove, write, delete, ask, approve, deny | REST, tools, the user's editor | no lock on files, partial failure, crash, one approval for two calls | nothing unrecoverable, edits kept, success means done, approval used once |
| `server/ws/handler`, `net/event_loop` | write queue, urgent queue, pending pong, `flushing_`; inbound queue, registrations | greeting, `read_loop`, `queue_send`, `queue_send_urgent`, `flush_writes`; `run_once` | peer, other threads | two coroutines on one socket, slow peer, limits, close at any moment | whole frames in order, queued is written, arrived is handled, the loop polls |
| `llm` (providers, retry, cooldown) | candidates, attempts, cooldowns | `chat_async`, `chat_with_tools_async`, both streams, failover, cancel | net, agent loop, plan handlers | failure in the middle of an answer, shared cooldowns, cancellation while sleeping | no answer repeated or mixed up, throws only when all candidates failed, calls end |
| `net/http`, `net/connection_pool` | idle connections, `close_after` timers | acquire, connect, handshake, send, read, drain, release, second try | providers | reuse of a connection that was closed or not read to its end, silent peers | an answer belongs to its request, every wait ends |
| `base/queue`, `base/memory` | lock-free ring, free lists | push, pop, allocate | event loop | memory order | each element once |
| `intelligence`, `cli`, `plugins`, `base/*`, `web`, `webserver` | indexes, terminal, containers, JSON | - | - | little concurrency | - |

`PROJECT.json` lists every component with its status; section 8 says why the
others are not modelled.

## 2. Modules

| Module | Models | Notes |
|---|---|---|
| `ThreadPool` | `thread_pool.cpp`, `thread_pool.hpp` | a worker is a program counter; the mutex is a variable, because workers and `wait()` park in two steps |
| `WorkflowDag` | `dag.hpp` | the calls build any graph; `has_cycle` and `topological_sort` run step by step in any iteration order |
| `WorkflowScheduler` | `scheduler.cpp`, `executor.cpp` | every variable is a function of the execution |
| `WorkflowEngine` | `workflow_engine.cpp` | extends `WorkflowScheduler`: executions with definitions, registry and reported states |
| `PlanSession` | `plan.cpp`, `plan_parser.cpp`, the plan handlers in `session_message_handlers.cpp` | `PlanManager` methods are operators on drafts, handlers are actions |
| `SessionPool` | `pool.cpp`, `ActiveRunGuard` | steps of the holder of `mutex_` are actions of their own |
| `DurableLog` | what `HistoryDB` promises | abstract specification: append, store, drop, erase, lose; nothing of a session once it is shared |
| `HistoryDB` | `history_db.cpp` | implements `DurableLog` (refinement mapping in `Log`) |
| `ConversationHistory` | `conversation_history.cpp`, `context_pruner.cpp` | messages and the cached pruned list |
| `AgentLoop` | `agent.cpp`, `session.cpp`, `compactor.cpp` | extends `ConversationHistory`; its database is the log of `DurableLog` |
| `Delegation` | `manager.cpp`, `sub_agent.cpp`, `sub_agent_tools.cpp`, `sync_wait` | who waits for whom; its pool is the FIFO of `ThreadPool` |
| `PolicyEngine` | `policy_engine.cpp` | approvals, asked, granted and spent |
| `SafeChange` | `patch_service.cpp`, `checkpoint_service.cpp`, `change_store.cpp`, the command kernel | extends `PolicyEngine`; one action per file operation |
| `EventLoop` | `event_loop.cpp` | one socket's view of `run_once` |
| `WsHandler` | `handler.cpp`, `tcp_stream.cpp`, `server.cpp` | extends `EventLoop`: reader, writer, other threads and the peer |
| `HttpClient` | `http.hpp`, `connection_pool.cpp`, `async_connect`, `close_after` | requests to one host over a pool, and a server that may fail |
| `ProviderClient` | `provider_client.*`, `retry.hpp`, `cooldown_tracker.cpp` | extends `HttpClient`: calls that try models and attempts |
| `*Proofs` | - | TLAPS proofs about the module they are named after and those it extends: `ThreadPool`, `PlanSession`, `SessionPool`, `HistoryDB`, `SafeChange`; `WorkflowProofs` about `WorkflowDag` and `WorkflowEngine`, `AgentProofs` about `AgentLoop` and `Delegation`, `NetworkProofs` about `WsHandler` and `ProviderClient` |
| `MC*` | - | values for TLC |

Names follow the code. Operators whose comment starts with "Mutant" are wrong
versions of the definition that follows them, named after it with a suffix; they
are used to show that a property can fail. Variables marked "history" in their
declaration only record what happened.

### ThreadPool
`submit` pushes under `queue_mutex_` and calls `notify_one` after the unlock, so the
notification is a step of its own (`signals`, `NotifyOne`); a notification finds a
blocked worker or is lost. `submit_batch` pushes until the queue is full: the element
that does not fit throws, the earlier ones stay and `notify_all` is skipped.
`worker_thread` is `WorkerPark` (predicate false, still holding the mutex, then
asleep), `WorkerTake`, `WorkerCount` (outside the mutex), `WorkerRun`,
`WorkerUncount`, `WorkerSignal`, `WorkerExit`. `wait` and `shutdown` are clients.

### WorkflowDag
`add_dependency(t, d)` is checked by `can_reach`, whose set of visited tasks is the
least closed set (`Visited`). It never compares its start with its target, so a task
can depend on itself; `NoLongCycle` states what does hold. `SearchesSound` states that
`has_cycle` is exact, the one-task cycle included, and that `topological_sort` yields a
topological order which is complete exactly on acyclic graphs.

### WorkflowScheduler and WorkflowEngine
`run()` is split where another thread can be seen: the reset of the flags
(`RunStart`), the stop test (`LoopTop`), the second reading of the flags for the
status (`Stop`), the ready set (`Dispatch`, `Blocked`), the attempts of the batch in
parallel (`Attempt`), the results one by one (`Record`, `BatchDone`), `Finish`.
`execute()` of a task is an arbitrary success or failure; an exception out of the
batch (a full queue) is `DispatchThrow`. The engine's steps are its critical
sections: `CopyWorkflow`, `RegisterExecution`, `StoreFuture`, `EmitCompleted`,
`Publish`, and the controls.

### PlanSession
A handler runs alone on the agent's loop until it awaits the model. `asked` holds
the questions under way with what the handler remembers (kind, request id, option);
`Answer`, `Unusable` (three answers that do not parse) and `Throw` resume it.
Everything a handler does without an await but with two saves is two steps, so that
a crash (`Restart`) can fall between them (`rest` says what is left). A save of the plan
(`Save`) or of the TODO list (`persist_todo_state`) may find the database busy: it is given
up at once and nobody looks at the result, so memory and database part. `excused` (history)
remembers the plans this happened to, and those whose list the agent threw away with
`update_todo` (`clear_todo_state`). Item lists are
"none", "open" or "settled". Messages refused by a guard only answer an error and are
not steps; a message carries the revision the client sees, which is the current one.

### SessionPool
`get_or_create` is `Reuse`, `ErasePending`, `Missing`, `Evict` (one entry of the
scan), `RefuseChat`, `Make`; `remove` is `RemoveActive`, or `RemoveIdle` and
`RemoveErase`, because it releases `run_mutex` before it erases; `cancel` is
`cancel` and `CancelRun`. The handler is posted (`PostHandler`) and starts later
(`StartRun`, `RejectChat`), and its guard is destroyed in `EndRun`. The other messages
use the same `get_or_create` and leave `active_run` alone; to the pool they look
like a chat message whose handler has not started yet, and are not separate actions.

### DurableLog and HistoryDB
Every session entry has its own `HistoryDB` object on one file; a REST handler opens
a short-lived one (`"api"`). The pool may give a session a second entry while a handler
still holds the first (section 4, Sessions), and then a second object: a `Twin`, opened
while the session's own object lives. Arrays are indexed by object, rows by session
(`SessionOf`), and `shared` (history) remembers the sessions this happened to. `append` numbers a message and queues it; the flush thread
swaps the queue out, inserts the rows in one transaction, commits and counts them down
(`SwapBatch`, `Insert`, `Commit`, `CountDown`, or `PrepareFails`). SQLite's write lock is
`writer`; no busy timeout is set, so a statement that finds it taken fails at once: an
insert is dropped, a delete goes on or stops, as its caller does (`must`). The calls
that write are sequences of statements (`DeleteStmts`, `save_session_state`, ...), each
run by `RunStmt`, so that other objects come between them. The sessions a delete by time
goes through come in any order, as its SELECT asks for none. `Open` reads the next number
back from the file, `Close` drains, `Crash` loses everything in memory.

`Log == INSTANCE DurableLog WITH log, pend, shared, appended` maps the rows `load_session`
returns, ordered by number (`OrderBySeq`: the k-th row is the one with k - 1 before it), to
the log and the queued rows to what is pending; a shared session is mapped to empty ones,
for two objects number their messages independently and nothing is promised of its order. An erase leaves every log `Thinned`: some
of its elements taken out, the others in their order. Every
step of `HistoryDB` is then a step of `DurableLog` or a stutter: a message is never
stored before an earlier one of its session, and never under a number that would put it
into the middle of what is already there, also after a crash and beside the objects of
other sessions.

### ConversationHistory and AgentLoop
A message is its role, the tool calls it makes or answers, and whether it has text.
`PruneOne` is what the pruner keeps of one message: all of it, a shortened form, an
assistant message without its calls, or nothing. `pruned_messages()` takes the frozen front from its cache and
prunes only the rest (`freeze_end`, `incremental`). `AgentLoop` is
`run_session_async`: `StartRun`, `Request`, the provider's answer (`RespondText`,
`RespondTools`, `RespondError`, `RespondOverflow`), `ToolStep` or `ToolsCancelled` (a
cancelled step adds nothing to the history), and `RecoverLevel` for each level of
`force_compact`, whose last two levels lower `hard_prune_after` to 0. Rows go to the
database in the code's order; `Restart` keeps a prefix of those not known to be stored
and rebuilds the messages with `restore_from_db`. Half a step that a restart found in the
file stays in the rows, so `torn` is not reset by the next restart. The runs are not the
only writer: `handle_ws_plan_start` hands over the prompt of a plan as a user row and adds no
message; `planned` (history) holds the rows this was done for since the session was opened. Token counts are a choice: an answer
may be an overflow at any time, and a compaction may or may not be short enough.

### Delegation
Three kinds of thread wait for each other: the io loop's (in `execute_tool`, with a
timeout), the pool's workers (in `sync_wait`), and the workflow loop's only one (in
`wait_for` for the tool calls of sub-agents, in `get` for the parts of a parallel or
speculative delegation). `worker`, `io`, `loopAt` say what each waits for. A tool call
that times out stays in the queue or on its worker. `Deadline` and `Watchdog` are the
watchdog thread, `cancel` is `cancel` and `cancel_all`.

### PolicyEngine and SafeChange
A call is known by its fingerprint; `Allowed` finds and erases a one-time approval under
the mutex, `Asked` queues a request, `approve` and `deny_pending` are the user's answers.
`SafeChange` runs each command through authorize, checkpoint, execute and audit. Reading
(`ReadApply`, `ReadRevert`, `ReadRestore`), the check before each file of a restore
(`RestoreCheck`), `WriteTmp`, `Rename`, `RemoveFile` and the saves of the records are steps of
their own; between them another command, an editor (`Edit`), a failing write
(`WriteFails`) or a `Crash` may come. Not every failure is seen: what a stream still holds is
flushed when it is closed, and nobody asks whether that worked (`Flushed`). On a full disk a
checkpoint (`checkpoint_service.cpp:221`), a restored file (`:68`), a change record and the
temporary file of a patch (`patch_service.cpp:56-67`) may be cut short (`CutShort`, `torn`) and
renamed into place. A checkpoint that was cut short loads as one without files (`Loaded`); a
change record that was is refused. The content of a file is the set of edits it
carries, so that a patch can apply or conflict. Change ids come from the clock, which
need not advance between two applies.

### EventLoop and WsHandler
`run_once` drains the inbound queue (registering waits, running tasks) until it stays
empty, polls and resumes. The poller is a constant of the build: epoll keeps one
registration per descriptor, kqueue one per direction (`Replaces`). The reader
(`Greet`, `Receive*`, `ReadWaits`, `ReadEnds`) and the writer (`FlushPick`, `FlushSend`,
`FlushExit`) are coroutines of the same thread that give it up only when the socket
would block. A frame is two pieces, header and payload, with a possible wait before
each. The peer sends, reads, closes or resets whenever it likes.

### HttpClient and ProviderClient
A request is a coroutine whose control state `http[r].at` says what it waits for. An
answer is a sequence of units; a read takes any number of those that have arrived, and
`Parse` is what `read_response`, the body readers, the handler and the drain make of one
more unit without waiting. `request_once` looks at the size of the pool, `AcquirePooled`
and `AcquireNew` take a connection or make one, `Finish` gives it back or drops it, and
`Fail` is an exception: `SendsAgain` says when `request_fresh` follows. The server may at
any moment close, reset or fall silent with any part of an answer unsent (`ServerFails`). The
response time-out closes the connection and resumes the coroutine (`ResponseTimeout`), or
closes it and resumes nobody (`TimeoutMissed`): a wait that is still in the loop's inbound
queue is dropped when the descriptor is found closed (`event_loop.cpp:391-394`, `:691-698`),
and the stream of a pooled connection without TLS waits on the loop it was made on
(`tcp_stream.cpp:33`), not on the one the time-out was armed on (`http.hpp:315`).
`ProviderClient` puts the calls on top: `chat` fixes the candidates, `Attempt`, `Retry`,
`SleepEnds` and `Failover` are `with_http_retry_async` inside `with_failover`, `Answered`
clears the model's cooldown; a stream makes one request and no second try of its own.

## 3. Runs, bounds, fairness

| Run | Question | Bounds |
|---|---|---|
| `pool_safety` | FIFO, once, what `wait` and `shutdown` guarantee | 2 workers, 3 tasks, queue of 2: the queue fills, a batch overflows, two workers race for one task |
| `pool_liveness` | every accepted task is run | clients only submit and wait; one spurious wake-up |
| `dag_algorithms` | cycle test, sort and verdict | every graph of 4 tasks the calls can build: chains, diamonds, self-loops |
| `engine` | order, status, retries, cancel, registry, termination | 1 execution in each of the three ways to start; every sub-graph of a diamond and a self-loop, 3 error strategies, 1 retry, 1 exception |
| `plan` | final plan, execution, TODO list, drafting ends | 2 plans with 1 option, 3 questions, revision up to 5, 1 exception, 1 busy save, 1 crash |
| `session_pool` | LRU, flags, cancellation, lock | 3 sessions in a pool of 2, 4 messages, 1 deletion, 1 abort, 1 look-up |
| `history_db` | durable log, flush, listing, every message settles | 2 sessions, one with a second object at will, and a REST object; 3 messages, 2 openings, 1 event (a flush, a crash, a failed prepare or a writing call) |
| `agent_loop` | requests well formed, pruning exact, database and memory agree, runs end | 2 runs of up to 2 steps, 2 tool calls of 2 ids, 4 recovery levels, 1 compaction, 1 plan, 1 restart; `protect_recent` scaled from 3 to 1 with the levels |
| `delegation` | statuses, cancellation, callers return, sub-agents end | 2 workers, queue of 2, 2 calls of any tool, 2 parts, 1 tool call of a sub-agent, 1 deadline or cancellation, 1 status kept |
| `safe_change` | recoverable, edits kept, success means done, approval once | 3 commands on 2 threads, 2 files, 2 diffs (one file in both), 1 question, 1 event (edit, fault, write cut short or crash) |
| `connection` | frames whole, written, handled; the loop polls | epoll and kqueue, 2 frames of seven kinds, 2 messages per chat, queue limits 2 and 3 |
| `llm_call` | answers not mixed up, what callers see is true, calls end | 2 calls, streaming or plain, at once or in turn; a pool of 1 TLS connection, 2 models, 2 attempts, answers of 2 pieces in each framing, 1 failure of the server or cancellation, failing connects at will |

The bounds are the smallest in which the interesting cases happen: two plans let an
answer of the first reach the second; three questions let two be under way while a
third is asked; three sessions and a pool of two let a scan pass an active entry and
evict the next; two objects on one file are what makes a statement BUSY, and two of one session what makes
numbers collide; two runs of two
steps let a message pass from protected to soft to hard; two workers are
enough for all to wait for sub-agents; two commands share a file and a third uses what
they left; two calls share a connection and one attempt of each model can fail for
good; two frames and a full send buffer let a ping arrive while a message is half
written. Symmetry is used only in runs without liveness. Deadlock checking is off:
every instance stops when its bounds are used up, and the real components may be idle.

Fairness is weak and only of what the program itself runs:

* pool and engine: each worker, each call once made, `run()` and each attempt of a task;
* plan: loops resume handlers whose awaited call has ended, and a question ends because
  the client has timeouts;
* session pool: the holder of `mutex_`, posted handlers, an abort that waits for
  `run_mutex`; nothing is assumed of when a run ends;
* history: the flush threads and the statements of a call that was made, for a flush thread
  may wait for its lock; a BUSY statement is retried by nobody;
* agent loop: the run itself (a request ends because the client has timeouts);
* calls of models: some loop goes on with some call that can go on; nothing is assumed of
  servers. `CallsEnd` is what the assumption "a request ends" of the plan and of the agent
  loop rests on, but for a server that is silent in the TLS handshake and a time-out that
  wakes nobody;
* delegation: workers, the workflow loop, the watchdog, and `wait_for` returning;
* connection: the loop's thread only. That the peer reads is a premise of the
  properties (`[]<>room`), not fairness.

Nothing is assumed of clients, of `pause`/`resume`, of editors or of users' answers.
Exceptions are named in the property where the code leaves a gap: `PlanSettles`
excludes plans whose handler died (`orphaned`), `ExecutingHasTodos` plans with a save that
failed and lists the agent threw away (`excused`), `ExecutionsEnd` executions whose starter
let the exception through, `RowsListed` sessions a delete may have left
(`unlistable`), `LogSpec` sessions that had two objects at once (`shared`), `RestoreFaithful` the
prompts of plans started since the session was opened (`planned`), `RequestsPaired` and `PruneExact` the levels that prune inside the
protected zone, `Recoverable` and `Delivers` a change id used twice (`Confused`) and files
somebody else wrote meanwhile, `Recoverable` a command whose checkpoints were all cut short
(`Unkept`), `Delivers` files cut short as they were closed (`short`) and the restore of a
checkpoint that was cut short (`torn`), `EditsKept` the window between look and write,
`FramesHandled` the deaf reader (`Deaf`), `LoopPolls` a dead connection with a non-empty
queue, `CallsEnd` a silent handshake and a coroutine its time-out did not wake (`"lost"`), `CallsHonest` an answer that starts over after a
failure on a connection that may have been pooled.

## 4. Disagreements

Between the code and what its documents, comments or names say. They were met while
modelling, are reproduced by TLC where stated, and are either excepted by name in a
property or listed as hazards. `FinalOfThisDraft`, `ExecutingStays` and `SavedAsHeld`
(`PlanSession`), `StrictlyOrdered` (`HistoryDB`), `FailedCheckpointStops` and `TornNotRestored`
(`SafeChange`) are what the repository says and the code does not do. They are kept beside
the properties that hold; no run checks them, and TLC refutes each under the `Spec` of its
module when it is added to the module's configuration.

* **Delegations that hang**: `execute_parallel` and
  `execute_speculative` block the workflow loop's only thread in `future.get()`; the parts
  need that thread. The caller is freed by the tool timeout, the loop and the workers
  are not: TLC refutes, under `FairSpec` of `Delegation`, that a worker that has taken
  `delegate_tasks` ever leaves it. `tool/sub_agent_tools.cpp:116` promises that all
  results are collected.
* **Shutdown may hang**: `ThreadPool::shutdown()` stores `stop_` and notifies without the
  mutex; a worker between its predicate and its wait misses both, and `join` never
  returns (TLC refutes `stop_ ~> joined` under `FairSpec`). `wait()` may return while a
  worker holds a popped task; `WaitDrains` states what does hold.
* **Workflow**: `pause()` makes `run()` return, the engine forgets the scheduler, and
  `resume()` cannot find the execution that `get_state` calls PAUSED. `run()` erases a
  `cancel()` that came after registration. `execute` and `execute_async` leave the
  scheduler registered when `run()` throws. `add_dependency(t, t)` is accepted. Not
  modelled: the retry delay `delay_ms *= (1 << attempt)` overflows 32 bits
  (`executor.cpp:146`), and `metrics_` is one collector reset by every start
  (`workflow_engine.cpp:318`).
* **Plan**: an answer that comes after `plan_cancel` puts the plan back in review; request
  ids and revisions restart with every plan; a plan confirmed while a chat runs is
  executing with nobody executing it (`session_message_handlers.cpp:547`). `plan_update_items`
  changes the items and the revision but not the request id, so a final plan that was asked
  for before is taken after it (TLC refutes `FinalOfThisDraft`; `plan.cpp:333` calls such an
  answer stale). The answer to `plan_start` is applied without a look at the plan: one that was
  edited, finalized and confirmed in the meantime goes from executing back to `option_review`
  (`ExecutingStays` is refuted, against `docs/plan_mode.md:94`). A save that finds the database busy is lost without a word
  (`SavedAsHeld` is refuted), also that of the TODO list before the plan is saved as executing. The
  prompt of a plan is written to the history as a user row (`session_message_handlers.cpp:146`)
  and to no message: the model sees it only after a restart (`RestoreFaithful`).
* **Sessions**: an entry is idle until its handler starts, so it can be evicted or
  removed in between; the next message gets a second entry and two agents work on one
  session, each with its own `HistoryDB`: both number on from what the file held, and
  `load_session` returns a later message before an earlier one (TLC refutes
  `StrictlyOrdered`, the comment at `history_db.cpp:31`). `pool.cpp:129` may destroy an entry whose mutex the guard still holds.
* **History**: `flush()` returns although a row was dropped because another object held
  the write lock (`FlushSettles` says that nothing is pending, not that it is on disk); it may also
  sleep through the last notification, which is sent without `flush_mutex`. A session is deleted by several statements without a transaction.
* **Pruning**: with `hard_prune_after` 0 (`session.cpp:165`) pruning enters the protected
  zone, the frozen front is cut between a tool call and its result
  (`conversation_history.cpp:58`), and a request goes out with an unanswered `tool_use`.
  The summary call of a compaction made on the loop's own thread throws in `sync_wait`
  (`session.cpp:57`); a truncated text is used instead.
* **Files**: `restore` deletes files newer than the checkpoint without looking at them
  (`docs/tools-reference.md:340`). Errors when a checkpoint or a restored file is
  written are not looked at, nor those when a change record or the temporary file of a patch is closed:
  on a full disk a command goes on without the checkpoint that was to protect it
  (`FailedCheckpointStops` is refuted, against `docs/runtime_execution_model.md:36`), a cut-off file is renamed
  over the old one with success reported, and the restore of a cut-off checkpoint changes
  nothing and reports success (`TornNotRestored` is refuted, against `docs/tools-reference.md:337`). Change ids are milliseconds and two applies may share one; the temporary file's name
  depends on the path alone. Not modelled: `join_lines` drops a trailing newline, and a
  diff with two sections for one path is accepted, though the second is computed from the
  file on disk and replaces what the first one wrote (`patch_service.cpp:370`).
* **Connection**: with epoll a wait for writing replaces the reader's registration
  (`event_loop.cpp:392`), and the reader is never resumed; kqueue does not have this. A
  connection that died with something queued posts `flush_writes` for ever inside one
  phase of `run_once` (`handler.cpp:192`): the server's loop never polls again. Closing a
  socket wakes nobody, though `tcp_stream.hpp:46` says it wakes waiting I/O: a waiting
  coroutine is never resumed. An empty ping is not answered and erases a pending pong.
  An exception out of `on_ws_message` (the session pool is full) ends the connection.
  Not modelled: `EventLoop::drain` runs `run_once` beside the loop's own thread; a
  registration may meet a descriptor number that was closed and given out again.
* **Calls of models**: `drain_chunked_body` starts with an empty buffer, so what
  `read_chunked_body` had already read is lost to it. The OpenAI parser stops at
  `finish_reason`, before the usage piece and the last chunk; if those came in the same
  read, the drain waits for `response_timeout` and the finished stream throws, though the
  comment says the drain makes the connection usable again. `request_once` catches every
  exception but the response time-out and sends again: pieces may be delivered twice, and
  a request whose handler threw `OperationCancelled` is sent once more. An end of file
  inside a body is returned as a whole answer. No time-out is armed for the TLS handshake, and the
  response time-out may wake nobody (section 2), so that a call can wait for ever.
  `ProviderError` is thrown by nothing: 429 and 5xx, once the attempts are used up, come back as a
  result, clear the cooldown and never fail over, against `docs/configuration.md:154` and
  `:169`; streams, the main path, neither retry nor fail over; the primary model's own
  cooldown is never looked at. Not modelled: a response time-out closes the descriptor in
  the loop and the socket's owner closes it again; `set_cancel_socket` keeps one descriptor
  per loop; an exception with a retry delay of 0 falls through to a result with status 0
  (`retry.hpp:205`); `1 << (failure_count - 1)` in `compute_cooldown` overflows from 30
  failures in a row.
* **MCP client** (read, not modelled): on POSIX requests are written to a stream that was
  opened for reading, and the HTTP transport is never set, so nothing is ever answered;
  answers would not be matched to requests by id.

## 5. Proofs

Checked by TLAPS for every value of the constants that meets the named assumptions of the
modules (`PoolAssumption`, `SchedulerAssumption`, `EngineAssumption`, `PlanAssumption`,
`HistoryAssumption`, `DelegationAssumption`, `ChangeAssumption`, `PruneAssumption`,
`LoopAssumption`, `WsAssumption`, `HttpAssumption`, `ProviderAssumption`; `WorkflowDag` needs
none).
The assumptions say that bounds are numbers, that sets the program holds are finite, that
constants are of the kinds the module knows, that names do not clash, and that
`force_compact` has a level (`LoopAssumption`; the code has four). The only one about inputs
is that a diff names each path once (`ChangeAssumption`). The bounds on
messages, commands and events are arbitrary numbers in the proofs, so they bound nothing.

Every module has the same shape: an inductive invariant `IInv` made of named parts, one
lemma per action (or per group of actions that change the same part), `Invariance`, and the
properties as corollaries. What each invariant adds to its properties:

* `ThreadPoolProofs`: `TypeCorrect`, `ActiveExact`, `FifoHolds`, `OnceHolds`, `WaitHolds`,
  `DrainHolds`. `IInv` adds: no task is accepted twice
  (`Distinct(accepted)`, so that the head of the queue is new to the taken ones), a
  worker holds a task only in two control states (`Holders`, so that an exited worker
  holds none), a worker leaves only after `stop_` on an empty queue (`ExitDrained`), and
  what `wait` waits for was accepted and has left the queue on return (`Waited`).
  `ActiveCounted` is needed for the type of the count: the decrement is safe because the
  worker is one of those counted.
* `WorkflowProofs`, the graph: `OnlySelfLoops` (`NoLongCycle` is invariant): a new cycle would
  have to use the new edge, so its other end was reachable, which `can_reach` refuses. A
  cycle is a set in which every task has a successor, so no induction is needed.
  `SearchesAreSound`: `has_cycle` and `topological_sort` are right on every graph and in every
  order in which the hash tables may be walked. For the depth-first search, `FramesOK` and
  `SearchOK` say that the stack is a path, that the tasks the search has left are closed
  under edges, and that no set of them is a cycle: an edge back to the stack ends the search,
  so that a task is left only when all its successors were (`CycleInv`). For the sort, `SortOK` relates `in_degree` to the dependencies
  that are not in the result yet; tasks that are left over when the queue is empty each
  depend on another of them, which is a cycle (`DependentsCycle`), and an order that holds all
  tasks excludes one (`OrderNoCycle`).
* `WorkflowProofs`, the engine: `DependenciesFirst`, `HonestStatus`, `RegistryAgrees` and the
  action property `PublishedOnce` (a final state stays). `Graph`, `Tasks`, `Result` and
  `Registry` say what each point of `run()` knows: the graph was validated, a task whose
  thread is out has no result yet, past the head of the loop a task is missing. The lemma
  `BlockedByFailure` is why the `return` in the middle of the loop may say FAILED: in a
  validated graph, an incomplete set of tasks with nothing ready has a failed one, for
  otherwise the missing tasks would be a cycle.
* `PlanSessionProofs`: `TypeCorrect`, `FinalHolds`, `ExecutesHolds`, `TodosHold`. One lemma
  per `PlanManager` method says that it returns a good draft (typed, its final plan
  present exactly in final review and stamped with the current revision, executable only
  then) whatever draft it is applied to: no change of a draft, however late, leaves an older
  final plan in place. That the final plan was made from that draft is not claimed, for it is
  false (`FinalOfThisDraft`). `Saved` says how the copies stand to each other although saves may
  fail: the saved plan is the plan in memory or an excused one, and an executing plan, in
  memory or saved, is excused or has its list in both places.
* `SessionPoolProofs`: `LruExact`, `OneRunPerEntry`, `NoSharedEntry`. `Holder` says what the
  thread inside `mutex_` has seen and still holds between its steps (the key it makes an
  entry for is not pooled, the one it removes is), `Counted` that entries are
  never numbered twice, `Owned` that an entry stays under its key. Lemmas about `RemoveAt` and
  `Append` on sequences without repetitions carry `LruMatches`.
* `HistoryDBProofs`: `FlushComplete`, `ListedWithRows`, `NumbersInOrder`, `ImplementsLog`.
  `Counted` is the accounting behind `pending_count` (queue plus batch under way), from which
  `flush()` seeing 0 means that nothing is on its way. `Locking` and `Emptied` are what
  `rw_mutex` gives a delete: no commit of the object's own flush thread falls between its
  first statement and its last.
  The refinement rests on `OInv`, said of the sessions that are not `shared`: the numbers such a
  session has on its way rise in the order of the appends and lie above all that is stored;
  such a session has no live twin (`Alone`); an object's counter is at least the highest
  stored number of its session; only the holder of the write lock has inserted. From these,
  `MoreRows` (rows above all others come behind them in `ORDER BY seq`) makes a commit a
  `Store`, `FewerRows` makes a delete an `Erase`, and a BUSY insert or a failed prepare gives up
  a prefix, a `Drop`: an insert can only fail while none of its batch has succeeded.
  `NumbersInOrder` states `OInv` by itself.
* `AgentProofs`, the loop: `RequestsStayPaired`, `PruningExact`, `RestoresFaithfully`. A list of
  messages is taken apart into units, a message with the results right behind it, and
  `ByUnits` is the induction over them: every message of a unit has the depth of its first
  one (`UnitDepth`), so pruning keeps a unit or strips it as a whole (`PairedUnit`, `PairedPrune`);
  compaction and a changed system prompt drop whole units (`CompactKeeps`, `PairedWithout`).
  The incremental path is exact (`HistoryInv`) because the cache was made from a front of the
  list that is still there, every assistant message in the frozen front was beyond the
  threshold and is deeper now, and a message that was stripped stays stripped. The database
  agrees because `restore_from_db` distributes over rows that were handed over step by step
  (`RestoreConcat`: the calls that follow an assistant row are those of its own step) and what
  is visible distributes over messages (`VisibleConcat`). The rows of plans' prompts are left out
  of the rows that are restored (`RestoredConcat`, over any choice of rows), which is why a
  plan may be started between any two steps. `LoopInv` adds: calls that plan mode
  blocks are new, so no message shows them yet (`Kept`); calls in the rows were not
  blocked and the rows up to each boundary restore a paired list (`RowsInv`), which is what a
  restart relies on; the list is paired unless half a step was found (`Whole`); a request
  that waits has a clean cache (`PlaceInv`).
* `AgentProofs`, the sub-agents: `RegistryExact`. The registry follows the sub-agents because the
  one thread of the workflow loop is blocked while a sub-agent uses a tool (`Blocked`), and a
  cancellation can be told from a timeout because a token is only cancelled when somebody
  asked or time is up (`Excused`).
* `NetworkProofs`, the connection: `FramesStayWhole` and `FlushIsAlone`. `OneFlush` says that there
  is at most one flush, as a posted task or as the running coroutine, and only while
  `flushing_` is set; `Greeting` that nobody queues anything before the reader is through with
  the greeting. So one coroutine at a time has half a frame on the wire (`WireOK`), and a
  socket that broke stays broken. `Numbered` is the accounting behind the order: in each queue
  the messages continue the numbers of those sent and of the one in hand.
* `NetworkProofs`, calls of models: `AnswersAreOwn` and `CallsAreHonest`. `HttpInv` says that a
  connection is in the pool once or with one request, that an idle one has nothing unread,
  and that what is unread of a connection in use are the units of one answer to that request
  that follow those already parsed (`Segment`, `Parsed`); it is given back only after the last.
  `Given` and `Fed`: the pieces a stream has delivered are those of a first try, in order,
  followed by those of the fresh one. `CallInv` says that the models that failed are the
  candidates before the current one, of which the primary model always is one.
* `SafeChangeProofs`: `ApprovalsSpentOnce` and three action properties, `NoEditLost`,
  `AlwaysRecoverable`, `SuccessDelivers`. For approvals `Numbered` and `Unspent` compare
  cardinalities: an approval in `approved_once_` is one that is not yet among the grants.
  For the files, each thread's command has an invariant of its own (`ThreadInv`: where it
  is, the record it works from, the writes that are left, what it expects to find, what is
  saved of it, what is done), and the work is to show that steps of the other threads,
  edits and crashes keep it (`Aside`, `Grows`): checkpoints and records only grow, and
  whoever writes a path is remembered in `moved` and `stale`. What was cut short unnoticed is
  excepted where it matters and carried along everywhere else: `AlwaysRecoverable` needs one
  whole checkpoint of the command, `SuccessDelivers` a whole record to restore from and files
  that were closed whole.

Every invariant that a run checks is proved. Only model-checked: liveness (fairness and ENABLED
are out of the prover's reach) and that the mutants break the properties. What a fold computes
(`FlattenSeq`, and with it `prune`, `restore_from_db`, `compact`, the visible messages) is
proved from its definition by minimal counterexample: the library's theorem on well-founded
relations (`WFMin`) gives the least number for which a statement fails without a parameter
that is an operator (`UpTo`, `Loop`, `Greatest`), and the function inside `FlattenSeq` is shown to
exist and to be unique (`FlatExists`, `FlatUnique`).

## 6. Abstractions that matter

* Tasks of the pool and of a workflow, tool calls and provider requests are values; what
  they do is one step with an arbitrary outcome.
* Delays, back-off times, deadlines and idle time-outs are not timed: they may pass at any
  moment.
* Statistics, metrics, events other than `workflow_completed`, logging and texts are left
  out; so are functions that nothing calls (`cleanup_idle`, `SessionLockManager`,
  `update_latest`, `queue_send_front`, `send_binary`, `execute_tools_parallel`, and the
  `PlanManager` methods no handler calls).
* A plan's revision and request id, and sequence numbers of messages, count without the
  `int` width: a session would need 2^31 of them.
* Saving and loading a draft is the identity on the modelled fields; `restore` only
  changes a draft in review with stage idle, which no saved draft is.
* Token estimates are a choice, messages of a connection have unit size, a frame is two
  pieces, file contents are sets of edits, equal hashes mean equal contents.
* A read of an HTTP connection ends between two units (the head, a chunk, the last
  chunk); a drain that starts in the middle of an event is taken to meet text that
  `parse_chunk_size` refuses, which drops the connection as an early end of file does.
* A crash loses what is in memory and nothing that was committed, renamed or saved. A
  file that is cut short has lost all its content; a crash does not cut files short.

## 7. Plan

Done: thread pool, workflow (graph, scheduler, engine), plan mode, session pool, history
database with its abstract log, agent loop with history and pruning, tool calls and
delegation, file changes with permissions, WebSocket connection on the event loop, calls
of models over HTTP.

Proved: every safety property of these, and that `HistoryDB` implements `DurableLog`.

Proofs next: the argument behind `CallsEnd` and `ExecutionsEnd` as a decreasing measure, stated
as action properties; that the log `AgentLoop` assumes is the one `HistoryDB` implements, by a
mapping of its rows to `DurableLog`.

Modules worth adding: the timers of the event loop with `close_after` on reused
descriptors; the bounded lock-free queue; the command line's session runner.

## 8. Not modelled, and why

Input and output around other programs (git, test loop, plugins, TLS, sockets, terminal),
text heuristics (code intelligence, prompts, markdown, memory files), containers, JSON,
configuration, HTTP routing and the wiring of services have no protocol a model checker
would help with, and they are most of the repository's lines. The audit log is appended
to and read back by nothing that decides. Human approval (`workflow/human_approval.hpp`)
is dead code: nothing registers an approval. The web front end and the proxy are separate
programs. The parts named under "Plan" are left for later because the modelled ones
decide whether work is lost, repeated, run twice or stuck.
