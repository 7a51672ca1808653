----------------------------- MODULE EventLoop -----------------------------
(***************************************************************************)
(* net/event_loop: run_once() on the loop's one thread, for the coroutines *)
(* of one socket. Phase 1 drains the inbound queue until it stays empty    *)
(* (registering waits, running tasks), phase 3 polls and resumes. Phases 2,*)
(* 4 and 5 (timers, close_after) concern no server connection.             *)
(*                                                                         *)
(* The inbound queue is always drained whole, its waits are registered and *)
(* its tasks put aside before one of them runs: the order between a wait   *)
(* and a task makes no difference, so each kind has a queue of its own.    *)
(*                                                                         *)
(* A poll returns after at most 100 ms, so a lost wake-up only delays it;  *)
(* the wake-up descriptor is left out.                                     *)
(***************************************************************************)
EXTENDS Naturals, Sequences, SequencesExt

VARIABLES
    poller,      \* the build: "epoll" or "kqueue"
    inbound_io,  \* the waits of the inbound queue, oldest first
    inbound_tasks, \* its tasks, oldest first
    phase,       \* of run_once: "inbound", "tasks", "poll", "resume"
    tasks,       \* pending_tasks of this drain
    to_resume,   \* coroutines whose wait has ended
    running,     \* who the thread executes: "loop" or a coroutine
    pending,     \* coroutines whose wait the loop holds
    registered,  \* what the kernel watches: waits, one-shot
    open         \* the socket is valid

loopVars == <<poller, inbound_io, inbound_tasks, phase, tasks, to_resume, running,
              pending, registered, open>>

Wait(who, event) == [who |-> who, event |-> event]

\* Mutant: one registration per descriptor, whatever the poller.
Replaces_Any(new, old) == TRUE

\* epoll has one registration per descriptor, and a second EPOLL_CTL_ADD
\* falls back to EPOLL_CTL_MOD; kqueue has one for reading, one for writing.
Replaces(new, old) == poller = "epoll" \/ new.event = old.event

\* Registering on a closed descriptor fails and the wait is dropped.
Register(waits) ==
    IF ~open THEN UNCHANGED <<registered, pending>>
    ELSE /\ registered' =
                {old \in registered :
                    \A i \in DOMAIN waits : ~Replaces(waits[i], old)}
                \cup
                {waits[i] : i \in {i \in DOMAIN waits :
                    \A j \in DOMAIN waits : j > i => ~Replaces(waits[j], waits[i])}}
         /\ pending' = pending \cup {waits[i].who : i \in DOMAIN waits}

\* Phase 1, one round of its loop; an empty queue ends the phase.
DrainInbound ==
    /\ phase = "inbound"
    /\ phase' = IF inbound_io = <<>> /\ inbound_tasks = <<>> THEN "poll" ELSE "tasks"
    /\ inbound_io' = <<>> /\ Register(inbound_io)
    /\ inbound_tasks' = <<>> /\ tasks' = inbound_tasks
    /\ UNCHANGED <<poller, to_resume, running, open>>

\* The tasks of the round have run: drain again.
TasksDone ==
    /\ phase = "tasks" /\ running = "loop" /\ tasks = <<>>
    /\ phase' = "inbound"
    /\ UNCHANGED <<poller, inbound_io, inbound_tasks, tasks, to_resume, running,
                   pending, registered, open>>

\* Phase 3: every ready wait is taken; nothing ready is the time-out.
Poll(ready) ==
    /\ phase = "poll"
    /\ LET who == {r.who : r \in ready} \cap pending
       IN  /\ registered' = registered \ ready
           /\ pending' = pending \ who
           /\ to_resume' \in SetToSeqs(who)
    /\ phase' = "resume"
    /\ UNCHANGED <<poller, inbound_io, inbound_tasks, tasks, running, open>>

\* continuation.resume() for the next coroutine, or the end of run_once.
Resume ==
    /\ phase = "resume" /\ running = "loop"
    /\ IF to_resume = <<>>
       THEN phase' = "inbound" /\ UNCHANGED <<to_resume, running>>
       ELSE /\ running' = Head(to_resume)
            /\ to_resume' = Tail(to_resume)
            /\ UNCHANGED phase
    /\ UNCHANGED <<poller, inbound_io, inbound_tasks, tasks, pending, registered, open>>

submit_task(what) == inbound_tasks' = Append(inbound_tasks, what)

\* The running coroutine awaits the socket: submit() and suspend.
Await(who, event) ==
    /\ inbound_io' = Append(inbound_io, Wait(who, event))
    /\ running' = "loop"
    /\ UNCHANGED <<poller, inbound_tasks, phase, tasks, to_resume, pending,
                   registered, open>>

\* TcpStream::close(): closing a descriptor ends its registrations, and
\* nobody takes the waits out of pending.
Close ==
    /\ open' = FALSE
    /\ registered' = {}
=============================================================================
