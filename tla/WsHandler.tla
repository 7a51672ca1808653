----------------------------- MODULE WsHandler -----------------------------
(***************************************************************************)
(* A WebSocket connection of the server: WsHandler's reader (read_loop,    *)
(* after the greeting of handle_websocket) and writer (flush_writes) are   *)
(* two coroutines of one event loop and one socket; other threads post     *)
(* messages to the loop; the peer sends frames, reads slowly, closes or    *)
(* resets. A step is a piece of a coroutine in which at most one thing of  *)
(* the socket is looked at.                                                *)
(*                                                                         *)
(* Messages are numbered as they are accepted and have unit size.          *)
(***************************************************************************)
EXTENDS EventLoop, FiniteSets

CONSTANTS
    Pollers,             \* the builds to check
    kMaxQueuedMessages,  \* limit of each queue
    kMaxQueuedBytes,     \* limit of both queues together
    Frames,              \* what the peer may send
    MaxFrames,           \* bound on frames of the peer
    MaxPosts             \* bound on messages a chat posts

ASSUME WsAssumption ==
    /\ Pollers \subseteq {"epoll", "kqueue"}
    /\ {kMaxQueuedMessages, kMaxQueuedBytes} \subseteq Nat \ {0}
    /\ Frames \subseteq {"request", "chat", "app_ping", "ping", "empty_ping", "close", "huge"}
    /\ MaxFrames \in Nat /\ MaxPosts \in Nat \ {0}

VARIABLES
    alive_, write_queue_, urgent_queue_, pending_pong_, flushing_,
    reader,    \* control state of read_loop
    flush,     \* control state of flush_writes, and the frame it writes
    accepted,  \* how many messages each queue has taken, and pongs sent
    wire,      \* the pieces the socket has taken
    peer,      \* "open", "closed" (it sends no more) or "reset"
    received,  \* frames that have arrived and were not read
    room,      \* the socket's send buffer takes another piece
    arrived, handled,
    posts      \* messages the chats on other threads have still to post

queueVars == <<alive_, write_queue_, urgent_queue_, pending_pong_, flushing_, accepted>>
peerVars == <<peer, received, room, arrived, handled, posts>>
vars == <<loopVars, queueVars, reader, flush, wire, peerVars>>

\* A frame is sent in two pieces: its header and its payload.
Frame(kind, n) == [kind |-> kind, n |-> n]
Piece(frame, part) == [kind |-> frame.kind, n |-> frame.n, part |-> part]
NotFlushing == [at |-> "none", frame |-> Frame("none", 0), next |-> "none"]

Queued == write_queue_ # <<>> \/ urgent_queue_ # <<>> \/ pending_pong_

\* The connection was upgraded; handle_websocket runs.
Init ==
    /\ poller \in Pollers /\ inbound_io = <<>> /\ inbound_tasks = <<>>
    /\ phase = "resume" /\ tasks = <<>>
    /\ to_resume = <<>> /\ running = "reader" /\ pending = {} /\ registered = {}
    /\ open = TRUE
    /\ alive_ = TRUE /\ write_queue_ = <<>> /\ urgent_queue_ = <<>>
    /\ pending_pong_ = FALSE /\ flushing_ = FALSE
    /\ accepted = [normal |-> 0, urgent |-> 0, pong |-> 0]
    /\ reader = "head" /\ flush = NotFlushing
    /\ wire = <<>>
    /\ peer = "open" /\ received = <<>> /\ room \in BOOLEAN
    /\ arrived = 0 /\ handled = 0 /\ posts = 0

-----------------------------------------------------------------------------
(* The peer, and other threads.                                            *)

PeerSends(f) ==
    /\ peer = "open" /\ arrived < MaxFrames
    /\ arrived' = arrived + 1
    /\ received' = Append(received, f)
    /\ UNCHANGED <<loopVars, queueVars, reader, flush, wire, peer, room, handled, posts>>

PeerReads ==
    /\ ~room /\ peer # "reset"
    /\ room' = TRUE
    /\ UNCHANGED <<loopVars, queueVars, reader, flush, wire, peer, received, arrived,
                   handled, posts>>

PeerCloses ==
    /\ peer = "open"
    /\ peer' = "closed"
    /\ UNCHANGED <<loopVars, queueVars, reader, flush, wire, received, room, arrived,
                   handled, posts>>

\* What had arrived is lost.
PeerResets ==
    /\ peer # "reset"
    /\ peer' = "reset" /\ received' = <<>>
    /\ UNCHANGED <<loopVars, queueVars, reader, flush, wire, room, arrived, handled, posts>>

\* ServerEventSink::send, queue_ws and send_terminal on another thread; a
\* message for a connection that is not alive is dropped.
Post ==
    /\ alive_ /\ posts > 0
    /\ posts' = posts - 1
    /\ submit_task("post")
    /\ UNCHANGED <<poller, inbound_io, phase, tasks, to_resume, running, pending, registered, open,
                   queueVars, reader, flush, wire, peer, received, room, arrived, handled>>

-----------------------------------------------------------------------------
(* Queueing, on the loop's thread.                                         *)

\* Start flush_writes unless it is under way.
StartFlush ==
    /\ flushing_' = TRUE
    /\ IF flushing_ THEN UNCHANGED inbound_tasks ELSE submit_task("flush")

OverLimit(queue) ==
    \/ Len(queue) >= kMaxQueuedMessages
    \/ Len(write_queue_) + Len(urgent_queue_) + 1 > kMaxQueuedBytes

\* A queue over its limit ends the connection and keeps what it holds.
Overflow ==
    /\ alive_' = FALSE /\ Close
    /\ UNCHANGED <<write_queue_, urgent_queue_, flushing_, accepted, inbound_tasks>>

queue_send ==
    \/ /\ ~alive_
       /\ UNCHANGED <<queueVars, inbound_tasks, open, registered>>
    \/ /\ alive_ /\ OverLimit(write_queue_) /\ Overflow /\ UNCHANGED pending_pong_
    \/ /\ alive_ /\ ~OverLimit(write_queue_)
       /\ accepted' = [accepted EXCEPT !.normal = @ + 1]
       /\ write_queue_' = Append(write_queue_, accepted'.normal)
       /\ StartFlush
       /\ UNCHANGED <<alive_, urgent_queue_, pending_pong_, open, registered>>

queue_send_urgent ==
    \/ /\ OverLimit(urgent_queue_) /\ Overflow /\ UNCHANGED pending_pong_
    \/ /\ ~OverLimit(urgent_queue_)
       /\ accepted' = [accepted EXCEPT !.urgent = @ + 1]
       /\ urgent_queue_' = Append(urgent_queue_, accepted'.urgent)
       /\ StartFlush
       /\ UNCHANGED <<alive_, write_queue_, pending_pong_, open, registered>>

\* The task of a post, or the start of a flush.
RunTask ==
    /\ phase = "tasks" /\ running = "loop" /\ tasks # <<>>
    /\ tasks' = Tail(tasks)
    /\ \/ /\ Head(tasks) = "post" /\ queue_send
          /\ UNCHANGED <<running, flush>>
       \/ /\ Head(tasks) = "flush"
          /\ running' = "flush"
          /\ flush' = [flush EXCEPT !.at = "top"]
          /\ UNCHANGED <<queueVars, inbound_tasks, open, registered>>
    /\ UNCHANGED <<poller, inbound_io, phase, to_resume, pending, reader, wire, peerVars>>

-----------------------------------------------------------------------------
(* write_frame: the header and the payload, each by write_all.             *)

Broken == ~open \/ peer = "reset"

\* The socket takes a piece; its buffer may be full after that.
Put(piece) ==
    /\ ~Broken /\ room
    /\ wire' = Append(wire, piece)
    /\ room' \in BOOLEAN

-----------------------------------------------------------------------------
(* handle_websocket's greeting, then read_loop.                            *)

\* One frame stands for the four that may be sent; an exception is logged
\* and the reader goes on.
Greet ==
    /\ running = "reader" /\ reader \in {"head", "body"}
    /\ \/ /\ Put(Piece(Frame("greeting", 1), reader))
          /\ reader' = IF reader = "head" THEN "body" ELSE "read"
          /\ UNCHANGED loopVars
       \/ /\ Broken
          /\ reader' = "read"
          /\ UNCHANGED <<loopVars, wire, room>>
       \/ /\ ~Broken /\ ~room
          /\ Await("reader", "write")
          /\ UNCHANGED <<reader, wire, room>>
    /\ UNCHANGED <<queueVars, flush, peer, received, arrived, handled, posts>>

\* Mutant: the reader writes the pong itself.
ReceivePing_Direct ==
    /\ running = "reader" /\ reader = "read" /\ alive_
    /\ received # <<>> /\ Head(received) \in {"ping", "empty_ping"}
    /\ received' = Tail(received) /\ handled' = handled + 1
    /\ accepted' = [accepted EXCEPT !.pong = @ + 1]
    /\ wire' = wire \o <<Piece(Frame("pong", accepted'.pong), "head"),
                         Piece(Frame("pong", accepted'.pong), "body")>>
    /\ UNCHANGED <<loopVars, alive_, write_queue_, urgent_queue_, pending_pong_, flushing_,
                   reader, flush, peer, room, arrived, posts>>

\* The pong is left to flush_writes; one without a payload is never sent,
\* and takes the place of one that has a payload.
ReceivePing ==
    /\ running = "reader" /\ reader = "read" /\ alive_
    /\ received # <<>> /\ Head(received) \in {"ping", "empty_ping"}
    /\ received' = Tail(received) /\ handled' = handled + 1
    /\ pending_pong_' = (Head(received) = "ping")
    /\ StartFlush
    /\ UNCHANGED <<poller, inbound_io, phase, tasks, to_resume, running, pending, registered,
                   open, alive_, write_queue_, urgent_queue_, accepted, reader, flush, wire, peer,
                   room, arrived, posts>>

\* on_ws_message: a request answered at once, a chat handed to another
\* thread, or the application's ping.
ReceiveMessage ==
    /\ running = "reader" /\ reader = "read" /\ alive_
    /\ received # <<>>
    /\ received' = Tail(received) /\ handled' = handled + 1
    /\ \/ Head(received) = "request" /\ queue_send /\ UNCHANGED posts
       \/ Head(received) = "app_ping" /\ queue_send_urgent /\ UNCHANGED posts
       \/ /\ Head(received) = "chat" /\ posts' = MaxPosts
          /\ UNCHANGED <<queueVars, inbound_tasks, open, registered>>
    /\ UNCHANGED <<poller, inbound_io, phase, tasks, to_resume, running, pending, reader,
                   flush, wire, peer, room, arrived>>

\* on_ws_message throws (the session pool is full): the connection ends.
ReceiveThrows ==
    /\ running = "reader" /\ reader = "read" /\ alive_
    /\ received # <<>> /\ Head(received) = "chat"
    /\ received' = Tail(received) /\ handled' = handled + 1
    /\ alive_' = FALSE /\ Close
    /\ reader' = "done" /\ running' = "loop"
    /\ UNCHANGED <<poller, inbound_io, inbound_tasks, phase, tasks, to_resume, pending, write_queue_,
                   urgent_queue_, pending_pong_, flushing_, accepted, flush, wire, peer,
                   room, arrived, posts>>

\* A close frame, or one over the size limit.
ReceiveClose ==
    /\ running = "reader" /\ reader = "read" /\ alive_
    /\ received # <<>> /\ Head(received) \in {"close", "huge"}
    /\ received' = Tail(received) /\ handled' = handled + 1
    /\ alive_' = FALSE
    /\ UNCHANGED <<loopVars, write_queue_, urgent_queue_, pending_pong_, flushing_, accepted,
                   reader, flush, wire, peer, room, arrived, posts>>

ReadWaits ==
    /\ running = "reader" /\ reader = "read" /\ alive_ /\ open
    /\ received = <<>> /\ peer = "open"
    /\ Await("reader", "read")
    /\ UNCHANGED <<queueVars, reader, flush, wire, peerVars>>

\* The loop is left: not alive, or read_frame threw.
ReadEnds ==
    /\ running = "reader" /\ reader = "read"
    /\ ~alive_ \/ ~open \/ (received = <<>> /\ peer # "open")
    /\ alive_' = FALSE /\ Close
    /\ reader' = "done" /\ running' = "loop"
    /\ UNCHANGED <<poller, inbound_io, inbound_tasks, phase, tasks, to_resume, pending, write_queue_,
                   urgent_queue_, pending_pong_, flushing_, accepted, flush, wire, peerVars>>

-----------------------------------------------------------------------------
(* flush_writes.                                                           *)

\* write_frame(frame), then go on at next; a dead connection writes nothing.
Write(frame, next) ==
    flush' = IF alive_ THEN [at |-> "head", frame |-> frame, next |-> next]
                       ELSE [flush EXCEPT !.at = next]

\* Pong first, then urgent messages, then one message of the write queue.
FlushPick ==
    /\ running = "flush"
    /\ \/ /\ flush.at = "top" /\ ~alive_
          /\ flush' = [flush EXCEPT !.at = "exit"]
          /\ UNCHANGED queueVars
       \/ /\ flush.at = "top" /\ alive_ /\ pending_pong_
          /\ pending_pong_' = FALSE
          /\ accepted' = [accepted EXCEPT !.pong = @ + 1]
          /\ Write(Frame("pong", accepted'.pong), "urgent")
          /\ UNCHANGED <<alive_, write_queue_, urgent_queue_, flushing_>>
       \/ /\ flush.at = "top" /\ alive_ /\ ~pending_pong_
          /\ flush' = [flush EXCEPT !.at = "urgent"]
          /\ UNCHANGED queueVars
       \/ /\ flush.at = "urgent" /\ alive_ /\ urgent_queue_ # <<>>
          /\ urgent_queue_' = Tail(urgent_queue_)
          /\ Write(Frame("urgent", Head(urgent_queue_)), "urgent")
          /\ UNCHANGED <<alive_, write_queue_, pending_pong_, flushing_, accepted>>
       \/ /\ flush.at = "urgent" /\ (~alive_ \/ urgent_queue_ = <<>>) /\ write_queue_ = <<>>
          /\ flush' = [flush EXCEPT !.at = "exit"]
          /\ UNCHANGED queueVars
       \/ /\ flush.at = "urgent" /\ (~alive_ \/ urgent_queue_ = <<>>) /\ write_queue_ # <<>>
          /\ write_queue_' = Tail(write_queue_)
          /\ Write(Frame("normal", Head(write_queue_)), "top")
          /\ UNCHANGED <<alive_, urgent_queue_, pending_pong_, flushing_, accepted>>
    /\ UNCHANGED <<loopVars, reader, wire, peerVars>>

\* A piece of the frame; what the socket refuses is awaited, and an error
\* ends the connection.
FlushSend ==
    /\ running = "flush" /\ flush.at \in {"head", "body"}
    /\ \/ /\ Put(Piece(flush.frame, flush.at))
          /\ flush' = [flush EXCEPT !.at = IF @ = "head" THEN "body" ELSE flush.next]
          /\ UNCHANGED <<loopVars, alive_>>
       \/ /\ Broken
          /\ alive_' = FALSE /\ Close
          /\ flush' = [flush EXCEPT !.at = "exit"]
          /\ UNCHANGED <<poller, inbound_io, inbound_tasks, phase, tasks, to_resume, running, pending, wire,
                         room>>
       \/ /\ ~Broken /\ ~room
          /\ Await("flush", "write")
          /\ UNCHANGED <<flush, alive_, wire, room>>
    /\ UNCHANGED <<write_queue_, urgent_queue_, pending_pong_, flushing_, accepted, reader,
                   peer, received, arrived, handled, posts>>

\* Mutant: flushing_ is reset and the queues are not looked at again.
Rearm_Never == FALSE

\* Mutant: the next flush is posted whatever is queued.
Rearm_Always == TRUE

\* After the reset of flushing_: is there something left to write?
Rearm == Queued

FlushExit ==
    /\ running = "flush" /\ flush.at = "exit"
    /\ flushing_' = Rearm
    /\ IF Rearm THEN submit_task("flush") ELSE UNCHANGED inbound_tasks
    /\ flush' = NotFlushing
    /\ running' = "loop"
    /\ UNCHANGED <<poller, inbound_io, phase, tasks, to_resume, pending, registered, open, alive_,
                   write_queue_, urgent_queue_, pending_pong_, accepted, reader, wire, peerVars>>

-----------------------------------------------------------------------------

\* A reset is reported to whoever is registered.
Ready(r) ==
    \/ peer = "reset"
    \/ r.event = "read" /\ (received # <<>> \/ peer = "closed")
    \/ r.event = "write" /\ room

\* The loop's own steps.
LoopStep ==
    /\ DrainInbound \/ TasksDone \/ Poll({r \in registered : Ready(r)}) \/ Resume
    /\ UNCHANGED <<queueVars, reader, flush, wire, peerVars>>

\* What the loop's one thread does.
Thread ==
    \/ LoopStep \/ RunTask
    \/ Greet \/ ReceivePing \/ ReceiveMessage \/ ReceiveThrows \/ ReceiveClose
    \/ ReadWaits \/ ReadEnds
    \/ FlushPick \/ FlushSend \/ FlushExit

Next ==
    \/ Thread
    \/ (\E f \in Frames : PeerSends(f)) \/ PeerReads \/ PeerCloses \/ PeerResets
    \/ Post

Spec == Init /\ [][Next]_vars

\* The thread keeps running; nothing is assumed of the peer.
FairSpec == Spec /\ WF_vars(Thread)

-----------------------------------------------------------------------------

\* The headers of the messages of a queue.
Heads(kind) == {i \in DOMAIN wire : wire[i].kind = kind /\ wire[i].part = "head"}

\* The pieces on the wire are whole frames, only the last may lack its
\* payload, and the frames of each queue are in the order they were queued,
\* none lost and none sent twice: two coroutines that share a socket never
\* write into each other's frame.
FramesWhole ==
    /\ \A i \in DOMAIN wire :
          wire[i].part = IF i % 2 = 1 THEN "head" ELSE "body"
    /\ \A i \in DOMAIN wire :
          i % 2 = 0 => wire[i].kind = wire[i - 1].kind /\ wire[i].n = wire[i - 1].n
    /\ \A kind \in {"normal", "urgent"} : \A i \in Heads(kind) :
          wire[i].n = Cardinality({j \in Heads(kind) : j <= i})

Sent(kind, n) == \E i \in DOMAIN wire : wire[i] = Piece(Frame(kind, n), "body")

\* While the peer keeps reading, what was queued is written, or the
\* connection ends: no message, urgent message or pong waits for a flush
\* that nobody starts.
Delivered ==
    []<>room =>
        /\ \A n \in 1 .. MaxFrames * MaxPosts :
              (accepted.normal >= n) ~> (Sent("normal", n) \/ ~alive_)
        /\ \A n \in 1 .. MaxFrames :
              (accepted.urgent >= n) ~> (Sent("urgent", n) \/ ~alive_)
        /\ pending_pong_ ~> (~pending_pong_ \/ ~alive_)

\* With epoll, a wait for writing has replaced the reader's registration:
\* the reader stays in pending and is never resumed.
Deaf ==
    /\ poller = "epoll" /\ "reader" \in pending
    /\ \A r \in registered : r.who # "reader"

\* While the peer keeps reading, a frame that arrived is handled, unless the
\* connection ends or (with epoll) a blocked write has made the reader deaf.
FramesHandled ==
    []<>room =>
        \A n \in 1 .. MaxFrames :
            (arrived >= n) ~> (handled >= n \/ ~alive_ \/ peer = "reset" \/ Deaf)

\* The thread gets back to polling for its other connections, unless this
\* one ended with something queued: then flush_writes posts itself for ever.
LoopPolls == []<>(phase = "poll") \/ <>[](~alive_ /\ Queued)
=============================================================================
