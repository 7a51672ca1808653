---------------------------- MODULE NetworkProofs ----------------------------
(***************************************************************************)
(* Proofs about the two ends of the network, WsHandler and ProviderClient  *)
(* over HttpClient, for any number of frames, messages, requests, pieces,  *)
(* connections and candidates, any poller and any limits.                  *)
(*                                                                         *)
(* FramesWhole speaks of the wire alone. What makes it inductive: a frame  *)
(* is begun only by whoever may write, the greeting or the one flush there *)
(* is (OneFlush, Greeting), the last piece on a wire that still works is   *)
(* the header of the frame that is under way (WireOK), and what waits in a *)
(* queue carries the numbers that follow those on the wire (Numbered).     *)
(*                                                                         *)
(* AnswersOwn and TokensOnce follow from what a coroutine knows (Requests):*)
(* it has parsed the first units of one answer to its own request, what is *)
(* unread on its connection are units that follow (Segment), and when it   *)
(* gives the connection back it has parsed the last one (Parsed). A        *)
(* connection is in the pool once or has one user (Connections). What a    *)
(* call has tried without success are the candidates before the current    *)
(* one (CallInv); that is FailoverExhausts when there is no other.         *)
(***************************************************************************)
EXTENDS WsHandler, ProviderClient, FiniteSetTheorems, WellFoundedInduction, TLAPS

-----------------------------------------------------------------------------
(* The WebSocket connection.                                               *)

Kind == {"greeting", "normal", "urgent", "pong"}
Queues == {"normal", "urgent"}
TaskKind == {"post", "flush"}
WirePiece == [kind : Kind, n : Nat, part : {"head", "body"}]
Queue(kind) == IF kind = "normal" THEN write_queue_ ELSE urgent_queue_

TypeOK ==
    /\ alive_ \in BOOLEAN /\ open \in BOOLEAN /\ pending_pong_ \in BOOLEAN
    /\ flushing_ \in BOOLEAN
    /\ write_queue_ \in Seq(Nat) /\ urgent_queue_ \in Seq(Nat)
    /\ inbound_tasks \in Seq(TaskKind) /\ tasks \in Seq(TaskKind)
    /\ accepted \in [normal : Nat, urgent : Nat, pong : Nat]
    /\ reader \in {"head", "body", "read", "done"}
    /\ flush \in [at : {"none", "top", "urgent", "head", "body", "exit"},
                  frame : [kind : Kind \cup {"none"}, n : Nat],
                  next : {"none", "top", "urgent"}]
    /\ wire \in Seq(WirePiece)

\* A flush is posted, put aside to run, or under way, and then it is the only
\* one and flushing_ is set.
Flushes(queue) == {i \in DOMAIN queue : queue[i] = "flush"}

OneFlush ==
    /\ \A i, j \in Flushes(inbound_tasks) : i = j
    /\ \A i, j \in Flushes(tasks) : i = j
    /\ Flushes(inbound_tasks) = {} \/ Flushes(tasks) = {}
    /\ Flushes(inbound_tasks) # {} \/ Flushes(tasks) # {} => flush.at = "none" /\ flushing_
    /\ flush.at # "none" => flushing_

\* Nobody queues anything before the reader has read a frame.
Greeting ==
    reader \in {"head", "body"} =>
        /\ ~flushing_ /\ posts = 0 /\ inbound_tasks = <<>> /\ tasks = <<>>

WireOK ==
    /\ \A i \in DOMAIN wire : wire[i].part = IF i % 2 = 1 THEN "head" ELSE "body"
    /\ \A i \in DOMAIN wire :
          i % 2 = 0 => wire[i].kind = wire[i - 1].kind /\ wire[i].n = wire[i - 1].n
    /\ flush.at \in {"head", "body"} => flush.frame.kind \in Kind
    /\ ~Broken =>
        /\ Len(wire) % 2 = 1 <=> (reader = "body" \/ flush.at = "body")
        /\ reader = "body" => wire[Len(wire)].kind = "greeting" /\ wire[Len(wire)].n = 1
        /\ flush.at = "body" => /\ wire[Len(wire)].kind = flush.frame.kind
                                /\ wire[Len(wire)].n = flush.frame.n

\* The message that flush_writes has taken and not begun to write.
Taken(kind) == IF flush.at = "head" /\ flush.frame.kind = kind THEN 1 ELSE 0

HeadsInOrder(kind) ==
    \A i \in Heads(kind) : wire[i].n = Cardinality({j \in Heads(kind) : j <= i})

NumberedKind(kind) ==
    /\ HeadsInOrder(kind)
    /\ Taken(kind) = 1 => flush.frame.n = Cardinality(Heads(kind)) + 1
    /\ alive_ =>
        /\ \A i \in DOMAIN Queue(kind) : Queue(kind)[i] = Cardinality(Heads(kind)) + Taken(kind) + i
        /\ accepted[kind] = Cardinality(Heads(kind)) + Taken(kind) + Len(Queue(kind))

Numbered == \A kind \in Queues : NumberedKind(kind)

IInv == TypeOK /\ OneFlush /\ Greeting /\ WireOK /\ Numbered


-----------------------------------------------------------------------------
(* The queues of tasks.                                                    *)

\* A task behind the others: at most one flush more.
LEMMA FlushesAppend ==
    ASSUME NEW queue \in Seq(TaskKind), NEW task \in TaskKind
    PROVE  /\ Append(queue, task) \in Seq(TaskKind)
           /\ Flushes(Append(queue, task)) =
                 Flushes(queue) \cup (IF task = "flush" THEN {Len(queue) + 1} ELSE {})
  BY DEF Flushes

\* A task fewer: the first one, and the others move up.
LEMMA FlushesTail ==
    ASSUME NEW queue \in Seq(TaskKind), queue # <<>>
    PROVE  /\ Tail(queue) \in Seq(TaskKind) /\ Head(queue) \in TaskKind
           /\ Head(queue) = "flush" => 1 \in Flushes(queue)
           /\ \A i \in Flushes(Tail(queue)) : i \in Nat \ {0} /\ i + 1 \in Flushes(queue)
  BY DEF Flushes, TaskKind

\* No tasks, no flush.
LEMMA FlushesEmpty == Flushes(<<>>) = {}
  BY DEF Flushes

-----------------------------------------------------------------------------
(* The wire.                                                               *)

\* The heads on the wire can be counted.
LEMMA HeadsFinite ==
    ASSUME wire \in Seq(WirePiece), NEW kind
    PROVE  /\ IsFiniteSet(Heads(kind)) /\ Cardinality(Heads(kind)) \in Nat
           /\ Heads(kind) \subseteq 1 .. Len(wire)
<1>1. Heads(kind) \subseteq 1 .. Len(wire)
  BY DEF Heads
<1>2. IsFiniteSet(1 .. Len(wire))
  BY FS_Interval
<1> QED
  BY <1>1, <1>2, FS_Subset, FS_CardinalityType

\* A header adds itself to the headers of its kind, and a payload nothing.
LEMMA HeadsAppend ==
    ASSUME wire \in Seq(WirePiece), NEW piece \in WirePiece, wire' = Append(wire, piece), NEW kind
    PROVE  /\ wire' \in Seq(WirePiece) /\ Len(wire') = Len(wire) + 1
           /\ wire'[Len(wire) + 1] = piece
           /\ \A i \in 1 .. Len(wire) : wire'[i] = wire[i]
           /\ Heads(kind)' = Heads(kind) \cup
                 (IF piece.kind = kind /\ piece.part = "head" THEN {Len(wire) + 1} ELSE {})
<1>1. wire' \in Seq(WirePiece) /\ Len(wire') = Len(wire) + 1
  OBVIOUS
<1>2. wire'[Len(wire) + 1] = piece /\ \A i \in 1 .. Len(wire) : wire'[i] = wire[i]
  OBVIOUS
<1>3. DOMAIN wire' = DOMAIN wire \cup {Len(wire) + 1} /\ DOMAIN wire = 1 .. Len(wire)
  OBVIOUS
<1>4. Len(wire) \in Nat
  OBVIOUS
<1> QED
  BY <1>1, <1>2, <1>3, <1>4 DEF Heads

\* A head sent with the next number keeps the heads in order.
LEMMA NumbersAppend ==
    ASSUME wire \in Seq(WirePiece), NEW piece \in WirePiece, wire' = Append(wire, piece), NEW kind,
           HeadsInOrder(kind),
           piece.kind = kind /\ piece.part = "head" => piece.n = Cardinality(Heads(kind)) + 1
    PROVE  /\ HeadsInOrder(kind)'
           /\ Cardinality(Heads(kind))' = Cardinality(Heads(kind)) +
                 (IF piece.kind = kind /\ piece.part = "head" THEN 1 ELSE 0)
<1> DEFINE new == piece.kind = kind /\ piece.part = "head"
<1>1. /\ Heads(kind)' = Heads(kind) \cup (IF new THEN {Len(wire) + 1} ELSE {})
      /\ wire'[Len(wire) + 1] = piece
      /\ \A i \in 1 .. Len(wire) : wire'[i] = wire[i]
  BY HeadsAppend
<1>2. /\ IsFiniteSet(Heads(kind)) /\ Cardinality(Heads(kind)) \in Nat
      /\ Heads(kind) \subseteq 1 .. Len(wire)
  BY HeadsFinite
<1>3. Len(wire) \in Nat
  OBVIOUS
<1>4. CASE ~new
  <2>1. Heads(kind)' = Heads(kind)
    BY <1>1, <1>4
  <2>2. \A i \in Heads(kind) : wire'[i] = wire[i]
    BY <1>1, <1>2
  <2> QED
    BY <1>2, <1>4, <2>1, <2>2 DEF HeadsInOrder
<1>5. CASE new
  <2> DEFINE top == Len(wire) + 1
  <2>1. Heads(kind)' = Heads(kind) \cup {top} /\ top \notin Heads(kind)
    BY <1>1, <1>2, <1>3, <1>5
  <2>2. Cardinality(Heads(kind))' = Cardinality(Heads(kind)) + 1
    BY <1>2, <2>1, FS_AddElement
  <2>3. ASSUME NEW i \in Heads(kind)'
        PROVE  wire'[i].n = Cardinality({j \in Heads(kind)' : j <= i})
    <3>1. CASE i = top
      <4>1. {j \in Heads(kind)' : j <= i} = Heads(kind)'
        BY <1>2, <1>3, <2>1, <3>1
      <4> QED
        BY <1>1, <1>5, <2>2, <3>1, <4>1
    <3>2. CASE i \in Heads(kind)
      <4>1. {j \in Heads(kind)' : j <= i} = {j \in Heads(kind) : j <= i}
        BY <1>2, <1>3, <2>1, <3>2
      <4>2. wire'[i] = wire[i]
        BY <1>1, <1>2, <3>2
      <4> QED
        BY <3>2, <4>1, <4>2 DEF HeadsInOrder
    <3> QED
      BY <2>1, <3>1, <3>2
  <2> QED
    BY <1>5, <2>2, <2>3 DEF HeadsInOrder
<1> QED
  BY <1>4, <1>5


-----------------------------------------------------------------------------
(* What leaves the invariant alone.                                        *)

\* Numbered looks at the wire, the flush and, while the connection is alive,
\* the queues.
LEMMA NumberedKept ==
    ASSUME Numbered, UNCHANGED <<wire, flush>>,
           alive_' => alive_ /\ UNCHANGED <<write_queue_, urgent_queue_, accepted>>
    PROVE  Numbered'
<1> SUFFICES ASSUME NEW kind \in Queues PROVE NumberedKind(kind)'
  BY DEF Numbered
<1>1. NumberedKind(kind) /\ UNCHANGED Taken(kind) /\ Heads(kind)' = Heads(kind)
  BY DEF Numbered, Taken, Heads
<1>2. alive_' => alive_ /\ UNCHANGED <<Queue(kind), accepted[kind]>>
  BY DEF Queue
<1> QED
  BY <1>1, <1>2 DEF NumberedKind, HeadsInOrder

\* A message goes from the flush to the wire, or stays where it is.
LEMMA NumberedMoved ==
    ASSUME NEW kind \in Queues, NumberedKind(kind), HeadsInOrder(kind)',
           (Taken(kind) = 1 => flush.frame.n = Cardinality(Heads(kind)) + 1)',
           (Cardinality(Heads(kind)) + Taken(kind))' = Cardinality(Heads(kind)) + Taken(kind),
           alive_' => alive_ /\ UNCHANGED <<Queue(kind), accepted[kind]>>
    PROVE  NumberedKind(kind)'
<1> DEFINE base == Cardinality(Heads(kind)) + Taken(kind)
<1>1. base' = base
  OBVIOUS
<1>2. alive_ =>
        /\ \A i \in DOMAIN Queue(kind) : Queue(kind)[i] = base + i
        /\ accepted[kind] = base + Len(Queue(kind))
  BY DEF NumberedKind
<1> HIDE DEF base
<1>3. alive_' =>
        /\ \A i \in DOMAIN Queue(kind)' : Queue(kind)'[i] = base' + i
        /\ accepted'[kind] = base' + Len(Queue(kind)')
  BY <1>1, <1>2
<1> QED
  BY <1>3 DEF NumberedKind, base

\* A connection that is broken stays so.
LEMMA WireKept ==
    ASSUME WireOK, UNCHANGED <<wire, flush, reader>>, Broken => Broken'
    PROVE  WireOK'
  BY DEF WireOK

\* A step of the peer changes only whether the connection is broken.
LEMMA Kept ==
    ASSUME IInv, UNCHANGED <<queueVars, reader, flush, wire, posts, inbound_tasks, tasks>>,
           open' \in BOOLEAN, Broken => Broken'
    PROVE  IInv'
<1>1. TypeOK'
  BY DEF IInv, TypeOK, queueVars
<1>2. OneFlush'
  BY DEF IInv, OneFlush, queueVars, Flushes
<1>3. Greeting'
  BY DEF IInv, Greeting, queueVars
<1>4. WireOK'
  BY WireKept DEF IInv
<1>5. Numbered'
  BY NumberedKept DEF IInv, queueVars
<1> QED
  BY <1>1, <1>2, <1>3, <1>4, <1>5 DEF IInv

-----------------------------------------------------------------------------
(* Queueing.                                                               *)


\* The tasks that were put aside may lose their first one, which is no flush.
TasksLeft ==
    /\ Flushes(tasks) = {} => Flushes(tasks') = {}
    /\ \A i, j \in Flushes(tasks') : i = j
    /\ tasks' \in Seq(TaskKind)

\* A flush is started only when there is none.
LEMMA StartFlushKeeps ==
    ASSUME TypeOK, OneFlush, StartFlush, TasksLeft, UNCHANGED flush
    PROVE  OneFlush' /\ inbound_tasks' \in Seq(TaskKind) /\ flushing_' = TRUE
<1>1. CASE flushing_
  <2>1. UNCHANGED inbound_tasks /\ flushing_' = TRUE
    BY <1>1 DEF StartFlush
  <2>2. Flushes(inbound_tasks') = Flushes(inbound_tasks) /\ flush'.at = flush.at
    BY <2>1
  <2> QED
    BY <1>1, <2>1, <2>2 DEF TypeOK, OneFlush, TasksLeft
<1>2. CASE ~flushing_
  <2>1. inbound_tasks' = Append(inbound_tasks, "flush") /\ flushing_' = TRUE
    BY <1>2 DEF StartFlush, submit_task
  <2>2. Flushes(inbound_tasks) = {} /\ Flushes(tasks) = {} /\ flush.at = "none"
    BY <1>2 DEF OneFlush
  <2>3. /\ inbound_tasks' \in Seq(TaskKind)
        /\ Flushes(inbound_tasks') = {Len(inbound_tasks) + 1}
    BY <2>1, <2>2, FlushesAppend DEF TypeOK, TaskKind
  <2>4. Flushes(tasks') = {} /\ flush'.at = "none"
    BY <2>2 DEF TasksLeft
  <2> QED
    BY <2>1, <2>3, <2>4 DEF OneFlush
<1> QED
  BY <1>1, <1>2

\* No step of the loop's queue.
LEMMA TasksUnchanged ==
    ASSUME TypeOK, OneFlush, UNCHANGED tasks
    PROVE  TasksLeft
  BY DEF TypeOK, OneFlush, TasksLeft

\* Without a new flush there is at most the one there was.
LEMMA NoFlushStarted ==
    ASSUME TypeOK, OneFlush, TasksLeft, UNCHANGED <<inbound_tasks, flushing_, flush>>
    PROVE  OneFlush' /\ inbound_tasks' \in Seq(TaskKind)
<1>1. Flushes(inbound_tasks') = Flushes(inbound_tasks) /\ flush'.at = flush.at
  OBVIOUS
<1> QED
  BY <1>1 DEF TypeOK, OneFlush, TasksLeft

\* What is queued gets the next number.
LEMMA Enqueued ==
    ASSUME TypeOK, Numbered, UNCHANGED <<wire, flush>>, NEW kind \in Queues,
           accepted' = [accepted EXCEPT ![kind] = @ + 1],
           Queue(kind)' = Append(Queue(kind), accepted'[kind]),
           \A other \in Queues \ {kind} : UNCHANGED Queue(other), UNCHANGED alive_
    PROVE  Numbered' /\ accepted' \in [normal : Nat, urgent : Nat, pong : Nat]
           /\ Queue(kind)' \in Seq(Nat)
<1>1. /\ accepted'[kind] = accepted[kind] + 1 /\ accepted'[kind] \in Nat
      /\ \A other \in Queues \ {kind} : accepted'[other] = accepted[other]
      /\ accepted' \in [normal : Nat, urgent : Nat, pong : Nat]
  <2>1. accepted \in [normal : Nat, urgent : Nat, pong : Nat]
    BY DEF TypeOK
  <2>2. CASE kind = "normal"
    BY <2>1, <2>2 DEF Queues
  <2>3. CASE kind = "urgent"
    BY <2>1, <2>3 DEF Queues
  <2> QED
    BY <2>2, <2>3 DEF Queues
<1>2. Queue(kind) \in Seq(Nat) /\ Queue(kind)' \in Seq(Nat)
  <2>1. Queue(kind) \in Seq(Nat)
    BY DEF TypeOK, Queue
  <2> QED
    BY <1>1, <2>1
<1>3. ASSUME NEW other \in Queues PROVE NumberedKind(other)'
  <2>1. NumberedKind(other) /\ UNCHANGED Taken(other) /\ Heads(other)' = Heads(other)
    BY DEF Numbered, Taken, Heads
  <2>2. CASE other = kind
    <3> DEFINE base == Cardinality(Heads(kind)) + Taken(kind)
    <3>1. Cardinality(Heads(kind)) \in Nat /\ Taken(kind) \in Nat
      BY HeadsFinite DEF TypeOK, Taken
    <3>2. ASSUME alive_'
          PROVE  /\ accepted'[kind] = base + Len(Queue(kind)')
                 /\ \A i \in DOMAIN Queue(kind)' : Queue(kind)'[i] = base + i
      <4>1. /\ accepted[kind] = base + Len(Queue(kind))
            /\ \A i \in DOMAIN Queue(kind) : Queue(kind)[i] = base + i
        BY <2>1, <2>2, <3>2 DEF NumberedKind
      <4>2. Len(Queue(kind)') = Len(Queue(kind)) + 1 /\ Len(Queue(kind)) \in Nat
        BY <1>1, <1>2
      <4>3. base \in Nat
        BY <3>1
      <4> HIDE DEF base
      <4>4. accepted'[kind] = base + Len(Queue(kind)')
        BY <1>1, <4>1, <4>2, <4>3
      <4>5. ASSUME NEW i \in DOMAIN Queue(kind)' PROVE Queue(kind)'[i] = base + i
        <5>1. i \in 1 .. Len(Queue(kind)) + 1 /\ DOMAIN Queue(kind) = 1 .. Len(Queue(kind))
          BY <1>2, <4>2
        <5>2. CASE i \in DOMAIN Queue(kind)
          BY <1>1, <1>2, <4>1, <5>2
        <5>3. CASE i = Len(Queue(kind)) + 1
          <6>1. Queue(kind)'[i] = accepted'[kind]
            BY <1>1, <1>2, <5>3
          <6> QED
            BY <4>2, <4>4, <5>3, <6>1
        <5> QED
          BY <4>2, <5>1, <5>2, <5>3
      <4> QED
        BY <4>4, <4>5
    <3>3. Cardinality(Heads(kind))' + Taken(kind)' = base
      BY <2>1, <2>2
    <3>4. HeadsInOrder(kind)'
      BY <2>1, <2>2 DEF NumberedKind, HeadsInOrder
    <3>5. (Taken(kind) = 1 => flush.frame.n = Cardinality(Heads(kind)) + 1)'
      BY <2>1, <2>2 DEF NumberedKind
    <3> HIDE DEF base
    <3> QED
      BY <2>2, <3>2, <3>3, <3>4, <3>5 DEF NumberedKind
  <2>3. CASE other # kind
    <3>1. HeadsInOrder(other)'
      BY <2>1 DEF NumberedKind, HeadsInOrder
    <3>2. (Taken(other) = 1 => flush.frame.n = Cardinality(Heads(other)) + 1)'
      BY <2>1 DEF NumberedKind
    <3>3. (Cardinality(Heads(other)) + Taken(other))' = Cardinality(Heads(other)) + Taken(other)
      BY <2>1
    <3>4. UNCHANGED <<Queue(other), accepted[other]>>
      BY <1>1, <2>3
    <3> QED
      BY <2>1, <3>1, <3>2, <3>3, <3>4, NumberedMoved
  <2> QED
    BY <2>2, <2>3
<1> QED
  BY <1>1, <1>2, <1>3 DEF Numbered


\* A connection that is ended keeps what it holds.
LEMMA EndedKeeps ==
    ASSUME TypeOK, OneFlush, TasksLeft, WireOK, Numbered, UNCHANGED <<flush, wire, reader>>,
           alive_' = FALSE, open' = FALSE,
           UNCHANGED <<write_queue_, urgent_queue_, flushing_, accepted, inbound_tasks>>,
           pending_pong_' \in BOOLEAN
    PROVE  TypeOK' /\ OneFlush' /\ WireOK' /\ Numbered'
<1>1. OneFlush' /\ inbound_tasks' \in Seq(TaskKind)
  BY NoFlushStarted
<1>2. WireOK'
  BY WireKept DEF Broken
<1>3. Numbered'
  BY NumberedKept
<1>4. TypeOK'
  BY <1>1 DEF TypeOK, TasksLeft
<1> QED
  BY <1>1, <1>2, <1>3, <1>4

\* queue_send: a message gets the next number, and a flush is posted if
\* there is none.
LEMMA QueueSendKeeps ==
    ASSUME TypeOK, OneFlush, TasksLeft, WireOK, Numbered, queue_send,
           UNCHANGED <<flush, wire, reader, peer>>
    PROVE  TypeOK' /\ OneFlush' /\ WireOK' /\ Numbered'
<1>1. CASE ~alive_ /\ UNCHANGED <<queueVars, inbound_tasks, open, registered>>
  <2>1. OneFlush' /\ inbound_tasks' \in Seq(TaskKind)
    BY <1>1, NoFlushStarted DEF queueVars
  <2>2. WireOK'
    BY <1>1, WireKept DEF Broken
  <2>3. Numbered'
    BY <1>1, NumberedKept DEF queueVars
  <2>4. TypeOK'
    BY <1>1, <2>1 DEF TypeOK, TasksLeft, queueVars
  <2> QED
    BY <2>1, <2>2, <2>3, <2>4
<1>2. CASE Overflow /\ UNCHANGED pending_pong_
  BY <1>2, EndedKeeps DEF Overflow, Close, TypeOK
<1>3. CASE /\ accepted' = [accepted EXCEPT !.normal = @ + 1]
           /\ write_queue_' = Append(write_queue_, accepted'.normal)
           /\ StartFlush
           /\ UNCHANGED <<alive_, urgent_queue_, pending_pong_, open, registered>>
  <2>1. OneFlush' /\ inbound_tasks' \in Seq(TaskKind) /\ flushing_' = TRUE
    BY <1>3, StartFlushKeeps
  <2>2. WireOK'
    BY <1>3, WireKept DEF Broken
  <2>3. /\ Queue("normal")' = Append(Queue("normal"), accepted'.normal)
        /\ \A other \in Queues \ {"normal"} : UNCHANGED Queue(other)
    BY <1>3 DEF Queues, Queue
  <2>4. /\ Numbered' /\ accepted' \in [normal : Nat, urgent : Nat, pong : Nat]
        /\ Queue("normal")' \in Seq(Nat)
    BY <1>3, <2>3, Enqueued DEF Queues
  <2>5. TypeOK'
    BY <1>3, <2>1, <2>4 DEF TypeOK, TasksLeft, Queue
  <2> QED
    BY <2>1, <2>2, <2>4, <2>5
<1> QED
  BY <1>1, <1>2, <1>3 DEF queue_send

\* The same for queue_send_urgent and its queue.
LEMMA QueueSendUrgentKeeps ==
    ASSUME TypeOK, OneFlush, TasksLeft, WireOK, Numbered, queue_send_urgent,
           UNCHANGED <<flush, wire, reader, peer>>
    PROVE  TypeOK' /\ OneFlush' /\ WireOK' /\ Numbered'
<1>1. CASE Overflow /\ UNCHANGED pending_pong_
  BY <1>1, EndedKeeps DEF Overflow, Close, TypeOK
<1>2. CASE /\ accepted' = [accepted EXCEPT !.urgent = @ + 1]
           /\ urgent_queue_' = Append(urgent_queue_, accepted'.urgent)
           /\ StartFlush
           /\ UNCHANGED <<alive_, write_queue_, pending_pong_, open, registered>>
  <2>1. OneFlush' /\ inbound_tasks' \in Seq(TaskKind) /\ flushing_' = TRUE
    BY <1>2, StartFlushKeeps
  <2>2. WireOK'
    BY <1>2, WireKept DEF Broken
  <2>3. /\ Queue("urgent")' = Append(Queue("urgent"), accepted'.urgent)
        /\ \A other \in Queues \ {"urgent"} : UNCHANGED Queue(other)
    BY <1>2 DEF Queues, Queue
  <2>4. /\ Numbered' /\ accepted' \in [normal : Nat, urgent : Nat, pong : Nat]
        /\ Queue("urgent")' \in Seq(Nat)
    BY <1>2, <2>3, Enqueued DEF Queues
  <2>5. TypeOK'
    BY <1>2, <2>1, <2>4 DEF TypeOK, TasksLeft, Queue
  <2> QED
    BY <2>1, <2>2, <2>4, <2>5
<1> QED
  BY <1>1, <1>2 DEF queue_send_urgent

\* Once the greeting is over it makes no difference what is queued.
LEMMA NotGreeting ==
    ASSUME reader' \notin {"head", "body"}
    PROVE  Greeting'
  BY DEF Greeting

-----------------------------------------------------------------------------
(* The steps of the peer, of other threads and of the loop.                *)

\* What the peer does.
LEMMA PeerKeeps ==
    ASSUME IInv,
           (\E f \in Frames : PeerSends(f)) \/ PeerReads \/ PeerCloses \/ PeerResets
    PROVE  IInv'
<1>1. /\ UNCHANGED <<queueVars, reader, flush, wire, posts, inbound_tasks, tasks, open>>
      /\ Broken => Broken'
  BY DEF PeerSends, PeerReads, PeerCloses, PeerResets, Broken, loopVars
<1> QED
  BY <1>1, Kept DEF IInv, TypeOK

\* Another thread posts a message to the loop.
LEMMA PostKeeps ==
    ASSUME IInv, Post
    PROVE  IInv'
<1> USE DEF IInv
<1>1. /\ inbound_tasks' = Append(inbound_tasks, "post")
      /\ UNCHANGED <<tasks, open, queueVars, reader, flush, wire, peer>> /\ posts > 0
  BY DEF Post, submit_task
<1>2. inbound_tasks' \in Seq(TaskKind) /\ Flushes(inbound_tasks') = Flushes(inbound_tasks)
  BY <1>1, FlushesAppend DEF TypeOK, TaskKind
<1>3. OneFlush'
  BY <1>1, <1>2 DEF OneFlush, queueVars
<1>4. Greeting'
  BY <1>1 DEF Greeting, queueVars
<1>5. WireOK' /\ Numbered'
  BY <1>1, WireKept, NumberedKept DEF Broken, queueVars
<1>6. TypeOK'
  BY <1>1, <1>2 DEF TypeOK, queueVars
<1> QED
  BY <1>3, <1>4, <1>5, <1>6

\* The loop drains its queue, polls and resumes coroutines.
LEMMA LoopStepKeeps ==
    ASSUME IInv, LoopStep
    PROVE  IInv'
<1>1. UNCHANGED <<queueVars, reader, flush, wire, peerVars>>
  BY DEF LoopStep
<1>2. CASE DrainInbound
  <2> USE DEF IInv
  <2>1. inbound_tasks' = <<>> /\ tasks' = inbound_tasks /\ open' = open
    BY <1>2 DEF DrainInbound
  <2>2. Flushes(inbound_tasks') = {} /\ Flushes(tasks') = Flushes(inbound_tasks)
    BY <2>1, FlushesEmpty
  <2>3. OneFlush'
    BY <1>1, <2>2 DEF OneFlush, queueVars
  <2>4. Greeting'
    BY <1>1, <2>1 DEF Greeting, queueVars, peerVars
  <2>5. WireOK' /\ Numbered'
    BY <1>1, <2>1, WireKept, NumberedKept DEF Broken, queueVars, peerVars
  <2>6. TypeOK'
    BY <1>1, <2>1 DEF TypeOK, queueVars
  <2> QED
    BY <2>3, <2>4, <2>5, <2>6
<1>3. CASE TasksDone \/ Poll({r \in registered : Ready(r)}) \/ Resume
  <2>1. UNCHANGED <<inbound_tasks, tasks, open>>
    BY <1>3 DEF TasksDone, Poll, Resume
  <2> QED
    BY <1>1, <2>1, Kept DEF IInv, TypeOK, Broken, peerVars
<1> QED
  BY <1>2, <1>3 DEF LoopStep


-----------------------------------------------------------------------------
(* A task runs.                                                            *)

\* The loop runs a task: a send or the start of a flush.
LEMMA RunTaskKeeps ==
    ASSUME IInv, RunTask
    PROVE  IInv'
<1> USE DEF IInv
<1>1. /\ tasks # <<>> /\ tasks' = Tail(tasks)
      /\ UNCHANGED <<reader, wire, peerVars>>
  BY DEF RunTask
<1>2. reader' \notin {"head", "body"}
  BY <1>1 DEF Greeting
<1>3. Greeting'
  BY <1>2, NotGreeting
<1>4. /\ tasks' \in Seq(TaskKind)
      /\ Head(tasks) = "flush" => 1 \in Flushes(tasks)
      /\ \A i \in Flushes(tasks') : i \in Nat \ {0} /\ i + 1 \in Flushes(tasks)
  BY <1>1, FlushesTail DEF TypeOK
<1>5. TasksLeft
  BY <1>4 DEF TasksLeft, OneFlush
<1>6. CASE Head(tasks) = "post" /\ queue_send /\ UNCHANGED <<running, flush>>
  <2>1. TypeOK' /\ OneFlush' /\ WireOK' /\ Numbered'
    BY <1>1, <1>5, <1>6, QueueSendKeeps DEF peerVars
  <2> QED
    BY <1>3, <2>1
<1>7. CASE /\ Head(tasks) = "flush"
           /\ flush' = [flush EXCEPT !.at = "top"]
           /\ UNCHANGED <<queueVars, inbound_tasks, open, registered>>
  <2>1. 1 \in Flushes(tasks)
    BY <1>4, <1>7
  <2>2. Flushes(tasks') = {}
    BY <1>4, <2>1 DEF OneFlush
  <2>3. Flushes(inbound_tasks') = {} /\ flushing_' = TRUE /\ flush.at = "none"
    BY <1>7, <2>1 DEF OneFlush, queueVars
  <2>4. flush'.at = "top" /\ flush'.frame = flush.frame
    BY <1>7 DEF TypeOK
  <2>5. OneFlush'
    BY <2>2, <2>3 DEF OneFlush
  <2>6. WireOK'
    BY <1>1, <1>7, <2>3, <2>4 DEF WireOK, Broken, peerVars
  <2>7. Numbered'
    <3> SUFFICES ASSUME NEW kind \in Queues PROVE NumberedKind(kind)'
      BY DEF Numbered
    <3>1. Taken(kind) = 0 /\ Taken(kind)' = 0
      BY <2>3, <2>4 DEF Taken
    <3>2. Heads(kind)' = Heads(kind) /\ Queue(kind)' = Queue(kind)
      BY <1>1, <1>7 DEF Heads, Queue, queueVars
    <3>3. NumberedKind(kind) /\ HeadsInOrder(kind)'
      BY <1>1, <3>2 DEF Numbered, NumberedKind, HeadsInOrder
    <3> QED
      BY <1>7, <3>1, <3>2, <3>3, NumberedMoved DEF queueVars
  <2>8. TypeOK'
    BY <1>1, <1>4, <1>7 DEF TypeOK, queueVars
  <2> QED
    BY <1>3, <2>5, <2>6, <2>7, <2>8
<1> QED
  BY <1>6, <1>7 DEF RunTask

-----------------------------------------------------------------------------
(* The reader.                                                             *)

\* A piece of the greeting goes out, before any flush.
LEMMA GreetKeeps ==
    ASSUME IInv, Greet
    PROVE  IInv'
<1> USE DEF IInv
<1>1. /\ reader \in {"head", "body"}
      /\ UNCHANGED <<queueVars, flush, peer, posts>>
  BY DEF Greet
<1>2. CASE Await("reader", "write") /\ UNCHANGED <<reader, wire, room>>
  <2>1. UNCHANGED <<inbound_tasks, tasks, open>>
    BY <1>2 DEF Await
  <2> QED
    BY <1>1, <1>2, <2>1, Kept DEF TypeOK, Broken
<1>3. CASE Broken /\ reader' = "read" /\ UNCHANGED <<loopVars, wire, room>>
  <2>1. UNCHANGED <<inbound_tasks, tasks, open>> /\ Broken'
    BY <1>1, <1>3 DEF loopVars, Broken
  <2>2. TypeOK'
    BY <1>1, <1>3, <2>1 DEF TypeOK, queueVars
  <2>3. OneFlush'
    BY <1>1, <2>1, NoFlushStarted, TasksUnchanged DEF queueVars
  <2>4. Greeting'
    BY <1>3, NotGreeting
  <2>5. WireOK'
    BY <1>1, <1>3, <2>1 DEF WireOK
  <2>6. Numbered'
    BY <1>1, <1>3, NumberedKept DEF queueVars
  <2> QED
    BY <2>2, <2>3, <2>4, <2>5, <2>6
<1>4. CASE /\ Put(Piece(Frame("greeting", 1), reader))
           /\ reader' = IF reader = "head" THEN "body" ELSE "read"
           /\ UNCHANGED loopVars
  <2> DEFINE len == Len(wire)
  <2>0. PICK piece : piece = Piece(Frame("greeting", 1), reader)
    OBVIOUS
  <2>1. /\ wire' = Append(wire, piece) /\ ~Broken /\ ~Broken'
        /\ UNCHANGED <<inbound_tasks, tasks, open>>
    BY <1>1, <1>4, <2>0 DEF Put, loopVars, Broken
  <2>2. /\ piece \in WirePiece /\ piece.kind = "greeting" /\ piece.n = 1
        /\ piece.part = reader
    BY <1>1, <2>0 DEF Piece, Frame, WirePiece, Kind
  <2>3. wire \in Seq(WirePiece) /\ len \in Nat
    BY DEF TypeOK
  <2>4. /\ wire' \in Seq(WirePiece) /\ Len(wire') = len + 1
        /\ wire'[len + 1] = piece /\ \A i \in 1 .. len : wire'[i] = wire[i]
    BY <2>1, <2>2, <2>3, HeadsAppend
  <2>5. TypeOK'
    BY <1>1, <1>4, <2>1, <2>4 DEF TypeOK, queueVars
  <2>6. OneFlush'
    BY <1>1, <2>1, NoFlushStarted, TasksUnchanged DEF queueVars
  <2>7. Greeting'
    BY <1>1, <2>1 DEF Greeting, queueVars
  <2>8. ~flushing_ /\ flush.at = "none"
    BY <1>1 DEF Greeting, OneFlush, TypeOK
  <2>9. len % 2 = 1 <=> reader = "body"
    BY <2>1, <2>8 DEF WireOK
  <2>10. WireOK'
    <3> HIDE DEF len
    <3>1. DOMAIN wire = 1 .. len /\ DOMAIN wire' = 1 .. len + 1
      BY <2>3, <2>4 DEF len
    <3>2. (len + 1) % 2 = 1 <=> reader = "head"
      BY <1>1, <2>3, <2>9
    <3>3. \A i \in DOMAIN wire' : wire'[i].part = IF i % 2 = 1 THEN "head" ELSE "body"
      BY <1>1, <2>2, <2>4, <3>1, <3>2, <2>3 DEF WireOK
    <3>4. ASSUME NEW i \in DOMAIN wire', i % 2 = 0
          PROVE  wire'[i].kind = wire'[i - 1].kind /\ wire'[i].n = wire'[i - 1].n
      <4>1. CASE i \in 1 .. len
        <5>1. i - 1 \in 1 .. len
          BY <2>3, <3>4, <4>1
        <5> QED
          BY <2>4, <3>1, <3>4, <4>1, <5>1 DEF WireOK
      <4>2. CASE i = len + 1
        <5>1. reader = "body" /\ len % 2 = 1
          BY <1>1, <2>9, <3>2, <3>4, <4>2
        <5>2. len \in 1 .. len /\ i - 1 = len
          BY <2>3, <4>2, <5>1
        <5> QED
          BY <2>1, <2>2, <2>4, <4>2, <5>1, <5>2 DEF WireOK, len
      <4> QED
        BY <2>3, <3>1, <4>1, <4>2
    <3>5. reader' = "body" <=> reader = "head"
      BY <1>1, <1>4
    <3>6. /\ Len(wire') % 2 = 1 <=> reader' = "body"
          /\ reader' = "body" => wire'[Len(wire')].kind = "greeting" /\ wire'[Len(wire')].n = 1
      BY <2>2, <2>4, <3>2, <3>5
    <3> QED
      BY <1>1, <2>8, <3>3, <3>4, <3>6 DEF WireOK
  <2>11. Numbered'
    <3> SUFFICES ASSUME NEW kind \in Queues PROVE NumberedKind(kind)'
      BY DEF Numbered
    <3>1. NumberedKind(kind) /\ piece.kind # kind
      BY <2>2 DEF Numbered, Queues
    <3>2. /\ HeadsInOrder(kind)'
          /\ Cardinality(Heads(kind))' = Cardinality(Heads(kind)) + 0
      BY <2>1, <2>2, <2>3, <3>1, NumbersAppend DEF NumberedKind
    <3>3. Cardinality(Heads(kind)) \in Nat
      BY <2>3, HeadsFinite
    <3>4. UNCHANGED <<Taken(kind), Queue(kind), accepted, flush, alive_>>
      BY <1>1 DEF Taken, Queue, queueVars
    <3>5. (Taken(kind) = 1 => flush.frame.n = Cardinality(Heads(kind)) + 1)'
      BY <3>1, <3>2, <3>3, <3>4 DEF NumberedKind
    <3>6. (Cardinality(Heads(kind)) + Taken(kind))' = Cardinality(Heads(kind)) + Taken(kind)
      BY <3>2, <3>3, <3>4
    <3> QED
      BY <3>1, <3>2, <3>4, <3>5, <3>6, NumberedMoved
  <2> QED
    BY <2>5, <2>6, <2>7, <2>10, <2>11
<1> QED
  BY <1>2, <1>3, <1>4 DEF Greet


\* A ping leaves its pong to the flush.
LEMMA ReceivePingKeeps ==
    ASSUME IInv, ReceivePing
    PROVE  IInv'
<1> USE DEF IInv
<1>1. /\ StartFlush /\ pending_pong_' \in BOOLEAN
      /\ UNCHANGED <<tasks, open, alive_, write_queue_, urgent_queue_, accepted, reader, flush,
                     wire, peer>>
      /\ reader = "read"
  BY DEF ReceivePing
<1>2. OneFlush' /\ inbound_tasks' \in Seq(TaskKind) /\ flushing_' = TRUE
  BY <1>1, StartFlushKeeps, TasksUnchanged
<1>3. WireOK' /\ Numbered'
  BY <1>1, WireKept, NumberedKept DEF Broken
<1>4. TypeOK'
  BY <1>1, <1>2 DEF TypeOK
<1> QED
  BY <1>1, <1>2, <1>3, <1>4, NotGreeting

\* on_ws_message queues an answer or hands a chat to another thread.
LEMMA ReceiveMessageKeeps ==
    ASSUME IInv, ReceiveMessage
    PROVE  IInv'
<1> USE DEF IInv
<1>1. UNCHANGED <<tasks, reader, flush, wire, peer>> /\ reader = "read"
  BY DEF ReceiveMessage
<1>2. TasksLeft
  BY <1>1, TasksUnchanged
<1>3. CASE queue_send
  BY <1>1, <1>2, <1>3, QueueSendKeeps, NotGreeting
<1>4. CASE queue_send_urgent
  BY <1>1, <1>2, <1>4, QueueSendUrgentKeeps, NotGreeting
<1>5. CASE UNCHANGED <<queueVars, inbound_tasks, open, registered>>
  <2>1. OneFlush'
    BY <1>1, <1>2, <1>5, NoFlushStarted DEF queueVars
  <2>2. WireOK' /\ Numbered'
    BY <1>1, <1>5, WireKept, NumberedKept DEF Broken, queueVars
  <2>3. TypeOK'
    BY <1>1, <1>5 DEF TypeOK, queueVars
  <2> QED
    BY <1>1, <2>1, <2>2, <2>3, NotGreeting
<1> QED
  BY <1>3, <1>4, <1>5 DEF ReceiveMessage

\* The reader stops, and closes the connection.
LEMMA ReaderStops ==
    ASSUME IInv, alive_' = FALSE, open' \in BOOLEAN, Broken => Broken',
           reader = "read", reader' \in {"read", "done"},
           UNCHANGED <<inbound_tasks, tasks, write_queue_, urgent_queue_, pending_pong_, flushing_,
                       accepted, flush, wire>>
    PROVE  IInv'
<1> USE DEF IInv
<1>1. OneFlush'
  BY NoFlushStarted, TasksUnchanged
<1>2. WireOK' /\ Numbered'
  BY NumberedKept DEF WireOK
<1>3. TypeOK'
  BY DEF TypeOK
<1> QED
  BY <1>1, <1>2, <1>3, NotGreeting

\* Every step of the reading coroutine.
LEMMA ReaderKeeps ==
    ASSUME IInv,
           Greet \/ ReceivePing \/ ReceiveMessage \/ ReceiveThrows \/ ReceiveClose
           \/ ReadWaits \/ ReadEnds
    PROVE  IInv'
<1>1. CASE Greet
  BY <1>1, GreetKeeps
<1>2. CASE ReceivePing
  BY <1>2, ReceivePingKeeps
<1>3. CASE ReceiveMessage
  BY <1>3, ReceiveMessageKeeps
<1>4. CASE ReceiveThrows
  BY <1>4, ReaderStops DEF ReceiveThrows, Close, Broken
<1>5. CASE ReceiveClose
  BY <1>5, ReaderStops DEF ReceiveClose, IInv, TypeOK, Broken, loopVars
<1>6. CASE ReadWaits
  BY <1>6, Kept DEF ReadWaits, Await, IInv, TypeOK, Broken, peerVars
<1>7. CASE ReadEnds
  BY <1>7, ReaderStops DEF ReadEnds, Close, Broken
<1> QED
  BY <1>1, <1>2, <1>3, <1>4, <1>5, <1>6, <1>7

-----------------------------------------------------------------------------
(* The flush.                                                              *)

\* A flush that is under way has the writing to itself.
LEMMA FlushAlone ==
    ASSUME IInv, flush.at # "none"
    PROVE  /\ flushing_ /\ reader \notin {"head", "body"}
           /\ Flushes(inbound_tasks) = {} /\ Flushes(tasks) = {}
  BY DEF IInv, OneFlush, Greeting

\* A flush that goes on is still the only one.
LEMMA FlushMoves ==
    ASSUME IInv, flush.at # "none", UNCHANGED <<inbound_tasks, tasks, reader>>, flushing_' = TRUE
    PROVE  OneFlush' /\ Greeting'
<1>1. /\ flushing_ /\ reader \notin {"head", "body"}
      /\ Flushes(inbound_tasks) = {} /\ Flushes(tasks) = {}
  BY FlushAlone
<1>2. Flushes(inbound_tasks') = {} /\ Flushes(tasks') = {}
  BY <1>1
<1> QED
  BY <1>1, <1>2, NotGreeting DEF OneFlush

\* The flush ends, and starts again if something was queued meanwhile.
LEMMA FlushExitKeeps ==
    ASSUME IInv, FlushExit
    PROVE  IInv'
<1> USE DEF IInv
<1>1. /\ flush.at = "exit" /\ flushing_' = Rearm
      /\ IF Rearm THEN inbound_tasks' = Append(inbound_tasks, "flush")
                  ELSE UNCHANGED inbound_tasks
      /\ flush' = NotFlushing
      /\ UNCHANGED <<tasks, open, alive_, write_queue_, urgent_queue_, pending_pong_, accepted,
                     reader, wire, peer>>
  BY DEF FlushExit, submit_task, peerVars
<1>2. /\ reader \notin {"head", "body"} /\ flush'.at = "none"
      /\ Flushes(inbound_tasks) = {} /\ Flushes(tasks') = {}
  BY <1>1, FlushAlone DEF NotFlushing
<1>3. OneFlush' /\ inbound_tasks' \in Seq(TaskKind)
  <2>1. CASE Rearm
    <3>1. /\ inbound_tasks' \in Seq(TaskKind)
          /\ Flushes(inbound_tasks') = {Len(inbound_tasks) + 1}
      BY <1>1, <1>2, <2>1, FlushesAppend DEF TypeOK, TaskKind
    <3> QED
      BY <1>1, <1>2, <2>1, <3>1 DEF OneFlush
  <2>2. CASE ~Rearm
    <3>1. Flushes(inbound_tasks') = {}
      BY <1>1, <1>2, <2>2
    <3> QED
      BY <1>1, <1>2, <2>2, <3>1 DEF OneFlush, TypeOK
  <2> QED
    BY <2>1, <2>2
<1>4. WireOK'
  BY <1>1, <1>2 DEF WireOK, Broken
<1>5. Numbered'
  <2> SUFFICES ASSUME NEW kind \in Queues PROVE NumberedKind(kind)'
    BY DEF Numbered
  <2>1. Taken(kind) = 0 /\ Taken(kind)' = 0
    BY <1>1, <1>2 DEF Taken
  <2>2. Heads(kind)' = Heads(kind) /\ Queue(kind)' = Queue(kind)
    BY <1>1 DEF Heads, Queue
  <2>3. NumberedKind(kind) /\ HeadsInOrder(kind)
    BY DEF Numbered, NumberedKind
  <2>4. HeadsInOrder(kind)'
    BY <1>1, <2>2, <2>3 DEF HeadsInOrder
  <2> QED
    BY <1>1, <2>1, <2>2, <2>3, <2>4, NumberedMoved
<1>6. TypeOK'
  BY <1>1, <1>3 DEF TypeOK, NotFlushing, Frame, Rearm, Queued
<1> QED
  BY <1>2, <1>3, <1>4, <1>5, <1>6, NotGreeting, <1>1


\* A message leaves its queue and is the next one of its kind.
LEMMA TakeKeeps ==
    ASSUME TypeOK, NEW kind \in Queues, NumberedKind(kind), Taken(kind) = 0, alive_,
           Queue(kind) # <<>>, Queue(kind)' = Tail(Queue(kind)),
           flush'.at = "head", flush'.frame = Frame(kind, Head(Queue(kind))),
           UNCHANGED <<wire, accepted>>
    PROVE  NumberedKind(kind)'
<1> DEFINE sent == Cardinality(Heads(kind))
<1>1. sent \in Nat /\ HeadsInOrder(kind)' /\ sent' = sent
  <2>1. Heads(kind)' = Heads(kind)
    BY DEF Heads
  <2>2. Cardinality(Heads(kind)) \in Nat
    BY HeadsFinite DEF TypeOK
  <2>3. HeadsInOrder(kind)'
    BY <2>1 DEF NumberedKind, HeadsInOrder
  <2> QED
    BY <2>1, <2>2, <2>3
<1>2. Taken(kind)' = 1
  BY DEF Taken, Frame
<1>3. Queue(kind) \in Seq(Nat)
  BY DEF TypeOK, Queue
<1>4. /\ \A i \in DOMAIN Queue(kind) : Queue(kind)[i] = sent + 0 + i
      /\ accepted[kind] = sent + 0 + Len(Queue(kind))
  BY DEF NumberedKind
<1> HIDE DEF sent
<1>5. Head(Queue(kind)) = sent + 1
  BY <1>1, <1>3, <1>4
<1>6. flush'.frame.n = sent' + 1
  BY <1>1, <1>5 DEF Frame
<1>7. Len(Queue(kind)') = Len(Queue(kind)) - 1 /\ Len(Queue(kind)) \in Nat \ {0}
  BY <1>3
<1>8. accepted'[kind] = sent' + 1 + Len(Queue(kind)')
  BY <1>1, <1>4, <1>7
<1>9. ASSUME NEW i \in DOMAIN Queue(kind)' PROVE Queue(kind)'[i] = sent' + 1 + i
  <2>1. i \in Nat /\ i + 1 \in DOMAIN Queue(kind) /\ Queue(kind)'[i] = Queue(kind)[i + 1]
    BY <1>3
  <2> QED
    BY <1>1, <1>4, <2>1
<1> QED
  BY <1>1, <1>2, <1>6, <1>8, <1>9 DEF NumberedKind, sent

\* The flush of another kind, or none.
LEMMA NotTaken ==
    ASSUME NEW kind \in Queues, NumberedKind(kind), Taken(kind) = 0, Taken(kind)' = 0,
           UNCHANGED wire, alive_' => alive_ /\ UNCHANGED <<Queue(kind), accepted[kind]>>
    PROVE  NumberedKind(kind)'
<1>1. HeadsInOrder(kind)' /\ Heads(kind)' = Heads(kind)
  BY DEF NumberedKind, HeadsInOrder, Heads
<1> QED
  BY <1>1, NumberedMoved

\* The flush takes the next frame, urgent ones first.
LEMMA FlushPickKeeps ==
    ASSUME IInv, FlushPick
    PROVE  IInv'
<1> USE DEF IInv
<1>1. /\ flush.at \in {"top", "urgent"}
      /\ UNCHANGED <<inbound_tasks, tasks, open, reader, wire, peer, posts, flushing_, alive_>>
  BY DEF FlushPick, loopVars, peerVars, queueVars
<1>2. flushing_' = TRUE
  BY <1>1, FlushAlone
<1>3. OneFlush' /\ Greeting'
  BY <1>1, <1>2, FlushMoves
<1>4. \A kind \in Queues : NumberedKind(kind) /\ Taken(kind) = 0
  BY <1>1 DEF Numbered, Taken
<1>5. /\ flush \in [at : {"none", "top", "urgent", "head", "body", "exit"},
                    frame : [kind : Kind \cup {"none"}, n : Nat],
                    next : {"none", "top", "urgent"}]
      /\ write_queue_ \in Seq(Nat) /\ urgent_queue_ \in Seq(Nat)
      /\ accepted \in [normal : Nat, urgent : Nat, pong : Nat]
  BY DEF TypeOK
<1>6. ASSUME NEW at \in {"exit", "urgent", "top"}, flush' = [flush EXCEPT !.at = at],
             alive_ => UNCHANGED queueVars, write_queue_' \in Seq(Nat),
             UNCHANGED <<urgent_queue_, pending_pong_, accepted>>
      PROVE  IInv'
  <2>1. flush'.at = at /\ flush'.frame = flush.frame
    BY <1>5, <1>6
  <2>2. WireOK'
    BY <1>1, <1>6, <2>1 DEF WireOK, Broken
  <2>3. Numbered'
    <3> SUFFICES ASSUME NEW kind \in Queues PROVE NumberedKind(kind)'
      BY DEF Numbered
    <3>1. Taken(kind)' = 0
      BY <1>6, <2>1 DEF Taken
    <3>2. alive_' => alive_ /\ UNCHANGED <<Queue(kind), accepted[kind]>>
      BY <1>1, <1>6 DEF queueVars, Queue
    <3> QED
      BY <1>1, <1>4, <3>1, <3>2, NotTaken
  <2>4. TypeOK'
    BY <1>1, <1>5, <1>6 DEF TypeOK
  <2> QED
    BY <1>3, <2>2, <2>3, <2>4
<1>7. ASSUME NEW frame \in [kind : Kind, n : Nat], NEW next \in {"top", "urgent"},
             flush' = [at |-> "head", frame |-> frame, next |-> next],
             write_queue_' \in Seq(Nat), urgent_queue_' \in Seq(Nat), pending_pong_' \in BOOLEAN,
             accepted' \in [normal : Nat, urgent : Nat, pong : Nat],
             Numbered'
      PROVE  IInv'
  <2>1. WireOK'
    BY <1>1, <1>7 DEF WireOK, Broken
  <2>2. TypeOK'
    BY <1>1, <1>7 DEF TypeOK
  <2> QED
    BY <1>3, <1>7, <2>1, <2>2
<1>8. CASE flush' = [flush EXCEPT !.at = "exit"] /\ UNCHANGED queueVars
  BY <1>5, <1>6, <1>8 DEF queueVars
<1>9. CASE flush' = [flush EXCEPT !.at = "urgent"] /\ UNCHANGED queueVars
  BY <1>5, <1>6, <1>9 DEF queueVars
<1>10. CASE /\ alive_ /\ pending_pong_' = FALSE
            /\ accepted' = [accepted EXCEPT !.pong = @ + 1]
            /\ Write(Frame("pong", accepted'.pong), "urgent")
            /\ UNCHANGED <<alive_, write_queue_, urgent_queue_, flushing_>>
  <2>0. /\ accepted'.normal = accepted.normal /\ accepted'.urgent = accepted.urgent
        /\ accepted' \in [normal : Nat, urgent : Nat, pong : Nat] /\ accepted'.pong \in Nat
    BY <1>5, <1>10
  <2>1. /\ flush' = [at |-> "head", frame |-> Frame("pong", accepted'.pong), next |-> "urgent"]
        /\ Frame("pong", accepted'.pong) \in [kind : Kind, n : Nat]
    BY <1>10, <2>0 DEF Write, Frame, Kind
  <2>2. ASSUME NEW kind \in Queues PROVE NumberedKind(kind)'
    <3>1. Taken(kind)' = 0
      BY <2>1 DEF Taken, Frame, Queues
    <3>2. UNCHANGED <<Queue(kind), accepted[kind]>>
      BY <1>10, <2>0 DEF Queue, Queues
    <3> QED
      BY <1>1, <1>4, <1>10, <3>1, <3>2, NotTaken
  <2> QED
    BY <1>5, <1>7, <1>10, <2>0, <2>1, <2>2 DEF Numbered
<1>11. CASE /\ alive_ /\ urgent_queue_ # <<>>
            /\ urgent_queue_' = Tail(urgent_queue_)
            /\ Write(Frame("urgent", Head(urgent_queue_)), "urgent")
            /\ UNCHANGED <<alive_, write_queue_, pending_pong_, flushing_, accepted>>
  <2>1. /\ flush' = [at |-> "head", frame |-> Frame("urgent", Head(urgent_queue_)),
                     next |-> "urgent"]
        /\ Frame("urgent", Head(urgent_queue_)) \in [kind : Kind, n : Nat]
        /\ urgent_queue_' \in Seq(Nat)
    BY <1>5, <1>11 DEF Write, Frame, Kind
  <2>2. NumberedKind("urgent")'
    <3>1. Queue("urgent") = urgent_queue_ /\ Queue("urgent")' = urgent_queue_'
      BY DEF Queue
    <3> QED
      BY <1>1, <1>4, <1>11, <2>1, <3>1, TakeKeeps DEF Queues
  <2>3. NumberedKind("normal")'
    <3>1. Taken("normal")' = 0
      BY <2>1 DEF Taken, Frame
    <3>2. UNCHANGED <<Queue("normal"), accepted["normal"]>>
      BY <1>11 DEF Queue
    <3> QED
      BY <1>1, <1>4, <1>11, <3>1, <3>2, NotTaken DEF Queues
  <2> QED
    BY <1>5, <1>7, <1>11, <2>1, <2>2, <2>3 DEF Numbered, Queues, TypeOK
<1>12. CASE /\ write_queue_ # <<>>
            /\ write_queue_' = Tail(write_queue_)
            /\ Write(Frame("normal", Head(write_queue_)), "top")
            /\ UNCHANGED <<alive_, urgent_queue_, pending_pong_, flushing_, accepted>>
  <2>0. write_queue_' \in Seq(Nat)
    BY <1>5, <1>12
  <2>1. CASE ~alive_
    BY <1>6, <1>12, <2>0, <2>1 DEF Write
  <2>2. CASE alive_
    <3>1. /\ flush' = [at |-> "head", frame |-> Frame("normal", Head(write_queue_)),
                       next |-> "top"]
          /\ Frame("normal", Head(write_queue_)) \in [kind : Kind, n : Nat]
      BY <1>5, <1>12, <2>2 DEF Write, Frame, Kind
    <3>2. NumberedKind("normal")'
      <4>1. Queue("normal") = write_queue_ /\ Queue("normal")' = write_queue_'
        BY DEF Queue
      <4> QED
        BY <1>1, <1>4, <1>12, <2>2, <3>1, <4>1, TakeKeeps DEF Queues
    <3>3. NumberedKind("urgent")'
      <4>1. Taken("urgent")' = 0
        BY <3>1 DEF Taken, Frame
      <4>2. UNCHANGED <<Queue("urgent"), accepted["urgent"]>>
        BY <1>12 DEF Queue
      <4> QED
        BY <1>1, <1>4, <1>12, <4>1, <4>2, NotTaken DEF Queues
    <3> QED
      BY <1>5, <1>7, <1>12, <2>0, <3>1, <3>2, <3>3 DEF Numbered, Queues, TypeOK
  <2> QED
    BY <2>1, <2>2
<1> QED
  BY <1>8, <1>9, <1>10, <1>11, <1>12 DEF FlushPick


\* A piece of the frame that the flush is writing.
LEMMA PutKeeps ==
    ASSUME IInv, flush.at \in {"head", "body"}, Put(Piece(flush.frame, flush.at)),
           flush' = [flush EXCEPT !.at = IF @ = "head" THEN "body" ELSE flush.next],
           UNCHANGED <<loopVars, queueVars, reader, peer>>
    PROVE  IInv'
<1> USE DEF IInv
<1> DEFINE len == Len(wire)
<1>1. UNCHANGED <<inbound_tasks, tasks, open, flushing_, alive_, accepted>>
  BY DEF loopVars, queueVars
<1>2. flushing_ /\ reader \notin {"head", "body"}
  BY FlushAlone
<1>3. OneFlush' /\ Greeting'
  BY <1>1, <1>2, FlushMoves DEF TypeOK
<1>4. PICK piece : piece = Piece(flush.frame, flush.at)
  OBVIOUS
<1>5. /\ piece \in WirePiece /\ piece.kind = flush.frame.kind /\ piece.n = flush.frame.n
      /\ piece.part = flush.at
  BY <1>4 DEF Piece, WirePiece, WireOK, TypeOK
<1>6. wire' = Append(wire, piece) /\ ~Broken /\ ~Broken'
  BY <1>1, <1>4 DEF Put, Broken
<1>7. wire \in Seq(WirePiece) /\ len \in Nat
  BY DEF TypeOK
<1>8. /\ wire' \in Seq(WirePiece) /\ Len(wire') = len + 1
      /\ wire'[len + 1] = piece /\ \A i \in 1 .. len : wire'[i] = wire[i]
  BY <1>5, <1>6, <1>7, HeadsAppend
<1>9. /\ flush' \in [at : {"none", "top", "urgent", "head", "body", "exit"},
                     frame : [kind : Kind \cup {"none"}, n : Nat],
                     next : {"none", "top", "urgent"}]
      /\ flush'.frame = flush.frame
      /\ flush.at = "head" => flush'.at = "body"
      /\ flush.at = "body" => flush'.at \notin {"head", "body"}
  BY DEF TypeOK
<1>10. TypeOK'
  BY <1>1, <1>8, <1>9 DEF TypeOK, queueVars
<1>11. len % 2 = 1 <=> flush.at = "body"
  BY <1>2, <1>6 DEF WireOK
<1>12. WireOK'
  <2>1. DOMAIN wire = 1 .. len /\ DOMAIN wire' = 1 .. len + 1
    BY <1>7, <1>8
  <2> HIDE DEF len
  <2>2. (len + 1) % 2 = 1 <=> flush.at = "head"
    BY <1>7, <1>11
  <2>3. \A i \in DOMAIN wire' : wire'[i].part = IF i % 2 = 1 THEN "head" ELSE "body"
    BY <1>5, <1>7, <1>8, <2>1, <2>2 DEF WireOK
  <2>4. ASSUME NEW i \in DOMAIN wire', i % 2 = 0
        PROVE  wire'[i].kind = wire'[i - 1].kind /\ wire'[i].n = wire'[i - 1].n
    <3>1. CASE i \in 1 .. len
      <4>1. i - 1 \in 1 .. len
        BY <1>7, <2>4, <3>1
      <4> QED
        BY <1>8, <2>1, <2>4, <3>1, <4>1 DEF WireOK
    <3>2. CASE i = len + 1
      <4>1. flush.at = "body" /\ len % 2 = 1
        BY <1>11, <2>2, <2>4, <3>2
      <4>2. len \in 1 .. len /\ i - 1 = len
        BY <1>7, <3>2, <4>1
      <4>3. wire[len].kind = flush.frame.kind /\ wire[len].n = flush.frame.n
        BY <1>6, <4>1 DEF WireOK, len
      <4> QED
        BY <1>5, <1>8, <3>2, <4>2, <4>3
    <3> QED
      BY <1>7, <2>1, <3>1, <3>2
  <2>5. flush'.at = "body" <=> flush.at = "head"
    BY <1>9
  <2>6. reader' = reader
    OBVIOUS
  <2> QED
    BY <1>2, <1>5, <1>8, <1>9, <2>2, <2>3, <2>4, <2>5, <2>6 DEF WireOK
<1>13. ASSUME NEW kind \in Queues PROVE NumberedKind(kind)'
  <2>1. NumberedKind(kind)
    BY DEF Numbered
  <2>2. Cardinality(Heads(kind)) \in Nat
    BY <1>7, HeadsFinite
  <2>3. (piece.kind = kind /\ piece.part = "head") <=> Taken(kind) = 1
    BY <1>5 DEF Taken
  <2>4. piece.kind = kind /\ piece.part = "head" => piece.n = Cardinality(Heads(kind)) + 1
    BY <1>5, <2>1, <2>3 DEF NumberedKind
  <2>5. /\ HeadsInOrder(kind)'
        /\ Cardinality(Heads(kind))' = Cardinality(Heads(kind)) +
              (IF piece.kind = kind /\ piece.part = "head" THEN 1 ELSE 0)
    BY <1>5, <1>6, <1>7, <2>1, <2>4, NumbersAppend DEF NumberedKind
  <2>6. Taken(kind)' = 0 /\ Taken(kind) \in {0, 1}
    BY <1>9 DEF Taken
  <2>7. (Cardinality(Heads(kind)) + Taken(kind))' = Cardinality(Heads(kind)) + Taken(kind)
    BY <2>2, <2>3, <2>5, <2>6
  <2>8. UNCHANGED <<Queue(kind), accepted[kind], alive_>>
    BY DEF Queue, queueVars
  <2> QED
    BY <2>1, <2>5, <2>6, <2>7, <2>8, NumberedMoved
<1> QED
  BY <1>3, <1>10, <1>12, <1>13 DEF Numbered

\* A frame goes out whole, or in part and breaks the connection.
LEMMA FlushSendKeeps ==
    ASSUME IInv, FlushSend
    PROVE  IInv'
<1> USE DEF IInv
<1>1. /\ flush.at \in {"head", "body"}
      /\ UNCHANGED <<write_queue_, urgent_queue_, pending_pong_, flushing_, accepted, reader, peer,
                     posts>>
  BY DEF FlushSend
<1>2. CASE /\ Put(Piece(flush.frame, flush.at))
           /\ flush' = [flush EXCEPT !.at = IF @ = "head" THEN "body" ELSE flush.next]
           /\ UNCHANGED <<loopVars, alive_>>
  BY <1>1, <1>2, PutKeeps DEF queueVars
<1>3. CASE /\ Broken /\ alive_' = FALSE /\ Close
           /\ flush' = [flush EXCEPT !.at = "exit"]
           /\ UNCHANGED <<poller, inbound_io, inbound_tasks, phase, tasks, to_resume, running,
                          pending, wire, room>>
  <2>1. flush'.at = "exit" /\ flush'.frame = flush.frame /\ open' = FALSE
    BY <1>3 DEF TypeOK, Close
  <2>2. flushing_' = TRUE
    BY <1>1, FlushAlone DEF TypeOK
  <2>3. OneFlush' /\ Greeting'
    BY <1>1, <1>3, <2>2, FlushMoves
  <2>4. WireOK'
    BY <1>1, <1>3, <2>1 DEF WireOK, Broken
  <2>5. ASSUME NEW kind \in Queues PROVE NumberedKind(kind)'
    <3>1. Taken(kind)' = 0
      BY <2>1 DEF Taken
    <3>2. Heads(kind)' = Heads(kind) /\ HeadsInOrder(kind)
      BY <1>3 DEF Numbered, NumberedKind, Heads
    <3>3. HeadsInOrder(kind)'
      BY <1>3, <3>2 DEF HeadsInOrder
    <3> QED
      BY <1>3, <3>1, <3>3 DEF NumberedKind
  <2>6. TypeOK'
    BY <1>1, <1>3, <2>1 DEF TypeOK
  <2> QED
    BY <2>3, <2>4, <2>5, <2>6 DEF Numbered
<1>4. CASE Await("flush", "write") /\ UNCHANGED <<flush, alive_, wire, room>>
  BY <1>1, <1>4, Kept DEF Await, TypeOK, Broken, queueVars
<1> QED
  BY <1>2, <1>3, <1>4 DEF FlushSend

-----------------------------------------------------------------------------
(* The theorems.                                                           *)

\* The connection starts with nothing queued and nothing written.
LEMMA InitInv == Init => IInv
<1> SUFFICES ASSUME Init PROVE IInv
  OBVIOUS
<1>1. TypeOK
  <2>1. wire \in Seq(WirePiece) /\ inbound_tasks \in Seq(TaskKind) /\ tasks \in Seq(TaskKind)
    BY DEF Init
  <2>2. flush = [at |-> "none", frame |-> [kind |-> "none", n |-> 0], next |-> "none"]
    BY DEF Init, NotFlushing, Frame
  <2>3. flush \in [at : {"none", "top", "urgent", "head", "body", "exit"},
                  frame : [kind : Kind \cup {"none"}, n : Nat],
                  next : {"none", "top", "urgent"}]
    BY <2>2
  <2>4. /\ alive_ \in BOOLEAN /\ open \in BOOLEAN /\ pending_pong_ \in BOOLEAN
        /\ flushing_ \in BOOLEAN
    BY DEF Init
  <2>5. write_queue_ \in Seq(Nat) /\ urgent_queue_ \in Seq(Nat)
    BY DEF Init
  <2>6. accepted \in [normal : Nat, urgent : Nat, pong : Nat]
    BY DEF Init
  <2>7. reader \in {"head", "body", "read", "done"}
    BY DEF Init
  <2> QED
    BY <2>1, <2>3, <2>4, <2>5, <2>6, <2>7 DEF TypeOK
<1>2. OneFlush /\ Greeting
  BY DEF Init, OneFlush, Greeting, Flushes, NotFlushing
<1>3. wire = <<>> /\ DOMAIN wire = {} /\ Len(wire) = 0
  BY DEF Init
<1>4. WireOK
  BY <1>3 DEF Init, WireOK, NotFlushing
<1>5. ASSUME NEW kind \in Queues PROVE NumberedKind(kind)
  <2>1. Heads(kind) = {} /\ Cardinality(Heads(kind)) = 0
    BY <1>3, FS_EmptySet DEF Heads
  <2>2. Taken(kind) = 0 /\ Queue(kind) = <<>> /\ accepted[kind] = 0
    BY DEF Init, Taken, NotFlushing, Queue, Queues
  <2>3. DOMAIN Queue(kind) = {} /\ Len(Queue(kind)) = 0
    BY <2>2
  <2> QED
    BY <2>1, <2>2, <2>3 DEF NumberedKind, HeadsInOrder
<1> QED
  BY <1>1, <1>2, <1>4, <1>5 DEF IInv, Numbered

\* Every step keeps the invariant.
LEMMA NextInv == IInv /\ [Next]_vars => IInv'
<1> SUFFICES ASSUME IInv, [Next]_vars PROVE IInv'
  OBVIOUS
<1>1. CASE LoopStep
  BY <1>1, LoopStepKeeps
<1>2. CASE RunTask
  BY <1>2, RunTaskKeeps
<1>3. CASE Greet \/ ReceivePing \/ ReceiveMessage \/ ReceiveThrows \/ ReceiveClose
           \/ ReadWaits \/ ReadEnds
  BY <1>3, ReaderKeeps
<1>4. CASE FlushPick
  BY <1>4, FlushPickKeeps
<1>5. CASE FlushSend
  BY <1>5, FlushSendKeeps
<1>6. CASE FlushExit
  BY <1>6, FlushExitKeeps
<1>7. CASE (\E f \in Frames : PeerSends(f)) \/ PeerReads \/ PeerCloses \/ PeerResets
  BY <1>7, PeerKeeps
<1>8. CASE Post
  BY <1>8, PostKeeps
<1>9. CASE UNCHANGED vars
  BY <1>9, Kept DEF vars, loopVars, peerVars, Broken, IInv, TypeOK
<1> QED
  BY <1>1, <1>2, <1>3, <1>4, <1>5, <1>6, <1>7, <1>8, <1>9 DEF Next, Thread

\* The invariant implies the property.
LEMMA InvFrames == IInv => FramesWhole
  BY DEF IInv, WireOK, Numbered, NumberedKind, HeadsInOrder, Queues, FramesWhole

\* The pieces on the wire are whole frames, and the messages of each queue
\* are written in the order they were accepted, none lost and none twice:
\* only the greeting and the one flush_writes that flushing_ admits ever write.
THEOREM FramesStayWhole == Spec => []FramesWhole
  BY InitInv, NextInv, InvFrames, PTL DEF Spec

\* At most one flush_writes is posted, put aside or under way at any time.
THEOREM FlushIsAlone == Spec => []OneFlush
<1>1. IInv => OneFlush
  BY DEF IInv
<1> QED
  BY <1>1, InitInv, NextInv, PTL DEF Spec

-----------------------------------------------------------------------------
(* Requests: what is true of a coroutine and of its connection.            *)

AnswerKind == [status : {"none", "ok", "busy", "bad"},
               framing : {"chunked", "fixed", "bare"}, reuse : BOOLEAN]
UnitKind == [what : {"head", "data", "last"}, of : Request, answer : AnswerKind, n : Nat]

\* Where a coroutine waits; while it parses it can be elsewhere.
Exchanging == {"head", "chunked", "fixed", "rest", "drain"}
Holding == {"handshake", "send"} \cup Exchanging
Resting == {"idle", "acquire", "connect", "done", "lost"} \cup Holding
Passing == {"bare", "drop", "over", "stops", "throws"}

Coroutine == [at : Resting \cup Passing, conn : Conn \cup {NoConn}, reused : BOOLEAN,
              session : BOOLEAN, fresh : BOOLEAN, answer : AnswerKind, own : BOOLEAN,
              length : Nat, reusable : BOOLEAN, tokens : Seq(Nat),
              result : {"none", "ok", "busy", "bad", "threw", "cancelled"}]

HttpTypeOK ==
    /\ pool \in Seq(Conn)
    /\ incoming \in [Conn -> Seq(UnitKind)]
    /\ server \in [Conn -> {"none", "open", "silent", "closed", "reset"}]
    /\ http \in [Request -> Coroutine]

Size(a) == Pieces + (IF a.framing = "chunked" THEN 2 ELSE 1)

UnitAt(r, a, i) ==
    Unit(r, IF i = 1 THEN "head" ELSE IF i <= Pieces + 1 THEN "data" ELSE "last", a,
         IF i <= Pieces + 1 THEN i - 1 ELSE 0)

\* units is what follows the first p units of answer a to request r.
Segment(r, a, p, units) ==
    /\ p + Len(units) <= Size(a)
    /\ \A i \in 1 .. Len(units) : units[i] = UnitAt(r, a, p + i)

\* What the coroutine h knows after p units of answer a; it lets go of the
\* connection for another request only after the last one.
Parsed(h, a, p) ==
    /\ h.own
    /\ p \in 0 .. Size(a)
    /\ p = 0 => h.at = "head" /\ h.answer = NoAnswer /\ h.length = 0
    /\ p > 0 => h.at # "head" /\ h.answer = a
    /\ h.at \in Exchanging \cup Passing
    /\ h.at \in {"chunked", "drop", "drain"} => a.framing = "chunked"
    /\ h.at = "chunked" => p <= Pieces + 1
    /\ h.at = "fixed" => a.framing = "fixed" /\ p = h.length + 1 /\ p <= Pieces
    /\ h.at \in {"rest", "bare"} => a.framing = "bare"
    /\ h.reusable => h.at = "over" /\ p = Size(a)

\* What the handler was given: k pieces in order by a first request, and the
\* others in order by a second one that replaced it.
Given(h, k) ==
    /\ k \in 0 .. Len(h.tokens)
    /\ \A i \in 1 .. k : h.tokens[i] = i
    /\ \A i \in 1 .. Len(h.tokens) - k : h.tokens[k + i] = i
    /\ IF h.fresh THEN h.reused ELSE k = 0

Fed(r, h, p, k) ==
    /\ Given(h, k)
    /\ h.at = "head" => Len(h.tokens) = k
    /\ /\ r \in Streaming /\ h.at \in {"chunked", "fixed", "rest", "bare"}
       /\ h.answer.status = "ok" /\ ~ParserStopped(r, h)
       => Len(h.tokens) = k + p - 1

Quiet(h) ==
    /\ h.own /\ h.answer = NoAnswer /\ h.length = 0 /\ ~h.reusable
    /\ \E k \in Nat : Given(h, k) /\ (h.at \notin {"done", "lost"} => Len(h.tokens) = k)

\* The coroutine h of request r, with w unread on its connection.
Knows(r, h, w) ==
    /\ h.at \in Resting
    /\ h.conn \in Conn <=> h.at \in Holding
    /\ h.at \in {"handshake", "send"} => w = <<>>
    /\ h.at \notin Exchanging => Quiet(h)
    /\ h.at \in Exchanging =>
         \E a \in AnswerKind, p \in Nat, k \in Nat :
            Parsed(h, a, p) /\ Fed(r, h, p, k) /\ Segment(r, a, p, w)

Requests == \A r \in Request : Knows(r, http[r], incoming[http[r].conn])

\* A connection is nowhere, in the pool once, or with one request.
Pooled ==
    /\ \A c \in Conn : server[c] = "none" => incoming[c] = <<>>
    /\ \A i \in DOMAIN pool : server[pool[i]] # "none" /\ incoming[pool[i]] = <<>>
    /\ \A i, j \in DOMAIN pool : pool[i] = pool[j] => i = j

Owner(r, c) ==
    /\ server[c] # "none"
    /\ \A i \in DOMAIN pool : pool[i] # c
    /\ \A q \in Request : http[q].conn = c => q = r

Connections == Pooled /\ \A r \in Request : http[r].at \in Holding => Owner(r, http[r].conn)

HttpInv == HttpTypeOK /\ Requests /\ Connections

-----------------------------------------------------------------------------
(* Recursion over the natural numbers.                                     *)

\* A set of numbers that is not empty has a least one.
LEMMA LeastNumber ==
    ASSUME NEW S \in SUBSET Nat, S # {}
    PROVE  \E m \in S : \A n \in S : m <= n
<1>1. PICK m \in S : \A n \in S : ~ (<<n, m>> \in OpToRel(<, Nat))
  BY NatLessThanWellFounded, WFMin
<1>2. \A n \in S : ~ (n < m)
  BY <1>1 DEF OpToRel
<1>3. m \in S
  BY <1>1
<1> QED
  BY <1>2, <1>3

\* A loop of n steps: its values exist, and stay in S.
HasRun(S, first, n, step) ==
    \E f \in [0 .. n -> S] : f[0] = first /\ \A i \in 1 .. n : f[i] = step[i][f[i - 1]]

\* n steps that are functions can be run one after the other.
LEMMA Loop ==
    ASSUME NEW S, NEW first \in S, NEW n \in Nat, NEW step \in [1 .. n -> [S -> S]]
    PROVE  HasRun(S, first, n, step)
<1> DEFINE Runs(m, f) == /\ f \in [0 .. m -> S] /\ f[0] = first
                         /\ \A i \in 1 .. m : f[i] = step[i][f[i - 1]]
           Bad == {m \in 0 .. n : ~ \E f : Runs(m, f)}
<1> HIDE DEF Runs
<1>1. Bad = {}
  <2> SUFFICES ASSUME Bad # {} PROVE FALSE
    OBVIOUS
  <2>1. Bad \in SUBSET Nat
    OBVIOUS
  <2>2. PICK m \in Bad : \A l \in Bad : m <= l
    <3> HIDE DEF Bad
    <3> QED
      BY <2>1, LeastNumber
  <2>3. m \in 0 .. n /\ ~ \E f : Runs(m, f)
    BY <2>2
  <2>4. m # 0
    <3>1. Runs(0, [i \in 0 .. 0 |-> first])
      BY DEF Runs
    <3> QED
      BY <2>3, <3>1
  <2>5. m - 1 \in 0 .. n /\ m - 1 \notin Bad
    <3>1. m - 1 \in 0 .. n /\ ~ (m <= m - 1)
      BY <2>3, <2>4
    <3> QED
      BY <2>2, <3>1
  <2>6. PICK f : Runs(m - 1, f)
    BY <2>5
  <2> DEFINE g == [i \in 0 .. m |-> IF i = m THEN step[m][f[m - 1]] ELSE f[i]]
  <2>7. f[m - 1] \in S /\ step[m][f[m - 1]] \in S
    BY <2>3, <2>4, <2>6 DEF Runs
  <2>8. g \in [0 .. m -> S] /\ g[0] = first
    BY <2>3, <2>4, <2>6, <2>7 DEF Runs
  <2>9. ASSUME NEW i \in 1 .. m PROVE g[i] = step[i][g[i - 1]]
    BY <2>3, <2>4, <2>6 DEF Runs
  <2>10. Runs(m, g)
    BY <2>8, <2>9 DEF Runs
  <2> QED
    BY <2>3, <2>10
<1>2. PICK f : Runs(n, f)
  <2>1. n \in 0 .. n /\ n \notin Bad
    BY <1>1
  <2> QED
    BY <2>1
<1> QED
  BY <1>2 DEF Runs, HasRun

-----------------------------------------------------------------------------
(* Parsing.                                                                *)

\* An answer as a sequence of units.
LEMMA UnitsShape ==
    ASSUME HttpAssumption, NEW r \in Request, NEW a \in AnswerKind
    PROVE  /\ Units(r, a) \in Seq(UnitKind) /\ Len(Units(r, a)) = Size(a)
           /\ Segment(r, a, 0, Units(r, a))
<1>1. Pieces \in Nat \ {0} /\ NoAnswer \in AnswerKind
  BY DEF HttpAssumption, NoAnswer, AnswerKind
<1> DEFINE first == <<Unit(r, "head", a, 0)>>
           body == [n \in 1 .. Pieces |-> Unit(r, "data", a, n)]
           last == IF a.framing = "chunked" THEN <<Unit(r, "last", a, 0)>> ELSE <<>>
<1>2. \A n \in Nat : /\ Unit(r, "head", a, n) \in UnitKind
                     /\ Unit(r, "data", a, n) \in UnitKind
                     /\ Unit(r, "last", a, n) \in UnitKind
  BY DEF Unit, UnitKind
<1>3. first \in Seq(UnitKind) /\ Len(first) = 1 /\ first[1] = Unit(r, "head", a, 0)
  BY <1>2
<1>4. /\ body \in Seq(UnitKind) /\ Len(body) = Pieces
      /\ \A n \in 1 .. Pieces : body[n] = Unit(r, "data", a, n)
  BY <1>1, <1>2
<1>5. /\ last \in Seq(UnitKind) /\ Len(last) = Size(a) - Pieces - 1
      /\ Len(last) \in {0, 1}
      /\ Len(last) = 1 => last[1] = Unit(r, "last", a, 0)
  BY <1>1, <1>2 DEF Size
<1>6. Units(r, a) = (first \o body) \o last
  BY DEF Units
<1> HIDE DEF first, body, last
<1>7. /\ first \o body \in Seq(UnitKind) /\ Len(first \o body) = Pieces + 1
      /\ (first \o body)[1] = Unit(r, "head", a, 0)
      /\ \A n \in 1 .. Pieces : (first \o body)[n + 1] = Unit(r, "data", a, n)
  <2>1. /\ first \o body \in Seq(UnitKind)
        /\ Len(first \o body) = Len(first) + Len(body)
        /\ \A i \in 1 .. Len(first) : (first \o body)[i] = first[i]
        /\ \A n \in 1 .. Len(body) : (first \o body)[Len(first) + n] = body[n]
    <3>1. first \in Seq(UnitKind) /\ body \in Seq(UnitKind)
      BY <1>3, <1>4
    <3> QED
      BY <3>1
  <2> DEFINE both == first \o body
  <2>2. /\ both \in Seq(UnitKind) /\ Len(both) = 1 + Pieces /\ both[1] = first[1]
        /\ \A n \in 1 .. Pieces : both[1 + n] = body[n]
    BY <1>1, <1>3, <1>4, <2>1
  <2> HIDE DEF both
  <2>3. Len(both) = Pieces + 1 /\ \A n \in 1 .. Pieces : both[n + 1] = both[1 + n]
    BY <1>1, <2>2
  <2>4. \A n \in 1 .. Pieces : both[n + 1] = Unit(r, "data", a, n)
    BY <1>4, <2>2, <2>3
  <2> QED
    BY <1>3, <2>2, <2>3, <2>4 DEF both
<1> DEFINE both == first \o body
<1> HIDE DEF both
<1>8. /\ Units(r, a) \in Seq(UnitKind) /\ Len(Units(r, a)) = Size(a)
      /\ \A i \in 1 .. Pieces + 1 : Units(r, a)[i] = both[i]
      /\ Len(last) = 1 => Units(r, a)[Pieces + 2] = last[1]
  <2> DEFINE all == both \o last
  <2>1. both \in Seq(UnitKind) /\ Len(both) = Pieces + 1 /\ all = Units(r, a)
    BY <1>6, <1>7 DEF both
  <2>2. /\ all \in Seq(UnitKind) /\ Len(all) = Len(both) + Len(last)
        /\ \A i \in 1 .. Len(both) : all[i] = both[i]
        /\ \A i \in 1 .. Len(last) : all[Len(both) + i] = last[i]
    <3>1. both \in Seq(UnitKind) /\ last \in Seq(UnitKind)
      BY <1>5, <2>1
    <3> QED
      BY <3>1
  <2> HIDE DEF all
  <2>3. Size(a) \in Nat
    BY <1>1 DEF Size
  <2>4. Len(all) = Size(a) /\ (Len(last) = 1 => all[Pieces + 2] = last[1])
    <3>1. Len(both) + 1 = Pieces + 2
      BY <1>1, <2>1
    <3>2. Len(last) = 1 => all[Len(both) + 1] = last[1]
      BY <2>2
    <3>3. Len(all) = Size(a)
      BY <1>1, <1>5, <2>1, <2>2, <2>3
    <3> QED
      BY <3>1, <3>2, <3>3
  <2> QED
    BY <2>1, <2>2, <2>4
<1>9. \A i \in 1 .. Size(a) : Units(r, a)[i] = UnitAt(r, a, i)
  <2> TAKE i \in 1 .. Size(a)
  <2>1. CASE i = 1
    BY <1>1, <1>7, <1>8, <2>1 DEF UnitAt, both
  <2>2. CASE i \in 2 .. Pieces + 1
    <3>1. i - 1 \in 1 .. Pieces /\ (i - 1) + 1 = i
      BY <1>1, <2>2
    <3>2. Units(r, a)[i] = Unit(r, "data", a, i - 1)
      <4>1. both[(i - 1) + 1] = Unit(r, "data", a, i - 1)
        BY <1>7, <3>1 DEF both
      <4> QED
        BY <1>8, <2>2, <3>1, <4>1
    <3> QED
      BY <1>1, <2>2, <3>2 DEF UnitAt
  <2>3. CASE i \in Pieces + 2 .. Size(a)
    <3>1. i = Pieces + 2 /\ Len(last) = 1
      BY <1>1, <1>5, <2>3 DEF Size
    <3> QED
      BY <1>1, <1>5, <1>8, <2>3, <3>1 DEF UnitAt
  <2> QED
    BY <1>1, <2>1, <2>2, <2>3 DEF Size
<1> QED
  BY <1>1, <1>8, <1>9 DEF Segment, Size

\* What parsing leaves alone.
Same(g, h) == /\ g.conn = h.conn /\ g.session = h.session /\ g.reused = h.reused
              /\ g.fresh = h.fresh /\ g.result = h.result

\* What the handler makes of a piece u.
Handled(g, r, h, u) ==
    /\ g \in Coroutine /\ Same(g, h) /\ g.at \in {h.at, "throws", "stops"}
    /\ g.answer = h.answer /\ g.length = h.length
    /\ g.own = h.own /\ g.reusable = h.reusable
    /\ r \notin Streaming => g = h
    /\ r \in Streaming =>
         IF r \notin cancelled /\ h.answer.status = "ok" /\ ~ParserStopped(r, h)
         THEN g.tokens = Append(h.tokens, u.n)
         ELSE g.tokens = h.tokens
    /\ r \in Streaming /\ g.at = h.at /\ h.at \notin {"stops", "throws"} =>
         ~ParserStopped(r, g) /\ r \notin cancelled

\* What a unit does to the coroutine that parses it.
LEMMA HandleType ==
    ASSUME NEW r, NEW h \in Coroutine, NEW u \in UnitKind
    PROVE  Handled(Handle(r, h, u), r, h, u)
<1> DEFINE g == [h EXCEPT !.tokens = IF h.answer.status = "ok" /\ ~ParserStopped(r, h)
                                     THEN Append(@, u.n) ELSE @]
<1>1. /\ g \in Coroutine /\ Same(g, h)
      /\ g.at = h.at /\ g.answer = h.answer /\ g.length = h.length
      /\ g.own = h.own /\ g.reusable = h.reusable
      /\ g.tokens = IF h.answer.status = "ok" /\ ~ParserStopped(r, h)
                    THEN Append(h.tokens, u.n) ELSE h.tokens
  <2>1. h.tokens \in Seq(Nat) /\ u.n \in Nat
    BY DEF Coroutine, UnitKind
  <2>2. Append(h.tokens, u.n) \in Seq(Nat)
    BY <2>1
  <2> DEFINE more == IF h.answer.status = "ok" /\ ~ParserStopped(r, h)
                     THEN Append(h.tokens, u.n) ELSE h.tokens
  <2>3. g = [h EXCEPT !.tokens = more] /\ more \in Seq(Nat)
    BY <2>1, <2>2
  <2> HIDE DEF more, g
  <2>4. g \in Coroutine /\ Same(g, h) /\ g.tokens = more
    BY <2>3 DEF Coroutine, Same
  <2>5. /\ g.at = h.at /\ g.answer = h.answer /\ g.length = h.length
        /\ g.own = h.own /\ g.reusable = h.reusable
    BY <2>3 DEF Coroutine
  <2> QED
    BY <2>4, <2>5 DEF more
<1> HIDE DEF g
<1>2. CASE r \notin Streaming
  <2>1. Handle(r, h, u) = h
    BY <1>2 DEF Handle
  <2> QED
    BY <1>2, <2>1 DEF Handled, Same
<1>3. CASE r \in Streaming /\ r \in cancelled
  <2> DEFINE s == [h EXCEPT !.at = "throws"]
  <2>1. Handle(r, h, u) = s
    BY <1>3 DEF Handle
  <2>2. /\ s \in Coroutine /\ Same(s, h) /\ s.at = "throws" /\ s.answer = h.answer
        /\ s.length = h.length /\ s.own = h.own /\ s.reusable = h.reusable
        /\ s.tokens = h.tokens
    BY DEF Coroutine, Passing, Same
  <2> HIDE DEF s
  <2> QED
    BY <1>3, <2>1, <2>2 DEF Handled
<1>4. CASE r \in Streaming /\ r \notin cancelled
  <2>1. Handle(r, h, u) = IF ParserStopped(r, g) THEN [g EXCEPT !.at = "stops"] ELSE g
    BY <1>4 DEF Handle, g
  <2>2. CASE ParserStopped(r, g)
    <3> DEFINE s == [g EXCEPT !.at = "stops"]
    <3>1. Handle(r, h, u) = s
      BY <2>1, <2>2
    <3>2. /\ s \in Coroutine /\ Same(s, g) /\ s.at = "stops" /\ s.answer = g.answer
          /\ s.length = g.length /\ s.own = g.own /\ s.reusable = g.reusable
          /\ s.tokens = g.tokens
      BY <1>1 DEF Coroutine, Passing, Same
    <3> HIDE DEF s
    <3> QED
      BY <1>1, <1>4, <3>1, <3>2 DEF Handled, Same
  <2>3. CASE ~ParserStopped(r, g)
    <3>1. Handle(r, h, u) = g
      BY <2>1, <2>3
    <3> QED
      BY <1>1, <1>4, <2>3, <3>1 DEF Handled
  <2> QED
    BY <2>2, <2>3
<1> QED
  BY <1>2, <1>3, <1>4

\* A handler that is given the next piece is given it in its place.
InPlace(g, r, h, p, k) ==
    /\ Given(g, k)
    /\ r \in Streaming /\ g.at = h.at =>
         /\ ~ParserStopped(r, h)
         /\ h.answer.status = "ok" => Len(g.tokens) = k + p

\* Parsing the unit that is next keeps the coroutine in step.
LEMMA HandleFed ==
    ASSUME NEW r, NEW h \in Coroutine, NEW u \in UnitKind, NEW p \in Nat \ {0}, NEW k \in Nat,
           h.at \in {"chunked", "fixed", "rest", "bare"}, Fed(r, h, p, k), u.n = p
    PROVE  InPlace(Handle(r, h, u), r, h, p, k)
<1> DEFINE g == Handle(r, h, u)
<1> SUFFICES
      /\ Given(g, k)
      /\ r \in Streaming /\ g.at = h.at =>
           /\ ~ParserStopped(r, h)
           /\ h.answer.status = "ok" => Len(g.tokens) = k + p
  BY DEF InPlace
<1>0. Handled(g, r, h, u)
  BY HandleType
<1> HIDE DEF g
<1>1. g \in Coroutine /\ Same(g, h)
  BY <1>0 DEF Handled
<1>2. h.tokens \in Seq(Nat) /\ Len(h.tokens) \in Nat
  BY DEF Coroutine
<1>3. Given(h, k)
  BY DEF Fed
<1>4. CASE g.tokens = h.tokens
  <2>1. Given(g, k)
    BY <1>1, <1>3, <1>4 DEF Given, Same
  <2>2. ASSUME r \in Streaming, g.at = h.at
        PROVE  ~ParserStopped(r, h) /\ h.answer.status # "ok"
    <3>1. ~ParserStopped(r, g) /\ r \notin cancelled
      BY <1>0, <2>2 DEF Handled
    <3>2. ~ParserStopped(r, h)
      BY <1>4, <3>1 DEF ParserStopped
    <3>5. h.answer.status = "ok" => g.tokens = Append(h.tokens, u.n)
      BY <1>0, <2>2, <3>1, <3>2 DEF Handled
    <3>6. Append(h.tokens, u.n) # h.tokens
      <4>1. Len(Append(h.tokens, u.n)) = Len(h.tokens) + 1
        BY <1>2
      <4> QED
        BY <1>2, <4>1
    <3> QED
      BY <1>4, <3>2, <3>5, <3>6
  <2> QED
    BY <2>1, <2>2
<1>5. CASE g.tokens # h.tokens
  <2>1. /\ r \in Streaming /\ h.answer.status = "ok" /\ ~ParserStopped(r, h)
        /\ g.tokens = Append(h.tokens, u.n)
    BY <1>0, <1>5 DEF Handled
  <2>2. Len(h.tokens) = k + p - 1
    BY <2>1 DEF Fed
  <2>3. /\ Len(g.tokens) = k + p /\ g.tokens[k + p] = p
        /\ \A i \in 1 .. Len(h.tokens) : g.tokens[i] = h.tokens[i]
    BY <1>2, <2>1, <2>2
  <2>4. \A i \in 1 .. k : g.tokens[i] = i
    <3>1. \A i \in 1 .. k : i \in 1 .. Len(h.tokens) /\ h.tokens[i] = i
      BY <1>2, <1>3 DEF Given
    <3> QED
      BY <2>3, <3>1
  <2>5. \A i \in 1 .. Len(g.tokens) - k : g.tokens[k + i] = i
    <3> TAKE i \in 1 .. Len(g.tokens) - k
    <3>1. CASE i = p
      BY <2>3, <3>1
    <3>2. CASE i # p
      <4>1. i \in 1 .. Len(h.tokens) - k /\ k + i \in 1 .. Len(h.tokens)
        BY <2>2, <2>3, <3>2
      <4> QED
        BY <1>3, <2>3, <4>1 DEF Given
    <3> QED
      BY <3>1, <3>2
  <2>6. k \in 0 .. Len(g.tokens) /\ (IF g.fresh THEN g.reused ELSE k = 0)
    BY <1>1, <1>3, <2>3 DEF Given, Same
  <2> QED
    BY <2>1, <2>3, <2>4, <2>5, <2>6 DEF Given
<1> QED
  BY <1>4, <1>5

\* A coroutine that owns its connection goes on owning it.
LEMMA Owned ==
    ASSUME NEW h \in Coroutine, h.own = TRUE, NEW yes, yes = TRUE
    PROVE  [h EXCEPT !.own = @ /\ yes] = h
<1>1. [h EXCEPT !.own = @ /\ yes] \in Coroutine
  BY DEF Coroutine
<1> QED
  BY <1>1 DEF Coroutine

\* In the middle of an answer.
LEMMA ParsedOn ==
    ASSUME NEW g, NEW a \in AnswerKind, NEW p \in Nat, p + 1 <= Size(a), Size(a) \in Nat,
           g.own, g.answer = a, ~g.reusable, g.at \in (Exchanging \cup Passing) \ {"head"},
           g.at \in {"chunked", "drop", "drain"} => a.framing = "chunked",
           g.at = "chunked" => p + 1 <= Pieces + 1,
           g.at = "fixed" => a.framing = "fixed" /\ p = g.length /\ p + 1 <= Pieces,
           g.at \in {"rest", "bare"} => a.framing = "bare"
    PROVE  Parsed(g, a, p + 1)
  BY DEF Parsed

\* One more unit.
LEMMA ParseStep ==
    ASSUME HttpAssumption, NEW r \in Request, NEW h \in Coroutine, NEW a \in AnswerKind,
           NEW p \in Nat, NEW k \in Nat, Parsed(h, a, p), Fed(r, h, p, k), p + 1 <= Size(a)
    PROVE  /\ Parse(r, h, UnitAt(r, a, p + 1)) \in Coroutine
           /\ Parsed(Parse(r, h, UnitAt(r, a, p + 1)), a, p + 1)
           /\ Fed(r, Parse(r, h, UnitAt(r, a, p + 1)), p + 1, k)
           /\ Same(Parse(r, h, UnitAt(r, a, p + 1)), h)
<1>1. Pieces \in Nat \ {0}
  BY DEF HttpAssumption
<1>2. Size(a) \in Nat /\ (a.framing = "chunked" => Size(a) = Pieces + 2)
      /\ (a.framing # "chunked" => Size(a) = Pieces + 1)
  BY <1>1 DEF Size
<1>3. PICK u \in UnitKind :
        /\ u = UnitAt(r, a, p + 1)
        /\ u.of = r /\ u.answer = a
        /\ u.what = "last" <=> p > Pieces
        /\ p \in 1 .. Pieces => u.n = p
  <2> DEFINE u == UnitAt(r, a, p + 1)
             what == IF p + 1 = 1 THEN "head" ELSE IF p + 1 <= Pieces + 1 THEN "data" ELSE "last"
             n == IF p + 1 <= Pieces + 1 THEN p ELSE 0
  <2>1. u = [what |-> what, of |-> r, answer |-> a, n |-> n]
    BY DEF UnitAt, Unit
  <2>2. /\ what \in {"head", "data", "last"} /\ n \in Nat
        /\ what = "last" <=> p > Pieces
        /\ p \in 1 .. Pieces => n = p
    BY <1>1
  <2> HIDE DEF what, n, u
  <2>3. u \in UnitKind
    BY <2>1, <2>2 DEF UnitKind
  <2> QED
    BY <2>1, <2>2, <2>3 DEF u
<1>4. [h EXCEPT !.own = @ /\ u.of = r] = h
  BY <1>3, Owned DEF Parsed, Coroutine
<1> DEFINE g == Parse(r, h, u)
<1> SUFFICES g \in Coroutine /\ Parsed(g, a, p + 1) /\ Fed(r, g, p + 1, k) /\ Same(g, h)
  BY <1>3
<1>5. CASE h.at = "head"
  <2>1. g = ParseHead(h, u) /\ p = 0
    BY <1>4, <1>5 DEF Parse, Parsed
  <2> DEFINE at == CASE a.framing = "chunked" -> "chunked"
                     [] a.framing = "fixed" -> "fixed"
                     [] OTHER -> IF a.reuse THEN "bare" ELSE "rest"
  <2>2. g = [h EXCEPT !.answer = a, !.at = at]
    <3> HIDE DEF g
    <3>1. u.answer = a
      BY <1>3
    <3>2. ParseHead(h, u) = [h EXCEPT !.answer = a, !.at = at]
      BY <3>1, Zenon DEF ParseHead
    <3> QED
      BY <2>1, <3>2
  <2>3. /\ at \in {"chunked", "fixed", "bare", "rest"}
        /\ at = "chunked" => a.framing = "chunked"
        /\ at = "fixed" => a.framing = "fixed"
        /\ at \in {"rest", "bare"} => a.framing = "bare"
    BY DEF AnswerKind
  <2> HIDE DEF at
  <2>4. /\ g \in Coroutine /\ Same(g, h) /\ g.at = at /\ g.answer = a
        /\ g.length = h.length /\ g.own = h.own /\ g.reusable = h.reusable
        /\ g.tokens = h.tokens
    BY <2>2, <2>3 DEF Coroutine, Same, Resting, Holding, Exchanging, Passing
  <2> HIDE DEF g
  <2>5. Parsed(g, a, p + 1)
    BY <1>1, <1>2, <1>5, <2>1, <2>3, <2>4 DEF Parsed, Exchanging, Passing
  <2>6. Len(h.tokens) = k /\ Given(h, k)
    BY <1>5 DEF Fed
  <2>7. Fed(r, g, p + 1, k)
    BY <2>1, <2>3, <2>4, <2>6 DEF Fed, Given, Same
  <2> QED
    BY <2>4, <2>5, <2>7
<1> DEFINE s == Handle(r, h, u)
<1>6. CASE h.at = "chunked"
  <2>1. g = ReadChunked(r, h, u) /\ p \in 1 .. Pieces + 1 /\ a.framing = "chunked"
        /\ h.answer = a /\ ~h.reusable
    BY <1>1, <1>2, <1>4, <1>6 DEF Parse, Parsed
  <2>2. CASE u.what = "last"
    <3>1. g = [h EXCEPT !.at = "over", !.reusable = h.answer.reuse] /\ p = Pieces + 1
      BY <1>1, <1>3, <2>1, <2>2 DEF ReadChunked
    <3>2. /\ g \in Coroutine /\ Same(g, h) /\ g.at = "over" /\ g.answer = a
          /\ g.own = h.own /\ g.tokens = h.tokens
      BY <2>1, <3>1 DEF Coroutine, Same, Passing, AnswerKind
    <3> HIDE DEF g
    <3>3. Parsed(g, a, p + 1)
      BY <1>1, <1>2, <2>1, <3>1, <3>2 DEF Parsed, Exchanging, Passing
    <3>4. Fed(r, g, p + 1, k)
      BY <3>2 DEF Fed, Given, Same
    <3> QED
      BY <3>2, <3>3, <3>4
  <2>3. CASE u.what # "last"
    <3>1. p \in 1 .. Pieces /\ u.n = p
      BY <1>1, <1>3, <2>1, <2>3
    <3>2. g = IF s.at = "stops" THEN StopChunked(s) ELSE s
      BY <2>1, <2>3 DEF ReadChunked
    <3>3. /\ s \in Coroutine /\ Same(s, h) /\ s.at \in {"chunked", "throws", "stops"}
          /\ s.answer = a /\ s.own = h.own /\ ~s.reusable
      <4>1. Handled(s, r, h, u)
        BY HandleType
      <4> HIDE DEF s
      <4> QED
        BY <1>6, <2>1, <4>1 DEF Handled
    <3>4. /\ Given(s, k)
          /\ r \in Streaming /\ s.at = h.at =>
               (s.answer.status = "ok" => Len(s.tokens) = k + p)
      <4>1. /\ Given(s, k)
            /\ r \in Streaming /\ s.at = h.at =>
                 ~ParserStopped(r, h) /\ (h.answer.status = "ok" => Len(s.tokens) = k + p)
        <5>1. p \in Nat \ {0}
          BY <1>1, <3>1
        <5> QED
          BY <1>6, <3>1, <5>1, HandleFed DEF InPlace
      <4> HIDE DEF s
      <4> QED
        BY <2>1, <3>3, <4>1
    <3> HIDE DEF s, g
    <3>5. CASE s.at = "stops"
      <4> DEFINE at == IF s.answer.reuse THEN "drop" ELSE "over"
      <4>1. g = [s EXCEPT !.at = at]
        BY <3>2, <3>5 DEF StopChunked
      <4>2. at \in {"drop", "over"}
        OBVIOUS
      <4> HIDE DEF at
      <4>3. /\ g \in Coroutine /\ Same(g, h) /\ g.at \in {"drop", "over"}
            /\ g.answer = a /\ g.own = h.own /\ ~g.reusable /\ g.tokens = s.tokens
        BY <3>3, <4>1, <4>2 DEF Coroutine, Same, Passing
      <4>4. Parsed(g, a, p + 1)
        BY <1>1, <1>2, <2>1, <4>3 DEF Parsed, Exchanging, Passing
      <4>5. Fed(r, g, p + 1, k)
        BY <3>3, <3>4, <4>3 DEF Fed, Given, Same
      <4> QED
        BY <4>3, <4>4, <4>5
    <3>6. CASE s.at # "stops"
      <4>1. g = s /\ s.at \in {"chunked", "throws"}
        BY <3>2, <3>3, <3>6
      <4>2. Parsed(g, a, p + 1)
        <5>1. h.own
          BY DEF Parsed
        <5>2. p + 1 <= Pieces + 1 /\ Size(a) \in Nat
          BY <1>1, <1>2, <3>1
        <5> QED
          BY <2>1, <3>3, <4>1, <5>1, <5>2, ParsedOn DEF Exchanging, Passing
      <4>3. Fed(r, g, p + 1, k)
        BY <1>6, <3>4, <4>1 DEF Fed
      <4> QED
        BY <3>3, <4>1, <4>2, <4>3
    <3> QED
      BY <3>5, <3>6
  <2> QED
    BY <2>2, <2>3
<1>7. CASE h.at \in {"fixed", "rest", "bare"}
  <2>0. PICK read : read = [h EXCEPT !.length = @ + 1]
    OBVIOUS
  <2> DEFINE t == Handle(r, read, u)
  <2>1. /\ g = ReadPlain(r, h, u) /\ p \in 1 .. Pieces /\ a.framing # "chunked"
        /\ h.answer = a /\ ~h.reusable /\ u.n = p
    BY <1>1, <1>2, <1>3, <1>4, <1>7 DEF Parse, Parsed
  <2>2. /\ read \in Coroutine /\ Same(read, h) /\ read.at = h.at
        /\ read.answer = a /\ read.own = h.own
        /\ ~read.reusable /\ read.length = h.length + 1 /\ read.tokens = h.tokens
    <3>1. h.length + 1 \in Nat
      BY DEF Coroutine
    <3>2. read \in Coroutine
      BY <2>0, <3>1 DEF Coroutine
    <3> QED
      BY <2>0, <2>1, <3>1, <3>2 DEF Coroutine, Same
  <2>3. g = IF t.at = "fixed" /\ t.length = Pieces
            THEN [t EXCEPT !.at = "over", !.reusable = t.answer.reuse] ELSE t
    BY <2>0, <2>1 DEF ReadPlain
  <2>4. Fed(r, read, p, k)
    <3>1. Given(read, k)
      BY <2>2 DEF Fed, Given, Same
    <3>2. ParserStopped(r, read) <=> ParserStopped(r, h)
      BY <2>2 DEF ParserStopped
    <3> QED
      BY <2>1, <2>2, <3>1, <3>2 DEF Fed
  <2>5. /\ t \in Coroutine /\ Same(t, h) /\ t.at \in {h.at, "throws", "stops"}
        /\ t.answer = a /\ t.own = h.own /\ ~t.reusable /\ t.length = h.length + 1
    <3>1. Handled(t, r, read, u)
      BY <2>2, HandleType
    <3> HIDE DEF t
    <3> QED
      BY <2>2, <3>1 DEF Handled, Same
  <2>6. /\ Given(t, k)
        /\ r \in Streaming /\ t.at = h.at =>
             (t.answer.status = "ok" => Len(t.tokens) = k + p)
    <3>1. /\ Given(t, k)
          /\ r \in Streaming /\ t.at = read.at =>
               ~ParserStopped(r, read) /\ (read.answer.status = "ok" => Len(t.tokens) = k + p)
      <4>1. p \in Nat \ {0}
        BY <1>1, <2>1
      <4>2. read \in Coroutine /\ read.at \in {"chunked", "fixed", "rest", "bare"} /\ u.n = p
        BY <1>7, <2>1, <2>2
      <4> QED
        <5>1. InPlace(t, r, read, p, k)
          BY <2>4, <4>1, <4>2, HandleFed
        <5> QED
          BY <5>1 DEF InPlace
    <3> HIDE DEF t
    <3> QED
      BY <2>2, <2>5, <3>1
  <2> HIDE DEF t, g
  <2>7. CASE t.at = "fixed" /\ t.length = Pieces
    <3>1. g = [t EXCEPT !.at = "over", !.reusable = a.reuse]
      BY <2>3, <2>5, <2>7
    <3>2. p = Pieces
      BY <1>7, <2>1, <2>5, <2>7 DEF Parsed
    <3>3. /\ g \in Coroutine /\ Same(g, h) /\ g.at = "over" /\ g.answer = a
          /\ g.own = h.own /\ g.tokens = t.tokens
      BY <2>5, <3>1 DEF Coroutine, Same, Passing, AnswerKind
    <3>4. Parsed(g, a, p + 1)
      BY <1>1, <1>2, <2>1, <3>2, <3>3 DEF Parsed, Exchanging, Passing
    <3>5. Fed(r, g, p + 1, k)
      BY <2>5, <2>6, <3>3 DEF Fed, Given, Same
    <3> QED
      BY <3>3, <3>4, <3>5
  <2>8. CASE ~ (t.at = "fixed" /\ t.length = Pieces)
    <3>1. g = t
      BY <2>3, <2>8
    <3>2. Parsed(g, a, p + 1)
      <4>1. h.own /\ (h.at = "fixed" => a.framing = "fixed" /\ p = h.length + 1)
            /\ (h.at \in {"rest", "bare"} => a.framing = "bare")
        BY DEF Parsed
      <4>2. t.at = "fixed" => p = t.length /\ p + 1 <= Pieces
        BY <1>1, <1>7, <2>1, <2>5, <2>8, <4>1 DEF Coroutine
      <4> QED
        BY <1>2, <1>7, <2>1, <2>5, <3>1, <4>1, <4>2, ParsedOn DEF Exchanging, Passing
    <3>3. Fed(r, g, p + 1, k)
      BY <1>7, <2>5, <2>6, <3>1 DEF Fed
    <3> QED
      BY <2>5, <3>1, <3>2, <3>3
  <2> QED
    BY <2>7, <2>8
<1>8. CASE h.at = "drain"
  <2>1. g = Drain(h, u) /\ p > 0 /\ a.framing = "chunked" /\ h.answer = a /\ ~h.reusable
    BY <1>4, <1>8 DEF Parse, Parsed
  <2>2. CASE u.what = "last"
    <3>1. g = [h EXCEPT !.at = "over", !.reusable = TRUE] /\ p = Pieces + 1
      BY <1>1, <1>2, <1>3, <2>1, <2>2 DEF Drain
    <3>2. /\ g \in Coroutine /\ Same(g, h) /\ g.at = "over" /\ g.answer = a
          /\ g.own = h.own /\ g.tokens = h.tokens
      BY <2>1, <3>1 DEF Coroutine, Same, Passing
    <3> HIDE DEF g
    <3>3. Parsed(g, a, p + 1)
      BY <1>1, <1>2, <2>1, <3>1, <3>2 DEF Parsed, Exchanging, Passing
    <3>4. Fed(r, g, p + 1, k)
      BY <3>2 DEF Fed, Given, Same
    <3> QED
      BY <3>2, <3>3, <3>4
  <2>3. CASE u.what # "last"
    <3>1. g = h
      BY <2>1, <2>3 DEF Drain
    <3> HIDE DEF g
    <3> QED
      BY <1>2, <1>8, <2>1, <3>1 DEF Parsed, Fed, Same
  <2> QED
    BY <2>2, <2>3
<1>9. CASE h.at \in {"drop", "over", "stops", "throws"}
  <2>1. g = h /\ p > 0 /\ ~h.reusable
    BY <1>2, <1>9 DEF Parse, Parsed
  <2> HIDE DEF g
  <2> QED
    BY <1>2, <1>9, <2>1 DEF Parsed, Fed, Same
<1> QED
  BY <1>5, <1>6, <1>7, <1>8, <1>9 DEF Parsed, Exchanging, Passing

\* All units of one read.
LEMMA ParseAllParsed ==
    ASSUME HttpAssumption, NEW r \in Request, NEW h \in Coroutine, NEW a \in AnswerKind,
           NEW p \in Nat, NEW k \in Nat, Parsed(h, a, p), Fed(r, h, p, k),
           NEW units \in Seq(UnitKind), Segment(r, a, p, units)
    PROVE  /\ ParseAll(r, h, units) \in Coroutine
           /\ Parsed(ParseAll(r, h, units), a, p + Len(units))
           /\ Fed(r, ParseAll(r, h, units), p + Len(units), k)
           /\ Same(ParseAll(r, h, units), h)
<1> DEFINE n == Len(units)
           Value(f, i) == IF i = 0 THEN h ELSE Parse(r, f[i - 1], units[i])
           Good(g, i) == g \in Coroutine /\ Parsed(g, a, p + i) /\ Fed(r, g, p + i, k) /\ Same(g, h)
<1>1. n \in Nat
  OBVIOUS
<1>2. ASSUME NEW g, NEW i \in 1 .. n, Good(g, i - 1)
      PROVE  Good(Parse(r, g, units[i]), i)
  <2> DEFINE q == p + (i - 1)
  <2>1. q \in Nat /\ q + 1 = p + i /\ q + 1 <= Size(a)
    <3>1. Size(a) \in Nat /\ p + n <= Size(a)
      BY DEF HttpAssumption, Size, Segment
    <3> HIDE DEF n
    <3> QED
      BY <1>1, <3>1
  <2>2. units[i] = UnitAt(r, a, q + 1)
    BY <2>1 DEF Segment
  <2>3. g \in Coroutine /\ Parsed(g, a, q) /\ Fed(r, g, q, k) /\ Same(g, h)
    BY <1>2
  <2> HIDE DEF q
  <2> DEFINE t == Parse(r, g, units[i])
  <2>4. t \in Coroutine /\ Parsed(t, a, q + 1) /\ Fed(r, t, q + 1, k) /\ Same(t, g)
    BY <2>1, <2>2, <2>3, ParseStep
  <2> HIDE DEF t
  <2>5. Same(t, h)
    BY <2>3, <2>4 DEF Same
  <2>6. Good(t, i)
    BY <2>1, <2>4, <2>5
  <2> QED
    BY <2>6 DEF t
<1>3. Good(h, 0)
  BY DEF Same
<1> HIDE DEF Good
<1>4. ASSUME NEW f, NEW m \in 0 .. n, f[0] = h,
             \A i \in 1 .. m : f[i] = Parse(r, f[i - 1], units[i])
      PROVE  Good(f[m], m)
  <2> DEFINE Bad == {i \in 0 .. m : ~Good(f[i], i)}
  <2> SUFFICES ASSUME Bad # {} PROVE FALSE
    BY <1>1
  <2>1. Bad \in SUBSET Nat
    BY <1>1
  <2>2. PICK i \in Bad : \A j \in Bad : i <= j
    <3> HIDE DEF Bad
    <3> QED
      BY <2>1, LeastNumber
  <2>3. i \in 0 .. m /\ ~Good(f[i], i)
    BY <2>2
  <2>4. i # 0
    BY <1>3, <1>4, <2>3
  <2>5. i - 1 \in 0 .. m /\ i - 1 \notin Bad
    <3>1. i - 1 \in 0 .. m /\ ~ (i <= i - 1)
      BY <1>1, <2>3, <2>4
    <3> QED
      BY <2>2, <3>1
  <2>6. Good(f[i - 1], i - 1)
    BY <2>5
  <2>7. i \in 1 .. n /\ i \in 1 .. m
    BY <1>1, <2>3, <2>4
  <2>8. f[i] = Parse(r, f[i - 1], units[i])
    BY <1>4, <2>7
  <2>9. Good(Parse(r, f[i - 1], units[i]), i)
    BY <1>2, <2>6, <2>7
  <2> QED
    BY <2>3, <2>8, <2>9
<1>5. \E f : f = [i \in 0 .. n |-> Value(f, i)]
  <2> DEFINE Makes(f, m) == /\ f[0] = h /\ \A i \in 1 .. m : f[i] = Parse(r, f[i - 1], units[i])
             Bad == {m \in 0 .. n : ~ \E f : Makes(f, m)}
  <2>1. Bad = {}
    <3> SUFFICES ASSUME Bad # {} PROVE FALSE
      OBVIOUS
    <3>1. Bad \in SUBSET Nat
      BY <1>1
    <3>2. PICK m \in Bad : \A l \in Bad : m <= l
      <4> HIDE DEF Bad
      <4> QED
        BY <3>1, LeastNumber
    <3>3. m \in 0 .. n /\ ~ \E f : Makes(f, m)
      BY <3>2
    <3>4. m # 0
      <4>1. Makes([i \in {0} |-> h], 0)
        OBVIOUS
      <4> QED
        BY <3>3, <4>1
    <3>5. m - 1 \in 0 .. n /\ m - 1 \notin Bad
      <4>1. m - 1 \in 0 .. n /\ ~ (m <= m - 1)
        BY <1>1, <3>3, <3>4
      <4> QED
        BY <3>2, <4>1
    <3>6. PICK f : Makes(f, m - 1)
      BY <3>5
    <3> DEFINE t == Parse(r, f[m - 1], units[m])
               g == [i \in 0 .. m |-> IF i = m THEN t ELSE f[i]]
    <3> HIDE DEF t
    <3>7. m \in Nat /\ m > 0
      BY <1>1, <3>3, <3>4
    <3>8. g[0] = f[0] /\ g[m] = t /\ g[m - 1] = f[m - 1]
      BY <3>7
    <3>9. ASSUME NEW i \in 1 .. m PROVE g[i] = Parse(r, g[i - 1], units[i])
      <4>1. CASE i = m
        BY <3>8, <4>1 DEF t
      <4>2. CASE i # m
        <5>1. i \in 1 .. m - 1 /\ i - 1 \in 0 .. m /\ i - 1 # m
          BY <3>7, <4>2
        <5>2. g[i] = f[i] /\ g[i - 1] = f[i - 1]
          BY <3>7, <4>2, <5>1
        <5> HIDE DEF g
        <5> QED
          BY <3>6, <5>1, <5>2
      <4> QED
        BY <4>1, <4>2
    <3> HIDE DEF g
    <3>10. Makes(g, m)
      BY <3>6, <3>8, <3>9
    <3> QED
      BY <3>3, <3>10
  <2>2. n \in 0 .. n
    BY <1>1
  <2>3. PICK f : Makes(f, n)
    <3>1. n \notin Bad
      BY <2>1
    <3> QED
      BY <2>2, <3>1
  <2> DEFINE g == [i \in 0 .. n |-> f[i]]
  <2>4. \A i \in 0 .. n : g[i] = Value(g, i)
    <3> TAKE i \in 0 .. n
    <3>1. CASE i = 0
      BY <2>3, <3>1
    <3>2. CASE i # 0
      <4>1. i \in 1 .. n /\ i - 1 \in 0 .. n
        BY <1>1, <3>2
      <4>2. g[i] = f[i] /\ g[i - 1] = f[i - 1]
        BY <4>1
      <4> HIDE DEF g
      <4> QED
        BY <2>3, <3>2, <4>1, <4>2
    <3> QED
      BY <3>1, <3>2
  <2>5. g = [i \in 0 .. n |-> Value(g, i)]
    <3>1. g = [i \in 0 .. n |-> g[i]]
      OBVIOUS
    <3> HIDE DEF g, Value, n
    <3>2. [i \in 0 .. n |-> g[i]] = [i \in 0 .. n |-> Value(g, i)]
      BY <2>4
    <3> QED
      BY <3>1, <3>2
  <2> QED
    BY <2>5, Zenon
<1> DEFINE f == CHOOSE f : f = [i \in 0 .. n |-> Value(f, i)]
<1>6. ParseAll(r, h, units) = f[n]
  BY Zenon DEF ParseAll
<1>7. f = [i \in 0 .. n |-> Value(f, i)]
  <2> HIDE DEF n, Value
  <2> QED
    BY <1>5, Zenon
<1> HIDE DEF f
<1>8. f[0] = h /\ \A i \in 1 .. n : f[i] = Parse(r, f[i - 1], units[i])
  <2>1. \A i \in 0 .. n : f[i] = Value(f, i)
    <3> HIDE DEF Value, n
    <3> QED
      BY <1>7, Zenon
  <2> QED
    BY <1>1, <2>1
<1>9. Good(f[n], n)
  BY <1>1, <1>4, <1>8
<1> QED
  BY <1>6, <1>9 DEF Good


-----------------------------------------------------------------------------
(* The steps of a request.                                                 *)

\* The units on the wire, split anywhere, follow each other.
LEMMA Split ==
    ASSUME NEW r \in Request, NEW a \in AnswerKind, NEW p \in Nat, NEW w \in Seq(UnitKind),
           Segment(r, a, p, w), NEW k \in 0 .. Len(w)
    PROVE  /\ SubSeq(w, 1, k) \in Seq(UnitKind) /\ Len(SubSeq(w, 1, k)) = k
           /\ SubSeq(w, k + 1, Len(w)) \in Seq(UnitKind)
           /\ Len(SubSeq(w, k + 1, Len(w))) = Len(w) - k
           /\ Size(a) \in Nat => /\ Segment(r, a, p, SubSeq(w, 1, k))
                                 /\ Segment(r, a, p + k, SubSeq(w, k + 1, Len(w)))
<1> DEFINE s == SubSeq(w, 1, k)
           t == SubSeq(w, k + 1, Len(w))
<1>1. /\ s \in Seq(UnitKind) /\ Len(s) = k
      /\ \A i \in 1 .. k : s[i] = w[i]
  OBVIOUS
<1>2. /\ t \in Seq(UnitKind) /\ Len(t) = Len(w) - k
      /\ \A i \in 1 .. Len(w) - k : t[i] = w[k + i]
  OBVIOUS
<1> HIDE DEF s, t
<1>3. ASSUME Size(a) \in Nat PROVE Segment(r, a, p, s)
  BY <1>1, <1>3 DEF Segment
<1>4. ASSUME Size(a) \in Nat PROVE Segment(r, a, p + k, t)
  <2>1. (p + k) + Len(t) <= Size(a)
    BY <1>2, <1>4 DEF Segment
  <2>2. ASSUME NEW i \in 1 .. Len(t) PROVE t[i] = UnitAt(r, a, (p + k) + i)
    <3>1. t[i] = w[k + i] /\ k + i \in 1 .. Len(w) /\ p + (k + i) = (p + k) + i
      BY <1>2
    <3>2. w[k + i] = UnitAt(r, a, p + (k + i))
      BY <3>1 DEF Segment
    <3> QED
      BY <3>1, <3>2
  <2> QED
    BY <2>1, <2>2 DEF Segment
<1> QED
  BY <1>1, <1>2, <1>3, <1>4 DEF s, t

\* Connections that a step of request r leaves alone: those of the others.
Others(r) ==
    \A q \in Request \ {r} : http[q].at \in Holding =>
        /\ incoming'[http[q].conn] = incoming[http[q].conn]
        /\ server'[http[q].conn] # "none"
        /\ \A i \in DOMAIN pool' : pool'[i] # http[q].conn

\* The request r is in the state h after the step.
Moved(r, h) ==
    /\ h \in Coroutine /\ http' = [http EXCEPT ![r] = h]
    /\ Knows(r, h, incoming'[h.conn])
    /\ h.at \in Holding => /\ server'[h.conn] # "none"
                           /\ \A i \in DOMAIN pool' : pool'[i] # h.conn
                           /\ \A q \in Request \ {r} : http[q].conn # h.conn

ConnectionTypes ==
    /\ pool \in Seq(Conn)
    /\ incoming \in [Conn -> Seq(UnitKind)]
    /\ server \in [Conn -> {"none", "open", "silent", "closed", "reset"}]

\* A step of one coroutine, if the others and the pool are left in order.
LEMMA StepKeeps ==
    ASSUME HttpInv, NEW r \in Request, NEW h, ConnectionTypes', Pooled', Others(r), Moved(r, h)
    PROVE  HttpInv'
<1>1. /\ http' \in [Request -> Coroutine] /\ http'[r] = h
      /\ \A q \in Request \ {r} : http'[q] = http[q]
  BY DEF HttpInv, HttpTypeOK, Moved
<1>2. HttpTypeOK'
  BY <1>1 DEF HttpTypeOK, ConnectionTypes
<1>3. ASSUME NEW q \in Request PROVE Knows(q, http'[q], incoming'[http'[q].conn])
  <2>1. CASE q = r
    BY <1>1, <2>1 DEF Moved
  <2>2. CASE q # r
    <3>1. Knows(q, http[q], incoming[http[q].conn]) /\ http'[q] = http[q]
      BY <1>1, <2>2 DEF HttpInv, Requests
    <3>2. CASE http[q].at \in Holding
      BY <2>2, <3>1, <3>2 DEF Others
    <3>3. CASE http[q].at \notin Holding
      BY <3>1, <3>3 DEF Knows, Holding
    <3> QED
      BY <3>2, <3>3
  <2> QED
    BY <2>1, <2>2
<1>4. ASSUME NEW q \in Request, http'[q].at \in Holding PROVE Owner(q, http[q].conn)'
  <2>1. CASE q = r
    BY <1>1, <1>4, <2>1 DEF Moved, Owner
  <2>2. CASE q # r
    <3>1. http'[q] = http[q] /\ http[q].at \in Holding /\ Owner(q, http[q].conn)
      BY <1>1, <1>4, <2>2 DEF HttpInv, Connections
    <3>2. h.conn # http[q].conn
      <4>1. http[q].conn \in Conn
        BY <3>1 DEF HttpInv, Requests, Knows
      <4>2. h.conn \in Conn => \A t \in Request \ {r} : http[t].conn # h.conn
        BY DEF Moved, Knows
      <4> QED
        BY <2>2, <4>1, <4>2
    <3>3. ASSUME NEW t \in Request, http'[t].conn = http'[q].conn PROVE t = q
      <4>1. t # r
        BY <1>1, <3>1, <3>2, <3>3
      <4> QED
        BY <1>1, <3>1, <3>3, <4>1 DEF Owner
    <3> QED
      BY <2>2, <3>1, <3>3 DEF Others, Owner
  <2> QED
    BY <2>1, <2>2
<1> QED
  BY <1>2, <1>3, <1>4 DEF HttpInv, Requests, Connections

\* A step that touches no connection.
LEMMA Untouched ==
    ASSUME HttpInv, UNCHANGED <<pool, incoming, server>>, NEW r \in Request
    PROVE  ConnectionTypes' /\ Pooled' /\ Others(r)
<1>1. ConnectionTypes' /\ Pooled'
  BY DEF HttpInv, HttpTypeOK, Connections, ConnectionTypes, Pooled
<1>2. Others(r)
  BY DEF HttpInv, Connections, Others, Owner
<1> QED
  BY <1>1, <1>2

LeftAs(l, h, at) ==
    /\ l \in Coroutine /\ l.at = at /\ l.conn = NoConn /\ l.own = h.own
    /\ l.answer = NoAnswer /\ l.length = 0 /\ ~l.reusable
    /\ l.reused = h.reused /\ l.fresh = h.fresh /\ l.tokens = h.tokens

\* A coroutine that leaves its connection keeps what it was given.
LEMMA LeftType ==
    ASSUME NEW h \in Coroutine, NEW at \in {"connect", "done", "lost"}
    PROVE  LeftAs(Left(h, at), h, at)
<1> DEFINE l == Left(h, at)
<1>1. Idle \in Coroutine
  BY DEF Idle, NoAnswer, Coroutine, AnswerKind, Resting
<1>2. /\ l \in Coroutine /\ l.at = at /\ l.conn = NoConn /\ l.own = h.own
      /\ l.answer = NoAnswer /\ l.length = 0 /\ ~l.reusable
      /\ l.reused = h.reused /\ l.fresh = h.fresh /\ l.tokens = h.tokens
  <2>1. /\ Idle.conn = NoConn /\ Idle.answer = NoAnswer /\ Idle.length = 0
        /\ Idle.reusable = FALSE
    BY DEF Idle
  <2>2. l = [Idle EXCEPT !.at = at, !.reused = h.reused, !.fresh = h.fresh,
                         !.own = h.own, !.tokens = h.tokens]
    BY DEF Left
  <2> HIDE DEF l
  <2>3. /\ h.reused \in BOOLEAN /\ h.fresh \in BOOLEAN /\ h.own \in BOOLEAN
        /\ h.tokens \in Seq(Nat) /\ at \in Resting \cup Passing
    BY DEF Coroutine, Resting
  <2>4. /\ l.at = at /\ l.reused = h.reused /\ l.fresh = h.fresh /\ l.own = h.own
        /\ l.tokens = h.tokens
    BY <1>1, <2>2 DEF Coroutine
  <2>5. /\ l.conn = NoConn /\ l.answer = NoAnswer /\ l.length = 0 /\ ~l.reusable
    BY <1>1, <2>1, <2>2 DEF Coroutine
  <2>6. l \in Coroutine
    BY <1>1, <2>2, <2>3 DEF Coroutine
  <2> QED
    BY <2>4, <2>5, <2>6
<1> HIDE DEF l
<1> QED
  BY <1>2 DEF LeftAs, l

\* A connection that is closed is nobody's.
LEMMA DiscardKeeps ==
    ASSUME HttpInv, NEW r \in Request, http[r].at \in Holding, Discard(http[r].conn),
           UNCHANGED pool
    PROVE  ConnectionTypes' /\ Pooled' /\ Others(r)
<1> DEFINE c == http[r].conn
<1>1. c \in Conn /\ Owner(r, c) /\ Pooled /\ HttpTypeOK
  BY DEF HttpInv, Requests, Connections, Knows
<1>2. /\ incoming' = [incoming EXCEPT ![c] = <<>>]
      /\ server' = [server EXCEPT ![c] = "none"]
  BY DEF Discard
<1> HIDE DEF c
<1>3. /\ incoming'[c] = <<>> /\ server'[c] = "none"
      /\ \A d \in Conn : d # c => incoming'[d] = incoming[d] /\ server'[d] = server[d]
  BY <1>1, <1>2 DEF HttpTypeOK
<1>4. ConnectionTypes'
  BY <1>1, <1>2 DEF HttpTypeOK, ConnectionTypes
<1>5. Pooled'
  <2>1. \A i \in DOMAIN pool : pool[i] \in Conn /\ pool[i] # c
    BY <1>1 DEF HttpTypeOK, Owner
  <2> QED
    BY <1>1, <1>3, <2>1 DEF Pooled
<1>6. Others(r)
  <2> SUFFICES ASSUME NEW q \in Request \ {r}, http[q].at \in Holding
               PROVE  /\ incoming'[http[q].conn] = incoming[http[q].conn]
                      /\ server'[http[q].conn] # "none"
                      /\ \A i \in DOMAIN pool' : pool'[i] # http[q].conn
    BY DEF Others
  <2>1. http[q].conn \in Conn /\ Owner(q, http[q].conn)
    BY DEF HttpInv, Requests, Connections, Knows
  <2>2. http[q].conn # c
    BY <1>1 DEF Owner
  <2> QED
    BY <1>3, <2>1, <2>2 DEF Owner
<1> QED
  BY <1>4, <1>5, <1>6

\* A connection that is returned is in the pool once.
LEMMA ReleaseKeeps ==
    ASSUME HttpInv, NEW r \in Request, http[r].at \in Holding,
           release(http[r].conn, <<>>)
    PROVE  ConnectionTypes' /\ Pooled' /\ Others(r)
<1> DEFINE c == http[r].conn
<1>1. CASE Len(pool) >= max_connections_per_host
  BY <1>1, DiscardKeeps DEF release
<1>2. CASE ~ (Len(pool) >= max_connections_per_host)
  <2>1. c \in Conn /\ Owner(r, c) /\ Pooled /\ HttpTypeOK
    BY DEF HttpInv, Requests, Connections, Knows
  <2>2. /\ pool' = Append(pool, c)
        /\ incoming' = [incoming EXCEPT ![c] = <<>>]
        /\ server' = server
    BY <1>2 DEF release
  <2> HIDE DEF c
  <2>3. /\ incoming'[c] = <<>>
        /\ \A d \in Conn : d # c => incoming'[d] = incoming[d]
    BY <2>1, <2>2 DEF HttpTypeOK
  <2>4. /\ pool' \in Seq(Conn) /\ Len(pool) \in Nat
        /\ DOMAIN pool = 1 .. Len(pool) /\ DOMAIN pool' = 1 .. Len(pool) + 1
        /\ pool'[Len(pool) + 1] = c
        /\ \A i \in 1 .. Len(pool) : pool'[i] = pool[i] /\ pool[i] \in Conn /\ pool[i] # c
    BY <2>1, <2>2 DEF HttpTypeOK, Owner
  <2>5. ConnectionTypes'
    BY <2>1, <2>2, <2>4 DEF HttpTypeOK, ConnectionTypes
  <2>6. Pooled'
    <3>1. \A d \in Conn : server'[d] = "none" => incoming'[d] = <<>>
      BY <2>1, <2>2, <2>3 DEF Pooled
    <3>2. \A i \in DOMAIN pool' : server'[pool'[i]] # "none" /\ incoming'[pool'[i]] = <<>>
      BY <2>1, <2>2, <2>3, <2>4 DEF Pooled, Owner
    <3>3. \A i, j \in DOMAIN pool' : pool'[i] = pool'[j] => i = j
      BY <2>1, <2>4 DEF Pooled
    <3> QED
      BY <3>1, <3>2, <3>3 DEF Pooled
  <2>7. Others(r)
    <3> SUFFICES ASSUME NEW q \in Request \ {r}, http[q].at \in Holding
                 PROVE  /\ incoming'[http[q].conn] = incoming[http[q].conn]
                        /\ server'[http[q].conn] # "none"
                        /\ \A i \in DOMAIN pool' : pool'[i] # http[q].conn
      BY DEF Others
    <3>1. http[q].conn \in Conn /\ Owner(q, http[q].conn)
      BY DEF HttpInv, Requests, Connections, Knows
    <3>2. http[q].conn # c
      BY <2>1 DEF Owner
    <3> QED
      BY <2>2, <2>3, <2>4, <3>1, <3>2 DEF Owner
  <2> QED
    BY <2>5, <2>6, <2>7
<1> QED
  BY <1>1, <1>2

\* A request without a connection.
LEMMA MovedAway ==
    ASSUME NEW r \in Request, NEW h \in Coroutine, http' = [http EXCEPT ![r] = h], Quiet(h),
           h.conn = NoConn, h.at \in Resting \ Holding, HttpAssumption
    PROVE  Moved(r, h)
BY DEF Moved, Knows, HttpAssumption, Holding, Exchanging

\* A failed attempt closes its connection.
LEMMA FailKeeps ==
    ASSUME HttpAssumption, HttpInv, NEW r \in Request, http[r].at \in Holding,
           NEW h \in Coroutine, h.conn = http[r].conn, h.own, NEW k \in Nat, Given(h, k),
           NEW why, Fail(r, h, why)
    PROVE  HttpInv'
<1> DEFINE l == Left(h, "connect")
           d == Left(h, "done")
           result == IF why = "cancelled" THEN "cancelled" ELSE "threw"
<1>1. ConnectionTypes' /\ Pooled' /\ Others(r)
  BY DiscardKeeps DEF Fail
<1>2. LeftAs(l, h, "connect") /\ LeftAs(d, h, "done")
  BY LeftType
<1>3. http' = [http EXCEPT ![r] = IF SendsAgain(h, why) THEN [l EXCEPT !.fresh = TRUE]
                                  ELSE [d EXCEPT !.result = result]]
  BY DEF Fail
<1>4. result \in {"cancelled", "threw"}
  OBVIOUS
<1> HIDE DEF l, d, result
<1>5. CASE SendsAgain(h, why)
  <2> DEFINE g == [l EXCEPT !.fresh = TRUE]
  <2>1. /\ g \in Coroutine /\ g.at = "connect" /\ g.conn = NoConn /\ g.own
        /\ g.answer = NoAnswer /\ g.length = 0 /\ ~g.reusable
        /\ g.reused = h.reused /\ g.fresh /\ g.tokens = h.tokens
    BY <1>2 DEF LeftAs, Coroutine
  <2>2. http' = [http EXCEPT ![r] = g]
    BY <1>3, <1>5
  <2> HIDE DEF g
  <2>3. h.reused /\ k = 0 /\ h.tokens \in Seq(Nat) /\ Len(h.tokens) \in Nat
    BY <1>5 DEF SendsAgain, Given, Coroutine
  <2>4. Given(g, Len(g.tokens))
    BY <2>1, <2>3 DEF Given
  <2>5. Quiet(g)
    BY <2>1, <2>3, <2>4 DEF Quiet
  <2>6. Moved(r, g)
    BY <2>1, <2>2, <2>5, MovedAway DEF Resting, Holding, Exchanging
  <2> QED
    BY <1>1, <2>6, StepKeeps
<1>6. CASE ~SendsAgain(h, why)
  <2> DEFINE g == [d EXCEPT !.result = result]
  <2>1. /\ g \in Coroutine /\ g.at = "done" /\ g.conn = NoConn /\ g.own
        /\ g.answer = NoAnswer /\ g.length = 0 /\ ~g.reusable
        /\ g.reused = h.reused /\ g.fresh = h.fresh /\ g.tokens = h.tokens
    BY <1>2, <1>4 DEF LeftAs, Coroutine
  <2>2. http' = [http EXCEPT ![r] = g]
    BY <1>3, <1>6
  <2> HIDE DEF g
  <2>3. Quiet(g)
    BY <2>1 DEF Quiet, Given
  <2>4. Moved(r, g)
    BY <2>1, <2>2, <2>3, MovedAway DEF Resting, Holding, Exchanging
  <2> QED
    BY <1>1, <2>4, StepKeeps
<1> QED
  BY <1>5, <1>6

\* A finished one returns it to the pool or closes it.
LEMMA FinishKeeps ==
    ASSUME HttpAssumption, HttpInv, NEW r \in Request, http[r].at \in Holding,
           NEW h \in Coroutine, h.conn = http[r].conn, h.own, NEW k \in Nat, Given(h, k),
           NEW unread, h.reusable => unread = <<>>, Finish(r, h, unread)
    PROVE  HttpInv'
<1>1. CASE h.answer.status = "none" /\ h.session
  <2>1. Fail(r, h, "eof")
    BY <1>1 DEF Finish
  <2> QED
    BY <2>1, FailKeeps
<1>2. CASE ~ (h.answer.status = "none" /\ h.session)
  <2> DEFINE d == Left(h, "done")
             g == [d EXCEPT !.result = h.answer.status]
  <2>1. /\ IF h.reusable THEN release(h.conn, unread) ELSE Discard(h.conn) /\ UNCHANGED pool
        /\ http' = [http EXCEPT ![r] = g]
    BY <1>2 DEF Finish
  <2>2. LeftAs(d, h, "done")
    BY LeftType
  <2> HIDE DEF d
  <2>3. h.answer.status \in {"none", "ok", "busy", "bad"}
    BY DEF Coroutine, AnswerKind
  <2>4. /\ g \in Coroutine /\ g.at = "done" /\ g.conn = NoConn /\ g.own
        /\ g.answer = NoAnswer /\ g.length = 0 /\ ~g.reusable
        /\ g.reused = h.reused /\ g.fresh = h.fresh /\ g.tokens = h.tokens
    BY <2>2, <2>3 DEF LeftAs, Coroutine
  <2> HIDE DEF g
  <2>5. Quiet(g)
    BY <2>4 DEF Quiet, Given
  <2>6. Moved(r, g)
    BY <2>1, <2>4, <2>5, MovedAway DEF Resting, Holding, Exchanging
  <2>7. ConnectionTypes' /\ Pooled' /\ Others(r)
    <3>1. CASE h.reusable
      BY <2>1, <3>1, ReleaseKeeps
    <3>2. CASE ~h.reusable
      BY <2>1, <3>2, DiscardKeeps
    <3> QED
      BY <3>1, <3>2
  <2> QED
    BY <2>6, <2>7, StepKeeps
<1> QED
  BY <1>1, <1>2

\* request_once begins.
LEMMA KeepsRequestOnce ==
    ASSUME HttpAssumption, HttpInv, NEW r \in Request, request_once(r)
    PROVE  HttpInv'
<1> DEFINE reused == (pool # <<>>)
           h == [Idle EXCEPT !.at = "acquire", !.reused = reused]
<1>1. reused \in BOOLEAN /\ http' = [http EXCEPT ![r] = h]
  BY DEF request_once
<1> HIDE DEF reused
<1>2. /\ h \in Coroutine /\ h.at = "acquire" /\ h.conn = NoConn /\ h.own
      /\ h.answer = NoAnswer /\ h.length = 0 /\ ~h.reusable /\ ~h.fresh /\ h.tokens = <<>>
  <2>1. /\ Idle \in Coroutine /\ Idle.conn = NoConn /\ Idle.own
        /\ Idle.answer = NoAnswer /\ Idle.length = 0 /\ ~Idle.reusable /\ ~Idle.fresh
        /\ Idle.tokens = <<>>
    BY DEF Idle, NoAnswer, Coroutine, AnswerKind, Resting
  <2> QED
    BY <1>1, <2>1 DEF Coroutine, Resting
<1> HIDE DEF h
<1>3. Given(h, 0)
  BY <1>2 DEF Given
<1>4. Quiet(h)
  BY <1>2, <1>3 DEF Quiet
<1>5. Moved(r, h)
  BY <1>1, <1>2, <1>4, MovedAway DEF Resting, Holding, Exchanging
<1>6. ConnectionTypes' /\ Pooled' /\ Others(r)
  BY Untouched DEF request_once
<1> QED
  BY <1>5, <1>6, StepKeeps

\* A request is over and may be made again.
LEMMA KeepsReset ==
    ASSUME HttpAssumption, HttpInv, NEW r \in Request, HttpReset(r)
    PROVE  HttpInv'
<1>1. /\ Idle \in Coroutine /\ Idle.at = "idle" /\ Idle.conn = NoConn /\ Idle.own
      /\ Idle.answer = NoAnswer /\ Idle.length = 0 /\ ~Idle.reusable /\ ~Idle.fresh
      /\ Idle.tokens = <<>>
  BY DEF Idle, NoAnswer, Coroutine, AnswerKind, Resting
<1>2. Given(Idle, 0)
  BY <1>1 DEF Given
<1>3. Quiet(Idle)
  BY <1>1, <1>2 DEF Quiet
<1>4. Moved(r, Idle)
  BY <1>1, <1>3, MovedAway DEF Resting, Holding, Exchanging, HttpReset
<1>5. ConnectionTypes' /\ Pooled' /\ Others(r)
  BY Untouched DEF HttpReset
<1> QED
  BY <1>4, <1>5, StepKeeps

\* No connection.
LEMMA KeepsConnectFails ==
    ASSUME HttpAssumption, HttpInv, NEW r \in Request, ConnectFails(r)
    PROVE  HttpInv'
<1> DEFINE h == [http[r] EXCEPT !.at = "done", !.result = "threw"]
<1>1. /\ http[r] \in Coroutine /\ http[r].at = "connect"
      /\ Knows(r, http[r], incoming[http[r].conn])
  BY DEF ConnectFails, HttpInv, HttpTypeOK, Requests
<1>2. http[r].conn = NoConn /\ Quiet(http[r])
  BY <1>1 DEF Knows, Holding, Exchanging, Coroutine
<1>3. http' = [http EXCEPT ![r] = h]
  BY DEF ConnectFails
<1>4. /\ h \in Coroutine /\ h.at = "done" /\ h.conn = NoConn
      /\ h.own = http[r].own /\ h.answer = http[r].answer /\ h.length = http[r].length
      /\ h.reusable = http[r].reusable /\ h.tokens = http[r].tokens
      /\ h.fresh = http[r].fresh /\ h.reused = http[r].reused
  BY <1>1, <1>2 DEF Coroutine, Resting, Same
<1> HIDE DEF h
<1>5. Quiet(h)
  BY <1>2, <1>4 DEF Quiet, Given
<1>6. Moved(r, h)
  BY <1>3, <1>4, <1>5, MovedAway DEF Resting, Holding, Exchanging
<1>7. ConnectionTypes' /\ Pooled' /\ Others(r)
  BY Untouched DEF ConnectFails
<1> QED
  BY <1>6, <1>7, StepKeeps

\* What the pool drops on the way.
LEMMA DropKeeps ==
    ASSUME HttpInv, NEW r \in Request, NEW n \in 0 .. Len(pool),
           pool' = SubSeq(pool, 1, n), NEW m \in Nat, m > n, m <= Len(pool) + 1,
           DiscardAll({pool[j] : j \in m .. Len(pool)})
    PROVE  /\ ConnectionTypes' /\ Pooled' /\ Others(r)
           /\ \A i \in n + 1 .. m - 1 : /\ server'[pool[i]] # "none"
                                        /\ incoming'[pool[i]] = <<>>
                                        /\ \A j \in DOMAIN pool' : pool'[j] # pool[i]
<1> DEFINE cs == {pool[j] : j \in m .. Len(pool)}
<1>1. /\ Pooled /\ pool \in Seq(Conn) /\ incoming \in [Conn -> Seq(UnitKind)]
      /\ server \in [Conn -> {"none", "open", "silent", "closed", "reset"}]
  BY DEF HttpInv, HttpTypeOK, Connections
<1>2. /\ Len(pool) \in Nat /\ DOMAIN pool = 1 .. Len(pool)
      /\ \A i \in 1 .. Len(pool) : pool[i] \in Conn
      /\ \A i \in 1 .. m - 1 : i \in 1 .. Len(pool) /\ pool[i] \notin cs
  <2>1. Len(pool) \in Nat /\ DOMAIN pool = 1 .. Len(pool)
        /\ \A i \in 1 .. Len(pool) : pool[i] \in Conn
    BY <1>1
  <2>2. ASSUME NEW i \in 1 .. m - 1 PROVE i \in 1 .. Len(pool) /\ pool[i] \notin cs
    <3>1. i \in 1 .. Len(pool)
      BY <2>1
    <3>2. ASSUME NEW j \in m .. Len(pool) PROVE pool[j] # pool[i]
      <4>1. i # j /\ j \in 1 .. Len(pool)
        BY <2>1
      <4> QED
        BY <1>1, <2>1, <3>1, <4>1 DEF Pooled
    <3> QED
      BY <3>1, <3>2
  <2> QED
    BY <2>1, <2>2
<1>3. /\ pool' \in Seq(Conn) /\ DOMAIN pool' = 1 .. n
      /\ \A i \in 1 .. n : pool'[i] = pool[i]
  BY <1>1, <1>2
<1>4. /\ incoming' = [c \in Conn |-> IF c \in cs THEN <<>> ELSE incoming[c]]
      /\ server' = [c \in Conn |-> IF c \in cs THEN "none" ELSE server[c]]
  BY DEF DiscardAll
<1> HIDE DEF cs
<1>5. ConnectionTypes'
  BY <1>1, <1>3, <1>4 DEF ConnectionTypes
<1>6. Pooled'
  <2>1. \A c \in Conn : server'[c] = "none" => incoming'[c] = <<>>
    BY <1>1, <1>4 DEF Pooled
  <2>2. ASSUME NEW i \in 1 .. n
        PROVE  server'[pool'[i]] # "none" /\ incoming'[pool'[i]] = <<>>
    <3>1. i \in 1 .. m - 1
      BY <1>2
    <3>2. pool[i] \in Conn /\ pool[i] \notin cs /\ server[pool[i]] # "none"
          /\ incoming[pool[i]] = <<>>
      BY <1>1, <1>2, <3>1 DEF Pooled
    <3> QED
      BY <1>3, <1>4, <3>2
  <2>3. \A i, j \in 1 .. n : pool'[i] = pool'[j] => i = j
    <3> TAKE i, j \in 1 .. n
    <3>1. i \in DOMAIN pool /\ j \in DOMAIN pool
      BY <1>2
    <3> QED
      BY <1>1, <1>3, <3>1 DEF Pooled
  <2> QED
    BY <1>3, <2>1, <2>2, <2>3 DEF Pooled
<1>7. Others(r)
  <2> SUFFICES ASSUME NEW q \in Request \ {r}, http[q].at \in Holding
               PROVE  /\ incoming'[http[q].conn] = incoming[http[q].conn]
                      /\ server'[http[q].conn] # "none"
                      /\ \A i \in DOMAIN pool' : pool'[i] # http[q].conn
    BY DEF Others
  <2>1. http[q].conn \in Conn /\ Owner(q, http[q].conn)
    BY DEF HttpInv, Requests, Connections, Knows
  <2>2. http[q].conn \notin cs
    BY <1>2, <2>1 DEF Owner, cs
  <2>3. \A i \in 1 .. n : pool'[i] # http[q].conn
    BY <1>2, <1>3, <2>1 DEF Owner
  <2> QED
    BY <1>3, <1>4, <2>1, <2>2, <2>3 DEF Owner
<1>8. ASSUME NEW i \in n + 1 .. m - 1
      PROVE  /\ server'[pool[i]] # "none" /\ incoming'[pool[i]] = <<>>
             /\ \A j \in DOMAIN pool' : pool'[j] # pool[i]
  <2>1. i \in 1 .. m - 1
    BY <1>2
  <2>2. /\ pool[i] \in Conn /\ pool[i] \notin cs /\ server[pool[i]] # "none"
        /\ incoming[pool[i]] = <<>>
    BY <1>1, <1>2, <2>1 DEF Pooled
  <2>3. \A j \in 1 .. n : pool[j] # pool[i]
    BY <1>1, <1>2, <2>1 DEF Pooled
  <2> QED
    BY <1>3, <1>4, <2>2, <2>3
<1> QED
  BY <1>5, <1>6, <1>7, <1>8

\* acquire finds nothing it can use, and drops it all.
LEMMA KeepsAcquireNew ==
    ASSUME HttpAssumption, HttpInv, NEW r \in Request, AcquireNew(r)
    PROVE  HttpInv'
<1> DEFINE h == [http[r] EXCEPT !.at = "connect"]
<1>1. /\ http[r] \in Coroutine /\ http[r].at = "acquire" /\ pool \in Seq(Conn)
      /\ Knows(r, http[r], incoming[http[r].conn])
  BY DEF AcquireNew, HttpInv, HttpTypeOK, Requests
<1>2. http[r].conn = NoConn /\ Quiet(http[r])
  BY <1>1 DEF Knows, Holding, Exchanging, Coroutine
<1>3. http' = [http EXCEPT ![r] = h]
  BY DEF AcquireNew
<1>4. /\ h \in Coroutine /\ h.at = "connect" /\ h.conn = NoConn
      /\ h.own = http[r].own /\ h.answer = http[r].answer /\ h.length = http[r].length
      /\ h.reusable = http[r].reusable /\ h.tokens = http[r].tokens
      /\ h.fresh = http[r].fresh /\ h.reused = http[r].reused
  BY <1>1, <1>2 DEF Coroutine, Resting
<1> HIDE DEF h
<1>5. Quiet(h)
  BY <1>1, <1>2, <1>4 DEF Quiet, Given
<1>6. Moved(r, h)
  BY <1>3, <1>4, <1>5, MovedAway DEF Resting, Holding, Exchanging
<1>7. ConnectionTypes' /\ Pooled' /\ Others(r)
  <2>1. 0 \in 0 .. Len(pool) /\ pool' = SubSeq(pool, 1, 0) /\ 1 \in Nat /\ 1 > 0
        /\ 1 <= Len(pool) + 1 /\ DOMAIN pool = 1 .. Len(pool)
    BY <1>1 DEF AcquireNew
  <2>2. DiscardAll({pool[j] : j \in 1 .. Len(pool)})
    BY <2>1 DEF AcquireNew
  <2> QED
    BY <2>1, <2>2, DropKeeps
<1> QED
  BY <1>6, <1>7, StepKeeps

\* acquire takes the youngest live connection and drops the dead ones after
\* it.
LEMMA KeepsAcquirePooled ==
    ASSUME HttpAssumption, HttpInv, NEW r \in Request, AcquirePooled(r)
    PROVE  HttpInv'
<1>1. /\ http[r] \in Coroutine /\ http[r].at = "acquire" /\ pool \in Seq(Conn)
      /\ Knows(r, http[r], incoming[http[r].conn]) /\ Connections /\ Requests
      /\ Len(pool) \in Nat /\ DOMAIN pool = 1 .. Len(pool) /\ tls \in BOOLEAN
  BY DEF AcquirePooled, HttpInv, HttpTypeOK, Requests, HttpAssumption
<1>2. PICK n \in 1 .. Len(pool) :
        /\ pool' = SubSeq(pool, 1, n - 1)
        /\ DiscardAll({pool[j] : j \in n + 1 .. Len(pool)})
        /\ http' = [http EXCEPT ![r] = [@ EXCEPT !.at = "send", !.conn = pool[n],
                                                 !.session = tls,
                                                 !.reused = http[r].reused \/ tls]]
  BY <1>1 DEF AcquirePooled
<1> DEFINE yes == (http[r].reused \/ tls)
           h == [http[r] EXCEPT !.at = "send", !.conn = pool[n], !.session = tls,
                                !.reused = yes]
<1>3. http' = [http EXCEPT ![r] = h] /\ pool[n] \in Conn
  <2>1. http' = [http EXCEPT ![r] = h]
    BY <1>2, Zenon
  <2>2. pool[n] \in Conn
    BY <1>1
  <2> QED
    BY <2>1, <2>2
<1>4. yes \in BOOLEAN /\ (http[r].reused => yes)
  OBVIOUS
<1> HIDE DEF yes
<1>5. /\ h \in Coroutine /\ h.at = "send" /\ h.conn = pool[n]
      /\ h.own = http[r].own /\ h.answer = http[r].answer /\ h.length = http[r].length
      /\ h.reusable = http[r].reusable /\ h.tokens = http[r].tokens
      /\ h.fresh = http[r].fresh /\ (http[r].reused => h.reused)
  BY <1>1, <1>3, <1>4 DEF Coroutine, Resting, Holding
<1> HIDE DEF h
<1>6. Quiet(h)
  <2>1. Quiet(http[r])
    BY <1>1 DEF Knows, Holding, Exchanging
  <2> QED
    BY <1>1, <1>5, <2>1 DEF Quiet, Given
<1>7. /\ ConnectionTypes' /\ Pooled' /\ Others(r)
      /\ server'[pool[n]] # "none" /\ incoming'[pool[n]] = <<>>
      /\ \A j \in DOMAIN pool' : pool'[j] # pool[n]
  <2>1. n - 1 \in 0 .. Len(pool) /\ n + 1 \in Nat /\ n + 1 > n - 1 /\ n + 1 <= Len(pool) + 1
        /\ n \in (n - 1) + 1 .. (n + 1) - 1
    BY <1>1
  <2> QED
    BY <1>2, <2>1, DropKeeps
<1>8. \A q \in Request \ {r} : http[q].conn # pool[n]
  BY <1>1, <1>3 DEF Connections, Requests, Knows, Owner
<1>9. Moved(r, h)
  <2> DEFINE c == pool[n]
  <2>1. /\ http' = [http EXCEPT ![r] = h] /\ h.conn = c /\ h \in Coroutine /\ h.at = "send"
        /\ Quiet(h) /\ c \in Conn /\ server'[c] # "none" /\ incoming'[c] = <<>>
        /\ \A i \in DOMAIN pool' : pool'[i] # c
        /\ \A q \in Request \ {r} : http[q].conn # c
    BY <1>3, <1>5, <1>6, <1>7, <1>8
  <2> HIDE DEF c
  <2> QED
    BY <2>1 DEF Moved, Knows, Resting, Holding, Exchanging
<1> QED
  BY <1>7, <1>9, StepKeeps

\* The connection is made.
LEMMA KeepsConnect ==
    ASSUME HttpAssumption, HttpInv, NEW r \in Request, async_connect(r)
    PROVE  HttpInv'
<1> DEFINE c == CHOOSE c \in Conn : server[c] = "none"
           at == IF tls THEN "handshake" ELSE "send"
           h == [http[r] EXCEPT !.at = at, !.conn = c]
<1>1. /\ http[r] \in Coroutine /\ http[r].at = "connect"
      /\ Knows(r, http[r], incoming[http[r].conn]) /\ Connections /\ Requests
      /\ HttpTypeOK
  BY DEF async_connect, HttpInv, HttpTypeOK, Requests
<1>2. c \in Conn /\ server[c] = "none"
  BY DEF async_connect
<1>3. /\ server' = [server EXCEPT ![c] = "open"] /\ http' = [http EXCEPT ![r] = h]
      /\ UNCHANGED <<pool, incoming>>
  BY DEF async_connect
<1>4. at \in {"handshake", "send"}
  OBVIOUS
<1> HIDE DEF c, at
<1>5. /\ h \in Coroutine /\ h.at = at /\ h.conn = c
      /\ h.own = http[r].own /\ h.answer = http[r].answer /\ h.length = http[r].length
      /\ h.reusable = http[r].reusable /\ h.tokens = http[r].tokens
      /\ h.fresh = http[r].fresh /\ h.reused = http[r].reused
  BY <1>1, <1>2, <1>4 DEF Coroutine, Resting, Holding
<1> HIDE DEF h
<1>6. Quiet(h)
  <2>1. Quiet(http[r])
    BY <1>1 DEF Knows, Holding, Exchanging
  <2> QED
    BY <1>1, <1>5, <2>1 DEF Quiet, Given
<1>7. /\ server'[c] = "open" /\ incoming'[c] = <<>>
      /\ \A d \in Conn : d # c => server'[d] = server[d]
  BY <1>1, <1>2, <1>3 DEF HttpTypeOK, Connections, Pooled
<1>8. /\ \A i \in DOMAIN pool : pool[i] \in Conn /\ pool[i] # c
      /\ \A q \in Request : http[q].at \in Holding => http[q].conn # c
  BY <1>1, <1>2 DEF HttpTypeOK, Connections, Pooled, Owner
<1>9. ConnectionTypes'
  BY <1>1, <1>2, <1>3 DEF HttpTypeOK, ConnectionTypes
<1>10. Pooled'
  BY <1>1, <1>3, <1>7, <1>8 DEF Connections, Pooled
<1>11. Others(r)
  <2> SUFFICES ASSUME NEW q \in Request \ {r}, http[q].at \in Holding
               PROVE  /\ incoming'[http[q].conn] = incoming[http[q].conn]
                      /\ server'[http[q].conn] # "none"
                      /\ \A i \in DOMAIN pool' : pool'[i] # http[q].conn
    BY DEF Others
  <2>1. http[q].conn \in Conn /\ Owner(q, http[q].conn)
    BY <1>1 DEF Requests, Connections, Knows
  <2> QED
    BY <1>3, <1>7, <1>8, <2>1 DEF Owner
<1>12. Moved(r, h)
  <2>1. \A q \in Request \ {r} : http[q].conn # c
    BY <1>1, <1>2, <1>8 DEF Requests, Knows
  <2> QED
    BY <1>2, <1>3, <1>4, <1>5, <1>6, <1>7, <1>8, <2>1
    DEF Moved, Knows, Resting, Holding, Exchanging
<1> QED
  BY <1>9, <1>10, <1>11, <1>12, StepKeeps

\* A request that goes on with the connection it has.
LEMMA GoesOn ==
    ASSUME HttpAssumption, HttpInv, NEW r \in Request, http[r].at \in Holding, UNCHANGED pool,
           NEW w \in Seq(UnitKind), incoming' = [incoming EXCEPT ![http[r].conn] = w],
           NEW s \in {"open", "silent", "closed", "reset"},
           server' = [server EXCEPT ![http[r].conn] = s],
           NEW h \in Coroutine, http' = [http EXCEPT ![r] = h], h.conn = http[r].conn,
           Knows(r, h, w)
    PROVE  HttpInv'
<1> DEFINE c == http[r].conn
<1>1. c \in Conn /\ Owner(r, c) /\ Connections /\ Requests /\ HttpTypeOK
  BY DEF HttpInv, Requests, Connections, Knows
<1> HIDE DEF c
<1>2. /\ incoming'[c] = w /\ server'[c] = s
      /\ \A d \in Conn : d # c => incoming'[d] = incoming[d] /\ server'[d] = server[d]
  BY <1>1 DEF HttpTypeOK, c
<1>3. \A i \in DOMAIN pool : pool[i] \in Conn /\ pool[i] # c
  BY <1>1 DEF HttpTypeOK, Owner
<1>4. ConnectionTypes'
  BY <1>1 DEF HttpTypeOK, ConnectionTypes, c
<1>5. Pooled'
  BY <1>1, <1>2, <1>3 DEF Connections, Pooled
<1>6. Others(r)
  <2> SUFFICES ASSUME NEW q \in Request \ {r}, http[q].at \in Holding
               PROVE  /\ incoming'[http[q].conn] = incoming[http[q].conn]
                      /\ server'[http[q].conn] # "none"
                      /\ \A i \in DOMAIN pool' : pool'[i] # http[q].conn
    BY DEF Others
  <2>1. http[q].conn \in Conn /\ Owner(q, http[q].conn) /\ http[q].conn # c
    BY <1>1 DEF Requests, Connections, Knows, Owner
  <2> QED
    BY <1>2, <2>1 DEF Owner
<1>7. Moved(r, h)
  BY <1>1, <1>2, <1>3 DEF Moved, Owner, c
<1> QED
  BY <1>4, <1>5, <1>6, <1>7, StepKeeps

\* The TLS handshake ends.
LEMMA KeepsHandshake ==
    ASSUME HttpAssumption, HttpInv, NEW r \in Request, handshake(r)
    PROVE  HttpInv'
<1> DEFINE h == [http[r] EXCEPT !.at = "send"]
<1>1. /\ http[r] \in Coroutine /\ http[r].at = "handshake" /\ http[r].at \in Holding
      /\ Knows(r, http[r], incoming[http[r].conn]) /\ HttpTypeOK
  BY DEF handshake, HttpInv, HttpTypeOK, Requests, Holding
<1>2. http[r].conn \in Conn /\ incoming[http[r].conn] = <<>> /\ Quiet(http[r])
  BY <1>1 DEF Knows, Holding, Exchanging
<1>3. CASE server[http[r].conn] = "open" /\ Go(r, h)
  <2>1. /\ h \in Coroutine /\ h.at = "send" /\ h.conn = http[r].conn
        /\ h.own = http[r].own /\ h.answer = http[r].answer /\ h.length = http[r].length
        /\ h.reusable = http[r].reusable /\ h.tokens = http[r].tokens
        /\ h.fresh = http[r].fresh /\ h.reused = http[r].reused
    BY <1>1 DEF Coroutine, Resting, Holding
  <2>2. http' = [http EXCEPT ![r] = h] /\ UNCHANGED <<pool, incoming, server>>
    BY <1>3 DEF Go
  <2> HIDE DEF h
  <2>3. Quiet(h)
    BY <1>1, <1>2, <2>1 DEF Quiet, Given
  <2>4. Knows(r, h, <<>>)
    BY <1>2, <2>1, <2>3 DEF Knows, Resting, Holding, Exchanging
  <2>5. /\ incoming' = [incoming EXCEPT ![http[r].conn] = <<>>]
        /\ server' = [server EXCEPT ![http[r].conn] = "open"]
    BY <1>1, <1>2, <1>3, <2>2 DEF HttpTypeOK
  <2>6. <<>> \in Seq(UnitKind)
    OBVIOUS
  <2> QED
    BY <1>1, <2>1, <2>2, <2>4, <2>5, <2>6, GoesOn
<1>4. CASE Fail(r, http[r], "handshake")
  <2>1. PICK k \in Nat : Given(http[r], k)
    BY <1>2 DEF Quiet
  <2> QED
    BY <1>1, <1>2, <1>4, <2>1, FailKeeps DEF Quiet
<1> QED
  BY <1>3, <1>4 DEF handshake

\* The request goes out, and the server has an answer to it.
LEMMA KeepsSend ==
    ASSUME HttpAssumption, HttpInv, NEW r \in Request, Send(r)
    PROVE  HttpInv'
<1> DEFINE c == http[r].conn
           h == [http[r] EXCEPT !.at = "head"]
<1>1. /\ http[r] \in Coroutine /\ http[r].at = "send" /\ http[r].at \in Holding
      /\ Knows(r, http[r], incoming[c]) /\ HttpTypeOK
  BY DEF Send, HttpInv, HttpTypeOK, Requests, Holding
<1>2. c \in Conn /\ incoming[c] = <<>> /\ Quiet(http[r])
  BY <1>1 DEF Knows, Holding, Exchanging
<1>3. PICK k \in Nat : Given(http[r], k) /\ Len(http[r].tokens) = k
  BY <1>1, <1>2 DEF Quiet
<1>4. /\ h \in Coroutine /\ h.at = "head" /\ h.conn = c
      /\ h.own = http[r].own /\ h.answer = http[r].answer /\ h.length = http[r].length
      /\ h.reusable = http[r].reusable /\ h.tokens = http[r].tokens
      /\ h.fresh = http[r].fresh /\ h.reused = http[r].reused
  BY <1>1 DEF Coroutine, Resting, Holding, Exchanging
<1>5. /\ \/ server[c] = "reset" /\ Fail(r, http[r], "write")
         \/ server[c] \in {"silent", "closed"} /\ Go(r, h)
         \/ /\ server[c] = "open"
            /\ \E a \in Answers[r] :
                  /\ incoming' = [incoming EXCEPT ![c] = @ \o Units(r, a)]
                  /\ server' = [server EXCEPT ![c] = IF a.reuse THEN @ ELSE "closed"]
            /\ http' = [http EXCEPT ![r] = h]
            /\ UNCHANGED pool
  BY DEF Send
<1> HIDE DEF h
<1>6. ASSUME NEW a \in AnswerKind, NEW w \in Seq(UnitKind), Segment(r, a, 0, w)
      PROVE  Knows(r, h, w)
  <2>1. Size(a) \in Nat
    BY DEF HttpAssumption, Size
  <2>2. Given(h, k)
    BY <1>3, <1>4 DEF Given
  <2>3. Parsed(h, a, 0)
    BY <1>2, <1>4, <2>1 DEF Parsed, Quiet, Exchanging
  <2>4. Fed(r, h, 0, k)
    BY <1>3, <1>4, <2>2 DEF Fed
  <2> QED
    BY <1>2, <1>4, <1>6, <2>3, <2>4 DEF Knows, Resting, Holding, Exchanging
<1>7. CASE server[c] = "reset" /\ Fail(r, http[r], "write")
  BY <1>1, <1>2, <1>3, <1>7, FailKeeps DEF Quiet
<1>8. CASE server[c] \in {"silent", "closed"} /\ Go(r, h)
  <2>1. Knows(r, h, <<>>)
    <3>1. NoAnswer \in AnswerKind
      BY DEF NoAnswer, AnswerKind
    <3>2. <<>> \in Seq(UnitKind) /\ Segment(r, NoAnswer, 0, <<>>)
      BY DEF Segment, Size, HttpAssumption
    <3> QED
      BY <1>6, <3>1, <3>2
  <2>2. http' = [http EXCEPT ![r] = h] /\ UNCHANGED <<pool, incoming, server>>
    BY <1>8 DEF Go
  <2>3. /\ incoming' = [incoming EXCEPT ![c] = <<>>]
        /\ server' = [server EXCEPT ![c] = server[c]]
    BY <1>1, <1>2, <2>2 DEF HttpTypeOK
  <2>4. <<>> \in Seq(UnitKind)
    OBVIOUS
  <2> QED
    BY <1>1, <1>4, <1>8, <2>1, <2>2, <2>3, <2>4, GoesOn
<1>9. ASSUME server[c] = "open", NEW a \in Answers[r],
             incoming' = [incoming EXCEPT ![c] = @ \o Units(r, a)],
             server' = [server EXCEPT ![c] = IF a.reuse THEN @ ELSE "closed"],
             http' = [http EXCEPT ![r] = h], UNCHANGED pool
      PROVE  HttpInv'
  <2>1. a \in AnswerKind
    BY DEF HttpAssumption, AnswerKind
  <2> DEFINE w == Units(r, a)
  <2>2. w \in Seq(UnitKind) /\ Segment(r, a, 0, w)
    BY <2>1, UnitsShape
  <2>3. incoming' = [incoming EXCEPT ![c] = w]
    BY <1>2, <1>9, <2>2
  <2>4. PICK s \in {"open", "silent", "closed", "reset"} : server' = [server EXCEPT ![c] = s]
    BY <1>9
  <2> HIDE DEF w
  <2>5. Knows(r, h, w)
    BY <1>6, <2>1, <2>2
  <2> QED
    BY <1>1, <1>4, <1>9, <2>2, <2>3, <2>4, <2>5, GoesOn
<1> QED
  BY <1>5, <1>7, <1>8, <1>9

\* What is true of a coroutine in an exchange.
LEMMA ExchangeFacts ==
    ASSUME HttpInv, NEW r \in Request, http[r].at \in Exchanging
    PROVE  /\ http[r] \in Coroutine /\ http[r].conn \in Conn /\ http[r].own
           /\ http[r].at \in Holding /\ ~http[r].reusable
           /\ \E k \in Nat : Given(http[r], k)
<1>1. /\ http[r] \in Coroutine /\ http[r].at \in Holding
      /\ Knows(r, http[r], incoming[http[r].conn])
  BY DEF HttpInv, HttpTypeOK, Requests, Holding
<1> QED
  BY <1>1 DEF Knows, Parsed, Fed, Exchanging

\* The answer is cut short.
LEMMA KeepsReadEnds ==
    ASSUME HttpAssumption, HttpInv, NEW r \in Request,
           ReadEof(r) \/ ReadFails(r) \/ ResponseTimeout(r) \/ TimeoutMissed(r)
    PROVE  HttpInv'
<1>1. http[r].at \in Exchanging
  BY DEF ReadEof, ReadFails, ResponseTimeout, TimeoutMissed, TimeoutDue, Armed, Reading, Exchanging
<1>2. /\ http[r] \in Coroutine /\ http[r].conn \in Conn /\ http[r].own
      /\ http[r].at \in Holding /\ ~http[r].reusable
  BY <1>1, ExchangeFacts
<1>3. PICK k \in Nat : Given(http[r], k)
  BY <1>1, ExchangeFacts
<1>4. CASE ReadEof(r)
  BY <1>2, <1>3, <1>4, FinishKeeps DEF ReadEof
<1>5. CASE ReadFails(r)
  BY <1>2, <1>3, <1>5, FailKeeps DEF ReadFails
<1>6. CASE ResponseTimeout(r)
  BY <1>2, <1>3, <1>6, FailKeeps DEF ResponseTimeout
<1>7. CASE TimeoutMissed(r)
  <2> DEFINE l == Left(http[r], "lost")
  <2>1. /\ Discard(http[r].conn) /\ UNCHANGED pool
        /\ http' = [http EXCEPT ![r] = l]
    BY <1>7 DEF TimeoutMissed, HttpInv, HttpTypeOK
  <2>2. LeftAs(l, http[r], "lost")
    BY <1>2, LeftType
  <2> HIDE DEF l
  <2>3. Quiet(l)
    BY <1>2, <1>3, <2>2 DEF Quiet, Given, LeftAs
  <2>4. Moved(r, l)
    BY <2>1, <2>2, <2>3, MovedAway DEF LeftAs, Resting, Holding, Exchanging
  <2>5. ConnectionTypes' /\ Pooled' /\ Others(r)
    BY <1>2, <2>1, DiscardKeeps
  <2> QED
    BY <2>4, <2>5, StepKeeps
<1> QED
  BY <1>4, <1>5, <1>6, <1>7

\* The coroutine reads and parses what has arrived.
LEMMA KeepsRead ==
    ASSUME HttpAssumption, HttpInv, NEW r \in Request, Read(r)
    PROVE  HttpInv'
<1> DEFINE c == http[r].conn
           w == incoming[c]
<1>1. http[r].at \in Exchanging
  BY DEF Read, Reading, Exchanging
<1>2. /\ http[r] \in Coroutine /\ c \in Conn /\ http[r].at \in Holding
      /\ HttpTypeOK /\ Knows(r, http[r], w)
  BY <1>1, ExchangeFacts DEF HttpInv, Requests
<1>3. w \in Seq(UnitKind)
  BY <1>2 DEF HttpTypeOK
<1>4. PICK n \in 1 .. Len(w) :
        LET h == ParseAll(r, http[r], SubSeq(w, 1, n))
            unread == SubSeq(w, n + 1, Len(w))
        IN  CASE h.at = "throws" -> Fail(r, h, "cancelled")
              [] h.at \in {"over", "stops", "bare"} -> Finish(r, h, unread)
              [] OTHER -> /\ http' = [http EXCEPT ![r] = StartDrain(h)]
                          /\ incoming' = [incoming EXCEPT ![c] = unread]
                          /\ UNCHANGED <<pool, server>>
  BY DEF Read
<1> DEFINE s == SubSeq(w, 1, n)
           t == SubSeq(w, n + 1, Len(w))
           h == ParseAll(r, http[r], s)
<1>5. /\ h.at = "throws" => Fail(r, h, "cancelled")
      /\ h.at \in {"over", "stops", "bare"} => Finish(r, h, t)
      /\ h.at \notin {"throws", "over", "stops", "bare"} =>
            /\ http' = [http EXCEPT ![r] = StartDrain(h)]
            /\ incoming' = [incoming EXCEPT ![c] = t]
            /\ UNCHANGED <<pool, server>>
  <2> HIDE DEF h, t
  <2> QED
    BY <1>4 DEF h, t
<1>6. PICK a \in AnswerKind, p \in Nat, k \in Nat :
        Parsed(http[r], a, p) /\ Fed(r, http[r], p, k) /\ Segment(r, a, p, w)
  BY <1>1, <1>2 DEF Knows
<1>7. Size(a) \in Nat /\ n \in 0 .. Len(w) /\ n \in Nat
  BY <1>3 DEF HttpAssumption, Size
<1>8. /\ s \in Seq(UnitKind) /\ Len(s) = n /\ t \in Seq(UnitKind) /\ Len(t) = Len(w) - n
      /\ Segment(r, a, p, s) /\ Segment(r, a, p + n, t)
  <2>1. Segment(r, a, p, w) /\ a \in AnswerKind /\ p \in Nat /\ Size(a) \in Nat
    BY <1>6, <1>7
  <2> HIDE DEF w
  <2> QED
    BY <1>3, <1>7, <2>1, Split
<1>9. h \in Coroutine /\ Parsed(h, a, p + n) /\ Fed(r, h, p + n, k) /\ Same(h, http[r])
  BY <1>2, <1>6, <1>8, ParseAllParsed
<1> HIDE DEF h, s, t, w
<1>10. h.own /\ Given(h, k) /\ h.conn = c
  BY <1>9 DEF Parsed, Fed, Same
<1>11. h.reusable => t = <<>>
  <2>1. h.reusable => p + n = Size(a)
    BY <1>9 DEF Parsed
  <2>2. (p + n) + Len(t) <= Size(a) /\ Len(t) \in Nat
    BY <1>8 DEF Segment
  <2>3. h.reusable => Len(t) = 0
    BY <1>7, <2>1, <2>2
  <2> QED
    BY <1>8, <2>3
<1>12. CASE h.at = "throws"
  BY <1>2, <1>5, <1>9, <1>10, <1>12, FailKeeps
<1>13. CASE h.at \in {"over", "stops", "bare"}
  BY <1>2, <1>5, <1>9, <1>10, <1>11, <1>13, FinishKeeps
<1>14. CASE h.at \notin {"throws", "over", "stops", "bare"}
  <2> DEFINE g == StartDrain(h)
  <2>1. h.at \in Exchanging \cup {"drop"}
    BY <1>9, <1>14 DEF Parsed, Passing
  <2>2. /\ g \in Coroutine /\ Same(g, h) /\ g.tokens = h.tokens /\ g.answer = h.answer
        /\ g.length = h.length /\ g.own = h.own /\ g.reusable = h.reusable
        /\ g.at = IF h.at = "drop" THEN "drain" ELSE h.at
    <3>1. CASE h.at = "drop"
      <4>1. g = [h EXCEPT !.at = "drain"]
        BY <3>1 DEF StartDrain
      <4> HIDE DEF g
      <4> QED
        BY <1>9, <3>1, <4>1 DEF Same, Coroutine, Resting, Holding, Exchanging
    <3>2. CASE h.at # "drop"
      <4>1. g = h
        BY <3>2 DEF StartDrain
      <4> QED
        BY <1>9, <3>2, <4>1 DEF Same
    <3> QED
      BY <3>1, <3>2
  <2> HIDE DEF g
  <2>3. g.at \in Exchanging /\ g.conn = c
    BY <1>10, <2>1, <2>2 DEF Exchanging, Same
  <2>4. Parsed(g, a, p + n)
    BY <1>7, <1>9, <2>1, <2>2 DEF Parsed, Exchanging
  <2>5. Fed(r, g, p + n, k)
    <3>1. Given(g, k)
      BY <1>10, <2>2 DEF Given, Same
    <3>2. ParserStopped(r, g) <=> ParserStopped(r, h)
      BY <2>2 DEF ParserStopped
    <3> QED
      BY <1>9, <2>2, <3>1, <3>2 DEF Fed
  <2>6. Knows(r, g, t)
    <3>1. p + n \in Nat
      BY <1>7
    <3> QED
      BY <1>2, <1>8, <2>3, <2>4, <2>5, <3>1 DEF Knows, Resting, Holding, Exchanging
  <2>7. /\ http' = [http EXCEPT ![r] = g] /\ incoming' = [incoming EXCEPT ![c] = t]
        /\ UNCHANGED <<pool, server>>
    BY <1>5, <1>14 DEF g
  <2>8. /\ server' = [server EXCEPT ![c] = server[c]]
        /\ server[c] \in {"open", "silent", "closed", "reset"}
    <3>1. Owner(r, c)
      BY <1>2 DEF HttpInv, Connections
    <3> QED
      BY <1>2, <2>7, <3>1 DEF HttpTypeOK, Owner
  <2> QED
    BY <1>2, <1>8, <2>2, <2>3, <2>6, <2>7, <2>8, GoesOn
<1> QED
  BY <1>12, <1>13, <1>14

\* The server falls silent, closes or resets.
LEMMA KeepsServerFails ==
    ASSUME HttpAssumption, HttpInv, NEW c \in Conn, NEW how \in {"silent", "closed", "reset"},
           ServerFails(c, how)
    PROVE  HttpInv'
<1>1. /\ HttpTypeOK /\ Requests /\ Connections /\ server[c] # "none"
      /\ UNCHANGED <<pool, http>>
  BY DEF HttpInv, ServerFails
<1>2. PICK n \in 0 .. Len(incoming[c]) : incoming' = [incoming EXCEPT ![c] = SubSeq(@, 1, n)]
  BY DEF ServerFails
<1>3. server' = [server EXCEPT ![c] = how]
  BY DEF ServerFails
<1> DEFINE w == incoming[c]
           s == SubSeq(w, 1, n)
<1>4. /\ w \in Seq(UnitKind) /\ s \in Seq(UnitKind) /\ (w = <<>> => s = <<>>)
      /\ Len(s) = n /\ \A i \in 1 .. n : s[i] = w[i]
  BY <1>1 DEF HttpTypeOK
<1>5. /\ incoming'[c] = s /\ server'[c] = how
      /\ \A d \in Conn : d # c => incoming'[d] = incoming[d] /\ server'[d] = server[d]
      /\ incoming' \in [Conn -> Seq(UnitKind)]
      /\ server' \in [Conn -> {"none", "open", "silent", "closed", "reset"}]
  BY <1>1, <1>2, <1>3, <1>4 DEF HttpTypeOK
<1> HIDE DEF s
<1>6. HttpTypeOK'
  BY <1>1, <1>5 DEF HttpTypeOK
<1>7. Connections'
  <2>1. \A i \in DOMAIN pool : pool[i] \in Conn
    BY <1>1 DEF HttpTypeOK
  <2>2. Pooled'
    <3>1. \A d \in Conn : incoming[d] = <<>> => incoming'[d] = <<>>
      BY <1>4, <1>5
    <3>2. \A d \in Conn : server'[d] = "none" => server[d] = "none"
      BY <1>5
    <3>3. \A d \in Conn : server[d] # "none" => server'[d] # "none"
      BY <1>5
    <3> QED
      BY <1>1, <2>1, <3>1, <3>2, <3>3 DEF Connections, Pooled
  <2>3. ASSUME NEW r \in Request, http[r].at \in Holding PROVE Owner(r, http[r].conn)'
    <3>1. http[r].conn \in Conn /\ Owner(r, http[r].conn)
      BY <1>1, <2>3 DEF Requests, Connections, Knows
    <3> QED
      BY <1>1, <1>5, <3>1 DEF Owner
  <2> QED
    BY <1>1, <2>2, <2>3 DEF Connections
<1>8. Requests'
  <2> SUFFICES ASSUME NEW r \in Request PROVE Knows(r, http[r], incoming'[http[r].conn])
    BY <1>1 DEF Requests
  <2>1. Knows(r, http[r], incoming[http[r].conn])
    BY <1>1 DEF Requests
  <2>2. CASE http[r].conn = c
    <3>1. ASSUME http[r].at \in Exchanging
          PROVE  \E a \in AnswerKind, p \in Nat, k \in Nat :
                    Parsed(http[r], a, p) /\ Fed(r, http[r], p, k) /\ Segment(r, a, p, s)
      <4>1. PICK a \in AnswerKind, p \in Nat, k \in Nat :
              Parsed(http[r], a, p) /\ Fed(r, http[r], p, k) /\ Segment(r, a, p, w)
        BY <2>1, <2>2, <3>1 DEF Knows
      <4>2. Size(a) \in Nat
        BY DEF HttpAssumption, Size
      <4>3. Segment(r, a, p, s)
        BY <1>4, <4>1, <4>2, Split DEF s
      <4> QED
        BY <4>1, <4>3
    <3>2. Knows(r, http[r], s)
      BY <1>4, <2>1, <2>2, <3>1 DEF Knows
    <3> QED
      BY <1>5, <2>2, <3>2
  <2>3. CASE http[r].conn # c
    <3>1. CASE http[r].at \in Holding
      BY <1>5, <2>1, <2>3, <3>1 DEF Knows
    <3>2. CASE http[r].at \notin Holding
      BY <2>1, <3>2 DEF Knows, Holding
    <3> QED
      BY <3>1, <3>2
  <2> QED
    BY <2>2, <2>3
<1> QED
  BY <1>6, <1>7, <1>8 DEF HttpInv

\* A step that leaves the requests and the connections alone.
LEMMA KeepsHttp ==
    ASSUME HttpInv, UNCHANGED <<pool, incoming, server, http>>
    PROVE  HttpInv'
BY DEF HttpInv, HttpTypeOK, Requests, Connections, Pooled, Owner

\* Every step of the client.
LEMMA KeepsHttpStep ==
    ASSUME HttpAssumption, HttpInv, NEW r \in Request, HttpStep(r)
    PROVE  HttpInv'
BY KeepsAcquirePooled, KeepsAcquireNew, KeepsConnect, KeepsConnectFails, KeepsHandshake,
   KeepsSend, KeepsRead, KeepsReadEnds DEF HttpStep

-----------------------------------------------------------------------------
(* Calls.                                                                  *)

Names(candidates) == {candidates[i] : i \in 1 .. Len(candidates)}

CallKind == [at : {"none", "try", "request", "sleep", "ended"}, candidates : Seq(Model),
             index : Nat, attempt : Nat,
             result : {"none", "ok", "busy", "bad", "threw", "cancelled"}]

\* A plain call c whose failures are f; asked: its token is cancelled. What
\* has failed is what comes before the current candidate.
Tried(c, f, asked) ==
    /\ c.at \in {"try", "request", "sleep"} =>
         /\ c.result = "none"
         /\ c.index \in 1 .. Len(c.candidates)
         /\ f = {c.candidates[i] : i \in 1 .. c.index - 1}
         /\ Primary \in Names(c.candidates)
    /\ c.result = "threw" => f = {Primary} \cup Names(c.candidates)
    /\ c.result = "cancelled" => asked

CallInv ==
    /\ call \in [Request -> CallKind] /\ failed \in [Request -> SUBSET Model]
    /\ \A r \in Request \ Streaming : Tried(call[r], failed[r], r \in cancelled)

\* The primary model is always among the candidates.
LEMMA CandidatesShape ==
    ASSUME ProviderAssumption, NEW m \in Overrides
    PROVE  /\ build_candidates(m) \in Seq(Model) /\ build_candidates(m) # <<>>
           /\ Primary \in Names(build_candidates(m))
<1> DEFINE n == Len(Fallbacks)
           S == {s \in Seq(Model) : s # <<>> /\ Primary \in Names(s)}
           first == IF m = Primary THEN <<Primary>> ELSE <<m, Primary>>
           Takes(i) == /\ Fallbacks[i] \notin cooling
                       /\ Fallbacks[i] \in Resolved \cup {m, Primary}
           step == [i \in 1 .. n |->
                      [s \in S |-> IF Takes(i) THEN Append(s, Fallbacks[i]) ELSE s]]
           Value(f, i) == IF i = 0 THEN first
                          ELSE IF Takes(i) THEN Append(f[i - 1], Fallbacks[i]) ELSE f[i - 1]
<1>1. n \in Nat /\ \A i \in 1 .. n : Fallbacks[i] \in Model
  BY DEF ProviderAssumption, Model, ToSet
<1>2. first \in S
  <2>1. Primary \in Model /\ m \in Model
    BY DEF Model
  <2>2. CASE m = Primary
    <3>1. first = <<Primary>> /\ first \in Seq(Model) /\ Len(first) = 1 /\ first[1] = Primary
      BY <2>1, <2>2
    <3> QED
      BY <3>1 DEF Names
  <2>3. CASE m # Primary
    <3>1. first = <<m, Primary>> /\ first \in Seq(Model) /\ Len(first) = 2
          /\ first[2] = Primary
      BY <2>1, <2>3
    <3> QED
      BY <3>1 DEF Names
  <2> QED
    BY <2>2, <2>3
<1>3. ASSUME NEW s \in S, NEW i \in 1 .. n PROVE Append(s, Fallbacks[i]) \in S
  <2>1. Fallbacks[i] \in Model /\ s \in Seq(Model)
    BY <1>1
  <2> DEFINE t == Append(s, Fallbacks[i])
  <2>2. t \in Seq(Model) /\ Len(t) = Len(s) + 1 /\ \A j \in 1 .. Len(s) : t[j] = s[j]
    BY <2>1
  <2>3. PICK j \in 1 .. Len(s) : s[j] = Primary
    BY DEF Names
  <2> HIDE DEF t
  <2>4. j \in 1 .. Len(t) /\ t[j] = Primary /\ t # <<>>
    BY <2>1, <2>2, <2>3
  <2>5. t \in S
    BY <2>2, <2>4 DEF Names
  <2> QED
    BY <2>5 DEF t
<1> HIDE DEF S, Takes
<1>4. step \in [1 .. n -> [S -> S]]
  BY <1>3
<1>5. \E f : f = [i \in 0 .. n |-> Value(f, i)]
  <2> HIDE DEF first
  <2>1. PICK f \in [0 .. n -> S] : f[0] = first /\ \A i \in 1 .. n : f[i] = step[i][f[i - 1]]
    <3> HIDE DEF step, n
    <3>1. n \in Nat /\ first \in S /\ step \in [1 .. n -> [S -> S]]
      BY <1>1, <1>2, <1>4
    <3>2. HasRun(S, first, n, step)
      BY <3>1, Loop
    <3> QED
      BY <3>2 DEF HasRun
  <2>2. \A i \in 0 .. n : f[i] = Value(f, i)
    <3> TAKE i \in 0 .. n
    <3>1. CASE i = 0
      BY <2>1, <3>1
    <3>2. CASE i # 0
      <4>1. i \in 1 .. n /\ i - 1 \in 0 .. n
        BY <1>1, <3>2
      <4>2. f[i] = step[i][f[i - 1]] /\ f[i - 1] \in S
        BY <2>1, <4>1
      <4> QED
        BY <3>2, <4>1, <4>2
    <3> QED
      BY <3>1, <3>2
  <2>3. f = [i \in 0 .. n |-> f[i]]
    BY <2>1
  <2>4. f = [i \in 0 .. n |-> Value(f, i)]
    <3> HIDE DEF Value, n
    <3>1. [i \in 0 .. n |-> f[i]] = [i \in 0 .. n |-> Value(f, i)]
      BY <2>2
    <3> QED
      BY <2>3, <3>1
  <2> QED
    BY <2>4, Zenon
<1> DEFINE f == CHOOSE f : f = [i \in 0 .. n |-> Value(f, i)]
<1>6. build_candidates(m) = f[n]
  BY Zenon DEF build_candidates, Takes
<1>7. f = [i \in 0 .. n |-> Value(f, i)]
  <2> HIDE DEF n, Value
  <2> QED
    BY <1>5, Zenon
<1> HIDE DEF f
<1>8. \A i \in 0 .. n : f[i] = Value(f, i)
  <2> HIDE DEF Value, n
  <2> QED
    BY <1>7, Zenon
<1>9. f[n] \in S
  <2> DEFINE Bad == {i \in 0 .. n : f[i] \notin S}
  <2> SUFFICES ASSUME Bad # {} PROVE FALSE
    BY <1>1
  <2>1. Bad \in SUBSET Nat
    BY <1>1
  <2>2. PICK i \in Bad : \A j \in Bad : i <= j
    <3> HIDE DEF Bad
    <3> QED
      BY <2>1, LeastNumber
  <2>3. i \in 0 .. n /\ f[i] \notin S
    BY <2>2
  <2>4. i # 0
    BY <1>2, <1>8, <2>3
  <2>5. i - 1 \in 0 .. n /\ i - 1 \notin Bad
    <3>1. i - 1 \in 0 .. n /\ ~ (i <= i - 1)
      BY <1>1, <2>3, <2>4
    <3> QED
      BY <2>2, <3>1
  <2>6. f[i - 1] \in S /\ i \in 1 .. n
    BY <1>1, <2>3, <2>4, <2>5
  <2> QED
    BY <1>3, <1>8, <2>3, <2>4, <2>6
<1> QED
  BY <1>6, <1>9 DEF S

\* A step of one call, if the call is in order afterwards.
LEMMA CallKeeps ==
    ASSUME CallInv, NEW r \in Request, NEW c \in CallKind, NEW f \in SUBSET Model,
           call' = [call EXCEPT ![r] = c], failed' = [failed EXCEPT ![r] = f],
           \A q \in Request \ {r} : q \in cancelled => q \in cancelled',
           r \notin Streaming => Tried(c, f, r \in cancelled')
    PROVE  CallInv'
<1>1. call' \in [Request -> CallKind] /\ failed' \in [Request -> SUBSET Model]
  BY DEF CallInv
<1>2. ASSUME NEW q \in Request \ Streaming PROVE Tried(call'[q], failed'[q], q \in cancelled')
  <2>1. CASE q = r
    BY <2>1 DEF CallInv
  <2>2. CASE q # r
    <3>1. /\ Tried(call[q], failed[q], q \in cancelled)
          /\ call'[q] = call[q] /\ failed'[q] = failed[q] /\ (q \in cancelled => q \in cancelled')
      BY <2>2 DEF CallInv
    <3> QED
      BY <3>1 DEF Tried
  <2> QED
    BY <2>1, <2>2
<1> QED
  BY <1>1, <1>2 DEF CallInv

\* The result, of a plain call.
LEMMA EndKeeps ==
    ASSUME CallInv, NEW r \in Request,
           NEW result \in {"none", "ok", "busy", "bad", "threw", "cancelled"}, EndCall(r, result),
           NEW f \in SUBSET Model, failed' = [failed EXCEPT ![r] = f], UNCHANGED cancelled,
           r \notin Streaming /\ result = "cancelled" => r \in cancelled,
           r \notin Streaming /\ result = "threw" => f = {Primary} \cup Names(call[r].candidates)
    PROVE  CallInv'
<1> DEFINE c == [call[r] EXCEPT !.at = "ended", !.result = result]
<1>1. call' = [call EXCEPT ![r] = c] /\ call[r] \in CallKind
  BY DEF EndCall, CallInv
<1>2. c \in CallKind /\ c.at = "ended" /\ c.result = result /\ c.candidates = call[r].candidates
  BY <1>1 DEF CallKind
<1> HIDE DEF c
<1>3. r \notin Streaming => Tried(c, f, r \in cancelled')
  BY <1>2 DEF Tried
<1> QED
  BY <1>1, <1>2, <1>3, CallKeeps

\* chat begins with no candidate tried.
LEMMA KeepsChat ==
    ASSUME ProviderAssumption, CallInv, NEW r \in Request, NEW m \in Overrides, chat(r, m)
    PROVE  CallInv'
<1> DEFINE all == build_candidates(m)
           own == IF r \in Streaming THEN <<Head(all)>> ELSE all
           c == [NoCall EXCEPT !.at = "try", !.candidates = own]
<1>1. /\ call' = [call EXCEPT ![r] = c] /\ failed' = [failed EXCEPT ![r] = {}]
      /\ \A q \in Request \ {r} : q \in cancelled => q \in cancelled'
  BY DEF chat
<1>2. all \in Seq(Model) /\ all # <<>> /\ Primary \in Names(all)
  BY CandidatesShape
<1> HIDE DEF all
<1>3. own \in Seq(Model) /\ (r \notin Streaming => own = all)
  BY <1>2
<1> HIDE DEF own
<1>4. /\ c \in CallKind /\ c.at = "try" /\ c.candidates = own /\ c.index = 1
      /\ c.result = "none"
  BY <1>3 DEF NoCall, CallKind
<1> HIDE DEF c
<1>5. ASSUME r \notin Streaming PROVE Tried(c, {}, r \in cancelled')
  <2>1. own = all /\ Len(own) \in Nat /\ Len(own) > 0
    BY <1>2, <1>3, <1>5
  <2>2. 1 \in 1 .. Len(own) /\ {own[i] : i \in 1 .. 1 - 1} = {}
    BY <2>1
  <2> QED
    BY <1>2, <1>4, <2>1, <2>2 DEF Tried
<1> QED
  BY <1>1, <1>4, <1>5, CallKeeps

\* The call goes on with its current candidate.
LEMMA GoesOnCalling ==
    ASSUME CallInv, NEW r \in Request, call[r].at \in {"try", "request", "sleep"},
           NEW c \in CallKind, c.at \in {"try", "request", "sleep"},
           c.candidates = call[r].candidates, c.index = call[r].index,
           c.result = call[r].result, call' = [call EXCEPT ![r] = c],
           UNCHANGED <<failed, cancelled>>
    PROVE  CallInv'
<1>1. failed' = [failed EXCEPT ![r] = failed[r]] /\ failed[r] \in SUBSET Model
  BY DEF CallInv
<1>2. r \notin Streaming => Tried(c, failed[r], r \in cancelled')
  BY DEF CallInv, Tried
<1> QED
  BY <1>1, <1>2, CallKeeps

\* The next attempt of a call: a request, or the end if it was cancelled.
LEMMA KeepsAttempt ==
    ASSUME CallInv, NEW r \in Request, Attempt(r)
    PROVE  CallInv'
<1>1. call[r].at = "try" /\ UNCHANGED <<failed, cancelled>> /\ call[r] \in CallKind
  BY DEF Attempt, request_once, httpVars, CallInv
<1>2. CASE call' = [call EXCEPT ![r].at = "request"]
  <2> DEFINE c == [call[r] EXCEPT !.at = "request"]
  <2>1. /\ c \in CallKind /\ c.at = "request" /\ c.candidates = call[r].candidates
        /\ c.index = call[r].index /\ c.result = call[r].result
    BY <1>1 DEF CallKind
  <2>2. call' = [call EXCEPT ![r] = c]
    BY <1>2
  <2> HIDE DEF c
  <2> QED
    BY <1>1, <2>1, <2>2, GoesOnCalling
<1>3. CASE r \in cancelled \ Streaming /\ EndCall(r, "cancelled")
  <2>1. failed' = [failed EXCEPT ![r] = failed[r]] /\ failed[r] \in SUBSET Model
    BY <1>1 DEF CallInv
  <2> QED
    BY <1>1, <1>3, <2>1, EndKeeps
<1> QED
  BY <1>2, <1>3 DEF Attempt

\* A request has come back: an answer, a retry, the next candidate or an
\* exception.
LEMMA KeepsReturn ==
    ASSUME CallInv, HttpTypeOK, NEW r \in Request,
           Answered(r) \/ Retry(r) \/ Failover(r) \/ StreamThrows(r)
    PROVE  CallInv'
<1>1. /\ call[r].at = "request" /\ UNCHANGED cancelled /\ call[r] \in CallKind
      /\ http[r].result \in {"none", "ok", "busy", "bad", "threw", "cancelled"}
      /\ failed[r] \in SUBSET Model /\ failed = [failed EXCEPT ![r] = failed[r]]
  <2>1. /\ call[r].at = "request" /\ UNCHANGED cancelled
    BY DEF Answered, Retry, Failover, StreamThrows, Returned, HttpReset
  <2>2. http[r].result \in {"none", "ok", "busy", "bad", "threw", "cancelled"}
    BY DEF HttpTypeOK, Coroutine
  <2>3. /\ call[r] \in CallKind /\ failed[r] \in SUBSET Model
        /\ failed = [failed EXCEPT ![r] = failed[r]]
    BY DEF CallInv
  <2> QED
    BY <2>1, <2>2, <2>3
<1>2. CASE Answered(r)
  <2>1. /\ EndCall(r, http[r].result) /\ http[r].result \notin {"threw", "cancelled"}
        /\ failed' = failed
    BY <1>2 DEF Answered
  <2> QED
    BY <1>1, <2>1, EndKeeps
<1>3. CASE Retry(r)
  <2> DEFINE c == [call[r] EXCEPT !.at = "sleep"]
  <2>1. /\ c \in CallKind /\ c.at = "sleep" /\ c.candidates = call[r].candidates
        /\ c.index = call[r].index /\ c.result = call[r].result
    BY <1>1 DEF CallKind
  <2>2. call' = [call EXCEPT ![r] = c] /\ UNCHANGED failed
    BY <1>3 DEF Retry
  <2> HIDE DEF c
  <2> QED
    BY <1>1, <2>1, <2>2, GoesOnCalling
<1>4. CASE StreamThrows(r)
  <2>1. r \in Streaming /\ EndCall(r, http[r].result) /\ failed' = failed
    BY <1>4 DEF StreamThrows
  <2> QED
    BY <1>1, <2>1, EndKeeps
<1>5. CASE Failover(r)
  <2> DEFINE names == call[r].candidates
             n == call[r].index
             f == failed[r] \cup {names[n]}
  <2>1. r \notin Streaming /\ failed' = [failed EXCEPT ![r] = f]
    BY <1>1, <1>5 DEF Failover, Current
  <2>2. /\ n \in 1 .. Len(names) /\ Primary \in Names(names) /\ call[r].result = "none"
        /\ failed[r] = {names[i] : i \in 1 .. n - 1}
    BY <1>1, <2>1 DEF CallInv, Tried
  <2>3. names \in Seq(Model) /\ Len(names) \in Nat
    BY <1>1 DEF CallKind
  <2>4. f = {names[i] : i \in 1 .. n} /\ f \in SUBSET Model
    <3>1. \A i \in Int : i \in 1 .. n <=> i \in 1 .. n - 1 \/ i = n
      BY <2>2, <2>3
    <3>2. f = {names[i] : i \in 1 .. n}
      BY <2>2, <2>3, <3>1
    <3> QED
      BY <2>2, <2>3, <3>2
  <2>5. CASE IsLast(r)
    <3>1. n = Len(names) /\ EndCall(r, "threw")
      BY <1>5, <2>5 DEF Failover, IsLast
    <3>2. f = {Primary} \cup Names(names)
      <4>1. f = Names(names)
        BY <2>4, <3>1 DEF Names
      <4> QED
        BY <2>2, <4>1
    <3> HIDE DEF f
    <3> QED
      BY <1>1, <2>1, <2>4, <3>1, <3>2, EndKeeps
  <2>6. CASE ~IsLast(r)
    <3> DEFINE c == [call[r] EXCEPT !.at = "try", !.attempt = 1, !.index = call[r].index + 1]
    <3>1. call' = [call EXCEPT ![r] = c]
      BY <1>5, <2>6 DEF Failover
    <3>2. n + 1 \in 1 .. Len(names) /\ n + 1 \in Nat /\ (n + 1) - 1 = n
      BY <2>2, <2>3, <2>6 DEF IsLast
    <3>3. /\ c \in CallKind /\ c.at = "try" /\ c.candidates = names /\ c.index = n + 1
          /\ c.result = "none"
      BY <1>1, <2>2, <3>2 DEF CallKind
    <3> HIDE DEF c, f, n, names
    <3>4. Tried(c, f, r \in cancelled')
      BY <2>2, <2>4, <3>2, <3>3 DEF Tried
    <3> QED
      BY <1>1, <2>1, <2>4, <3>1, <3>3, <3>4, CallKeeps
  <2> QED
    BY <2>5, <2>6
<1> QED
  BY <1>2, <1>3, <1>4, <1>5

\* The wait between two tries is over, or was cancelled.
LEMMA KeepsSleepEnds ==
    ASSUME CallInv, NEW r \in Request, SleepEnds(r)
    PROVE  CallInv'
<1>1. call[r].at = "sleep" /\ UNCHANGED <<failed, cancelled>> /\ call[r] \in CallKind
  BY DEF SleepEnds, httpVars, CallInv
<1>2. CASE r \in cancelled
  <2>1. failed' = [failed EXCEPT ![r] = failed[r]] /\ failed[r] \in SUBSET Model
    BY <1>1 DEF CallInv
  <2>2. EndCall(r, "cancelled")
    BY <1>2 DEF SleepEnds
  <2> QED
    BY <1>1, <1>2, <2>1, <2>2, EndKeeps
<1>3. CASE r \notin cancelled
  <2> DEFINE c == [call[r] EXCEPT !.at = "try", !.attempt = call[r].attempt + 1]
  <2>1. /\ c \in CallKind /\ c.at = "try" /\ c.candidates = call[r].candidates
        /\ c.index = call[r].index /\ c.result = call[r].result
    <3>1. call[r].attempt + 1 \in Nat
      BY <1>1 DEF CallKind
    <3> QED
      BY <1>1, <3>1 DEF CallKind
  <2>2. call' = [call EXCEPT ![r] = c]
    BY <1>3 DEF SleepEnds
  <2> HIDE DEF c
  <2> QED
    BY <1>1, <2>1, <2>2, GoesOnCalling
<1> QED
  BY <1>2, <1>3

\* Tokens that are only set.
LEMMA CallUntouched ==
    ASSUME CallInv, UNCHANGED <<call, failed>>, cancelled \subseteq cancelled'
    PROVE  CallInv'
BY DEF CallInv, Tried

CallsInv == HttpInv /\ CallInv

\* At the start nothing is under way.
LEMMA CallsStart == ASSUME HttpAssumption, CallsInit PROVE CallsInv
<1>1. /\ pool = <<>> /\ incoming = [c \in Conn |-> <<>>] /\ server = [c \in Conn |-> "none"]
      /\ http = [r \in Request |-> Idle] /\ call = [r \in Request |-> NoCall]
      /\ failed = [r \in Request |-> {}]
  BY DEF CallsInit, HttpInit
<1>2. /\ Idle \in Coroutine /\ Idle.at = "idle" /\ Idle.conn = NoConn /\ Idle.own
      /\ Idle.answer = NoAnswer /\ Idle.length = 0 /\ ~Idle.reusable /\ ~Idle.fresh
      /\ Idle.tokens = <<>>
  BY DEF Idle, NoAnswer, Coroutine, AnswerKind, Resting
<1>3. HttpTypeOK
  BY <1>1, <1>2 DEF HttpTypeOK
<1>4. Requests
  <2>1. Given(Idle, 0)
    BY <1>2 DEF Given
  <2>2. Quiet(Idle)
    BY <1>2, <2>1 DEF Quiet
  <2>3. NoConn \notin Conn
    BY DEF HttpAssumption
  <2> QED
    BY <1>1, <1>2, <2>2, <2>3 DEF Requests, Knows, Resting, Holding, Exchanging
<1>5. Connections
  BY <1>1, <1>2 DEF Connections, Pooled, Holding, Exchanging
<1>6. CallInv
  <2>1. NoCall \in CallKind /\ NoCall.at = "none" /\ NoCall.result = "none"
    BY DEF NoCall, CallKind
  <2> QED
    BY <1>1, <2>1 DEF CallInv, Tried
<1> QED
  BY <1>3, <1>4, <1>5, <1>6 DEF CallsInv, HttpInv

\* Every step keeps the invariant.
LEMMA CallsStep ==
    ASSUME HttpAssumption, ProviderAssumption, CallsInv, [CallsNext]_callVars
    PROVE  CallsInv'
<1>1. HttpInv /\ CallInv /\ HttpTypeOK
  BY DEF CallsInv, HttpInv
<1>2. ASSUME UNCHANGED callVars PROVE CallsInv'
  BY <1>1, <1>2, KeepsHttp, CallUntouched DEF callVars, httpVars, CallsInv
<1>3. ASSUME NEW r \in Request, NEW m \in Overrides, chat(r, m) PROVE CallsInv'
  <2>1. UNCHANGED <<pool, incoming, server, http>>
    BY <1>3 DEF chat
  <2> QED
    BY <1>1, <1>3, <2>1, KeepsHttp, KeepsChat DEF CallsInv
<1>4. ASSUME NEW r \in Request, Attempt(r) PROVE CallsInv'
  <2>1. request_once(r) \/ UNCHANGED <<pool, incoming, server, http>>
    BY <1>4 DEF Attempt, httpVars
  <2>2. HttpInv'
    BY <1>1, <2>1, KeepsHttp, KeepsRequestOnce
  <2>3. CallInv'
    BY <1>1, <1>4, KeepsAttempt
  <2> QED
    BY <2>2, <2>3 DEF CallsInv
<1>5. ASSUME NEW r \in Request, Answered(r) \/ Retry(r) \/ Failover(r) \/ StreamThrows(r)
      PROVE  CallsInv'
  <2>1. HttpReset(r)
    BY <1>5 DEF Answered, Retry, Failover, StreamThrows
  <2>2. HttpInv'
    BY <1>1, <2>1, KeepsReset
  <2>3. CallInv'
    BY <1>1, <1>5, KeepsReturn
  <2> QED
    BY <2>2, <2>3 DEF CallsInv
<1>6. ASSUME NEW r \in Request, SleepEnds(r) PROVE CallsInv'
  <2>1. UNCHANGED <<pool, incoming, server, http>>
    BY <1>6 DEF SleepEnds, httpVars
  <2> QED
    BY <1>1, <1>6, <2>1, KeepsHttp, KeepsSleepEnds DEF CallsInv
<1>7. ASSUME NEW r \in Request, HttpStep(r), UNCHANGED <<call, failed>> PROVE CallsInv'
  <2>1. UNCHANGED cancelled
    BY <1>7 DEF HttpStep, AcquirePooled, AcquireNew, async_connect, ConnectFails, handshake,
                Send, Read, ReadEof, ReadFails, ResponseTimeout, TimeoutMissed
  <2>2. HttpInv'
    BY <1>1, <1>7, KeepsHttpStep
  <2>3. CallInv'
    BY <1>1, <1>7, <2>1, CallUntouched
  <2> QED
    BY <2>2, <2>3 DEF CallsInv
<1>8. ASSUME NEW r \in Request, cancel(r) PROVE CallsInv'
  BY <1>1, <1>8, KeepsHttp, CallUntouched DEF cancel, CallsInv
<1>9. ASSUME NEW c \in Conn, NEW how \in {"silent", "closed", "reset"}, Fault(c, how)
      PROVE  CallsInv'
  <2>1. HttpInv'
    BY <1>1, <1>9, KeepsServerFails DEF Fault
  <2>2. CallInv'
    BY <1>1, <1>9, CallUntouched DEF Fault, ServerFails
  <2> QED
    BY <2>1, <2>2 DEF CallsInv
<1>10. ASSUME NEW m \in cooling, CooldownEnds(m) PROVE CallsInv'
  BY <1>1, <1>10, KeepsHttp, CallUntouched DEF CooldownEnds, httpVars, CallsInv
<1> QED
  BY <1>2, <1>3, <1>4, <1>5, <1>6, <1>7, <1>8, <1>9, <1>10 DEF CallsNext, CallStep

\* The inductive invariant of the calls holds throughout.
LEMMA CallsAlways == CallsSpec => []CallsInv
<1>1. CallsInit => CallsInv
  BY HttpAssumption, CallsStart
<1>2. CallsInv /\ [CallsNext]_callVars => CallsInv'
  BY HttpAssumption, ProviderAssumption, CallsStep
<1> QED
  BY <1>1, <1>2, PTL DEF CallsSpec

\* read_response reads the answer to the request that was sent, whoever used
\* the connection before and however that exchange ended.
THEOREM AnswersAreOwn == CallsSpec => []AnswersOwn
<1>1. CallsInv => AnswersOwn
  <2> SUFFICES ASSUME CallsInv PROVE AnswersOwn
    OBVIOUS
  <2>1. HttpTypeOK /\ Requests /\ Connections
    BY DEF CallsInv, HttpInv
  <2>2. ASSUME NEW r \in Request PROVE http[r].own
    BY <2>1 DEF Requests, Knows, Parsed, Quiet
  <2>3. ASSUME NEW i \in DOMAIN pool
        PROVE  incoming[pool[i]] = <<>> /\ \A j \in DOMAIN pool : pool[j] = pool[i] => j = i
    BY <2>1 DEF Connections, Pooled
  <2>4. ASSUME NEW r \in Request, http[r].conn # NoConn
        PROVE  /\ http[r].conn \notin ToSet(pool)
               /\ \A q \in Request : http[q].conn = http[r].conn => q = r
    <3>1. http[r].at \in Holding
      BY <2>1, <2>4 DEF HttpTypeOK, Coroutine, Requests, Knows
    <3> QED
      BY <2>1, <3>1 DEF Connections, Owner, ToSet
  <2> QED
    BY <2>2, <2>3, <2>4 DEF AnswersOwn
<1> QED
  BY <1>1, CallsAlways, PTL

\* What a coroutine was given is in order.
LEMMA GivenInOrder ==
    ASSUME NEW h \in Coroutine, NEW k \in Nat, Given(h, k)
    PROVE  LET tokens == h.tokens
           IN  \/ InOrder(tokens)
               \/ /\ h.fresh /\ h.reused
                  /\ \E n \in DOMAIN tokens :
                       /\ InOrder(SubSeq(tokens, 1, n))
                       /\ InOrder(SubSeq(tokens, n + 1, Len(tokens)))
<1> DEFINE tokens == h.tokens
<1>1. tokens \in Seq(Nat) /\ Len(tokens) \in Nat /\ DOMAIN tokens = 1 .. Len(tokens)
  BY DEF Coroutine
<1>2. /\ k \in 0 .. Len(tokens)
      /\ \A i \in 1 .. k : tokens[i] = i
      /\ \A i \in 1 .. Len(tokens) - k : tokens[k + i] = i
      /\ IF h.fresh THEN h.reused ELSE k = 0
  BY DEF Given
<1> HIDE DEF tokens
<1>3. CASE k = 0
  BY <1>1, <1>2, <1>3 DEF InOrder, tokens
<1>4. CASE k # 0
  <2> DEFINE s == SubSeq(tokens, 1, k)
             t == SubSeq(tokens, k + 1, Len(tokens))
  <2>1. DOMAIN s = 1 .. k /\ \A i \in 1 .. k : s[i] = tokens[i]
    BY <1>1, <1>2
  <2>2. /\ DOMAIN t = 1 .. Len(tokens) - k
        /\ \A i \in 1 .. Len(tokens) - k : t[i] = tokens[k + i]
    BY <1>1, <1>2
  <2> HIDE DEF s, t
  <2>3. InOrder(s) /\ InOrder(t) /\ k \in DOMAIN tokens /\ h.fresh /\ h.reused
    BY <1>1, <1>2, <1>4, <2>1, <2>2 DEF InOrder
  <2> QED
    BY <2>3 DEF s, t, tokens
<1> QED
  BY <1>3, <1>4

\* The handler of a stream is given the pieces in order, each once for each
\* request that was made; a plain call throws when all its candidates have
\* failed and is cancelled when it was asked to be.
THEOREM CallsAreHonest == CallsSpec => []CallsHonest
<1>1. CallsInv => CallsHonest
  <2> SUFFICES ASSUME CallsInv PROVE CallsHonest
    OBVIOUS
  <2>1. HttpTypeOK /\ Requests /\ CallInv
    BY DEF CallsInv, HttpInv
  <2>2. TokensOnce
    <3>1. ASSUME NEW r \in Streaming
          PROVE  LET tokens == http[r].tokens
                 IN  \/ InOrder(tokens)
                     \/ /\ http[r].fresh /\ http[r].reused
                        /\ \E n \in DOMAIN tokens :
                             /\ InOrder(SubSeq(tokens, 1, n))
                             /\ InOrder(SubSeq(tokens, n + 1, Len(tokens)))
      <4>1. r \in Request /\ http[r] \in Coroutine
        BY <2>1, HttpAssumption DEF HttpAssumption, HttpTypeOK
      <4>2. PICK k \in Nat : Given(http[r], k)
        BY <2>1, <4>1 DEF Requests, Knows, Quiet, Fed
      <4> QED
        BY <4>1, <4>2, GivenInOrder
    <3> QED
      BY <3>1 DEF TokensOnce
  <2>3. FailoverExhausts
    <3> SUFFICES ASSUME NEW r \in Request \ Streaming
                 PROVE  /\ call[r].result = "threw" =>
                              failed[r] = {Primary} \cup ToSet(call[r].candidates)
                        /\ call[r].result = "cancelled" => r \in cancelled
      BY DEF FailoverExhausts
    <3>1. Tried(call[r], failed[r], r \in cancelled) /\ call[r] \in CallKind
      BY <2>1 DEF CallInv
    <3>2. ToSet(call[r].candidates) = Names(call[r].candidates)
      BY <3>1 DEF ToSet, Names, CallKind
    <3> QED
      BY <3>1, <3>2 DEF Tried
  <2> QED
    BY <2>2, <2>3 DEF CallsHonest
<1> QED
  BY <1>1, CallsAlways, PTL
=============================================================================
