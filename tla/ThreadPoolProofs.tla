-------------------------- MODULE ThreadPoolProofs --------------------------
(***************************************************************************)
(* Proofs about ThreadPool, for every set of tasks, every finite set of    *)
(* workers and every queue size: type correctness, FIFO dispatch, at most  *)
(* one run per task, an exact active count, what wait() waits for, and     *)
(* draining on shutdown.                                                   *)
(***************************************************************************)
EXTENDS ThreadPool, FiniteSetTheorems, TLAPS

-----------------------------------------------------------------------------
(* Sequences.                                                              *)

\* Pushing a sequence adds its elements and no others.
LEMMA ElemsConcat ==
    ASSUME NEW S, NEW s \in Seq(S), NEW t \in Seq(S)
    PROVE  Elems(s \o t) = Elems(s) \cup Elems(t)
<1>1. Len(s \o t) = Len(s) + Len(t) OBVIOUS
<1>2. ASSUME NEW x \in Elems(s \o t) PROVE x \in Elems(s) \cup Elems(t)
  <2>1. PICK i \in 1 .. (Len(s) + Len(t)) : x = (s \o t)[i] BY DEF Elems
  <2>2. CASE i <= Len(s) BY <2>1, <2>2 DEF Elems
  <2>3. CASE i > Len(s)
    <3>1. i - Len(s) \in 1 .. Len(t) BY <2>3
    <3>2. x = t[i - Len(s)] BY <2>1, <2>3
    <3> QED BY <3>1, <3>2 DEF Elems
  <2> QED BY <2>2, <2>3
<1>3. ASSUME NEW x \in Elems(s) PROVE x \in Elems(s \o t)
  <2>1. PICK i \in 1 .. Len(s) : x = s[i] BY DEF Elems
  <2>2. x = (s \o t)[i] /\ i \in 1 .. (Len(s) + Len(t)) BY <2>1
  <2> QED BY <2>2 DEF Elems
<1>4. ASSUME NEW x \in Elems(t) PROVE x \in Elems(s \o t)
  <2>1. PICK i \in 1 .. Len(t) : x = t[i] BY DEF Elems
  <2>2. x = (s \o t)[Len(s) + i] /\ (Len(s) + i) \in 1 .. (Len(s) + Len(t)) BY <2>1
  <2> QED BY <2>2 DEF Elems
<1> QED BY <1>2, <1>3, <1>4

LEMMA ElemsAppend ==
    ASSUME NEW S, NEW s \in Seq(S), NEW x \in S
    PROVE  Elems(Append(s, x)) = Elems(s) \cup {x}
<1>1. Len(Append(s, x)) = Len(s) + 1 /\ Append(s, x)[Len(s) + 1] = x OBVIOUS
<1>2. \A i \in 1 .. Len(s) : Append(s, x)[i] = s[i] OBVIOUS
<1>3. DOMAIN Append(s, x) = 1 .. (Len(s) + 1) /\ DOMAIN s = 1 .. Len(s) OBVIOUS
<1>4. 1 .. (Len(s) + 1) = (1 .. Len(s)) \cup {Len(s) + 1} OBVIOUS
<1> QED BY <1>1, <1>2, <1>3, <1>4 DEF Elems

LEMMA ElemsType ==
    ASSUME NEW S, NEW s \in Seq(S)
    PROVE  Elems(s) \subseteq S
BY DEF Elems

\* No element occurs twice.
Distinct(s) == \A i, j \in DOMAIN s : s[i] = s[j] => i = j

LEMMA DistinctConcat ==
    ASSUME NEW S, NEW s \in Seq(S), NEW t \in Seq(S), Distinct(s), Distinct(t),
           Elems(s) \cap Elems(t) = {}
    PROVE  Distinct(s \o t)
<1> SUFFICES ASSUME NEW i \in 1 .. (Len(s) + Len(t)), NEW j \in 1 .. (Len(s) + Len(t)),
                    (s \o t)[i] = (s \o t)[j]
             PROVE  i = j
  BY DEF Distinct
<1> DEFINE At(k) == (s \o t)[k]
<1>1. ASSUME NEW k \in 1 .. Len(s) PROVE At(k) = s[k] /\ At(k) \in Elems(s)
  BY DEF Elems
<1>2. ASSUME NEW k \in (Len(s) + 1) .. (Len(s) + Len(t))
      PROVE  At(k) = t[k - Len(s)] /\ k - Len(s) \in 1 .. Len(t) /\ At(k) \in Elems(t)
  BY DEF Elems
<1>3. CASE i <= Len(s) /\ j <= Len(s) BY <1>1, <1>3 DEF Distinct
<1>4. CASE i > Len(s) /\ j > Len(s)
  <2>1. t[i - Len(s)] = t[j - Len(s)] /\ i - Len(s) \in 1 .. Len(t) /\ j - Len(s) \in 1 .. Len(t)
    BY <1>2, <1>4
  <2>2. i - Len(s) = j - Len(s) BY <2>1 DEF Distinct
  <2> QED BY <2>2
<1>5. CASE i <= Len(s) /\ j > Len(s) BY <1>1, <1>2, <1>5
<1>6. CASE i > Len(s) /\ j <= Len(s) BY <1>1, <1>2, <1>6
<1> QED BY <1>3, <1>4, <1>5, <1>6

\* In a sequence without repetitions the head of a suffix is not in the prefix.
LEMMA HeadIsNew ==
    ASSUME NEW S, NEW s \in Seq(S), NEW t \in Seq(S), Distinct(s \o t), t # <<>>
    PROVE  Head(t) \notin Elems(s)
<1> SUFFICES ASSUME NEW i \in 1 .. Len(s), s[i] = Head(t) PROVE FALSE
  BY DEF Elems
<1>1. (s \o t)[i] = s[i] /\ (s \o t)[Len(s) + 1] = t[1] OBVIOUS
<1>2. i \in DOMAIN (s \o t) /\ Len(s) + 1 \in DOMAIN (s \o t) OBVIOUS
<1> QED BY <1>1, <1>2 DEF Distinct

-----------------------------------------------------------------------------
(* Type correctness.                                                       *)

\* What submit_batch queues is a prefix of its batch that fits.
LEMMA BatchPrefix ==
    ASSUME NEW ts \in Batches, NEW room \in Nat, room < Len(ts)
    PROVE  /\ SubSeq(ts, 1, room) \in Seq(Task)
           /\ Len(SubSeq(ts, 1, room)) = room
           /\ Elems(SubSeq(ts, 1, room)) \subseteq Elems(ts)
           /\ Distinct(SubSeq(ts, 1, room))
           /\ ts \in Seq(Task) /\ Distinct(ts)
<1>1. PICK t \in Task, u \in Task : ts = <<t, u>> /\ t # u
  BY DEF Batches
<1>2. ts \in Seq(Task) /\ Len(ts) = 2 /\ Distinct(ts) BY <1>1 DEF Distinct
<1>3. CASE room = 0 BY <1>2, <1>3 DEF Elems, Distinct
<1>4. CASE room = 1 BY <1>1, <1>2, <1>4 DEF Elems, Distinct
<1> QED BY <1>2, <1>3, <1>4

\* Pushing keeps the queue and its history sequences of tasks.
LEMMA EnqueueType ==
    ASSUME TypeOK, NEW ts \in Seq(Task), Enqueue(ts)
    PROVE  /\ tasks_' \in Seq(Task) /\ Len(tasks_') = Len(tasks_) + Len(ts)
           /\ accepted' \in Seq(Task) /\ acceptedOpen' \subseteq Task
BY ElemsType DEF TypeOK, Enqueue

LEMMA TypeInit == Init => TypeOK
<1> SUFFICES ASSUME Init PROVE TypeOK
  OBVIOUS
<1>1. /\ worker \in [Worker -> WorkerState] /\ current \in [Worker -> SUBSET Task]
      /\ tasks_ \in Seq(Task) /\ accepted \in Seq(Task) /\ taken \in Seq(Task)
  BY DEF Init, WorkerState
<1>2. Len(tasks_) <= MaxQueueSize
  BY PoolAssumption DEF Init
<1> QED BY <1>1, <1>2 DEF Init, TypeOK

\* The workers inside the region that active_threads_ counts.
Counted == {w \in Worker : worker[w] \in {"counted", "ran"}}

LEMMA CountedFinite == IsFiniteSet(Counted) /\ IsFiniteSet(Counted')
BY PoolAssumption, FS_Subset DEF Counted

\* A worker that leaves the counted region was counted: the decrement is safe.
LEMMA UncountSafe ==
    ASSUME TypeOK, ActiveCounted, NEW w \in Worker, WorkerUncount(w)
    PROVE  active_threads_ - 1 \in Nat
<1>1. w \in Counted BY DEF WorkerUncount, Counted
<1>2. Cardinality(Counted) # 0 /\ Cardinality(Counted) \in Nat
  BY <1>1, CountedFinite, FS_EmptySet, FS_CardinalityType
<1> QED BY <1>2 DEF ActiveCounted, Counted, TypeOK

LEMMA TypeStep == TypeOK /\ ActiveCounted /\ [Next]_vars => TypeOK'
<1> SUFFICES ASSUME TypeOK, ActiveCounted, [Next]_vars PROVE TypeOK'
  OBVIOUS
<1> DEFINE Rest == <<stop_, pause_, active_threads_, queue_mutex_, worker, current,
                     waiter, owed, joined, spurious, taken, finished>>
<1>1. ASSUME NEW ts \in Seq(Task), Enqueue(ts), Len(tasks_) + Len(ts) <= MaxQueueSize,
             signals' \in Nat, broadcast' \subseteq {"batch", "resume", "shutdown"},
             UNCHANGED Rest
      PROVE  TypeOK'
  <2>1. /\ tasks_' \in Seq(Task) /\ Len(tasks_') <= MaxQueueSize
        /\ accepted' \in Seq(Task) /\ acceptedOpen' \subseteq Task
    BY <1>1, EnqueueType
  <2> QED BY <1>1, <2>1 DEF TypeOK
<1>2. ASSUME NEW t \in Task, submit(t) PROVE TypeOK'
  <2>1. <<t>> \in Seq(Task) /\ Len(<<t>>) = 1 OBVIOUS
  <2>2. Enqueue(<<t>>) /\ Len(tasks_) < MaxQueueSize /\ signals' = signals + 1
        /\ broadcast' = broadcast /\ UNCHANGED Rest
    BY <1>2 DEF submit
  <2>3. Len(tasks_) + Len(<<t>>) <= MaxQueueSize BY <2>1, <2>2, PoolAssumption DEF TypeOK
  <2>4. signals' \in Nat /\ broadcast' \subseteq {"batch", "resume", "shutdown"}
    BY <2>2 DEF TypeOK
  <2> QED BY <1>1, <2>1, <2>2, <2>3, <2>4
<1>3. ASSUME NEW ts \in Batches, submit_batch(ts) PROVE TypeOK'
  <2> DEFINE room == MaxQueueSize - Len(tasks_)
  <2>1. room \in Nat BY PoolAssumption DEF TypeOK
  <2>2. PICK t \in Task, u \in Task : ts = <<t, u>> BY DEF Batches
  <2>3. ts \in Seq(Task) /\ Len(ts) = 2 BY <2>2
  <2>4. UNCHANGED Rest /\ signals' = signals BY <1>3 DEF submit_batch
  <2>5. CASE Len(ts) <= room
    <3>1. Enqueue(ts) /\ broadcast' = broadcast \cup {"batch"}
      BY <1>3, <2>5 DEF submit_batch
    <3>2. Len(tasks_) + Len(ts) <= MaxQueueSize BY <2>3, <2>5, PoolAssumption DEF TypeOK
    <3> QED BY <1>1, <2>3, <2>4, <3>1, <3>2 DEF TypeOK
  <2>6. CASE ~(Len(ts) <= room)
    <3>1. Enqueue(SubSeq(ts, 1, room)) /\ UNCHANGED broadcast
      BY <1>3, <2>6 DEF submit_batch
    <3>2. SubSeq(ts, 1, room) \in Seq(Task) /\ Len(SubSeq(ts, 1, room)) = room
      BY <2>1, <2>3, <2>6, BatchPrefix
    <3>3. Len(tasks_) + Len(SubSeq(ts, 1, room)) <= MaxQueueSize
      BY <3>2, PoolAssumption DEF TypeOK
    <3> QED BY <1>1, <2>4, <3>1, <3>2, <3>3 DEF TypeOK
  <2> QED BY <2>5, <2>6
<1>4. CASE NotifyOne BY <1>4 DEF NotifyOne, TypeOK, WorkerState
<1>5. ASSUME NEW call, NotifyAll(call) PROVE TypeOK'
  BY <1>5 DEF NotifyAll, TypeOK, WorkerState
<1>6. CASE pause \/ resume \/ shutdown \/ ShutdownJoin
  BY <1>6 DEF pause, resume, shutdown, ShutdownJoin, TypeOK
<1>7. CASE WaitCall \/ WaitStep
  <2>1. Elems(accepted) \subseteq Task BY ElemsType DEF TypeOK
  <2> QED BY <1>7, <2>1 DEF WaitCall, WaitStep, TypeOK
<1>8. ASSUME NEW w \in Worker, WorkerStep(w) PROVE TypeOK'
  <2>1. CASE WorkerPark(w) BY <2>1 DEF WorkerPark, TypeOK, WorkerState
  <2>2. CASE WorkerTake(w)
    <3>1. Head(tasks_) \in Task /\ Tail(tasks_) \in Seq(Task)
          /\ Len(Tail(tasks_)) <= MaxQueueSize
      BY <2>2, PoolAssumption DEF WorkerTake, TypeOK
    <3>2. Append(taken, Head(tasks_)) \in Seq(Task) BY <3>1 DEF TypeOK
    <3> QED BY <2>2, <3>1, <3>2 DEF WorkerTake, TypeOK, WorkerState
  <2>3. CASE WorkerCount(w) BY <2>3 DEF WorkerCount, TypeOK, WorkerState
  <2>4. CASE WorkerRun(w) BY <2>4 DEF WorkerRun, TypeOK, WorkerState
  <2>5. CASE WorkerUncount(w)
    <3>1. active_threads_' \in Nat BY <2>5, UncountSafe DEF WorkerUncount
    <3> QED BY <2>5, <3>1 DEF WorkerUncount, TypeOK, WorkerState
  <2>6. CASE WorkerSignal(w) BY <2>6 DEF WorkerSignal, TypeOK, WorkerState
  <2>7. CASE WorkerExit(w) BY <2>7 DEF WorkerExit, TypeOK, WorkerState
  <2> QED BY <1>8, <2>1, <2>2, <2>3, <2>4, <2>5, <2>6, <2>7 DEF WorkerStep
<1>9. CASE SpuriousWakeup BY <1>9 DEF SpuriousWakeup, TypeOK, WorkerState
<1>10. CASE UNCHANGED vars BY <1>10 DEF vars, TypeOK
<1> QED BY <1>2, <1>3, <1>4, <1>5, <1>6, <1>7, <1>8, <1>9, <1>10 DEF Next

-----------------------------------------------------------------------------
(* The active count.                                                       *)

LEMMA ActiveStep == TypeOK /\ ActiveCounted /\ [Next]_vars => ActiveCounted'
<1> SUFFICES ASSUME TypeOK, ActiveCounted, [Next]_vars PROVE ActiveCounted'
  OBVIOUS
<1>0. active_threads_ = Cardinality(Counted) BY DEF ActiveCounted, Counted
<1>1. CASE active_threads_' = active_threads_ /\ Counted' = Counted
  BY <1>1 DEF ActiveCounted, Counted
<1>2. ASSUME NEW w \in Worker, WorkerStep(w) PROVE ActiveCounted'
  <2>1. CASE WorkerCount(w)
    <3>1. w \notin Counted /\ Counted' = Counted \cup {w} /\ active_threads_' = active_threads_ + 1
      BY <2>1 DEF WorkerCount, Counted, TypeOK
    <3>2. Cardinality(Counted') = Cardinality(Counted) + 1
      BY <3>1, CountedFinite, FS_AddElement
    <3> QED BY <1>0, <3>1, <3>2 DEF ActiveCounted, Counted
  <2>2. CASE WorkerUncount(w)
    <3>1. w \in Counted /\ Counted' = Counted \ {w} /\ active_threads_' = active_threads_ - 1
      BY <2>2 DEF WorkerUncount, Counted, TypeOK
    <3>2. Cardinality(Counted') = Cardinality(Counted) - 1
      BY <3>1, CountedFinite, FS_RemoveElement
    <3> QED BY <1>0, <3>1, <3>2 DEF ActiveCounted, Counted
  <2>3. CASE WorkerRun(w)
    BY <1>1, <2>3 DEF WorkerRun, Counted, TypeOK
  <2>4. CASE WorkerPark(w) \/ WorkerTake(w)
    BY <1>1, <2>4 DEF WorkerPark, WorkerTake, Counted, TypeOK
  <2>5. CASE WorkerSignal(w) \/ WorkerExit(w)
    BY <1>1, <2>5 DEF WorkerSignal, WorkerExit, Counted, TypeOK
  <2> QED BY <1>2, <2>1, <2>2, <2>3, <2>4, <2>5 DEF WorkerStep
<1>3. CASE NotifyOne \/ SpuriousWakeup
  BY <1>1, <1>3 DEF NotifyOne, SpuriousWakeup, Counted, TypeOK
<1>4. ASSUME NEW call, NotifyAll(call) PROVE ActiveCounted'
  BY <1>1, <1>4 DEF NotifyAll, Counted, TypeOK
<1>5. CASE UNCHANGED <<active_threads_, worker>>
  BY <1>1, <1>5 DEF Counted
<1>6. ASSUME NEW t \in Task, submit(t) PROVE ActiveCounted'
  BY <1>5, <1>6 DEF submit
<1>7. ASSUME NEW ts \in Batches, submit_batch(ts) PROVE ActiveCounted'
  BY <1>5, <1>7 DEF submit_batch
<1>8. CASE pause \/ resume \/ shutdown \/ ShutdownJoin \/ WaitCall \/ WaitStep
  BY <1>5, <1>8 DEF pause, resume, shutdown, ShutdownJoin, WaitCall, WaitStep
<1>9. CASE UNCHANGED vars
  BY <1>5, <1>9 DEF vars
<1> QED BY <1>2, <1>3, <1>4, <1>6, <1>7, <1>8, <1>9 DEF Next

\* Every reachable state is well typed: the queue never exceeds
\* max_queue_size, and active_threads_ never goes below zero.
THEOREM TypeCorrect == Spec => []TypeOK
<1>1. Init => TypeOK /\ ActiveCounted
  <2>1. Init => Counted = {} BY DEF Init, Counted
  <2> QED BY <2>1, TypeInit, FS_EmptySet DEF Init, ActiveCounted, Counted
<1>2. TypeOK /\ ActiveCounted /\ [Next]_vars => TypeOK' /\ ActiveCounted'
  BY TypeStep, ActiveStep
<1> QED BY <1>1, <1>2, PTL DEF Spec

\* stats(): the active count is exact in every reachable state.
THEOREM ActiveExact == Spec => []ActiveCounted
<1>1. Init => TypeOK /\ ActiveCounted
  <2>1. Init => Counted = {} BY DEF Init, Counted
  <2> QED BY <2>1, TypeInit, FS_EmptySet DEF Init, ActiveCounted, Counted
<1>2. TypeOK /\ ActiveCounted /\ [Next]_vars => TypeOK' /\ ActiveCounted'
  BY TypeStep, ActiveStep
<1> QED BY <1>1, <1>2, PTL DEF Spec

-----------------------------------------------------------------------------
(* Dispatch order, and one run per task.                                   *)

\* The part of the state dispatch is about.
Dispatch == <<tasks_, accepted, taken>>

LEMMA EnqueueFifo ==
    ASSUME TypeOK, FifoDispatch, NEW ts \in Seq(Task), Enqueue(ts), taken' = taken
    PROVE  FifoDispatch'
<1>1. accepted' = (taken \o tasks_) \o ts /\ tasks_' = tasks_ \o ts
  BY DEF FifoDispatch, Enqueue
<1>2. (taken \o tasks_) \o ts = taken \o (tasks_ \o ts)
  BY DEF TypeOK
<1> QED BY <1>1, <1>2 DEF FifoDispatch

\* A step pushes a new sequence, pops the front, or leaves the three alone.
LEMMA DispatchSteps ==
    ASSUME TypeOK, [Next]_vars
    PROVE  \/ UNCHANGED Dispatch
           \/ \E ts \in Seq(Task) :
                 /\ Enqueue(ts) /\ taken' = taken /\ Distinct(ts)
                 /\ Elems(ts) \cap Elems(accepted) = {}
           \/ \E w \in Worker : WorkerTake(w)
<1>1. ASSUME NEW t \in Task, submit(t)
      PROVE  \E ts \in Seq(Task) : /\ Enqueue(ts) /\ taken' = taken /\ Distinct(ts)
                                   /\ Elems(ts) \cap Elems(accepted) = {}
  <2>1. <<t>> \in Seq(Task) /\ Distinct(<<t>>) /\ Elems(<<t>>) = {t} BY DEF Distinct, Elems
  <2>2. Enqueue(<<t>>) /\ taken' = taken /\ t \notin Elems(accepted) BY <1>1 DEF submit
  <2> QED BY <2>1, <2>2
<1>2. ASSUME NEW ts \in Batches, submit_batch(ts)
      PROVE  \E us \in Seq(Task) : /\ Enqueue(us) /\ taken' = taken /\ Distinct(us)
                                   /\ Elems(us) \cap Elems(accepted) = {}
  <2> DEFINE room == MaxQueueSize - Len(tasks_)
  <2>1. room \in Nat BY PoolAssumption DEF TypeOK
  <2>2. PICK t \in Task, u \in Task : ts = <<t, u>> /\ t # u BY DEF Batches
  <2>3. ts \in Seq(Task) /\ Len(ts) = 2 /\ Distinct(ts) BY <2>2 DEF Distinct
  <2>4. taken' = taken /\ Elems(ts) \cap Elems(accepted) = {} BY <1>2 DEF submit_batch
  <2>5. CASE Len(ts) <= room
    <3>1. Enqueue(ts) BY <1>2, <2>5 DEF submit_batch
    <3> QED BY <2>3, <2>4, <3>1
  <2>6. CASE ~(Len(ts) <= room)
    <3>1. Enqueue(SubSeq(ts, 1, room)) BY <1>2, <2>6 DEF submit_batch
    <3>2. SubSeq(ts, 1, room) \in Seq(Task) /\ Distinct(SubSeq(ts, 1, room))
          /\ Elems(SubSeq(ts, 1, room)) \subseteq Elems(ts)
      BY <2>1, <2>3, <2>6, BatchPrefix
    <3> QED BY <2>4, <3>1, <3>2
  <2> QED BY <2>5, <2>6
<1>3. CASE NotifyOne \/ SpuriousWakeup BY <1>3 DEF NotifyOne, SpuriousWakeup, Dispatch
<1>4. ASSUME NEW call, NotifyAll(call) PROVE UNCHANGED Dispatch
  BY <1>4 DEF NotifyAll, Dispatch
<1>5. CASE pause \/ resume \/ shutdown \/ ShutdownJoin \/ WaitCall \/ WaitStep
  BY <1>5 DEF pause, resume, shutdown, ShutdownJoin, WaitCall, WaitStep, Dispatch
<1>6. ASSUME NEW w \in Worker, WorkerStep(w)
      PROVE  UNCHANGED Dispatch \/ WorkerTake(w)
  BY <1>6 DEF WorkerStep, WorkerPark, WorkerCount, WorkerRun, WorkerUncount,
              WorkerSignal, WorkerExit, Dispatch
<1>7. CASE UNCHANGED vars BY <1>7 DEF vars, Dispatch
<1> QED BY <1>1, <1>2, <1>3, <1>4, <1>5, <1>6, <1>7 DEF Next

LEMMA TakeShape ==
    ASSUME TypeOK, NEW w \in Worker, WorkerTake(w)
    PROVE  /\ Head(tasks_) \in Task /\ tasks_ # <<>>
           /\ taken' = Append(taken, Head(tasks_)) /\ tasks_' = Tail(tasks_)
           /\ accepted' = accepted
           /\ taken' \o tasks_' = taken \o tasks_
<1>1. Head(tasks_) \in Task /\ tasks_ # <<>> /\ tasks_ \in Seq(Task) /\ taken \in Seq(Task)
  BY DEF WorkerTake, TypeOK
<1>2. Append(taken, Head(tasks_)) \o Tail(tasks_) = taken \o tasks_
  BY <1>1
<1> QED BY <1>1, <1>2 DEF WorkerTake

LEMMA FifoStep ==
    TypeOK /\ FifoDispatch /\ Distinct(accepted) /\ [Next]_vars
        => FifoDispatch' /\ Distinct(accepted')
<1> SUFFICES ASSUME TypeOK, FifoDispatch, Distinct(accepted), [Next]_vars
             PROVE  FifoDispatch' /\ Distinct(accepted')
  OBVIOUS
<1>1. CASE UNCHANGED Dispatch BY <1>1 DEF Dispatch, FifoDispatch
<1>2. ASSUME NEW ts \in Seq(Task), Enqueue(ts), taken' = taken, Distinct(ts),
             Elems(ts) \cap Elems(accepted) = {}
      PROVE  FifoDispatch' /\ Distinct(accepted')
  <2>1. FifoDispatch' BY <1>2, EnqueueFifo
  <2>2. accepted' = accepted \o ts /\ accepted \in Seq(Task) BY <1>2 DEF Enqueue, TypeOK
  <2> QED BY <1>2, <2>1, <2>2, DistinctConcat
<1>3. ASSUME NEW w \in Worker, WorkerTake(w)
      PROVE  FifoDispatch' /\ Distinct(accepted')
  BY <1>3, TakeShape DEF FifoDispatch
<1> QED BY <1>1, <1>2, <1>3, DispatchSteps

\* A worker holds a task only between popping it and having run it.
Holders == \A w \in Worker : current[w] # {} => worker[w] \in {"holding", "counted"}

\* What the workers hold, and the control state that goes with it.
Hands == <<worker, current, taken, finished>>

\* A step takes a task, runs one, or leaves every task where it is; only a
\* worker's own step moves it out of "holding" and "counted".
LEMMA HandsSteps ==
    ASSUME TypeOK, [Next]_vars
    PROVE  \/ \E w \in Worker : WorkerTake(w) \/ WorkerRun(w)
           \/ /\ UNCHANGED <<current, taken, finished>>
              /\ \A w \in Worker : worker[w] \in {"holding", "counted"}
                                       => worker'[w] \in {"holding", "counted"}
<1> DEFINE Still == /\ UNCHANGED <<current, taken, finished>>
                    /\ \A w \in Worker : worker[w] \in {"holding", "counted"}
                                            => worker'[w] \in {"holding", "counted"}
<1>1. CASE UNCHANGED Hands BY <1>1 DEF Hands
<1>2. ASSUME NEW t \in Task, submit(t) PROVE Still BY <1>1, <1>2 DEF submit, Hands
<1>3. ASSUME NEW ts \in Batches, submit_batch(ts) PROVE Still
  BY <1>1, <1>3 DEF submit_batch, Hands
<1>4. CASE pause \/ resume \/ shutdown \/ ShutdownJoin \/ WaitCall \/ WaitStep
  BY <1>1, <1>4 DEF pause, resume, shutdown, ShutdownJoin, WaitCall, WaitStep, Hands
<1>5. CASE NotifyOne \/ SpuriousWakeup BY <1>5 DEF NotifyOne, SpuriousWakeup, TypeOK
<1>6. ASSUME NEW call, NotifyAll(call) PROVE Still BY <1>6 DEF NotifyAll, TypeOK
<1>7. ASSUME NEW w \in Worker, WorkerStep(w), ~WorkerTake(w), ~WorkerRun(w) PROVE Still
  <2>1. CASE WorkerPark(w) BY <2>1 DEF WorkerPark, TypeOK
  <2>2. CASE WorkerCount(w) BY <2>2 DEF WorkerCount, TypeOK
  <2>3. CASE WorkerUncount(w) BY <2>3 DEF WorkerUncount, TypeOK
  <2>4. CASE WorkerSignal(w) BY <2>4 DEF WorkerSignal, TypeOK
  <2>5. CASE WorkerExit(w) BY <2>5 DEF WorkerExit, TypeOK
  <2> QED BY <1>7, <2>1, <2>2, <2>3, <2>4, <2>5 DEF WorkerStep
<1>8. CASE UNCHANGED vars BY <1>1, <1>8 DEF vars, Hands
<1> QED BY <1>2, <1>3, <1>4, <1>5, <1>6, <1>7, <1>8 DEF Next

LEMMA OnceStep ==
    TypeOK /\ FifoDispatch /\ Distinct(accepted) /\ Holders /\ ExactlyOnce /\ [Next]_vars
        => Holders' /\ ExactlyOnce'
<1> SUFFICES ASSUME TypeOK, FifoDispatch, Distinct(accepted), Holders, ExactlyOnce,
                    [Next]_vars
             PROVE  Holders' /\ ExactlyOnce'
  OBVIOUS
<1>1. ASSUME NEW w \in Worker, WorkerTake(w) PROVE Holders' /\ ExactlyOnce'
  <2> DEFINE t == Head(tasks_)
  <2>1. t \in Task /\ tasks_ # <<>> /\ taken' = Append(taken, t) BY <1>1, TakeShape
  <2>2. t \notin Elems(taken) BY <2>1, HeadIsNew DEF FifoDispatch, TypeOK
  <2>3. Elems(taken') = Elems(taken) \cup {t} BY <2>1, ElemsAppend DEF TypeOK
  <2>4. current[w] = {} /\ worker[w] = "top" BY <1>1 DEF WorkerTake, Holders
  <2>5. current' = [current EXCEPT ![w] = {t}] /\ finished' = finished
        /\ worker' = [worker EXCEPT ![w] = "holding"]
    BY <1>1 DEF WorkerTake
  <2>6. Holders' BY <2>5 DEF Holders, TypeOK
  <2>7. \A v \in Worker : v # w => current'[v] = current[v]
    BY <2>5 DEF TypeOK
  <2>8. current'[w] = {t} BY <2>5 DEF TypeOK
  <2>9. t \notin finished /\ \A v \in Worker : t \notin current[v]
    BY <2>1, <2>2 DEF ExactlyOnce
  <2>10. \A x \in Task : (\E v \in Worker : x \in current'[v])
                            <=> (x = t \/ \E v \in Worker : x \in current[v])
    BY <2>4, <2>7, <2>8
  <2>11. \A x \in Task : x \in Elems(taken')
                            <=> (x \in finished' \/ \E v \in Worker : x \in current'[v])
    BY <2>3, <2>5, <2>10 DEF ExactlyOnce
  <2>12. \A v \in Worker : current'[v] \cap finished' = {}
    BY <2>5, <2>7, <2>8, <2>9 DEF ExactlyOnce
  <2>13. \A u, v \in Worker : u # v => current'[u] \cap current'[v] = {}
    BY <2>7, <2>8, <2>9 DEF ExactlyOnce
  <2> QED BY <2>6, <2>11, <2>12, <2>13 DEF ExactlyOnce
<1>2. ASSUME NEW w \in Worker, WorkerRun(w) PROVE Holders' /\ ExactlyOnce'
  <2>1. current' = [current EXCEPT ![w] = {}] /\ finished' = finished \cup current[w]
        /\ worker' = [worker EXCEPT ![w] = "ran"] /\ taken' = taken
    BY <1>2 DEF WorkerRun
  <2>2. Holders' BY <2>1 DEF Holders, TypeOK
  <2>3. \A v \in Worker : v # w => current'[v] = current[v]
    BY <2>1 DEF TypeOK
  <2>4. current'[w] = {} BY <2>1 DEF TypeOK
  <2>5. \A x : (\E v \in Worker : x \in current[v])
                  <=> (x \in current[w] \/ \E v \in Worker : x \in current'[v])
    BY <2>3, <2>4
  <2>6. \A x \in Task : x \in Elems(taken')
                           <=> (x \in finished' \/ \E v \in Worker : x \in current'[v])
    BY <2>1, <2>5 DEF ExactlyOnce
  <2>7. \A v \in Worker : current'[v] \cap finished' = {}
    BY <2>1, <2>3, <2>4 DEF ExactlyOnce
  <2>8. \A u, v \in Worker : u # v => current'[u] \cap current'[v] = {}
    BY <2>3, <2>4 DEF ExactlyOnce
  <2> QED BY <2>2, <2>6, <2>7, <2>8 DEF ExactlyOnce
<1>3. CASE /\ UNCHANGED <<current, taken, finished>>
           /\ \A w \in Worker : worker[w] \in {"holding", "counted"}
                                   => worker'[w] \in {"holding", "counted"}
  BY <1>3 DEF Holders, ExactlyOnce
<1> QED BY <1>1, <1>2, <1>3, HandsSteps

-----------------------------------------------------------------------------
(* Shutdown.                                                               *)

\* A worker leaves only after stop_ and on an empty queue.
ExitDrained ==
    /\ acceptedOpen \subseteq Elems(accepted)
    /\ (\E w \in Worker : worker[w] = "exited") => stop_ /\ acceptedOpen \subseteq Elems(taken)
    /\ joined => \A w \in Worker : worker[w] = "exited"

LEMMA DrainStep ==
    TypeOK /\ FifoDispatch /\ ExitDrained /\ [Next]_vars => ExitDrained'
<1> SUFFICES ASSUME TypeOK, FifoDispatch, ExitDrained, [Next]_vars PROVE ExitDrained'
  OBVIOUS
<1>1. ASSUME NEW ts \in Seq(Task), Enqueue(ts), taken' = taken,
             UNCHANGED <<stop_, worker, joined>>
      PROVE  ExitDrained'
  <2>1. Elems(accepted') = Elems(accepted) \cup Elems(ts)
    BY <1>1, ElemsConcat DEF Enqueue, TypeOK
  <2> QED BY <1>1, <2>1 DEF Enqueue, ExitDrained
<1>2. ASSUME NEW t \in Task, submit(t) PROVE ExitDrained'
  <2>1. <<t>> \in Seq(Task) OBVIOUS
  <2> QED BY <1>1, <1>2, <2>1 DEF submit
<1>3. ASSUME NEW ts \in Batches, submit_batch(ts) PROVE ExitDrained'
  <2> DEFINE room == MaxQueueSize - Len(tasks_)
  <2>1. PICK t \in Task, u \in Task : ts = <<t, u>> BY DEF Batches
  <2>2. ts \in Seq(Task) /\ Len(ts) = 2 /\ room \in Nat BY <2>1, PoolAssumption DEF TypeOK
  <2>3. UNCHANGED <<stop_, worker, joined, taken>> BY <1>3 DEF submit_batch
  <2>4. CASE Len(ts) <= room
    <3>1. Enqueue(ts) BY <1>3, <2>4 DEF submit_batch
    <3> QED BY <1>1, <2>2, <2>3, <3>1
  <2>5. CASE ~(Len(ts) <= room)
    <3>1. Enqueue(SubSeq(ts, 1, room)) BY <1>3, <2>5 DEF submit_batch
    <3>2. SubSeq(ts, 1, room) \in Seq(Task) BY <2>2, <2>5, BatchPrefix
    <3> QED BY <1>1, <2>3, <3>1, <3>2
  <2> QED BY <2>4, <2>5
<1>4. CASE pause \/ resume \/ shutdown \/ ShutdownJoin \/ WaitCall \/ WaitStep
  BY <1>4 DEF pause, resume, shutdown, ShutdownJoin, WaitCall, WaitStep, ExitDrained
<1>5. CASE NotifyOne \/ SpuriousWakeup
  BY <1>5 DEF NotifyOne, SpuriousWakeup, TypeOK, ExitDrained
<1>6. ASSUME NEW call, NotifyAll(call) PROVE ExitDrained'
  BY <1>6 DEF NotifyAll, TypeOK, ExitDrained
<1>7. ASSUME NEW w \in Worker, WorkerStep(w) PROVE ExitDrained'
  <2>1. CASE WorkerTake(w)
    <3>1. Head(tasks_) \in Task /\ taken' = Append(taken, Head(tasks_)) BY <2>1, TakeShape
    <3>2. taken \in Seq(Task) BY DEF TypeOK
    <3>3. Elems(taken') = Elems(taken) \cup {Head(tasks_)} BY <3>1, <3>2, ElemsAppend
    <3> QED BY <2>1, <3>3 DEF WorkerTake, ExitDrained, TypeOK
  <2>2. CASE WorkerExit(w)
    <3>1. accepted = taken BY <2>2 DEF WorkerExit, FifoDispatch, TypeOK
    <3> QED BY <2>2, <3>1 DEF WorkerExit, ExitDrained, TypeOK
  <2>3. CASE WorkerPark(w) BY <2>3 DEF WorkerPark, ExitDrained, TypeOK
  <2>4. CASE WorkerCount(w) BY <2>4 DEF WorkerCount, ExitDrained, TypeOK
  <2>5. CASE WorkerRun(w) BY <2>5 DEF WorkerRun, ExitDrained, TypeOK
  <2>6. CASE WorkerUncount(w) BY <2>6 DEF WorkerUncount, ExitDrained, TypeOK
  <2>7. CASE WorkerSignal(w) BY <2>7 DEF WorkerSignal, ExitDrained, TypeOK
  <2> QED BY <1>7, <2>1, <2>2, <2>3, <2>4, <2>5, <2>6, <2>7 DEF WorkerStep
<1>8. CASE UNCHANGED vars BY <1>8 DEF vars, ExitDrained
<1> QED BY <1>2, <1>3, <1>4, <1>5, <1>6, <1>7, <1>8 DEF Next

-----------------------------------------------------------------------------
(* wait().                                                                 *)

\* What wait() is to wait for was accepted, and has left the queue when it
\* returns.
Waited ==
    /\ owed \subseteq Elems(accepted)
    /\ waiter = "returned" => owed \subseteq Elems(taken)

LEMMA WaitedStep == TypeOK /\ FifoDispatch /\ Waited /\ [Next]_vars => Waited'
<1> SUFFICES ASSUME TypeOK, FifoDispatch, Waited, [Next]_vars PROVE Waited'
  OBVIOUS
<1>1. /\ Elems(accepted) \subseteq Elems(accepted') /\ Elems(taken) \subseteq Elems(taken')
  <2>1. CASE UNCHANGED Dispatch BY <2>1 DEF Dispatch
  <2>2. ASSUME NEW ts \in Seq(Task), Enqueue(ts), taken' = taken
        PROVE  Elems(accepted) \subseteq Elems(accepted') /\ Elems(taken) \subseteq Elems(taken')
    BY <2>2, ElemsConcat DEF Enqueue, TypeOK
  <2>3. ASSUME NEW w \in Worker, WorkerTake(w)
        PROVE  Elems(accepted) \subseteq Elems(accepted') /\ Elems(taken) \subseteq Elems(taken')
    <3>1. Head(tasks_) \in Task /\ taken' = Append(taken, Head(tasks_)) /\ accepted' = accepted
      BY <2>3, TakeShape
    <3>2. taken \in Seq(Task) BY DEF TypeOK
    <3> QED BY <3>1, <3>2, ElemsAppend
  <2> QED BY <2>1, <2>2, <2>3, DispatchSteps
<1>2. CASE WaitCall BY <1>2 DEF WaitCall, Waited
<1>3. CASE WaitStep
  <2>1. CASE waiter' = "returned"
    <3>1. tasks_ = <<>> /\ UNCHANGED <<owed, accepted, taken>>
      BY <1>3, <2>1 DEF WaitStep, Quiet
    <3>2. accepted = taken BY <3>1 DEF FifoDispatch, TypeOK
    <3> QED BY <3>1, <3>2 DEF Waited
  <2>2. CASE waiter' # "returned" BY <1>3, <2>2 DEF WaitStep, Waited
  <2> QED BY <2>1, <2>2
<1>4. CASE owed' = owed /\ (waiter' = "returned" => waiter = "returned")
  BY <1>1, <1>4 DEF Waited
<1>5. ASSUME NEW t \in Task, submit(t) PROVE Waited' BY <1>4, <1>5 DEF submit
<1>6. ASSUME NEW ts \in Batches, submit_batch(ts) PROVE Waited' BY <1>4, <1>6 DEF submit_batch
<1>7. CASE pause \/ resume \/ shutdown \/ ShutdownJoin
  BY <1>4, <1>7 DEF pause, resume, shutdown, ShutdownJoin
<1>8. CASE NotifyOne BY <1>4, <1>8 DEF NotifyOne
<1>9. CASE SpuriousWakeup BY <1>4, <1>9 DEF SpuriousWakeup
<1>10. ASSUME NEW call, NotifyAll(call) PROVE Waited' BY <1>4, <1>10 DEF NotifyAll
<1>11. ASSUME NEW w \in Worker, WorkerStep(w) PROVE Waited'
  BY <1>4, <1>11 DEF WorkerStep, WorkerPark, WorkerTake, WorkerCount, WorkerRun, WorkerUncount,
                     WorkerSignal, WorkerExit
<1>12. CASE UNCHANGED vars BY <1>4, <1>12 DEF vars
<1> QED BY <1>2, <1>3, <1>5, <1>6, <1>7, <1>8, <1>9, <1>10, <1>11, <1>12 DEF Next

-----------------------------------------------------------------------------
(* The inductive invariant and what follows from it.                       *)

IInv ==
    /\ TypeOK /\ ActiveCounted /\ FifoDispatch /\ Distinct(accepted)
    /\ Holders /\ ExactlyOnce /\ ExitDrained /\ Waited

LEMMA IInvInit == Init => IInv
<1> SUFFICES ASSUME Init PROVE IInv
  OBVIOUS
<1>1. Counted = {} BY DEF Init, Counted
<1>2. ActiveCounted BY <1>1, FS_EmptySet DEF Init, ActiveCounted, Counted
<1>3. Elems(<<>>) = {} BY DEF Elems
<1>4. FifoDispatch /\ Distinct(accepted) BY DEF Init, FifoDispatch, Distinct
<1>5. Holders /\ ExactlyOnce BY <1>3 DEF Init, Holders, ExactlyOnce
<1>6. ExitDrained BY <1>3, PoolAssumption DEF Init, ExitDrained
<1>7. Waited BY <1>3 DEF Init, Waited
<1> QED BY <1>2, <1>4, <1>5, <1>6, <1>7, TypeInit DEF IInv

LEMMA IInvStep == IInv /\ [Next]_vars => IInv'
BY TypeStep, ActiveStep, FifoStep, OnceStep, DrainStep, WaitedStep DEF IInv

\* Workers pop tasks in exactly the order submit and submit_batch accepted
\* them, for any number of workers, tasks and queue slots.
THEOREM FifoHolds == Spec => []FifoDispatch
<1>1. IInv => FifoDispatch BY DEF IInv
<1> QED BY <1>1, IInvInit, IInvStep, PTL DEF Spec

\* No task is run twice and none is held by two workers.
THEOREM OnceHolds == Spec => []ExactlyOnce
<1>1. IInv => ExactlyOnce BY DEF IInv
<1> QED BY <1>1, IInvInit, IInvStep, PTL DEF Spec

\* When wait() returns, no task accepted before the call is in the queue: each
\* has run or is in the hands of a worker.
THEOREM WaitHolds == Spec => []WaitDrains
<1>1. IInv => WaitDrains
  <2> SUFFICES ASSUME IInv, waiter = "returned", NEW t \in owed
               PROVE  t \in finished \/ \E w \in Worker : t \in current[w]
    BY DEF WaitDrains
  <2>1. t \in Elems(taken) /\ t \in Task BY DEF IInv, Waited, TypeOK
  <2> QED BY <2>1 DEF IInv, ExactlyOnce
<1> QED BY <1>1, IInvInit, IInvStep, PTL DEF Spec

\* When shutdown() has joined the workers, everything accepted before it ran.
THEOREM DrainHolds == Spec => []ShutdownDrains
<1>1. IInv => ShutdownDrains
  <2> SUFFICES ASSUME IInv, joined PROVE acceptedOpen \subseteq finished
    BY DEF ShutdownDrains
  <2>1. \A w \in Worker : worker[w] = "exited" BY DEF IInv, ExitDrained
  <2>2. \A w \in Worker : current[w] = {} BY <2>1 DEF IInv, Holders
  <2>3. acceptedOpen \subseteq Elems(taken) BY <2>1, PoolAssumption DEF IInv, ExitDrained
  <2> QED BY <2>2, <2>3 DEF IInv, ExactlyOnce, TypeOK
<1> QED BY <1>1, IInvInit, IInvStep, PTL DEF Spec
=============================================================================
