--------------------------- MODULE WorkflowProofs ---------------------------
(***************************************************************************)
(* Proofs about the workflow system: the graph (WorkflowDag), for every    *)
(* set of tasks and every order its loops take, and the engine with its    *)
(* schedulers (WorkflowEngine), for any number of executions, any tasks    *)
(* and dependencies and any number of retries.                             *)
(***************************************************************************)
EXTENDS WorkflowDag, WorkflowEngine, FiniteSetTheorems, WellFoundedInduction, TLAPS

(***************************************************************************)
(* The graph that is built: the only cycles it can hold are tasks that     *)
(* depend on themselves.                                                   *)
(*                                                                         *)
(* If the edge from -> to is accepted, the set that can_reach visited from *)
(* "to" is closed and no task in it leads to "from". A set of tasks in     *)
(* which everybody has a successor, once the edge is there, would have to  *)
(* use the edge; its part inside the visited set would already have been   *)
(* such a set before.                                                      *)
(***************************************************************************)

GraphOK ==
    /\ tasks_ \subseteq TaskId
    /\ dependencies_ \in [TaskId -> SUBSET tasks_]
    /\ dependents_ \in [TaskId -> SUBSET tasks_]
    /\ \A s, t \in TaskId : s \in dependencies_[t] <=> t \in dependents_[s]

\* The visited set contains its start and is closed.
LEMMA VisitedClosed ==
    ASSUME GraphOK, NEW start \in tasks_
    PROVE  start \in Visited(start) /\ Closed(Visited(start)) /\ Visited(start) \subseteq tasks_
<1>1. start \in Visited(start) /\ Visited(start) \subseteq tasks_ BY DEF Visited
<1>2. ASSUME NEW x \in Visited(start), NEW y \in dependents_[x] PROVE y \in Visited(start)
  <2>1. x \in tasks_ /\ x \in TaskId /\ y \in tasks_ BY <1>1, <1>2 DEF GraphOK
  <2>2. ASSUME NEW V \in SUBSET tasks_, start \in V, Closed(V) PROVE y \in V
    <3>1. x \in V BY <2>2 DEF Visited
    <3> QED BY <3>1, <2>2 DEF Closed
  <2> QED BY <2>1, <2>2 DEF Visited
<1> QED BY <1>1, <1>2 DEF Closed

\* The graph begins empty.
LEMMA GraphInit == Init => GraphOK
BY DEF Init, GraphOK, NoEdges

\* add_task and add_dependency keep the graph in order.
LEMMA GraphStep == GraphOK /\ [Next]_vars => GraphOK'
<1> SUFFICES ASSUME GraphOK, [Next]_vars PROVE GraphOK'
  OBVIOUS
<1>1. CASE UNCHANGED graph BY <1>1 DEF graph, GraphOK
<1>2. ASSUME NEW id \in TaskId, add_task(id) PROVE GraphOK'
  <2>1. \A t \in TaskId : dependencies_[t] \subseteq tasks_ /\ dependents_[t] \subseteq tasks_
    BY DEF GraphOK
  <2>2. dependencies_[id] = {} /\ dependents_[id] = {}
    <3>1. \A t \in TaskId : id \notin dependencies_[t] /\ id \notin dependents_[t]
      BY <1>2, <2>1 DEF add_task
    <3> QED BY <2>1, <3>1 DEF GraphOK
  <2>3. dependencies_' = dependencies_ /\ dependents_' = dependents_
    BY <1>2, <2>2 DEF add_task, GraphOK
  <2> QED BY <1>2, <2>3 DEF add_task, GraphOK
<1>3. ASSUME NEW from \in TaskId, NEW to \in TaskId, add_dependency(from, to) PROVE GraphOK'
  BY <1>3 DEF add_dependency, GraphOK
<1>4. CASE SortStart \/ SortPop \/ SortReturn
  BY <1>1, <1>4 DEF SortStart, SortPop, SortReturn
<1>5. CASE CycleStart \/ CycleLeave \/ CycleReturn
  BY <1>1, <1>5 DEF CycleStart, CycleLeave, CycleReturn
<1>6. ASSUME NEW id \in TaskId, CycleRoot(id) \/ CycleDescend(id) PROVE GraphOK'
  BY <1>1, <1>6 DEF CycleRoot, CycleDescend
<1>7. CASE UNCHANGED vars BY <1>1, <1>7 DEF vars
<1> QED BY <1>2, <1>3, <1>4, <1>5, <1>6, <1>7 DEF Next

\* An accepted dependency closes no cycle of two or more tasks.
LEMMA EdgeKeepsAcyclic ==
    ASSUME GraphOK, NoLongCycle, NEW from \in TaskId, NEW to \in TaskId,
           add_dependency(from, to)
    PROVE  NoLongCycle'
<1>0. from \in tasks_ /\ to \in tasks_ /\ tasks_' = tasks_ /\ ~can_reach(to, from)
      /\ dependents_' = [dependents_ EXCEPT ![from] = @ \cup {to}]
  BY DEF add_dependency
<1> SUFFICES ASSUME NEW S \in SUBSET tasks_, S # {}, \A x \in S : Others'[x] \cap S # {}
             PROVE  FALSE
  BY <1>0 DEF NoLongCycle, Cyclic
<1>1. \A x \in S : x \in TaskId BY DEF GraphOK
<1>2. \A x \in S : x # from => Others'[x] = Others[x]
  BY <1>0, <1>1 DEF Others, GraphOK
<1>3. \A x \in S : Others'[x] \subseteq Others[x] \cup ({to} \ {x})
  BY <1>0, <1>1 DEF Others, GraphOK
<1> DEFINE V == Visited(to)
<1>4. to \in V /\ Closed(V) /\ V \subseteq tasks_ BY <1>0, VisitedClosed
<1>5. \A x \in V : from \notin dependents_[x] BY <1>0 DEF can_reach
<1>6. CASE to \in S /\ from # to
  <2>1. ASSUME NEW x \in S \cap V PROVE Others[x] \cap (S \cap V) # {}
    <3>1. PICK y \in S : y \in Others'[x] BY <2>1
    <3>2. x \in V /\ x \in TaskId BY <1>1, <2>1
    <3>3. CASE x # from
      <4>1. y \in Others[x] BY <3>1, <3>3, <1>2, <2>1
      <4>2. y \in dependents_[x] BY <4>1, <3>2 DEF Others
      <4>3. y \in V BY <4>2, <3>2, <1>4 DEF Closed
      <4> QED BY <4>1, <4>3, <3>1
    <3>4. CASE x = from
      <4> DEFINE W == {v \in V : v # from}
      <4>1. to \in W BY <1>4, <1>6
      <4>2. Closed(W) BY <1>4, <1>5 DEF Closed
      <4>3. W \in SUBSET tasks_ BY <1>4
      <4>4. from \in W BY <3>2, <3>4, <4>1, <4>2, <4>3 DEF Visited
      <4> QED BY <4>4
    <3> QED BY <3>3, <3>4
  <2>2. S \cap V \in SUBSET tasks_ /\ S \cap V # {} BY <1>4, <1>6
  <2> QED BY <2>1, <2>2 DEF NoLongCycle, Cyclic
<1>7. CASE ~(to \in S /\ from # to)
  <2>1. ASSUME NEW x \in S PROVE Others[x] \cap S # {}
    <3>1. PICK y \in S : y \in Others'[x] BY <2>1
    <3>2. y \in Others[x] BY <3>1, <1>2, <1>3, <1>7
    <3> QED BY <3>1, <3>2
  <2> QED BY <2>1 DEF NoLongCycle, Cyclic
<1> QED BY <1>6, <1>7

\* add_task brings a task without edges.
LEMMA TaskKeepsAcyclic ==
    ASSUME GraphOK, NoLongCycle, NEW id \in TaskId, add_task(id)
    PROVE  NoLongCycle'
<1>1. tasks_' = tasks_ \cup {id} /\ id \notin tasks_ BY DEF add_task
<1>2. \A t \in TaskId : dependents_[t] \subseteq tasks_ /\ dependencies_[t] \subseteq tasks_
  BY DEF GraphOK
<1>3. dependents_[id] = {}
  <2>1. \A t \in TaskId : id \notin dependencies_[t] BY <1>1, <1>2
  <2> QED BY <2>1, <1>2 DEF GraphOK
<1>4. dependents_' = dependents_ BY <1>3 DEF add_task, GraphOK
<1>5. Others' = Others BY <1>4 DEF Others
<1> SUFFICES ASSUME NEW S \in SUBSET (tasks_ \cup {id}), S # {},
                    \A x \in S : Others[x] \cap S # {}
             PROVE  FALSE
  BY <1>1, <1>5 DEF NoLongCycle, Cyclic
<1>6. Others[id] = {} BY <1>3 DEF Others
<1>7. id \notin S BY <1>6
<1> QED BY <1>7 DEF NoLongCycle, Cyclic

\* For every set of tasks: a sequence of add_task and add_dependency calls
\* never builds a cycle of two or more tasks, so the depth-first has_cycle
\* that validate_workflow and run() add can only ever find a self-dependency.
THEOREM OnlySelfLoops == Spec => []NoLongCycle
<1>1. Init => GraphOK /\ NoLongCycle
  <2> SUFFICES ASSUME Init PROVE NoLongCycle
    BY GraphInit
  <2>1. tasks_ = {} BY DEF Init
  <2>2. \A S \in (SUBSET tasks_) \ {{}} : FALSE BY <2>1
  <2> QED BY <2>2 DEF NoLongCycle, Cyclic
<1>2. GraphOK /\ NoLongCycle /\ [Next]_vars => GraphOK' /\ NoLongCycle'
  <2> SUFFICES ASSUME GraphOK, NoLongCycle, [Next]_vars PROVE NoLongCycle'
    BY GraphStep
  <2>1. CASE UNCHANGED graph
    <3>1. tasks_' = tasks_ /\ Others' = Others BY <2>1 DEF graph, Others
    <3> QED BY <3>1 DEF NoLongCycle, Cyclic
  <2>2. ASSUME NEW id \in TaskId, add_task(id) PROVE NoLongCycle' BY <2>2, TaskKeepsAcyclic
  <2>3. ASSUME NEW from \in TaskId, NEW to \in TaskId, add_dependency(from, to)
        PROVE  NoLongCycle'
    BY <2>3, EdgeKeepsAcyclic
  <2>4. CASE SortStart \/ SortPop \/ SortReturn
    BY <2>1, <2>4 DEF SortStart, SortPop, SortReturn
  <2>5. CASE CycleStart \/ CycleLeave \/ CycleReturn
    BY <2>1, <2>5 DEF CycleStart, CycleLeave, CycleReturn
  <2>6. ASSUME NEW id \in TaskId, CycleRoot(id) \/ CycleDescend(id) PROVE NoLongCycle'
    BY <2>1, <2>6 DEF CycleRoot, CycleDescend
  <2>7. CASE UNCHANGED vars BY <2>1, <2>7 DEF vars
  <2> QED BY <2>2, <2>3, <2>4, <2>5, <2>6, <2>7 DEF Next
<1> QED BY <1>1, <1>2, PTL DEF Spec


-----------------------------------------------------------------------------
(* has_cycle.                                                              *)

\* The tasks whose frames are closed: met, and not on the stack.
Left == visited \ rec_stack

\* What the innermost loop of a frame has gone through is left, or is the
\* task of the next frame.
FramesOK ==
    /\ frames \in Seq([id : tasks_, todo : SUBSET tasks_])
    /\ \A i, j \in DOMAIN frames : frames[i].id = frames[j].id => i = j
    /\ \A i \in DOMAIN frames : \A x \in dependents_[frames[i].id] :
          \/ x \in frames[i].todo
          \/ x \in Left
          \/ i + 1 \in DOMAIN frames /\ x = frames[i + 1].id
    /\ \A i \in DOMAIN frames : frames[i].todo \subseteq dependents_[frames[i].id]
    /\ \A i \in DOMAIN frames :
          i + 1 \in DOMAIN frames => frames[i + 1].id \in dependents_[frames[i].id]

SearchOK ==
    /\ visited \subseteq tasks_ /\ rec_stack \subseteq visited
    /\ roots \subseteq tasks_ /\ tasks_ \ roots \subseteq visited
    /\ verdict = FALSE
    /\ Closed(Left)
    /\ \A S \in (SUBSET Left) \ {{}} : \E x \in S : dependents_[x] \cap S = {}

\* The invariant of the search.
CycleInv ==
    /\ call = "cycle" => FramesOK /\ SearchOK
    /\ call = "searched" => (verdict <=> Cyclic(dependents_))

\* A function on 1 .. n is a sequence.
LEMMA AsSeq ==
    ASSUME NEW T, NEW n \in Nat, NEW f \in [1..n -> T]
    PROVE  f \in Seq(T) /\ Len(f) = n /\ DOMAIN f = 1..n
OBVIOUS

\* The stack of has_cycle, frame by frame.
LEMMA FramesShape ==
    ASSUME FramesOK
    PROVE  /\ Len(frames) \in Nat /\ DOMAIN frames = 1..Len(frames)
           /\ frames # <<>> => Len(frames) > 0
           /\ \A i \in 1..Len(frames) : /\ frames[i] \in [id : tasks_, todo : SUBSET tasks_]
                                        /\ frames[i].id \in tasks_
                                        /\ frames[i].todo \subseteq tasks_
<1> DEFINE Frame == [id : tasks_, todo : SUBSET tasks_]
<1>1. frames \in Seq(Frame) BY DEF FramesOK
<1> HIDE DEF Frame
<1>2. Len(frames) \in Nat /\ DOMAIN frames = 1..Len(frames) /\ (frames # <<>> => Len(frames) > 0)
  BY <1>1
<1>3. \A i \in 1..Len(frames) : frames[i] \in Frame BY <1>1
<1> USE DEF Frame
<1>4. \A f \in [id : tasks_, todo : SUBSET tasks_] : f.id \in tasks_ /\ f.todo \subseteq tasks_
  OBVIOUS
<1> QED BY <1>2, <1>3, <1>4

\* A task met on the stack closes a cycle: the tasks from its frame on.
LEMMA StackCycle ==
    ASSUME GraphOK, FramesOK, NEW d, frames # <<>>, d \in dependents_[frames[Len(frames)].id],
           d \in rec_stack
    PROVE  Cyclic(dependents_)
<1> DEFINE n == Len(frames)
<1>1. n \in Nat /\ DOMAIN frames = 1..n /\ n \in 1..n
      /\ \A i \in 1..n : frames[i].id \in tasks_
  BY FramesShape
<1>2. PICK k \in 1..n : frames[k].id = d BY <1>1 DEF rec_stack
<1> DEFINE S == {frames[i].id : i \in k..n}
<1>3. S \in (SUBSET tasks_) \ {{}}
  <2>1. k..n \subseteq 1..n /\ k \in k..n BY <1>1
  <2> QED BY <1>1, <2>1
<1>4. ASSUME NEW x \in S PROVE dependents_[x] \cap S # {}
  <2>1. PICK i \in k..n : x = frames[i].id BY <1>4
  <2>2. CASE i = n
    <3>1. d \in S BY <1>1, <1>2
    <3> QED BY <2>1, <2>2, <3>1
  <2>3. CASE i < n
    <3>1. i + 1 \in k..n /\ i \in DOMAIN frames /\ i + 1 \in DOMAIN frames BY <1>1, <2>3
    <3>2. frames[i + 1].id \in dependents_[x] BY <2>1, <3>1 DEF FramesOK
    <3>3. frames[i + 1].id \in S BY <3>1
    <3> QED BY <3>2, <3>3
  <2>4. i = n \/ i < n
    <3> HIDE DEF n
    <3> QED BY <1>1, <2>1
  <2> QED BY <2>2, <2>3, <2>4
<1> QED BY <1>3, <1>4 DEF Cyclic

\* A search that has met every task and left every frame has met no cycle.
LEMMA LeftAll ==
    ASSUME FramesOK, SearchOK, frames = <<>>, roots = {}
    PROVE  ~Cyclic(dependents_)
<1>1. rec_stack = {} BY DEF rec_stack
<1>2. Left = tasks_ BY <1>1 DEF SearchOK, Left
<1>3. ASSUME NEW S \in (SUBSET tasks_) \ {{}} PROVE ~(\A x \in S : dependents_[x] \cap S # {})
  BY <1>2, <1>3 DEF SearchOK
<1> QED BY <1>3 DEF Cyclic

\* The innermost frame is left.
LEMMA LeaveKeeps ==
    ASSUME GraphOK, FramesOK, SearchOK, CycleLeave
    PROVE  FramesOK' /\ SearchOK'
<1> DEFINE n == Len(frames)
           t == frames[n].id
<1>1. n \in Nat \ {0} /\ DOMAIN frames = 1..n
  BY FramesShape DEF CycleLeave
<1>2. frames' = SubSeq(frames, 1, n - 1) /\ frames[n].todo = {}
      /\ UNCHANGED <<tasks_, dependents_, visited, roots, verdict>>
  BY DEF CycleLeave, graph
<1>3. Len(frames') = n - 1 /\ DOMAIN frames' = 1..(n - 1)
      /\ frames' \in Seq([id : tasks_, todo : SUBSET tasks_])
      /\ \A i \in 1..(n - 1) : frames'[i] = frames[i]
  <2> DEFINE Frame == [id : tasks_, todo : SUBSET tasks_]
  <2>1. frames \in Seq(Frame) BY DEF FramesOK
  <2> HIDE DEF Frame
  <2> SUFFICES /\ Len(frames') = n - 1 /\ DOMAIN frames' = 1..(n - 1)
               /\ frames' \in Seq(Frame)
               /\ \A i \in 1..(n - 1) : frames'[i] = frames[i]
    BY DEF Frame
  <2>2. \A i \in 1..n : frames[i] \in Frame BY <2>1
  <2> HIDE DEF n
  <2>3. n = Len(frames) BY DEF n
  <2> QED BY <1>1, <1>2, <2>1, <2>2, <2>3
<1>4. rec_stack' = rec_stack \ {t}
  <2>1. rec_stack = {frames[i].id : i \in 1..n} BY <1>1 DEF rec_stack
  <2>2. rec_stack' = {frames[i].id : i \in 1..(n - 1)} BY <1>3 DEF rec_stack
  <2>3. \A i \in 1..(n - 1) : frames[i].id # t BY <1>1 DEF FramesOK
  <2> HIDE DEF n
  <2>4. \A i \in 1..n : i \in 1..(n - 1) \/ i = n BY <1>1
  <2>5. 1..(n - 1) \subseteq 1..n BY <1>1
  <2> QED BY <2>1, <2>2, <2>3, <2>4, <2>5
<1>5. t \in rec_stack /\ t \in visited /\ t \notin Left
  <2>1. t \in rec_stack BY <1>1 DEF rec_stack
  <2> QED BY <2>1 DEF SearchOK, Left
<1>6. Left' = Left \cup {t} BY <1>2, <1>4, <1>5 DEF Left
<1>7. dependents_[t] \subseteq Left
  <2>1. n \in DOMAIN frames /\ n + 1 \notin DOMAIN frames BY <1>1
  <2> QED BY <1>2, <2>1 DEF FramesOK
<1>8. FramesOK'
  <2>1. ASSUME NEW i \in 1..(n - 1), NEW x \in dependents_[frames[i].id]
        PROVE  \/ x \in frames[i].todo
               \/ x \in Left'
               \/ i + 1 \in 1..(n - 1) /\ x = frames[i + 1].id
    <3>1. i \in DOMAIN frames BY <1>1
    <3>2. \/ x \in frames[i].todo \/ x \in Left
          \/ i + 1 \in DOMAIN frames /\ x = frames[i + 1].id
      BY <3>1 DEF FramesOK
    <3>3. i + 1 \in DOMAIN frames => i + 1 \in 1..(n - 1) \/ i + 1 = n
      <4> HIDE DEF n
      <4> QED BY <1>1
    <3> QED BY <1>6, <3>2, <3>3
  <2>2. \A i, j \in 1..(n - 1) : frames[i].id = frames[j].id => i = j BY <1>1 DEF FramesOK
  <2>3. \A i \in 1..(n - 1) : frames[i].todo \subseteq dependents_[frames[i].id]
    BY <1>1 DEF FramesOK
  <2>4. \A i \in 1..(n - 1) :
           i + 1 \in 1..(n - 1) => frames[i + 1].id \in dependents_[frames[i].id]
    <3>1. \A i \in 1..(n - 1) : i \in 1..n BY <1>1
    <3> QED BY <1>1, <3>1 DEF FramesOK
  <2>5. \A i \in 1..(n - 1) : i + 1 \in 1..(n - 1) => frames'[i + 1] = frames[i + 1]
    BY <1>3
  <2> HIDE DEF n
  <2>6. tasks_' = tasks_ /\ dependents_' = dependents_ BY <1>2
  <2>7. /\ \A i, j \in DOMAIN frames' : frames'[i].id = frames'[j].id => i = j
        /\ \A i \in DOMAIN frames' : frames'[i].todo \subseteq dependents_[frames'[i].id]
        /\ \A i \in DOMAIN frames' :
              i + 1 \in DOMAIN frames' => frames'[i + 1].id \in dependents_[frames'[i].id]
    BY <1>3, <2>2, <2>3, <2>4, <2>5
  <2>8. \A i \in DOMAIN frames' : \A x \in dependents_[frames'[i].id] :
           \/ x \in frames'[i].todo
           \/ x \in Left'
           \/ i + 1 \in DOMAIN frames' /\ x = frames'[i + 1].id
    BY <1>3, <2>1, <2>5
  <2> QED BY <1>3, <2>6, <2>7, <2>8 DEF FramesOK
<1>9. Closed(Left)' BY <1>2, <1>6, <1>7 DEF SearchOK, Closed
<1>10. ASSUME NEW S \in (SUBSET (Left \cup {t})) \ {{}}
       PROVE  \E x \in S : dependents_[x] \cap S = {}
  <2>1. CASE S \cap Left = {}
    <3>1. S = {t} BY <2>1
    <3>2. t \notin dependents_[t] BY <1>5, <1>7
    <3> QED BY <3>1, <3>2
  <2>2. CASE S \cap Left # {}
    <3>1. PICK x \in S \cap Left : dependents_[x] \cap (S \cap Left) = {}
      <4>1. S \cap Left \in (SUBSET Left) \ {{}} BY <2>2
      <4> QED BY <4>1 DEF SearchOK
    <3>2. dependents_[x] \subseteq Left BY <3>1 DEF SearchOK, Closed
    <3>3. dependents_[x] \cap S = {} BY <3>1, <3>2
    <3> QED BY <3>1, <3>3
  <2> QED BY <2>1, <2>2
<1>11. SearchOK' BY <1>2, <1>4, <1>6, <1>9, <1>10 DEF SearchOK
<1> QED BY <1>8, <1>11


\* The search goes on to a task it has not met: a new frame.
LEMMA PushKeeps ==
    ASSUME GraphOK, FramesOK, SearchOK, UNCHANGED graph, verdict' = verdict,
           NEW d \in tasks_ \ visited, NEW rest \in Seq([id : tasks_, todo : SUBSET tasks_]),
           Len(rest) = Len(frames),
           \A i \in DOMAIN frames : /\ rest[i].id = frames[i].id
                                    /\ rest[i].todo \subseteq frames[i].todo
                                    /\ frames[i].todo \ rest[i].todo \subseteq {d}
                                    /\ i < Len(frames) => rest[i].todo = frames[i].todo,
           frames # <<>> => d \in dependents_[frames[Len(frames)].id],
           visited' = visited \cup {d}, roots \ {d} \subseteq roots', roots' \subseteq tasks_,
           frames' = Append(rest, [id |-> d, todo |-> dependents_[d]])
    PROVE  FramesOK' /\ SearchOK'
<1> DEFINE n == Len(frames)
           Frame == [id : tasks_, todo : SUBSET tasks_]
           last == [id |-> d, todo |-> dependents_[d]]
<1>1. n \in Nat /\ DOMAIN frames = 1..n /\ DOMAIN rest = 1..n /\ (n > 0 => frames # <<>>)
  BY FramesShape
<1>2. last \in Frame BY DEF GraphOK
<1>3. frames' \in Seq(Frame) /\ Len(frames') = n + 1 /\ DOMAIN frames' = 1..(n + 1)
      /\ frames'[n + 1] = last /\ \A i \in 1..n : frames'[i] = rest[i]
  <2>1. rest \in Seq(Frame) /\ Len(rest) = n /\ frames' = Append(rest, last) OBVIOUS
  <2> HIDE DEF Frame, last, n
  <2> QED BY <1>1, <1>2, <2>1
<1>4. tasks_' = tasks_ /\ dependents_' = dependents_ BY DEF graph
<1>5. rec_stack' = rec_stack \cup {d}
  <2>1. rec_stack = {frames[i].id : i \in 1..n} BY <1>1 DEF rec_stack
  <2>2. rec_stack' = {frames'[i].id : i \in 1..(n + 1)} BY <1>3 DEF rec_stack
  <2>3. \A i \in 1..n : frames'[i].id = frames[i].id BY <1>1, <1>3
  <2>4. frames'[n + 1].id = d BY <1>3
  <2> HIDE DEF n, last, Frame
  <2>5. \A i \in 1..(n + 1) : i \in 1..n \/ i = n + 1 BY <1>1
  <2>6. 1..n \subseteq 1..(n + 1) /\ n + 1 \in 1..(n + 1) BY <1>1
  <2>7. rec_stack' \subseteq rec_stack \cup {d}
    <3>1. \A i \in 1..(n + 1) : frames'[i].id \in rec_stack \cup {d}
      BY <2>1, <2>3, <2>4, <2>5
    <3> QED BY <2>2, <3>1, ZenonT(40)
  <2>8. rec_stack \subseteq rec_stack'
    <3>1. \A i \in 1..n : frames[i].id \in rec_stack' BY <2>2, <2>3, <2>6
    <3> QED BY <2>1, <3>1
  <2>9. d \in rec_stack' BY <2>2, <2>4, <2>6
  <2> QED BY <2>7, <2>8, <2>9
<1>6. d \notin rec_stack /\ Left' = Left BY <1>5 DEF SearchOK, Left
<1>7. SearchOK'
  <2>1. rec_stack' \subseteq visited' BY <1>5 DEF SearchOK
  <2>2. tasks_ \ roots' \subseteq visited' BY DEF SearchOK
  <2> QED BY <1>4, <1>6, <2>1, <2>2 DEF SearchOK, Closed
<1>8. \A i \in 1..n : frames'[i].id = frames[i].id /\ frames'[i].id # d
  BY <1>1, <1>3, <1>6 DEF rec_stack
<1>9. frames'[n + 1].id = d /\ frames'[n + 1].todo = dependents_[d] BY <1>3
<1>10. \A i \in 1..(n + 1) : i \in 1..n \/ i = n + 1
  <2> HIDE DEF n
  <2> QED BY <1>1
<1>11. \A i, j \in 1..(n + 1) : frames'[i].id = frames'[j].id => i = j
  <2>1. \A i, j \in 1..n : frames[i].id = frames[j].id => i = j BY <1>1 DEF FramesOK
  <2> HIDE DEF n
  <2> QED BY <2>1, <1>8, <1>9, <1>10, ZenonT(40)
<1>12. ASSUME NEW i \in 1..(n + 1), NEW x \in dependents_[frames'[i].id]
       PROVE  \/ x \in frames'[i].todo
              \/ x \in Left
              \/ i + 1 \in 1..(n + 1) /\ x = frames'[i + 1].id
  <2>1. CASE i = n + 1 BY <2>1, <1>9
  <2>2. CASE i \in 1..n
    <3>1. \/ x \in frames[i].todo \/ x \in Left
          \/ i + 1 \in 1..n /\ x = frames[i + 1].id
      BY <1>1, <1>8, <1>12, <2>2 DEF FramesOK
    <3>2. CASE x \in frames[i].todo
      <4>1. x \in rest[i].todo \/ (x = d /\ i = n)
        <5>1. x \in rest[i].todo \/ (x = d /\ ~(i < n)) BY <3>2, <2>2, <1>1
        <5> HIDE DEF n
        <5> QED BY <5>1, <2>2, <1>1
      <4>2. rest[i].todo = frames'[i].todo BY <1>3, <2>2
      <4>3. i = n => i + 1 \in 1..(n + 1) /\ frames'[i + 1].id = d
        <5> HIDE DEF n
        <5> QED BY <1>1, <1>9, <2>2
      <4> QED BY <4>1, <4>2, <4>3
    <3>3. CASE i + 1 \in 1..n /\ x = frames[i + 1].id
      <4>1. i + 1 \in 1..(n + 1)
        <5> HIDE DEF n
        <5> QED BY <1>1, <3>3
      <4> QED BY <3>3, <4>1, <1>8
    <3> QED BY <3>1, <3>2, <3>3
  <2> QED BY <2>1, <2>2, <1>10
<1>13. \A i \in 1..(n + 1) : frames'[i].todo \subseteq dependents_[frames'[i].id]
  <2>1. \A i \in 1..n : rest[i].todo \subseteq dependents_[frames[i].id] BY <1>1 DEF FramesOK
  <2>2. \A i \in 1..n : frames'[i].todo \subseteq dependents_[frames'[i].id] BY <1>3, <1>8, <2>1
  <2> QED BY <2>2, <1>9, <1>10
<1>14. ASSUME NEW i \in 1..(n + 1), i + 1 \in 1..(n + 1)
       PROVE  frames'[i + 1].id \in dependents_[frames'[i].id]
  <2>1. i \in 1..n /\ (i = n \/ i + 1 \in 1..n)
    <3> HIDE DEF n
    <3> QED BY <1>14, <1>1
  <2>2. CASE i = n
    <3>1. frames # <<>> BY <1>1, <2>1
    <3> QED BY <1>8, <1>9, <2>1, <2>2, <3>1
  <2>3. CASE i + 1 \in 1..n BY <1>1, <1>8, <2>1, <2>3 DEF FramesOK
  <2> QED BY <2>1, <2>2, <2>3
<1> HIDE DEF n
<1> QED BY <1>3, <1>4, <1>6, <1>7, <1>11, <1>12, <1>13, <1>14 DEF FramesOK

\* A task met before, and left, is passed over.
LEMMA SkipKeeps ==
    ASSUME GraphOK, FramesOK, SearchOK, UNCHANGED <<graph, roots, verdict>>, frames # <<>>,
           NEW d \in Left, visited' = visited,
           frames' = [frames EXCEPT ![Len(frames)].todo = @ \ {d}]
    PROVE  FramesOK' /\ SearchOK'
<1> DEFINE n == Len(frames)
           Frame == [id : tasks_, todo : SUBSET tasks_]
<1>1. n \in Nat \ {0} /\ DOMAIN frames = 1..n BY FramesShape
<1>2. /\ frames' \in Seq(Frame) /\ Len(frames') = n /\ DOMAIN frames' = 1..n
      /\ \A i \in 1..n : /\ frames'[i].id = frames[i].id
                         /\ frames'[i].todo = frames[i].todo \ (IF i = n THEN {d} ELSE {})
  <2>1. [frames[n] EXCEPT !.todo = @ \ {d}] \in Frame BY <1>1, FramesShape
  <2>2. \A i \in 1..n : frames[i] \in Frame BY FramesShape
  <2>3. frames' = [i \in 1..n |-> IF i = n THEN [frames[n] EXCEPT !.todo = @ \ {d}]
                                  ELSE frames[i]]
    BY <1>1
  <2>4. frames' \in [1..n -> Frame]
    <3> HIDE DEF n, Frame
    <3> QED BY <2>1, <2>2, <2>3
  <2>5. frames' \in Seq(Frame) /\ Len(frames') = n /\ DOMAIN frames' = 1..n
    <3> HIDE DEF n, Frame
    <3> QED BY <1>1, <2>4, AsSeq, ZenonT(40)
  <2>6. ASSUME NEW i \in 1..n
        PROVE  /\ frames'[i].id = frames[i].id
               /\ frames'[i].todo = frames[i].todo \ (IF i = n THEN {d} ELSE {})
    <3>1. CASE i = n
      <4>1. frames'[i] = [frames[n] EXCEPT !.todo = @ \ {d}] BY <2>3, <3>1
      <4>2. frames[n] \in Frame BY <2>2, <1>1
      <4> QED BY <3>1, <4>1, <4>2
    <3>2. CASE i # n
      <4>1. frames'[i] = frames[i] BY <2>3, <3>2
      <4> QED BY <3>2, <4>1
    <3> QED BY <3>1, <3>2
  <2> QED BY <2>5, <2>6
<1>3. tasks_' = tasks_ /\ dependents_' = dependents_ BY DEF graph
<1>4. rec_stack' = rec_stack
  <2>1. rec_stack = {frames[i].id : i \in 1..n} BY <1>1 DEF rec_stack
  <2>2. rec_stack' = {frames'[i].id : i \in 1..n} BY <1>2 DEF rec_stack
  <2> QED BY <2>1, <2>2, <1>2
<1>5. Left' = Left BY <1>4 DEF Left
<1>6. SearchOK' BY <1>3, <1>4, <1>5 DEF SearchOK, Closed
<1>7. ASSUME NEW i \in 1..n, NEW x \in dependents_[frames[i].id]
      PROVE  \/ x \in frames'[i].todo \/ x \in Left
             \/ i + 1 \in 1..n /\ x = frames[i + 1].id
  <2>1. \/ x \in frames[i].todo \/ x \in Left
        \/ i + 1 \in 1..n /\ x = frames[i + 1].id
    BY <1>1 DEF FramesOK
  <2> QED BY <2>1, <1>2
<1>8. FramesOK'
  <2>1. \A i, j \in 1..n : frames[i].id = frames[j].id => i = j BY <1>1 DEF FramesOK
  <2>2. \A i \in 1..n : frames[i].todo \subseteq dependents_[frames[i].id] BY <1>1 DEF FramesOK
  <2>3. \A i \in 1..n : i + 1 \in 1..n => frames[i + 1].id \in dependents_[frames[i].id]
    BY <1>1 DEF FramesOK
  <2>4. \A i \in 1..n : frames'[i].todo \subseteq frames[i].todo BY <1>2
  <2> HIDE DEF n
  <2> QED BY <1>2, <1>3, <1>5, <1>7, <2>1, <2>2, <2>3, <2>4 DEF FramesOK
<1> QED BY <1>6, <1>8

\* Every step keeps what has_cycle knows.
LEMMA CycleStep == GraphOK /\ CycleInv /\ [Next]_vars => CycleInv'
<1> SUFFICES ASSUME GraphOK, CycleInv, [Next]_vars PROVE CycleInv'
  OBVIOUS
<1>1. CASE CycleStart
  <2>1. call' = "cycle" /\ frames' = <<>> /\ roots' = tasks_ /\ visited' = {}
        /\ verdict' = FALSE /\ tasks_' = tasks_ /\ dependents_' = dependents_
    BY <1>1 DEF CycleStart, graph
  <2>2. rec_stack' = {} /\ Left' = {} BY <2>1 DEF rec_stack, Left
  <2>3. FramesOK' BY <2>1, <2>2 DEF FramesOK
  <2>4. SearchOK' BY <2>1, <2>2 DEF SearchOK, Closed
  <2> QED BY <2>1, <2>3, <2>4 DEF CycleInv
<1>2. ASSUME NEW id \in TaskId, CycleRoot(id) PROVE CycleInv'
  <2>1. call = "cycle" /\ call' = "cycle" /\ FramesOK /\ SearchOK /\ frames = <<>>
        /\ UNCHANGED <<graph, verdict>> /\ roots' = roots \ {id} /\ id \in roots
        /\ visited' = visited \cup {id}
    BY <1>2 DEF CycleRoot, CycleInv
  <2>0. tasks_' = tasks_ /\ dependents_' = dependents_ BY <2>1 DEF graph
  <2>2. CASE id \in visited
    <3>1. frames' = frames /\ visited' = visited BY <1>2, <2>1, <2>2 DEF CycleRoot
    <3>2. rec_stack' = rec_stack /\ Left' = Left BY <3>1 DEF rec_stack, Left
    <3>3. FramesOK' BY <2>0, <2>1, <3>1, <3>2 DEF FramesOK
    <3>4. SearchOK' BY <2>0, <2>1, <2>2, <3>1, <3>2 DEF SearchOK, Closed
    <3> QED BY <2>1, <3>3, <3>4 DEF CycleInv
  <2>3. CASE id \notin visited
    <3>1. frames' = <<[id |-> id, todo |-> dependents_[id]]>> BY <1>2, <2>3 DEF CycleRoot
    <3>2. frames' = Append(frames, [id |-> id, todo |-> dependents_[id]])
      <4> DEFINE new == [id |-> id, todo |-> dependents_[id]]
      <4>1. frames' = <<new>> /\ frames = <<>> BY <2>1, <3>1
      <4> HIDE DEF new
      <4>2. frames' = Append(frames, new) BY <4>1
      <4> QED BY <4>2 DEF new
    <3>3. id \in tasks_ \ visited /\ roots' \subseteq tasks_ BY <2>1, <2>3 DEF SearchOK
    <3>4. Len(frames) = Len(frames) /\ DOMAIN frames = {} BY <2>1
    <3>5. frames \in Seq([id : tasks_, todo : SUBSET tasks_]) BY <2>1 DEF FramesOK
    <3>6. FramesOK' /\ SearchOK' BY <2>1, <3>2, <3>3, <3>4, <3>5, PushKeeps
    <3> QED BY <2>1, <3>6 DEF CycleInv
  <2> QED BY <2>2, <2>3
<1>3. ASSUME NEW id \in TaskId, CycleDescend(id) PROVE CycleInv'
  <2> DEFINE n == Len(frames)
             rest == [frames EXCEPT ![n].todo = @ \ {id}]
             Frame == [id : tasks_, todo : SUBSET tasks_]
  <2>1. call = "cycle" /\ FramesOK /\ SearchOK /\ frames # <<>> /\ UNCHANGED <<graph, roots>>
        /\ id \in frames[n].todo
    BY <1>3 DEF CycleDescend, CycleInv
  <2>0. tasks_' = tasks_ /\ dependents_' = dependents_ BY <2>1 DEF graph
  <2>2. n \in Nat \ {0} /\ n \in DOMAIN frames /\ DOMAIN frames = 1..n BY <2>1, FramesShape
  <2>3. id \in dependents_[frames[n].id] /\ id \in tasks_
    <3>1. frames[n].todo \subseteq tasks_ BY <2>1, <2>2, FramesShape
    <3> QED BY <2>1, <2>2, <3>1 DEF FramesOK
  <2>4. CASE id \in rec_stack
    <3>1. call' = "searched" /\ verdict' = TRUE BY <1>3, <2>4 DEF CycleDescend
    <3>2. Cyclic(dependents_) BY <2>1, <2>3, <2>4, StackCycle
    <3> QED BY <2>0, <3>1, <3>2 DEF CycleInv, Cyclic
  <2>5. CASE id \notin rec_stack /\ id \in visited
    <3>1. frames' = rest /\ visited' = visited /\ call' = call /\ verdict' = verdict
      BY <1>3, <2>5 DEF CycleDescend
    <3>2. id \in Left BY <2>5 DEF Left
    <3>3. FramesOK' /\ SearchOK' BY <2>1, <3>1, <3>2, SkipKeeps
    <3> QED BY <2>1, <3>1, <3>3 DEF CycleInv
  <2>6. CASE id \notin rec_stack /\ id \notin visited
    <3>1. frames' = Append(rest, [id |-> id, todo |-> dependents_[id]])
          /\ visited' = visited \cup {id} /\ call' = call /\ verdict' = verdict
      BY <1>3, <2>6 DEF CycleDescend
    <3>2. \A i \in 1..n : frames[i] \in Frame BY <2>1, FramesShape
    <3>3. rest = [i \in 1..n |-> IF i = n THEN [frames[n] EXCEPT !.todo = @ \ {id}]
                                 ELSE frames[i]]
      BY <2>2
    <3>4. [frames[n] EXCEPT !.todo = @ \ {id}] \in Frame BY <2>2, <3>2
    <3>5. rest \in Seq(Frame) /\ Len(rest) = n
      <4> HIDE DEF n, Frame
      <4>1. rest \in [1..n -> Frame] BY <3>2, <3>3, <3>4
      <4> HIDE DEF rest
      <4> QED BY <2>2, <4>1, AsSeq
    <3>6. ASSUME NEW i \in 1..n
          PROVE  /\ rest[i].id = frames[i].id
                 /\ rest[i].todo \subseteq frames[i].todo
                 /\ frames[i].todo \ rest[i].todo \subseteq {id}
                 /\ i < Len(frames) => rest[i].todo = frames[i].todo
      <4>1. CASE i = n
        <5>1. rest[i] = [frames[n] EXCEPT !.todo = @ \ {id}] BY <3>3, <4>1
        <5>2. frames[n] \in Frame BY <2>2, <3>2
        <5> QED BY <2>2, <4>1, <5>1, <5>2
      <4>2. CASE i # n
        <5>1. rest[i] = frames[i] BY <3>3, <4>2
        <5> QED BY <5>1
      <4> QED BY <4>1, <4>2
    <3>7. roots \ {id} \subseteq roots' /\ roots' \subseteq tasks_ BY <2>1 DEF SearchOK
    <3>8. UNCHANGED graph /\ id \in tasks_ \ visited BY <2>1, <2>3, <2>6
    <3>9. FramesOK' /\ SearchOK'
      <4>1. frames # <<>> => id \in dependents_[frames[Len(frames)].id] BY <2>3
      <4>2. \A i \in DOMAIN frames : /\ rest[i].id = frames[i].id
                                     /\ rest[i].todo \subseteq frames[i].todo
                                     /\ frames[i].todo \ rest[i].todo \subseteq {id}
                                     /\ i < Len(frames) => rest[i].todo = frames[i].todo
        BY <2>2, <3>6
      <4>3. rest \in Seq([id : tasks_, todo : SUBSET tasks_]) /\ Len(rest) = Len(frames)
        BY <3>5
      <4> HIDE DEF rest, n, Frame
      <4> QED BY <2>1, <3>1, <3>7, <3>8, <4>1, <4>2, <4>3, PushKeeps
    <3> QED BY <2>1, <3>1, <3>9 DEF CycleInv
  <2> QED BY <2>4, <2>5, <2>6
<1>4. CASE CycleLeave
  <2>1. FramesOK /\ SearchOK /\ call' = call /\ call = "cycle"
    BY <1>4 DEF CycleLeave, CycleInv
  <2>2. FramesOK' /\ SearchOK' BY <1>4, <2>1, LeaveKeeps
  <2> QED BY <2>1, <2>2 DEF CycleInv
<1>5. CASE CycleReturn
  <2>1. FramesOK /\ SearchOK /\ call' = "searched" /\ frames = <<>> /\ roots = {}
        /\ tasks_' = tasks_ /\ dependents_' = dependents_ /\ verdict' = verdict
    BY <1>5 DEF CycleReturn, CycleInv, graph, searching
  <2>2. ~Cyclic(dependents_) /\ verdict = FALSE BY <2>1, LeftAll DEF SearchOK
  <2> QED BY <2>1, <2>2 DEF CycleInv, Cyclic
<1>6. CASE \/ \E id \in TaskId : add_task(id)
           \/ \E from, to \in TaskId : add_dependency(from, to)
           \/ SortStart
  <2>1. call' \notin {"cycle", "searched"} BY <1>6 DEF add_task, add_dependency, SortStart
  <2> QED BY <2>1 DEF CycleInv
<1>7. CASE SortPop \/ SortReturn
  <2>1. call' \notin {"cycle", "searched"} BY <1>7 DEF SortPop, SortReturn
  <2> QED BY <2>1 DEF CycleInv
<1>8. CASE UNCHANGED vars
  BY <1>8 DEF vars, graph, searching, CycleInv, FramesOK, SearchOK, Left, rec_stack, Closed, Cyclic
<1> QED BY <1>1, <1>2, <1>3, <1>4, <1>5, <1>6, <1>7, <1>8 DEF Next


-----------------------------------------------------------------------------
(* topological_sort.                                                       *)

Ran(s) == {s[i] : i \in DOMAIN s}
OneToOne(s) == \A i, j \in DOMAIN s : s[i] = s[j] => i = j

\* What topological_sort has freed, in the queue or in the result, is exactly
\* what depends on nothing but the result.
SortOK ==
    /\ queue \in Seq(tasks_) /\ result \in Seq(tasks_)
    /\ OneToOne(queue) /\ OneToOne(result) /\ Ran(queue) \cap Ran(result) = {}
    /\ \A t \in tasks_ : in_degree[t] = Cardinality(dependencies_[t] \ Ran(result))
    /\ in_degree \in [TaskId -> Int]
    /\ \A t \in tasks_ :
          t \in Ran(queue) \cup Ran(result) <=> dependencies_[t] \subseteq Ran(result)
    /\ \A j \in DOMAIN result : \A t \in dependencies_[result[j]] :
          \E i \in DOMAIN result : i < j /\ result[i] = t

\* The invariant of the sort.
SortInv ==
    /\ IsFiniteSet(tasks_)
    /\ call \in {"sort", "sorted"} => SortOK
    /\ call = "sorted" => queue = <<>>

\* An order of a finite set visits each of its elements, once.
LEMMA OrderVisits ==
    ASSUME NEW S, IsFiniteSet(S), NEW s \in Orders(S)
    PROVE  s \in Seq(S) /\ OneToOne(s) /\ Ran(s) = S
<1> DEFINE n == Cardinality(S)
<1>1. n \in Nat BY FS_CardinalityType
<1>2. s \in [1..n -> S] /\ OneToOne(s) BY DEF Orders, OneToOne
<1>3. s \in Injection(1..n, S)
  <2>1. \A a, b \in 1..n : s[a] = s[b] => a = b BY <1>2 DEF OneToOne
  <2> QED BY <1>2, <2>1 DEF Injection, IsInjective
<1>4. Cardinality(1..n) = n BY <1>1, FS_Interval
<1>5. s \in Surjection(1..n, S)
  <2> HIDE DEF n
  <2> QED BY <1>3, <1>4, FS_Injection DEF n
<1>6. \A x \in S : \E i \in 1..n : s[i] = x BY <1>5 DEF Surjection
<1>7. Ran(s) = S BY <1>2, <1>6 DEF Ran
<1>8. s \in Seq(S)
  <2> HIDE DEF n
  <2> QED BY <1>1, <1>2, AsSeq
<1> QED BY <1>2, <1>7, <1>8

\* A task behind the others in the order.
LEMMA RanAppend ==
    ASSUME NEW T, NEW s \in Seq(T), NEW x \in T
    PROVE  /\ Append(s, x) \in Seq(T) /\ Ran(Append(s, x)) = Ran(s) \cup {x}
           /\ DOMAIN Append(s, x) = 1..(Len(s) + 1) /\ DOMAIN s = 1..Len(s)
           /\ \A i \in DOMAIN s : Append(s, x)[i] = s[i]
           /\ Append(s, x)[Len(s) + 1] = x
<1>1. /\ Append(s, x) \in Seq(T)
      /\ DOMAIN Append(s, x) = 1..(Len(s) + 1) /\ DOMAIN s = 1..Len(s)
      /\ \A i \in DOMAIN s : Append(s, x)[i] = s[i]
      /\ Append(s, x)[Len(s) + 1] = x
  OBVIOUS
<1>2. Len(s) \in Nat OBVIOUS
<1>3. \A i \in 1..(Len(s) + 1) : i \in 1..Len(s) \/ i = Len(s) + 1 BY <1>2
<1>4. 1..Len(s) \subseteq 1..(Len(s) + 1) /\ Len(s) + 1 \in 1..(Len(s) + 1) BY <1>2
<1> DEFINE a == Append(s, x)
<1> HIDE DEF a
<1>5. Ran(a) \subseteq Ran(s) \cup {x} BY <1>1, <1>3 DEF Ran, a
<1>6. Ran(s) \subseteq Ran(a) BY <1>1, <1>4 DEF Ran, a
<1>7. x \in Ran(a) BY <1>1, <1>4 DEF Ran, a
<1> QED BY <1>1, <1>5, <1>6, <1>7 DEF a

\* The head is taken and others come in.
LEMMA RanRotate ==
    ASSUME NEW T, NEW q \in Seq(T), q # <<>>, OneToOne(q),
           NEW s \in Seq(T), OneToOne(s), Ran(q) \cap Ran(s) = {}
    PROVE  /\ Tail(q) \o s \in Seq(T) /\ OneToOne(Tail(q) \o s)
           /\ Ran(Tail(q) \o s) = (Ran(q) \ {Head(q)}) \cup Ran(s)
           /\ Head(q) \in Ran(q) /\ Head(q) \in T
<1> DEFINE n == Len(q) - 1
           m == Len(s)
           r == Tail(q) \o s
<1>1. n \in Nat /\ m \in Nat /\ DOMAIN q = 1..(n + 1) /\ DOMAIN s = 1..m OBVIOUS
<1>2. /\ r \in Seq(T) /\ DOMAIN r = 1..(n + m)
      /\ \A i \in 1..n : r[i] = q[i + 1]
      /\ \A i \in 1..m : r[n + i] = s[i]
  <2>1. Tail(q) \in Seq(T) /\ Len(Tail(q)) = n /\ \A i \in 1..n : Tail(q)[i] = q[i + 1]
    OBVIOUS
  <2> DEFINE u == Tail(q)
  <2> HIDE DEF u
  <2>2. u \in Seq(T) /\ Len(u) = n BY <2>1 DEF u
  <2>3. r = u \o s BY DEF u
  <2>4. Len(u \o s) = n + m /\ u \o s \in Seq(T) BY <2>2
  <2>5. \A i \in 1..n : (u \o s)[i] = u[i] BY <2>2, <1>1
  <2>6. \A i \in 1..m : (u \o s)[n + i] = s[i]
    <3> HIDE DEF n
    <3> QED BY <2>2, <1>1
  <2>7. \A i \in 1..n : u[i] = q[i + 1] BY <2>1 DEF u
  <2>8. DOMAIN (u \o s) = 1..(n + m) BY <2>4
  <2> QED BY <2>3, <2>4, <2>5, <2>6, <2>7, <2>8
<1>3. Head(q) = q[1] OBVIOUS
<1> HIDE DEF n, m, r
<1>4. \A i \in 1..(n + m) : i \in 1..n \/ (i - n \in 1..m /\ n + (i - n) = i) BY <1>1
<1>5. \A i \in 1..n : i \in 1..(n + m) /\ i + 1 \in 1..(n + 1) /\ i + 1 # 1 BY <1>1
<1>6. \A i \in 1..m : n + i \in 1..(n + m) BY <1>1
<1>7. \A i \in 1..(n + 1) : i = 1 \/ (i - 1 \in 1..n /\ (i - 1) + 1 = i) BY <1>1
<1>8. 1 \in 1..(n + 1) BY <1>1
<1>9. ASSUME NEW i \in 1..n PROVE r[i] \in Ran(q) \ {Head(q)}
  <2>1. r[i] = q[i + 1] /\ i + 1 \in DOMAIN q BY <1>1, <1>2, <1>5
  <2>2. q[i + 1] # q[1] BY <1>1, <1>5, <1>8, <2>1 DEF OneToOne
  <2> QED BY <1>3, <2>1, <2>2 DEF Ran
<1>10. \A i \in 1..m : r[n + i] \in Ran(s) BY <1>1, <1>2 DEF Ran
<1>11. Ran(r) \subseteq (Ran(q) \ {Head(q)}) \cup Ran(s)
  <2>1. \A i \in 1..(n + m) : r[i] \in (Ran(q) \ {Head(q)}) \cup Ran(s)
    BY <1>4, <1>9, <1>10
  <2> QED BY <1>2, <2>1 DEF Ran
<1>12. Ran(s) \subseteq Ran(r)
  <2>1. \A i \in 1..m : s[i] \in Ran(r)
    <3>1. \A i \in 1..m : r[n + i] = s[i] /\ n + i \in DOMAIN r BY <1>2, <1>6
    <3> QED BY <3>1 DEF Ran
  <2> QED BY <1>1, <2>1 DEF Ran
<1>13. Ran(q) \ {Head(q)} \subseteq Ran(r)
  <2>1. ASSUME NEW i \in 1..(n + 1), q[i] # q[1] PROVE q[i] \in Ran(r)
    <3>1. i - 1 \in 1..n /\ (i - 1) + 1 = i BY <1>7, <2>1
    <3>2. r[i - 1] = q[i] BY <1>2, <3>1
    <3>3. i - 1 \in DOMAIN r BY <1>2, <1>5, <3>1
    <3> QED BY <3>2, <3>3 DEF Ran
  <2> QED BY <1>1, <1>3, <2>1 DEF Ran
<1>14. OneToOne(r)
  <2> SUFFICES ASSUME NEW i \in 1..(n + m), NEW j \in 1..(n + m), r[i] = r[j] PROVE i = j
    BY <1>2 DEF OneToOne
  <2>1. CASE i \in 1..n /\ j \in 1..n
    <3>1. q[i + 1] = q[j + 1] /\ i + 1 \in DOMAIN q /\ j + 1 \in DOMAIN q
      BY <1>1, <1>2, <1>5, <2>1
    <3>2. i + 1 = j + 1 BY <3>1 DEF OneToOne
    <3> QED BY <3>2, <2>1
  <2>2. CASE i \notin 1..n /\ j \notin 1..n
    <3>1. i - n \in 1..m /\ j - n \in 1..m /\ r[n + (i - n)] = r[n + (j - n)] BY <1>4, <2>2
    <3>2. s[i - n] = s[j - n] BY <1>2, <3>1
    <3>3. i - n = j - n BY <1>1, <3>1, <3>2 DEF OneToOne
    <3> QED BY <3>3, <1>1
  <2>3. CASE i \in 1..n /\ j \notin 1..n
    <3>1. r[i] \in Ran(q) BY <1>9, <2>3
    <3>2. r[j] \in Ran(s) BY <1>4, <1>10, <2>3
    <3> QED BY <3>1, <3>2
  <2>4. CASE i \notin 1..n /\ j \in 1..n
    <3>1. r[j] \in Ran(q) BY <1>9, <2>4
    <3>2. r[i] \in Ran(s) BY <1>4, <1>10, <2>4
    <3> QED BY <3>1, <3>2
  <2> QED BY <2>1, <2>2, <2>3, <2>4
<1>15. Head(q) \in Ran(q) BY <1>1, <1>3, <1>8 DEF Ran
<1>16. Head(q) \in T OBVIOUS
<1> QED BY <1>2, <1>11, <1>12, <1>13, <1>14, <1>15, <1>16 DEF r


\* The sort begins with the tasks nothing is waited for.
LEMMA SortStartOK ==
    ASSUME GraphOK, IsFiniteSet(tasks_), SortStart
    PROVE  SortOK'
<1> DEFINE free == {t \in tasks_ : dependencies_[t] = {}}
<1>1. queue' \in Orders(free) /\ result' = <<>>
      /\ in_degree' = [t \in TaskId |-> Cardinality(dependencies_[t])]
      /\ tasks_' = tasks_ /\ dependencies_' = dependencies_
  BY DEF SortStart, graph
<1>2. IsFiniteSet(free) BY FS_Subset
<1>3. queue' \in Seq(free) /\ OneToOne(queue') /\ Ran(queue') = free
  <2> DEFINE q == queue'
  <2>1. q \in Orders(free) BY <1>1
  <2> HIDE DEF q, free
  <2>2. q \in Seq(free) /\ OneToOne(q) /\ Ran(q) = free BY <1>2, <2>1, OrderVisits
  <2> QED BY <2>2 DEF q
<1>4. Ran(result') = {} /\ DOMAIN result' = {} /\ result' \in Seq(tasks_) BY <1>1 DEF Ran
<1>5. queue' \in Seq(tasks_)
  <2>1. free \subseteq tasks_ OBVIOUS
  <2> HIDE DEF free
  <2> QED BY <1>3, <2>1
<1>6. \A t \in tasks_ :
         t \in TaskId /\ dependencies_[t] \subseteq tasks_ /\ IsFiniteSet(dependencies_[t])
  BY FS_Subset DEF GraphOK
<1>7. \A t \in TaskId : Cardinality(dependencies_[t]) \in Int
  <2>1. \A t \in TaskId : IsFiniteSet(dependencies_[t]) BY FS_Subset DEF GraphOK
  <2> QED BY <2>1, FS_CardinalityType
<1>8. \A t \in tasks_ : in_degree'[t] = Cardinality(dependencies_[t] \ {})
  BY <1>1, <1>6
<1>9. in_degree' \in [TaskId -> Int] BY <1>1, <1>7
<1>10. \A t \in tasks_ : t \in free <=> dependencies_[t] \subseteq {} OBVIOUS
<1>11. OneToOne(result') BY <1>4 DEF OneToOne
<1> HIDE DEF free
<1>12. OneToOne(queue)' /\ OneToOne(result)' BY <1>3, <1>11 DEF OneToOne
<1>13. Ran(queue)' = free /\ Ran(result)' = {} BY <1>3, <1>4 DEF Ran
<1> QED BY <1>1, <1>4, <1>5, <1>8, <1>9, <1>10, <1>12, <1>13 DEF SortOK

\* The next task of the queue goes into the result, and what it frees into
\* the queue.
LEMMA SortPopOK ==
    ASSUME GraphOK, IsFiniteSet(tasks_), SortOK, SortPop
    PROVE  SortOK'
<1> DEFINE current == Head(queue)
           freed == {t \in dependents_[current] : in_degree[t] = 1}
           R == Ran(result)
<1>1. queue # <<>> /\ result' = Append(result, current)
      /\ in_degree' = [t \in TaskId |-> IF t \in dependents_[current]
                                        THEN in_degree[t] - 1 ELSE in_degree[t]]
      /\ tasks_' = tasks_ /\ dependencies_' = dependencies_
  BY DEF SortPop, graph
<1>2. PICK order \in Orders(freed) : queue' = Tail(queue) \o order BY DEF SortPop
<1>3. current \in tasks_ /\ current \in Ran(queue) /\ current \notin R
      /\ dependencies_[current] \subseteq R
  <2>1. Head(queue) \in tasks_ /\ Head(queue) = queue[1] /\ 1 \in DOMAIN queue
    BY <1>1 DEF SortOK
  <2>2. Head(queue) \in Ran(queue) BY <2>1 DEF Ran
  <2> QED BY <2>1, <2>2 DEF SortOK
<1>4. dependents_[current] \subseteq tasks_ /\ tasks_ \subseteq TaskId BY <1>3 DEF GraphOK
<1>5. /\ result' \in Seq(tasks_) /\ Ran(result') = R \cup {current}
      /\ DOMAIN result' = 1..(Len(result) + 1) /\ DOMAIN result = 1..Len(result)
      /\ \A i \in DOMAIN result : result'[i] = result[i]
      /\ result'[Len(result) + 1] = current
  BY <1>1, <1>3, RanAppend DEF SortOK
<1>6. \A t \in tasks_ : t \in dependents_[current] <=> current \in dependencies_[t]
  BY <1>3, <1>4 DEF GraphOK
<1>7. \A t \in tasks_ : IsFiniteSet(dependencies_[t] \ R)
                        /\ Cardinality(dependencies_[t] \ R) \in Nat
  <2>1. \A t \in tasks_ : dependencies_[t] \ R \in SUBSET tasks_ BY <1>4 DEF GraphOK
  <2> QED BY <2>1, FS_Subset, FS_CardinalityType
<1>8. ASSUME NEW t \in tasks_
      PROVE  Cardinality((dependencies_[t] \ R) \ {current})
             = IF current \in dependencies_[t] THEN in_degree[t] - 1 ELSE in_degree[t]
  <2> DEFINE D == dependencies_[t] \ R
  <2>1. IsFiniteSet(D) /\ Cardinality(D) = in_degree[t] BY <1>7 DEF SortOK
  <2>2. current \in D <=> current \in dependencies_[t] BY <1>3
  <2> HIDE DEF D, current, R
  <2>3. Cardinality(D \ {current}) = IF current \in D THEN Cardinality(D) - 1 ELSE Cardinality(D)
    BY <2>1, FS_RemoveElement
  <2> QED BY <2>1, <2>2, <2>3 DEF D
<1>9. \A t \in tasks_ : dependencies_[t] \ (R \cup {current}) = (dependencies_[t] \ R) \ {current}
  OBVIOUS
<1>10. \A t \in tasks_ : in_degree'[t] = Cardinality(dependencies_[t] \ (R \cup {current}))
  BY <1>1, <1>4, <1>6, <1>8, <1>9
<1>11. in_degree' \in [TaskId -> Int] BY <1>1 DEF SortOK
<1>12. ASSUME NEW t \in tasks_
       PROVE  t \in freed <=> /\ dependencies_[t] \subseteq R \cup {current}
                              /\ ~(dependencies_[t] \subseteq R)
  <2> DEFINE D == dependencies_[t] \ R
  <2>1. IsFiniteSet(D) /\ Cardinality(D) = in_degree[t] BY <1>7 DEF SortOK
  <2>2. ASSUME t \in freed
        PROVE  dependencies_[t] \subseteq R \cup {current} /\ ~(dependencies_[t] \subseteq R)
    <3>1. Cardinality(D) = 1 /\ current \in D BY <2>1, <2>2, <1>3, <1>6
    <3>2. PICK x : D = {x} BY <2>1, <3>1, FS_Singleton
    <3> QED BY <3>1, <3>2
  <2>3. ASSUME dependencies_[t] \subseteq R \cup {current}, ~(dependencies_[t] \subseteq R)
        PROVE  t \in freed
    <3>1. D = {current} BY <1>3, <2>3
    <3>2. Cardinality(D) = 1 BY <3>1, FS_Singleton
    <3>3. t \in dependents_[current] BY <1>6, <3>1
    <3> QED BY <2>1, <3>2, <3>3
  <2> QED BY <2>2, <2>3
<1>13. freed \subseteq tasks_ /\ IsFiniteSet(freed)
  <2>1. freed \subseteq tasks_ BY <1>4
  <2> QED BY <2>1, FS_Subset
<1>14. order \in Seq(freed) /\ OneToOne(order) /\ Ran(order) = freed
  <2> HIDE DEF freed
  <2> QED BY <1>2, <1>13, OrderVisits
<1>15. order \in Seq(tasks_)
  <2> HIDE DEF freed
  <2> QED BY <1>13, <1>14
<1>16. freed \cap Ran(queue) = {} /\ freed \cap R = {}
  <2>1. \A t \in freed : t \in tasks_ /\ t \notin Ran(queue) \cup R
    BY <1>12, <1>13 DEF SortOK
  <2> QED BY <2>1
<1>17. /\ queue' \in Seq(tasks_) /\ OneToOne(queue')
       /\ Ran(queue') = (Ran(queue) \ {current}) \cup freed
  <2>1. Ran(queue) \cap Ran(order) = {} BY <1>14, <1>16
  <2>2. queue \in Seq(tasks_) /\ OneToOne(queue) BY DEF SortOK
  <2> DEFINE r == Tail(queue) \o order
  <2>3. r \in Seq(tasks_) /\ OneToOne(r) /\ Ran(r) = (Ran(queue) \ {Head(queue)}) \cup Ran(order)
    <3> HIDE DEF freed, R
    <3> QED BY <1>1, <1>14, <1>15, <2>1, <2>2, RanRotate
  <2> QED BY <1>2, <1>14, <2>3
<1>18. Ran(queue') \cap Ran(result') = {}
  <2>1. Ran(queue) \cap R = {} BY DEF SortOK
  <2> HIDE DEF freed, R, current
  <2> QED BY <1>3, <1>5, <1>16, <1>17, <2>1
<1>19. OneToOne(result')
  <2> DEFINE n == Len(result)
  <2>1. n \in Nat /\ \A i, j \in 1..n : result[i] = result[j] => i = j
    BY <1>5, SMTT(30) DEF SortOK, OneToOne
  <2>2. \A i \in 1..n : result[i] # current BY <1>3, <1>5 DEF Ran
  <2> HIDE DEF n, current
  <2>3. \A i \in 1..(n + 1) : i \in 1..n \/ i = n + 1 BY <2>1
  <2>4. \A i, j \in 1..(n + 1) : result'[i] = result'[j] => i = j
    BY <1>5, <2>1, <2>2, <2>3 DEF n
  <2> QED BY <1>5, <2>4 DEF OneToOne, n
<1>20. \A t \in tasks_ : t \in Ran(queue') \cup Ran(result')
                         <=> dependencies_[t] \subseteq Ran(result')
  <2> SUFFICES ASSUME NEW t \in tasks_
               PROVE  t \in (Ran(queue) \ {current}) \cup freed \cup R \cup {current}
                      <=> dependencies_[t] \subseteq R \cup {current}
    BY <1>5, <1>17
  <2>1. t \in Ran(queue) \cup R <=> dependencies_[t] \subseteq R BY DEF SortOK
  <2> HIDE DEF freed, R
  <2> QED BY <2>1, <1>3, <1>12
<1>21. ASSUME NEW j \in DOMAIN result', NEW t \in dependencies_[result'[j]]
       PROVE  \E i \in DOMAIN result' : i < j /\ result'[i] = t
  <2> DEFINE n == Len(result)
  <2>1. n \in Nat BY DEF SortOK
  <2>2. CASE j \in 1..n
    <3>1. \E i \in DOMAIN result : i < j /\ result[i] = t BY <1>5, <1>21, <2>2 DEF SortOK
    <3>2. 1..n \subseteq 1..(n + 1)
      <4> HIDE DEF n
      <4> QED BY <2>1
    <3> QED BY <1>5, <3>1, <3>2
  <2>3. CASE j = n + 1
    <3>1. t \in R BY <1>3, <1>5, <1>21, <2>3
    <3>2. PICK i \in 1..n : result[i] = t BY <1>5, <3>1 DEF Ran
    <3>3. i \in 1..(n + 1) /\ i < j
      <4> HIDE DEF n
      <4> QED BY <2>1, <2>3
    <3> QED BY <1>5, <3>2, <3>3
  <2>4. j \in 1..n \/ j = n + 1
    <3>1. j \in 1..(n + 1) BY <1>5, <1>21
    <3> HIDE DEF n
    <3> QED BY <2>1, <3>1
  <2> QED BY <2>2, <2>3, <2>4
<1>22. OneToOne(queue)' /\ OneToOne(result)' BY <1>17, <1>19 DEF OneToOne
<1>23. Ran(queue)' = Ran(queue') /\ Ran(result)' = Ran(result') BY DEF Ran
<1> HIDE DEF freed, current, R
<1> QED BY <1>1, <1>5, <1>10, <1>11, <1>17, <1>18, <1>20, <1>21, <1>22, <1>23 DEF SortOK


\* In a finite graph a set of tasks that all depend on one of them contains
\* a cycle: a smallest such set has no task that nothing in it depends on.
LEMMA DependentsCycle ==
    ASSUME GraphOK, IsFiniteSet(tasks_), NEW R \in (SUBSET tasks_) \ {{}},
           \A t \in R : dependencies_[t] \cap R # {}
    PROVE  Cyclic(dependents_)
<1> DEFINE W == {T \in (SUBSET tasks_) \ {{}} : \A t \in T : dependencies_[t] \cap T # {}}
           less == StrictSubsetOrdering(tasks_)
<1>1. W # {} /\ W \subseteq SUBSET tasks_ BY DEF W
<1>2. IsWellFoundedOn(less, SUBSET tasks_)
  BY FS_StrictSubsetOrderingWellFounded, FS_FiniteSubsetsOfFinite
<1>3. PICK T \in W : \A U \in W : ~(<<U, T>> \in less)
  <2> HIDE DEF W, less
  <2> QED BY <1>1, <1>2, WFMin
<1>4. SUFFICES ASSUME ~Cyclic(dependents_) PROVE FALSE
  OBVIOUS
<1>5. T \in (SUBSET tasks_) \ {{}} BY <1>3
<1>6. PICK x \in T : dependents_[x] \cap T = {} BY <1>4, <1>5 DEF Cyclic
<1> DEFINE U == T \ {x}
<1>7. \A t \in T : x \notin dependencies_[t] BY <1>5, <1>6 DEF GraphOK
<1>8. \A t \in T : dependencies_[t] \cap U # {} BY <1>3, <1>7
<1>9. U # {} BY <1>6, <1>8
<1>10. U \in W BY <1>5, <1>8, <1>9
<1>11. <<U, T>> \in less
  <2>1. U \in SUBSET tasks_ /\ T \in SUBSET tasks_ /\ U \subseteq T /\ U # T BY <1>5, <1>6
  <2>2. <<U, T>> \in (SUBSET tasks_) \X (SUBSET tasks_) BY <2>1
  <2> HIDE DEF U
  <2> QED BY <2>1, <2>2 DEF StrictSubsetOrdering
<1> QED BY <1>3, <1>10, <1>11

\* An order of all tasks leaves no room for a cycle: what depends on the last
\* of its tasks in the order would come later still.
LEMMA OrderNoCycle ==
    ASSUME GraphOK, SortOK, Ran(result) = tasks_
    PROVE  ~Cyclic(dependents_)
<1> SUFFICES ASSUME NEW S \in (SUBSET tasks_) \ {{}}, \A x \in S : dependents_[x] \cap S # {}
             PROVE  FALSE
  BY DEF Cyclic
<1> DEFINE n == Len(result)
           T == {k \in 0..n : n - k \in 1..n /\ result[n - k] \in S}
<1>1. n \in Nat /\ DOMAIN result = 1..n BY DEF SortOK
<1>2. \A i \in 1..n : result[i] \in S => n - i \in T
  <2>1. \A i \in 1..n : n - i \in 0..n /\ n - (n - i) = i
    <3> HIDE DEF n
    <3> QED BY <1>1
  <2> QED BY <2>1
<1>3. T # {}
  <2>1. PICK x \in S : TRUE OBVIOUS
  <2>2. PICK i \in 1..n : result[i] = x BY <2>1, <1>1 DEF Ran
  <2> QED BY <1>2, <2>1, <2>2
<1>4. PICK k \in T : \A j \in T : ~(j < k)
  <2>1. T \subseteq Nat
    <3> HIDE DEF n
    <3> QED BY <1>1
  <2> HIDE DEF T
  <2>2. PICK k \in T : \A j \in T : ~(<<j, k>> \in OpToRel(<, Nat))
    BY <1>3, <2>1, NatLessThanWellFounded, WFMin
  <2> QED BY <2>1, <2>2 DEF OpToRel
<1> DEFINE x == result[n - k]
<1>5. x \in S /\ n - k \in 1..n /\ k \in 0..n BY <1>4
<1>6. PICK y \in S : y \in dependents_[x] BY <1>5
<1>7. x \in dependencies_[y] BY <1>5, <1>6 DEF GraphOK
<1>8. PICK j \in 1..n : result[j] = y BY <1>1, <1>6 DEF Ran
<1>9. PICK i \in 1..n : i < j /\ result[i] = x BY <1>1, <1>7, <1>8 DEF SortOK
<1>10. i = n - k
  <2>1. OneToOne(result) BY DEF SortOK
  <2> QED BY <1>1, <1>5, <1>9, <2>1 DEF OneToOne
<1>11. n - j \in T BY <1>2, <1>6, <1>8
<1>12. n - j < k
  <2> HIDE DEF n
  <2> QED BY <1>1, <1>5, <1>8, <1>9, <1>10
<1> QED BY <1>4, <1>11, <1>12

\* What the sort returns is an order of the tasks, complete exactly when the
\* graph has no cycle.
LEMMA SortedSound ==
    ASSUME GraphOK, IsFiniteSet(tasks_), SortOK, queue = <<>>
    PROVE  /\ \A i, j \in DOMAIN result :
                 /\ result[i] = result[j] => i = j
                 /\ result[i] \in dependencies_[result[j]] => i < j
           /\ Len(result) = Cardinality(tasks_) <=> ~Cyclic(dependents_)
<1> DEFINE n == Len(result)
<1>1. n \in Nat /\ DOMAIN result = 1..n /\ result \in [1..n -> tasks_] BY DEF SortOK
<1>2. Ran(queue) = {} BY DEF Ran
<1>3. \A i, j \in DOMAIN result : result[i] = result[j] => i = j BY DEF SortOK, OneToOne
<1>4. ASSUME NEW i \in DOMAIN result, NEW j \in DOMAIN result,
             result[i] \in dependencies_[result[j]]
      PROVE  i < j
  <2>1. PICK k \in DOMAIN result : k < j /\ result[k] = result[i] BY <1>4 DEF SortOK
  <2> QED BY <2>1, <1>3
<1>5. Len(result) = Cardinality(tasks_) <=> Ran(result) = tasks_
  <2>1. result \in Injection(1..n, tasks_) BY <1>1, <1>3 DEF Injection, IsInjective
  <2>2. Cardinality(1..n) = n
    <3> HIDE DEF n
    <3> QED BY <1>1, FS_Interval
  <2>3. n = Cardinality(tasks_) <=> result \in Surjection(1..n, tasks_)
    <3> HIDE DEF n
    <3> QED BY <2>1, <2>2, FS_Injection
  <2>4. result \in Surjection(1..n, tasks_) <=> Ran(result) = tasks_
    <3>1. result \in Surjection(1..n, tasks_) <=> \A x \in tasks_ : \E i \in 1..n : result[i] = x
      BY <1>1 DEF Surjection
    <3>2. Ran(result) \subseteq tasks_ BY <1>1 DEF Ran
    <3>3. (\A x \in tasks_ : \E i \in 1..n : result[i] = x) <=> tasks_ \subseteq Ran(result)
      BY <1>1 DEF Ran
    <3> QED BY <3>1, <3>2, <3>3
  <2> QED BY <2>3, <2>4
<1>6. Ran(result) = tasks_ => ~Cyclic(dependents_) BY OrderNoCycle
<1>7. ASSUME Ran(result) # tasks_ PROVE Cyclic(dependents_)
  <2> DEFINE R == tasks_ \ Ran(result)
  <2>1. Ran(result) \subseteq tasks_ BY <1>1 DEF Ran
  <2>2. R \in (SUBSET tasks_) \ {{}} BY <1>7, <2>1
  <2>3. \A t \in R : dependencies_[t] \cap R # {}
    <3>1. \A t \in tasks_ : dependencies_[t] \subseteq tasks_ BY DEF GraphOK
    <3>2. \A t \in R : ~(dependencies_[t] \subseteq Ran(result)) BY <1>2 DEF SortOK
    <3> QED BY <3>1, <3>2
  <2> HIDE DEF R
  <2> QED BY <2>2, <2>3, DependentsCycle
<1> QED BY <1>3, <1>4, <1>5, <1>6, <1>7

\* Every step keeps what the sort knows.
LEMMA SortStep == GraphOK /\ SortInv /\ [Next]_vars => SortInv'
<1> SUFFICES ASSUME GraphOK, SortInv, [Next]_vars PROVE SortInv'
  OBVIOUS
<1>1. ASSUME NEW id \in TaskId, add_task(id) PROVE SortInv'
  <2>1. tasks_' = tasks_ \cup {id} /\ call' = "build" BY <1>1 DEF add_task
  <2>2. IsFiniteSet(tasks_') BY <2>1, FS_AddElement DEF SortInv
  <2> QED BY <2>1, <2>2 DEF SortInv
<1>2. CASE SortStart
  <2>1. SortOK' BY <1>2, SortStartOK DEF SortInv
  <2>2. call' = "sort" /\ tasks_' = tasks_ BY <1>2 DEF SortStart, graph
  <2> QED BY <2>1, <2>2 DEF SortInv
<1>3. CASE SortPop
  <2>1. call = "sort" /\ call' = "sort" /\ tasks_' = tasks_ BY <1>3 DEF SortPop, graph
  <2>2. SortOK' BY <1>3, <2>1, SortPopOK DEF SortInv
  <2> QED BY <2>1, <2>2 DEF SortInv
<1>4. CASE SortReturn
  BY <1>4 DEF SortReturn, SortInv, SortOK, graph, sorting, Ran, OneToOne
<1>5. CASE \/ \E from, to \in TaskId : add_dependency(from, to)
           \/ CycleStart \/ CycleLeave \/ CycleReturn
           \/ \E id \in TaskId : CycleRoot(id) \/ CycleDescend(id)
  <2>1. call' \notin {"sort", "sorted"} /\ tasks_' = tasks_
    BY <1>5 DEF add_dependency, CycleStart, CycleLeave, CycleReturn, CycleRoot, CycleDescend,
                graph
  <2> QED BY <2>1 DEF SortInv
<1>6. CASE UNCHANGED vars
  <2>1. UNCHANGED <<tasks_, dependencies_, call, in_degree, queue, result>>
    BY <1>6 DEF vars, graph, sorting
  <2>2. Ran(queue)' = Ran(queue) /\ Ran(result)' = Ran(result) BY <2>1 DEF Ran
  <2>3. OneToOne(queue)' = OneToOne(queue) /\ OneToOne(result)' = OneToOne(result)
    BY <2>1 DEF OneToOne
  <2>4. SortOK => SortOK' BY <2>1, <2>2, <2>3 DEF SortOK
  <2> QED BY <2>1, <2>4 DEF SortInv
<1> QED BY <1>1, <1>2, <1>3, <1>4, <1>5, <1>6 DEF Next

\* For every set of tasks, every graph that can be built and every order the
\* loops take: has_cycle's verdict is exact, and topological_sort returns an
\* order of the tasks that is complete exactly when there is no cycle.
THEOREM SearchesAreSound == Spec => []SearchesSound
<1>1. Init => GraphOK /\ CycleInv /\ SortInv
  BY GraphInit, FS_EmptySet DEF Init, CycleInv, SortInv
<1>2. GraphOK /\ CycleInv /\ SortInv /\ [Next]_vars => GraphOK' /\ CycleInv' /\ SortInv'
  BY GraphStep, CycleStep, SortStep
<1>3. GraphOK /\ CycleInv /\ SortInv => SearchesSound
  BY SortedSound DEF CycleInv, SortInv, SearchesSound
<1> QED BY <1>1, <1>2, <1>3, PTL DEF Spec

-----------------------------------------------------------------------------
(***************************************************************************)
(* The engine. Its properties speak of what run() has started and of what  *)
(* it returns; neither is inductive. IInv adds what each point of run()    *)
(* knows of the graph (Graph), of the task threads (Tasks), of the result  *)
(* (Result) and of the engine's maps (Registry).                           *)
(***************************************************************************)

PC == {"none", "copied", "created", "loop", "stopping", "dispatch", "batch",
       "record", "threw", "returned"}

EngineTypeOK ==
    /\ pc \in [Exec -> PC]
    /\ dag_ \in [Exec -> SUBSET Task]
    /\ error_strategy_ \in [Exec -> Strategies]
    /\ running_ \in [Exec -> BOOLEAN]
    /\ paused_ \in [Exec -> BOOLEAN]
    /\ cancelled_ \in [Exec -> BOOLEAN]
    /\ task_results_ \in [Exec -> [Task -> {"none", "ok", "failed"}]]
    /\ work \in [Exec -> [Task -> {"out", "running", "ok", "failed"}]]
    /\ attempt \in [Exec -> [Task -> Nat]]
    /\ status \in [Exec -> Status]
    /\ reported \in [Exec -> SUBSET Task]
    /\ throws \in Nat
    /\ late \in [Exec -> Nat]
    /\ workflows_ \in SUBSET Task
    /\ active_schedulers_ \in SUBSET Exec
    /\ running_workflows_ \in [Exec -> Status \cup {"absent"}]
    /\ active_futures_ \in [Exec -> {"none", "launched", "held"}]
    /\ mode \in [Exec -> Modes]
    /\ completedEvent \in SUBSET Exec

\* The graph of an execution that was started was validated.
Graph(e) == pc[e] # "none" => dag_[e] # {} /\ validate_workflow(dag_[e])

\* A task whose thread is out has no result yet; one that was started had
\* its dependencies succeed; a failure took all the attempts there are.
Tasks(e) ==
    \A t \in Task :
        /\ work[e][t] # "out" => /\ task_results_[e][t] = "none"
                                 /\ attempt[e][t] > 0
                                 /\ t \in dag_[e]
                                 /\ pc[e] \in {"batch", "record", "threw", "returned"}
        /\ attempt[e][t] <= MaxRetries + 1
        /\ attempt[e][t] > 0 => \A d \in Deps[t] : task_results_[e][d] = "ok"
        /\ "failed" \in {task_results_[e][t], work[e][t]} => attempt[e][t] = MaxRetries + 1

\* Past the head of the loop a task is missing; a result tells the truth.
\* The only batch begun after cancel() is the one run() was about to begin.
Result(e) ==
    /\ pc[e] \in {"stopping", "dispatch"} => completed_tasks_(e) # dag_[e]
    /\ pc[e] # "returned" => status[e] = "RUNNING"
    /\ pc[e] = "returned" =>
          /\ status[e] # "RUNNING"
          /\ status[e] = "SUCCESS" <=> successful_task_ids(e) = dag_[e]
          /\ status[e] = "FAILED" => \E t \in dag_[e] : task_results_[e][t] = "failed"
          /\ status[e] = "CANCELLED" => cancelled_[e]
    /\ late[e] # 0 => /\ late[e] = 1 /\ cancelled_[e]
                      /\ pc[e] \in {"batch", "record", "loop", "stopping", "returned"}

\* An execution is known to the engine once it is registered; what is
\* published of it is final.
Registry(e) ==
    /\ pc[e] \in {"none", "copied"} => running_workflows_[e] = "absent"
    /\ running_workflows_[e] = "RUNNING" <=> e \in active_schedulers_
    /\ running_workflows_[e] \notin {"absent", "RUNNING"}
          => Ended(e) /\ e \in completedEvent /\ running_workflows_[e] = Outcome(e)

IInv == EngineTypeOK /\ \A e \in Exec : Graph(e) /\ Tasks(e) /\ Result(e) /\ Registry(e)

-----------------------------------------------------------------------------

\* run(): in a graph without a cycle that is closed under dependencies, an
\* incomplete workflow with nothing ready has a failed task. This is why the
\* return in the middle of the loop may say FAILED.
LEMMA BlockedByFailure ==
    ASSUME NEW e \in Exec, EngineTypeOK, validate_workflow(dag_[e]),
           completed_tasks_(e) # dag_[e], Ready(e) = {}
    PROVE  \E t \in dag_[e] : task_results_[e][t] = "failed"
  <1> SUFFICES ASSUME \A t \in dag_[e] : task_results_[e][t] # "failed"
               PROVE  FALSE
    OBVIOUS
  <1> DEFINE S == dag_[e] \ completed_tasks_(e)
  <1>1. successful_task_ids(e) = completed_tasks_(e)
    BY DEF EngineTypeOK, successful_task_ids, completed_tasks_
  <1>2. S # {} /\ S \in SUBSET dag_[e]
    BY DEF completed_tasks_
  <1>3. \A t \in S : Deps[t] \cap S # {}
    <2> TAKE t \in S
    <2>1. ~(Deps[t] \subseteq completed_tasks_(e))
      BY <1>1 DEF Ready
    <2>2. Deps[t] \subseteq dag_[e]
      BY <1>2 DEF validate_workflow
    <2>3. QED
      BY <2>1, <2>2
  <1>4. QED
    BY <1>2, <1>3 DEF validate_workflow, has_cycle

\* The graph of an execution stays validated while it stays the same.
LEMMA GraphKept ==
    ASSUME NEW f \in Exec, Graph(f), pc[f] = "none" => pc'[f] = "none", dag_'[f] = dag_[f]
    PROVE  Graph(f)'
  BY DEF Graph, validate_workflow, has_cycle

\* No execution has been started at first.
LEMMA InitIInv == EInit => IInv
  BY SchedulerAssumption DEF EInit, InitWith, Nothing, IInv, EngineTypeOK, PC, Status, Graph, Tasks,
     Result, Registry, completed_tasks_, successful_task_ids

-----------------------------------------------------------------------------
(* The engine's own steps.                                                 *)

\* register_workflow, engine_add_task, StoreFuture and get_state touch no execution.
LEMMA QuietIInv ==
    ASSUME IInv, \/ register_workflow \/ \E t \in Task : engine_add_task(t)
                 \/ \E e \in Exec : StoreFuture(e) \/ get_state(e)
    PROVE  IInv'
  <1>1. EngineTypeOK' /\ UNCHANGED <<schedulerVars, active_schedulers_, running_workflows_, mode,
                               completedEvent>>
    <2>1. UNCHANGED <<schedulerVars, active_schedulers_, running_workflows_, mode,
                      completedEvent>>
      BY DEF register_workflow, engine_add_task, StoreFuture, get_state
    <2>2. workflows_' \subseteq Task
      BY EngineAssumption DEF IInv, EngineTypeOK, register_workflow, engine_add_task, StoreFuture,
         get_state
    <2>3. active_futures_' \in [Exec -> {"none", "launched", "held"}]
      BY DEF IInv, EngineTypeOK, register_workflow, engine_add_task, StoreFuture, get_state
    <2>4. QED
      BY <2>1, <2>2, <2>3 DEF IInv, EngineTypeOK, schedulerVars
  <1>2. \A e \in Exec : Graph(e)'
    BY <1>1, GraphKept DEF IInv, schedulerVars
  <1>3. QED
    BY <1>1, <1>2 DEF IInv, Tasks, Result, Registry, Ended, Outcome, schedulerVars,
       completed_tasks_, successful_task_ids

\* CopyWorkflow takes a definition that validate_workflow accepted.
LEMMA CopyIInv ==
    ASSUME IInv, NEW e \in Exec, CopyWorkflow(e)
    PROVE  IInv'
  <1>1. EngineTypeOK'
    BY DEF IInv, EngineTypeOK, CopyWorkflow, PC, engineVars
  <1> SUFFICES ASSUME NEW f \in Exec
               PROVE  Graph(f)' /\ Tasks(f)' /\ Result(f)' /\ Registry(f)'
    BY <1>1 DEF IInv
  <1>2. Graph(f)'
    <2>1. CASE f = e
      <3>1. dag_'[f] = workflows_ /\ workflows_ # {} /\ validate_workflow(workflows_)
        BY <2>1 DEF IInv, EngineTypeOK, CopyWorkflow
      <3>2. QED
        BY <3>1 DEF Graph, validate_workflow, has_cycle
    <2>2. CASE f # e
      BY <2>2, GraphKept DEF IInv, EngineTypeOK, CopyWorkflow
    <2>3. QED
      BY <2>1, <2>2
  <1>3. Tasks(f)'
    BY DEF IInv, EngineTypeOK, CopyWorkflow, Tasks
  <1>4. Result(f)'
    BY DEF IInv, EngineTypeOK, CopyWorkflow, Result, completed_tasks_, successful_task_ids
  <1>5. Registry(f)'
    BY DEF IInv, EngineTypeOK, CopyWorkflow, Registry, Ended, Outcome, engineVars
  <1>6. QED
    BY <1>2, <1>3, <1>4, <1>5

\* RegisterExecution shows an execution that run() has not begun.
LEMMA RegisterIInv ==
    ASSUME IInv, NEW e \in Exec, RegisterExecution(e)
    PROVE  IInv'
  <1>1. EngineTypeOK'
    BY SchedulerAssumption DEF IInv, EngineTypeOK, PC, Status, RegisterExecution, schedulerVars,
       engineVars
  <1> SUFFICES ASSUME NEW f \in Exec
               PROVE  Graph(f)' /\ Tasks(f)' /\ Result(f)' /\ Registry(f)'
    BY <1>1 DEF IInv
  <1>2. Graph(f)'
    BY GraphKept DEF IInv, EngineTypeOK, RegisterExecution, schedulerVars
  <1>3. Tasks(f)'
    BY SchedulerAssumption DEF IInv, EngineTypeOK, Tasks, RegisterExecution, schedulerVars
  <1>4. Result(f)'
    BY DEF IInv, EngineTypeOK, Result, Status, completed_tasks_, successful_task_ids,
       RegisterExecution,
       schedulerVars
  <1>5. Registry(f)'
    BY DEF IInv, EngineTypeOK, Registry, Result, Ended, Outcome, RegisterExecution, schedulerVars,
       engineVars
  <1>6. QED
    BY <1>2, <1>3, <1>4, <1>5

\* EmitCompleted adds an event.
LEMMA EmitIInv ==
    ASSUME IInv, NEW e \in Exec, EmitCompleted(e)
    PROVE  IInv'
  <1>1. EngineTypeOK'
    BY SchedulerAssumption DEF IInv, EngineTypeOK, PC, Status, EmitCompleted, schedulerVars,
       engineVars
  <1> SUFFICES ASSUME NEW f \in Exec
               PROVE  Graph(f)' /\ Tasks(f)' /\ Result(f)' /\ Registry(f)'
    BY <1>1 DEF IInv
  <1>2. Graph(f)'
    BY GraphKept DEF IInv, EngineTypeOK, EmitCompleted, schedulerVars
  <1>3. Tasks(f)'
    BY SchedulerAssumption DEF IInv, EngineTypeOK, Tasks, EmitCompleted, schedulerVars
  <1>4. Result(f)'
    BY DEF IInv, EngineTypeOK, Result, Status, completed_tasks_, successful_task_ids, EmitCompleted,
       schedulerVars
  <1>5. Registry(f)'
    BY DEF IInv, EngineTypeOK, Registry, Result, Ended, Outcome, EmitCompleted, schedulerVars,
       engineVars
  <1>6. QED
    BY <1>2, <1>3, <1>4, <1>5

\* Publish takes the outcome of a run() that is over, which is not RUNNING.
LEMMA PublishIInv ==
    ASSUME IInv, NEW e \in Exec, Publish(e)
    PROVE  IInv'
  <1>1. EngineTypeOK'
    BY DEF IInv, EngineTypeOK, Status, Publish, Outcome, schedulerVars
  <1> SUFFICES ASSUME NEW f \in Exec
               PROVE  Graph(f)' /\ Tasks(f)' /\ Result(f)' /\ Registry(f)'
    BY <1>1 DEF IInv
  <1>2. Graph(f)'
    BY GraphKept DEF IInv, EngineTypeOK, Publish, schedulerVars
  <1>3. Tasks(f)'
    BY SchedulerAssumption DEF IInv, EngineTypeOK, Tasks, Publish, schedulerVars
  <1>4. Result(f)'
    BY DEF IInv, EngineTypeOK, Result, Status, completed_tasks_, successful_task_ids, Publish,
       schedulerVars
  <1>5. Registry(f)'
    BY DEF IInv, EngineTypeOK, Registry, Result, Ended, Outcome, Publish, schedulerVars, engineVars
  <1>6. QED
    BY <1>2, <1>3, <1>4, <1>5

\* The controls find a registered execution; they never lower cancelled_.
LEMMA ControlIInv ==
    ASSUME IInv, NEW e \in Exec, EPause(e) \/ EResume(e) \/ ECancel(e)
    PROVE  IInv'
  <1>1. PICK p \in BOOLEAN, c \in BOOLEAN :
          SetFlags(e, p, c) /\ (cancelled_[e] => c) /\ UNCHANGED engineVars
    BY DEF IInv, EngineTypeOK, EPause, EResume, ECancel, pause, resume, cancel
  <1>2. EngineTypeOK'
    BY <1>1 DEF IInv, EngineTypeOK, SetFlags, engineVars
  <1> SUFFICES ASSUME NEW f \in Exec
               PROVE  Graph(f)' /\ Tasks(f)' /\ Result(f)' /\ Registry(f)'
    BY <1>2 DEF IInv
  <1>3. Graph(f)'
    BY <1>1, GraphKept DEF IInv, SetFlags
  <1>4. Tasks(f)'
    BY <1>1 DEF IInv, Tasks, SetFlags
  <1>5. Result(f)'
    <2>1. cancelled_[f] => cancelled_'[f]
      BY <1>1 DEF IInv, EngineTypeOK, SetFlags
    <2>2. QED
      BY <1>1, <2>1 DEF IInv, Result, completed_tasks_, successful_task_ids, SetFlags
  <1>6. Registry(f)'
    BY <1>1 DEF IInv, Registry, Ended, Outcome, SetFlags, engineVars
  <1>7. QED
    BY <1>3, <1>4, <1>5, <1>6

-----------------------------------------------------------------------------
(* The steps of run() and of the task threads.                             *)

\* run() finds a graph that is neither empty nor cyclic.
LEMMA RunStartIInv ==
    ASSUME IInv, NEW e \in Exec, RunStart(e) /\ UNCHANGED engineVars
    PROVE  IInv'
  <1>1. /\ pc[e] = "created" /\ pc' = [pc EXCEPT ![e] = "loop"]
        /\ running_' = [running_ EXCEPT ![e] = TRUE]
        /\ UNCHANGED <<dag_, error_strategy_, task_results_, work, attempt, status, reported,
                       throws, late>>
    BY DEF IInv, Graph, validate_workflow, RunStart
  <1>2. cancelled_' = [cancelled_ EXCEPT ![e] = FALSE] /\ paused_' = [paused_ EXCEPT ![e] = FALSE]
    BY DEF RunStart
  <1>3. EngineTypeOK'
    BY <1>1, <1>2 DEF IInv, EngineTypeOK, PC, engineVars
  <1> SUFFICES ASSUME NEW f \in Exec
               PROVE  Graph(f)' /\ Tasks(f)' /\ Result(f)' /\ Registry(f)'
    BY <1>3 DEF IInv
  <1>4. Graph(f)'
    BY <1>1, GraphKept DEF IInv, EngineTypeOK
  <1>5. Tasks(f)'
    BY <1>1 DEF IInv, EngineTypeOK, Tasks
  <1>6. Result(f)'
    BY <1>1, <1>2 DEF IInv, EngineTypeOK, Result, completed_tasks_, successful_task_ids
  <1>7. Registry(f)'
    BY <1>1 DEF IInv, EngineTypeOK, Registry, Ended, Outcome, engineVars
  <1>8. QED
    BY <1>4, <1>5, <1>6, <1>7

\* The head of the loop is passed only while a task is missing.
LEMMA LoopTopIInv ==
    ASSUME IInv, NEW e \in Exec, LoopTop(e) /\ UNCHANGED engineVars
    PROVE  IInv'
  <1>1. EngineTypeOK'
    BY SchedulerAssumption DEF IInv, EngineTypeOK, PC, Status, LoopTop, should_stop, schedulerVars,
       engineVars
  <1> SUFFICES ASSUME NEW f \in Exec
               PROVE  Graph(f)' /\ Tasks(f)' /\ Result(f)' /\ Registry(f)'
    BY <1>1 DEF IInv
  <1>2. Graph(f)'
    BY GraphKept DEF IInv, EngineTypeOK, LoopTop, should_stop, schedulerVars
  <1>3. Tasks(f)'
    BY SchedulerAssumption DEF IInv, EngineTypeOK, Tasks, LoopTop, should_stop, schedulerVars
  <1>4. Result(f)'
    BY DEF IInv, EngineTypeOK, Result, Status, completed_tasks_, successful_task_ids, LoopTop,
       should_stop, schedulerVars
  <1>5. Registry(f)'
    BY DEF IInv, EngineTypeOK, Registry, Result, Ended, Outcome, LoopTop, should_stop,
       schedulerVars,
       engineVars
  <1>6. QED
    BY <1>2, <1>3, <1>4, <1>5

\* run() stops with a task missing.
LEMMA StopIInv ==
    ASSUME IInv, NEW e \in Exec, Stop(e) /\ UNCHANGED engineVars
    PROVE  IInv'
  <1>1. EngineTypeOK'
    BY SchedulerAssumption DEF IInv, EngineTypeOK, PC, Status, Stop, Return, schedulerVars,
       engineVars
  <1> SUFFICES ASSUME NEW f \in Exec
               PROVE  Graph(f)' /\ Tasks(f)' /\ Result(f)' /\ Registry(f)'
    BY <1>1 DEF IInv
  <1>2. Graph(f)'
    BY GraphKept DEF IInv, EngineTypeOK, Stop, Return, schedulerVars
  <1>3. Tasks(f)'
    BY SchedulerAssumption DEF IInv, EngineTypeOK, Tasks, Stop, Return, schedulerVars
  <1>4. Result(f)'
    <2>1. CASE f = e
      <3>1. successful_task_ids(e) # dag_[e]
        BY DEF IInv, EngineTypeOK, Result, Stop, completed_tasks_, successful_task_ids
      <3>2. pc'[e] = "returned" /\ status'[e] = (IF cancelled_[e] THEN "CANCELLED" ELSE "PAUSED")
        BY DEF IInv, EngineTypeOK, Stop, Return
      <3>3. QED
        BY <2>1, <3>1, <3>2 DEF IInv, Result, Stop, successful_task_ids
    <2>2. CASE f # e
      BY <2>2 DEF IInv, EngineTypeOK, Result, completed_tasks_, successful_task_ids, Stop, Return
    <2>3. QED
      BY <2>1, <2>2
  <1>5. Registry(f)'
    BY DEF IInv, EngineTypeOK, Registry, Result, Ended, Outcome, Stop, Return, schedulerVars,
       engineVars
  <1>6. QED
    BY <1>2, <1>3, <1>4, <1>5

\* run() gives up only when a task has failed.
LEMMA BlockedIInv ==
    ASSUME IInv, NEW e \in Exec, Blocked(e) /\ UNCHANGED engineVars
    PROVE  IInv'
  <1>1. EngineTypeOK'
    BY SchedulerAssumption DEF IInv, EngineTypeOK, PC, Status, Blocked, Return, schedulerVars,
       engineVars
  <1> SUFFICES ASSUME NEW f \in Exec
               PROVE  Graph(f)' /\ Tasks(f)' /\ Result(f)' /\ Registry(f)'
    BY <1>1 DEF IInv
  <1>2. Graph(f)'
    BY GraphKept DEF IInv, EngineTypeOK, Blocked, Return, schedulerVars
  <1>3. Tasks(f)'
    BY SchedulerAssumption DEF IInv, EngineTypeOK, Tasks, Blocked, Return, schedulerVars
  <1>4. Result(f)'
    <2>1. CASE f = e
      <3>1. \E t \in dag_[e] : task_results_[e][t] = "failed"
        BY BlockedByFailure DEF IInv, Graph, Result, Blocked
      <3>2. successful_task_ids(e) # dag_[e]
        BY <3>1 DEF successful_task_ids
      <3>3. pc'[e] = "returned" /\ status'[e] = "FAILED"
        BY DEF IInv, EngineTypeOK, Blocked, Return
      <3>4. QED
        BY <2>1, <3>1, <3>2, <3>3 DEF IInv, Result, Blocked, successful_task_ids
    <2>2. CASE f # e
      BY <2>2 DEF IInv, EngineTypeOK, Result, completed_tasks_, successful_task_ids, Blocked, Return
    <2>3. QED
      BY <2>1, <2>2
  <1>5. Registry(f)'
    BY DEF IInv, EngineTypeOK, Registry, Result, Ended, Outcome, Blocked, Return, schedulerVars,
       engineVars
  <1>6. QED
    BY <1>2, <1>3, <1>4, <1>5

\* A batch is begun with the ready tasks.
LEMMA DispatchIInv ==
    ASSUME IInv, NEW e \in Exec, Dispatch(e) /\ UNCHANGED engineVars
    PROVE  IInv'
  <1>1. EngineTypeOK'
    BY SchedulerAssumption DEF IInv, EngineTypeOK, PC, Status, Dispatch, schedulerVars, engineVars
  <1> SUFFICES ASSUME NEW f \in Exec
               PROVE  Graph(f)' /\ Tasks(f)' /\ Result(f)' /\ Registry(f)'
    BY <1>1 DEF IInv
  <1>2. Graph(f)'
    BY GraphKept DEF IInv, EngineTypeOK, Dispatch, schedulerVars
  <1>3. Tasks(f)'
    <2>1. CASE f = e
      <3>1. PICK sent \in SUBSET Ready(e) :
              /\ work' = [work EXCEPT ![e] =
                                [t \in Task |-> IF t \in sent THEN "running" ELSE "out"]]
              /\ attempt' = [attempt EXCEPT ![e] = [t \in Task |-> IF t \in sent THEN 1 ELSE @[t]]]
        BY DEF Dispatch
      <3>2. \A t \in Task : /\ work'[e][t] = IF t \in sent THEN "running" ELSE "out"
                            /\ attempt'[e][t] = IF t \in sent THEN 1 ELSE attempt[e][t]
        BY <3>1 DEF IInv, EngineTypeOK
      <3>3. \A t \in sent : /\ t \in dag_[e] /\ task_results_[e][t] = "none"
                            /\ \A d \in Deps[t] : task_results_[e][d] = "ok"
        BY <3>1 DEF Ready, completed_tasks_, successful_task_ids
      <3>4. pc'[e] \in {"batch", "threw"} /\ UNCHANGED <<task_results_, dag_>>
        BY DEF IInv, EngineTypeOK, Dispatch
      <3>5. QED
        BY <2>1, <3>2, <3>3, <3>4, SchedulerAssumption DEF IInv, EngineTypeOK, Tasks
    <2>2. CASE f # e
      BY <2>2 DEF IInv, EngineTypeOK, Tasks, Dispatch
    <2>3. QED
      BY <2>1, <2>2
  <1>4. Result(f)'
    BY DEF IInv, EngineTypeOK, Result, Status, completed_tasks_, successful_task_ids, Dispatch,
       schedulerVars
  <1>5. Registry(f)'
    BY DEF IInv, EngineTypeOK, Registry, Result, Ended, Outcome, Dispatch, schedulerVars, engineVars
  <1>6. QED
    BY <1>2, <1>3, <1>4, <1>5

\* So is the part of a batch that was handed over before the exception.
LEMMA DispatchThrowIInv ==
    ASSUME IInv, NEW e \in Exec, DispatchThrow(e) /\ UNCHANGED engineVars
    PROVE  IInv'
  <1>1. EngineTypeOK'
    BY SchedulerAssumption DEF IInv, EngineTypeOK, PC, Status, DispatchThrow, schedulerVars,
       engineVars
  <1> SUFFICES ASSUME NEW f \in Exec
               PROVE  Graph(f)' /\ Tasks(f)' /\ Result(f)' /\ Registry(f)'
    BY <1>1 DEF IInv
  <1>2. Graph(f)'
    BY GraphKept DEF IInv, EngineTypeOK, DispatchThrow, schedulerVars
  <1>3. Tasks(f)'
    <2>1. CASE f = e
      <3>1. PICK sent \in SUBSET Ready(e) :
              /\ work' = [work EXCEPT ![e] =
                                [t \in Task |-> IF t \in sent THEN "running" ELSE "out"]]
              /\ attempt' = [attempt EXCEPT ![e] = [t \in Task |-> IF t \in sent THEN 1 ELSE @[t]]]
        BY DEF DispatchThrow
      <3>2. \A t \in Task : /\ work'[e][t] = IF t \in sent THEN "running" ELSE "out"
                            /\ attempt'[e][t] = IF t \in sent THEN 1 ELSE attempt[e][t]
        BY <3>1 DEF IInv, EngineTypeOK
      <3>3. \A t \in sent : /\ t \in dag_[e] /\ task_results_[e][t] = "none"
                            /\ \A d \in Deps[t] : task_results_[e][d] = "ok"
        BY <3>1 DEF Ready, completed_tasks_, successful_task_ids
      <3>4. pc'[e] \in {"batch", "threw"} /\ UNCHANGED <<task_results_, dag_>>
        BY DEF IInv, EngineTypeOK, DispatchThrow
      <3>5. QED
        BY <2>1, <3>2, <3>3, <3>4, SchedulerAssumption DEF IInv, EngineTypeOK, Tasks
    <2>2. CASE f # e
      BY <2>2 DEF IInv, EngineTypeOK, Tasks, DispatchThrow
    <2>3. QED
      BY <2>1, <2>2
  <1>4. Result(f)'
    BY DEF IInv, EngineTypeOK, Result, Status, completed_tasks_, successful_task_ids, DispatchThrow,
       schedulerVars
  <1>5. Registry(f)'
    BY DEF IInv, EngineTypeOK, Registry, Result, Ended, Outcome, DispatchThrow, schedulerVars,
       engineVars
  <1>6. QED
    BY <1>2, <1>3, <1>4, <1>5

\* An attempt ends well, is followed by another or was the last one.
LEMMA AttemptIInv ==
    ASSUME IInv, NEW e \in Exec, NEW u \in Task, Attempt(e, u) /\ UNCHANGED engineVars
    PROVE  IInv'
  <1>1. EngineTypeOK'
    <2>1. work' \in [Exec -> [Task -> {"out", "running", "ok", "failed"}]]
      <3>1. PICK w \in {"running", "ok", "failed"} :
              work' = [work EXCEPT ![e] = [work[e] EXCEPT ![u] = w]]
        BY DEF IInv, EngineTypeOK, Attempt
      <3>2. [work[e] EXCEPT ![u] = w] \in [Task -> {"out", "running", "ok", "failed"}]
        BY DEF IInv, EngineTypeOK
      <3>3. QED
        BY <3>1, <3>2 DEF IInv, EngineTypeOK
    <2>2. attempt' \in [Exec -> [Task -> Nat]]
      <3>1. PICK n \in Nat : attempt' = [attempt EXCEPT ![e] = [attempt[e] EXCEPT ![u] = n]]
        <4>1. attempt[e][u] \in Nat /\ attempt[e][u] + 1 \in Nat
          BY DEF IInv, EngineTypeOK
        <4>2. attempt = [attempt EXCEPT ![e] = [attempt[e] EXCEPT ![u] = attempt[e][u]]]
          BY DEF IInv, EngineTypeOK
        <4>3. QED
          BY <4>1, <4>2 DEF Attempt
      <3>2. [attempt[e] EXCEPT ![u] = n] \in [Task -> Nat]
        BY DEF IInv, EngineTypeOK
      <3>3. QED
        BY <3>1, <3>2 DEF IInv, EngineTypeOK
    <2>3. QED
      BY <2>1, <2>2 DEF IInv, EngineTypeOK, Attempt, engineVars
  <1> SUFFICES ASSUME NEW f \in Exec
               PROVE  Graph(f)' /\ Tasks(f)' /\ Result(f)' /\ Registry(f)'
    BY <1>1 DEF IInv
  <1>2. Graph(f)'
    BY GraphKept DEF IInv, EngineTypeOK, Attempt, schedulerVars
  <1>3. Tasks(f)'
    <2>1. CASE f = e
      <3> SUFFICES ASSUME NEW t \in Task
                   PROVE  Tasks(e)!(t)'
        BY <2>1 DEF Tasks
      <3>1. CASE t = u
        BY <3>1, SchedulerAssumption DEF IInv, EngineTypeOK, Tasks, Attempt
      <3>2. CASE t # u
        BY <3>2 DEF IInv, EngineTypeOK, Tasks, Attempt
      <3>3. QED
        BY <3>1, <3>2
    <2>2. CASE f # e
      BY <2>2 DEF IInv, EngineTypeOK, Tasks, Attempt
    <2>3. QED
      BY <2>1, <2>2
  <1>4. Result(f)'
    BY DEF IInv, EngineTypeOK, Result, Status, completed_tasks_, successful_task_ids, Attempt,
       schedulerVars
  <1>5. Registry(f)'
    BY DEF IInv, EngineTypeOK, Registry, Result, Ended, Outcome, Attempt, schedulerVars, engineVars
  <1>6. QED
    BY <1>2, <1>3, <1>4, <1>5

\* Collect only moves run() on.
LEMMA CollectIInv ==
    ASSUME IInv, NEW e \in Exec, Collect(e) /\ UNCHANGED engineVars
    PROVE  IInv'
  <1>1. EngineTypeOK'
    BY SchedulerAssumption DEF IInv, EngineTypeOK, PC, Status, Collect, schedulerVars, engineVars
  <1> SUFFICES ASSUME NEW f \in Exec
               PROVE  Graph(f)' /\ Tasks(f)' /\ Result(f)' /\ Registry(f)'
    BY <1>1 DEF IInv
  <1>2. Graph(f)'
    BY GraphKept DEF IInv, EngineTypeOK, Collect, schedulerVars
  <1>3. Tasks(f)'
    BY SchedulerAssumption DEF IInv, EngineTypeOK, Tasks, Collect, schedulerVars
  <1>4. Result(f)'
    BY DEF IInv, EngineTypeOK, Result, Status, completed_tasks_, successful_task_ids, Collect,
       schedulerVars
  <1>5. Registry(f)'
    BY DEF IInv, EngineTypeOK, Registry, Result, Ended, Outcome, Collect, schedulerVars, engineVars
  <1>6. QED
    BY <1>2, <1>3, <1>4, <1>5

\* A result is recorded for a task that had none.
LEMMA RecordIInv ==
    ASSUME IInv, NEW e \in Exec, NEW u \in Task, Record(e, u) /\ UNCHANGED engineVars
    PROVE  IInv'
  <1>1. EngineTypeOK'
    BY ZenonT(30), SchedulerAssumption DEF IInv, EngineTypeOK, PC, Status, Record, Return,
       schedulerVars, engineVars
  <1> SUFFICES ASSUME NEW f \in Exec
               PROVE  Graph(f)' /\ Tasks(f)' /\ Result(f)' /\ Registry(f)'
    BY <1>1 DEF IInv
  <1>2. Graph(f)'
    BY GraphKept DEF IInv, EngineTypeOK, Record, Return, schedulerVars
  <1>3. Tasks(f)'
    BY SchedulerAssumption DEF IInv, EngineTypeOK, Tasks, Record, Return, schedulerVars
  <1>4. Result(f)'
    <2>1. CASE f = e /\ pc'[e] = "returned"
      <3>1. pc[e] = "record" /\ status'[e] = "FAILED" /\ work[e][u] = "failed"
        BY <2>1 DEF IInv, EngineTypeOK, Record, Return
      <3>2. task_results_'[e][u] = "failed" /\ u \in dag_'[e]
        BY <3>1 DEF IInv, EngineTypeOK, Tasks, Record
      <3>3. successful_task_ids(e)' # dag_'[e]
        BY <3>2 DEF successful_task_ids
      <3>4. QED
        BY <2>1, <3>1, <3>2, <3>3 DEF IInv, Result, Record
    <2>2. CASE f = e /\ pc'[e] # "returned"
      BY <2>2 DEF IInv, EngineTypeOK, Result, Record, Return
    <2>3. CASE f # e
      BY <2>3 DEF IInv, EngineTypeOK, Result, completed_tasks_, successful_task_ids, Record, Return
    <2>4. QED
      BY <2>1, <2>2, <2>3
  <1>5. Registry(f)'
    BY DEF IInv, EngineTypeOK, Registry, Result, Ended, Outcome, Record, Return, schedulerVars,
       engineVars
  <1>6. QED
    BY <1>2, <1>3, <1>4, <1>5

\* Back to the head of the loop.
LEMMA BatchDoneIInv ==
    ASSUME IInv, NEW e \in Exec, BatchDone(e) /\ UNCHANGED engineVars
    PROVE  IInv'
  <1>1. EngineTypeOK'
    BY SchedulerAssumption DEF IInv, EngineTypeOK, PC, Status, BatchDone, schedulerVars, engineVars
  <1> SUFFICES ASSUME NEW f \in Exec
               PROVE  Graph(f)' /\ Tasks(f)' /\ Result(f)' /\ Registry(f)'
    BY <1>1 DEF IInv
  <1>2. Graph(f)'
    BY GraphKept DEF IInv, EngineTypeOK, BatchDone, schedulerVars
  <1>3. Tasks(f)'
    BY SchedulerAssumption DEF IInv, EngineTypeOK, Tasks, BatchDone, schedulerVars
  <1>4. Result(f)'
    BY DEF IInv, EngineTypeOK, Result, Status, completed_tasks_, successful_task_ids, BatchDone,
       schedulerVars
  <1>5. Registry(f)'
    BY DEF IInv, EngineTypeOK, Registry, Result, Ended, Outcome, BatchDone, schedulerVars,
       engineVars
  <1>6. QED
    BY <1>2, <1>3, <1>4, <1>5

\* The status is taken from all the results.
LEMMA FinishIInv ==
    ASSUME IInv, NEW e \in Exec, Finish(e) /\ UNCHANGED engineVars
    PROVE  IInv'
  <1>1. EngineTypeOK'
    BY SchedulerAssumption DEF IInv, EngineTypeOK, PC, Status, Finish, Return, schedulerVars,
       engineVars
  <1> SUFFICES ASSUME NEW f \in Exec
               PROVE  Graph(f)' /\ Tasks(f)' /\ Result(f)' /\ Registry(f)'
    BY <1>1 DEF IInv
  <1>2. Graph(f)'
    BY GraphKept DEF IInv, EngineTypeOK, Finish, Return, schedulerVars
  <1>3. Tasks(f)'
    BY SchedulerAssumption DEF IInv, EngineTypeOK, Tasks, Finish, Return, schedulerVars
  <1>4. Result(f)'
    BY DEF IInv, EngineTypeOK, Result, Status, completed_tasks_, successful_task_ids, Finish,
       Return,
       schedulerVars
  <1>5. Registry(f)'
    BY DEF IInv, EngineTypeOK, Registry, Result, Ended, Outcome, Finish, Return, schedulerVars,
       engineVars
  <1>6. QED
    BY <1>2, <1>3, <1>4, <1>5

-----------------------------------------------------------------------------

\* Every step keeps the invariant.
LEMMA NextIInv == IInv /\ [ENext]_allVars => IInv'
  <1> SUFFICES ASSUME IInv, [ENext]_allVars
               PROVE  IInv'
    OBVIOUS
  <1>1. CASE register_workflow \/ (\E t \in Task : engine_add_task(t))
    BY <1>1, QuietIInv
  <1>2. ASSUME NEW e \in Exec, StoreFuture(e) \/ get_state(e)
        PROVE  IInv'
    BY <1>2, QuietIInv
  <1>3. ASSUME NEW e \in Exec, Run(e)
        PROVE  IInv'
    <2>1. CASE RunStep(e) /\ UNCHANGED engineVars
      BY <2>1, LoopTopIInv, StopIInv, BlockedIInv, DispatchIInv, DispatchThrowIInv,
         CollectIInv, BatchDoneIInv, FinishIInv, RecordIInv DEF RunStep
    <2>2. QED
      BY <1>3, <2>1, RunStartIInv, AttemptIInv DEF Run
  <1>4. CASE UNCHANGED allVars
    <2>1. EngineTypeOK' /\ \A e \in Exec : Graph(e)'
      BY <1>4, GraphKept DEF IInv, EngineTypeOK, allVars, schedulerVars, engineVars
    <2>2. QED
      BY <1>4, <2>1 DEF IInv, Tasks, Result, Registry, Ended, Outcome, completed_tasks_,
         successful_task_ids, allVars, schedulerVars, engineVars
  <1>5. QED
    BY <1>1, <1>2, <1>3, <1>4, CopyIInv, RegisterIInv, EmitIInv, PublishIInv, ControlIInv
    DEF ENext

\* The inductive invariant holds throughout.
THEOREM Invariance == ESpec => []IInv
  BY InitIInv, NextIInv, PTL DEF ESpec

\* run(): whatever the graph, the retries and the exceptions, a task that was
\* ever started had all its dependencies succeed before it.
THEOREM DependenciesFirst == ESpec => []DepsFirst
  <1>1. IInv => DepsFirst
    BY SchedulerAssumption DEF IInv, EngineTypeOK, Tasks, DepsFirst
  <1>2. QED
    BY <1>1, Invariance, PTL

\* run(): the status it returns is the truth about the tasks, a failed task
\* had all its attempts, and at most one batch begins after cancel().
THEOREM HonestStatus == ESpec => []StatusHonest
  <1>1. IInv => StatusHonest
    BY DEF IInv, EngineTypeOK, Graph, Tasks, Result, StatusHonest, validate_workflow
  <1>2. QED
    BY <1>1, Invariance, PTL

\* get_state and the controls agree about every execution.
THEOREM RegistryAgrees == ESpec => []StateMatchesRegistry
  <1>1. IInv => StateMatchesRegistry
    BY DEF IInv, Registry, StateMatchesRegistry
  <1>2. QED
    BY <1>1, Invariance, PTL

\* Publish: a final state that get_state has reported never changes.
FinalStateStays ==
    [][\A e \in Exec : running_workflows_[e] \notin {"absent", "RUNNING"}
                           => running_workflows_'[e] = running_workflows_[e]]_allVars

\* The engine publishes the state of an execution once.
THEOREM PublishedOnce == ESpec => FinalStateStays
  <1> DEFINE Kept == \A e \in Exec : running_workflows_[e] \notin {"absent", "RUNNING"}
                           => running_workflows_'[e] = running_workflows_[e]
  <1>1. IInv /\ [ENext]_allVars => Kept
    <2> SUFFICES ASSUME IInv, [ENext]_allVars, NEW f \in Exec,
                        running_workflows_[f] \notin {"absent", "RUNNING"}
                 PROVE  running_workflows_'[f] = running_workflows_[f]
      OBVIOUS
    <2>1. f \notin active_schedulers_ /\ pc[f] # "copied"
      BY DEF IInv, Registry
    <2>2. ASSUME NEW e \in Exec, RegisterExecution(e) \/ Publish(e)
          PROVE  running_workflows_'[f] = running_workflows_[f]
      BY <2>1, <2>2 DEF IInv, EngineTypeOK, RegisterExecution, Publish
    <2>3. QED
      BY <2>2 DEF ENext, register_workflow, engine_add_task, CopyWorkflow, StoreFuture, Run,
         EmitCompleted, get_state, EPause, EResume, ECancel, allVars, engineVars
  <1>2. QED
    BY <1>1, Invariance, PTL DEF ESpec, FinalStateStays
=============================================================================
