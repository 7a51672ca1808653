----------------------------- MODULE WorkflowDag -----------------------------
(***************************************************************************)
(* workflow::DAG: the dependency graph of a workflow, built one task and   *)
(* one dependency at a time, and the three algorithms that run on it: the  *)
(* incremental cycle test of add_dependency, has_cycle (depth-first) and   *)
(* topological_sort (Kahn).                                                *)
(*                                                                         *)
(* The containers iterate in an order the code does not fix, so has_cycle  *)
(* and topological_sort are step machines that take every order.           *)
(***************************************************************************)
EXTENDS Naturals, Sequences, FiniteSets

CONSTANT TaskId

VARIABLES
    tasks_,          \* ids of the tasks added so far
    dependencies_,   \* dependencies_[t]: the tasks t waits for
    dependents_,     \* dependents_[t]: the tasks that wait for t
    call,            \* the call under way: "build", "sort", "sorted", "cycle", "searched"
    in_degree, queue, result,        \* topological_sort
    roots, visited, frames, verdict  \* has_cycle: frames is the call stack

graph == <<tasks_, dependencies_, dependents_>>
sorting == <<in_degree, queue, result>>
searching == <<roots, visited, frames, verdict>>
vars == <<graph, call, sorting, searching>>

NoEdges == [t \in TaskId |-> {}]

Init ==
    /\ tasks_ = {} /\ dependencies_ = NoEdges /\ dependents_ = NoEdges
    /\ call = "build"
    /\ in_degree = [t \in TaskId |-> 0] /\ queue = <<>> /\ result = <<>>
    /\ roots = {} /\ visited = {} /\ frames = <<>> /\ verdict = FALSE

-----------------------------------------------------------------------------
(* Building.                                                               *)

\* A second add_task of the same id throws.
add_task(id) ==
    /\ call = "build"
    /\ id \notin tasks_
    /\ tasks_' = tasks_ \cup {id}
    /\ dependencies_' = [dependencies_ EXCEPT ![id] = {}]
    /\ dependents_' = [dependents_ EXCEPT ![id] = {}]
    /\ UNCHANGED <<call, sorting, searching>>

\* A set the forward edges do not lead out of.
Closed(V) == \A x \in V : dependents_[x] \subseteq V

\* What the breadth-first search of can_reach has in visited when its queue
\* runs empty: the least closed set that contains start.
Visited(start) ==
    {x \in tasks_ : \A V \in SUBSET tasks_ : start \in V /\ Closed(V) => x \in V}

\* The target is compared with the successors of visited tasks, never with
\* start itself.
can_reach(start, target) == \E x \in Visited(start) : target \in dependents_[x]

\* Mutant: the search runs in the wrong direction.
add_dependency_Reversed(from, to) ==
    /\ call = "build"
    /\ from \in tasks_ /\ to \in tasks_
    /\ ~can_reach(from, to)
    /\ dependencies_' = [dependencies_ EXCEPT ![to] = @ \cup {from}]
    /\ dependents_' = [dependents_ EXCEPT ![from] = @ \cup {to}]
    /\ UNCHANGED <<tasks_, call, sorting, searching>>

\* "to" depends on "from"; throws when to already reaches from.
add_dependency(from, to) ==
    /\ call = "build"
    /\ from \in tasks_ /\ to \in tasks_
    /\ ~can_reach(to, from)
    /\ dependencies_' = [dependencies_ EXCEPT ![to] = @ \cup {from}]
    /\ dependents_' = [dependents_ EXCEPT ![from] = @ \cup {to}]
    /\ UNCHANGED <<tasks_, call, sorting, searching>>

\* The tasks that can run once those in done have.
get_ready_tasks(done) == {t \in tasks_ \ done : dependencies_[t] \subseteq done}

-----------------------------------------------------------------------------
(* topological_sort.                                                       *)

\* The orders in which a loop may visit the elements of S.
Orders(S) == {s \in [1 .. Cardinality(S) -> S] : \A i, j \in DOMAIN s : s[i] = s[j] => i = j}

SortStart ==
    /\ call = "build" /\ tasks_ # {}
    /\ call' = "sort"
    /\ in_degree' = [t \in TaskId |-> Cardinality(dependencies_[t])]
    /\ queue' \in Orders({t \in tasks_ : dependencies_[t] = {}})
    /\ result' = <<>>
    /\ UNCHANGED <<graph, searching>>

SortPop ==
    /\ call = "sort" /\ queue # <<>>
    /\ LET current == Head(queue)
           freed == {t \in dependents_[current] : in_degree[t] = 1}
       IN  /\ result' = Append(result, current)
           /\ in_degree' = [t \in TaskId |-> IF t \in dependents_[current]
                                             THEN in_degree[t] - 1 ELSE in_degree[t]]
           /\ \E order \in Orders(freed) : queue' = Tail(queue) \o order
    /\ UNCHANGED <<graph, call, searching>>

SortReturn ==
    /\ call = "sort" /\ queue = <<>>
    /\ call' = "sorted"
    /\ UNCHANGED <<graph, sorting, searching>>

-----------------------------------------------------------------------------
(* has_cycle. A frame is a task and the dependents its loop has yet to     *)
(* visit; rec_stack is the tasks of the frames.                            *)

rec_stack == {frames[i].id : i \in DOMAIN frames}

CycleStart ==
    /\ call = "build" /\ tasks_ # {}
    /\ call' = "cycle"
    /\ roots' = tasks_ /\ visited' = {} /\ frames' = <<>> /\ verdict' = FALSE
    /\ UNCHANGED <<graph, sorting>>

\* has_cycle's own loop: a task the search has not met opens a first frame.
CycleRoot(id) ==
    /\ call = "cycle" /\ frames = <<>>
    /\ id \in roots
    /\ roots' = roots \ {id}
    /\ visited' = visited \cup {id}
    /\ frames' = IF id \in visited THEN frames
                 ELSE <<[id |-> id, todo |-> dependents_[id]]>>
    /\ UNCHANGED <<graph, sorting, call, verdict>>

\* Mutant: any task met before counts as a cycle.
CycleDescend_Visited(d) ==
    /\ call = "cycle" /\ frames # <<>>
    /\ LET n == Len(frames)
           rest == [frames EXCEPT ![n].todo = @ \ {d}]
       IN  /\ d \in frames[n].todo
           /\ IF d \in visited
              THEN verdict' = TRUE /\ call' = "searched" /\ UNCHANGED <<visited, frames>>
              ELSE /\ visited' = visited \cup {d}
                   /\ frames' = Append(rest, [id |-> d, todo |-> dependents_[d]])
                   /\ UNCHANGED <<verdict, call>>
    /\ UNCHANGED <<graph, sorting, roots>>

\* The loop of the innermost frame goes on to one more dependent: a task on
\* the recursion stack ends the search, one met before is skipped.
CycleDescend(d) ==
    /\ call = "cycle" /\ frames # <<>>
    /\ LET n == Len(frames)
           rest == [frames EXCEPT ![n].todo = @ \ {d}]
       IN  /\ d \in frames[n].todo
           /\ IF d \in rec_stack
              THEN verdict' = TRUE /\ call' = "searched" /\ UNCHANGED <<visited, frames>>
              ELSE /\ visited' = visited \cup {d}
                   /\ frames' = IF d \in visited THEN rest
                                ELSE Append(rest, [id |-> d, todo |-> dependents_[d]])
                   /\ UNCHANGED <<verdict, call>>
    /\ UNCHANGED <<graph, sorting, roots>>

\* The innermost frame has visited all its dependents.
CycleLeave ==
    /\ call = "cycle" /\ frames # <<>>
    /\ frames[Len(frames)].todo = {}
    /\ frames' = SubSeq(frames, 1, Len(frames) - 1)
    /\ UNCHANGED <<graph, sorting, roots, visited, verdict, call>>

CycleReturn ==
    /\ call = "cycle" /\ frames = <<>> /\ roots = {}
    /\ call' = "searched"
    /\ UNCHANGED <<graph, sorting, searching>>

Next ==
    \/ \E id \in TaskId : add_task(id)
    \/ \E from, to \in TaskId : add_dependency(from, to)
    \/ SortStart \/ SortPop \/ SortReturn
    \/ CycleStart \/ CycleLeave \/ CycleReturn
    \/ \E id \in TaskId : CycleRoot(id) \/ CycleDescend(id)

Spec == Init /\ [][Next]_vars

-----------------------------------------------------------------------------
(* Properties.                                                             *)

\* The graph's two edge maps are each other's inverse, over known tasks only.
TypeOK ==
    /\ tasks_ \subseteq TaskId
    /\ dependencies_ \in [TaskId -> SUBSET tasks_]
    /\ dependents_ \in [TaskId -> SUBSET tasks_]
    /\ \A s, t \in TaskId : s \in dependencies_[t] <=> t \in dependents_[s]
    /\ call \in {"build", "sort", "sorted", "cycle", "searched"}

\* Reference: in a finite graph with a cycle, some set of tasks each have a
\* successor inside the set.
Cyclic(succ) == \E S \in (SUBSET tasks_) \ {{}} : \A x \in S : succ[x] \cap S # {}

Others == [t \in TaskId |-> dependents_[t] \ {t}]

\* add_dependency: no sequence of accepted calls, in any order, closes a
\* cycle through two or more tasks.
NoLongCycle == ~Cyclic(Others)

\* has_cycle and topological_sort, whatever order the maps are iterated in:
\* the verdict is exact; in the order no task comes before one it depends on,
\* none comes twice, and it is complete exactly when the graph has no cycle.
SearchesSound ==
    /\ call = "searched" => (verdict <=> Cyclic(dependents_))
    /\ call = "sorted" =>
        /\ \A i, j \in DOMAIN result :
              /\ result[i] = result[j] => i = j
              /\ result[i] \in dependencies_[result[j]] => i < j
        /\ Len(result) = Cardinality(tasks_) <=> ~Cyclic(dependents_)
=============================================================================
