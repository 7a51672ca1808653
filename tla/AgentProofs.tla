---------------------------- MODULE AgentProofs ----------------------------
(***************************************************************************)
(* Proofs about the two state machines of the agent.                       *)
(*                                                                         *)
(* AgentLoop, for any limits, any protected zone, any levels of            *)
(* force_compact and lists of any length. A list is taken apart into units *)
(* (a message with the results right behind it): pruning keeps a unit or   *)
(* strips it as a whole, compaction drops whole ones, and the rows between *)
(* two boundaries restore whole ones. That the incremental pruning is      *)
(* exact rests on the frozen front: every assistant message in it was      *)
(* stripped before and is deeper now. Lists grow by concatenation, so most *)
(* lemmas say what FlattenSeq, prune, restore_from_db or Visible make of a *)
(* list that was put together from two.                                    *)
(*                                                                         *)
(* Delegation, for any pool, any calls, any number of parts and any number *)
(* of statuses that are kept: the registry follows the sub-agents because  *)
(* the one thread of the loop is blocked while a sub-agent uses a tool     *)
(* (Blocked), so that the sub-agent it goes on with is still running;      *)
(* Excused is why a cancellation can be told from a timeout.               *)
(***************************************************************************)
EXTENDS Delegation, AgentLoop, SequenceTheorems, FiniteSetTheorems, WellFoundedInduction,
        TLAPS

-----------------------------------------------------------------------------
(* Induction over an interval.                                             *)

\* A set of numbers that is not empty has a least one.
LEMMA FirstNumber ==
    ASSUME NEW S \in SUBSET Nat, S # {}
    PROVE  \E m \in S : \A n \in S : m <= n
<1>1. PICK m \in S : \A n \in S : ~ (<<n, m>> \in OpToRel(<, Nat))
  BY NatLessThanWellFounded, WFMin
<1>2. \A n \in S : ~ (n < m)
  BY <1>1 DEF OpToRel
<1>3. m \in S
  BY <1>1
<1> QED
  BY <1>2, <1>3

\* Induction from 0 to n.
LEMMA UpTo ==
    ASSUME NEW n \in Nat, NEW S, 0 \in S, \A i \in 0 .. n : i > 0 /\ i - 1 \in S => i \in S
    PROVE  \A i \in 0 .. n : i \in S
<1> DEFINE Bad == {i \in 0 .. n : i \notin S}
<1> SUFFICES ASSUME Bad # {} PROVE FALSE
  OBVIOUS
<1>1. PICK m \in Bad : \A i \in Bad : m <= i
  <2>1. Bad \in SUBSET Nat
    OBVIOUS
  <2> QED
    BY <2>1, FirstNumber
<1>2. m \in 0 .. n /\ m \notin S /\ m # 0
  BY <1>1
<1>3. m - 1 \in 0 .. n /\ m - 1 \notin Bad
  BY <1>1, <1>2
<1> QED
  BY <1>2, <1>3

\* Induction from 0 to n over all that are smaller.
LEMMA UpToAll ==
    ASSUME NEW n \in Nat, NEW S,
           \A i \in 0 .. n : (\A j \in 0 .. i : j < i => j \in S) => i \in S
    PROVE  \A i \in 0 .. n : i \in S
<1> DEFINE Bad == {i \in 0 .. n : i \notin S}
<1> SUFFICES ASSUME Bad # {} PROVE FALSE
  OBVIOUS
<1>1. PICK m \in Bad : \A i \in Bad : m <= i
  <2>1. Bad \in SUBSET Nat
    OBVIOUS
  <2> QED
    BY <2>1, FirstNumber
<1>2. m \in 0 .. n /\ m \notin S
  BY <1>1
<1>3. \A j \in 0 .. m : j < m => j \in S
  <2> SUFFICES ASSUME NEW j \in 0 .. m, j < m PROVE j \in S
    OBVIOUS
  <2>1. j \in 0 .. n /\ ~ (m <= j)
    BY <1>2
  <2> QED
    BY <1>1, <2>1
<1> QED
  BY <1>2, <1>3

-----------------------------------------------------------------------------
(* FlattenSeq.                                                             *)

\* Append, element by element.
LEMMA AppendFacts ==
    ASSUME NEW A, NEW s \in Seq(A), NEW x \in A
    PROVE  /\ Append(s, x) \in Seq(A) /\ Append(s, x) # <<>>
           /\ Len(Append(s, x)) = Len(s) + 1 /\ Append(s, x)[Len(s) + 1] = x
           /\ \A i \in 1 .. Len(s) : Append(s, x)[i] = s[i]
  OBVIOUS

\* A function on 1 .. n is a sequence of length n.
LEMMA FunctionIsSeq ==
    ASSUME NEW A, NEW n \in Nat, NEW f \in [1 .. n -> A]
    PROVE  f \in Seq(A) /\ Len(f) = n
  OBVIOUS

\* Concatenation, element by element.
LEMMA ConcatFacts ==
    ASSUME NEW A, NEW s \in Seq(A), NEW t \in Seq(A)
    PROVE  /\ s \o t \in Seq(A) /\ Len(s \o t) = Len(s) + Len(t)
           /\ \A i \in 1 .. Len(s) : (s \o t)[i] = s[i]
           /\ \A i \in 1 .. Len(t) : (s \o t)[Len(s) + i] = t[i]
           /\ \A i \in 1 .. Len(s \o t) :
                 (s \o t)[i] = IF i <= Len(s) THEN s[i] ELSE t[i - Len(s)]
  OBVIOUS

\* flat is the recursive function inside FlattenSeq(s).
Flat(s, flat) ==
    flat = [i \in 1 .. Len(s) |-> IF i = 1 THEN s[i] ELSE flat[i - 1] \o s[i]]

\* There is only one such function,
LEMMA FlatUnique ==
    ASSUME NEW s, Len(s) \in Nat, NEW f, NEW g, Flat(s, f), Flat(s, g)
    PROVE  \A i \in 1 .. Len(s) : f[i] = g[i]
<1> DEFINE n == Len(s)
           S == {i \in 0 .. n : i > 0 => f[i] = g[i]}
<1>1. \A i \in 0 .. n : i > 0 /\ i - 1 \in S => i \in S
  <2> SUFFICES ASSUME NEW i \in 0 .. n, i > 0, i - 1 \in S PROVE f[i] = g[i]
    OBVIOUS
  <2>1. i \in 1 .. n
    OBVIOUS
  <2>2. /\ f[i] = IF i = 1 THEN s[i] ELSE f[i - 1] \o s[i]
        /\ g[i] = IF i = 1 THEN s[i] ELSE g[i - 1] \o s[i]
    BY <2>1 DEF Flat
  <2>3. i # 1 => f[i - 1] = g[i - 1]
    BY <2>1
  <2> QED
    BY <2>2, <2>3
<1>2. 0 \in S /\ n \in Nat
  OBVIOUS
<1>3. \A i \in 0 .. n : i \in S
  <2> HIDE DEF S, n
  <2> QED
    BY <1>1, <1>2, UpTo
<1> QED
  BY <1>3

\* and there is one.
LEMMA FlatExists ==
    ASSUME NEW T, NEW s \in Seq(Seq(T)), s # <<>>
    PROVE  \E f \in [1 .. Len(s) -> Seq(T)] : Flat(s, f)
<1> DEFINE n == Len(s)
           Up(k, f) == f = [i \in 1 .. k |-> IF i = 1 THEN s[i] ELSE f[i - 1] \o s[i]]
           S == {k \in 0 .. n : k > 0 => \E f \in [1 .. k -> Seq(T)] : Up(k, f)}
<1>1. \A i \in 0 .. n : i > 0 /\ i - 1 \in S => i \in S
  <2> SUFFICES ASSUME NEW k \in 0 .. n, k > 0, k - 1 \in S
               PROVE  \E f \in [1 .. k -> Seq(T)] : Up(k, f)
    OBVIOUS
  <2>1. s[k] \in Seq(T)
    OBVIOUS
  <2>2. CASE k = 1
    <3> DEFINE f == [i \in 1 .. k |-> s[i]]
    <3>1. f \in [1 .. k -> Seq(T)]
      BY <2>1, <2>2
    <3>2. Up(k, f)
      BY <2>2
    <3> QED
      BY <3>1, <3>2
  <2>3. CASE k # 1
    <3>1. PICK f \in [1 .. (k - 1) -> Seq(T)] : Up(k - 1, f)
      <4>1. k - 1 > 0
        BY <2>3
      <4> QED
        BY <4>1
    <3>2. /\ \A i \in 1 .. (k - 1) : f[i] \in Seq(T)
          /\ \A i \in 1 .. (k - 1) : f[i] = IF i = 1 THEN s[i] ELSE f[i - 1] \o s[i]
      BY <3>1
    <3> DEFINE g == [i \in 1 .. k |-> IF i = k THEN f[k - 1] \o s[k] ELSE f[i]]
    <3>3. f[k - 1] \o s[k] \in Seq(T)
      BY <2>1, <2>3, <3>2
    <3>4. g \in [1 .. k -> Seq(T)]
      BY <3>2, <3>3
    <3>5. \A i \in 1 .. k : g[i] = IF i = 1 THEN s[i] ELSE g[i - 1] \o s[i]
      <4> SUFFICES ASSUME NEW i \in 1 .. k
                   PROVE  g[i] = IF i = 1 THEN s[i] ELSE g[i - 1] \o s[i]
        OBVIOUS
      <4>1. CASE i = k
        <5>1. k - 1 \in 1 .. k /\ k - 1 # k /\ k \in 1 .. k
          BY <2>3
        <5>2. g[k - 1] = f[k - 1] /\ g[k] = f[k - 1] \o s[k]
          BY <5>1
        <5> QED
          BY <2>3, <4>1, <5>2
      <4>2. CASE i # k
        <5>1. i \in 1 .. (k - 1) /\ (i # 1 => i - 1 \in 1 .. (k - 1) /\ i - 1 # k)
          BY <4>2
        <5>2. g[i] = f[i]
          BY <4>2
        <5>3. i # 1 => g[i - 1] = f[i - 1]
          BY <5>1
        <5> QED
          BY <3>2, <5>1, <5>2, <5>3
      <4> QED
        BY <4>1, <4>2
    <3>6. Up(k, g)
      <4> HIDE DEF g
      <4> QED
        BY <3>4, <3>5
    <3> QED
      BY <3>4, <3>6
  <2> QED
    BY <2>2, <2>3
<1>2. 0 \in S /\ n \in Nat /\ n > 0
  OBVIOUS
<1>3. \A i \in 0 .. n : i \in S
  <2> HIDE DEF S, n
  <2> QED
    BY <1>1, <1>2, UpTo
<1>4. n \in 0 .. n /\ n > 0
  BY <1>2
<1>5. n \in S
  BY <1>3, <1>4
<1> QED
  BY <1>4, <1>5 DEF Flat

\* The value of FlattenSeq is that of any such function.
LEMMA FlatIs ==
    ASSUME NEW T, NEW s \in Seq(Seq(T)), s # <<>>, NEW f, Flat(s, f)
    PROVE  FlattenSeq(s) = f[Len(s)]
<1> DEFINE F == CHOOSE g : g = [i \in 1 .. Len(s) |-> IF i = 1 THEN s[i] ELSE g[i - 1] \o s[i]]
<1>1. Flat(s, F)
  <2>1. \E g : g = [i \in 1 .. Len(s) |-> IF i = 1 THEN s[i] ELSE g[i - 1] \o s[i]]
    BY FlatExists DEF Flat
  <2> QED
    BY <2>1, Zenon DEF Flat
<1>2. Len(s) \in Nat /\ Len(s) # 0 /\ Len(s) \in 1 .. Len(s)
  OBVIOUS
<1>3. FlattenSeq(s) = F[Len(s)]
  BY <1>2, Zenon DEF FlattenSeq
<1> HIDE DEF F
<1>4. F[Len(s)] = f[Len(s)]
  BY <1>1, <1>2, FlatUnique
<1> QED
  BY <1>3, <1>4

\* Nothing put together is nothing.
LEMMA FlatEmpty == FlattenSeq(<<>>) = <<>>
  BY DEF FlattenSeq

\* Sequences over T put together are one over T.
LEMMA FlatType ==
    ASSUME NEW T, NEW s \in Seq(Seq(T))
    PROVE  FlattenSeq(s) \in Seq(T)
<1>1. CASE s = <<>>
  <2>1. <<>> \in Seq(T)
    OBVIOUS
  <2> QED
    BY <1>1, <2>1, FlatEmpty
<1>2. CASE s # <<>>
  <2>1. PICK f \in [1 .. Len(s) -> Seq(T)] : Flat(s, f)
    BY <1>2, FlatExists
  <2>2. Len(s) \in 1 .. Len(s)
    BY <1>2
  <2>3. FlattenSeq(s) = f[Len(s)]
    BY <1>2, <2>1, FlatIs
  <2> QED
    BY <2>1, <2>2, <2>3
<1> QED
  BY <1>1, <1>2

\* FlattenSeq takes over what is appended.
LEMMA FlatAppend ==
    ASSUME NEW T, NEW s \in Seq(Seq(T)), NEW x \in Seq(T)
    PROVE  FlattenSeq(Append(s, x)) = FlattenSeq(s) \o x
<1> DEFINE t == Append(s, x)
<1>1. t \in Seq(Seq(T)) /\ t # <<>> /\ Len(t) = Len(s) + 1 /\ t[Len(s) + 1] = x
      /\ \A i \in 1 .. Len(s) : t[i] = s[i]
  BY AppendFacts
<1>2. PICK g \in [1 .. Len(t) -> Seq(T)] : Flat(t, g)
  BY <1>1, FlatExists
<1>3. FlattenSeq(t) = g[Len(s) + 1]
  BY <1>1, <1>2, FlatIs
<1>4. \A i \in 1 .. Len(t) : g[i] = IF i = 1 THEN t[i] ELSE g[i - 1] \o t[i]
  BY <1>2 DEF Flat
<1> HIDE DEF t
<1>5. CASE s = <<>>
  <2>1. g[1] = x /\ Len(s) = 0
    BY <1>1, <1>4, <1>5
  <2> QED
    BY <1>3, <1>5, <2>1, FlatEmpty DEF t
<1>6. CASE s # <<>>
  <2>1. Len(s) \in 1 .. Len(s) /\ Len(s) + 1 \in 1 .. Len(t) /\ Len(s) + 1 # 1
        /\ (Len(s) + 1) - 1 = Len(s)
    BY <1>1, <1>6
  <2>2. g[Len(s) + 1] = g[Len(s)] \o x
    BY <1>1, <1>4, <2>1
  <2> DEFINE f == [i \in 1 .. Len(s) |-> g[i]]
  <2>3. Flat(s, f)
    <3>1. \A i \in 1 .. Len(s) : f[i] = IF i = 1 THEN s[i] ELSE f[i - 1] \o s[i]
      <4> SUFFICES ASSUME NEW i \in 1 .. Len(s)
                   PROVE  g[i] = IF i = 1 THEN s[i] ELSE g[i - 1] \o s[i]
        OBVIOUS
      <4>1. i \in 1 .. Len(t)
        BY <1>1
      <4> QED
        BY <1>1, <1>4, <4>1
    <3>2. f = [i \in 1 .. Len(s) |-> f[i]]
      OBVIOUS
    <3> HIDE DEF f
    <3> QED
      BY <3>1, <3>2 DEF Flat
  <2>4. FlattenSeq(s) = f[Len(s)]
    <3> HIDE DEF f
    <3> QED
      BY <1>6, <2>3, FlatIs
  <2> QED
    BY <1>3, <2>1, <2>2, <2>4 DEF t
<1> QED
  BY <1>5, <1>6

Grouped(y, x, u, z) == y \o x = u \o z

\* Concatenation may be grouped either way.
LEMMA Regroup ==
    ASSUME NEW A, NEW u \in Seq(A), NEW v \in Seq(A), NEW x \in Seq(A),
           NEW y, NEW z, y = u \o v, z = v \o x
    PROVE  Grouped(y, x, u, z)
  BY ConcatAssociative DEF Grouped

\* FlatConcat for one piece more.
LEMMA FlatConcatStep ==
    ASSUME NEW T, NEW s \in Seq(Seq(T)), NEW p \in Seq(Seq(T)), NEW x \in Seq(T),
           FlattenSeq(s \o p) = FlattenSeq(s) \o FlattenSeq(p)
    PROVE  FlattenSeq(s \o Append(p, x)) = FlattenSeq(s) \o FlattenSeq(Append(p, x))
<1>1. s \o Append(p, x) = Append(s \o p, x) /\ s \o p \in Seq(Seq(T))
  <2> DEFINE P == Seq(T)
  <2>1. s \in Seq(P) /\ p \in Seq(P) /\ x \in P
    OBVIOUS
  <2> HIDE DEF P
  <2>2. s \o Append(p, x) = Append(s \o p, x)
    BY <2>1
  <2>3. s \o p \in Seq(P)
    BY <2>1
  <2> QED
    BY <2>2, <2>3 DEF P
<1>2. FlattenSeq(s \o Append(p, x)) = FlattenSeq(s \o p) \o x
  BY <1>1, FlatAppend
<1>3. FlattenSeq(Append(p, x)) = FlattenSeq(p) \o x
  BY FlatAppend
<1>4. FlattenSeq(s) \in Seq(T) /\ FlattenSeq(p) \in Seq(T)
  BY FlatType
<1>5. FlattenSeq(s \o p) \o x = FlattenSeq(s) \o FlattenSeq(Append(p, x))
  <2> DEFINE F == FlattenSeq(s)
             G == FlattenSeq(p)
             H == FlattenSeq(s \o p)
             K == FlattenSeq(Append(p, x))
  <2>1. F \in Seq(T) /\ G \in Seq(T) /\ H = F \o G /\ K = G \o x
    BY <1>3, <1>4
  <2> HIDE DEF F, G, H, K
  <2>2. Grouped(H, x, F, K)
    BY <2>1, Regroup
  <2> QED
    BY <2>2 DEF Grouped, F, H, K
<1> QED
  BY <1>2, <1>5

\* FlattenSeq of two lists of pieces, one behind the other.
LEMMA FlatConcat ==
    ASSUME NEW T, NEW s \in Seq(Seq(T)), NEW t \in Seq(Seq(T))
    PROVE  FlattenSeq(s \o t) = FlattenSeq(s) \o FlattenSeq(t)
<1> DEFINE front(k) == SubSeq(t, 1, k)
           S == {k \in 0 .. Len(t) :
                    FlattenSeq(s \o front(k)) = FlattenSeq(s) \o FlattenSeq(front(k))}
<1>1. 0 \in S
  <2>1. front(0) = <<>> /\ s \o <<>> = s /\ Len(t) \in Nat
    OBVIOUS
  <2>2. FlattenSeq(s) \o <<>> = FlattenSeq(s)
    BY FlatType
  <2> HIDE DEF front
  <2>3. 0 \in 0 .. Len(t)
    BY <2>1
  <2> QED
    BY <2>1, <2>2, <2>3, FlatEmpty
<1>2. \A i \in 0 .. Len(t) : i > 0 /\ i - 1 \in S => i \in S
  <2> SUFFICES ASSUME NEW i \in 0 .. Len(t), i > 0, i - 1 \in S
               PROVE  FlattenSeq(s \o front(i)) = FlattenSeq(s) \o FlattenSeq(front(i))
    OBVIOUS
  <2> DEFINE p == front(i - 1)
  <2>1. p \in Seq(Seq(T)) /\ front(i) = Append(p, t[i]) /\ t[i] \in Seq(T)
    OBVIOUS
  <2>2. FlattenSeq(s \o p) = FlattenSeq(s) \o FlattenSeq(p)
    OBVIOUS
  <2> HIDE DEF front, S, p
  <2>3. FlattenSeq(s \o Append(p, t[i])) = FlattenSeq(s) \o FlattenSeq(Append(p, t[i]))
    <3> DEFINE P == Seq(T)
    <3>1. ASSUME NEW x \in P
          PROVE  FlattenSeq(s \o Append(p, x)) = FlattenSeq(s) \o FlattenSeq(Append(p, x))
      BY <2>1, <2>2, <3>1, FlatConcatStep, Zenon
    <3> QED
      BY <2>1, <3>1, Zenon
  <2> QED
    BY <2>1, <2>3, Zenon
<1>3. Len(t) \in Nat /\ front(Len(t)) = t
  OBVIOUS
<1>4. \A i \in 0 .. Len(t) : i \in S
  <2> HIDE DEF S
  <2> QED
    BY <1>1, <1>2, <1>3, UpTo
<1>5. Len(t) \in S
  BY <1>3, <1>4
<1> HIDE DEF front
<1> QED
  BY <1>3, <1>5

\* The same for pieces given as a function.
Splits(f, n, m) ==
    FlattenSeq(f) = FlattenSeq([i \in 1 .. n |-> f[i]])
                    \o FlattenSeq([i \in 1 .. m |-> f[n + i]])

\* Where the pieces are split does not matter.
LEMMA FlatSplit ==
    ASSUME NEW T, NEW n \in Nat, NEW m \in Nat, NEW f \in [1 .. (n + m) -> Seq(T)]
    PROVE  Splits(f, n, m)
<1> DEFINE s == [i \in 1 .. n |-> f[i]]
           t == [i \in 1 .. m |-> f[n + i]]
<1>1. s \in Seq(Seq(T)) /\ Len(s) = n
  OBVIOUS
<1>2. t \in Seq(Seq(T)) /\ Len(t) = m
  OBVIOUS
<1>3. f \in Seq(Seq(T)) /\ Len(f) = n + m
  OBVIOUS
<1>4. \A i \in 1 .. (n + m) : f[i] = IF i <= n THEN s[i] ELSE t[i - n]
  OBVIOUS
<1> HIDE DEF s, t
<1>5. f = s \o t
  <2>1. s \o t \in Seq(Seq(T)) /\ Len(s \o t) = n + m
    BY <1>1, <1>2, ConcatFacts
  <2>2. \A i \in 1 .. (n + m) : (s \o t)[i] = IF i <= n THEN s[i] ELSE t[i - n]
    <3> DEFINE P == Seq(T)
    <3>1. s \in Seq(P) /\ t \in Seq(P)
      BY <1>1, <1>2
    <3> HIDE DEF P
    <3>2. \A i \in 1 .. Len(s \o t) :
            (s \o t)[i] = IF i <= Len(s) THEN s[i] ELSE t[i - Len(s)]
      BY <3>1, ConcatFacts, Zenon
    <3> QED
      BY <1>1, <2>1, <3>2
  <2>3. \A i \in 1 .. (n + m) : (s \o t)[i] = f[i]
    BY <1>4, <2>2
  <2> QED
    BY <1>3, <2>1, <2>3, SeqEqual
<1>6. FlattenSeq(f) = FlattenSeq(s) \o FlattenSeq(t)
  BY <1>1, <1>2, <1>5, FlatConcat
<1> QED
  BY <1>6 DEF Splits, s, t

\* One piece more.
LEMMA FlatStep ==
    ASSUME NEW T, NEW n \in Nat, NEW f \in [1 .. n -> Seq(T)], NEW k \in 1 .. n
    PROVE  FlattenSeq([i \in 1 .. k |-> f[i]]) = FlattenSeq([i \in 1 .. (k - 1) |-> f[i]]) \o f[k]
<1> DEFINE g == [i \in 1 .. k |-> f[i]]
           s == [i \in 1 .. (k - 1) |-> f[i]]
<1>1. f[k] \in Seq(T) /\ g = Append(s, f[k])
  OBVIOUS
<1>2. s \in Seq(Seq(T))
  OBVIOUS
<1> HIDE DEF g, s
<1>3. FlattenSeq(g) = FlattenSeq(s) \o f[k]
  BY <1>1, <1>2, FlatAppend
<1> QED
  BY <1>3 DEF g, s

\* The first k pieces put together are a sequence.
LEMMA FlatPieces ==
    ASSUME NEW T, NEW n \in Nat, NEW f \in [1 .. n -> Seq(T)], NEW k \in 0 .. n
    PROVE  FlattenSeq([i \in 1 .. k |-> f[i]]) \in Seq(T)
<1>1. [i \in 1 .. k |-> f[i]] \in Seq(Seq(T))
  OBVIOUS
<1> QED
  BY <1>1, FlatType

\* No pieces, no elements.
LEMMA FlatNone ==
    ASSUME NEW f
    PROVE  FlattenSeq([i \in 1 .. 0 |-> f[i]]) = <<>>
<1>1. [i \in 1 .. 0 |-> f[i]] = <<>>
  OBVIOUS
<1> QED
  BY <1>1, FlatEmpty

\* Pieces of one element.
LEMMA FlatSingle ==
    ASSUME NEW T, NEW s \in Seq(T), NEW f \in [1 .. Len(s) -> Seq(T)],
           \A i \in 1 .. Len(s) : f[i] = <<s[i]>>
    PROVE  FlattenSeq(f) = s
<1> DEFINE n == Len(s)
           S == {k \in 0 .. n : FlattenSeq([i \in 1 .. k |-> f[i]]) = SubSeq(s, 1, k)}
<1>1. n \in Nat /\ f \in [1 .. n -> Seq(T)] /\ f = [i \in 1 .. n |-> f[i]] /\ SubSeq(s, 1, n) = s
  OBVIOUS
<1>2. 0 \in S
  <2>1. SubSeq(s, 1, 0) = <<>> /\ 0 \in 0 .. n
    OBVIOUS
  <2>2. FlattenSeq([i \in 1 .. 0 |-> f[i]]) = <<>>
    BY FlatNone
  <2> HIDE DEF n
  <2> QED
    BY <2>1, <2>2
<1>3. \A k \in 0 .. n : k > 0 /\ k - 1 \in S => k \in S
  <2> SUFFICES ASSUME NEW k \in 0 .. n, k > 0, k - 1 \in S
               PROVE  FlattenSeq([i \in 1 .. k |-> f[i]]) = SubSeq(s, 1, k)
    OBVIOUS
  <2>1. k \in 1 .. n
    OBVIOUS
  <2>2. FlattenSeq([i \in 1 .. (k - 1) |-> f[i]]) = SubSeq(s, 1, k - 1)
    OBVIOUS
  <2>3. FlattenSeq([i \in 1 .. k |-> f[i]]) = SubSeq(s, 1, k - 1) \o f[k]
    <3> HIDE DEF n, S
    <3>1. FlattenSeq([i \in 1 .. k |-> f[i]]) = FlattenSeq([i \in 1 .. (k - 1) |-> f[i]]) \o f[k]
      BY <1>1, <2>1, FlatStep DEF n
    <3> QED
      BY <2>2, <3>1
  <2>4. f[k] = <<s[k]>> /\ SubSeq(s, 1, k - 1) \o <<s[k]>> = SubSeq(s, 1, k)
    BY <2>1
  <2> QED
    BY <2>3, <2>4
<1>4. \A k \in 0 .. n : k \in S
  <2> HIDE DEF S, n
  <2> QED
    BY <1>1, <1>2, <1>3, UpTo
<1>5. n \in S
  BY <1>1, <1>4
<1> QED
  BY <1>1, <1>5

\* A sequence of at most one element.
LEMMA ShortSeq ==
    ASSUME NEW T, NEW x \in Seq(T), Len(x) <= 1
    PROVE  (x = <<>> <=> Len(x) = 0) /\ (x # <<>> => Len(x) = 1)
<1>1. Len(x) \in Nat /\ (Len(x) = 0 => x = <<>>)
  BY EmptySeq
<1>2. x = <<>> => Len(x) = 0
  OBVIOUS
<1>3. ASSUME NEW k \in Nat, k <= 1 PROVE k = 0 \/ k = 1
  BY <1>3
<1> QED
  BY <1>1, <1>2, <1>3

\* Pieces of at most one element: as many as there are less the empty ones.
LEMMA FlatLength ==
    ASSUME NEW T, NEW n \in Nat, NEW f \in [1 .. n -> Seq(T)],
           \A i \in 1 .. n : Len(f[i]) <= 1
    PROVE  Len(FlattenSeq(f)) = n - Cardinality({i \in 1 .. n : f[i] = <<>>})
<1> DEFINE none(k) == {i \in 1 .. k : f[i] = <<>>}
           S == {k \in 0 .. n : Len(FlattenSeq([i \in 1 .. k |-> f[i]])) = k - Cardinality(none(k))}
<1>1. 0 \in S
  <2>1. none(0) = {}
    OBVIOUS
  <2>2. Cardinality(none(0)) = 0
    BY <2>1, FS_EmptySet
  <2>3. Len(FlattenSeq([i \in 1 .. 0 |-> f[i]])) = 0
    BY FlatNone
  <2> HIDE DEF none
  <2> QED
    BY <2>2, <2>3
<1>2. \A k \in 0 .. n : k > 0 /\ k - 1 \in S => k \in S
  <2> SUFFICES ASSUME NEW k \in 0 .. n, k > 0, k - 1 \in S
               PROVE  Len(FlattenSeq([i \in 1 .. k |-> f[i]])) = k - Cardinality(none(k))
    OBVIOUS
  <2> DEFINE p == FlattenSeq([i \in 1 .. (k - 1) |-> f[i]])
             q == FlattenSeq([i \in 1 .. k |-> f[i]])
  <2>1. k \in 1 .. n /\ k - 1 \in 0 .. n
    OBVIOUS
  <2>2. q = p \o f[k]
    BY <2>1, FlatStep
  <2>3. p \in Seq(T)
    BY <2>1, FlatPieces
  <2>4. Len(p) = (k - 1) - Cardinality(none(k - 1))
    OBVIOUS
  <2>5. IsFiniteSet(none(k - 1)) /\ Cardinality(none(k - 1)) \in Nat
    <3>1. IsFiniteSet(1 .. n)
      BY FS_Interval
    <3>2. none(k - 1) \subseteq 1 .. n
      OBVIOUS
    <3> QED
      BY <3>1, <3>2, FS_Subset, FS_CardinalityType
  <2>6. none(k) = IF f[k] = <<>> THEN none(k - 1) \cup {k} ELSE none(k - 1)
    OBVIOUS
  <2>7. k \notin none(k - 1)
    OBVIOUS
  <2>8. f[k] \in Seq(T) /\ (f[k] = <<>> <=> Len(f[k]) = 0)
        /\ (f[k] # <<>> => Len(f[k]) = 1)
    <3>1. f[k] \in Seq(T) /\ Len(f[k]) <= 1
      BY <2>1
    <3> QED
      BY <3>1, ShortSeq
  <2> HIDE DEF p, q, none, S
  <2>9. Len(q) = Len(p) + Len(f[k]) /\ Len(f[k]) \in Nat
    BY <2>2, <2>3, <2>8
  <2>10. CASE f[k] = <<>>
    <3>1. Cardinality(none(k)) = Cardinality(none(k - 1)) + 1
      BY <2>5, <2>6, <2>7, <2>10, FS_AddElement
    <3> QED
      BY <2>4, <2>5, <2>8, <2>9, <2>10, <3>1 DEF q
  <2>11. CASE f[k] # <<>>
    <3>1. none(k) = none(k - 1)
      BY <2>6, <2>11
    <3>2. Len(f[k]) = 1
      BY <2>8, <2>11
    <3> QED
      BY <2>4, <2>5, <2>9, <3>1, <3>2 DEF q
  <2> QED
    BY <2>10, <2>11
<1>3. \A k \in 0 .. n : k \in S
  <2> HIDE DEF S
  <2> QED
    BY <1>1, <1>2, UpTo
<1>4. n \in S /\ f = [i \in 1 .. n |-> f[i]]
  BY <1>3
<1> QED
  BY <1>4

-----------------------------------------------------------------------------
(* Pruning.                                                                *)

Role == {"system", "user", "assistant", "tool"}
Message == [role : Role, calls : SUBSET Nat, text : BOOLEAN]
Pruned == [m : Message, form : {"full", "soft", "stripped"}]

\* The depth that decides what becomes of message i, and what it decides.
Depth(ms, depths, i) ==
    IF ms[i].role = "tool" THEN nearest_depth(ms, depths, i) ELSE depths[i]

Outcome(m, depth, hard) ==
    IF m.role \notin {"tool", "assistant"} \/ (depth > 0 /\ depth <= ProtectRecent)
    THEN Keep(m, "full")
    ELSE IF depth <= hard THEN Keep(m, "soft")
    ELSE IF m.role = "tool" THEN <<>>
    ELSE Keep([m EXCEPT !.calls = {}], "stripped")

\* PruneOne decides by the message and its depth alone.
LEMMA PruneOneIs ==
    ASSUME NEW ms, NEW depths, NEW hard, NEW i
    PROVE  PruneOne(ms, depths, hard, i) = Outcome(ms[i], Depth(ms, depths, i), hard)
  BY DEF PruneOne, Outcome, Depth

\* It keeps one message or none.
LEMMA OutcomeType ==
    ASSUME NEW m \in Message, NEW depth \in Nat, NEW hard \in Nat
    PROVE  /\ Outcome(m, depth, hard) \in Seq(Pruned) /\ Len(Outcome(m, depth, hard)) <= 1
           /\ hard >= ProtectRecent =>
                 (Outcome(m, depth, hard) = <<>> <=> m.role = "tool" /\ depth > hard)
<1>1. ProtectRecent \in Nat
  BY PruneAssumption
<1>2. ASSUME NEW k \in Message, NEW form \in {"full", "soft", "stripped"}
      PROVE  Keep(k, form) \in Seq(Pruned) /\ Len(Keep(k, form)) <= 1 /\ Keep(k, form) # <<>>
  <2>1. [m |-> k, form |-> form] \in Pruned
    BY DEF Pruned
  <2> QED
    BY <2>1 DEF Keep
<1>3. [m EXCEPT !.calls = {}] \in Message
  BY DEF Message
<1>4. <<>> \in Seq(Pruned) /\ Len(<<>>) <= 1
  OBVIOUS
<1>5. CASE m.role \notin {"tool", "assistant"} \/ (depth > 0 /\ depth <= ProtectRecent)
  <2>1. Outcome(m, depth, hard) = Keep(m, "full")
    BY <1>5 DEF Outcome
  <2>2. hard >= ProtectRecent => ~ (m.role = "tool" /\ depth > hard)
    BY <1>1, <1>5
  <2> QED
    BY <1>2, <2>1, <2>2
<1>6. CASE ~ (m.role \notin {"tool", "assistant"} \/ (depth > 0 /\ depth <= ProtectRecent))
  <2>1. CASE depth <= hard
    <3>1. Outcome(m, depth, hard) = Keep(m, "soft") /\ ~ (depth > hard)
      BY <1>6, <2>1 DEF Outcome
    <3> QED
      BY <1>2, <3>1
  <2>2. CASE ~ (depth <= hard) /\ m.role = "tool"
    <3>1. Outcome(m, depth, hard) = <<>> /\ depth > hard
      BY <1>6, <2>2 DEF Outcome
    <3> QED
      BY <1>4, <2>2, <3>1
  <2>3. CASE ~ (depth <= hard) /\ m.role # "tool"
    <3>1. Outcome(m, depth, hard) = Keep([m EXCEPT !.calls = {}], "stripped")
      BY <1>6, <2>3 DEF Outcome
    <3> QED
      BY <1>2, <1>3, <2>3, <3>1
  <2> QED
    BY <2>1, <2>2, <2>3
<1> QED
  BY <1>5, <1>6

\* Beyond hard_prune_after the depth itself does not matter.
LEMMA OutcomeSame ==
    ASSUME NEW m \in Message, NEW d \in Nat, NEW e \in Nat, NEW hard \in Nat, hard >= ProtectRecent,
           m.role \in {"tool", "assistant"} => d = e \/ (d > hard /\ e > hard)
    PROVE  Outcome(m, d, hard) = Outcome(m, e, hard)
<1>1. ProtectRecent \in Nat
  BY PruneAssumption
<1>2. CASE m.role \notin {"tool", "assistant"}
  BY <1>2 DEF Outcome
<1>3. CASE d = e
  BY <1>3
<1>4. CASE m.role = "tool" /\ d > hard /\ e > hard
  <2>1. ~ (d > 0 /\ d <= ProtectRecent) /\ ~ (e > 0 /\ e <= ProtectRecent)
    BY <1>1, <1>4
  <2> QED
    BY <1>4, <2>1 DEF Outcome
<1>5. CASE m.role = "assistant" /\ d > hard /\ e > hard
  <2>1. ~ (d > 0 /\ d <= ProtectRecent) /\ ~ (e > 0 /\ e <= ProtectRecent)
    BY <1>1, <1>5
  <2> QED
    BY <1>5, <2>1 DEF Outcome
<1> QED
  BY <1>2, <1>3, <1>4, <1>5

\* The assistant messages from a place on can be counted.
LEMMA AssistantsFinite ==
    ASSUME NEW ms \in Seq(Message), NEW i \in Nat
    PROVE  IsFiniteSet(Assistants(ms, i)) /\ Cardinality(Assistants(ms, i)) \in Nat
<1>1. IsFiniteSet(i .. Len(ms))
  BY FS_Interval
<1>2. Assistants(ms, i) \subseteq i .. Len(ms)
  BY DEF Assistants
<1> QED
  BY <1>1, <1>2, FS_Subset, FS_CardinalityType

\* compute_depths gives every message a number.
LEMMA DepthsType ==
    ASSUME NEW ms \in Seq(Message)
    PROVE  /\ compute_depths(ms) \in [1 .. Len(ms) -> Nat]
           /\ \A i \in 1 .. Len(ms) :
                 /\ ms[i].role = "assistant" =>
                       compute_depths(ms)[i] = Cardinality(Assistants(ms, i))
                       /\ compute_depths(ms)[i] > 0
                 /\ ms[i].role # "assistant" => compute_depths(ms)[i] = 0
<1>1. DOMAIN ms = 1 .. Len(ms)
  OBVIOUS
<1>2. ASSUME NEW i \in 1 .. Len(ms)
      PROVE  /\ Cardinality(Assistants(ms, i)) \in Nat
             /\ ms[i].role = "assistant" => Cardinality(Assistants(ms, i)) > 0
  <2>1. IsFiniteSet(Assistants(ms, i)) /\ Cardinality(Assistants(ms, i)) \in Nat
    BY AssistantsFinite
  <2>2. ms[i].role = "assistant" => Assistants(ms, i) # {}
    BY DEF Assistants
  <2>3. Assistants(ms, i) # {} => Cardinality(Assistants(ms, i)) # 0
    BY <2>1, FS_EmptySet
  <2> QED
    BY <2>1, <2>2, <2>3
<1>3. compute_depths(ms) = [i \in 1 .. Len(ms) |->
            IF ms[i].role = "assistant" THEN Cardinality(Assistants(ms, i)) ELSE 0]
  BY <1>1 DEF compute_depths
<1> QED
  BY <1>2, <1>3

\* A bounded set of numbers that is not empty has a greatest one.
LEMMA LastNumber ==
    ASSUME NEW n \in Nat, NEW S \in SUBSET (1 .. n), S # {}
    PROVE  \E m \in S : \A k \in S : k <= m
<1> DEFINE R == {k \in 0 .. n : n - k \in S}
<1>1. R \in SUBSET Nat /\ R # {}
  <2>1. PICK k \in S : k \in 1 .. n
    OBVIOUS
  <2>2. n - k \in 0 .. n /\ n - (n - k) = k
    BY <2>1
  <2>3. n - k \in R
    BY <2>2
  <2>4. R \in SUBSET Nat
    OBVIOUS
  <2> QED
    BY <2>3, <2>4
<1>2. PICK m \in R : \A k \in R : m <= k
  <2> HIDE DEF R
  <2> QED
    BY <1>1, FirstNumber
<1>3. n - m \in S /\ m \in 0 .. n
  OBVIOUS
<1>4. ASSUME NEW k \in S PROVE k <= n - m
  <2>1. k \in 1 .. n /\ n - k \in 0 .. n /\ n - (n - k) = k
    OBVIOUS
  <2>2. n - k \in R
    BY <2>1
  <2>3. m <= n - k
    BY <1>2, <2>2
  <2> QED
    BY <1>3, <2>1, <2>3
<1> QED
  BY <1>3, <1>4

\* nearest_depth: the depth of the last assistant message before, or 0.
LEMMA NearestIs ==
    ASSUME NEW ms \in Seq(Message), NEW depths \in [1 .. Len(ms) -> Nat], NEW i \in 1 .. Len(ms)
    PROVE  \/ /\ \A j \in 1 .. (i - 1) : ms[j].role # "assistant"
              /\ nearest_depth(ms, depths, i) = 0
           \/ \E j \in 1 .. (i - 1) :
                 /\ ms[j].role = "assistant"
                 /\ \A k \in 1 .. (i - 1) : ms[k].role = "assistant" => k <= j
                 /\ nearest_depth(ms, depths, i) = depths[j]
<1> DEFINE before == {j \in 1 .. (i - 1) : ms[j].role = "assistant"}
<1>1. CASE before = {}
  BY <1>1 DEF nearest_depth
<1>2. CASE before # {}
  <2> DEFINE last == CHOOSE j \in before : \A k \in before : k <= j
  <2>1. nearest_depth(ms, depths, i) = depths[last]
    BY <1>2 DEF nearest_depth
  <2>2. i - 1 \in Nat /\ before \in SUBSET (1 .. (i - 1))
    OBVIOUS
  <2>3. \E j \in before : \A k \in before : k <= j
    <3> HIDE DEF before
    <3> QED
      BY <1>2, <2>2, LastNumber
  <2>4. last \in before /\ \A k \in before : k <= last
    <3> HIDE DEF before
    <3> QED
      BY <2>3
  <2> HIDE DEF last
  <2> QED
    BY <2>1, <2>4
<1> QED
  BY <1>1, <1>2

\* The depth that decides is a number.
LEMMA DepthType ==
    ASSUME NEW ms \in Seq(Message), NEW depths \in [1 .. Len(ms) -> Nat], NEW i \in 1 .. Len(ms)
    PROVE  Depth(ms, depths, i) \in Nat
<1>1. nearest_depth(ms, depths, i) \in Nat
  <2>1. CASE nearest_depth(ms, depths, i) = 0
    BY <2>1
  <2>2. CASE \E j \in 1 .. (i - 1) : nearest_depth(ms, depths, i) = depths[j]
    <3>1. PICK j \in 1 .. (i - 1) : nearest_depth(ms, depths, i) = depths[j]
      BY <2>2
    <3>2. j \in 1 .. Len(ms)
      OBVIOUS
    <3>3. depths[j] \in Nat
      BY <3>2
    <3> QED
      BY <3>1, <3>3
  <2> QED
    BY <2>1, <2>2, NearestIs
<1>2. depths[i] \in Nat
  OBVIOUS
<1> QED
  BY <1>1, <1>2 DEF Depth

\* What pruning makes of a message, as a function to fold over.
Pieces(ms, depths, hard) == [i \in 1 .. Len(ms) |-> PruneOne(ms, depths, hard, i)]

\* A message is pruned to one or none, and to none only if it is a stripped
\* result.
LEMMA PiecesType ==
    ASSUME NEW ms \in Seq(Message), NEW depths \in [1 .. Len(ms) -> Nat], NEW hard \in Nat
    PROVE  /\ Pieces(ms, depths, hard) \in [1 .. Len(ms) -> Seq(Pruned)]
           /\ \A i \in 1 .. Len(ms) :
                 /\ Len(Pieces(ms, depths, hard)[i]) <= 1
                 /\ Pieces(ms, depths, hard)[i] = Outcome(ms[i], Depth(ms, depths, i), hard)
                 /\ hard >= ProtectRecent =>
                       (Pieces(ms, depths, hard)[i] = <<>>
                            <=> ms[i].role = "tool" /\ nearest_depth(ms, depths, i) > hard)
<1>1. ASSUME NEW i \in 1 .. Len(ms)
      PROVE  /\ PruneOne(ms, depths, hard, i) \in Seq(Pruned)
             /\ Len(PruneOne(ms, depths, hard, i)) <= 1
             /\ PruneOne(ms, depths, hard, i) = Outcome(ms[i], Depth(ms, depths, i), hard)
             /\ hard >= ProtectRecent =>
                       (PruneOne(ms, depths, hard, i) = <<>>
                            <=> ms[i].role = "tool" /\ nearest_depth(ms, depths, i) > hard)
  <2>1. ms[i] \in Message /\ Depth(ms, depths, i) \in Nat
    BY DepthType
  <2>2. PruneOne(ms, depths, hard, i) = Outcome(ms[i], Depth(ms, depths, i), hard)
    BY PruneOneIs
  <2>3. ms[i].role = "tool" => Depth(ms, depths, i) = nearest_depth(ms, depths, i)
    BY DEF Depth
  <2> QED
    BY <2>1, <2>2, <2>3, OutcomeType
<1> QED
  BY <1>1 DEF Pieces

\* prune_range_with_depths is the rest of the pieces.
LEMMA RangeIsRest ==
    ASSUME NEW ms \in Seq(Message), NEW depths \in [1 .. Len(ms) -> Nat], NEW hard \in Nat,
           NEW e \in 0 .. Len(ms)
    PROVE  /\ prune_range_with_depths(ms, 0, depths, hard)
                  = FlattenSeq([i \in 1 .. e |-> PruneOne(ms, depths, hard, i)])
                    \o prune_range_with_depths(ms, e, depths, hard)
           /\ prune_range_with_depths(ms, e, depths, hard) \in Seq(Pruned)
           /\ FlattenSeq([i \in 1 .. e |-> PruneOne(ms, depths, hard, i)]) \in Seq(Pruned)
<1> DEFINE f == Pieces(ms, depths, hard)
           m == Len(ms) - e
<1>1. f \in [1 .. Len(ms) -> Seq(Pruned)]
  BY PiecesType
<1>2. e \in Nat /\ m \in Nat /\ e + m = Len(ms)
  OBVIOUS
<1>3. [i \in 1 .. e |-> f[i]] = [i \in 1 .. e |-> PruneOne(ms, depths, hard, i)]
  BY DEF Pieces
<1>4. [i \in 1 .. m |-> f[e + i]] = [i \in 1 .. m |-> PruneOne(ms, depths, hard, e + i)]
  BY <1>2 DEF Pieces
<1>5. f = [k \in 1 .. (Len(ms) - 0) |-> PruneOne(ms, depths, hard, 0 + k)]
  BY DEF Pieces
<1> HIDE DEF f, m
<1>6. FlattenSeq(f) = FlattenSeq([i \in 1 .. e |-> f[i]]) \o FlattenSeq([i \in 1 .. m |-> f[e + i]])
  <2>1. f \in [1 .. (e + m) -> Seq(Pruned)]
    BY <1>1, <1>2
  <2>2. Splits(f, e, m)
    BY <1>2, <2>1, FlatSplit
  <2> QED
    BY <2>2 DEF Splits
<1>7. [i \in 1 .. m |-> f[e + i]] \in [1 .. m -> Seq(Pruned)]
  <2>1. \A i \in 1 .. m : e + i \in 1 .. Len(ms)
    BY <1>2
  <2> QED
    BY <1>1, <2>1
<1>8. FlattenSeq([i \in 1 .. m |-> f[e + i]]) \in Seq(Pruned)
  <2>1. [i \in 1 .. m |-> f[e + i]] \in Seq(Seq(Pruned))
    BY <1>2, <1>7, FunctionIsSeq
  <2> QED
    BY <2>1, FlatType
<1>9. FlattenSeq([i \in 1 .. e |-> f[i]]) \in Seq(Pruned)
  <2>1. Len(ms) \in Nat
    OBVIOUS
  <2> QED
    BY <1>1, <2>1, FlatPieces
<1>10. prune_range_with_depths(ms, e, depths, hard) = FlattenSeq([i \in 1 .. m |-> f[e + i]])
  BY <1>4 DEF prune_range_with_depths, m
<1>11. prune_range_with_depths(ms, 0, depths, hard) = FlattenSeq(f)
  BY <1>5 DEF prune_range_with_depths
<1> QED
  BY <1>3, <1>6, <1>8, <1>9, <1>10, <1>11

\* Pruning is pruning the front and pruning the rest.
LEMMA PruneIs ==
    ASSUME NEW ms \in Seq(Message), NEW hard \in Nat, NEW e \in 0 .. Len(ms)
    PROVE  /\ prune(ms, hard)
                  = FlattenSeq([i \in 1 .. e |-> PruneOne(ms, compute_depths(ms), hard, i)])
                    \o prune_range_with_depths(ms, e, compute_depths(ms), hard)
           /\ prune_range_with_depths(ms, e, compute_depths(ms), hard) \in Seq(Pruned)
           /\ FlattenSeq([i \in 1 .. e |-> PruneOne(ms, compute_depths(ms), hard, i)])
                  \in Seq(Pruned)
<1>1. compute_depths(ms) \in [1 .. Len(ms) -> Nat]
  BY DepthsType
<1> QED
  BY <1>1, RangeIsRest DEF prune

\* The pruned list is a list of pruned messages.
LEMMA PruneType ==
    ASSUME NEW ms \in Seq(Message), NEW hard \in Nat
    PROVE  prune(ms, hard) \in Seq(Pruned)
<1>1. 0 \in 0 .. Len(ms)
  OBVIOUS
<1>2. ASSUME NEW p \in Seq(Pruned), NEW q \in Seq(Pruned) PROVE p \o q \in Seq(Pruned)
  OBVIOUS
<1> QED
  BY <1>1, <1>2, PruneIs

\* Every message of a list is one place deeper for each assistant message
\* that is added behind it.
LEMMA DepthsShift ==
    ASSUME NEW ms \in Seq(Message), NEW n \in 0 .. Len(ms), NEW i \in 1 .. n,
           ms[i].role = "assistant"
    PROVE  compute_depths(ms)[i] = compute_depths(SubSeq(ms, 1, n))[i]
                                   + Cardinality(Assistants(ms, n + 1))
<1> DEFINE old == SubSeq(ms, 1, n)
           A == Assistants(old, i)
           B == Assistants(ms, n + 1)
<1>1. old \in Seq(Message) /\ Len(old) = n /\ old[i] = ms[i]
      /\ \A j \in 1 .. n : old[j] = ms[j]
  OBVIOUS
<1>2. i \in 1 .. Len(ms) /\ i \in 1 .. Len(old) /\ n + 1 \in Nat /\ i \in Nat
  BY <1>1
<1>3. /\ compute_depths(ms)[i] = Cardinality(Assistants(ms, i))
      /\ compute_depths(old)[i] = Cardinality(A)
  <2> HIDE DEF old
  <2> QED
    BY <1>1, <1>2, DepthsType
<1>4. IsFiniteSet(A) /\ Cardinality(A) \in Nat /\ IsFiniteSet(B) /\ Cardinality(B) \in Nat
  <2> HIDE DEF old
  <2> QED
    BY <1>1, <1>2, AssistantsFinite
<1>5. Assistants(ms, i) = A \cup B
  <2> HIDE DEF old
  <2> QED
    BY <1>1, <1>2 DEF Assistants
<1>6. A \cap B = {}
  <2> HIDE DEF old
  <2> QED
    BY <1>1, <1>2 DEF Assistants
<1>7. Cardinality(A \cap B) = 0
  BY <1>6, FS_EmptySet
<1> HIDE DEF A, B
<1>8. Cardinality(A \cup B) = Cardinality(A) + Cardinality(B) - Cardinality(A \cap B)
  BY <1>4, FS_Union
<1>9. compute_depths(ms)[i] = compute_depths(old)[i] + Cardinality(B)
  <2> HIDE DEF old
  <2> QED
    BY <1>3, <1>4, <1>5, <1>7, <1>8
<1> QED
  BY <1>9 DEF B

\* In the frozen front every assistant message was stripped already.
LEMMA FrozenDepth ==
    ASSUME NEW ms \in Seq(Message), NEW depths \in [1 .. Len(ms) -> Nat],
           NEW n \in 0 .. Len(ms), NEW hard \in Nat
    PROVE  /\ freeze_end(ms, depths, n, hard) \in 0 .. n
           /\ \A j \in 1 .. freeze_end(ms, depths, n, hard) :
                 depths[j] > 0 => depths[j] > hard + Cardinality(Assistants(ms, n + 1))
<1> DEFINE threshold == hard + Cardinality(Assistants(ms, n + 1))
           active == {i \in 1 .. n : depths[i] > 0 /\ depths[i] <= threshold}
           first == CHOOSE i \in active : \A j \in active : i <= j
           e == freeze_end(ms, depths, n, hard)
<1>1. threshold \in Nat
  <2>1. n + 1 \in Nat
    OBVIOUS
  <2>2. Cardinality(Assistants(ms, n + 1)) \in Nat
    BY <2>1, AssistantsFinite
  <2> QED
    BY <2>2
<1>2. e = IF active = {} THEN n ELSE first - 1
  BY DEF freeze_end
<1>3. active # {} => first \in active /\ \A j \in active : first <= j
  <2>1. active \in SUBSET Nat
    OBVIOUS
  <2> HIDE DEF active
  <2>2. active # {} => \E i \in active : \A j \in active : i <= j
    BY <2>1, FirstNumber
  <2> QED
    BY <2>2
<1>4. e \in 0 .. n
  <2> HIDE DEF first, e, threshold
  <2> QED
    BY <1>2, <1>3
<1>5. ASSUME NEW j \in 1 .. e, depths[j] > 0 PROVE depths[j] > threshold
  <2> HIDE DEF e, threshold
  <2>1. j \in 1 .. n /\ j \in 1 .. Len(ms) /\ depths[j] \in Nat
    BY <1>4
  <2>2. j \notin active
    <3> SUFFICES ASSUME j \in active PROVE FALSE
      OBVIOUS
    <3>1. first \in 1 .. n /\ first <= j
      BY <1>3
    <3> HIDE DEF first, active
    <3>2. e = first - 1
      BY <1>2
    <3> QED
      BY <1>4, <3>1, <3>2
  <2> HIDE DEF first
  <2> QED
    BY <1>1, <1>5, <2>1, <2>2
<1> QED
  BY <1>4, <1>5

\* What the cache holds of the front is what pruning the whole list makes of
\* it.
LEMMA FrontSame ==
    ASSUME NEW ms \in Seq(Message), NEW n \in 0 .. Len(ms), NEW hard \in Nat,
           hard >= ProtectRecent,
           NEW k \in 1 .. freeze_end(ms, compute_depths(ms), n, hard)
    PROVE  PruneOne(ms, compute_depths(ms), hard, k)
               = PruneOne(SubSeq(ms, 1, n), compute_depths(SubSeq(ms, 1, n)), hard, k)
<1> DEFINE old == SubSeq(ms, 1, n)
           D == compute_depths(ms)
           d == compute_depths(old)
           more == Cardinality(Assistants(ms, n + 1))
           e == freeze_end(ms, D, n, hard)
<1>1. old \in Seq(Message) /\ Len(old) = n /\ (\A j \in 1 .. n : old[j] = ms[j]) /\ n \in Nat
  OBVIOUS
<1>2. D \in [1 .. Len(ms) -> Nat] /\ d \in [1 .. n -> Nat] /\ more \in Nat
  <2> HIDE DEF old
  <2>1. n + 1 \in Nat
    OBVIOUS
  <2> QED
    BY <1>1, <2>1, DepthsType, AssistantsFinite
<1>3. e \in 0 .. n /\ \A j \in 1 .. e : D[j] > 0 => D[j] > hard + more
  <2> HIDE DEF D
  <2> QED
    BY <1>2, FrozenDepth
<1>4. \A j \in 1 .. n : ms[j].role = "assistant" => D[j] = d[j] + more
  BY DepthsShift
<1>5. \A j \in 1 .. n : ms[j].role = "assistant" => D[j] > 0
  BY DepthsType
<1> HIDE DEF old, D, d, more, e
<1>6. k \in 1 .. n /\ k \in 1 .. Len(ms) /\ k \in 1 .. Len(old) /\ k \in 1 .. e
  BY <1>1, <1>3 DEF D, e
<1>7. ASSUME NEW j \in 1 .. e, ms[j].role = "assistant"
      PROVE  D[j] > hard /\ d[j] > hard /\ D[j] \in Nat /\ d[j] \in Nat
  <2>1. j \in 1 .. n /\ j \in 1 .. Len(ms)
    BY <1>3
  <2>2. D[j] \in Nat /\ d[j] \in Nat /\ D[j] = d[j] + more /\ D[j] > hard + more
    BY <1>2, <1>3, <1>4, <1>5, <1>7, <2>1
  <2> QED
    BY <1>2, <2>2
<1>8. Depth(ms, D, k) \in Nat /\ Depth(old, d, k) \in Nat
  BY <1>1, <1>2, <1>6, DepthType
<1>9. CASE ms[k].role = "assistant"
  <2>1. Depth(ms, D, k) = D[k] /\ Depth(old, d, k) = d[k]
    BY <1>1, <1>6, <1>9 DEF Depth
  <2>2. Depth(ms, D, k) > hard /\ Depth(old, d, k) > hard
    BY <1>6, <1>7, <1>9, <2>1
  <2>3. Outcome(ms[k], Depth(ms, D, k), hard) = Outcome(ms[k], Depth(old, d, k), hard)
    BY <1>6, <1>8, <2>2, OutcomeSame
  <2> QED
    BY <1>1, <1>6, <2>3, PruneOneIs DEF D, d, old
<1>10. CASE ms[k].role = "tool"
  <2>1. Depth(ms, D, k) = nearest_depth(ms, D, k) /\ Depth(old, d, k) = nearest_depth(old, d, k)
    BY <1>1, <1>6, <1>10 DEF Depth
  <2>2. nearest_depth(ms, D, k) = nearest_depth(old, d, k)
        \/ (nearest_depth(ms, D, k) > hard /\ nearest_depth(old, d, k) > hard)
    <3>1. \/ /\ \A j \in 1 .. (k - 1) : ms[j].role # "assistant"
             /\ nearest_depth(ms, D, k) = 0
          \/ \E j \in 1 .. (k - 1) : ms[j].role = "assistant" /\ nearest_depth(ms, D, k) = D[j]
      BY <1>2, <1>6, NearestIs
    <3>2. \/ /\ \A j \in 1 .. (k - 1) : old[j].role # "assistant"
             /\ nearest_depth(old, d, k) = 0
          \/ \E j \in 1 .. (k - 1) : old[j].role = "assistant" /\ nearest_depth(old, d, k) = d[j]
      BY <1>1, <1>2, <1>6, NearestIs
    <3>3. \A j \in 1 .. (k - 1) : j \in 1 .. e /\ old[j] = ms[j]
      BY <1>1, <1>3, <1>6
    <3> QED
      BY <1>7, <3>1, <3>2, <3>3
  <2>3. Outcome(ms[k], Depth(ms, D, k), hard) = Outcome(ms[k], Depth(old, d, k), hard)
    <3>1. ms[k] \in Message
      BY <1>6
    <3> QED
      BY <1>8, <2>1, <2>2, <3>1, OutcomeSame
  <2> QED
    BY <1>1, <1>6, <2>3, PruneOneIs DEF D, d, old
<1>11. CASE ms[k].role \notin {"tool", "assistant"}
  <2>1. Outcome(ms[k], Depth(ms, D, k), hard) = Outcome(ms[k], Depth(old, d, k), hard)
    BY <1>11 DEF Outcome
  <2> QED
    BY <1>1, <1>6, <2>1, PruneOneIs DEF D, d, old
<1> QED
  BY <1>9, <1>10, <1>11

\* The front of what the cache holds is that of the pruned list.
LEMMA FrontKept ==
    ASSUME NEW ms \in Seq(Message), NEW n \in 0 .. Len(ms), NEW hard \in Nat,
           hard >= ProtectRecent
    PROVE  incremental(ms, prune(SubSeq(ms, 1, n), hard), n, hard) = prune(ms, hard)
<1> DEFINE old == SubSeq(ms, 1, n)
           D == compute_depths(ms)
           d == compute_depths(old)
           e == freeze_end(ms, D, n, hard)
           f == [i \in 1 .. e |-> PruneOne(ms, D, hard, i)]
           g == [i \in 1 .. e |-> PruneOne(old, d, hard, i)]
           stripped == {i \in 1 .. e : ms[i].role = "tool" /\ nearest_depth(ms, D, i) > hard}
           rest == prune_range_with_depths(ms, e, D, hard)
           back == prune_range_with_depths(old, e, d, hard)
<1>1. old \in Seq(Message) /\ Len(old) = n /\ n \in Nat
  OBVIOUS
<1>2. D \in [1 .. Len(ms) -> Nat]
  BY DepthsType
<1>3. e \in 0 .. n /\ e \in Nat /\ e \in 0 .. Len(ms)
  <2>1. e \in 0 .. n
    <3> HIDE DEF D
    <3> QED
      BY <1>2, FrozenDepth
  <2> HIDE DEF e
  <2> QED
    BY <2>1
<1>4. f = g
  BY FrontSame
<1>5. /\ f \in [1 .. e -> Seq(Pruned)]
      /\ \A i \in 1 .. e : Len(f[i]) <= 1
      /\ \A i \in 1 .. e : f[i] = <<>> <=> i \in stripped
  <2> HIDE DEF D, e
  <2>1. \A i \in 1 .. e : i \in 1 .. Len(ms)
    BY <1>3
  <2>2. \A i \in 1 .. e : f[i] = Pieces(ms, D, hard)[i]
    BY <2>1 DEF Pieces
  <2>3. \A i \in 1 .. Len(ms) :
          /\ Pieces(ms, D, hard)[i] \in Seq(Pruned)
          /\ Len(Pieces(ms, D, hard)[i]) <= 1
          /\ Pieces(ms, D, hard)[i] = <<>>
                <=> ms[i].role = "tool" /\ nearest_depth(ms, D, i) > hard
    BY <1>2, PiecesType
  <2>4. \A i \in 1 .. e : f[i] \in Seq(Pruned) /\ Len(f[i]) <= 1
    BY <2>1, <2>2, <2>3
  <2>5. \A i \in 1 .. e : f[i] = <<>> <=> i \in stripped
    BY <2>1, <2>2, <2>3
  <2>6. f = [i \in 1 .. e |-> f[i]]
    OBVIOUS
  <2> HIDE DEF f
  <2> QED
    BY <2>4, <2>5, <2>6
<1>6. prune(ms, hard) = FlattenSeq(f) \o rest /\ FlattenSeq(f) \in Seq(Pruned)
  <2> HIDE DEF D, e
  <2> QED
    BY <1>3, PruneIs DEF D
<1>7. prune(old, hard) = FlattenSeq(g) \o back /\ back \in Seq(Pruned)
  <2> HIDE DEF D, e, old
  <2> QED
    BY <1>1, <1>3, PruneIs
<1>8. Len(FlattenSeq(f)) = e - Cardinality(stripped)
  <2>1. {i \in 1 .. e : f[i] = <<>>} = stripped
    <3> HIDE DEF f, e
    <3> QED
      BY <1>5
  <2> HIDE DEF f, e, stripped
  <2>2. e \in Nat /\ f \in [1 .. e -> Seq(Pruned)]
    BY <1>3, <1>5
  <2>3. \A i \in 1 .. e : Len(f[i]) <= 1
    BY <1>5
  <2>4. Len(FlattenSeq(f)) = e - Cardinality({i \in 1 .. e : f[i] = <<>>})
    BY <2>2, <2>3, FlatLength
  <2> QED
    BY <2>1, <2>4
<1>9. incremental(ms, prune(old, hard), n, hard)
        = SubSeq(prune(old, hard), 1, e - Cardinality(stripped)) \o rest
  BY DEF incremental
<1>10. SubSeq(prune(old, hard), 1, e - Cardinality(stripped)) = FlattenSeq(f)
  <2>1. ASSUME NEW p \in Seq(Pruned), NEW q \in Seq(Pruned)
        PROVE  SubSeq(p \o q, 1, Len(p)) = p
    BY SubSeqOfConcat1
  <2> HIDE DEF f, g, e, stripped, back, old
  <2> QED
    BY <1>4, <1>6, <1>7, <1>8, <2>1
<1> QED
  BY <1>6, <1>9, <1>10

-----------------------------------------------------------------------------
(* The cache of the pruned messages.                                       *)

HistoryTypeOK ==
    /\ messages_ \in Seq(Message)
    /\ prune_dirty_ \in BOOLEAN
    /\ last_pruned_msg_count_ \in 0 .. Len(messages_)
    /\ hard_prune_after \in Nat

\* What the cache holds was made from the front of the messages that is there
\* still.
CacheExact ==
    /\ ~prune_dirty_ => last_pruned_msg_count_ = Len(messages_)
    /\ (last_pruned_msg_count_ > 0 \/ ~prune_dirty_) /\ hard_prune_after >= ProtectRecent
          => pruned_messages_
                 = prune(SubSeq(messages_, 1, last_pruned_msg_count_), hard_prune_after)

HistoryInv == HistoryTypeOK /\ CacheExact

\* pruned_messages() is the pruned list, however it gets there.
LEMMA PrunedListExact ==
    ASSUME HistoryInv, NEW new \in Seq(Message), NEW ms, ms = messages_ \o new,
           NEW dirty \in BOOLEAN, prune_dirty_ \/ new # <<>> => dirty,
           hard_prune_after >= ProtectRecent
    PROVE  PrunedList(ms, dirty) = prune(ms, hard_prune_after)
<1> DEFINE prev == last_pruned_msg_count_
           hard == hard_prune_after
<1>1. /\ ms \in Seq(Message) /\ prev \in 0 .. Len(ms) /\ hard \in Nat
      /\ SubSeq(ms, 1, prev) = SubSeq(messages_, 1, prev)
      /\ new = <<>> => ms = messages_
  <2>1. messages_ \in Seq(Message) /\ prev \in 0 .. Len(messages_)
    BY DEF HistoryInv, HistoryTypeOK
  <2>2. ASSUME NEW a \in Seq(Message), NEW k \in 0 .. Len(a)
        PROVE  /\ a \o new \in Seq(Message) /\ k \in 0 .. Len(a \o new)
               /\ SubSeq(a \o new, 1, k) = SubSeq(a, 1, k)
               /\ new = <<>> => a \o new = a
    OBVIOUS
  <2> QED
    BY <2>1, <2>2 DEF HistoryInv, HistoryTypeOK
<1>2. CASE ~dirty
  <2>1. ms = messages_ /\ ~prune_dirty_
    BY <1>1, <1>2
  <2>2. prev = Len(messages_) /\ pruned_messages_ = prune(SubSeq(messages_, 1, prev), hard)
    BY <2>1 DEF HistoryInv, CacheExact
  <2>3. SubSeq(messages_, 1, Len(messages_)) = messages_
    BY DEF HistoryInv, HistoryTypeOK
  <2>4. PrunedList(ms, dirty) = pruned_messages_
    BY <1>2 DEF PrunedList
  <2> QED
    BY <2>1, <2>2, <2>3, <2>4
<1>3. CASE dirty
  <2> DEFINE frozen == IF prev > 0 /\ prev <= Len(ms) /\ pruned_messages_ # <<>>
                       THEN freeze_end(ms, compute_depths(ms), prev, hard)
                       ELSE 0
  <2>1. PrunedList(ms, dirty) = IF frozen > 0 THEN incremental(ms, pruned_messages_, prev, hard)
                                ELSE prune(ms, hard)
    BY <1>3 DEF PrunedList
  <2>2. frozen > 0 => prev > 0
    OBVIOUS
  <2>3. prev > 0 => pruned_messages_ = prune(SubSeq(ms, 1, prev), hard)
    BY <1>1 DEF HistoryInv, CacheExact
  <2>4. incremental(ms, prune(SubSeq(ms, 1, prev), hard), prev, hard) = prune(ms, hard)
    BY <1>1, FrontKept
  <2> HIDE DEF frozen
  <2> QED
    BY <2>1, <2>2, <2>3, <2>4
<1> QED
  BY <1>2, <1>3

\* add_message leaves a cache of the front.
LEMMA AddKeeps ==
    ASSUME HistoryInv, NEW new \in Seq(Message), AddMessages(new)
    PROVE  HistoryInv'
<1>1. ASSUME NEW a \in Seq(Message), NEW k \in 0 .. Len(a)
      PROVE  /\ a \o new \in Seq(Message) /\ k \in 0 .. Len(a \o new)
             /\ SubSeq(a \o new, 1, k) = SubSeq(a, 1, k)
  OBVIOUS
<1>2. /\ messages_' \in Seq(Message) /\ last_pruned_msg_count_ \in 0 .. Len(messages_')
      /\ SubSeq(messages_', 1, last_pruned_msg_count_)
             = SubSeq(messages_, 1, last_pruned_msg_count_)
  BY <1>1 DEF HistoryInv, HistoryTypeOK, AddMessages
<1>3. /\ prune_dirty_' = TRUE /\ pruned_messages_' = pruned_messages_
      /\ last_pruned_msg_count_' = last_pruned_msg_count_ /\ hard_prune_after' = hard_prune_after
  BY DEF AddMessages
<1>4. HistoryTypeOK'
  BY <1>2, <1>3 DEF HistoryInv, HistoryTypeOK
<1>5. CacheExact'
  BY <1>2, <1>3 DEF HistoryInv, CacheExact
<1> QED
  BY <1>4, <1>5 DEF HistoryInv

\* pruned_messages leaves an exact cache.
LEMMA PruneWithKeeps ==
    ASSUME HistoryInv, NEW new \in Seq(Message), NEW ms, ms = messages_ \o new, PruneWith(ms)
    PROVE  HistoryInv' /\ ~prune_dirty_'
<1> DEFINE dirty == prune_dirty_ \/ ms # messages_
<1>1. ms \in Seq(Message) /\ (new # <<>> => ms # messages_) /\ SubSeq(ms, 1, Len(ms)) = ms
      /\ Len(ms) \in 0 .. Len(ms)
  <2>1. ASSUME NEW a \in Seq(Message)
        PROVE  /\ a \o new \in Seq(Message) /\ (new # <<>> => a \o new # a)
               /\ SubSeq(a, 1, Len(a)) = a /\ Len(a) \in 0 .. Len(a)
    OBVIOUS
  <2> QED
    BY <2>1 DEF HistoryInv, HistoryTypeOK
<1>2. dirty \in BOOLEAN /\ (prune_dirty_ \/ new # <<>> => dirty)
  BY <1>1
<1> HIDE DEF dirty
<1>3. hard_prune_after >= ProtectRecent => PrunedList(ms, dirty) = prune(ms, hard_prune_after)
  BY <1>2, PrunedListExact
<1>4. /\ messages_' = ms /\ pruned_messages_' = PrunedList(ms, dirty)
      /\ prune_dirty_' = FALSE /\ last_pruned_msg_count_' = Len(ms)
      /\ hard_prune_after' = hard_prune_after
  BY DEF PruneWith, dirty
<1>5. HistoryTypeOK'
  BY <1>1, <1>4 DEF HistoryInv, HistoryTypeOK
<1>6. CacheExact'
  BY <1>1, <1>3, <1>4 DEF CacheExact
<1> QED
  BY <1>4, <1>5, <1>6 DEF HistoryInv

\* After invalidate_all_cache there is no cache to be wrong.
LEMMA ReplaceKeeps ==
    ASSUME NEW ms \in Seq(Message), NEW hard \in Nat, Replace(ms, hard)
    PROVE  HistoryInv'
<1>1. /\ messages_' = ms /\ hard_prune_after' = hard /\ prune_dirty_' = TRUE
      /\ last_pruned_msg_count_' = 0
  BY DEF Replace
<1>2. 0 \in 0 .. Len(ms)
  OBVIOUS
<1> QED
  BY <1>1, <1>2 DEF HistoryInv, HistoryTypeOK, CacheExact

\* After force_compact the cache is a full pruning.
LEMMA ReplaceAndPruneKeeps ==
    ASSUME NEW ms \in Seq(Message), NEW hard \in Nat, ReplaceAndPrune(ms, hard)
    PROVE  HistoryInv'
<1>1. /\ messages_' = ms /\ hard_prune_after' = hard /\ prune_dirty_' = FALSE
      /\ last_pruned_msg_count_' = Len(ms) /\ pruned_messages_' = prune(ms, hard)
  BY DEF ReplaceAndPrune
<1>2. SubSeq(ms, 1, Len(ms)) = ms /\ Len(ms) \in 0 .. Len(ms)
  OBVIOUS
<1> QED
  BY <1>1, <1>2 DEF HistoryInv, HistoryTypeOK, CacheExact

\* A clean cache is the pruning of the whole list.
LEMMA CacheIsExact ==
    ASSUME HistoryInv
    PROVE  PruneExact
<1>1. SubSeq(messages_, 1, Len(messages_)) = messages_
  BY DEF HistoryInv, HistoryTypeOK
<1> QED
  BY <1>1 DEF HistoryInv, CacheExact, PruneExact

-----------------------------------------------------------------------------
(* Lists of messages.                                                      *)

\* Induction over lists, message by message.
LEMMA ByAppend ==
    ASSUME NEW T, NEW S, <<>> \in S,
           \A s \in Seq(T) : \A x \in T : s \in S => Append(s, x) \in S
    PROVE  \A s \in Seq(T) : s \in S
<1> SUFFICES ASSUME NEW s \in Seq(T) PROVE s \in S
  OBVIOUS
<1> DEFINE n == Len(s)
           R == {k \in 0 .. n : SubSeq(s, 1, k) \in S}
<1>1. n \in Nat /\ SubSeq(s, 1, n) = s /\ SubSeq(s, 1, 0) = <<>>
  OBVIOUS
<1>2. 0 \in R
  <2>1. 0 \in 0 .. n
    BY <1>1
  <2>2. SubSeq(s, 1, 0) \in S
    BY <1>1, Zenon
  <2> HIDE DEF n
  <2> QED
    BY <2>1, <2>2
<1>3. \A k \in 0 .. n : k > 0 /\ k - 1 \in R => k \in R
  <2> SUFFICES ASSUME NEW k \in 0 .. n, k > 0, k - 1 \in R PROVE SubSeq(s, 1, k) \in S
    OBVIOUS
  <2>1. /\ SubSeq(s, 1, k - 1) \in Seq(T) /\ s[k] \in T
        /\ SubSeq(s, 1, k) = Append(SubSeq(s, 1, k - 1), s[k])
    OBVIOUS
  <2> QED
    BY <2>1
<1>4. \A k \in 0 .. n : k \in R
  <2> HIDE DEF R, n
  <2> QED
    BY <1>1, <1>2, <1>3, UpTo
<1>5. n \in R
  BY <1>1, <1>4
<1> QED
  BY <1>1, <1>5

\* Pick: what is picked is in U if it is there.
LEMMA PickType ==
    ASSUME NEW U, NEW n \in Nat, NEW s, DOMAIN s = 1 .. n, NEW S,
           \A i \in 1 .. n : i \in S => s[i] \in U
    PROVE  Pick(s, S) \in Seq(U)
<1> DEFINE f == [i \in DOMAIN s |-> IF i \in S THEN <<s[i]>> ELSE <<>>]
<1>1. \A i \in 1 .. n : (IF i \in S THEN <<s[i]>> ELSE <<>>) \in Seq(U)
  OBVIOUS
<1>2. f \in [1 .. n -> Seq(U)]
  BY <1>1
<1>3. f \in Seq(Seq(U))
  <2> HIDE DEF f
  <2> QED
    BY <1>2, FunctionIsSeq
<1> HIDE DEF f
<1>4. FlattenSeq(f) \in Seq(U)
  BY <1>3, FlatType
<1> QED
  BY <1>4 DEF Pick, f

\* Without leaves messages, none of them of that role.
LEMMA WithoutType ==
    ASSUME NEW ms \in Seq(Message), NEW role
    PROVE  /\ Without(ms, role) \in Seq(Message)
           /\ Without(ms, role) \in Seq({m \in Message : m.role # role})
<1>1. Len(ms) \in Nat /\ DOMAIN ms = 1 .. Len(ms)
  OBVIOUS
<1> DEFINE S == {i \in DOMAIN ms : ms[i].role # role}
<1>2. \A i \in 1 .. Len(ms) : i \in S => ms[i] \in Message /\ ms[i].role # role
  OBVIOUS
<1> HIDE DEF S
<1>3. Pick(ms, S) \in Seq(Message)
  BY <1>1, <1>2, PickType
<1>4. Pick(ms, S) \in Seq({m \in Message : m.role # role})
  <2>1. \A i \in 1 .. Len(ms) : i \in S => ms[i] \in {m \in Message : m.role # role}
    BY <1>2
  <2> QED
    BY <1>1, <2>1, PickType
<1> QED
  BY <1>3, <1>4 DEF Without, S

WithoutJoins(a, b, c, role) == Without(c, role) = Without(a, role) \o Without(b, role)

\* Without of two lists, one behind the other.
LEMMA WithoutConcat ==
    ASSUME NEW a \in Seq(Message), NEW b \in Seq(Message), NEW c, c = a \o b, NEW role
    PROVE  WithoutJoins(a, b, c, role)
<1> DEFINE piece(m) == IF m.role # role THEN <<m>> ELSE <<>>
           f == [i \in 1 .. (Len(a) + Len(b)) |-> piece(c[i])]
<1>1. ASSUME NEW s \in Seq(Message)
      PROVE  Without(s, role) = FlattenSeq([i \in 1 .. Len(s) |-> piece(s[i])])
  <2>1. DOMAIN s = 1 .. Len(s)
    OBVIOUS
  <2>2. [i \in DOMAIN s |-> IF i \in {j \in DOMAIN s : s[j].role # role} THEN <<s[i]>> ELSE <<>>]
          = [i \in 1 .. Len(s) |-> piece(s[i])]
    BY <2>1
  <2> HIDE DEF piece
  <2> QED
    BY <2>2 DEF Without, Pick
<1>2. /\ c \in Seq(Message) /\ Len(c) = Len(a) + Len(b) /\ Len(a) \in Nat /\ Len(b) \in Nat
      /\ \A i \in 1 .. Len(a) : c[i] = a[i]
      /\ \A i \in 1 .. Len(b) : c[Len(a) + i] = b[i]
  OBVIOUS
<1>3. \A m \in Message : piece(m) \in Seq(Message)
  OBVIOUS
<1> HIDE DEF piece
<1>4. f \in [1 .. (Len(a) + Len(b)) -> Seq(Message)]
  BY <1>2, <1>3
<1>5. /\ [i \in 1 .. Len(a) |-> f[i]] = [i \in 1 .. Len(a) |-> piece(a[i])]
      /\ [i \in 1 .. Len(b) |-> f[Len(a) + i]] = [i \in 1 .. Len(b) |-> piece(b[i])]
  BY <1>2
<1>6. FlattenSeq(f) = Without(c, role)
  BY <1>1, <1>2
<1> HIDE DEF f
<1>7. Splits(f, Len(a), Len(b))
  BY <1>2, <1>4, FlatSplit
<1>8. FlattenSeq(f) = FlattenSeq([i \in 1 .. Len(a) |-> piece(a[i])])
                      \o FlattenSeq([i \in 1 .. Len(b) |-> piece(b[i])])
  BY <1>5, <1>7 DEF Splits
<1> QED
  BY <1>1, <1>6, <1>8 DEF WithoutJoins

\* Without of a list of one message.
LEMMA WithoutOne ==
    ASSUME NEW m \in Message, NEW role
    PROVE  Without(<<m>>, role) = IF m.role # role THEN <<m>> ELSE <<>>
<1> DEFINE x == IF m.role # role THEN <<m>> ELSE <<>>
           S == {i \in DOMAIN <<m>> : <<m>>[i].role # role}
           f == [i \in DOMAIN <<m>> |-> IF i \in S THEN <<(<<m>>)[i]>> ELSE <<>>]
<1>1. x \in Seq(Message)
  OBVIOUS
<1>2. f = Append(<<>>, x)
  OBVIOUS
<1>3. Without(<<m>>, role) = FlattenSeq(f)
  BY DEF Without, Pick
<1> HIDE DEF x, f
<1>4. <<>> \in Seq(Seq(Message)) /\ <<>> \o x = x
  BY <1>1
<1>5. FlattenSeq(f) = FlattenSeq(<<>>) \o x
  BY <1>1, <1>2, <1>4, FlatAppend
<1>6. FlattenSeq(f) = x
  BY <1>4, <1>5, FlatEmpty
<1> QED
  BY <1>3, <1>6 DEF x

-----------------------------------------------------------------------------
(* What is to survive a restart.                                           *)

\* Visible, message by message, for any set of hidden calls.
Shown(m, hid) ==
    LET k == [m EXCEPT !.calls = @ \ hid]
    IN  IF \/ k.role = "system"
           \/ k.role = "user" /\ ~k.text
           \/ k.role = "tool" /\ k.calls = {}
           \/ k.role = "assistant" /\ k.calls = {} /\ ~k.text
        THEN <<>> ELSE <<k>>

VisibleLess(ms, hid) == FlattenSeq([i \in 1 .. Len(ms) |-> Shown(ms[i], hid)])

\* Visible is VisibleLess for the calls that were blocked.
LEMMA VisibleIs ==
    ASSUME NEW ms \in Seq(Message)
    PROVE  Visible(ms) = VisibleLess(ms, hidden)
<1>1. DOMAIN ms = 1 .. Len(ms)
  OBVIOUS
<1> QED
  BY <1>1 DEF Visible, VisibleLess, Shown

\* A message shows as a message or not at all.
LEMMA ShownType ==
    ASSUME NEW m \in Message, NEW hid
    PROVE  Shown(m, hid) \in Seq(Message)
<1>1. [m EXCEPT !.calls = @ \ hid] \in Message
  BY DEF Message
<1> QED
  BY <1>1 DEF Shown

VisibleJoins(a, b, c, hid) ==
    VisibleLess(c, hid) = VisibleLess(a, hid) \o VisibleLess(b, hid)

\* What is visible of two lists, one behind the other.
LEMMA VisibleConcat ==
    ASSUME NEW a \in Seq(Message), NEW b \in Seq(Message), NEW c, c = a \o b, NEW hid
    PROVE  VisibleJoins(a, b, c, hid)
<1> DEFINE f == [i \in 1 .. (Len(a) + Len(b)) |-> Shown(c[i], hid)]
<1>1. /\ c \in Seq(Message) /\ Len(c) = Len(a) + Len(b) /\ Len(a) \in Nat /\ Len(b) \in Nat
      /\ \A i \in 1 .. Len(a) : c[i] = a[i]
      /\ \A i \in 1 .. Len(b) : c[Len(a) + i] = b[i]
  OBVIOUS
<1>2. f \in [1 .. (Len(a) + Len(b)) -> Seq(Message)]
  BY <1>1, ShownType
<1>3. /\ [i \in 1 .. Len(a) |-> f[i]] = [i \in 1 .. Len(a) |-> Shown(a[i], hid)]
      /\ [i \in 1 .. Len(b) |-> f[Len(a) + i]] = [i \in 1 .. Len(b) |-> Shown(b[i], hid)]
  BY <1>1
<1>4. FlattenSeq(f) = VisibleLess(c, hid)
  BY <1>1 DEF VisibleLess
<1> HIDE DEF f
<1>5. Splits(f, Len(a), Len(b))
  BY <1>1, <1>2, FlatSplit
<1>6. FlattenSeq(f) = FlattenSeq([i \in 1 .. Len(a) |-> Shown(a[i], hid)])
                      \o FlattenSeq([i \in 1 .. Len(b) |-> Shown(b[i], hid)])
  BY <1>3, <1>5 DEF Splits
<1>7. VisibleLess(c, hid) = VisibleLess(a, hid) \o VisibleLess(b, hid)
  BY <1>4, <1>6 DEF VisibleLess
<1> QED
  BY <1>7 DEF VisibleJoins

\* What is visible is a list of messages.
LEMMA VisibleType ==
    ASSUME NEW ms \in Seq(Message), NEW hid
    PROVE  VisibleLess(ms, hid) \in Seq(Message)
<1> DEFINE f == [i \in 1 .. Len(ms) |-> Shown(ms[i], hid)]
<1>1. f \in [1 .. Len(ms) -> Seq(Message)] /\ Len(ms) \in Nat
  BY ShownType
<1> HIDE DEF f
<1>2. f \in Seq(Seq(Message))
  BY <1>1, FunctionIsSeq
<1> QED
  BY <1>2, FlatType DEF VisibleLess, f

\* Of an empty list nothing is visible.
LEMMA VisibleEmpty == ASSUME NEW hid PROVE VisibleLess(<<>>, hid) = <<>>
<1>1. [i \in 1 .. Len(<<>>) |-> Shown(<<>>[i], hid)] = <<>>
  OBVIOUS
<1> QED
  BY <1>1, FlatEmpty DEF VisibleLess

\* What is visible of a list of one message.
LEMMA VisibleOne ==
    ASSUME NEW m \in Message, NEW hid
    PROVE  VisibleLess(<<m>>, hid) = Shown(m, hid)
<1> DEFINE x == Shown(m, hid)
           f == [i \in 1 .. Len(<<m>>) |-> Shown(<<m>>[i], hid)]
<1>1. x \in Seq(Message)
  BY ShownType
<1>2. f = Append(<<>>, x)
  OBVIOUS
<1>3. VisibleLess(<<m>>, hid) = FlattenSeq(f)
  BY DEF VisibleLess
<1> HIDE DEF x, f
<1>4. <<>> \in Seq(Seq(Message)) /\ <<>> \o x = x
  BY <1>1
<1>5. FlattenSeq(f) = FlattenSeq(<<>>) \o x
  BY <1>1, <1>2, <1>4, FlatAppend
<1>6. FlattenSeq(f) = x
  BY <1>4, <1>5, FlatEmpty
<1> QED
  BY <1>3, <1>6 DEF x

\* Only hidden calls that occur matter.
LEMMA VisibleSame ==
    ASSUME NEW ms \in Seq(Message), NEW h, NEW k,
           \A i \in 1 .. Len(ms) : ms[i].calls \ h = ms[i].calls \ k
    PROVE  VisibleLess(ms, h) = VisibleLess(ms, k)
<1>1. \A i \in 1 .. Len(ms) : Shown(ms[i], h) = Shown(ms[i], k)
  <2> SUFFICES ASSUME NEW i \in 1 .. Len(ms) PROVE Shown(ms[i], h) = Shown(ms[i], k)
    OBVIOUS
  <2>1. ms[i] \in Message /\ ms[i].calls \ h = ms[i].calls \ k
    OBVIOUS
  <2>2. [ms[i] EXCEPT !.calls = @ \ h] = [ms[i] EXCEPT !.calls = @ \ k]
    BY <2>1 DEF Message
  <2> QED
    BY <2>2 DEF Shown
<1> QED
  BY <1>1 DEF VisibleLess

\* Nothing to hide.
LEMMA VisibleAll ==
    ASSUME NEW ms \in Seq(Message), NEW hid,
           \A i \in 1 .. Len(ms) : Shown(ms[i], hid) = <<ms[i]>>
    PROVE  VisibleLess(ms, hid) = ms
<1> DEFINE f == [i \in 1 .. Len(ms) |-> Shown(ms[i], hid)]
<1>1. f \in [1 .. Len(ms) -> Seq(Message)]
  BY ShownType
<1>2. \A i \in 1 .. Len(ms) : f[i] = <<ms[i]>>
  OBVIOUS
<1> HIDE DEF f
<1>3. FlattenSeq(f) = ms
  BY <1>1, <1>2, FlatSingle
<1> QED
  BY <1>3 DEF VisibleLess, f

\* Nothing is visible if no message is.
LEMMA VisibleNone ==
    ASSUME NEW ms \in Seq(Message), NEW hid,
           \A i \in 1 .. Len(ms) : Shown(ms[i], hid) = <<>>
    PROVE  VisibleLess(ms, hid) = <<>>
<1> DEFINE S == {k \in 0 .. Len(ms) : VisibleLess(SubSeq(ms, 1, k), hid) = <<>>}
<1>1. 0 \in S
  <2>1. SubSeq(ms, 1, 0) = <<>> /\ 0 \in 0 .. Len(ms)
    OBVIOUS
  <2> QED
    BY <2>1, VisibleEmpty
<1>2. \A k \in 0 .. Len(ms) : k > 0 /\ k - 1 \in S => k \in S
  <2> SUFFICES ASSUME NEW k \in 0 .. Len(ms), k > 0, k - 1 \in S
               PROVE  VisibleLess(SubSeq(ms, 1, k), hid) = <<>>
    OBVIOUS
  <2> DEFINE a == SubSeq(ms, 1, k - 1)
  <2>1. /\ a \in Seq(Message) /\ ms[k] \in Message /\ <<ms[k]>> \in Seq(Message)
        /\ SubSeq(ms, 1, k) = a \o <<ms[k]>> /\ k \in 1 .. Len(ms)
    OBVIOUS
  <2>2. VisibleLess(a, hid) = <<>>
    OBVIOUS
  <2>3. VisibleLess(<<ms[k]>>, hid) = <<>>
    BY <2>1, VisibleOne
  <2> HIDE DEF a
  <2>4. VisibleJoins(a, <<ms[k]>>, SubSeq(ms, 1, k), hid)
    BY <2>1, VisibleConcat
  <2>5. VisibleLess(SubSeq(ms, 1, k), hid) = <<>> \o <<>>
    BY <2>2, <2>3, <2>4 DEF VisibleJoins
  <2> QED
    BY <2>5
<1>3. Len(ms) \in Nat /\ SubSeq(ms, 1, Len(ms)) = ms
  OBVIOUS
<1>4. \A k \in 0 .. Len(ms) : k \in S
  <2> HIDE DEF S
  <2> QED
    BY <1>1, <1>2, <1>3, UpTo
<1>5. Len(ms) \in S
  BY <1>3, <1>4
<1> QED
  BY <1>3, <1>5

\* The system prompt is not among what is to survive.
LEMMA VisibleWithout ==
    ASSUME NEW ms \in Seq(Message), NEW hid
    PROVE  VisibleLess(Without(ms, "system"), hid) = VisibleLess(ms, hid)
<1> DEFINE S == {s \in Seq(Message) :
                    VisibleLess(Without(s, "system"), hid) = VisibleLess(s, hid)}
<1>1. <<>> \in S
  <2>1. Without(<<>>, "system") = <<>>
    <3>1. [i \in DOMAIN <<>> |-> IF i \in {j \in DOMAIN <<>> : <<>>[j].role # "system"}
                                 THEN <<(<<>>)[i]>> ELSE <<>>] = <<>>
      OBVIOUS
    <3> QED
      BY <3>1, FlatEmpty DEF Without, Pick
  <2> QED
    BY <2>1
<1>2. \A s \in Seq(Message) : \A x \in Message : s \in S => Append(s, x) \in S
  <2> SUFFICES ASSUME NEW s \in Seq(Message), NEW x \in Message, s \in S
               PROVE  Append(s, x) \in S
    OBVIOUS
  <2> DEFINE w == Without(s, "system")
             y == IF x.role # "system" THEN <<x>> ELSE <<>>
             c == Append(s, x)
  <2>1. c = s \o <<x>> /\ <<x>> \in Seq(Message) /\ c \in Seq(Message)
    OBVIOUS
  <2>2. w \in Seq(Message)
    BY WithoutType
  <2>3. y \in Seq(Message)
    OBVIOUS
  <2>4. Without(c, "system") = w \o y
    <3> HIDE DEF c
    <3>1. WithoutJoins(s, <<x>>, c, "system")
      BY <2>1, WithoutConcat
    <3> QED
      BY <3>1, WithoutOne DEF WithoutJoins
  <2>5. VisibleLess(y, hid) = VisibleLess(<<x>>, hid)
    <3>1. CASE x.role # "system"
      BY <3>1
    <3>2. CASE x.role = "system"
      <4>1. [x EXCEPT !.calls = @ \ hid].role = "system"
        BY <3>2 DEF Message
      <4>2. Shown(x, hid) = <<>>
        BY <4>1 DEF Shown
      <4> QED
        BY <3>2, <4>2, VisibleOne, VisibleEmpty
    <3> QED
      BY <3>1, <3>2
  <2>6. VisibleLess(w, hid) = VisibleLess(s, hid)
    OBVIOUS
  <2> HIDE DEF w, y, c
  <2>7. VisibleLess(Without(c, "system"), hid) = VisibleLess(w, hid) \o VisibleLess(y, hid)
    <3>1. VisibleJoins(w, y, Without(c, "system"), hid)
      BY <2>2, <2>3, <2>4, VisibleConcat
    <3> QED
      BY <3>1 DEF VisibleJoins
  <2>8. VisibleLess(c, hid) = VisibleLess(s, hid) \o VisibleLess(<<x>>, hid)
    <3>1. VisibleJoins(s, <<x>>, c, hid)
      BY <2>1, VisibleConcat
    <3> QED
      BY <3>1 DEF VisibleJoins
  <2>9. VisibleLess(Without(c, "system"), hid) = VisibleLess(c, hid)
    BY <2>5, <2>6, <2>7, <2>8
  <2> QED
    BY <2>1, <2>9 DEF c
<1> HIDE DEF S
<1>3. \A s \in Seq(Message) : s \in S
  BY <1>1, <1>2, ByAppend
<1> QED
  BY <1>3 DEF S

-----------------------------------------------------------------------------
(* Paired lists.                                                           *)

\* The results right behind message i: where they end.
AnswersUpTo(ms, i, k) ==
    /\ \A j \in (i + 1) .. k : ms[j].role = "tool"
    /\ k < Len(ms) => ms[k + 1].role # "tool"

CallsIn(ms, i, k) == UNION {ms[j].calls : j \in i .. k}

\* The calls that are answered are those of the results right behind.
LEMMA AnswersAre ==
    ASSUME NEW ms \in Seq(Message), NEW i \in 1 .. Len(ms), NEW k \in i .. Len(ms),
           AnswersUpTo(ms, i, k)
    PROVE  Answers(ms, i) = CallsIn(ms, i + 1, k)
<1>1. {j \in (i + 1) .. Len(ms) : \A l \in (i + 1) .. j : ms[l].role = "tool"} = (i + 1) .. k
  <2>1. ASSUME NEW j \in (i + 1) .. Len(ms), \A l \in (i + 1) .. j : ms[l].role = "tool"
        PROVE  j \in (i + 1) .. k
    <3> SUFFICES ASSUME j > k PROVE FALSE
      OBVIOUS
    <3>1. k + 1 \in (i + 1) .. j /\ k < Len(ms)
      OBVIOUS
    <3> QED
      BY <2>1, <3>1 DEF AnswersUpTo
  <2>2. ASSUME NEW j \in (i + 1) .. k
        PROVE  j \in (i + 1) .. Len(ms) /\ \A l \in (i + 1) .. j : ms[l].role = "tool"
    BY DEF AnswersUpTo
  <2> QED
    BY <2>1, <2>2
<1> QED
  BY <1>1 DEF Answers, CallsIn

\* There always is such an end.
LEMMA AnswersEnd ==
    ASSUME NEW ms \in Seq(Message), NEW i \in 1 .. Len(ms)
    PROVE  \E k \in i .. Len(ms) : AnswersUpTo(ms, i, k)
<1> DEFINE S == {j \in i .. Len(ms) : j < Len(ms) => ms[j + 1].role # "tool"}
<1>1. S \in SUBSET Nat /\ S # {}
  <2>1. Len(ms) \in S
    OBVIOUS
  <2> QED
    BY <2>1
<1>2. PICK k \in S : \A j \in S : k <= j
  <2> HIDE DEF S
  <2> QED
    BY <1>1, FirstNumber
<1>3. \A j \in (i + 1) .. k : ms[j].role = "tool"
  <2> SUFFICES ASSUME NEW j \in (i + 1) .. k, ms[j].role # "tool" PROVE FALSE
    OBVIOUS
  <2>1. j - 1 \in S /\ (j - 1) + 1 = j /\ j - 1 < k
    BY <1>2
  <2>2. k <= j - 1
    BY <1>2, <2>1
  <2>3. k \in Nat /\ j \in Nat
    BY <1>1, <1>2
  <2> QED
    BY <2>1, <2>2, <2>3
<1> QED
  BY <1>2, <1>3 DEF AnswersUpTo

\* An empty list is paired.
LEMMA PairedEmpty == Paired(<<>>)
  BY DEF Paired

\* Lists without calls and results.
LEMMA PairedNoCalls ==
    ASSUME NEW T, T \subseteq Message, NEW ms \in Seq(T),
           \A m \in T : m.role # "tool" /\ (m.role = "assistant" => m.calls = {})
    PROVE  Paired(ms)
<1>1. ms \in Seq(Message) /\ DOMAIN ms = 1 .. Len(ms)
      /\ \A i \in 1 .. Len(ms) :
            ms[i].role # "tool" /\ (ms[i].role = "assistant" => ms[i].calls = {})
  OBVIOUS
<1>2. ASSUME NEW i \in 1 .. Len(ms), ms[i].role = "assistant"
      PROVE  Answers(ms, i) = ms[i].calls
  <2>1. i \in i .. Len(ms) /\ AnswersUpTo(ms, i, i)
    <3>1. i < Len(ms) => i + 1 \in 1 .. Len(ms)
      OBVIOUS
    <3> QED
      BY <1>1, <3>1 DEF AnswersUpTo
  <2>2. Answers(ms, i) = CallsIn(ms, i + 1, i)
    BY <1>1, <2>1, AnswersAre
  <2>3. (i + 1) .. i = {}
    OBVIOUS
  <2> QED
    BY <1>1, <1>2, <2>2, <2>3 DEF CallsIn
<1> QED
  BY <1>1, <1>2 DEF Paired

\* A list continued by one that does not begin with a result.
LEMMA PairedConcat ==
    ASSUME NEW a \in Seq(Message), NEW b \in Seq(Message), NEW c, c = a \o b,
           Paired(a), Paired(b)
    PROVE  Paired(c)
<1> DEFINE n == Len(a)
<1>1. /\ c \in Seq(Message) /\ Len(c) = n + Len(b) /\ n \in Nat /\ Len(b) \in Nat
      /\ DOMAIN a = 1 .. n /\ DOMAIN b = 1 .. Len(b) /\ DOMAIN c = 1 .. Len(c)
      /\ \A i \in 1 .. n : c[i] = a[i]
      /\ \A i \in 1 .. Len(b) : c[n + i] = b[i]
  OBVIOUS
<1>2. Len(b) > 0 => b[1].role # "tool"
  <2> SUFFICES ASSUME Len(b) > 0, b[1].role = "tool" PROVE FALSE
    OBVIOUS
  <2>1. 1 \in DOMAIN b
    BY <1>1
  <2>2. \A i \in DOMAIN b : b[i].role = "tool" => i > 1
    BY DEF Paired
  <2>3. 1 > 1
    BY <2>1, <2>2
  <2> QED
    BY <2>3
<1> HIDE DEF n
<1>3. \A i \in 1 .. Len(b) : n + i \in 1 .. Len(c)
  BY <1>1
<1>4. ASSUME NEW i \in 1 .. n, c[i].role = "assistant"
      PROVE  Answers(c, i) = c[i].calls
  <2>1. PICK k \in i .. Len(a) : AnswersUpTo(a, i, k)
    BY <1>1, AnswersEnd DEF n
  <2>2. k \in i .. Len(c) /\ k \in i .. n
    BY <1>1, <2>1 DEF n
  <2>3. \A j \in (i + 1) .. k : c[j] = a[j]
    BY <1>1, <2>2
  <2>4. AnswersUpTo(c, i, k)
    <3>1. \A j \in (i + 1) .. k : c[j].role = "tool"
      BY <2>1, <2>3 DEF AnswersUpTo
    <3>2. CASE k < n
      <4>1. k + 1 \in 1 .. n
        BY <1>1, <2>2, <3>2
      <4>2. a[k + 1].role # "tool"
        BY <2>1, <3>2 DEF AnswersUpTo, n
      <4> QED
        BY <1>1, <3>1, <4>1, <4>2 DEF AnswersUpTo
    <3>3. CASE k = n
      <4>1. k < Len(c) => c[k + 1] = b[1] /\ Len(b) > 0
        BY <1>1, <3>3
      <4> QED
        BY <1>2, <3>1, <4>1 DEF AnswersUpTo
    <3> QED
      BY <1>1, <2>2, <3>2, <3>3
  <2>5. Answers(c, i) = CallsIn(c, i + 1, k)
    <3>1. i \in 1 .. Len(c)
      BY <1>1
    <3> QED
      BY <1>1, <2>2, <2>4, <3>1, AnswersAre
  <2>6. Answers(a, i) = CallsIn(a, i + 1, k)
    <3>1. i \in 1 .. Len(a)
      BY DEF n
    <3> QED
      BY <2>1, <3>1, AnswersAre
  <2>7. {c[j].calls : j \in (i + 1) .. k} = {a[j].calls : j \in (i + 1) .. k}
    BY <2>3
  <2>8. Answers(a, i) = a[i].calls
    BY <1>1, <1>4 DEF Paired
  <2> QED
    BY <1>1, <2>5, <2>6, <2>7, <2>8 DEF CallsIn
<1>5. ASSUME NEW i \in 1 .. Len(b), b[i].role = "assistant"
      PROVE  Answers(c, n + i) = c[n + i].calls
  <2>1. PICK k \in i .. Len(b) : AnswersUpTo(b, i, k)
    BY AnswersEnd
  <2>2. /\ n + k \in (n + i) .. Len(c) /\ n + i \in 1 .. Len(c)
        /\ \A j \in (i + 1) .. k : n + j \in (n + i + 1) .. (n + k) /\ j \in 1 .. Len(b)
        /\ \A j \in (n + i + 1) .. (n + k) : j - n \in (i + 1) .. k /\ n + (j - n) = j
    BY <1>1
  <2>3. \A j \in (n + i + 1) .. (n + k) : c[j] = b[j - n]
    BY <1>1, <2>2
  <2>4. AnswersUpTo(c, n + i, n + k)
    <3>1. \A j \in (n + i + 1) .. (n + k) : c[j].role = "tool"
      BY <2>1, <2>2, <2>3 DEF AnswersUpTo
    <3>2. n + k < Len(c) => k < Len(b) /\ k + 1 \in 1 .. Len(b) /\ n + (k + 1) = (n + k) + 1
      BY <1>1
    <3>3. n + k < Len(c) => c[(n + k) + 1].role # "tool"
      BY <1>1, <2>1, <3>2 DEF AnswersUpTo
    <3> QED
      BY <3>1, <3>3 DEF AnswersUpTo
  <2>5. Answers(c, n + i) = CallsIn(c, n + i + 1, n + k)
    BY <1>1, <2>2, <2>4, AnswersAre
  <2>6. Answers(b, i) = CallsIn(b, i + 1, k)
    BY <2>1, AnswersAre
  <2>7. {c[j].calls : j \in (n + i + 1) .. (n + k)} = {b[j].calls : j \in (i + 1) .. k}
    <3>1. \A j \in (n + i + 1) .. (n + k) : j - n \in (i + 1) .. k /\ c[j].calls = b[j - n].calls
      BY <2>2, <2>3
    <3>2. \A j \in (i + 1) .. k : n + j \in (n + i + 1) .. (n + k) /\ c[n + j].calls = b[j].calls
      BY <1>1, <2>2
    <3> DEFINE C == {c[j].calls : j \in (n + i + 1) .. (n + k)}
               B == {b[j].calls : j \in (i + 1) .. k}
    <3>3. ASSUME NEW x \in C PROVE x \in B
      <4>1. PICK j \in (n + i + 1) .. (n + k) : x = c[j].calls
        OBVIOUS
      <4> QED
        BY <3>1, <4>1
    <3>4. ASSUME NEW x \in B PROVE x \in C
      <4>1. PICK j \in (i + 1) .. k : x = b[j].calls
        OBVIOUS
      <4> QED
        BY <3>2, <4>1
    <3> HIDE DEF B, C
    <3>5. B = C
      BY <3>3, <3>4
    <3> QED
      BY <3>5 DEF B, C
  <2>8. Answers(b, i) = b[i].calls
    BY <1>1, <1>5 DEF Paired
  <2> QED
    BY <1>1, <2>5, <2>6, <2>7, <2>8 DEF CallsIn
<1>6. ASSUME NEW i \in 1 .. Len(c), c[i].role = "assistant"
      PROVE  Answers(c, i) = c[i].calls
  <2>1. CASE i <= n
    BY <1>1, <1>4, <1>6, <2>1
  <2>2. CASE i > n
    <3>1. i - n \in 1 .. Len(b) /\ n + (i - n) = i
      BY <1>1, <2>2
    <3> QED
      BY <1>1, <1>5, <1>6, <3>1
  <2> QED
    BY <1>1, <2>1, <2>2
<1>7. ASSUME NEW i \in 1 .. Len(c), c[i].role = "tool"
      PROVE  i > 1 /\ c[i - 1].role \in {"assistant", "tool"}
  <2>1. CASE i <= n
    <3>1. i \in 1 .. n /\ a[i].role = "tool"
      BY <1>1, <1>7, <2>1
    <3>2. i > 1 /\ a[i - 1].role \in {"assistant", "tool"}
      BY <1>1, <3>1 DEF Paired
    <3> QED
      BY <1>1, <3>1, <3>2
  <2>2. CASE i > n
    <3>1. i - n \in 1 .. Len(b) /\ n + (i - n) = i
      BY <1>1, <2>2
    <3>2. b[i - n].role = "tool"
      BY <1>1, <1>7, <3>1
    <3>3. i - n > 1 /\ b[(i - n) - 1].role \in {"assistant", "tool"}
      BY <1>1, <3>1, <3>2 DEF Paired
    <3>4. (i - n) - 1 \in 1 .. Len(b) /\ n + ((i - n) - 1) = i - 1
      <4>1. n \in Nat /\ i \in Nat /\ i - n \in 1 .. Len(b) /\ i - n > 1
        BY <1>1, <3>1, <3>3
      <4> QED
        BY <4>1
    <3> QED
      BY <1>1, <3>3, <3>4
  <2> QED
    BY <1>1, <2>1, <2>2
<1> QED
  BY <1>1, <1>6, <1>7 DEF Paired

\* A part that begins with no result and behind which there is none.
LEMMA PartPaired ==
    ASSUME NEW ms \in Seq(Message), Paired(ms), NEW u \in 1 .. Len(ms), NEW k \in u .. Len(ms),
           ms[u].role # "tool", k < Len(ms) => ms[k + 1].role # "tool"
    PROVE  Paired(SubSeq(ms, u, k))
<1> DEFINE s == SubSeq(ms, u, k)
<1>1. /\ s \in Seq(Message) /\ Len(s) = k - u + 1 /\ DOMAIN s = 1 .. Len(s)
      /\ u \in Nat /\ k \in Nat /\ u > 0 /\ k <= Len(ms) /\ Len(ms) \in Nat
      /\ DOMAIN ms = 1 .. Len(ms)
      /\ \A i \in 1 .. Len(s) : s[i] = ms[u + i - 1] /\ u + i - 1 \in 1 .. Len(ms)
  OBVIOUS
<1> HIDE DEF s
<1>2. ASSUME NEW i \in 1 .. Len(s), s[i].role = "assistant"
      PROVE  Answers(s, i) = s[i].calls
  <2> DEFINE d == u - 1
  <2>1. PICK e \in i .. Len(s) : AnswersUpTo(s, i, e)
    BY <1>1, AnswersEnd
  <2>2. /\ d \in Nat /\ d + i \in 1 .. Len(ms) /\ d + e \in (d + i) .. Len(ms) /\ d + e <= k
        /\ \A j \in 1 .. Len(s) : s[j] = ms[d + j] /\ d + j \in 1 .. Len(ms)
        /\ d + Len(s) = k
    <3>1. d \in Nat /\ u = d + 1 /\ i \in Nat /\ e \in Nat /\ 1 <= i /\ i <= e /\ e <= Len(s)
      BY <1>1, <2>1
    <3> HIDE DEF d
    <3>2. d + Len(s) = k /\ d + e <= k
      BY <1>1, <3>1
    <3>3. \A j \in 1 .. Len(s) : u + j - 1 = d + j
      BY <1>1, <3>1
    <3>4. \A j \in 1 .. Len(s) : s[j] = ms[d + j] /\ d + j \in 1 .. Len(ms)
      BY <1>1, <3>3
    <3>5. i \in 1 .. Len(s) /\ d + e \in (d + i) .. Len(ms)
      BY <1>1, <3>1, <3>2
    <3> QED
      BY <3>1, <3>2, <3>4, <3>5
  <2> HIDE DEF d
  <2>3. /\ \A j \in (d + i + 1) .. (d + e) : j - d \in (i + 1) .. e /\ j - d \in 1 .. Len(s)
                                             /\ d + (j - d) = j
        /\ \A j \in (i + 1) .. e : d + j \in (d + i + 1) .. (d + e) /\ j \in 1 .. Len(s)
    BY <1>1, <2>2
  <2>4. AnswersUpTo(ms, d + i, d + e)
    <3>1. \A j \in (d + i + 1) .. (d + e) : ms[j].role = "tool"
      <4>1. ASSUME NEW j \in (d + i + 1) .. (d + e) PROVE ms[j].role = "tool"
        <5>1. j - d \in (i + 1) .. e /\ s[j - d] = ms[j]
          BY <2>2, <2>3
        <5>2. s[j - d].role = "tool"
          BY <2>1, <5>1 DEF AnswersUpTo
        <5> QED
          BY <5>1, <5>2
      <4> QED
        BY <4>1
    <3>2. CASE e < Len(s)
      <4>1. s[e + 1].role # "tool" /\ e + 1 \in 1 .. Len(s) /\ d + (e + 1) = d + e + 1
        BY <1>1, <2>1, <2>2, <3>2 DEF AnswersUpTo
      <4>2. ms[d + e + 1].role # "tool"
        BY <2>2, <4>1
      <4> QED
        BY <3>1, <4>2 DEF AnswersUpTo
    <3>3. CASE e = Len(s)
      <4>1. d + e = k
        BY <2>2, <3>3
      <4> QED
        BY <3>1, <4>1 DEF AnswersUpTo
    <3> QED
      BY <1>1, <2>1, <3>2, <3>3
  <2>5. Answers(ms, d + i) = CallsIn(ms, d + i + 1, d + e)
    BY <2>2, <2>4, AnswersAre
  <2>6. Answers(s, i) = CallsIn(s, i + 1, e)
    BY <1>1, <2>1, AnswersAre
  <2>7. CallsIn(ms, d + i + 1, d + e) = CallsIn(s, i + 1, e)
    <3>1. \A j \in (d + i + 1) .. (d + e) : j - d \in (i + 1) .. e /\ ms[j].calls = s[j - d].calls
      BY <2>2, <2>3
    <3>2. \A j \in (i + 1) .. e :
            d + j \in (d + i + 1) .. (d + e) /\ ms[d + j].calls = s[j].calls
      BY <2>2, <2>3
    <3>3. ASSUME NEW x, x \in CallsIn(ms, d + i + 1, d + e) PROVE x \in CallsIn(s, i + 1, e)
      BY <3>1, <3>3 DEF CallsIn
    <3>4. ASSUME NEW x, x \in CallsIn(s, i + 1, e) PROVE x \in CallsIn(ms, d + i + 1, d + e)
      BY <3>2, <3>4 DEF CallsIn
    <3> QED
      BY <3>3, <3>4
  <2>8. Answers(ms, d + i) = ms[d + i].calls /\ s[i] = ms[d + i]
    BY <1>1, <1>2, <2>2 DEF Paired
  <2> QED
    BY <2>5, <2>6, <2>7, <2>8
<1>3. ASSUME NEW i \in 1 .. Len(s), s[i].role = "tool"
      PROVE  i > 1 /\ s[i - 1].role \in {"assistant", "tool"}
  <2>1. i # 1
    <3>1. s[1] = ms[u]
      BY <1>1
    <3> QED
      BY <1>3, <3>1
  <2>2. i > 1 /\ i - 1 \in 1 .. Len(s) /\ u + (i - 1) - 1 = (u + i - 1) - 1
    BY <1>1, <2>1
  <2>3. ms[u + i - 1].role = "tool" /\ u + i - 1 \in DOMAIN ms
    BY <1>1, <1>3
  <2>4. ms[(u + i - 1) - 1].role \in {"assistant", "tool"}
    BY <2>3 DEF Paired
  <2>5. s[i - 1] = ms[u + (i - 1) - 1]
    BY <1>1, <2>2
  <2> QED
    BY <2>2, <2>4, <2>5
<1>4. Paired(s)
  BY <1>1, <1>2, <1>3 DEF Paired
<1> QED
  BY <1>4 DEF s

\* A unit: a message and the results right behind it.
Unit(ms, u, k) == ms[u].role # "tool" /\ AnswersUpTo(ms, u, k)

\* A unit of a paired list is paired by itself.
LEMMA UnitPaired ==
    ASSUME NEW ms \in Seq(Message), Paired(ms), NEW u \in 1 .. Len(ms), NEW k \in u .. Len(ms),
           Unit(ms, u, k)
    PROVE  /\ Paired(SubSeq(ms, u, k))
           /\ ms[u].role # "assistant" => k = u
<1>1. ms[u].role # "tool" /\ (k < Len(ms) => ms[k + 1].role # "tool")
  BY DEF Unit, AnswersUpTo
<1>2. Paired(SubSeq(ms, u, k))
  BY <1>1, PartPaired
<1>3. ASSUME k # u PROVE ms[u].role = "assistant"
  <2>1. u + 1 \in (u + 1) .. k /\ u + 1 \in DOMAIN ms /\ (u + 1) - 1 = u
    BY <1>3
  <2>2. ms[u + 1].role = "tool"
    BY <2>1 DEF Unit, AnswersUpTo
  <2>3. ms[(u + 1) - 1].role \in {"assistant", "tool"}
    BY <2>1, <2>2 DEF Paired
  <2> QED
    BY <1>1, <2>1, <2>3
<1> QED
  BY <1>2, <1>3

\* Induction over a paired list, unit by unit.
LEMMA ByUnits ==
    ASSUME NEW ms \in Seq(Message), Paired(ms), NEW S, 0 \in S,
           \A u \in 1 .. Len(ms) : \A k \in u .. Len(ms) : Unit(ms, u, k) /\ u - 1 \in S => k \in S
    PROVE  Len(ms) \in S
<1> DEFINE n == Len(ms)
           R == {k \in 0 .. n : (k < n => ms[k + 1].role # "tool") => k \in S}
<1>1. n \in Nat /\ DOMAIN ms = 1 .. n
  OBVIOUS
<1>2. ASSUME NEW k \in 0 .. n, \A j \in 0 .. k : j < k => j \in R
      PROVE  k \in R
  <2> SUFFICES ASSUME k < n => ms[k + 1].role # "tool", k # 0 PROVE k \in S
    OBVIOUS
  <2> DEFINE heads == {j \in 1 .. k : ms[j].role # "tool"}
  <2>1. 1 \in DOMAIN ms /\ k \in Nat /\ 1 \in 1 .. k
    BY <1>1
  <2>2. ms[1].role # "tool"
    <3> SUFFICES ASSUME ms[1].role = "tool" PROVE FALSE
      OBVIOUS
    <3>1. 1 > 1
      BY <2>1 DEF Paired
    <3> QED
      BY <3>1
  <2>3. heads \in SUBSET (1 .. k) /\ heads # {}
    BY <2>1, <2>2
  <2>4. \E u \in heads : \A j \in heads : j <= u
    <3> HIDE DEF heads
    <3> QED
      BY <2>1, <2>3, LastNumber
  <2>5. PICK u \in heads : \A j \in heads : j <= u
    BY <2>4
  <2>6. \A j \in (u + 1) .. k : ms[j].role = "tool"
    <3> SUFFICES ASSUME NEW j \in (u + 1) .. k, ms[j].role # "tool" PROVE FALSE
      OBVIOUS
    <3>1. j \in heads /\ ~ (j <= u)
      BY <2>1
    <3> QED
      BY <2>5, <3>1
  <2>7. u \in 1 .. n /\ k \in u .. n /\ Unit(ms, u, k)
    BY <1>1, <2>5, <2>6 DEF Unit, AnswersUpTo
  <2>8. u - 1 \in 0 .. k /\ u - 1 < k /\ (u - 1) + 1 = u
    BY <2>5
  <2>9. u - 1 \in R
    BY <1>2, <2>8
  <2>10. u - 1 \in S
    BY <2>5, <2>8, <2>9
  <2> QED
    BY <2>7, <2>10
<1>3. \A k \in 0 .. n : k \in R
  <2> HIDE DEF R, n
  <2> QED
    BY <1>1, <1>2, UpToAll
<1>4. n \in R /\ ~ (n < n)
  BY <1>1, <1>3
<1> QED
  BY <1>4

-----------------------------------------------------------------------------
(* What keeps a list paired.                                               *)

\* Without takes nothing where there is nothing to take.
LEMMA WithoutAny ==
    ASSUME NEW ms \in Seq(Message), NEW role, \A i \in 1 .. Len(ms) : ms[i].role # role
    PROVE  Without(ms, role) = ms
<1> DEFINE f == [i \in 1 .. Len(ms) |-> <<ms[i]>>]
<1>1. DOMAIN ms = 1 .. Len(ms) /\ f \in [1 .. Len(ms) -> Seq(Message)]
      /\ \A i \in 1 .. Len(ms) : f[i] = <<ms[i]>>
  OBVIOUS
<1>2. [i \in DOMAIN ms |-> IF i \in {j \in DOMAIN ms : ms[j].role # role} THEN <<ms[i]>> ELSE <<>>]
         = f
  OBVIOUS
<1> HIDE DEF f
<1>3. FlattenSeq(f) = ms
  BY <1>1, FlatSingle
<1> QED
  BY <1>2, <1>3 DEF Without, Pick

\* The front of a list up to the end of a unit.
LEMMA FrontAndUnit ==
    ASSUME NEW T, NEW s \in Seq(T), NEW u \in 1 .. Len(s), NEW k \in u .. Len(s)
    PROVE  /\ SubSeq(s, 1, k) = SubSeq(s, 1, u - 1) \o SubSeq(s, u, k)
           /\ SubSeq(s, 1, u - 1) \in Seq(T) /\ SubSeq(s, u, k) \in Seq(T)
           /\ SubSeq(s, 1, k) \in Seq(T)
           /\ Len(SubSeq(s, u, k)) = k - u + 1
           /\ \A i \in 1 .. (k - u + 1) : SubSeq(s, u, k)[i] = s[u + i - 1]
           /\ u = k => SubSeq(s, u, k) = <<s[u]>>
<1>1. u \in Nat /\ k \in Nat /\ u - 1 \in Nat /\ Len(s) \in Nat
  OBVIOUS
<1>2. /\ SubSeq(s, 1, u - 1) \in Seq(T) /\ SubSeq(s, u, k) \in Seq(T)
      /\ SubSeq(s, 1, k) \in Seq(T)
  OBVIOUS
<1>3. Len(SubSeq(s, u, k)) = k - u + 1 /\ Len(SubSeq(s, 1, u - 1)) = u - 1
      /\ Len(SubSeq(s, 1, k)) = k
  OBVIOUS
<1>4. /\ \A i \in 1 .. (k - u + 1) : SubSeq(s, u, k)[i] = s[u + i - 1]
      /\ \A i \in 1 .. (u - 1) : SubSeq(s, 1, u - 1)[i] = s[i]
      /\ \A i \in 1 .. k : SubSeq(s, 1, k)[i] = s[i]
  OBVIOUS
<1>5. SubSeq(s, 1, k) = SubSeq(s, 1, u - 1) \o SubSeq(s, u, k)
  OBVIOUS
<1>6. u = k => SubSeq(s, u, k) = <<s[u]>>
  <2> SUFFICES ASSUME u = k PROVE SubSeq(s, u, k) = <<s[u]>>
    OBVIOUS
  <2>1. Len(SubSeq(s, u, k)) = 1 /\ 1 \in 1 .. (k - u + 1) /\ u + 1 - 1 = u
    BY <1>1, <1>3
  <2>2. SubSeq(s, u, k)[1] = s[u]
    BY <1>4, <2>1
  <2>3. ASSUME NEW x \in Seq(T), Len(x) = 1 PROVE x = <<x[1]>>
    BY <2>3
  <2> QED
    BY <1>2, <2>1, <2>2, <2>3
<1> QED
  BY <1>2, <1>3, <1>4, <1>5, <1>6

\* Erasing the system messages keeps a list paired.
LEMMA PairedWithout ==
    ASSUME NEW ms \in Seq(Message), Paired(ms)
    PROVE  Paired(Without(ms, "system"))
<1> DEFINE W(k) == Without(SubSeq(ms, 1, k), "system")
           S == {k \in 0 .. Len(ms) : Paired(W(k))}
<1>1. 0 \in S
  <2>1. SubSeq(ms, 1, 0) = <<>> /\ 0 \in 0 .. Len(ms) /\ <<>> \in Seq(Message)
    OBVIOUS
  <2>2. \A i \in 1 .. Len(<<>>) : <<>>[i].role # "system"
    OBVIOUS
  <2>3. Without(<<>>, "system") = <<>>
    BY <2>1, <2>2, WithoutAny
  <2> QED
    BY <2>1, <2>3, PairedEmpty
<1>2. ASSUME NEW u \in 1 .. Len(ms), NEW k \in u .. Len(ms), Unit(ms, u, k), u - 1 \in S
      PROVE  k \in S
  <2> DEFINE a == SubSeq(ms, 1, u - 1)
             b == SubSeq(ms, u, k)
             c == SubSeq(ms, 1, k)
  <2>1. /\ c = a \o b /\ a \in Seq(Message) /\ b \in Seq(Message) /\ c \in Seq(Message)
        /\ Len(b) = k - u + 1 /\ (\A i \in 1 .. (k - u + 1) : b[i] = ms[u + i - 1])
        /\ (u = k => b = <<ms[u]>>)
    BY FrontAndUnit
  <2>2. Paired(b) /\ (ms[u].role # "assistant" => k = u)
    BY <1>2, UnitPaired
  <2>3. Paired(Without(a, "system"))
    BY <1>2
  <2>4. k \in 0 .. Len(ms) /\ W(k) = Without(c, "system")
    OBVIOUS
  <2> HIDE DEF a, b, c, W, S
  <2>5. Paired(Without(b, "system"))
    <3>1. CASE ms[u].role = "system"
      <4>1. ms[u].role # "assistant" /\ ms[u] \in Message
        BY <3>1
      <4>2. b = <<ms[u]>>
        BY <2>1, <2>2, <4>1
      <4>3. Without(b, "system") = <<>>
        BY <3>1, <4>1, <4>2, WithoutOne
      <4> QED
        BY <4>3, PairedEmpty
    <3>2. CASE ms[u].role # "system"
      <4>1. \A i \in 1 .. Len(b) : b[i].role # "system"
        <5> SUFFICES ASSUME NEW i \in 1 .. Len(b) PROVE b[i].role # "system"
          OBVIOUS
        <5>1. b[i] = ms[u + i - 1] /\ i \in 1 .. (k - u + 1)
          BY <2>1
        <5>2. CASE i = 1
          <6>1. u + i - 1 = u
            BY <5>2
          <6> QED
            BY <3>2, <5>1, <6>1
        <5>3. CASE i # 1
          <6>1. u + i - 1 \in (u + 1) .. k
            BY <5>1, <5>3
          <6>2. ms[u + i - 1].role = "tool"
            BY <1>2, <6>1 DEF Unit, AnswersUpTo
          <6> QED
            BY <5>1, <6>2
        <5> QED
          BY <5>2, <5>3
      <4>2. Without(b, "system") = b
        BY <2>1, <4>1, WithoutAny
      <4> QED
        BY <2>2, <4>2
    <3> QED
      BY <3>1, <3>2
  <2>6. Without(c, "system") = Without(a, "system") \o Without(b, "system")
    <3>1. WithoutJoins(a, b, c, "system")
      BY <2>1, WithoutConcat
    <3> QED
      BY <3>1 DEF WithoutJoins
  <2>7. Without(a, "system") \in Seq(Message) /\ Without(b, "system") \in Seq(Message)
    BY <2>1, WithoutType
  <2>8. Paired(Without(c, "system"))
    BY <2>3, <2>5, <2>6, <2>7, PairedConcat
  <2> QED
    BY <2>4, <2>8 DEF S
<1>3. Len(ms) \in S
  <2> HIDE DEF S
  <2> QED
    BY <1>1, <1>2, ByUnits
<1>4. SubSeq(ms, 1, Len(ms)) = ms
  OBVIOUS
<1> QED
  BY <1>3, <1>4

\* The messages of a pruned list are messages.
LEMMA MessagesType ==
    ASSUME NEW p \in Seq(Pruned)
    PROVE  /\ Messages(p) \in Seq(Message) /\ Len(Messages(p)) = Len(p)
           /\ \A i \in 1 .. Len(p) : Messages(p)[i] = p[i].m
<1>1. DOMAIN p = 1 .. Len(p) /\ Len(p) \in Nat /\ \A i \in 1 .. Len(p) : p[i].m \in Message
  <2>1. DOMAIN p = 1 .. Len(p) /\ Len(p) \in Nat /\ \A i \in 1 .. Len(p) : p[i] \in Pruned
    OBVIOUS
  <2> QED
    BY <2>1 DEF Pruned
<1>2. Messages(p) \in [1 .. Len(p) -> Message]
  BY <1>1 DEF Messages
<1> QED
  BY <1>1, <1>2, FunctionIsSeq DEF Messages

\* The messages of two pruned lists, one behind the other.
LEMMA MessagesConcat ==
    ASSUME NEW p \in Seq(Pruned), NEW q \in Seq(Pruned), NEW r, r = p \o q
    PROVE  Messages(r) = Messages(p) \o Messages(q)
<1> DEFINE a == Messages(p)
           b == Messages(q)
           c == Messages(r)
<1>1. /\ r \in Seq(Pruned) /\ Len(r) = Len(p) + Len(q)
      /\ \A i \in 1 .. Len(r) : r[i] = IF i <= Len(p) THEN p[i] ELSE q[i - Len(p)]
  BY ConcatFacts
<1>2. /\ a \in Seq(Message) /\ Len(a) = Len(p) /\ (\A i \in 1 .. Len(p) : a[i] = p[i].m)
      /\ b \in Seq(Message) /\ Len(b) = Len(q) /\ (\A i \in 1 .. Len(q) : b[i] = q[i].m)
      /\ c \in Seq(Message) /\ Len(c) = Len(r) /\ (\A i \in 1 .. Len(r) : c[i] = r[i].m)
  BY <1>1, MessagesType
<1> HIDE DEF a, b, c
<1>3. /\ a \o b \in Seq(Message) /\ Len(a \o b) = Len(a) + Len(b)
      /\ \A i \in 1 .. Len(a \o b) : (a \o b)[i] = IF i <= Len(a) THEN a[i] ELSE b[i - Len(a)]
  BY <1>2, ConcatFacts
<1>4. Len(p) \in Nat /\ Len(q) \in Nat
  OBVIOUS
<1>5. \A i \in 1 .. Len(c) : c[i] = (a \o b)[i]
  <2> SUFFICES ASSUME NEW i \in 1 .. Len(c) PROVE c[i] = (a \o b)[i]
    OBVIOUS
  <2>1. CASE i <= Len(p)
    <3>1. i \in 1 .. Len(p)
      BY <1>1, <1>2, <1>4, <2>1
    <3>2. c[i] = r[i].m /\ r[i] = p[i] /\ a[i] = p[i].m
      BY <1>1, <1>2, <2>1, <3>1
    <3>3. (a \o b)[i] = a[i]
      BY <1>1, <1>2, <1>3, <1>4, <2>1
    <3> QED
      BY <3>2, <3>3
  <2>2. CASE i > Len(p)
    <3>1. i - Len(p) \in 1 .. Len(q) /\ ~ (i <= Len(p))
      BY <1>1, <1>2, <1>4, <2>2
    <3>2. c[i] = q[i - Len(p)].m
      BY <1>1, <1>2, <3>1
    <3>3. i \in 1 .. Len(a \o b)
      BY <1>1, <1>2, <1>3
    <3>4. (a \o b)[i] = b[i - Len(p)]
      BY <1>2, <1>3, <3>1, <3>3
    <3> QED
      BY <1>2, <3>1, <3>2, <3>4
  <2> QED
    BY <1>1, <1>2, <1>4, <2>1, <2>2
<1>6. c = a \o b
  BY <1>1, <1>2, <1>3, <1>5, SeqEqual
<1> QED
  BY <1>6 DEF a, b, c

\* Pieces that are all empty make nothing.
LEMMA FlatAllNone ==
    ASSUME NEW T, NEW n \in Nat, NEW f \in [1 .. n -> Seq(T)], \A i \in 1 .. n : f[i] = <<>>
    PROVE  FlattenSeq(f) = <<>>
<1>1. \A i \in 1 .. n : Len(f[i]) <= 1
  OBVIOUS
<1>2. {i \in 1 .. n : f[i] = <<>>} = 1 .. n /\ Cardinality(1 .. n) = n
  BY FS_Interval
<1>3. Len(FlattenSeq(f)) = n - n
  <2>1. Len(FlattenSeq(f)) = n - Cardinality({i \in 1 .. n : f[i] = <<>>})
    BY <1>1, FlatLength
  <2> QED
    BY <1>2, <2>1
<1>4. FlattenSeq(f) \in Seq(T)
  BY FunctionIsSeq, FlatType
<1> QED
  BY <1>3, <1>4, EmptySeq

\* Every message of a unit has the depth of its first one.
LEMMA UnitDepth ==
    ASSUME NEW ms \in Seq(Message), Paired(ms), NEW u \in 1 .. Len(ms), NEW k \in u .. Len(ms),
           Unit(ms, u, k), ms[u].role = "assistant", NEW i \in u .. k
    PROVE  Depth(ms, compute_depths(ms), i) = compute_depths(ms)[u]
<1> DEFINE D == compute_depths(ms)
<1>1. D \in [1 .. Len(ms) -> Nat]
  BY DepthsType
<1>2. CASE i = u
  BY <1>2 DEF Depth
<1>3. CASE i # u
  <2>1. i \in (u + 1) .. k /\ i \in 1 .. Len(ms) /\ u \in 1 .. (i - 1)
    BY <1>3
  <2>2. ms[i].role = "tool" /\ \A j \in (u + 1) .. (i - 1) : ms[j].role = "tool"
    BY <2>1 DEF Unit, AnswersUpTo
  <2> HIDE DEF D
  <2>3. PICK j \in 1 .. (i - 1) :
            /\ ms[j].role = "assistant"
            /\ \A l \in 1 .. (i - 1) : ms[l].role = "assistant" => l <= j
            /\ nearest_depth(ms, D, i) = D[j]
    BY <1>1, <2>1, NearestIs
  <2>4. j = u
    <3>1. u <= j
      BY <2>1, <2>3
    <3>2. CASE j > u
      <4>1. j \in (u + 1) .. (i - 1)
        BY <2>3, <3>2
      <4> QED
        BY <2>2, <2>3, <4>1
    <3> QED
      BY <2>3, <3>1, <3>2
  <2> QED
    BY <2>2, <2>3, <2>4 DEF Depth, D
<1> QED
  BY <1>2, <1>3

\* What pruning makes of a unit: the same messages, or the first without its
\* calls and nothing of the rest.
LEMMA PairedUnit ==
    ASSUME NEW ms \in Seq(Message), Paired(ms), NEW hard \in Nat, hard >= ProtectRecent,
           NEW u \in 1 .. Len(ms), NEW k \in u .. Len(ms), Unit(ms, u, k),
           NEW g, g = [i \in 1 .. (k - u + 1) |-> Pieces(ms, compute_depths(ms), hard)[u - 1 + i]]
    PROVE  FlattenSeq(g) \in Seq(Pruned) /\ Paired(Messages(FlattenSeq(g)))
<1> DEFINE D == compute_depths(ms)
           n == k - u + 1
           b == SubSeq(ms, u, k)
           p == Pieces(ms, D, hard)
<1>1. /\ b \in Seq(Message) /\ Len(b) = n /\ \A i \in 1 .. n : b[i] = ms[u + i - 1]
      /\ u = k => b = <<ms[u]>>
  <2>1. /\ SubSeq(ms, u, k) \in Seq(Message) /\ Len(SubSeq(ms, u, k)) = k - u + 1
        /\ \A i \in 1 .. (k - u + 1) : SubSeq(ms, u, k)[i] = ms[u + i - 1]
        /\ u = k => SubSeq(ms, u, k) = <<ms[u]>>
    BY FrontAndUnit
  <2> QED
    BY <2>1
<1>2. /\ n \in Nat /\ n >= 1 /\ u \in Nat
      /\ \A i \in 1 .. n : /\ u - 1 + i \in u .. k /\ u - 1 + i \in 1 .. Len(ms)
                           /\ u - 1 + i = u + i - 1
      /\ n = 1 => u = k
  OBVIOUS
<1>3. Paired(b) /\ (ms[u].role # "assistant" => k = u)
  BY UnitPaired
<1>4. D \in [1 .. Len(ms) -> Nat]
  BY DepthsType
<1>5. /\ p \in [1 .. Len(ms) -> Seq(Pruned)]
      /\ \A i \in 1 .. Len(ms) : p[i] = Outcome(ms[i], Depth(ms, D, i), hard)
  <2> HIDE DEF D
  <2> QED
    BY <1>4, PiecesType
<1>6. ProtectRecent \in Nat
  BY PruneAssumption
<1> HIDE DEF D, n, b, p
<1>7. g = [i \in 1 .. n |-> p[u - 1 + i]]
  BY DEF n, p, D
<1>8. g \in [1 .. n -> Seq(Pruned)]
  BY <1>2, <1>5, <1>7
<1>9. \A i \in 1 .. n : g[i] = Outcome(b[i], Depth(ms, D, u - 1 + i), hard)
  <2> SUFFICES ASSUME NEW i \in 1 .. n
               PROVE  g[i] = Outcome(b[i], Depth(ms, D, u - 1 + i), hard)
    OBVIOUS
  <2>1. g[i] = p[u - 1 + i]
    BY <1>7
  <2>2. u - 1 + i \in 1 .. Len(ms) /\ u - 1 + i = u + i - 1 /\ b[i] = ms[u + i - 1]
    BY <1>1, <1>2
  <2>3. b[i] = ms[u - 1 + i]
    BY <2>2
  <2> QED
    BY <1>5, <2>1, <2>2, <2>3
<1>10. FlattenSeq(g) \in Seq(Pruned)
  BY <1>2, <1>8, FunctionIsSeq, FlatType
<1>11. ASSUME \A i \in 1 .. n : \E form \in {"full", "soft"} : g[i] = Keep(b[i], form)
       PROVE  Paired(Messages(FlattenSeq(g)))
  <2> DEFINE s == [i \in 1 .. n |-> g[i][1]]
  <2>1. ASSUME NEW i \in 1 .. n
        PROVE  g[i] = <<s[i]>> /\ s[i].m = b[i] /\ s[i] \in Pruned
    <3>1. PICK form \in {"full", "soft"} : g[i] = Keep(b[i], form)
      BY <1>11
    <3>2. b[i] \in Message
      BY <1>1
    <3>3. s[i] = g[i][1]
      OBVIOUS
    <3> HIDE DEF s
    <3> DEFINE r == [m |-> b[i], form |-> form]
    <3>4. g[i] = <<r>>
      BY <3>1 DEF Keep
    <3>5. r \in Pruned /\ r.m = b[i]
      BY <3>2 DEF Pruned
    <3> HIDE DEF r
    <3>6. s[i] = r
      <4>1. ASSUME NEW v, NEW q, q = <<v>> PROVE q[1] = v
        BY <4>1
      <4>2. g[i][1] = r
        BY <3>4, <4>1
      <4> QED
        BY <3>3, <4>2
    <3> QED
      BY <3>4, <3>5, <3>6
  <2>2. s \in [1 .. n -> Pruned]
    BY <2>1
  <2> HIDE DEF s
  <2>3. s \in Seq(Pruned) /\ Len(s) = n
    BY <1>2, <2>2, FunctionIsSeq
  <2>4. FlattenSeq(g) = s
    BY <1>8, <2>1, <2>3, FlatSingle
  <2>5. Messages(s) = b
    <3>1. Messages(s) \in Seq(Message) /\ Len(Messages(s)) = n
          /\ \A i \in 1 .. n : Messages(s)[i] = b[i]
      BY <2>1, <2>3, MessagesType
    <3> QED
      BY <1>1, <3>1, SeqEqual
  <2> QED
    BY <1>3, <2>4, <2>5
<1>12. CASE ms[u].role # "assistant"
  <2>1. u = k /\ n = 1
    BY <1>2, <1>3, <1>12 DEF n
  <2>2. b[1].role \notin {"tool", "assistant"}
    <3>1. b[1] = ms[u]
      BY <1>1, <2>1
    <3> QED
      BY <1>12, <3>1 DEF Unit
  <2>3. \A i \in 1 .. n : g[i] = Keep(b[i], "full")
    BY <1>9, <2>1, <2>2 DEF Outcome
  <2> QED
    BY <1>10, <1>11, <2>3
<1>13. CASE ms[u].role = "assistant"
  <2> DEFINE d == D[u]
  <2>1. d \in Nat
    BY <1>4
  <2>2. \A i \in 1 .. n : Depth(ms, D, u - 1 + i) = d
    BY <1>2, <1>13, UnitDepth DEF D
  <2> HIDE DEF d
  <2>3. \A i \in 1 .. n : g[i] = Outcome(b[i], d, hard)
    BY <1>9, <2>2
  <2>4. CASE d <= hard
    <3>1. \A i \in 1 .. n : g[i] \in {Keep(b[i], "full"), Keep(b[i], "soft")}
      BY <2>3, <2>4 DEF Outcome
    <3> QED
      BY <1>10, <1>11, <3>1
  <2>5. CASE d > hard
    <3>1. ~ (d > 0 /\ d <= ProtectRecent) /\ ~ (d <= hard)
      BY <1>6, <2>1, <2>5
    <3>2. b[1] = ms[u] /\ ms[u] \in Message /\ 1 \in 1 .. n
      <4>1. 1 \in 1 .. n /\ u + 1 - 1 = u
        BY <1>2
      <4> QED
        BY <1>1, <4>1
    <3> DEFINE h == [ms[u] EXCEPT !.calls = {}]
               x == Keep(h, "stripped")
               rest == [i \in 1 .. (n - 1) |-> g[1 + i]]
    <3>3. g[1] = x
      BY <1>13, <2>3, <3>1, <3>2 DEF Outcome
    <3>4. h \in Message /\ h.role = "assistant" /\ h.calls = {} /\ x \in Seq(Pruned)
          /\ Messages(x) = <<h>>
      <4>1. h \in Message /\ h.role = "assistant" /\ h.calls = {}
        BY <1>13, <3>2 DEF Message
      <4> HIDE DEF h
      <4> QED
        BY <4>1 DEF Keep, Pruned, Messages
    <3>5. \A i \in 1 .. (n - 1) : rest[i] = <<>>
      <4> SUFFICES ASSUME NEW i \in 1 .. (n - 1) PROVE g[1 + i] = <<>>
        OBVIOUS
      <4>1. 1 + i \in 1 .. n /\ u + (1 + i) - 1 \in (u + 1) .. k
        BY <1>2
      <4>2. b[1 + i] = ms[u + (1 + i) - 1]
        BY <1>1, <4>1
      <4>3. b[1 + i].role = "tool"
        BY <4>1, <4>2 DEF Unit, AnswersUpTo
      <4>4. g[1 + i] = Outcome(b[1 + i], d, hard)
        BY <2>3, <4>1
      <4> QED
        BY <3>1, <4>3, <4>4 DEF Outcome
    <3>6. Splits(g, 1, n - 1)
      <4>1. 1 \in Nat /\ n - 1 \in Nat /\ 1 + (n - 1) = n
        BY <1>2
      <4>2. g \in [1 .. (1 + (n - 1)) -> Seq(Pruned)]
        BY <1>8, <4>1
      <4> QED
        BY <4>1, <4>2, FlatSplit
    <3>7. FlattenSeq(rest) = <<>>
      <4>1. n - 1 \in Nat /\ \A i \in 1 .. (n - 1) : 1 + i \in 1 .. n
        BY <1>2
      <4>2. rest \in [1 .. (n - 1) -> Seq(Pruned)]
        BY <1>8, <4>1
      <4> HIDE DEF rest
      <4> QED
        BY <3>5, <4>1, <4>2, FlatAllNone
    <3>8. FlattenSeq([i \in 1 .. 1 |-> g[i]]) = x
      <4> DEFINE f == [i \in 1 .. 1 |-> g[i]]
      <4>1. f = Append(<<>>, x)
        BY <3>3
      <4>2. <<>> \in Seq(Seq(Pruned)) /\ <<>> \o x = x
        BY <3>4
      <4> HIDE DEF f, x
      <4>3. FlattenSeq(f) = FlattenSeq(<<>>) \o x
        BY <3>4, <4>1, <4>2, FlatAppend
      <4> QED
        BY <4>2, <4>3, FlatEmpty DEF f
    <3> HIDE DEF h, x
    <3>9. FlattenSeq(g) = x \o <<>> /\ x \o <<>> = x
      <4>1. x \o <<>> = x
        BY <3>4
      <4>2. FlattenSeq(g) = FlattenSeq([i \in 1 .. 1 |-> g[i]]) \o FlattenSeq(rest)
        BY <3>6 DEF Splits
      <4> HIDE DEF rest
      <4> QED
        BY <3>7, <3>8, <4>1, <4>2
    <3>10. Paired(<<h>>)
      <4>1. <<h>> \in Seq({h}) /\ {h} \subseteq Message
        BY <3>4
      <4>2. \A m \in {h} : m.role # "tool" /\ (m.role = "assistant" => m.calls = {})
        BY <3>4
      <4> QED
        BY <4>1, <4>2, PairedNoCalls
    <3> QED
      BY <1>10, <3>4, <3>9, <3>10
  <2> QED
    BY <1>6, <2>1, <2>4, <2>5
<1> QED
  BY <1>12, <1>13

\* Pruning outside the protected zone keeps a list paired.
LEMMA PairedPrune ==
    ASSUME NEW ms \in Seq(Message), Paired(ms), NEW hard \in Nat, hard >= ProtectRecent
    PROVE  Paired(Messages(prune(ms, hard)))
<1> DEFINE p == Pieces(ms, compute_depths(ms), hard)
           F(k) == FlattenSeq([i \in 1 .. k |-> p[i]])
           S == {k \in 0 .. Len(ms) : Paired(Messages(F(k)))}
<1>1. p \in [1 .. Len(ms) -> Seq(Pruned)] /\ Len(ms) \in Nat
  BY DepthsType, PiecesType
<1>2. 0 \in S
  <2>1. F(0) = <<>>
    BY FlatNone
  <2>2. Messages(<<>>) = <<>>
    BY DEF Messages
  <2>3. 0 \in 0 .. Len(ms)
    BY <1>1
  <2> HIDE DEF F
  <2> QED
    BY <2>1, <2>2, <2>3, PairedEmpty
<1>3. ASSUME NEW u \in 1 .. Len(ms), NEW k \in u .. Len(ms), Unit(ms, u, k), u - 1 \in S
      PROVE  k \in S
  <2> DEFINE f == [i \in 1 .. k |-> p[i]]
             g == [i \in 1 .. (k - u + 1) |-> p[u - 1 + i]]
  <2>1. FlattenSeq(g) \in Seq(Pruned) /\ Paired(Messages(FlattenSeq(g)))
    BY <1>3, PairedUnit
  <2>2. /\ u - 1 \in Nat /\ k - u + 1 \in Nat /\ (u - 1) + (k - u + 1) = k
        /\ k \in 0 .. Len(ms) /\ u - 1 \in 0 .. Len(ms)
    OBVIOUS
  <2> HIDE DEF p
  <2>3. f \in [1 .. ((u - 1) + (k - u + 1)) -> Seq(Pruned)]
    BY <1>1, <2>2
  <2>4. /\ [i \in 1 .. (u - 1) |-> f[i]] = [i \in 1 .. (u - 1) |-> p[i]]
        /\ [i \in 1 .. (k - u + 1) |-> f[(u - 1) + i]] = g
    OBVIOUS
  <2> HIDE DEF f, g
  <2>5. Splits(f, u - 1, k - u + 1)
    BY <2>2, <2>3, FlatSplit
  <2>6. F(k) = F(u - 1) \o FlattenSeq(g)
    BY <2>4, <2>5 DEF Splits, f
  <2>7. F(u - 1) \in Seq(Pruned)
    BY <1>1, <2>2, FlatPieces
  <2>8. Paired(Messages(F(u - 1)))
    BY <1>3
  <2> HIDE DEF F
  <2>9. Messages(F(k)) = Messages(F(u - 1)) \o Messages(FlattenSeq(g))
    BY <2>1, <2>6, <2>7, MessagesConcat
  <2>10. Messages(F(u - 1)) \in Seq(Message) /\ Messages(FlattenSeq(g)) \in Seq(Message)
    BY <2>1, <2>7, MessagesType
  <2>11. Paired(Messages(F(k)))
    BY <2>1, <2>8, <2>9, <2>10, PairedConcat
  <2> QED
    BY <2>2, <2>11
<1>4. Len(ms) \in S
  <2> HIDE DEF S
  <2> QED
    BY <1>2, <1>3, ByUnits
<1>5. prune(ms, hard) = F(Len(ms))
  <2>1. [i \in 1 .. Len(ms) |-> p[i]]
           = [j \in 1 .. (Len(ms) - 0) |-> PruneOne(ms, compute_depths(ms), hard, 0 + j)]
    BY DEF Pieces
  <2> QED
    BY <2>1 DEF prune, prune_range_with_depths
<1> QED
  BY <1>4, <1>5

ResultsOf(ms, calls, text) == ms = <<Assistant(Range(calls), text)>> \o Results(calls)

\* The results of calls are messages.
LEMMA ResultsType ==
    ASSUME NEW calls \in Seq(Nat)
    PROVE  /\ Results(calls) \in Seq(Message) /\ Len(Results(calls)) = Len(calls)
           /\ \A i \in 1 .. Len(calls) : Results(calls)[i] = ToolResult(calls[i])
           /\ Range(calls) \subseteq Nat
           /\ \A text \in BOOLEAN : <<Assistant(Range(calls), text)>> \in Seq(Message)
<1>1. DOMAIN calls = 1 .. Len(calls) /\ Len(calls) \in Nat
      /\ \A i \in 1 .. Len(calls) : calls[i] \in Nat
  OBVIOUS
<1>2. \A i \in 1 .. Len(calls) : ToolResult(calls[i]) \in Message
  BY <1>1 DEF ToolResult, Msg, Message, Role
<1>3. Results(calls) \in [1 .. Len(calls) -> Message]
  BY <1>1, <1>2 DEF Results
<1>4. Range(calls) \subseteq Nat
  BY <1>1 DEF Range
<1>5. \A text \in BOOLEAN : Assistant(Range(calls), text) \in Message
  BY <1>4 DEF Assistant, Msg, Message, Role
<1> QED
  BY <1>1, <1>3, <1>4, <1>5, FunctionIsSeq DEF Results

\* An assistant message with its calls, and their results behind it.
LEMMA PairedTools ==
    ASSUME NEW calls \in Seq(Nat), NEW text \in BOOLEAN, NEW ms, ResultsOf(ms, calls, text)
    PROVE  ms \in Seq(Message) /\ Paired(ms)
<1> DEFINE a == <<Assistant(Range(calls), text)>>
           r == Results(calls)
           n == Len(calls)
<1>1. /\ r \in Seq(Message) /\ Len(r) = n /\ \A i \in 1 .. n : r[i] = ToolResult(calls[i])
      /\ a \in Seq(Message) /\ n \in Nat /\ Len(a) = 1 /\ a[1] = Assistant(Range(calls), text)
  BY ResultsType
<1>2. ms = a \o r
  BY DEF ResultsOf
<1> HIDE DEF a, r
<1>3. /\ ms \in Seq(Message) /\ Len(ms) = 1 + n
      /\ \A i \in 1 .. Len(ms) : ms[i] = IF i <= 1 THEN a[i] ELSE r[i - 1]
  <2>1. /\ a \o r \in Seq(Message) /\ Len(a \o r) = Len(a) + Len(r)
        /\ \A i \in 1 .. Len(a \o r) : (a \o r)[i] = IF i <= Len(a) THEN a[i] ELSE r[i - Len(a)]
    <3>1. ASSUME NEW u \in Seq(Message), NEW v \in Seq(Message)
          PROVE  /\ u \o v \in Seq(Message) /\ Len(u \o v) = Len(u) + Len(v)
                 /\ \A i \in 1 .. Len(u \o v) :
                       (u \o v)[i] = IF i <= Len(u) THEN u[i] ELSE v[i - Len(u)]
      BY ConcatFacts
    <3> QED
      BY <1>1, <3>1
  <2> QED
    BY <1>1, <1>2, <2>1
<1> HIDE DEF n
<1>4. ms[1] = Assistant(Range(calls), text) /\ 1 \in 1 .. Len(ms)
  BY <1>1, <1>3
<1>5. \A i \in 1 .. n : ms[1 + i] = ToolResult(calls[i])
  <2> SUFFICES ASSUME NEW i \in 1 .. n PROVE ms[1 + i] = ToolResult(calls[i])
    OBVIOUS
  <2>1. 1 + i \in 1 .. Len(ms) /\ ~ (1 + i <= 1) /\ (1 + i) - 1 = i
    BY <1>1, <1>3
  <2> QED
    BY <1>1, <1>3, <2>1
<1>6. ASSUME NEW j \in 2 .. Len(ms)
      PROVE  /\ j - 1 \in 1 .. n /\ ms[j].calls = {calls[j - 1]} /\ ms[j].role = "tool"
  <2>1. j - 1 \in 1 .. n /\ 1 + (j - 1) = j
    BY <1>1, <1>3
  <2>2. ms[j] = ToolResult(calls[j - 1])
    BY <1>5, <2>1
  <2> QED
    BY <2>1, <2>2 DEF ToolResult, Msg
<1>7. Answers(ms, 1) = CallsIn(ms, 2, Len(ms))
  <2>1. \A j \in (1 + 1) .. Len(ms) : ms[j].role = "tool"
    BY <1>6
  <2>2. AnswersUpTo(ms, 1, Len(ms)) /\ Len(ms) \in 1 .. Len(ms) /\ 1 + 1 = 2
    BY <1>1, <1>3, <2>1 DEF AnswersUpTo
  <2> QED
    BY <1>3, <1>4, <2>2, AnswersAre
<1>8. CallsIn(ms, 2, Len(ms)) = Range(calls)
  <2>1. DOMAIN calls = 1 .. n
    BY DEF n
  <2>2. ASSUME NEW x, x \in CallsIn(ms, 2, Len(ms)) PROVE x \in Range(calls)
    <3>1. PICK j \in 2 .. Len(ms) : x \in ms[j].calls
      BY <2>2 DEF CallsIn
    <3>2. j - 1 \in 1 .. n /\ x = calls[j - 1]
      BY <1>6, <3>1
    <3> QED
      BY <2>1, <3>2 DEF Range
  <2>3. ASSUME NEW x, x \in Range(calls) PROVE x \in CallsIn(ms, 2, Len(ms))
    <3>1. PICK i \in 1 .. n : x = calls[i]
      BY <2>1, <2>3 DEF Range
    <3>2. 1 + i \in 2 .. Len(ms) /\ x \in ms[1 + i].calls
      BY <1>1, <1>3, <1>5, <3>1 DEF ToolResult, Msg
    <3> QED
      BY <3>2 DEF CallsIn
  <2> QED
    BY <2>2, <2>3
<1>9. \A i \in 1 .. Len(ms) : ms[i].role = "assistant" => i = 1
  <2> SUFFICES ASSUME NEW i \in 1 .. Len(ms), i # 1 PROVE ms[i].role # "assistant"
    OBVIOUS
  <2>1. i \in 2 .. Len(ms)
    BY <1>1, <1>3
  <2> QED
    BY <1>6, <2>1
<1>10. ms[1].calls = Range(calls) /\ ms[1].role = "assistant"
  BY <1>4 DEF Assistant, Msg
<1>11. \A i \in 1 .. Len(ms) : i # 1 => i > 1 /\ ms[i - 1].role \in {"assistant", "tool"}
  <2> SUFFICES ASSUME NEW i \in 1 .. Len(ms), i # 1
               PROVE  i > 1 /\ ms[i - 1].role \in {"assistant", "tool"}
    OBVIOUS
  <2>1. i > 1 /\ (i - 1 = 1 \/ i - 1 \in 2 .. Len(ms))
    OBVIOUS
  <2> QED
    BY <1>6, <1>10, <2>1
<1>12. DOMAIN ms = 1 .. Len(ms)
  BY <1>3
<1>13. \A i \in DOMAIN ms : ms[i].role = "assistant" => Answers(ms, i) = ms[i].calls
  BY <1>7, <1>8, <1>9, <1>10, <1>12
<1>14. \A i \in DOMAIN ms :
          ms[i].role = "tool" => i > 1 /\ ms[i - 1].role \in {"assistant", "tool"}
  BY <1>10, <1>11, <1>12
<1> QED
  BY <1>3, <1>13, <1>14 DEF Paired

\* Messages without calls.
Bare == {m \in Message : m.role # "tool" /\ (m.role = "assistant" => m.calls = {})}

\* A list of such messages is paired.
LEMMA BarePaired ==
    ASSUME NEW ms \in Seq(Bare)
    PROVE  ms \in Seq(Message) /\ Paired(ms)
<1>1. Bare \subseteq Message
      /\ \A m \in Bare : m.role # "tool" /\ (m.role = "assistant" => m.calls = {})
  BY DEF Bare
<1>2. Paired(ms)
  BY <1>1, PairedNoCalls
<1>3. ms \in Seq(Message)
  BY <1>1
<1> QED
  BY <1>2, <1>3

\* The prompts and the final answer are such messages.
LEMMA BareMessages ==
    /\ System \in Bare /\ Assistant({}, TRUE) \in Bare
    /\ \A persisted \in BOOLEAN : User(persisted) \in Bare
  BY DEF Bare, Message, Role, System, Assistant, User, Msg

\* Compactor::compact keeps a list paired: it drops whole rounds.
LEMMA CompactKeeps ==
    ASSUME NEW ms \in Seq(Message), NEW keep \in Nat, keep >= 1 \/ Rounds(ms) = {}, NEW short
    PROVE  /\ compact(ms, keep, short) \in Seq(Message)
           /\ Paired(ms) => Paired(compact(ms, keep, short))
<1> DEFINE users == Pick([i \in DOMAIN ms |-> i], Rounds(ms))
           old == Len(users) - keep
           summarised == short \cup (1 .. (old - Cardinality(short)))
           systems == {i \in DOMAIN ms : ms[i].role = "system"}
           first == {i \in systems : \A j \in systems : i <= j}
           piece(i) == IF i \in summarised THEN <<ms[users[i]], Assistant({}, TRUE)>> ELSE <<>>
           a == Pick(ms, first)
           f == [i \in 1 .. old |-> piece(i)]
           back == SubSeq(ms, users[old + 1], Len(ms))
           d == Without(back, "system")
<1>1. DOMAIN ms = 1 .. Len(ms) /\ Len(ms) \in Nat /\ \A i \in 1 .. Len(ms) : ms[i] \in Message
  OBVIOUS
<1>2. users \in Seq(Rounds(ms))
  <2> DEFINE s == [i \in DOMAIN ms |-> i]
  <2>1. DOMAIN s = 1 .. Len(ms) /\ \A i \in 1 .. Len(ms) : i \in Rounds(ms) => s[i] \in Rounds(ms)
    BY <1>1
  <2> HIDE DEF s
  <2> QED
    BY <1>1, <2>1, PickType DEF s
<1>3. Rounds(ms) \subseteq 1 .. Len(ms) /\ \A i \in Rounds(ms) : ms[i].role = "user"
  BY <1>1 DEF Rounds
<1>4. compact(ms, keep, short) = IF Len(users) <= 1 \/ old <= 0 THEN ms
                                 ELSE a \o FlattenSeq(f) \o d
  BY DEF compact
<1> HIDE DEF users
<1>5. Len(users) \in Nat /\ \A i \in 1 .. Len(users) : users[i] \in Rounds(ms)
  BY <1>2
<1>6. CASE Len(users) <= 1 \/ old <= 0
  BY <1>4, <1>6
<1>7. CASE ~ (Len(users) <= 1 \/ old <= 0)
  <2>1. Rounds(ms) # {}
    <3>1. 1 \in 1 .. Len(users)
      BY <1>5, <1>7
    <3> QED
      BY <1>5, <3>1
  <2>2. old \in Nat /\ old + 1 \in 1 .. Len(users) /\ \A i \in 1 .. old : i \in 1 .. Len(users)
    BY <1>5, <1>7, <2>1
  <2>3. a \in Seq(Bare)
    <3>1. \A i \in 1 .. Len(ms) : i \in first => ms[i] \in Bare
      BY <1>1 DEF Bare
    <3> HIDE DEF first
    <3> QED
      BY <1>1, <3>1, PickType
  <2>4. FlattenSeq(f) \in Seq(Bare)
    <3>1. \A i \in 1 .. old : piece(i) \in Seq(Bare)
      <4> SUFFICES ASSUME NEW i \in 1 .. old PROVE piece(i) \in Seq(Bare)
        OBVIOUS
      <4>1. users[i] \in 1 .. Len(ms) /\ ms[users[i]].role = "user"
        BY <1>3, <1>5, <2>2
      <4>2. ms[users[i]] \in Bare
        BY <1>1, <4>1 DEF Bare
      <4> HIDE DEF summarised
      <4>3. ASSUME NEW x \in Bare, NEW y \in Bare PROVE <<x, y>> \in Seq(Bare)
        OBVIOUS
      <4>4. <<ms[users[i]], Assistant({}, TRUE)>> \in Seq(Bare) /\ <<>> \in Seq(Bare)
        <5> DEFINE x == ms[users[i]]
                   y == Assistant({}, TRUE)
        <5>1. x \in Bare /\ y \in Bare
          BY <4>2, BareMessages
        <5> HIDE DEF x, y
        <5>2. <<x, y>> \in Seq(Bare) /\ <<>> \in Seq(Bare)
          BY <4>3, <5>1
        <5> QED
          BY <5>2 DEF x, y
      <4> QED
        BY <4>4
    <3> HIDE DEF piece
    <3>2. f \in [1 .. old -> Seq(Bare)]
      BY <3>1
    <3> HIDE DEF f, old
    <3> QED
      BY <2>2, <3>2, FunctionIsSeq, FlatType
  <2> DEFINE u == users[old + 1]
  <2>5. u \in 1 .. Len(ms) /\ ms[u].role # "tool" /\ Len(ms) \in u .. Len(ms)
    BY <1>1, <1>3, <1>5, <2>2
  <2>6. back = SubSeq(ms, u, Len(ms))
    OBVIOUS
  <2> HIDE DEF u, old
  <2>7. back \in Seq(Message)
    BY <2>5, <2>6, FrontAndUnit
  <2>8. Paired(ms) => Paired(back)
    <3>1. Len(ms) < Len(ms) => ms[Len(ms) + 1].role # "tool"
      BY <1>1
    <3> QED
      BY <2>5, <2>6, <3>1, PartPaired
  <2> HIDE DEF back, a, f
  <2>9. d \in Seq(Message) /\ (Paired(ms) => Paired(d))
    BY <2>7, <2>8, WithoutType, PairedWithout
  <2> HIDE DEF d
  <2>10. /\ a \in Seq(Message) /\ Paired(a)
         /\ FlattenSeq(f) \in Seq(Message) /\ Paired(FlattenSeq(f))
    BY <2>3, <2>4, BarePaired
  <2> DEFINE b == a \o FlattenSeq(f)
  <2>11. b \in Seq(Message) /\ Paired(b)
    <3>1. ASSUME NEW x \in Seq(Message), NEW y \in Seq(Message), Paired(x), Paired(y)
          PROVE  x \o y \in Seq(Message) /\ Paired(x \o y)
      <4> DEFINE z == x \o y
      <4>1. z \in Seq(Message)
        OBVIOUS
      <4>2. z = x \o y
        OBVIOUS
      <4> HIDE DEF z
      <4>3. Paired(z)
        BY <3>1, <4>2, PairedConcat
      <4> QED
        BY <4>1, <4>3 DEF z
    <3> QED
      BY <2>10, <3>1
  <2>12. compact(ms, keep, short) = b \o d
    BY <1>4, <1>7 DEF old
  <2> HIDE DEF b
  <2>13. b \o d \in Seq(Message)
    BY <2>9, <2>11
  <2> QED
    BY <2>9, <2>11, <2>12, <2>13, PairedConcat
<1> QED
  BY <1>6, <1>7

\* So does whatever determine_keep_rounds chooses.
LEMMA CompactionsKeep ==
    ASSUME NEW ms \in Seq(Message), NEW override \in Nat, NEW new \in Compactions(ms, override)
    PROVE  new \in Seq(Message) /\ (Paired(ms) => Paired(new))
<1> DEFINE n == Cardinality(Rounds(ms))
           keeps == IF override > 0 THEN {IF override < n THEN override ELSE n} ELSE 1 .. n
<1>1. IsFiniteSet(Rounds(ms)) /\ n \in Nat /\ (n = 0 => Rounds(ms) = {})
  <2>1. Rounds(ms) \subseteq 1 .. Len(ms) /\ 1 \in Nat /\ Len(ms) \in Nat
    BY DEF Rounds
  <2>2. IsFiniteSet(1 .. Len(ms))
    BY <2>1, FS_Interval
  <2>3. IsFiniteSet(Rounds(ms))
    BY <2>1, <2>2, FS_Subset
  <2>4. n \in Nat
    BY <2>3, FS_CardinalityType
  <2>5. n = 0 => Rounds(ms) = {}
    BY <2>3, FS_EmptySet
  <2> QED
    BY <2>3, <2>4, <2>5
<1>2. PICK k \in keeps : \E short : new = compact(ms, k, short)
  <2> DEFINE of(k) == {compact(ms, k, short) : short \in SUBSET (1 .. (n - k))}
  <2>1. new \in UNION {of(k) : k \in keeps}
    BY DEF Compactions
  <2> HIDE DEF of, keeps
  <2>2. PICK k \in keeps : new \in of(k)
    BY <2>1
  <2>3. \E short : new = compact(ms, k, short)
    BY <2>2 DEF of
  <2> QED
    BY <2>3
<1> HIDE DEF n
<1>3. k \in Nat /\ (k >= 1 \/ n = 0)
  BY <1>1
<1>4. k \in Nat /\ (k >= 1 \/ Rounds(ms) = {})
  BY <1>1, <1>3
<1> QED
  BY <1>2, <1>4, CompactKeeps

-----------------------------------------------------------------------------
(* Rows of the database.                                                   *)

Rows == [role : {"user", "assistant", "tool_call", "tool"}, call : Nat, text : BOOLEAN]

\* What a row adds to the messages, with the calls that follow it.
RowMessage(r, calls) ==
    IF r.role = "user" THEN <<User(TRUE)>>
    ELSE IF r.role = "assistant" /\ (r.text \/ calls # {}) THEN <<Assistant(calls, r.text)>>
    ELSE IF r.role = "tool" THEN <<ToolResult(r.call)>>
    ELSE <<>>

\* A row adds what RowMessage says,
LEMMA RestoreRowIs ==
    ASSUME NEW rs \in Seq(Rows), NEW i \in 1 .. Len(rs)
    PROVE  RestoreRow(rs, i) = RowMessage(rs[i], CallsAfter(rs, i))
<1>1. CASE rs[i].role = "user"
  BY <1>1 DEF RowMessage, RestoreRow
<1>2. CASE rs[i].role = "assistant" /\ (rs[i].text \/ CallsAfter(rs, i) # {})
  BY <1>2 DEF RowMessage, RestoreRow
<1>3. CASE rs[i].role = "assistant" /\ ~ (rs[i].text \/ CallsAfter(rs, i) # {})
  BY <1>3 DEF RowMessage, RestoreRow
<1>4. CASE rs[i].role = "tool"
  BY <1>4 DEF RowMessage, RestoreRow
<1>5. CASE rs[i].role = "tool_call"
  BY <1>5 DEF RowMessage, RestoreRow
<1>6. rs[i] \in Rows
  OBVIOUS
<1> QED
  BY <1>1, <1>2, <1>3, <1>4, <1>5, <1>6 DEF Rows

\* some of the rows what they add,
LEMMA RestoredIs ==
    ASSUME NEW rs \in Seq(Rows), NEW S
    PROVE  RestoredFrom(rs, S)
              = FlattenSeq([i \in 1 .. Len(rs) |->
                    IF i \in S THEN RowMessage(rs[i], CallsAfter(rs, i)) ELSE <<>>])
<1> DEFINE f == [i \in DOMAIN rs |-> IF i \in S THEN RestoreRow(rs, i) ELSE <<>>]
           g == [i \in 1 .. Len(rs) |->
                    IF i \in S THEN RowMessage(rs[i], CallsAfter(rs, i)) ELSE <<>>]
<1>1. DOMAIN rs = 1 .. Len(rs)
  OBVIOUS
<1>2. ASSUME NEW i \in 1 .. Len(rs) PROVE f[i] = g[i]
  BY <1>1, RestoreRowIs
<1>3. f = g
  <2>1. f = [i \in 1 .. Len(rs) |-> f[i]] /\ g = [i \in 1 .. Len(rs) |-> g[i]]
    BY <1>1
  <2> HIDE DEF f, g
  <2> QED
    BY <1>2, <2>1
<1>4. RestoredFrom(rs, S) = FlattenSeq(f)
  BY DEF RestoredFrom
<1> QED
  BY <1>3, <1>4

\* and restore_from_db what all of them add.
LEMMA RestoreIs ==
    ASSUME NEW rs \in Seq(Rows)
    PROVE  restore_from_db(rs)
              = FlattenSeq([i \in 1 .. Len(rs) |-> RowMessage(rs[i], CallsAfter(rs, i))])
<1> DEFINE f == [i \in 1 .. Len(rs) |->
                    IF i \in DOMAIN rs THEN RowMessage(rs[i], CallsAfter(rs, i)) ELSE <<>>]
           g == [i \in 1 .. Len(rs) |-> RowMessage(rs[i], CallsAfter(rs, i))]
<1>1. DOMAIN rs = 1 .. Len(rs)
  OBVIOUS
<1>2. f = g
  BY <1>1
<1>3. restore_from_db(rs) = FlattenSeq(f)
  BY RestoredIs DEF restore_from_db
<1> QED
  BY <1>2, <1>3

\* Messages that a restore can make out of rows whose calls are in N.
Restorable(N) ==
    {m \in Message : /\ m.calls \subseteq N /\ m.role # "system"
                     /\ m.role = "user" => m.text
                     /\ m.role = "tool" => m.calls # {}
                     /\ m.role = "assistant" => m.calls # {} \/ m.text}

\* The calls that follow an assistant row are calls in rows.
LEMMA CallsAfterType ==
    ASSUME NEW rs \in Seq(Rows), NEW N, NEW i \in 1 .. Len(rs),
           \A j \in 1 .. Len(rs) : rs[j].role = "tool_call" => rs[j].call \in N
    PROVE  CallsAfter(rs, i) \subseteq N
<1> SUFFICES ASSUME NEW x \in CallsAfter(rs, i) PROVE x \in N
  OBVIOUS
<1>1. PICK j \in (i + 1) .. Len(rs) :
          x = rs[j].call /\ \A l \in (i + 1) .. j : rs[l].role = "tool_call"
  BY DEF CallsAfter
<1>2. j \in (i + 1) .. j /\ j \in 1 .. Len(rs)
  OBVIOUS
<1> QED
  BY <1>1, <1>2

\* What a restore makes of rows.
LEMMA RestoreType ==
    ASSUME NEW rs \in Seq(Rows), NEW N, N \subseteq Nat,
           \A j \in 1 .. Len(rs) : rs[j].role \in {"tool_call", "tool"} => rs[j].call \in N
    PROVE  restore_from_db(rs) \in Seq(Restorable(N))
<1> DEFINE f == [i \in 1 .. Len(rs) |-> RowMessage(rs[i], CallsAfter(rs, i))]
<1>1. ASSUME NEW i \in 1 .. Len(rs)
      PROVE  RowMessage(rs[i], CallsAfter(rs, i)) \in Seq(Restorable(N))
  <2> DEFINE calls == CallsAfter(rs, i)
  <2>1. rs[i] \in Rows /\ calls \subseteq N
    BY CallsAfterType
  <2> HIDE DEF calls
  <2>2. User(TRUE) \in Restorable(N)
    BY DEF Restorable, User, Msg, Message, Role
  <2>3. rs[i].text \/ calls # {} => Assistant(calls, rs[i].text) \in Restorable(N)
    BY <2>1 DEF Restorable, Assistant, Msg, Message, Role, Rows
  <2>4. rs[i].role = "tool" => ToolResult(rs[i].call) \in Restorable(N)
    <3> SUFFICES ASSUME rs[i].role = "tool" PROVE ToolResult(rs[i].call) \in Restorable(N)
      OBVIOUS
    <3>1. rs[i].call \in N
      OBVIOUS
    <3> QED
      BY <3>1 DEF Restorable, ToolResult, Msg, Message, Role
  <2>5. ASSUME NEW m \in Restorable(N) PROVE <<m>> \in Seq(Restorable(N))
    OBVIOUS
  <2>6. <<>> \in Seq(Restorable(N))
    OBVIOUS
  <2>7. RowMessage(rs[i], calls) \in Seq(Restorable(N))
    BY <2>2, <2>3, <2>4, <2>5, <2>6 DEF RowMessage
  <2> QED
    BY <2>7 DEF calls
<1>2. f \in [1 .. Len(rs) -> Seq(Restorable(N))] /\ Len(rs) \in Nat
  BY <1>1
<1> HIDE DEF f
<1>3. FlattenSeq(f) \in Seq(Restorable(N))
  BY <1>2, FunctionIsSeq, FlatType
<1> QED
  BY <1>3, RestoreIs DEF f

\* It makes messages.
LEMMA RestoreMessages ==
    ASSUME NEW rs \in Seq(Rows)
    PROVE  restore_from_db(rs) \in Seq(Message)
<1>1. \A j \in 1 .. Len(rs) : rs[j].role \in {"tool_call", "tool"} => rs[j].call \in Nat
  <2>1. \A j \in 1 .. Len(rs) : rs[j] \in Rows
    OBVIOUS
  <2> QED
    BY <2>1 DEF Rows
<1>2. restore_from_db(rs) \in Seq(Restorable(Nat))
  BY <1>1, RestoreType
<1>3. Restorable(Nat) \subseteq Message
  BY DEF Restorable
<1> QED
  BY <1>2, <1>3

\* A restored session has nothing that is not to survive a restart.
LEMMA RestoredVisible ==
    ASSUME NEW N, N \subseteq Nat, NEW hid, N \cap hid = {}, NEW ms \in Seq(Restorable(N))
    PROVE  VisibleLess(ms, hid) = ms /\ ms \in Seq(Message)
<1>1. ms \in Seq(Message)
  <2>1. Restorable(N) \subseteq Message
    BY DEF Restorable
  <2> QED
    BY <2>1
<1>2. ASSUME NEW i \in 1 .. Len(ms) PROVE Shown(ms[i], hid) = <<ms[i]>>
  <2> DEFINE m == ms[i]
  <2>1. m \in Restorable(N)
    OBVIOUS
  <2> HIDE DEF m
  <2>2. m \in Message /\ m.calls \ hid = m.calls
    BY <2>1 DEF Restorable
  <2>3. [m EXCEPT !.calls = @ \ hid] = m
    BY <2>2 DEF Message
  <2> QED
    BY <2>1, <2>3 DEF Shown, Restorable, m
<1> QED
  BY <1>1, <1>2, VisibleAll

RestoreJoins(a, b, c) == restore_from_db(c) = restore_from_db(a) \o restore_from_db(b)
RestoredJoins(a, A, b, B, c, C) == RestoredFrom(c, C) = RestoredFrom(a, A) \o RestoredFrom(b, B)

\* Restoring some rows of whole steps, one behind the other: what follows a
\* row is of its step.
LEMMA RestoredConcat ==
    ASSUME NEW a \in Seq(Rows), NEW b \in Seq(Rows), NEW c, c = a \o b,
           b # <<>> => b[1].role # "tool_call",
           NEW A, NEW B, NEW C,
           \A i \in 1 .. Len(a) : i \in C <=> i \in A,
           \A i \in 1 .. Len(b) : Len(a) + i \in C <=> i \in B
    PROVE  RestoredJoins(a, A, b, B, c, C)
<1> DEFINE n == Len(a)
           all == [i \in 1 .. (n + Len(b)) |-> RowMessage(c[i], CallsAfter(c, i))]
           f == [i \in 1 .. (n + Len(b)) |-> IF i \in C THEN all[i] ELSE <<>>]
           fa == [i \in 1 .. n |-> IF i \in A THEN RowMessage(a[i], CallsAfter(a, i)) ELSE <<>>]
           fb == [i \in 1 .. Len(b) |->
                    IF i \in B THEN RowMessage(b[i], CallsAfter(b, i)) ELSE <<>>]
<1>1. /\ c \in Seq(Rows) /\ Len(c) = n + Len(b) /\ n \in Nat /\ Len(b) \in Nat
      /\ \A i \in 1 .. n : c[i] = a[i]
      /\ \A i \in 1 .. Len(b) : c[n + i] = b[i]
  OBVIOUS
<1>2. Len(b) > 0 => c[n + 1].role # "tool_call" /\ n + 1 \in 1 .. Len(c)
  <2> SUFFICES ASSUME Len(b) > 0
               PROVE  c[n + 1].role # "tool_call" /\ n + 1 \in 1 .. Len(c)
    OBVIOUS
  <2>1. b # <<>> /\ 1 \in 1 .. Len(b)
    BY <1>1
  <2> QED
    BY <1>1, <2>1
<1> HIDE DEF n
<1>3. ASSUME NEW i \in 1 .. n PROVE CallsAfter(c, i) = CallsAfter(a, i)
  <2> DEFINE after(rs) == {k \in (i + 1) .. Len(rs) :
                              \A l \in (i + 1) .. k : rs[l].role = "tool_call"}
  <2>1. after(c) = after(a)
    <3>1. ASSUME NEW k \in after(c) PROVE k \in after(a)
      <4>1. k \in (i + 1) .. Len(c) /\ \A l \in (i + 1) .. k : c[l].role = "tool_call"
        OBVIOUS
      <4>2. k <= n
        <5> SUFFICES ASSUME k > n PROVE FALSE
          BY <1>1, <4>1
        <5>1. n + 1 \in (i + 1) .. k /\ Len(b) > 0
          BY <1>1, <4>1
        <5> QED
          BY <1>2, <4>1, <5>1
      <4>3. \A l \in (i + 1) .. k : l \in 1 .. n
        BY <1>1, <4>2
      <4> QED
        BY <1>1, <4>1, <4>2, <4>3 DEF n
    <3>2. ASSUME NEW k \in after(a) PROVE k \in after(c)
      <4>1. k \in (i + 1) .. n /\ \A l \in (i + 1) .. k : a[l].role = "tool_call"
        BY DEF n
      <4>2. k \in (i + 1) .. Len(c) /\ \A l \in (i + 1) .. k : l \in 1 .. n
        BY <1>1, <4>1
      <4> QED
        BY <1>1, <4>1, <4>2
    <3> QED
      BY <3>1, <3>2
  <2>2. \A k \in after(a) : c[k] = a[k]
    BY <1>1 DEF n
  <2>3. CallsAfter(c, i) = {c[k].call : k \in after(c)}
        /\ CallsAfter(a, i) = {a[k].call : k \in after(a)}
    BY DEF CallsAfter
  <2> HIDE DEF after
  <2>4. {c[k].call : k \in after(a)} = {a[k].call : k \in after(a)}
    BY <2>2
  <2> QED
    BY <2>1, <2>3, <2>4
<1>4. ASSUME NEW i \in 1 .. Len(b) PROVE CallsAfter(c, n + i) = CallsAfter(b, i)
  <2>1. ASSUME NEW x, x \in CallsAfter(c, n + i) PROVE x \in CallsAfter(b, i)
    <3>1. PICK k \in (n + i + 1) .. Len(c) :
              x = c[k].call /\ \A l \in (n + i + 1) .. k : c[l].role = "tool_call"
      BY <2>1 DEF CallsAfter
    <3>2. k - n \in (i + 1) .. Len(b) /\ k - n \in 1 .. Len(b) /\ n + (k - n) = k
      BY <1>1, <3>1
    <3>3. ASSUME NEW l \in (i + 1) .. (k - n) PROVE b[l].role = "tool_call"
      <4>1. n + l \in (n + i + 1) .. k /\ l \in 1 .. Len(b)
        BY <1>1, <3>1, <3>2
      <4> QED
        BY <1>1, <3>1, <4>1
    <3>4. x = b[k - n].call
      BY <1>1, <3>1, <3>2
    <3> QED
      BY <3>2, <3>3, <3>4 DEF CallsAfter
  <2>2. ASSUME NEW x, x \in CallsAfter(b, i) PROVE x \in CallsAfter(c, n + i)
    <3>1. PICK k \in (i + 1) .. Len(b) :
              x = b[k].call /\ \A l \in (i + 1) .. k : b[l].role = "tool_call"
      BY <2>2 DEF CallsAfter
    <3>2. n + k \in (n + i + 1) .. Len(c) /\ k \in 1 .. Len(b)
      BY <1>1, <3>1
    <3>3. ASSUME NEW l \in (n + i + 1) .. (n + k) PROVE c[l].role = "tool_call"
      <4>1. l - n \in (i + 1) .. k /\ l - n \in 1 .. Len(b) /\ n + (l - n) = l
        BY <1>1, <3>1
      <4>2. c[n + (l - n)] = b[l - n] /\ b[l - n].role = "tool_call"
        BY <1>1, <3>1, <4>1
      <4> QED
        BY <4>1, <4>2
    <3>4. x = c[n + k].call
      BY <1>1, <3>1, <3>2
    <3> QED
      BY <3>2, <3>3, <3>4 DEF CallsAfter
  <2> QED
    BY <2>1, <2>2
<1>9. all \in [1 .. (n + Len(b)) -> Seq(Message)]
  <2> SUFFICES ASSUME NEW i \in 1 .. (n + Len(b))
               PROVE  RowMessage(c[i], CallsAfter(c, i)) \in Seq(Message)
    OBVIOUS
  <2>1. i \in 1 .. Len(c) /\ c[i] \in Rows
    BY <1>1
  <2>2. \A j \in 1 .. Len(c) : c[j].role = "tool_call" => c[j].call \in Nat
    <3>1. \A j \in 1 .. Len(c) : c[j] \in Rows
      BY <1>1
    <3> QED
      BY <3>1 DEF Rows
  <2> DEFINE calls == CallsAfter(c, i)
  <2>3. calls \subseteq Nat
    BY <1>1, <2>1, <2>2, CallsAfterType
  <2> HIDE DEF calls
  <2>4. /\ User(TRUE) \in Message /\ Assistant(calls, c[i].text) \in Message
        /\ ToolResult(c[i].call) \in Message
    BY <2>1, <2>3 DEF User, Assistant, ToolResult, Msg, Message, Role, Rows
  <2>5. ASSUME NEW m \in Message PROVE <<m>> \in Seq(Message) /\ <<>> \in Seq(Message)
    OBVIOUS
  <2>6. RowMessage(c[i], calls) \in Seq(Message)
    BY <2>4, <2>5 DEF RowMessage
  <2> QED
    BY <2>6 DEF calls
<1>5. f \in [1 .. (n + Len(b)) -> Seq(Message)]
  <2>1. <<>> \in Seq(Message)
    OBVIOUS
  <2> HIDE DEF all
  <2> QED
    BY <1>9, <2>1
<1>6. /\ [i \in 1 .. n |-> f[i]] = fa
      /\ [i \in 1 .. Len(b) |-> f[n + i]] = fb
  <2>1. \A i \in 1 .. n : f[i] = fa[i]
    <3> SUFFICES ASSUME NEW i \in 1 .. n PROVE f[i] = fa[i]
      OBVIOUS
    <3>1. i \in 1 .. (n + Len(b)) /\ (i \in C <=> i \in A)
      BY <1>1 DEF n
    <3>2. all[i] = RowMessage(a[i], CallsAfter(a, i))
      BY <1>1, <1>3, <3>1
    <3> QED
      BY <3>1, <3>2
  <2>2. \A i \in 1 .. Len(b) : f[n + i] = fb[i]
    <3> SUFFICES ASSUME NEW i \in 1 .. Len(b) PROVE f[n + i] = fb[i]
      OBVIOUS
    <3>1. n + i \in 1 .. (n + Len(b)) /\ (n + i \in C <=> i \in B)
      BY <1>1 DEF n
    <3>2. all[n + i] = RowMessage(b[i], CallsAfter(b, i))
      BY <1>1, <1>4, <3>1
    <3>3. f[n + i] = IF n + i \in C THEN all[n + i] ELSE <<>>
      BY <3>1
    <3> QED
      BY <3>1, <3>2, <3>3
  <2>3. fa = [i \in 1 .. n |-> fa[i]] /\ fb = [i \in 1 .. Len(b) |-> fb[i]]
    OBVIOUS
  <2> HIDE DEF f, fa, fb
  <2> QED
    BY <2>1, <2>2, <2>3
<1>7. /\ RestoredFrom(c, C) = FlattenSeq(f) /\ RestoredFrom(a, A) = FlattenSeq(fa)
      /\ RestoredFrom(b, B) = FlattenSeq(fb)
  <2>1. f = [i \in 1 .. (n + Len(b)) |->
                IF i \in C THEN RowMessage(c[i], CallsAfter(c, i)) ELSE <<>>]
    OBVIOUS
  <2> HIDE DEF f
  <2> QED
    BY <1>1, <2>1, RestoredIs DEF n
<1> HIDE DEF f, fa, fb
<1>8. Splits(f, n, Len(b))
  BY <1>1, <1>5, FlatSplit
<1> QED
  BY <1>6, <1>7, <1>8 DEF Splits, RestoredJoins

\* All of them.
LEMMA RestoreConcat ==
    ASSUME NEW a \in Seq(Rows), NEW b \in Seq(Rows), NEW c, c = a \o b,
           b # <<>> => b[1].role # "tool_call"
    PROVE  RestoreJoins(a, b, c)
<1>1. /\ DOMAIN a = 1 .. Len(a) /\ DOMAIN b = 1 .. Len(b) /\ DOMAIN c = 1 .. (Len(a) + Len(b))
      /\ \A i \in 1 .. Len(a) : i \in 1 .. (Len(a) + Len(b))
      /\ \A i \in 1 .. Len(b) : Len(a) + i \in 1 .. (Len(a) + Len(b))
  OBVIOUS
<1>2. RestoredJoins(a, DOMAIN a, b, DOMAIN b, c, DOMAIN c)
  BY <1>1, RestoredConcat
<1> QED
  BY <1>2 DEF RestoredJoins, RestoreJoins, restore_from_db

\* None of them.
LEMMA RestoredNone ==
    ASSUME NEW rs \in Seq(Rows)
    PROVE  RestoredFrom(rs, {}) = <<>>
<1> DEFINE f == [i \in 1 .. Len(rs) |->
                    IF i \in {} THEN RowMessage(rs[i], CallsAfter(rs, i)) ELSE <<>>]
<1>1. f \in [1 .. Len(rs) -> Seq(Message)] /\ \A i \in 1 .. Len(rs) : f[i] = <<>>
  OBVIOUS
<1>2. RestoredFrom(rs, {}) = FlattenSeq(f) /\ Len(rs) \in Nat
  BY RestoredIs
<1> HIDE DEF f
<1> QED
  BY <1>1, <1>2, FlatAllNone

\* No rows, no messages.
LEMMA RestoreEmpty == restore_from_db(<<>>) = <<>>
<1>1. <<>> \in Seq(Rows) /\ Len(<<>>) = 0
  OBVIOUS
<1>2. restore_from_db(<<>>)
          = FlattenSeq([i \in 1 .. 0 |-> RowMessage((<<>>)[i], CallsAfter(<<>>, i))])
  BY <1>1, RestoreIs
<1>3. [i \in 1 .. 0 |-> RowMessage((<<>>)[i], CallsAfter(<<>>, i))] = <<>>
  OBVIOUS
<1> QED
  BY <1>2, <1>3, FlatEmpty

\* A row by itself.
LEMMA RestoreOne ==
    ASSUME NEW r \in Rows
    PROVE  restore_from_db(<<r>>) = RowMessage(r, {})
<1> DEFINE rs == <<r>>
           x == RowMessage(r, {})
           f == [i \in 1 .. Len(rs) |-> RowMessage(rs[i], CallsAfter(rs, i))]
<1>1. rs \in Seq(Rows) /\ Len(rs) = 1 /\ rs[1] = r
  OBVIOUS
<1> HIDE DEF rs
<1>2. CallsAfter(rs, 1) = {}
  <2>1. (1 + 1) .. Len(rs) = {}
    BY <1>1
  <2> QED
    BY <2>1 DEF CallsAfter
<1>3. x \in Seq(Message)
  <2>1. /\ User(TRUE) \in Message /\ Assistant({}, r.text) \in Message
        /\ ToolResult(r.call) \in Message
    BY DEF User, Assistant, ToolResult, Msg, Message, Role, Rows
  <2>2. ASSUME NEW m \in Message PROVE <<m>> \in Seq(Message) /\ <<>> \in Seq(Message)
    OBVIOUS
  <2> QED
    BY <2>1, <2>2 DEF RowMessage
<1> HIDE DEF x
<1>4. f = Append(<<>>, x)
  <2>1. \A i \in 1 .. 1 : RowMessage(rs[i], CallsAfter(rs, i)) = x
    <3>1. \A i \in 1 .. 1 : i = 1
      OBVIOUS
    <3>2. RowMessage(rs[1], CallsAfter(rs, 1)) = x
      BY <1>1, <1>2 DEF x
    <3> QED
      BY <3>1, <3>2
  <2>2. f = [i \in 1 .. 1 |-> x]
    BY <1>1, <2>1
  <2> HIDE DEF f
  <2> QED
    BY <2>2
<1>5. restore_from_db(rs) = FlattenSeq(f)
  BY <1>1, RestoreIs
<1> HIDE DEF f
<1>6. <<>> \in Seq(Seq(Message)) /\ <<>> \o x = x
  BY <1>3
<1>7. FlattenSeq(f) = FlattenSeq(<<>>) \o x
  BY <1>3, <1>4, <1>6, FlatAppend
<1> QED
  BY <1>5, <1>6, <1>7, FlatEmpty DEF rs, x

\* What persist_tool_step hands over for the calls that are not blocked, and
\* what it stands for.
CallRows(calls) == [i \in DOMAIN calls |-> Row("tool_call", calls[i], TRUE)]
ResultRows(calls) == [i \in DOMAIN calls |-> Row("tool", calls[i], TRUE)]
StepRows(calls, text) == <<Row("assistant", 0, text)>> \o CallRows(calls) \o ResultRows(calls)

StepMessages(calls, text) ==
    (IF text \/ Range(calls) # {} THEN <<Assistant(Range(calls), text)>> ELSE <<>>)
    \o Results(calls)

\* The same, row by row.
StepRowsHave(rs, calls, text, n) ==
    /\ rs \in Seq(Rows) /\ Len(rs) = 1 + (n + n)
    /\ rs[1].role = "assistant" /\ rs[1].text = text
    /\ \A j \in 2 .. (1 + n) : rs[j].role = "tool_call" /\ rs[j].call = calls[j - 1]
    /\ \A j \in (2 + n) .. Len(rs) : rs[j].role = "tool" /\ rs[j].call = calls[j - (1 + n)]

RowsJoined(x, u, v) ==
    /\ x \in Seq(Rows) /\ Len(x) = Len(u) + Len(v)
    /\ \A i \in 1 .. Len(x) : x[i] = IF i <= Len(u) THEN u[i] ELSE v[i - Len(u)]

\* Rows handed over behind others.
LEMMA RowsConcat ==
    ASSUME NEW u \in Seq(Rows), NEW v \in Seq(Rows), NEW x, x = u \o v
    PROVE  RowsJoined(x, u, v)
<1>1. /\ u \o v \in Seq(Rows) /\ Len(u \o v) = Len(u) + Len(v)
      /\ \A i \in 1 .. Len(u \o v) : (u \o v)[i] = IF i <= Len(u) THEN u[i] ELSE v[i - Len(u)]
  BY ConcatFacts
<1> QED
  BY <1>1 DEF RowsJoined

\* persist_tool_step hands over the assistant row, the calls and the
\* results.
LEMMA StepRowsAre ==
    ASSUME NEW calls \in Seq(Nat), NEW text \in BOOLEAN, NEW n, n = Len(calls),
           NEW rs, rs = StepRows(calls, text)
    PROVE  StepRowsHave(rs, calls, text, n)
<1> DEFINE a == <<Row("assistant", 0, text)>>
           c == CallRows(calls)
           r == ResultRows(calls)
           w == a \o c
<1>1. /\ DOMAIN calls = 1 .. n /\ n \in Nat
      /\ \A i \in 1 .. n : calls[i] \in Nat
  OBVIOUS
<1>2. /\ Row("assistant", 0, text) \in Rows
      /\ \A i \in 1 .. n : Row("tool_call", calls[i], TRUE) \in Rows
      /\ \A i \in 1 .. n : Row("tool", calls[i], TRUE) \in Rows
  BY <1>1 DEF Row, Rows
<1>3. a \in Seq(Rows) /\ Len(a) = 1 /\ a[1] = Row("assistant", 0, text)
  BY <1>2
<1>4. /\ c \in Seq(Rows) /\ Len(c) = n
      /\ \A i \in 1 .. n : c[i] = Row("tool_call", calls[i], TRUE)
  <2>1. c \in [1 .. n -> Rows]
    BY <1>1, <1>2 DEF CallRows
  <2> QED
    BY <1>1, <2>1, FunctionIsSeq DEF CallRows
<1>5. /\ r \in Seq(Rows) /\ Len(r) = n
      /\ \A i \in 1 .. n : r[i] = Row("tool", calls[i], TRUE)
  <2>1. r \in [1 .. n -> Rows]
    BY <1>1, <1>2 DEF ResultRows
  <2> QED
    BY <1>1, <2>1, FunctionIsSeq DEF ResultRows
<1> HIDE DEF a, c, r, w
<1>7. /\ w \in Seq(Rows) /\ Len(w) = 1 + n
      /\ \A i \in 1 .. Len(w) : w[i] = IF i <= 1 THEN a[i] ELSE c[i - 1]
  <2>1. w = a \o c
    BY DEF w
  <2>2. RowsJoined(w, a, c)
    BY <1>3, <1>4, <2>1, RowsConcat
  <2> QED
    BY <1>3, <1>4, <2>2 DEF RowsJoined
<1>8. /\ rs \in Seq(Rows) /\ Len(rs) = (1 + n) + n
      /\ \A i \in 1 .. Len(rs) : rs[i] = IF i <= 1 + n THEN w[i] ELSE r[i - (1 + n)]
  <2>1. rs = w \o r
    BY DEF StepRows, a, c, r, w
  <2>2. RowsJoined(rs, w, r)
    BY <1>5, <1>7, <2>1, RowsConcat
  <2> QED
    BY <1>5, <1>7, <2>2 DEF RowsJoined
<1>9. rs[1] = Row("assistant", 0, text)
  <2>1. 1 \in 1 .. Len(rs) /\ 1 <= 1 + n /\ 1 \in 1 .. Len(w)
    BY <1>1, <1>7, <1>8
  <2>2. rs[1] = w[1]
    BY <1>8, <2>1
  <2>3. w[1] = a[1]
    BY <1>7, <2>1
  <2> QED
    BY <1>3, <2>2, <2>3
<1>10. ASSUME NEW j \in 2 .. (1 + n)
       PROVE  rs[j].role = "tool_call" /\ rs[j].call = calls[j - 1]
  <2>1. /\ j \in 1 .. Len(rs) /\ j <= 1 + n /\ j \in 1 .. Len(w) /\ ~ (j <= 1)
        /\ j - 1 \in 1 .. n
    BY <1>1, <1>7, <1>8
  <2>2. rs[j] = w[j]
    BY <1>8, <2>1
  <2>3. w[j] = c[j - 1]
    BY <1>7, <2>1
  <2>4. c[j - 1] = Row("tool_call", calls[j - 1], TRUE)
    BY <1>4, <2>1
  <2>5. rs[j] = Row("tool_call", calls[j - 1], TRUE)
    BY <2>2, <2>3, <2>4
  <2> QED
    BY <2>5 DEF Row
<1>11. ASSUME NEW j \in (2 + n) .. Len(rs)
       PROVE  rs[j].role = "tool" /\ rs[j].call = calls[j - (1 + n)]
  <2>1. j \in 1 .. Len(rs) /\ ~ (j <= 1 + n) /\ j - (1 + n) \in 1 .. n
    BY <1>1, <1>8
  <2>2. rs[j] = r[j - (1 + n)]
    BY <1>8, <2>1
  <2>3. r[j - (1 + n)] = Row("tool", calls[j - (1 + n)], TRUE)
    BY <1>5, <2>1
  <2>4. rs[j] = Row("tool", calls[j - (1 + n)], TRUE)
    BY <2>2, <2>3
  <2> QED
    BY <2>4 DEF Row
<1>12. Len(rs) = 1 + (n + n)
  BY <1>1, <1>8
<1>13. rs[1].role = "assistant" /\ rs[1].text = text
  BY <1>9 DEF Row
<1> QED
  BY <1>8, <1>10, <1>11, <1>12, <1>13 DEF StepRowsHave

\* The rows of a step restore its calls and their results.
LEMMA RestoreTools ==
    ASSUME NEW calls \in Seq(Nat), NEW text \in BOOLEAN
    PROVE  restore_from_db(StepRows(calls, text)) = StepMessages(calls, text)
<1> DEFINE rs == StepRows(calls, text)
           n == Len(calls)
           f == [i \in 1 .. Len(rs) |-> RowMessage(rs[i], CallsAfter(rs, i))]
           head == IF text \/ Range(calls) # {} THEN <<Assistant(Range(calls), text)>> ELSE <<>>
<1>1. /\ rs \in Seq(Rows) /\ Len(rs) = 1 + (n + n)
      /\ rs[1].role = "assistant" /\ rs[1].text = text
      /\ \A j \in 2 .. (1 + n) : rs[j].role = "tool_call" /\ rs[j].call = calls[j - 1]
      /\ \A j \in (2 + n) .. Len(rs) : rs[j].role = "tool" /\ rs[j].call = calls[j - (1 + n)]
  <2> HIDE DEF rs, n
  <2>1. rs = StepRows(calls, text) /\ n = Len(calls)
    BY DEF rs, n
  <2>2. StepRowsHave(rs, calls, text, n)
    BY <2>1, StepRowsAre
  <2> QED
    BY <2>2 DEF StepRowsHave
<1>2. DOMAIN calls = 1 .. n /\ n \in Nat /\ \A i \in 1 .. n : calls[i] \in Nat
  OBVIOUS
<1>3. head \in Seq(Message) /\ Results(calls) \in Seq(Message) /\ Len(Results(calls)) = n
      /\ \A i \in 1 .. n : Results(calls)[i] = ToolResult(calls[i])
  <2>1. <<>> \in Seq(Message)
    OBVIOUS
  <2> QED
    BY <2>1, ResultsType
<1> HIDE DEF rs, n
<1>4. CallsAfter(rs, 1) = Range(calls)
  <2>1. ASSUME NEW x, x \in CallsAfter(rs, 1) PROVE x \in Range(calls)
    <3>1. PICK k \in (1 + 1) .. Len(rs) :
              x = rs[k].call /\ \A l \in (1 + 1) .. k : rs[l].role = "tool_call"
      BY <2>1 DEF CallsAfter
    <3>2. k <= 1 + n
      <4> SUFFICES ASSUME k > 1 + n PROVE FALSE
        BY <1>1, <1>2, <3>1
      <4>1. k \in (2 + n) .. Len(rs) /\ k \in (1 + 1) .. k
        BY <1>1, <1>2
      <4>2. rs[k].role = "tool"
        BY <1>1, <4>1
      <4> QED
        BY <3>1, <4>1, <4>2
    <3>3. k - 1 \in 1 .. n /\ k \in 2 .. (1 + n)
      BY <1>2, <3>1, <3>2
    <3>4. x = calls[k - 1]
      BY <1>1, <3>1, <3>3
    <3> QED
      BY <1>2, <3>3, <3>4 DEF Range
  <2>2. ASSUME NEW x, x \in Range(calls) PROVE x \in CallsAfter(rs, 1)
    <3>1. PICK i \in 1 .. n : x = calls[i]
      BY <1>2, <2>2 DEF Range
    <3>2. 1 + i \in (1 + 1) .. Len(rs) /\ x = rs[1 + i].call
      <4>1. 1 + i \in 2 .. (1 + n) /\ (1 + i) - 1 = i /\ 1 + i \in (1 + 1) .. Len(rs)
        BY <1>1, <1>2
      <4>2. rs[1 + i].call = calls[(1 + i) - 1]
        BY <1>1, <4>1
      <4> QED
        BY <3>1, <4>1, <4>2
    <3>3. ASSUME NEW l \in (1 + 1) .. (1 + i) PROVE rs[l].role = "tool_call"
      <4>1. l \in 2 .. (1 + n)
        BY <1>2
      <4> QED
        BY <1>1, <4>1
    <3> QED
      BY <3>2, <3>3 DEF CallsAfter
  <2> QED
    BY <2>1, <2>2
<1>5. RowMessage(rs[1], CallsAfter(rs, 1)) = head
  BY <1>1, <1>4 DEF RowMessage
<1>6. \A j \in 2 .. (1 + n) : RowMessage(rs[j], CallsAfter(rs, j)) = <<>>
  BY <1>1 DEF RowMessage
<1>7. \A j \in (2 + n) .. Len(rs) :
         RowMessage(rs[j], CallsAfter(rs, j)) = <<ToolResult(calls[j - (1 + n)])>>
  BY <1>1 DEF RowMessage
<1> HIDE DEF head
<1> DEFINE g == [i \in 1 .. (n + n) |-> f[1 + i]]
           p == [i \in 1 .. n |-> g[i]]
           q == [i \in 1 .. n |-> g[n + i]]
<1>8. /\ \A i \in 1 .. (n + n) : 1 + i \in 1 .. Len(rs)
      /\ \A i \in 1 .. n : i \in 1 .. (n + n) /\ n + i \in 1 .. (n + n) /\ 1 + (n + i) = 1 + n + i
      /\ 1 \in 1 .. Len(rs) /\ n + n \in Nat
  BY <1>1, <1>2
<1>9. f[1] = head
  BY <1>5, <1>8
<1>10. \A i \in 1 .. n : p[i] = <<>>
  <2> SUFFICES ASSUME NEW i \in 1 .. n PROVE p[i] = <<>>
    OBVIOUS
  <2>1. p[i] = f[1 + i] /\ 1 + i \in 2 .. (1 + n)
    BY <1>2, <1>8
  <2>2. f[1 + i] = RowMessage(rs[1 + i], CallsAfter(rs, 1 + i))
    BY <1>8
  <2> QED
    BY <1>6, <2>1, <2>2
<1>11. \A i \in 1 .. n : q[i] = <<Results(calls)[i]>>
  <2> SUFFICES ASSUME NEW i \in 1 .. n PROVE q[i] = <<Results(calls)[i]>>
    OBVIOUS
  <2> DEFINE j == 1 + (n + i)
  <2>1. q[i] = f[j]
    BY <1>8
  <2>2. j \in 1 .. Len(rs) /\ j \in (2 + n) .. Len(rs) /\ j - (1 + n) = i
    BY <1>1, <1>2
  <2> HIDE DEF j
  <2>3. f[j] = RowMessage(rs[j], CallsAfter(rs, j))
    BY <2>2
  <2> QED
    BY <1>3, <1>7, <2>1, <2>2, <2>3
<1>12. restore_from_db(rs) = FlattenSeq(f)
  BY <1>1, RestoreIs
<1>13. f \in [1 .. (1 + (n + n)) -> Seq(Message)]
  <2>1. ASSUME NEW i \in 1 .. (1 + (n + n)) PROVE f[i] \in Seq(Message)
    <3>1. CASE i = 1
      BY <1>3, <1>9, <3>1
    <3>2. CASE i \in 2 .. (1 + n)
      <4>1. i \in 1 .. Len(rs)
        BY <1>1, <1>2
      <4>2. f[i] = <<>>
        BY <1>6, <3>2, <4>1
      <4>3. <<>> \in Seq(Message)
        OBVIOUS
      <4> QED
        BY <4>2, <4>3
    <3>3. CASE i > 1 + n
      <4>1. i - (1 + n) \in 1 .. n /\ i \in (2 + n) .. Len(rs) /\ i \in 1 .. Len(rs)
        BY <1>1, <1>2, <3>3
      <4>2. f[i] = <<ToolResult(calls[i - (1 + n)])>>
        BY <1>7, <4>1
      <4>3. ToolResult(calls[i - (1 + n)]) \in Message
        BY <1>2, <4>1 DEF ToolResult, Msg, Message, Role
      <4>4. ASSUME NEW m \in Message PROVE <<m>> \in Seq(Message)
        OBVIOUS
      <4> QED
        BY <4>2, <4>3, <4>4
    <3> QED
      BY <1>2, <3>1, <3>2, <3>3
  <2>2. f = [i \in 1 .. (1 + (n + n)) |-> f[i]]
    BY <1>1
  <2> HIDE DEF f
  <2> QED
    BY <2>1, <2>2
<1> HIDE DEF f
<1>14. Splits(f, 1, n + n)
  BY <1>8, <1>13, FlatSplit
<1>15. g \in [1 .. (n + n) -> Seq(Message)]
  BY <1>1, <1>8, <1>13
<1>16. FlattenSeq([i \in 1 .. 1 |-> f[i]]) = head
  <2> DEFINE h == [i \in 1 .. 1 |-> f[i]]
  <2>1. h = Append(<<>>, head)
    BY <1>9
  <2>2. <<>> \in Seq(Seq(Message)) /\ <<>> \o head = head
    BY <1>3
  <2> HIDE DEF h
  <2>3. FlattenSeq(h) = FlattenSeq(<<>>) \o head
    BY <1>3, <2>1, <2>2, FlatAppend
  <2> QED
    BY <2>2, <2>3, FlatEmpty DEF h
<1>17. p \in [1 .. n -> Seq(Message)] /\ q \in [1 .. n -> Seq(Message)]
  BY <1>8, <1>15
<1> HIDE DEF g
<1>18. Splits(g, n, n)
  BY <1>2, <1>15, FlatSplit
<1> HIDE DEF p, q
<1>19. FlattenSeq(p) = <<>>
  BY <1>2, <1>10, <1>17, FlatAllNone
<1>20. FlattenSeq(q) = Results(calls)
  BY <1>3, <1>11, <1>17, FlatSingle
<1>21. FlattenSeq(g) = <<>> \o Results(calls) /\ <<>> \o Results(calls) = Results(calls)
  <2>1. <<>> \o Results(calls) = Results(calls)
    BY <1>3
  <2>2. FlattenSeq(g) = FlattenSeq(p) \o FlattenSeq(q)
    BY <1>18 DEF Splits, p, q
  <2> QED
    BY <1>19, <1>20, <2>1, <2>2
<1>22. FlattenSeq(f) = head \o Results(calls)
  BY <1>14, <1>16, <1>21 DEF Splits, g
<1> QED
  BY <1>12, <1>22 DEF StepMessages, head, rs

\* What a tool step adds to the messages.
StepAdds(calls, blocked, text) ==
    <<Assistant(Range(calls \o blocked), text)>> \o Results(calls) \o Results(blocked)

\* The results of two lists of calls.
LEMMA ResultsConcat ==
    ASSUME NEW a \in Seq(Nat), NEW b \in Seq(Nat), NEW c, c = a \o b
    PROVE  /\ Results(c) = Results(a) \o Results(b) /\ c \in Seq(Nat)
           /\ Range(c) = Range(a) \cup Range(b)
<1> DEFINE x == Results(a)
           y == Results(b)
           z == Results(c)
<1>1. /\ c \in Seq(Nat) /\ Len(c) = Len(a) + Len(b) /\ Len(a) \in Nat /\ Len(b) \in Nat
      /\ DOMAIN a = 1 .. Len(a) /\ DOMAIN b = 1 .. Len(b) /\ DOMAIN c = 1 .. Len(c)
      /\ \A i \in 1 .. Len(a) : c[i] = a[i]
      /\ \A i \in 1 .. Len(b) : c[Len(a) + i] = b[i]
      /\ \A i \in 1 .. Len(c) : c[i] = IF i <= Len(a) THEN a[i] ELSE b[i - Len(a)]
  OBVIOUS
<1>2. /\ x \in Seq(Message) /\ Len(x) = Len(a) /\ \A i \in 1 .. Len(a) : x[i] = ToolResult(a[i])
      /\ y \in Seq(Message) /\ Len(y) = Len(b) /\ \A i \in 1 .. Len(b) : y[i] = ToolResult(b[i])
      /\ z \in Seq(Message) /\ Len(z) = Len(c) /\ \A i \in 1 .. Len(c) : z[i] = ToolResult(c[i])
  BY <1>1, ResultsType
<1> HIDE DEF x, y, z
<1>3. /\ x \o y \in Seq(Message) /\ Len(x \o y) = Len(x) + Len(y)
      /\ \A i \in 1 .. Len(x \o y) : (x \o y)[i] = IF i <= Len(x) THEN x[i] ELSE y[i - Len(x)]
  <2>1. ASSUME NEW u \in Seq(Message), NEW v \in Seq(Message)
        PROVE  /\ u \o v \in Seq(Message) /\ Len(u \o v) = Len(u) + Len(v)
               /\ \A i \in 1 .. Len(u \o v) :
                     (u \o v)[i] = IF i <= Len(u) THEN u[i] ELSE v[i - Len(u)]
    BY ConcatFacts
  <2> QED
    BY <1>2, <2>1
<1>4. ASSUME NEW i \in 1 .. Len(z) PROVE z[i] = (x \o y)[i]
  <2>1. i \in 1 .. Len(c) /\ i \in 1 .. Len(x \o y)
    BY <1>1, <1>2, <1>3
  <2>2. CASE i <= Len(a)
    <3>1. i \in 1 .. Len(a)
      BY <1>1, <2>1, <2>2
    <3>2. z[i] = ToolResult(a[i]) /\ x[i] = ToolResult(a[i])
      BY <1>1, <1>2, <2>1, <3>1
    <3> QED
      BY <1>2, <1>3, <2>1, <2>2, <3>2
  <2>3. CASE i > Len(a)
    <3>1. i - Len(a) \in 1 .. Len(b) /\ ~ (i <= Len(a))
      BY <1>1, <2>1, <2>3
    <3>2. z[i] = ToolResult(b[i - Len(a)]) /\ y[i - Len(a)] = ToolResult(b[i - Len(a)])
      BY <1>1, <1>2, <2>1, <3>1
    <3> QED
      BY <1>2, <1>3, <2>1, <3>1, <3>2
  <2> QED
    BY <1>1, <2>1, <2>2, <2>3
<1>5. z = x \o y
  <2>1. Len(z) = Len(x \o y)
    BY <1>1, <1>2, <1>3
  <2> QED
    BY <1>2, <1>3, <1>4, <2>1, SeqEqual
<1>6. Range(c) = Range(a) \cup Range(b)
  <2>1. ASSUME NEW v, v \in Range(c) PROVE v \in Range(a) \cup Range(b)
    <3>1. PICK i \in 1 .. Len(c) : v = c[i]
      BY <1>1, <2>1 DEF Range
    <3>2. CASE i <= Len(a)
      <4>1. i \in 1 .. Len(a)
        BY <1>1, <3>2
      <4> QED
        BY <1>1, <3>1, <4>1 DEF Range
    <3>3. CASE i > Len(a)
      <4>1. i - Len(a) \in 1 .. Len(b) /\ ~ (i <= Len(a))
        BY <1>1, <3>3
      <4> QED
        BY <1>1, <3>1, <4>1 DEF Range
    <3> QED
      BY <1>1, <3>2, <3>3
  <2>2. ASSUME NEW v, v \in Range(a) PROVE v \in Range(c)
    <3>1. PICK i \in 1 .. Len(a) : v = a[i]
      BY <1>1, <2>2 DEF Range
    <3>2. i \in 1 .. Len(c)
      BY <1>1
    <3> QED
      BY <1>1, <3>1, <3>2 DEF Range
  <2>3. ASSUME NEW v, v \in Range(b) PROVE v \in Range(c)
    <3>1. PICK i \in 1 .. Len(b) : v = b[i]
      BY <1>1, <2>3 DEF Range
    <3>2. Len(a) + i \in 1 .. Len(c)
      BY <1>1
    <3> QED
      BY <1>1, <3>1, <3>2 DEF Range
  <2> QED
    BY <2>1, <2>2, <2>3
<1> QED
  BY <1>1, <1>5, <1>6 DEF x, y, z

\* A tool step is paired by itself, blocked calls included.
LEMMA StepPaired ==
    ASSUME NEW calls \in Seq(Nat), NEW blocked \in Seq(Nat), NEW text \in BOOLEAN,
           NEW ms, ms = StepAdds(calls, blocked, text)
    PROVE  ms \in Seq(Message) /\ Paired(ms)
<1> DEFINE all == calls \o blocked
           a == <<Assistant(Range(all), text)>>
           x == Results(calls)
           y == Results(blocked)
<1>1. all \in Seq(Nat) /\ Results(all) = x \o y
  BY ResultsConcat
<1>2. ms = a \o x \o y
  BY DEF StepAdds
<1> HIDE DEF all
<1>3. a \in Seq(Message) /\ x \in Seq(Message) /\ y \in Seq(Message)
  BY <1>1, ResultsType
<1> HIDE DEF a, x, y
<1>4. ms = a \o (x \o y)
  <2> DEFINE front == a \o x
             back == x \o y
  <2>1. front = a \o x /\ back = x \o y /\ ms = front \o y
    BY <1>2
  <2> HIDE DEF front, back
  <2>2. Grouped(front, y, a, back)
    BY <1>3, <2>1, Regroup
  <2> QED
    BY <2>1, <2>2 DEF Grouped, back
<1>5. ResultsOf(ms, all, text)
  BY <1>1, <1>4 DEF ResultsOf, a
<1> QED
  BY <1>1, <1>5, PairedTools

\* Of a tool step the calls that are not blocked survive a restart.
LEMMA StepVisible ==
    ASSUME NEW calls \in Seq(Nat), NEW blocked \in Seq(Nat), NEW text \in BOOLEAN,
           NEW hid, Range(blocked) \subseteq hid, Range(calls) \cap hid = {},
           NEW ms, ms = StepAdds(calls, blocked, text)
    PROVE  VisibleLess(ms, hid) = StepMessages(calls, text)
<1> DEFINE all == calls \o blocked
           m == Assistant(Range(all), text)
           x == Results(calls)
           y == Results(blocked)
           head == IF text \/ Range(calls) # {} THEN <<Assistant(Range(calls), text)>> ELSE <<>>
<1>1. all \in Seq(Nat) /\ Range(all) = Range(calls) \cup Range(blocked)
  BY ResultsConcat
<1>2. ms = <<m>> \o x \o y
  BY DEF StepAdds
<1> HIDE DEF all
<1>3. /\ x \in Seq(Message) /\ Len(x) = Len(calls)
      /\ \A i \in 1 .. Len(calls) : x[i] = ToolResult(calls[i])
      /\ y \in Seq(Message) /\ Len(y) = Len(blocked)
      /\ \A i \in 1 .. Len(blocked) : y[i] = ToolResult(blocked[i])
      /\ m \in Message /\ <<m>> \in Seq(Message)
  <2>1. Range(all) \subseteq Nat
    BY <1>1, ResultsType
  <2>2. m \in Message
    BY <2>1 DEF Assistant, Msg, Message, Role
  <2> HIDE DEF m
  <2>3. <<m>> \in Seq(Message)
    BY <2>2
  <2> QED
    BY <2>2, <2>3, ResultsType
<1>4. Shown(m, hid) = head
  <2>1. Range(all) \ hid = Range(calls)
    BY <1>1
  <2>2. m.role = "assistant" /\ m.calls = Range(all) /\ m.text = text
    BY DEF Assistant, Msg
  <2> DEFINE k == [m EXCEPT !.calls = @ \ hid]
  <2>3. k \in Message /\ k.role = "assistant" /\ k.calls = Range(calls) /\ k.text = text
    <3> HIDE DEF m
    <3> QED
      BY <1>3, <2>1, <2>2 DEF Message
  <2>4. Shown(m, hid) = IF k.calls = {} /\ ~k.text THEN <<>> ELSE <<k>>
    BY <2>3 DEF Shown
  <2> HIDE DEF k
  <2>5. k = Assistant(Range(calls), text)
    BY <2>3 DEF Message, Assistant, Msg
  <2> QED
    BY <2>3, <2>4, <2>5
<1> HIDE DEF x, y
<1>5. ASSUME NEW i \in 1 .. Len(x) PROVE Shown(x[i], hid) = <<x[i]>>
  <2>1. x[i] = ToolResult(calls[i]) /\ calls[i] \in Range(calls)
    <3>1. i \in 1 .. Len(calls) /\ i \in DOMAIN calls
      BY <1>3
    <3> QED
      BY <1>3, <3>1 DEF Range
  <2>2. {calls[i]} \ hid = {calls[i]}
    BY <2>1
  <2> DEFINE k == x[i]
  <2>3. k.role = "tool" /\ k.calls # {} /\ k.calls \ hid = k.calls
    BY <2>1, <2>2 DEF ToolResult, Msg
  <2>4. k \in Message
    BY <1>3
  <2> HIDE DEF k
  <2>5. [k EXCEPT !.calls = @ \ hid] = k
    BY <2>3, <2>4 DEF Message
  <2>6. Shown(k, hid) = <<k>>
    BY <2>3, <2>5 DEF Shown
  <2> QED
    BY <2>6 DEF k
<1>6. ASSUME NEW i \in 1 .. Len(y) PROVE Shown(y[i], hid) = <<>>
  <2>1. y[i] = ToolResult(blocked[i]) /\ blocked[i] \in Range(blocked)
    <3>1. i \in 1 .. Len(blocked) /\ i \in DOMAIN blocked
      BY <1>3
    <3> QED
      BY <1>3, <3>1 DEF Range
  <2>2. {blocked[i]} \ hid = {}
    BY <2>1
  <2>3. [y[i] EXCEPT !.calls = @ \ hid].calls = {} /\ [y[i] EXCEPT !.calls = @ \ hid].role = "tool"
    BY <2>1, <2>2 DEF ToolResult, Msg
  <2> QED
    BY <2>3 DEF Shown
<1> HIDE DEF x, y, m, head
<1>7. VisibleLess(<<m>>, hid) = head
  BY <1>3, <1>4, VisibleOne
<1>8. VisibleLess(x, hid) = x
  BY <1>3, <1>5, VisibleAll
<1>9. VisibleLess(y, hid) = <<>>
  BY <1>3, <1>6, VisibleNone
<1> DEFINE w == <<m>> \o x
<1>10. w = <<m>> \o x /\ w \in Seq(Message) /\ ms = w \o y
  BY <1>2, <1>3
<1> HIDE DEF w
<1>11. VisibleJoins(<<m>>, x, w, hid)
  BY <1>3, <1>10, VisibleConcat
<1>12. VisibleJoins(w, y, ms, hid)
  BY <1>3, <1>10, VisibleConcat
<1>13. VisibleLess(w, hid) = head \o x
  BY <1>7, <1>8, <1>11 DEF VisibleJoins
<1>14. VisibleLess(w, hid) \in Seq(Message)
  BY <1>10, VisibleType
<1>15. VisibleLess(ms, hid) = VisibleLess(w, hid) \o <<>>
  BY <1>9, <1>12 DEF VisibleJoins
<1>16. VisibleLess(w, hid) \o <<>> = VisibleLess(w, hid)
  BY <1>14
<1> QED
  BY <1>13, <1>15, <1>16 DEF StepMessages, head, x

\* And so is what is restored of it.
LEMMA StepMessagesPaired ==
    ASSUME NEW calls \in Seq(Nat), NEW text \in BOOLEAN
    PROVE  StepMessages(calls, text) \in Seq(Message) /\ Paired(StepMessages(calls, text))
<1> DEFINE ms == StepMessages(calls, text)
<1>1. CASE text \/ Range(calls) # {}
  <2>1. ResultsOf(ms, calls, text)
    BY <1>1 DEF ResultsOf, StepMessages
  <2> HIDE DEF ms
  <2>2. ms \in Seq(Message) /\ Paired(ms)
    BY <2>1, PairedTools
  <2> QED
    BY <2>2 DEF ms
<1>2. CASE ~ (text \/ Range(calls) # {})
  <2>1. Len(calls) = 0
    <3> SUFFICES ASSUME Len(calls) # 0 PROVE FALSE
      OBVIOUS
    <3>1. 1 \in DOMAIN calls
      OBVIOUS
    <3>2. calls[1] \in Range(calls)
      BY <3>1 DEF Range
    <3> QED
      BY <1>2, <3>2
  <2>2. Results(calls) = <<>>
    <3>1. Results(calls) \in Seq(Message) /\ Len(Results(calls)) = 0
      BY <2>1, ResultsType
    <3> QED
      BY <3>1, EmptySeq
  <2>3. ms = <<>> \o <<>> /\ <<>> \o <<>> = <<>>
    BY <1>2, <2>2 DEF StepMessages
  <2>4. <<>> \in Seq(Message)
    OBVIOUS
  <2> HIDE DEF ms
  <2>5. ms \in Seq(Message) /\ Paired(ms)
    BY <2>3, <2>4, PairedEmpty
  <2> QED
    BY <2>5 DEF ms
<1> QED
  BY <1>1, <1>2

-----------------------------------------------------------------------------
(* The invariant of the loop.                                              *)

\* Calls made so far, and those of them that nobody blocked.
Calls == 1 .. (nextCall - 1)
Allowed == Calls \ hidden

CallsInv ==
    /\ nextCall \in Nat \ {0} /\ hidden \subseteq Calls
    /\ tool_calls \in Seq(Nat) /\ blocked_calls \in Seq(Nat) /\ answerText \in BOOLEAN
    /\ Range(tool_calls) \subseteq Allowed
    /\ Range(blocked_calls) \subseteq hidden

PlaceInv ==
    /\ pc = "recovering" => level \in 1 .. Len(Levels)
    /\ pc = "waiting" => ~prune_dirty_

\* The rows between two steps restore a list that is paired, unless half a
\* step has ever been found in the file.
RowsInv ==
    /\ rows \in Seq(Rows) /\ stored \in 0 .. Len(rows) /\ boundaries \subseteq 0 .. Len(rows)
    /\ planned \subseteq 1 .. Len(rows)
    /\ \A j \in 1 .. Len(rows) : rows[j].role \in {"tool_call", "tool"} => rows[j].call \in Allowed
    /\ ~torn => /\ Len(rows) \in boundaries
                /\ \A b \in boundaries : Paired(restore_from_db(SubSeq(rows, 1, b)))

\* Nothing shows a call that has not been made yet.
Known(n) == {m \in Message : m.calls \subseteq 1 .. (n - 1)}

Kept ==
    ~compacted => /\ messages_ \in Seq(Known(nextCall))
                  /\ RestoredFrom(rows, DOMAIN rows \ planned) = VisibleLess(messages_, hidden)

\* What the runs' rows restore, and what they do with some more rows behind them.
OwnJoins(added) ==
    RestoredFrom(rows', DOMAIN rows' \ planned')
       = RestoredFrom(rows, DOMAIN rows \ planned) \o restore_from_db(added)

Whole == ~torn => Paired(messages_)

LoopInv == HistoryInv /\ CallsInv /\ PlaceInv /\ RowsInv /\ Kept /\ Whole

\* No calls.
LEMMA EmptyRange == Range(<<>>) = {}
  BY DEF Range

\* The end of a run leaves no calls under way.
LEMMA EndRunKeeps ==
    ASSUME CallsInv, EndRun, UNCHANGED <<hidden, nextCall>>
    PROVE  CallsInv' /\ PlaceInv'
<1>1. /\ pc' = "idle" /\ tool_calls' = <<>> /\ blocked_calls' = <<>> /\ answerText' = FALSE
  BY DEF EndRun
<1>2. PlaceInv'
  BY <1>1 DEF PlaceInv
<1>3. Range(tool_calls') = {} /\ Range(blocked_calls') = {}
  BY <1>1, EmptyRange
<1>4. <<>> \in Seq(Nat)
  OBVIOUS
<1> QED
  BY <1>1, <1>2, <1>3, <1>4 DEF CallsInv, Calls, Allowed

\* CallsInv looks at the calls alone,
LEMMA CallsFrame ==
    ASSUME CallsInv, UNCHANGED <<hidden, nextCall, tool_calls, blocked_calls, answerText>>
    PROVE  CallsInv'
  BY DEF CallsInv, Calls, Allowed

\* RowsInv at the rows and the blocked calls,
LEMMA RowsFrame ==
    ASSUME RowsInv, UNCHANGED <<rows, stored, boundaries, torn, planned, hidden, nextCall>>
    PROVE  RowsInv'
  BY DEF RowsInv, Calls, Allowed

\* Kept at the messages and the rows.
LEMMA KeptFrame ==
    ASSUME Kept, UNCHANGED <<messages_, rows, planned, hidden, nextCall, compacted>>
    PROVE  Kept'
  BY DEF Kept

\* Messages whose calls are known are messages.
LEMMA KnownTypes ==
    ASSUME NEW n, NEW ms \in Seq(Known(n))
    PROVE  ms \in Seq(Message)
<1>1. Known(n) \subseteq Message
  BY DEF Known
<1> QED
  BY <1>1

\* The rows of whole steps are handed over.
LEMMA PersistKeeps ==
    ASSUME RowsInv, NEW new \in Seq(Rows), new # <<>> => new[1].role # "tool_call",
           \A j \in 1 .. Len(new) : new[j].role \in {"tool_call", "tool"} => new[j].call \in Allowed,
           Paired(restore_from_db(new)), Persist(new), UNCHANGED <<hidden, nextCall>>,
           \/ planned' = planned
           \/ new # <<>> /\ planned' = planned \cup {Len(rows')}
    PROVE  RowsInv' /\ (planned' = planned => OwnJoins(new))
<1> DEFINE n == Len(rows)
<1>1. /\ rows \in Seq(Rows) /\ stored \in 0 .. n /\ boundaries \subseteq 0 .. n /\ n \in Nat
      /\ \A j \in 1 .. n : rows[j].role \in {"tool_call", "tool"} => rows[j].call \in Allowed
  BY DEF RowsInv
<1>2. rows' = rows \o new /\ boundaries' = boundaries \cup {Len(rows')}
      /\ stored' = stored /\ torn' = torn /\ Allowed' = Allowed
  BY DEF Persist, Allowed, Calls
<1>3. RowsJoined(rows', rows, new)
  BY <1>1, <1>2, RowsConcat
<1>4. /\ rows' \in Seq(Rows) /\ Len(rows') = n + Len(new) /\ Len(new) \in Nat
      /\ \A i \in 1 .. Len(rows') : rows'[i] = IF i <= n THEN rows[i] ELSE new[i - n]
  BY <1>3 DEF RowsJoined
<1>5. RestoreJoins(rows, new, rows')
  BY <1>1, <1>2, RestoreConcat
<1> HIDE DEF n
<1>6. stored' \in 0 .. Len(rows') /\ boundaries' \subseteq 0 .. Len(rows')
  <2>1. /\ Len(rows') \in Nat /\ n <= Len(rows')
        /\ \A i \in 0 .. n : i \in 0 .. Len(rows')
    BY <1>1, <1>4
  <2>2. Len(rows') \in 0 .. Len(rows')
    BY <2>1
  <2> QED
    BY <1>1, <1>2, <2>1, <2>2
<1>7. ASSUME NEW j \in 1 .. Len(rows'), rows'[j].role \in {"tool_call", "tool"}
      PROVE  rows'[j].call \in Allowed'
  <2>1. CASE j <= n
    <3>1. j \in 1 .. n /\ rows'[j] = rows[j]
      BY <1>1, <1>4, <2>1
    <3> QED
      BY <1>1, <1>2, <1>7, <3>1
  <2>2. CASE j > n
    <3>1. j - n \in 1 .. Len(new) /\ ~ (j <= n)
      BY <1>1, <1>4, <2>2
    <3>2. rows'[j] = new[j - n]
      BY <1>4, <3>1
    <3> QED
      BY <1>2, <1>7, <3>1, <3>2
  <2> QED
    BY <1>1, <1>4, <2>1, <2>2
<1>8. ASSUME ~torn, NEW b \in boundaries'
      PROVE  Paired(restore_from_db(SubSeq(rows', 1, b)))
  <2>1. n \in boundaries /\ \A d \in boundaries : Paired(restore_from_db(SubSeq(rows, 1, d)))
    BY <1>8 DEF RowsInv, n
  <2>2. CASE b \in boundaries
    <3>1. ASSUME NEW s \in Seq(Rows), NEW d \in 0 .. Len(s)
          PROVE  SubSeq(s \o new, 1, d) = SubSeq(s, 1, d)
      OBVIOUS
    <3>2. SubSeq(rows', 1, b) = SubSeq(rows, 1, b)
      BY <1>1, <1>2, <2>2, <3>1 DEF n
    <3> QED
      BY <2>1, <2>2, <3>2
  <2>3. CASE b = Len(rows')
    <3>1. SubSeq(rows', 1, b) = rows' /\ SubSeq(rows, 1, n) = rows
      <4>1. ASSUME NEW s \in Seq(Rows) PROVE SubSeq(s, 1, Len(s)) = s
        OBVIOUS
      <4> QED
        BY <1>1, <1>4, <2>3, <4>1 DEF n
    <3>2. Paired(restore_from_db(rows))
      BY <2>1, <3>1
    <3>3. restore_from_db(rows) \in Seq(Message) /\ restore_from_db(new) \in Seq(Message)
      BY <1>1, RestoreMessages
    <3>4. Paired(restore_from_db(rows'))
      BY <1>5, <3>2, <3>3, PairedConcat DEF RestoreJoins
    <3> QED
      BY <3>1, <3>4
  <2> QED
    BY <1>2, <2>2, <2>3
<1>9. planned' \subseteq 1 .. Len(rows')
  <2>1. planned \subseteq 1 .. n
    BY DEF RowsInv, n
  <2>2. /\ \A i \in 1 .. n : i \in 1 .. Len(rows')
        /\ new # <<>> => Len(rows') \in 1 .. Len(rows')
    BY <1>1, <1>4
  <2> QED
    BY <2>1, <2>2
<1>10. RowsInv'
  BY <1>2, <1>4, <1>6, <1>7, <1>8, <1>9 DEF RowsInv
<1>11. planned' = planned => OwnJoins(new)
  <2> SUFFICES ASSUME planned' = planned PROVE OwnJoins(new)
    OBVIOUS
  <2>1. /\ DOMAIN rows = 1 .. n /\ DOMAIN new = 1 .. Len(new) /\ DOMAIN rows' = 1 .. (n + Len(new))
        /\ planned \subseteq 1 .. n
    BY <1>1, <1>4 DEF RowsInv, n
  <2>2. /\ \A i \in 1 .. n : i \in 1 .. (n + Len(new))
        /\ \A i \in 1 .. Len(new) : n + i \in 1 .. (n + Len(new)) /\ n + i \notin 1 .. n
    BY <1>1, <1>4
  <2>3. RestoredJoins(rows, DOMAIN rows \ planned, new, DOMAIN new, rows', DOMAIN rows' \ planned)
    BY <1>1, <1>2, <2>1, <2>2, RestoredConcat DEF n
  <2> QED
    BY <2>3 DEF RestoredJoins, OwnJoins, restore_from_db
<1> QED
  BY <1>10, <1>11

\* The messages grow by some of which the rows restore what is visible.
LEMMA GrowKeeps ==
    ASSUME Kept, NEW base \in Seq(Message), NEW new \in Seq(Message), NEW added \in Seq(Rows),
           OwnJoins(added), UNCHANGED <<hidden, nextCall, compacted>>,
           messages_' = base \o new,
           ~compacted => /\ base \in Seq(Known(nextCall)) /\ new \in Seq(Known(nextCall))
                         /\ VisibleLess(base, hidden) = VisibleLess(messages_, hidden)
                         /\ restore_from_db(added) = VisibleLess(new, hidden)
    PROVE  Kept'
<1> SUFFICES ASSUME ~compacted
             PROVE  /\ messages_' \in Seq(Known(nextCall))
                    /\ RestoredFrom(rows', DOMAIN rows' \ planned') = VisibleLess(messages_', hidden)
  BY DEF Kept
<1>1. messages_' \in Seq(Known(nextCall))
  <2>1. ASSUME NEW T, NEW s \in Seq(T), NEW t \in Seq(T) PROVE s \o t \in Seq(T)
    OBVIOUS
  <2> QED
    BY <2>1
<1>2. VisibleJoins(base, new, messages_', hidden)
  BY VisibleConcat
<1>3. RestoredFrom(rows, DOMAIN rows \ planned) = VisibleLess(messages_, hidden)
  BY DEF Kept
<1>4. OwnJoins(added)
  OBVIOUS
<1> QED
  BY <1>1, <1>2, <1>3, <1>4 DEF VisibleJoins, OwnJoins

-----------------------------------------------------------------------------
(* Every step keeps it.                                                    *)

\* An empty session.
LEMMA InitLoopInv == AgentInit => LoopInv
<1> SUFFICES ASSUME AgentInit PROVE LoopInv
  OBVIOUS
<1>1. /\ messages_ = <<>> /\ prune_dirty_ = TRUE /\ last_pruned_msg_count_ = 0
      /\ hard_prune_after = HardPruneAfter /\ pc = "idle" /\ tool_calls = <<>>
      /\ blocked_calls = <<>> /\ answerText = FALSE /\ rows = <<>> /\ stored = 0
      /\ boundaries = {0} /\ planned = {} /\ hidden = {} /\ nextCall = 1
  BY DEF AgentInit, HistoryInit
<1>2. <<>> \in Seq(Message) /\ <<>> \in Seq(Nat) /\ <<>> \in Seq(Rows) /\ Len(<<>>) = 0
      /\ <<>> \in Seq(Known(nextCall))
  OBVIOUS
<1>3. HistoryInv
  BY <1>1, <1>2, PruneAssumption DEF HistoryInv, HistoryTypeOK, CacheExact
<1>4. CallsInv /\ PlaceInv
  <2>1. Range(tool_calls) = {} /\ Range(blocked_calls) = {}
    BY <1>1, EmptyRange
  <2>2. tool_calls \in Seq(Nat) /\ blocked_calls \in Seq(Nat)
    BY <1>1, <1>2
  <2>3. pc = "idle" /\ answerText = FALSE /\ hidden = {} /\ nextCall = 1
    BY <1>1
  <2>4. PlaceInv
    BY <2>3 DEF PlaceInv
  <2>5. CallsInv
    <3>1. 1 \in Nat \ {0} /\ FALSE \in BOOLEAN
      OBVIOUS
    <3> QED
      BY <2>1, <2>2, <2>3, <3>1, Zenon DEF CallsInv
  <2> QED
    BY <2>4, <2>5
<1>5. RowsInv
  <2>1. SubSeq(<<>>, 1, 0) = <<>> /\ 0 \in 0 .. 0 /\ 1 .. 0 = {}
    OBVIOUS
  <2>2. \A b \in boundaries : Paired(restore_from_db(SubSeq(rows, 1, b)))
    BY <1>1, <2>1, RestoreEmpty, PairedEmpty
  <2> QED
    BY <1>1, <1>2, <2>1, <2>2 DEF RowsInv
<1>6. Kept
  <2>1. DOMAIN rows \ planned = {}
    <3>1. DOMAIN <<>> = {}
      OBVIOUS
    <3> QED
      BY <1>1, <3>1
  <2>3. RestoredFrom(rows, {}) = <<>>
    <3>1. rows \in Seq(Rows)
      BY <1>1, <1>2
    <3> QED
      BY <3>1, RestoredNone
  <2> QED
    BY <1>1, <1>2, <2>1, <2>3, VisibleEmpty DEF Kept
<1>7. Whole
  BY <1>1, PairedEmpty DEF Whole
<1> QED
  BY <1>3, <1>4, <1>5, <1>6, <1>7 DEF LoopInv

\* set_system_prompt changes nothing that survives.
LEMMA PromptKeeps ==
    ASSUME NEW ms \in Seq(Message)
    PROVE  /\ set_system_prompt(ms) \in Seq(Message)
           /\ Paired(ms) => Paired(set_system_prompt(ms))
           /\ \A hid : VisibleLess(set_system_prompt(ms), hid) = VisibleLess(ms, hid)
           /\ \A n : ms \in Seq(Known(n)) => set_system_prompt(ms) \in Seq(Known(n))
<1> DEFINE w == Without(ms, "system")
           p == set_system_prompt(ms)
           front == <<System>>
<1>1. w \in Seq(Message)
  BY WithoutType
<1>2. System \in Message /\ front \in Seq(Message) /\ front \in Seq(Bare)
  BY BareMessages DEF Bare
<1>3. Paired(front)
  BY <1>2, BarePaired
<1>4. p = front \o w
  BY DEF set_system_prompt
<1>5. Paired(ms) => Paired(w)
  BY PairedWithout
<1>6. ASSUME NEW hid PROVE VisibleLess(w, hid) = VisibleLess(ms, hid)
  BY VisibleWithout
<1>7. ASSUME NEW n, ms \in Seq(Known(n)) PROVE w \in Seq(Known(n))
  <2> DEFINE S == {i \in DOMAIN ms : ms[i].role # "system"}
  <2>1. /\ Len(ms) \in Nat /\ DOMAIN ms = 1 .. Len(ms)
        /\ \A i \in 1 .. Len(ms) : i \in S => ms[i] \in Known(n)
    BY <1>7
  <2> HIDE DEF S
  <2>2. Pick(ms, S) \in Seq(Known(n))
    BY <2>1, PickType
  <2> QED
    BY <2>2 DEF Without, S
<1> HIDE DEF w, p, front
<1>8. p \in Seq(Message)
  BY <1>1, <1>2, <1>4
<1>9. Paired(ms) => Paired(p)
  BY <1>1, <1>2, <1>3, <1>4, <1>5, PairedConcat
<1>10. ASSUME NEW hid PROVE VisibleLess(p, hid) = VisibleLess(ms, hid)
  <2>1. VisibleJoins(front, w, p, hid)
    BY <1>1, <1>2, <1>4, VisibleConcat
  <2>2. VisibleLess(front, hid) = <<>>
    <3>1. Shown(System, hid) = <<>>
      BY DEF Shown, System, Msg
    <3> QED
      BY <1>2, <3>1, VisibleOne DEF front
  <2>3. VisibleLess(w, hid) \in Seq(Message)
    BY <1>1, VisibleType
  <2>4. <<>> \o VisibleLess(w, hid) = VisibleLess(w, hid)
    BY <2>3
  <2> QED
    BY <1>6, <2>1, <2>2, <2>4 DEF VisibleJoins
<1>11. ASSUME NEW n, ms \in Seq(Known(n)) PROVE p \in Seq(Known(n))
  <2>1. System \in Known(n)
    BY <1>2 DEF Known, System, Msg
  <2>2. front \in Seq(Known(n))
    BY <2>1 DEF front
  <2>3. ASSUME NEW T, NEW s \in Seq(T), NEW t \in Seq(T) PROVE s \o t \in Seq(T)
    OBVIOUS
  <2> QED
    BY <1>4, <1>7, <1>11, <2>2, <2>3
<1> QED
  BY <1>8, <1>9, <1>10, <1>11 DEF p

\* A run begins: the prompts are added and the user's row is handed over.
LEMMA StartRunKeeps == ASSUME LoopInv, StartRun PROVE LoopInv'
<1>1. PICK persisted \in BOOLEAN, changed \in BOOLEAN :
          /\ IF changed
             THEN Replace(Append(set_system_prompt(messages_), User(persisted)), hard_prune_after)
             ELSE AddMessages(<<User(persisted)>>)
          /\ Persist(IF persisted THEN <<Row("user", 0, TRUE)>> ELSE <<>>)
  BY DEF StartRun
<1> DEFINE base == IF changed THEN set_system_prompt(messages_) ELSE messages_
           u == User(persisted)
           new == <<u>>
           added == IF persisted THEN <<Row("user", 0, TRUE)>> ELSE <<>>
<1>2. /\ messages_ \in Seq(Message) /\ hard_prune_after \in Nat
      /\ CallsInv /\ RowsInv /\ Kept /\ Whole /\ HistoryInv
  BY DEF LoopInv, HistoryInv, HistoryTypeOK
<1>3. /\ pc' = "request"
      /\ UNCHANGED <<tool_calls, blocked_calls, answerText, planned, hidden, nextCall, compacted>>
  BY DEF StartRun
<1>4. CallsInv' /\ PlaceInv'
  BY <1>2, <1>3, CallsFrame DEF PlaceInv
<1>5. /\ base \in Seq(Message) /\ (Paired(messages_) => Paired(base))
      /\ VisibleLess(base, hidden) = VisibleLess(messages_, hidden)
      /\ messages_ \in Seq(Known(nextCall)) => base \in Seq(Known(nextCall))
  BY <1>2, PromptKeeps
<1>6. /\ u \in Message /\ u \in Bare /\ u \in Known(nextCall)
      /\ new \in Seq(Message) /\ new \in Seq(Known(nextCall)) /\ Paired(new)
  <2>1. u \in Bare
    BY BareMessages
  <2>2. u \in Message /\ u \in Known(nextCall)
    BY <2>1 DEF Bare, Known, User, Msg
  <2> HIDE DEF u
  <2>3. new \in Seq(Bare) /\ new \in Seq(Message) /\ new \in Seq(Known(nextCall))
    BY <2>1, <2>2
  <2> QED
    BY <2>1, <2>2, <2>3, BarePaired
<1>7. /\ added \in Seq(Rows) /\ (added # <<>> => added[1].role # "tool_call")
      /\ \A j \in 1 .. Len(added) : added[j].role \notin {"tool_call", "tool"}
  <2>1. Row("user", 0, TRUE) \in Rows /\ Row("user", 0, TRUE).role = "user"
    BY DEF Row, Rows
  <2>2. ASSUME NEW r \in Rows, r.role = "user", NEW s, s = <<r>>
        PROVE  /\ s \in Seq(Rows) /\ s[1].role # "tool_call"
               /\ \A j \in 1 .. Len(s) : s[j].role \notin {"tool_call", "tool"}
    BY <2>2
  <2>3. <<>> \in Seq(Rows) /\ \A j \in 1 .. Len(<<>>) : (<<>>)[j].role \notin {"tool_call", "tool"}
    OBVIOUS
  <2> QED
    BY <2>1, <2>2, <2>3
<1>8. restore_from_db(added) = VisibleLess(new, hidden)
  <2>1. VisibleLess(new, hidden) = Shown(u, hidden)
    BY <1>6, VisibleOne
  <2>2. Shown(u, hidden) = IF persisted THEN <<User(TRUE)>> ELSE <<>>
    <3>1. u.calls \ hidden = {} /\ u.calls = {}
      BY DEF User, Msg
    <3>2. [u EXCEPT !.calls = @ \ hidden] = u
      <4> HIDE DEF u
      <4> QED
        BY <1>6, <3>1 DEF Message
    <3> QED
      BY <3>2 DEF Shown, User, Msg
  <2>3. Row("user", 0, TRUE) \in Rows /\ Row("user", 0, TRUE).role = "user"
    BY DEF Row, Rows
  <2>4. restore_from_db(<<Row("user", 0, TRUE)>>) = <<User(TRUE)>>
    BY <2>3, RestoreOne DEF RowMessage
  <2> QED
    BY <2>1, <2>2, <2>4, RestoreEmpty
<1>9. Paired(restore_from_db(added))
  <2>1. restore_from_db(added) = <<User(TRUE)>> \/ restore_from_db(added) = <<>>
    <3>1. Row("user", 0, TRUE) \in Rows /\ Row("user", 0, TRUE).role = "user"
      BY DEF Row, Rows
    <3> QED
      BY <3>1, RestoreOne, RestoreEmpty DEF RowMessage
  <2>2. User(TRUE) \in Bare
    BY BareMessages
  <2>3. <<User(TRUE)>> \in Seq(Bare)
    <3>1. ASSUME NEW m \in Bare PROVE <<m>> \in Seq(Bare)
      OBVIOUS
    <3> QED
      BY <2>2, <3>1
  <2> QED
    BY <2>1, <2>3, BarePaired, PairedEmpty
<1>10. HistoryInv' /\ messages_' = base \o new
  <2>1. CASE changed
    <3> DEFINE ms == Append(base, u)
    <3>1. Replace(ms, hard_prune_after)
      BY <1>1, <2>1
    <3> HIDE DEF base, u
    <3>2. ms \in Seq(Message) /\ ms = base \o new
      BY <1>5, <1>6
    <3> HIDE DEF ms
    <3>3. HistoryInv'
      BY <1>2, <3>1, <3>2, ReplaceKeeps
    <3> QED
      BY <3>1, <3>2, <3>3 DEF Replace
  <2>2. CASE ~changed
    <3>1. AddMessages(new) /\ base = messages_
      BY <1>1, <2>2
    <3> HIDE DEF new, base
    <3>2. HistoryInv'
      BY <1>2, <1>6, <3>1, AddKeeps
    <3> QED
      BY <3>1, <3>2 DEF AddMessages
  <2> QED
    BY <2>1, <2>2
<1>11. Persist(added)
  BY <1>1
<1> HIDE DEF base, new, added, u
<1>12. RowsInv' /\ OwnJoins(added)
  BY <1>2, <1>3, <1>7, <1>9, <1>11, PersistKeeps
<1>13. Kept'
  <2>1. ~compacted => messages_ \in Seq(Known(nextCall))
    BY <1>2 DEF Kept
  <2> QED
    BY <1>2, <1>3, <1>5, <1>6, <1>7, <1>8, <1>10, <1>12, <2>1, GrowKeeps
<1>14. Whole'
  <2>1. torn' = torn
    BY <1>11 DEF Persist
  <2>2. Paired(messages_) => Paired(messages_')
    BY <1>5, <1>6, <1>10, PairedConcat
  <2> QED
    BY <1>2, <2>1, <2>2 DEF Whole
<1> QED
  BY <1>4, <1>10, <1>12, <1>13, <1>14 DEF LoopInv

\* The list stays, and with it what is in the rows.
LEMMA HistoryFrame ==
    ASSUME HistoryInv, UNCHANGED historyVars
    PROVE  HistoryInv'
  BY DEF HistoryInv, HistoryTypeOK, CacheExact, historyVars

\* A run that ends without an answer leaves the history alone.
LEMMA OnlyEndKeeps ==
    ASSUME LoopInv, EndRun, UNCHANGED <<historyVars, rowVars, compacted, nextCall>>
    PROVE  LoopInv'
<1>1. UNCHANGED <<rows, stored, boundaries, torn, planned, hidden, messages_>>
  BY DEF rowVars, historyVars
<1>2. HistoryInv'
  BY HistoryFrame DEF LoopInv
<1>3. CallsInv' /\ PlaceInv'
  BY <1>1, EndRunKeeps DEF LoopInv
<1>4. RowsInv' /\ Kept'
  BY <1>1, RowsFrame, KeptFrame DEF LoopInv
<1>5. Whole'
  BY <1>1 DEF LoopInv, Whole
<1> QED
  BY <1>2, <1>3, <1>4, <1>5 DEF LoopInv

\* The list is pruned for the request.
LEMMA RequestKeeps == ASSUME LoopInv, Request PROVE LoopInv'
<1>1. UNCHANGED <<rowVars, compacted, nextCall>>
  BY DEF Request
<1>2. CASE EndRun /\ UNCHANGED historyVars
  BY <1>1, <1>2, OnlyEndKeeps
<1>3. CASE /\ PruneWith(messages_) /\ pc' = "waiting"
           /\ UNCHANGED <<tool_calls, blocked_calls, answerText>>
  <2>1. UNCHANGED <<rows, stored, boundaries, torn, planned, hidden>>
    BY <1>1 DEF rowVars
  <2>2. messages_' = messages_
    BY <1>3 DEF PruneWith
  <2>3. HistoryInv' /\ ~prune_dirty_'
    <3>1. messages_ \in Seq(Message) /\ <<>> \in Seq(Message)
      BY DEF LoopInv, HistoryInv, HistoryTypeOK
    <3>2. messages_ = messages_ \o <<>>
      BY <3>1
    <3> QED
      BY <1>3, <3>1, <3>2, PruneWithKeeps DEF LoopInv
  <2>4. CallsInv'
    BY <1>1, <1>3, <2>1, CallsFrame DEF LoopInv
  <2>5. PlaceInv'
    BY <1>3, <2>3 DEF PlaceInv
  <2>6. RowsInv' /\ Kept'
    BY <1>1, <2>1, <2>2, RowsFrame, KeptFrame DEF LoopInv
  <2>7. Whole'
    BY <2>1, <2>2 DEF LoopInv, Whole
  <2> QED
    BY <2>3, <2>4, <2>5, <2>6, <2>7 DEF LoopInv
<1> QED
  BY <1>2, <1>3 DEF Request

\* An error ends the run.
LEMMA RespondErrorKeeps == ASSUME LoopInv, RespondError PROVE LoopInv'
  BY OnlyEndKeeps DEF RespondError

\* So does a cancellation, whatever the tools did.
LEMMA ToolsCancelledKeeps == ASSUME LoopInv, ToolsCancelled PROVE LoopInv'
  BY OnlyEndKeeps DEF ToolsCancelled

\* Recovery begins at a level that exists.
LEMMA RespondOverflowKeeps == ASSUME LoopInv, RespondOverflow PROVE LoopInv'
<1>1. /\ pc' = "recovering" /\ level' = 1
      /\ UNCHANGED <<rows, stored, boundaries, torn, planned, hidden, messages_, historyVars>>
      /\ UNCHANGED <<tool_calls, blocked_calls, answerText, compacted, nextCall>>
  BY DEF RespondOverflow, rowVars, historyVars
<1>2. HistoryInv'
  BY <1>1, HistoryFrame DEF LoopInv
<1>3. CallsInv'
  BY <1>1, CallsFrame DEF LoopInv
<1>4. PlaceInv'
  <2>1. 1 \in 1 .. Len(Levels)
    BY LoopAssumption
  <2> QED
    BY <1>1, <2>1 DEF PlaceInv
<1>5. RowsInv' /\ Kept'
  BY <1>1, RowsFrame, KeptFrame DEF LoopInv
<1>6. Whole'
  BY <1>1 DEF LoopInv, Whole
<1> QED
  BY <1>2, <1>3, <1>4, <1>5, <1>6 DEF LoopInv

\* The list is replaced by a shorter one, which the rows need not restore.
LEMMA CompactedKeeps ==
    ASSUME RowsInv, Whole, UNCHANGED <<rows, stored, boundaries, torn, planned, hidden, nextCall>>,
           Paired(messages_) => Paired(messages_'),
           compacted' = TRUE \/ (Kept /\ compacted' = compacted /\ messages_' = messages_)
    PROVE  RowsInv' /\ Kept' /\ Whole'
<1>1. RowsInv'
  BY RowsFrame
<1>2. Kept'
  <2>1. CASE compacted' = TRUE
    BY <2>1 DEF Kept
  <2>2. CASE Kept /\ compacted' = compacted /\ messages_' = messages_
    BY <2>2, KeptFrame
  <2> QED
    BY <2>1, <2>2
<1> QED
  BY <1>1, <1>2 DEF Whole

\* The place behind one that is not the last.
LEMMA NextPlace ==
    ASSUME NEW a \in Nat, NEW b \in 1 .. a, b < a
    PROVE  b + 1 \in 1 .. a
  OBVIOUS

\* force_compact: whatever level, the new list is pruned in full.
LEMMA RecoverLevelKeeps == ASSUME LoopInv, RecoverLevel PROVE LoopInv'
<1> DEFINE lvl == Levels[level]
<1>1. /\ pc = "recovering" /\ UNCHANGED <<rows, stored, boundaries, torn, planned, hidden, nextCall>>
      /\ messages_ \in Seq(Message)
  BY DEF RecoverLevel, rowVars, LoopInv, HistoryInv, HistoryTypeOK
<1>2. level \in 1 .. Len(Levels) /\ lvl.hard \in Nat /\ lvl.keep \in Nat
  <2>1. level \in 1 .. Len(Levels)
    BY <1>1 DEF LoopInv, PlaceInv
  <2>2. Levels[level] \in [hard : Nat, keep : Nat]
    <3>1. ASSUME NEW T, NEW s \in Seq(T), NEW k \in 1 .. Len(s) PROVE s[k] \in T
      OBVIOUS
    <3>2. Levels \in Seq([hard : Nat, keep : Nat])
      BY LoopAssumption
    <3> QED
      BY <2>1, <3>1, <3>2
  <2> QED
    BY <2>1, <2>2 DEF lvl
<1> HIDE DEF lvl
<1>3. PICK new : /\ ReplaceAndPrune(new, lvl.hard)
                 /\ \/ new = messages_ /\ UNCHANGED compacted
                    \/ new \in Compactions(messages_, lvl.keep) /\ compacted' = TRUE
  BY DEF RecoverLevel, lvl
<1>4. new \in Seq(Message) /\ (Paired(messages_) => Paired(new))
  BY <1>1, <1>2, <1>3, CompactionsKeep
<1>5. HistoryInv' /\ messages_' = new
  BY <1>2, <1>3, <1>4, ReplaceAndPruneKeeps DEF ReplaceAndPrune
<1>6. RowsInv' /\ Kept' /\ Whole'
  BY <1>1, <1>3, <1>4, <1>5, CompactedKeeps DEF LoopInv
<1>7. CallsInv' /\ PlaceInv'
  <2>1. \/ EndRun
        \/ pc' = "request" /\ UNCHANGED <<tool_calls, blocked_calls, answerText>>
        \/ /\ level < Len(Levels) /\ level' = level + 1
           /\ UNCHANGED <<pc, tool_calls, blocked_calls, answerText>>
    BY DEF RecoverLevel, Recovered
  <2>2. CASE EndRun
    BY <1>1, <2>2, EndRunKeeps DEF LoopInv
  <2>3. CASE pc' = "request" /\ UNCHANGED <<tool_calls, blocked_calls, answerText>>
    BY <1>1, <2>3, CallsFrame DEF LoopInv, PlaceInv
  <2>4. CASE /\ level < Len(Levels) /\ level' = level + 1
             /\ UNCHANGED <<pc, tool_calls, blocked_calls, answerText>>
    <3>1. level' \in 1 .. Len(Levels)
      <4>1. Len(Levels) \in Nat
        BY LoopAssumption
      <4> QED
        BY <1>2, <2>4, <4>1, NextPlace
    <3>2. pc' = "recovering"
      BY <1>1, <2>4
    <3> QED
      BY <1>1, <2>4, <3>1, <3>2, CallsFrame DEF LoopInv, PlaceInv
  <2> QED
    BY <2>1, <2>2, <2>3, <2>4
<1> QED
  BY <1>5, <1>6, <1>7 DEF LoopInv

\* The answer to the request ends the run.
LEMMA RespondTextKeeps == ASSUME LoopInv, RespondText PROVE LoopInv'
<1> DEFINE a == Assistant({}, TRUE)
           new == <<a>>
           r == Row("assistant", 0, TRUE)
           added == <<r>>
           ms == Append(messages_, a)
<1>1. /\ messages_ \in Seq(Message) /\ hard_prune_after \in Nat
      /\ CallsInv /\ RowsInv /\ Kept /\ Whole /\ HistoryInv
  BY DEF LoopInv, HistoryInv, HistoryTypeOK
<1>2. Persist(added) /\ EndRun /\ UNCHANGED <<planned, hidden, nextCall>>
  BY DEF RespondText
<1>3. /\ a \in Bare /\ a \in Message /\ a \in Known(nextCall) /\ a.calls = {}
      /\ a.role = "assistant" /\ a.text = TRUE
  <2>1. a \in Bare
    BY BareMessages
  <2> QED
    BY <2>1 DEF Bare, Known, Assistant, Msg
<1>4. r \in Rows /\ r.role = "assistant" /\ r.text = TRUE
  BY DEF Row, Rows
<1>5. \/ PruneWith(ms) /\ UNCHANGED compacted
      \/ /\ \E c \in Compactions(ms, 0) : Replace(c, hard_prune_after)
         /\ compacted' = TRUE
  BY DEF RespondText
<1>6. RowMessage(r, {}) = new
  BY <1>4 DEF RowMessage
<1> HIDE DEF a, r
<1>7. new \in Seq(Bare) /\ new \in Seq(Message) /\ new \in Seq(Known(nextCall)) /\ Paired(new)
  <2>1. new \in Seq(Bare) /\ new \in Seq(Message) /\ new \in Seq(Known(nextCall))
    BY <1>3
  <2> QED
    BY <2>1, BarePaired
<1>8. ms \in Seq(Message) /\ ms = messages_ \o new
  BY <1>1, <1>3
<1>9. /\ added \in Seq(Rows) /\ added[1].role # "tool_call"
      /\ \A j \in 1 .. Len(added) : added[j].role \notin {"tool_call", "tool"}
  BY <1>4
<1>10. restore_from_db(added) = new
  BY <1>4, <1>6, RestoreOne
<1>11. VisibleLess(new, hidden) = new
  <2>1. [a EXCEPT !.calls = @ \ hidden] = a
    BY <1>3 DEF Message
  <2>2. Shown(a, hidden) = new
    BY <1>3, <2>1 DEF Shown
  <2> QED
    BY <1>3, <2>2, VisibleOne
<1> HIDE DEF new, added, ms
<1>12. Paired(messages_) => Paired(ms)
  BY <1>1, <1>7, <1>8, PairedConcat
<1>13. RowsInv' /\ OwnJoins(added)
  BY <1>1, <1>2, <1>7, <1>9, <1>10, PersistKeeps
<1>14. CallsInv' /\ PlaceInv'
  BY <1>1, <1>2, EndRunKeeps
<1>15. torn' = torn
  BY <1>2 DEF Persist
<1>16. CASE PruneWith(ms) /\ UNCHANGED compacted
  <2>1. messages_' = ms
    BY <1>16 DEF PruneWith
  <2>2. HistoryInv'
    BY <1>1, <1>7, <1>8, <1>16, PruneWithKeeps
  <2>3. ~compacted => messages_ \in Seq(Known(nextCall))
    BY <1>1 DEF Kept
  <2>4. Kept'
    BY <1>1, <1>2, <1>7, <1>8, <1>9, <1>10, <1>11, <1>13, <1>16, <2>1, <2>3, GrowKeeps
  <2>5. Whole'
    BY <1>1, <1>12, <1>15, <2>1 DEF Whole
  <2> QED
    BY <1>13, <1>14, <2>2, <2>4, <2>5 DEF LoopInv
<1>17. CASE /\ \E c \in Compactions(ms, 0) : Replace(c, hard_prune_after)
            /\ compacted' = TRUE
  <2>1. PICK c \in Compactions(ms, 0) : Replace(c, hard_prune_after)
    BY <1>17
  <2>2. c \in Seq(Message) /\ (Paired(ms) => Paired(c))
    BY <1>8, CompactionsKeep
  <2>3. HistoryInv' /\ messages_' = c
    BY <1>1, <2>1, <2>2, ReplaceKeeps DEF Replace
  <2>4. Kept'
    BY <1>17 DEF Kept
  <2>5. Whole'
    BY <1>1, <1>12, <1>15, <2>2, <2>3 DEF Whole
  <2> QED
    BY <1>13, <1>14, <2>3, <2>4, <2>5 DEF LoopInv
<1> QED
  BY <1>5, <1>16, <1>17

\* Numbers below a, and from a to below b.
LEMMA CallRanges ==
    ASSUME NEW a \in Nat \ {0}, NEW b \in Nat, a <= b
    PROVE  /\ \A x \in 1 .. (a - 1) : x \in 1 .. (b - 1)
           /\ \A x \in 1 .. (a - 1) : x \notin a .. (b - 1)
           /\ \A x \in a .. (b - 1) : x \in 1 .. (b - 1)
<1>1. a >= 1
  OBVIOUS
<1> QED
  BY <1>1

\* The blocked calls are new ones, which no message shows yet.
LEMMA MoreCalls ==
    ASSUME LoopInv, NEW blocked, blocked \subseteq nextCall .. (nextCall' - 1),
           nextCall' \in Nat, nextCall <= nextCall', hidden' = hidden \cup blocked,
           UNCHANGED <<historyVars, rows, stored, boundaries, torn, planned, compacted>>
    PROVE  /\ Allowed \subseteq Allowed' /\ hidden' \subseteq Calls'
           /\ HistoryInv' /\ RowsInv' /\ Kept' /\ Whole'
<1>1. /\ messages_ \in Seq(Message) /\ nextCall \in Nat \ {0} /\ hidden \subseteq Calls
      /\ messages_' = messages_
  BY DEF LoopInv, HistoryInv, HistoryTypeOK, CallsInv, historyVars
<1>2. /\ (1 .. (nextCall - 1)) \subseteq 1 .. (nextCall' - 1)
      /\ (1 .. (nextCall - 1)) \cap (nextCall .. (nextCall' - 1)) = {}
      /\ nextCall .. (nextCall' - 1) \subseteq 1 .. (nextCall' - 1)
  <2>1. /\ \A x \in 1 .. (nextCall - 1) : x \in 1 .. (nextCall' - 1)
        /\ \A x \in 1 .. (nextCall - 1) : x \notin nextCall .. (nextCall' - 1)
        /\ \A x \in nextCall .. (nextCall' - 1) : x \in 1 .. (nextCall' - 1)
    BY <1>1, CallRanges
  <2> QED
    BY <1>1, <2>1
<1>7. Allowed \subseteq Allowed' /\ hidden' \subseteq Calls'
  BY <1>1, <1>2 DEF Allowed, Calls
<1>3. HistoryInv'
  BY HistoryFrame DEF LoopInv
<1>4. Whole'
  BY <1>1 DEF LoopInv, Whole
<1>5. RowsInv'
  BY <1>7 DEF LoopInv, RowsInv
<1>6. Kept'
  <2> SUFFICES ASSUME ~compacted
               PROVE  /\ messages_ \in Seq(Known(nextCall'))
                      /\ RestoredFrom(rows, DOMAIN rows \ planned) = VisibleLess(messages_, hidden')
    BY <1>1 DEF Kept
  <2>1. /\ messages_ \in Seq(Known(nextCall))
        /\ RestoredFrom(rows, DOMAIN rows \ planned) = VisibleLess(messages_, hidden)
    BY DEF LoopInv, Kept
  <2>2. Known(nextCall) \subseteq Known(nextCall')
    BY <1>2 DEF Known
  <2>3. messages_ \in Seq(Known(nextCall'))
    BY <2>1, <2>2
  <2>4. ASSUME NEW i \in 1 .. Len(messages_)
        PROVE  messages_[i].calls \ hidden = messages_[i].calls \ hidden'
    <3>1. messages_[i] \in Known(nextCall)
      BY <2>1
    <3>2. messages_[i].calls \subseteq 1 .. (nextCall - 1)
      BY <3>1 DEF Known
    <3>3. messages_[i].calls \cap blocked = {}
      BY <1>2, <3>2
    <3> QED
      BY <3>3
  <2>5. VisibleLess(messages_, hidden) = VisibleLess(messages_, hidden')
    BY <1>1, <2>4, VisibleSame
  <2> QED
    BY <2>1, <2>3, <2>5
<1> QED
  BY <1>7, <1>3, <1>4, <1>5, <1>6

\* The answer brings new calls, blocked or not.
LEMMA RespondToolsKeeps ==
    ASSUME LoopInv, NEW n \in Nat, NEW todo \in 0 .. 1, n + todo > 0, RespondTools(n, todo)
    PROVE  LoopInv'
<1> DEFINE ids == [i \in 1 .. (n + todo) |-> nextCall + i - 1]
<1>1. /\ pc = "waiting" /\ nextCall \in Nat \ {0} /\ CallsInv
      /\ UNCHANGED <<historyVars, rows, stored, boundaries, torn, planned, compacted>>
  BY DEF RespondTools, LoopInv, CallsInv
<1>2. CASE EndRun /\ UNCHANGED <<nextCall, hidden>>
  BY <1>1, <1>2, OnlyEndKeeps DEF rowVars
<1>3. CASE /\ nextCall' = nextCall + n + todo /\ pc' = "tools"
           /\ \E blocked \in SUBSET Range(ids) :
                 /\ tool_calls' = filter_plan_mode_tools(ids, blocked).allowed
                 /\ blocked_calls' = filter_plan_mode_tools(ids, blocked).blocked_calls
                 /\ hidden' = hidden \cup blocked
                 /\ answerText' \in IF blocked = {} THEN {TRUE} ELSE BOOLEAN
  <2>1. PICK blocked \in SUBSET Range(ids) :
                 /\ tool_calls' = filter_plan_mode_tools(ids, blocked).allowed
                 /\ blocked_calls' = filter_plan_mode_tools(ids, blocked).blocked_calls
                 /\ hidden' = hidden \cup blocked
                 /\ answerText' \in IF blocked = {} THEN {TRUE} ELSE BOOLEAN
    BY <1>3
  <2> DEFINE k == n + todo
             S == {i \in DOMAIN ids : ids[i] \in blocked}
             T == DOMAIN ids \ S
             new == nextCall .. (nextCall' - 1)
  <2>2. k \in Nat /\ nextCall' \in Nat /\ nextCall <= nextCall' /\ nextCall' = nextCall + k
    BY <1>1, <1>3
  <2>3. /\ DOMAIN ids = 1 .. k
        /\ \A i \in 1 .. k : /\ ids[i] \in new /\ ids[i] \in Nat
                             /\ (i \in S <=> ids[i] \in blocked) /\ (i \in T <=> ids[i] \notin blocked)
    BY <1>1, <2>2
  <2>4. tool_calls' = Pick(ids, T) /\ blocked_calls' = Pick(ids, S)
    BY <2>1 DEF filter_plan_mode_tools
  <2>5. blocked \subseteq new
    BY <2>1, <2>3 DEF Range
  <2> HIDE DEF ids, k, S, T, new
  <2>6. /\ Allowed \subseteq Allowed' /\ hidden' \subseteq Calls'
        /\ HistoryInv' /\ RowsInv' /\ Kept' /\ Whole'
    BY <1>1, <2>1, <2>2, <2>5, MoreCalls DEF new
  <2>7. new \ blocked \subseteq Allowed'
    <3>1. ASSUME NEW a \in Nat \ {0}, NEW b \in Nat, NEW x \in a .. (b - 1)
          PROVE  x \in 1 .. (b - 1) /\ x \notin 1 .. (a - 1)
      OBVIOUS
    <3>2. \A x \in new : x \in Calls' /\ x \notin Calls
      BY <1>1, <2>2, <3>1 DEF new, Calls
    <3>3. hidden \subseteq Calls
      BY <1>1 DEF CallsInv
    <3> QED
      BY <2>1, <3>2, <3>3 DEF Allowed
  <2>8. /\ tool_calls' \in Seq(Nat \cap (new \ blocked))
        /\ blocked_calls' \in Seq(Nat \cap blocked)
    BY <2>2, <2>3, <2>4, PickType
  <2>9. ASSUME NEW U, NEW q \in Seq(Nat \cap U)
        PROVE  q \in Seq(Nat) /\ Range(q) \subseteq U
    <3>1. DOMAIN q = 1 .. Len(q) /\ \A i \in 1 .. Len(q) : q[i] \in U
      OBVIOUS
    <3>2. Range(q) \subseteq U
      BY <3>1 DEF Range
    <3> QED
      BY <3>2
  <2>10. /\ tool_calls' \in Seq(Nat) /\ Range(tool_calls') \subseteq new \ blocked
         /\ blocked_calls' \in Seq(Nat) /\ Range(blocked_calls') \subseteq blocked
    BY <2>8, <2>9
  <2>11. CallsInv'
    <3>1. nextCall' \in Nat \ {0}
      BY <1>1, <2>2
    <3>2. answerText' \in BOOLEAN
      BY <2>1
    <3>3. blocked \subseteq hidden'
      BY <2>1
    <3> QED
      BY <2>6, <2>7, <2>10, <3>1, <3>2, <3>3 DEF CallsInv
  <2>12. PlaceInv'
    BY <1>3 DEF PlaceInv
  <2> QED
    BY <2>6, <2>11, <2>12 DEF LoopInv
<1> QED
  BY <1>2, <1>3 DEF RespondTools

\* A step as a whole: its messages are paired, its rows restore what is
\* visible of them.
LEMMA ToolStepKeeps == ASSUME LoopInv, ToolStep PROVE LoopInv'
<1> DEFINE new == StepAdds(tool_calls, blocked_calls, answerText)
           added == StepRows(tool_calls, answerText)
           n == Len(tool_calls)
<1>1. /\ messages_ \in Seq(Message) /\ HistoryInv /\ CallsInv /\ RowsInv /\ Kept /\ Whole
      /\ tool_calls \in Seq(Nat) /\ blocked_calls \in Seq(Nat) /\ answerText \in BOOLEAN
      /\ Range(tool_calls) \subseteq Allowed /\ Range(blocked_calls) \subseteq hidden
      /\ Range(tool_calls) \cap hidden = {}
  BY DEF LoopInv, HistoryInv, HistoryTypeOK, CallsInv, Allowed
<1>2. AddMessages(new) /\ Persist(added)
  BY DEF ToolStep, StepAdds, ToolRows, StepRows, CallRows, ResultRows
<1>3. /\ pc' = "request" /\ tool_calls' = <<>> /\ blocked_calls' = <<>> /\ answerText' = FALSE
      /\ UNCHANGED <<compacted, planned, hidden, nextCall>>
  BY DEF ToolStep
<1>4. StepRowsHave(added, tool_calls, answerText, n)
  BY <1>1, StepRowsAre
<1>5. new \in Seq(Message) /\ Paired(new)
  BY <1>1, StepPaired
<1>6. VisibleLess(new, hidden) = StepMessages(tool_calls, answerText)
  BY <1>1, StepVisible
<1>7. restore_from_db(added) = StepMessages(tool_calls, answerText)
  BY <1>1, RestoreTools
<1>8. Paired(restore_from_db(added))
  BY <1>1, <1>7, StepMessagesPaired
<1>9. \A i \in 1 .. n : tool_calls[i] \in Allowed
  <2>1. DOMAIN tool_calls = 1 .. n
    BY <1>1
  <2> QED
    BY <1>1, <2>1 DEF Range
<1>10. new \in Seq(Known(nextCall))
  <2> DEFINE all == tool_calls \o blocked_calls
  <2>1. /\ Results(all) = Results(tool_calls) \o Results(blocked_calls) /\ all \in Seq(Nat)
        /\ Range(all) = Range(tool_calls) \cup Range(blocked_calls)
    BY <1>1, ResultsConcat
  <2>2. Range(all) \subseteq Calls
    BY <1>1, <2>1 DEF Allowed, CallsInv
  <2> DEFINE head == Assistant(Range(all), answerText)
             m == <<head>>
             x == Results(tool_calls)
             y == Results(blocked_calls)
  <2>3. head \in Known(nextCall)
    <3>1. Range(all) \subseteq Nat
      BY <2>1 DEF Range
    <3> QED
      BY <1>1, <2>2, <3>1 DEF Known, Message, Role, Assistant, Msg, Calls
  <2>4. ASSUME NEW q \in Seq(Nat), Range(q) \subseteq Calls
        PROVE  Results(q) \in Seq(Known(nextCall))
    <3>1. DOMAIN q = 1 .. Len(q) /\ Len(q) \in Nat /\ \A i \in 1 .. Len(q) : q[i] \in Nat
      OBVIOUS
    <3>2. ASSUME NEW i \in 1 .. Len(q) PROVE ToolResult(q[i]) \in Known(nextCall)
      <4>1. q[i] \in Nat /\ q[i] \in Calls
        BY <2>4, <3>1 DEF Range
      <4> QED
        BY <4>1 DEF Known, Message, Role, ToolResult, Msg, Calls
    <3>3. [i \in 1 .. Len(q) |-> ToolResult(q[i])] \in [1 .. Len(q) -> Known(nextCall)]
      BY <3>2
    <3> QED
      BY <3>1, <3>3, FunctionIsSeq DEF Results
  <2>5. Range(tool_calls) \subseteq Calls /\ Range(blocked_calls) \subseteq Calls
    BY <1>1 DEF Allowed, CallsInv
  <2>6. x \in Seq(Known(nextCall)) /\ y \in Seq(Known(nextCall))
    BY <1>1, <2>4, <2>5
  <2>7. new = m \o x \o y
    BY DEF StepAdds
  <2> HIDE DEF head, new
  <2>8. m \in Seq(Known(nextCall))
    BY <2>3
  <2> HIDE DEF m, x, y
  <2>9. ASSUME NEW K, NEW u \in Seq(K), NEW v \in Seq(K) PROVE u \o v \in Seq(K)
    OBVIOUS
  <2> QED
    BY <2>6, <2>7, <2>8, <2>9
<1> HIDE DEF new, added
<1>11. /\ added \in Seq(Rows) /\ added[1].role # "tool_call"
       /\ \A j \in 1 .. Len(added) :
             added[j].role \in {"tool_call", "tool"} => added[j].call \in Allowed
  <2>1. /\ added \in Seq(Rows) /\ Len(added) = 1 + (n + n) /\ added[1].role = "assistant"
        /\ \A j \in 2 .. (1 + n) : added[j].call = tool_calls[j - 1]
        /\ \A j \in (2 + n) .. Len(added) : added[j].call = tool_calls[j - (1 + n)]
        /\ n \in Nat
    BY <1>1, <1>4 DEF StepRowsHave
  <2>2. ASSUME NEW j \in 1 .. Len(added), added[j].role \in {"tool_call", "tool"}
        PROVE  added[j].call \in Allowed
    <3>1. CASE j = 1
      BY <2>1, <2>2, <3>1
    <3>2. CASE j \in 2 .. (1 + n)
      <4>1. j - 1 \in 1 .. n
        BY <2>1, <3>2
      <4> QED
        BY <1>9, <2>1, <3>2, <4>1
    <3>3. CASE j \in (2 + n) .. Len(added)
      <4>1. j - (1 + n) \in 1 .. n
        BY <2>1, <3>3
      <4> QED
        BY <1>9, <2>1, <3>3, <4>1
    <3> QED
      BY <2>1, <3>1, <3>2, <3>3
  <2> QED
    BY <2>1, <2>2
<1> HIDE DEF n
<1>12. RowsInv' /\ OwnJoins(added)
  BY <1>1, <1>2, <1>3, <1>8, <1>11, PersistKeeps
<1>13. HistoryInv' /\ messages_' = messages_ \o new
  BY <1>1, <1>2, <1>5, AddKeeps DEF AddMessages
<1>14. Kept'
  <2>1. ~compacted => messages_ \in Seq(Known(nextCall))
    BY <1>1 DEF Kept
  <2> QED
    BY <1>1, <1>3, <1>5, <1>6, <1>7, <1>10, <1>11, <1>12, <1>13, <2>1, GrowKeeps
<1>15. Whole'
  <2>1. torn' = torn
    BY <1>2 DEF Persist
  <2>2. Paired(messages_) => Paired(messages_')
    BY <1>1, <1>5, <1>13, PairedConcat
  <2> QED
    BY <1>1, <2>1, <2>2 DEF Whole
<1>16. CallsInv' /\ PlaceInv'
  <2>1. Range(tool_calls') = {} /\ Range(blocked_calls') = {} /\ <<>> \in Seq(Nat)
    BY <1>3, EmptyRange
  <2> QED
    BY <1>1, <1>3, <2>1 DEF CallsInv, PlaceInv, Calls, Allowed
<1> QED
  BY <1>12, <1>13, <1>14, <1>15, <1>16 DEF LoopInv

\* The file held some of the rows, and the rows all that is in the list.
LEMMA RestartKeeps == ASSUME LoopInv, Restart PROVE LoopInv'
<1> DEFINE s == stored'
           ms == restore_from_db(rows')
<1>1. /\ CallsInv /\ RowsInv /\ rows \in Seq(Rows) /\ boundaries \subseteq 0 .. Len(rows)
      /\ stored \in 0 .. Len(rows) /\ Len(rows) \in Nat
      /\ \A j \in 1 .. Len(rows) :
            rows[j].role \in {"tool_call", "tool"} => rows[j].call \in Allowed
  BY DEF LoopInv, RowsInv
<1>2. /\ EndRun /\ UNCHANGED <<hidden, nextCall>> /\ compacted' = FALSE
      /\ s \in stored .. Len(rows) /\ rows' = SubSeq(rows, 1, s)
      /\ torn' = (torn \/ s \notin boundaries) /\ boundaries' = {b \in boundaries : b <= s}
      /\ messages_' = ms /\ prune_dirty_' = TRUE /\ last_pruned_msg_count_' = 0
      /\ hard_prune_after' = HardPruneAfter /\ planned' = {}
  BY DEF Restart
<1>3. s \in 0 .. Len(rows)
  BY <1>1, <1>2
<1> HIDE DEF s
<1>4. /\ rows' \in Seq(Rows) /\ Len(rows') = s
      /\ \A j \in 1 .. s : rows'[j] = rows[j] /\ j \in 1 .. Len(rows)
      /\ \A b \in 0 .. s : SubSeq(rows', 1, b) = SubSeq(rows, 1, b)
  <2>1. ASSUME NEW q \in Seq(Rows), NEW k \in 0 .. Len(q)
        PROVE  /\ SubSeq(q, 1, k) \in Seq(Rows) /\ Len(SubSeq(q, 1, k)) = k
               /\ \A j \in 1 .. k : SubSeq(q, 1, k)[j] = q[j] /\ j \in 1 .. Len(q)
               /\ \A b \in 0 .. k : SubSeq(SubSeq(q, 1, k), 1, b) = SubSeq(q, 1, b)
    OBVIOUS
  <2> QED
    BY <1>1, <1>2, <1>3, <2>1
<1>5. Allowed' = Allowed /\ Allowed \subseteq Calls /\ Calls \subseteq Nat
      /\ Allowed \cap hidden = {}
  BY <1>2 DEF Allowed, Calls
<1>6. \A j \in 1 .. Len(rows') :
         rows'[j].role \in {"tool_call", "tool"} => rows'[j].call \in Allowed
  BY <1>1, <1>4
<1>7. ms \in Seq(Restorable(Allowed))
  BY <1>4, <1>5, <1>6, RestoreType
<1> HIDE DEF ms
<1>8. VisibleLess(ms, hidden) = ms /\ ms \in Seq(Message)
  BY <1>5, <1>7, RestoredVisible
<1>9. HistoryInv'
  <2>1. 0 \in 0 .. Len(ms) /\ HardPruneAfter \in Nat
    BY <1>8, PruneAssumption
  <2> QED
    BY <1>2, <1>8, <2>1 DEF HistoryInv, HistoryTypeOK, CacheExact
<1>10. CallsInv' /\ PlaceInv'
  BY <1>1, <1>2, EndRunKeeps
<1>11. ASSUME ~torn' PROVE s \in boundaries /\ ~torn
  BY <1>2, <1>11
<1>12. ASSUME ~torn', NEW b \in boundaries, b \in 0 .. s
       PROVE  Paired(restore_from_db(SubSeq(rows', 1, b)))
  <2>1. Paired(restore_from_db(SubSeq(rows, 1, b)))
    BY <1>1, <1>11, <1>12 DEF RowsInv
  <2> QED
    BY <1>4, <1>12, <2>1
<1>13. boundaries' \subseteq 0 .. s /\ boundaries' \subseteq boundaries
       /\ (s \in boundaries => s \in boundaries') /\ stored' \in 0 .. s
  <2>1. \A b \in 0 .. Len(rows) : b <= s => b \in 0 .. s
    BY <1>1, <1>3
  <2>2. s <= s /\ s \in 0 .. s
    BY <1>1, <1>3
  <2> QED
    BY <1>1, <1>2, <2>1, <2>2 DEF s
<1>14. RowsInv'
  BY <1>2, <1>4, <1>5, <1>6, <1>11, <1>12, <1>13 DEF RowsInv
<1>15. Kept'
  <2>1. Restorable(Allowed) \subseteq Known(nextCall)
    BY <1>5 DEF Restorable, Known, Calls
  <2>2. ms \in Seq(Known(nextCall))
    BY <1>7, <2>1
  <2>3. RestoredFrom(rows', DOMAIN rows' \ planned') = ms
    <3>1. DOMAIN rows' \ planned' = DOMAIN rows'
      BY <1>2
    <3> QED
      BY <3>1 DEF restore_from_db, ms
  <2> QED
    BY <1>2, <1>8, <2>2, <2>3 DEF Kept
<1>16. Whole'
  <2> SUFFICES ASSUME ~torn' PROVE Paired(messages_')
    BY DEF Whole
  <2>1. s \in boundaries /\ s \in 0 .. s
    BY <1>1, <1>3, <1>11
  <2>2. Paired(restore_from_db(SubSeq(rows', 1, s)))
    BY <1>12, <2>1
  <2>3. SubSeq(rows', 1, s) = rows'
    <3>1. ASSUME NEW q \in Seq(Rows) PROVE SubSeq(q, 1, Len(q)) = q
      OBVIOUS
    <3> QED
      BY <1>4, <3>1
  <2> QED
    BY <1>2, <2>2, <2>3 DEF ms
<1> QED
  BY <1>9, <1>10, <1>14, <1>15, <1>16 DEF LoopInv

\* The prompt of a plan: a row more, which nothing in memory stands for.
LEMMA PlanStartKeeps == ASSUME LoopInv, handle_ws_plan_start PROVE LoopInv'
<1> DEFINE r == Row("user", 0, TRUE)
           new == <<r>>
<1>1. /\ Persist(new) /\ planned' = planned \cup {Len(rows')}
      /\ UNCHANGED <<historyVars, messages_, prune_dirty_, pc, level, tool_calls, blocked_calls>>
      /\ UNCHANGED <<answerText, compacted, hidden, nextCall>>
  BY DEF handle_ws_plan_start, historyVars, runVars
<1>2. r \in Rows /\ r.role = "user"
  BY DEF Row, Rows
<1>3. restore_from_db(new) = <<User(TRUE)>> /\ Paired(restore_from_db(new))
  <2>1. restore_from_db(new) = <<User(TRUE)>>
    BY <1>2, RestoreOne DEF RowMessage
  <2>2. User(TRUE) \in Bare
    BY BareMessages
  <2>3. <<User(TRUE)>> \in Seq(Bare)
    <3>1. ASSUME NEW m \in Bare PROVE <<m>> \in Seq(Bare)
      OBVIOUS
    <3> QED
      BY <2>2, <3>1
  <2> QED
    BY <2>1, <2>3, BarePaired
<1> HIDE DEF r
<1>4. /\ new \in Seq(Rows) /\ new # <<>> /\ new[1].role # "tool_call"
      /\ \A j \in 1 .. Len(new) : new[j].role \notin {"tool_call", "tool"}
  BY <1>2
<1> HIDE DEF new
<1>5. RowsInv'
  BY <1>1, <1>3, <1>4, PersistKeeps DEF LoopInv
<1>6. HistoryInv'
  BY <1>1, HistoryFrame DEF LoopInv
<1>7. CallsInv' /\ PlaceInv'
  BY <1>1, CallsFrame DEF LoopInv, PlaceInv
<1>8. Whole'
  BY <1>1 DEF LoopInv, Whole, Persist
<1>9. Kept'
  <2> DEFINE n == Len(rows)
             A == DOMAIN rows \ planned
  <2>1. /\ rows \in Seq(Rows) /\ planned \subseteq 1 .. n /\ rows' = rows \o new
        /\ Kept
    BY <1>1 DEF LoopInv, RowsInv, Persist
  <2>2. /\ n \in Nat /\ Len(new) = 1 /\ Len(rows') = n + 1
        /\ DOMAIN rows = 1 .. n /\ DOMAIN rows' = 1 .. (n + 1)
    BY <1>4, <2>1 DEF new
  <2>3. /\ \A i \in 1 .. n : i \in DOMAIN rows' \ planned' <=> i \in A
        /\ \A i \in 1 .. Len(new) : n + i \in DOMAIN rows' \ planned' <=> i \in {}
    <3>1. /\ \A i \in 1 .. n : i \in 1 .. (n + 1) /\ i # n + 1
          /\ \A i \in 1 .. Len(new) : n + i = n + 1
      BY <2>2
    <3> QED
      BY <1>1, <2>2, <3>1
  <2>4. RestoredJoins(rows, A, new, {}, rows', DOMAIN rows' \ planned')
    <3> HIDE DEF A
    <3> QED
      BY <1>4, <2>1, <2>3, RestoredConcat
  <2>5. RestoredFrom(rows', DOMAIN rows' \ planned') = RestoredFrom(rows, A) \o <<>>
    BY <1>4, <2>4, RestoredNone DEF RestoredJoins
  <2> SUFFICES ASSUME ~compacted
               PROVE  RestoredFrom(rows', DOMAIN rows' \ planned') = VisibleLess(messages_, hidden)
    BY <1>1, <2>1 DEF Kept
  <2>6. RestoredFrom(rows, A) = VisibleLess(messages_, hidden) /\ messages_ \in Seq(Message)
    BY <2>1 DEF Kept, LoopInv, HistoryInv, HistoryTypeOK
  <2>7. VisibleLess(messages_, hidden) \in Seq(Message)
    BY <2>6, VisibleType
  <2> HIDE DEF A
  <2> QED
    BY <2>5, <2>6, <2>7
<1> QED
  BY <1>5, <1>6, <1>7, <1>8, <1>9 DEF LoopInv

\* Every step keeps the invariant.
LEMMA NextLoopInv == LoopInv /\ [AgentNext]_agentVars => LoopInv'
<1> SUFFICES ASSUME LoopInv, [AgentNext]_agentVars PROVE LoopInv'
  OBVIOUS
<1>1. CASE StartRun
  BY <1>1, StartRunKeeps
<1>2. CASE Request \/ RespondError \/ RespondOverflow \/ RespondText
  BY <1>2, RequestKeeps, RespondErrorKeeps, RespondOverflowKeeps, RespondTextKeeps
<1>3. ASSUME NEW n \in 0 .. (MaxToolCallsPerStep + 1), NEW todo \in 0 .. 1, n + todo > 0,
             RespondTools(n, todo)
      PROVE  LoopInv'
  <2>1. n \in Nat
    BY LoopAssumption
  <2> QED
    BY <1>3, <2>1, RespondToolsKeeps
<1>4. CASE ToolStep \/ ToolsCancelled \/ RecoverLevel \/ handle_ws_plan_start \/ Restart
  BY <1>4, PlanStartKeeps, ToolStepKeeps, ToolsCancelledKeeps, RecoverLevelKeeps, RestartKeeps
<1>5. CASE UNCHANGED agentVars
  <2>1. /\ UNCHANGED <<rows, stored, boundaries, torn, planned, hidden, messages_, historyVars>>
        /\ UNCHANGED <<pc, level, tool_calls, blocked_calls, answerText, compacted, nextCall>>
        /\ prune_dirty_' = prune_dirty_
    BY <1>5 DEF agentVars, runVars, rowVars, historyVars
  <2>2. HistoryInv'
    BY <2>1, HistoryFrame DEF LoopInv
  <2>3. CallsInv' /\ RowsInv' /\ Kept'
    BY <2>1, CallsFrame, RowsFrame, KeptFrame DEF LoopInv
  <2>4. PlaceInv' /\ Whole'
    BY <2>1 DEF LoopInv, PlaceInv, Whole
  <2> QED
    BY <2>2, <2>3, <2>4 DEF LoopInv
<1> QED
  BY <1>1, <1>2, <1>3, <1>4, <1>5 DEF AgentNext, RunStep

\* The invariant implies the properties.
LEMMA LoopImplies == LoopInv => PruneExact /\ RestoreFaithful /\ RequestsPaired
<1> SUFFICES ASSUME LoopInv PROVE PruneExact /\ RestoreFaithful /\ RequestsPaired
  OBVIOUS
<1>1. messages_ \in Seq(Message) /\ hard_prune_after \in Nat
  BY DEF LoopInv, HistoryInv, HistoryTypeOK
<1>2. PruneExact
  BY CacheIsExact DEF LoopInv
<1>3. RestoreFaithful
  BY <1>1, VisibleIs DEF RestoreFaithful, LoopInv, Kept
<1>4. RequestsPaired
  <2> SUFFICES ASSUME pc = "waiting", ~torn, hard_prune_after >= ProtectRecent
               PROVE  Paired(Messages(pruned_messages_))
    BY DEF RequestsPaired
  <2>1. ~prune_dirty_ /\ Paired(messages_)
    BY DEF LoopInv, PlaceInv, Whole
  <2>2. pruned_messages_ = prune(messages_, hard_prune_after)
    BY <1>2, <2>1 DEF PruneExact
  <2> QED
    BY <1>1, <2>1, <2>2, PairedPrune
<1> QED
  BY <1>2, <1>3, <1>4

\* The inductive invariant of the loop holds throughout.
LEMMA LoopInvariance == AgentSpec => []LoopInv
<1>1. AgentInit => LoopInv
  BY InitLoopInv
<1>2. LoopInv /\ [AgentNext]_agentVars => LoopInv'
  BY NextLoopInv
<1> QED
  BY <1>1, <1>2, PTL DEF AgentSpec

\* agent.cpp: in every request that is sent each tool_use is answered and
\* each result has its tool_use, for lists of any length, any limits and any
\* protected zone.
THEOREM RequestsStayPaired == AgentSpec => []RequestsPaired
  BY LoopInvariance, LoopImplies, PTL

\* conversation_history.cpp:44: what the incremental path of
\* pruned_messages() yields is the pruning of the whole list.
THEOREM PruningExact == AgentSpec => []PruneExact
  BY LoopInvariance, LoopImplies, PTL

\* Session::restore_from_db rebuilds from the rows that runs handed over what
\* the session holds in memory, however many runs, plans and restarts there
\* were; the prompts of the plans started since the last restart, rows that
\* no message stood for, come on top.
THEOREM RestoresFaithfully == AgentSpec => []RestoreFaithful
  BY LoopInvariance, LoopImplies, PTL

-----------------------------------------------------------------------------
(* The registry of the sub-agents.                                        *)

TypeOK ==
    /\ task \in [Task -> {"none", "requesting", "using", "ended"}]
    /\ outcome \in [Task -> {"none", "completed", "failed", "timeout", "cancelled"}]

\* The thread waits for a tool call of a sub-agent that is using a tool.
Blocked == loopAt.what = "use" => loopAt.id[1] \in Task /\ task[loopAt.id[1]] = "using"

\* A token is cancelled because somebody asked or because time is up.
Excused == token \subseteq asked \cup expired

IInv == TypeOK /\ Blocked /\ Excused /\ StatusMatches

-----------------------------------------------------------------------------

\* unregister_active: the status that is dropped is never that of a task
\* that is still registered.
LEMMA UnregisterDomain ==
    ASSUME NEW t, NEW s, unregister_active(t, s)
    PROVE  /\ active_tokens_' = active_tokens_ \ {t}
           /\ \A u \in DOMAIN active_status_' :
                 /\ u = t \/ u \in DOMAIN active_status_
                 /\ active_status_'[u] = IF u = t THEN s ELSE active_status_[u]
           /\ \A u \in active_tokens_ \ {t} :
                 u \in DOMAIN active_status_ => u \in DOMAIN active_status_'
  BY DEF unregister_active

\* EndTask: the end of a running task is seen in the registry at once.
LEMMA EndTaskKeeps ==
    ASSUME IInv, NEW t \in Task, Running(t), NEW s \in {"completed", "failed", "timeout", "cancelled"},
           s = "cancelled" => t \in asked, EndTask(t, s)
    PROVE  TypeOK' /\ StatusMatches' /\ Excused'
  <1>1. TypeOK' /\ Excused'
    BY DEF IInv, TypeOK, Excused, EndTask
  <1>2. StatusMatches'
    <2> SUFFICES ASSUME NEW u \in Task
                 PROVE  StatusMatches!(u)'
      BY DEF StatusMatches
    <2>1. unregister_active(t, s) /\ asked' = asked
      BY DEF EndTask
    <2>2. CASE u = t
      <3>1. ~Running(u)' /\ outcome'[u] = s
        BY <2>2 DEF IInv, TypeOK, EndTask, Running
      <3>2. QED
        BY <2>1, <2>2, <3>1, UnregisterDomain
    <2>3. CASE u # t
      <3>1. (Running(u)' <=> Running(u)) /\ outcome'[u] = outcome[u]
        BY <2>3 DEF IInv, TypeOK, EndTask, Running
      <3>2. QED
        BY <2>1, <2>3, <3>1, UnregisterDomain DEF IInv, StatusMatches
    <2>4. QED
      BY <2>2, <2>3
  <1>3. QED
    BY <1>1, <1>2

\* A step that leaves the sub-agents and their registry alone.
LEMMA TasksKept ==
    ASSUME IInv, UNCHANGED <<task, outcome, token, expired, asked, statusVars>>
    PROVE  TypeOK' /\ Excused' /\ StatusMatches'
  BY DEF IInv, TypeOK, Excused, StatusMatches, Running, statusVars

\* Nothing runs at first.
LEMMA InitIInv == Init => IInv
  BY DEF Init, IInv, TypeOK, Blocked, Excused, StatusMatches, Running, Nothing, Item

\* The io thread and the workers see nothing of the sub-agents.
LEMMA PoolIInv ==
    ASSUME IInv, \/ \E c \in Call, k \in Kinds : execute_tool(c, k) \/ CallRefused(c, k)
                 \/ CallReturns
                 \/ \E w \in Worker : Take(w) \/ Finish(w)
    PROVE  IInv'
  <1>1. UNCHANGED <<task, outcome, token, expired, asked, statusVars, loopAt>>
    BY DEF execute_tool, CallRefused, CallReturns, Take, Finish, taskVars, loopVars
  <1>2. QED
    BY <1>1, TasksKept DEF IInv, Blocked

\* execute() registers a sub-agent while the thread is not blocked.
LEMMA ExecuteIInv ==
    ASSUME IInv, execute
    PROVE  IInv'
  <1> DEFINE t == Head(inbound).id
  <1>1. TypeOK' /\ Blocked' /\ Excused'
    BY DEF IInv, TypeOK, Blocked, Excused, execute, Nothing, Item
  <1>2. StatusMatches'
    <2> SUFFICES ASSUME NEW u \in Task
                 PROVE  StatusMatches!(u)'
      BY DEF StatusMatches
    <2>1. CASE u = t
      BY <2>1 DEF IInv, TypeOK, StatusMatches, Running, execute, register_active
    <2>2. CASE u # t
      BY <2>2 DEF IInv, TypeOK, StatusMatches, Running, execute, register_active
    <2>3. QED
      BY <2>1, <2>2
  <1>3. QED
    BY <1>1, <1>2 DEF IInv

\* A delegation in parts blocks the thread, with nobody using a tool.
LEMMA GatherIInv ==
    ASSUME IInv, StartGather \/ SubmitPart
    PROVE  IInv'
  <1>1. UNCHANGED <<task, outcome, token, expired, asked, statusVars>>
    BY DEF StartGather, SubmitPart, taskVars
  <1>2. loopAt'.what # "use"
    BY DEF StartGather, SubmitPart, Item, Nothing
  <1>3. QED
    BY <1>1, <1>2, TasksKept DEF IInv, Blocked

\* The provider's answer: the sub-agent ends, or the thread waits for its
\* tool call.
LEMMA AnswerIInv ==
    ASSUME IInv, NEW t \in Task, SubAgentEnds(t) \/ SubAgentUses(t)
    PROVE  IInv'
  <1>1. CASE SubAgentEnds(t)
    <2>1. PICK s \in {"completed", "failed", "timeout", "cancelled"} :
            EndTask(t, s) /\ (s = "cancelled" => t \in asked)
      BY <1>1 DEF IInv, Excused, SubAgentEnds, CancelStatus
    <2>2. Running(t) /\ Blocked'
      BY <1>1 DEF SubAgentEnds, Running, Blocked, loopVars, Nothing, Item
    <2>3. QED
      BY <2>1, <2>2, EndTaskKeeps DEF IInv
  <1>2. CASE SubAgentUses(t)
    <2>1. TypeOK' /\ Excused' /\ \A u \in Task : Running(u)' <=> Running(u)
      BY <1>2 DEF IInv, TypeOK, Excused, SubAgentUses, Running
    <2>2. StatusMatches'
      BY <1>2, <2>1 DEF IInv, StatusMatches, SubAgentUses, statusVars
    <2>3. Blocked'
      BY <1>2 DEF IInv, TypeOK, Blocked, SubAgentUses, Item, Nothing
    <2>4. QED
      BY <2>1, <2>2, <2>3 DEF IInv
  <1>3. QED
    BY <1>1, <1>2

\* The thread goes on: with the sub-agent that used the tool, which is still
\* running, or with the next part.
LEMMA ReturnIInv ==
    ASSUME IInv, FutureReturns
    PROVE  IInv'
  <1>1. CASE loopAt.what = "use"
    <2> DEFINE t == loopAt.id[1]
    <2>1. t \in Task /\ Running(t) /\ Blocked'
      BY <1>1 DEF IInv, Blocked, Running, FutureReturns, Nothing, Item
    <2>2. CASE t \in token
      <3>1. EndTask(t, CancelStatus(t))
        BY <1>1, <2>2 DEF FutureReturns
      <3>2. CancelStatus(t) \in {"timeout", "cancelled"} /\ (CancelStatus(t) = "cancelled" => t \in asked)
        BY <2>2 DEF IInv, Excused, CancelStatus
      <3>3. QED
        BY <2>1, <3>1, <3>2, EndTaskKeeps DEF IInv
    <2>3. CASE t \notin token
      <3>1. /\ task' = [task EXCEPT ![t] = "requesting"]
            /\ UNCHANGED <<outcome, token, expired, asked, statusVars>>
        BY <1>1, <2>3 DEF FutureReturns
      <3>2. TypeOK' /\ Excused' /\ \A u \in Task : Running(u)' <=> Running(u)
        BY <2>1, <3>1 DEF IInv, TypeOK, Excused, Running
      <3>3. QED
        BY <2>1, <3>1, <3>2 DEF IInv, StatusMatches, statusVars
    <2>4. QED
      BY <2>2, <2>3
  <1>2. CASE loopAt.what # "use"
    <2>1. UNCHANGED <<task, outcome, token, expired, asked, statusVars>> /\ loopAt'.what # "use"
      BY <1>2 DEF FutureReturns, taskVars, Nothing, Item
    <2>2. QED
      BY <2>1, TasksKept DEF IInv, Blocked
  <1>3. QED
    BY <1>1, <1>2

\* The deadline, the watchdog and cancel() only add.
LEMMA CancelIInv ==
    ASSUME IInv, \/ \E t \in Task : Deadline(t) \/ Watchdog(t) \/ cancel({t})
                 \/ cancel(active_tokens_)
    PROVE  IInv'
  <1>1. UNCHANGED <<task, outcome, loopAt, statusVars>> /\ asked \subseteq asked' /\ Excused'
    BY DEF IInv, Excused, Deadline, Watchdog, cancel, loopVars
  <1>2. QED
    BY <1>1 DEF IInv, TypeOK, Blocked, StatusMatches, Running, statusVars

\* Every step keeps the invariant.
LEMMA NextIInv == IInv /\ [Next]_vars => IInv'
  <1> SUFFICES ASSUME IInv, [Next]_vars
               PROVE  IInv'
    OBVIOUS
  <1>1. CASE LoopStep
    BY <1>1, ExecuteIInv, GatherIInv, ReturnIInv, AnswerIInv DEF LoopStep
  <1>2. CASE UNCHANGED vars
    BY <1>2, TasksKept DEF IInv, Blocked, vars, taskVars, loopVars
  <1>3. QED
    BY <1>1, <1>2, PoolIInv, CancelIInv DEF Next

\* The inductive invariant holds throughout.
THEOREM Invariance == Spec => []IInv
  BY InitIInv, NextIInv, PTL DEF Spec

\* SubAgentRuntime: status(), active_count() and cancel() agree with what
\* runs, and a task is reported cancelled only if somebody cancelled it, in
\* whatever order tasks end and however many statuses are kept.
THEOREM RegistryExact == Spec => []StatusMatches
  <1>1. IInv => StatusMatches
    BY DEF IInv
  <1>2. QED
    BY <1>1, Invariance, PTL
=============================================================================
