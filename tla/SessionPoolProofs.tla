-------------------------- MODULE SessionPoolProofs --------------------------
(***************************************************************************)
(* Proofs about SessionPool, for any sessions, any size of the pool and    *)
(* any number of messages.                                                 *)
(*                                                                         *)
(* The holder of mutex_ leaves the pool half changed between its steps;    *)
(* Holder says what it relies on then: the session it makes an entry for   *)
(* is not in the pool, the one it takes out still is.                      *)
(***************************************************************************)
EXTENDS SessionPool, FiniteSetTheorems, SequenceTheorems, TLAPS

TypeOK ==
    /\ entries \in [Key -> Entry \cup {NoEntry}]
    /\ lru_order \in Seq(Key)
    /\ made \in Nat
    /\ pending_remove \in [Entry -> BOOLEAN]
    /\ active_run \in [Entry -> BOOLEAN]
    /\ active_cancel \in [Entry -> BOOLEAN]
    /\ posted \in [Entry -> Nat]
    /\ runs \in [Entry -> Nat]
    /\ aborting \in SUBSET Entry
    /\ chats \in Nat /\ removes \in Nat /\ aborts \in Nat /\ gets \in Nat

\* What the holder of mutex_ is doing, and what it has seen.
Holder ==
    \/ op = Idle
    \/ op \in [do : {"replace", "remove"}, k : Key] /\ op.k \in Pooled
    \/ op \in [do : {"make"}, k : Key, i : Nat \ {0}] /\ op.k \notin Pooled

\* Every entry was made for a chat message that was counted before.
Counted ==
    /\ made <= chats /\ chats <= MaxChats
    /\ op.do \in {"make", "replace"} => made < chats

\* An entry stands under the key it was made for.
Owned == DOMAIN key = Entry /\ \A k \in Pooled : entries[k] <= made /\ key[entries[k]] = k

IInv == TypeOK /\ Holder /\ Counted /\ Owned /\ LruMatches /\ RunsExact

-----------------------------------------------------------------------------
(* Lemmas about lru_order_.                                                *)

\* lru_order_.erase(it): what is left when a sequence without repetitions
\* loses the element at one place.
LEMMA RemoveAtInjective ==
    ASSUME NEW S, NEW s \in Seq(S), IsInjective(s), NEW i \in 1 .. Len(s)
    PROVE  /\ RemoveAt(s, i) \in Seq(S)
           /\ Len(RemoveAt(s, i)) = Len(s) - 1
           /\ IsInjective(RemoveAt(s, i))
           /\ ToSet(RemoveAt(s, i)) = ToSet(s) \ {s[i]}
  <1> DEFINE r == RemoveAt(s, i)
             left == SubSeq(s, 1, i - 1)
             right == SubSeq(s, i + 1, Len(s))
  <1>0. Len(s) \in Nat /\ DOMAIN s = 1 .. Len(s) /\ \A j \in 1 .. Len(s) : s[j] \in S
    BY LenProperties, ElementOfSeq
  <1>1. /\ left \in Seq(S) /\ Len(left) = i - 1
        /\ \A j \in 1 .. i - 1 : left[j] = s[j]
    <2>1. \A j \in 1 .. i - 1 : s[j] \in S
      BY <1>0
    <2>2. QED
      BY <1>0, <2>1, SubSeqProperties
  <1>2. /\ right \in Seq(S) /\ Len(right) = Len(s) - i
        /\ \A j \in 1 .. Len(s) - i : right[j] = s[i + j]
    <2>1. i + 1 \in Int /\ Len(s) \in Int /\ \A j \in i + 1 .. Len(s) : s[j] \in S
      BY <1>0
    <2>2. /\ right \in Seq(S)
          /\ \A j \in 1 .. Len(s) - (i + 1) + 1 : right[j] = s[(i + 1) + j - 1]
      BY <2>1, SubSeqProperties
    <2>3. Len(right) = IF i + 1 <= Len(s) THEN Len(s) - (i + 1) + 1 ELSE 0
      BY <2>1, SubSeqProperties
    <2> HIDE DEF right
    <2>4. \A n \in Nat : i \in 1 .. n =>
            /\ n - (i + 1) + 1 = n - i /\ (~(i + 1 <= n) => n - i = 0)
            /\ \A j \in 1 .. n - i : (i + 1) + j - 1 = i + j
      OBVIOUS
    <2>5. /\ Len(s) - (i + 1) + 1 = Len(s) - i /\ (~(i + 1 <= Len(s)) => Len(s) - i = 0)
          /\ \A j \in 1 .. Len(s) - i : (i + 1) + j - 1 = i + j
      BY <1>0, <2>4
    <2>6. Len(right) = Len(s) - i
      BY <2>3, <2>5
    <2>7. ASSUME NEW j \in 1 .. Len(s) - i
          PROVE  right[j] = s[i + j]
      BY <2>2, <2>5
    <2>8. QED
      BY <2>2, <2>6, <2>7
  <1> HIDE DEF left, right
  <1>3. r = left \o right
    BY DEF RemoveAt, left, right
  <1> HIDE DEF r
  <1>4. r \in Seq(S) /\ Len(r) = Len(s) - 1 /\ DOMAIN r = 1 .. Len(s) - 1
    <2>1. r \in Seq(S) /\ Len(r) = Len(left) + Len(right)
      BY <1>1, <1>2, <1>3, ConcatProperties
    <2>2. QED
      BY <1>0, <1>1, <1>2, <2>1, LenProperties
  <1>5. \A j \in 1 .. Len(s) - 1 : r[j] = IF j < i THEN s[j] ELSE s[j + 1]
    <2> TAKE j \in 1 .. Len(s) - 1
    <2>1. r[j] = IF j <= Len(left) THEN left[j] ELSE right[j - Len(left)]
      <3>1. j \in 1 .. Len(left) + Len(right)
        BY <1>0, <1>1, <1>2
      <3>2. QED
        BY <1>1, <1>2, <1>3, <3>1, ConcatProperties
    <2>2. QED
      BY <1>0, <1>1, <1>2, <2>1
  <1>6. IsInjective(r)
    BY SMTT(30), <1>0, <1>4, <1>5 DEF IsInjective
  <1>7. ToSet(r) = ToSet(s) \ {s[i]}
    <2>1. ASSUME NEW j \in 1 .. Len(s) - 1
          PROVE  r[j] \in ToSet(s) \ {s[i]}
      BY <1>0, <1>5 DEF IsInjective, ToSet
    <2>2. ASSUME NEW j \in 1 .. Len(s), s[j] # s[i]
          PROVE  s[j] \in ToSet(r)
      <3>1. CASE j < i
        BY SMTT(30), <3>1, <1>0, <1>4, <1>5 DEF ToSet
      <3>2. CASE j > i
        <4>1. j - 1 \in 1 .. Len(s) - 1 /\ r[j - 1] = s[j]
          BY <3>2, <1>0, <1>5
        <4>2. QED
          BY <4>1, <1>4 DEF ToSet
      <3>3. QED
        BY <1>0, <2>2, <3>1, <3>2
    <2>3. QED
      BY <1>0, <1>4, <2>1, <2>2 DEF ToSet
  <1>8. QED
    BY <1>4, <1>6, <1>7 DEF r

\* erase_lru_unlocked: the key is gone, the others stay, each once.
LEMMA RemoveFirstInjective ==
    ASSUME NEW S, NEW s \in Seq(S), IsInjective(s), NEW k
    PROVE  /\ RemoveFirst(s, k) \in Seq(S)
           /\ Len(RemoveFirst(s, k)) = IF k \in ToSet(s) THEN Len(s) - 1 ELSE Len(s)
           /\ IsInjective(RemoveFirst(s, k))
           /\ ToSet(RemoveFirst(s, k)) = ToSet(s) \ {k}
  <1>0. DOMAIN s = 1 .. Len(s)
    BY LenProperties
  <1>1. CASE k \notin ToSet(s)
    <2>1. RemoveFirst(s, k) = s
      BY <1>0, <1>1 DEF RemoveFirst, ToSet
    <2>2. QED
      BY <1>1, <2>1
  <1>2. CASE k \in ToSet(s)
    <2>1. PICK i \in 1 .. Len(s) : s[i] = k
      BY <1>0, <1>2 DEF ToSet
    <2>2. {j \in 1 .. Len(s) : s[j] = k} = {i}
      BY <1>0, <2>1 DEF IsInjective
    <2>3. Min({i}) = i
      BY DEF Min
    <2>4. RemoveFirst(s, k) = RemoveAt(s, i)
      BY <2>1, <2>2, <2>3 DEF RemoveFirst, SelectInSeq
    <2>5. /\ RemoveFirst(s, k) \in Seq(S) /\ IsInjective(RemoveFirst(s, k))
          /\ Len(RemoveFirst(s, k)) = Len(s) - 1
          /\ ToSet(RemoveFirst(s, k)) = ToSet(s) \ {s[i]}
      BY <2>4, RemoveAtInjective
    <2>6. QED
      BY <1>2, <2>1, <2>5
  <1>3. QED
    BY <1>1, <1>2

\* touch_lru_unlocked: the key is the newest, the others keep their place.
LEMMA TouchInjective ==
    ASSUME NEW S, NEW s \in Seq(S), IsInjective(s), NEW k \in S
    PROVE  /\ Append(RemoveFirst(s, k), k) \in Seq(S)
           /\ Len(Append(RemoveFirst(s, k), k)) = IF k \in ToSet(s) THEN Len(s) ELSE Len(s) + 1
           /\ IsInjective(Append(RemoveFirst(s, k), k))
           /\ ToSet(Append(RemoveFirst(s, k), k)) = ToSet(s) \cup {k}
  <1> DEFINE q == RemoveFirst(s, k)
             r == Append(q, k)
  <1>1. /\ q \in Seq(S) /\ IsInjective(q) /\ ToSet(q) = ToSet(s) \ {k}
        /\ Len(q) = IF k \in ToSet(s) THEN Len(s) - 1 ELSE Len(s)
    BY RemoveFirstInjective
  <1> HIDE DEF q
  <1>2. /\ r \in Seq(S) /\ Len(r) = Len(q) + 1 /\ r[Len(q) + 1] = k
        /\ \A i \in 1 .. Len(q) : r[i] = q[i]
    BY <1>1, AppendProperties
  <1> HIDE DEF r
  <1>3. /\ Len(q) \in Nat /\ DOMAIN q = 1 .. Len(q) /\ DOMAIN r = 1 .. Len(q) + 1
        /\ Len(s) \in Nat
    BY <1>1, <1>2, LenProperties
  <1>4. \A i \in 1 .. Len(q) : q[i] # k
    BY <1>1, <1>3 DEF ToSet
  <1>5. IsInjective(r)
    <2> SUFFICES ASSUME NEW i \in 1 .. Len(q) + 1, NEW j \in 1 .. Len(q) + 1, r[i] = r[j]
                 PROVE  i = j
      BY <1>3 DEF IsInjective
    <2>1. CASE i \in 1 .. Len(q) /\ j \in 1 .. Len(q)
      BY <2>1, <1>1, <1>2, <1>3 DEF IsInjective
    <2>2. CASE i = Len(q) + 1 \/ j = Len(q) + 1
      BY <2>2, <1>2, <1>3, <1>4
    <2>3. QED
      BY <1>3, <2>1, <2>2
  <1>6. ToSet(r) = ToSet(q) \cup {k}
    <2>1. ToSet(r) \subseteq ToSet(q) \cup {k}
      BY <1>2, <1>3 DEF ToSet
    <2>2. ToSet(q) \subseteq ToSet(r)
      BY <1>2, <1>3 DEF ToSet
    <2>3. k \in ToSet(r)
      <3>1. Len(q) + 1 \in DOMAIN r
        BY <1>3
      <3>2. QED
        BY <3>1, <1>2 DEF ToSet
    <2>4. QED
      BY <2>1, <2>2, <2>3
  <1>7. Len(r) = IF k \in ToSet(s) THEN Len(s) ELSE Len(s) + 1
    BY <1>1, <1>2, <1>3
  <1>8. QED
    BY <1>1, <1>2, <1>5, <1>6, <1>7 DEF r, q

\* lru_order_ and entries_ have the same size while they list the same keys.
LEMMA InjectiveLength ==
    ASSUME NEW S, NEW s \in Seq(S), IsInjective(s)
    PROVE  IsFiniteSet(ToSet(s)) /\ Cardinality(ToSet(s)) = Len(s)
  <1>1. Len(s) \in Nat /\ DOMAIN s = 1 .. Len(s) /\ s \in [1 .. Len(s) -> S]
    BY LenProperties
  <1>2. s \in [1 .. Len(s) -> ToSet(s)]
    BY <1>1 DEF ToSet
  <1>3. s \in Bijection(1 .. Len(s), ToSet(s))
    BY <1>1, <1>2 DEF IsInjective, ToSet, Bijection, Injection, Surjection
  <1>4. IsFiniteSet(1 .. Len(s)) /\ Cardinality(1 .. Len(s)) = Len(s)
    BY SMTT(30), <1>1, FS_Interval
  <1>5. QED
    BY <1>3, <1>4, FS_Bijection DEF ExistsBijection

-----------------------------------------------------------------------------
(* What the steps do to the pool.                                          *)

\* touch_lru_unlocked of a session of the pool changes only the order.
LEMMA TouchKeeps ==
    ASSUME IInv, NEW k \in Pooled, lru_order' = touch_lru(k), entries' = entries
    PROVE  lru_order' \in Seq(Key) /\ LruMatches'
  <1>1. /\ lru_order \in Seq(Key) /\ IsInjective(lru_order) /\ ToSet(lru_order) = Pooled
        /\ k \in Key /\ Len(lru_order) <= MaxSize
    BY DEF IInv, TypeOK, LruMatches, Pooled
  <1>2. /\ lru_order' \in Seq(Key) /\ Len(lru_order') = Len(lru_order)
        /\ IsInjective(lru_order') /\ ToSet(lru_order') = Pooled
    <2>1. lru_order' = Append(RemoveFirst(lru_order, k), k)
      BY DEF touch_lru, erase_lru
    <2>2. k \in ToSet(lru_order) /\ ToSet(lru_order) \cup {k} = Pooled
      BY <1>1
    <2>3. /\ lru_order' \in Seq(Key) /\ IsInjective(lru_order')
          /\ ToSet(lru_order') = ToSet(lru_order) \cup {k}
      BY <1>1, <2>1, TouchInjective
    <2>4. Len(lru_order') = IF k \in ToSet(lru_order) THEN Len(lru_order) ELSE Len(lru_order) + 1
      BY <1>1, <2>1, TouchInjective
    <2>5. QED
      BY <2>2, <2>3, <2>4
  <1>3. QED
    BY <1>1, <1>2 DEF LruMatches, Pooled

\* Erase keeps entries_ and lru_order_ in step.
LEMMA EraseKeeps ==
    ASSUME IInv, NEW k \in Pooled, Erase(k)
    PROVE  /\ entries' \in [Key -> Entry \cup {NoEntry}] /\ Pooled' = Pooled \ {k}
           /\ lru_order' \in Seq(Key) /\ LruMatches'
  <1>1. /\ lru_order \in Seq(Key) /\ IsInjective(lru_order) /\ ToSet(lru_order) = Pooled
        /\ k \in Key /\ Len(lru_order) <= MaxSize /\ Len(lru_order) \in Nat
    BY LenProperties DEF IInv, TypeOK, LruMatches, Pooled
  <1>2. entries' \in [Key -> Entry \cup {NoEntry}] /\ Pooled' = Pooled \ {k}
    BY <1>1 DEF IInv, TypeOK, Erase, Pooled
  <1>3. /\ lru_order' \in Seq(Key) /\ Len(lru_order') = Len(lru_order) - 1
        /\ IsInjective(lru_order') /\ ToSet(lru_order') = Pooled \ {k}
    BY <1>1, RemoveFirstInjective DEF Erase, erase_lru
  <1>4. QED
    <2>1. Len(lru_order') <= MaxSize
      BY <1>1, <1>3, PoolAssumption
    <2>2. QED
      BY <1>2, <1>3, <2>1 DEF LruMatches

\* A step that leaves the pool alone keeps what is said of it.
LEMMA PoolKept ==
    ASSUME IInv, UNCHANGED <<entries, lru_order, op, made, key, chats>>
    PROVE  Holder' /\ Counted' /\ Owned' /\ LruMatches'
  BY DEF IInv, Holder, Counted, Owned, LruMatches, Pooled, Idle

-----------------------------------------------------------------------------
(* The runs.                                                               *)

\* ActiveRunGuard and the cancellations: the flag and the run go together.
LEMMA RunIInv ==
    ASSUME IInv, \/ \E e \in Entry : StartRun(e) \/ RejectChat(e) \/ EndRun(e) \/ CancelRun(e)
                 \/ \E k \in Key : RemoveActive(k)
    PROVE  IInv'
  <1>1. CASE \E e \in Entry : StartRun(e) \/ RejectChat(e) \/ EndRun(e) \/ CancelRun(e)
    <2> PICK e \in Entry : StartRun(e) \/ RejectChat(e) \/ EndRun(e) \/ CancelRun(e)
      BY <1>1
    <2>1. Holder' /\ Counted' /\ Owned' /\ LruMatches'
      BY PoolKept DEF StartRun, RejectChat, EndRun, CancelRun, entryVars, bounds
    <2>2. TypeOK'
      <3>1. CASE StartRun(e)
        BY SMTT(30), <3>1 DEF IInv, TypeOK, StartRun, entryVars, bounds
      <3>2. CASE RejectChat(e)
        BY <3>2 DEF IInv, TypeOK, RejectChat, entryVars, bounds, runVars
      <3>3. CASE EndRun(e)
        BY <3>3 DEF IInv, TypeOK, EndRun, entryVars, bounds
      <3>4. CASE CancelRun(e)
        BY <3>4 DEF IInv, TypeOK, CancelRun, entryVars, bounds
      <3>5. QED
        BY <3>1, <3>2, <3>3, <3>4
    <2>3. RunsExact'
      <3>1. CASE StartRun(e)
        BY SMTT(30), <3>1 DEF IInv, TypeOK, RunsExact, StartRun
      <3>2. CASE RejectChat(e)
        BY <3>2 DEF IInv, RunsExact, RejectChat, runVars
      <3>3. CASE EndRun(e)
        BY <3>3 DEF IInv, TypeOK, RunsExact, EndRun
      <3>4. CASE CancelRun(e)
        BY <3>4 DEF IInv, TypeOK, RunsExact, CancelRun
      <3>5. QED
        BY <3>1, <3>2, <3>3, <3>4
    <2>4. QED
      BY <2>1, <2>2, <2>3 DEF IInv
  <1>2. CASE \E k \in Key : RemoveActive(k)
    <2> PICK k \in Key : RemoveActive(k)
      BY <1>2
    <2>1. Holder' /\ Counted' /\ Owned' /\ LruMatches'
      BY PoolKept DEF RemoveActive
    <2>2. entries[k] \in Entry
      BY DEF IInv, TypeOK, RemoveActive
    <2>3. TypeOK'
      BY <2>2 DEF IInv, TypeOK, RemoveActive
    <2>4. RunsExact'
      BY <2>2 DEF IInv, TypeOK, RunsExact, RemoveActive
    <2>5. QED
      BY <2>1, <2>3, <2>4 DEF IInv
  <1>3. QED
    BY <1>1, <1>2

-----------------------------------------------------------------------------
(* The operations under mutex_.                                            *)

\* A session of the pool is handed out: get_or_create, get and cancel.
LEMMA TouchIInv ==
    ASSUME IInv, NEW k \in Key, \/ Reuse(k) /\ UNCHANGED op
                                \/ get(k) \/ cancel(k)
    PROVE  IInv'
  <1>1. k \in Pooled /\ entries[k] \in Entry /\ Free
    BY DEF IInv, TypeOK, Reuse, get, cancel, Pooled
  <1>2. lru_order' = touch_lru(k) /\ UNCHANGED <<entries, op, made, key>>
    BY <1>1 DEF Reuse, get, cancel, entryVars, Free, Idle
  <1>3. lru_order' \in Seq(Key) /\ LruMatches'
    BY <1>1, <1>2, TouchKeeps
  <1>4. TypeOK'
    <2>1. CASE Reuse(k)
      <3>1. posted' = [posted EXCEPT ![entries[k]] = @ + 1]
        BY <1>1, <1>2, <2>1 DEF Reuse, PostHandler, Free, Idle
      <3>2. QED
        BY <1>1, <1>2, <1>3, <2>1, <3>1 DEF IInv, TypeOK, Reuse, entryVars, runVars
    <2>2. CASE get(k)
      BY <1>2, <1>3, <2>2 DEF IInv, TypeOK, get, entryVars, runVars
    <2>3. CASE cancel(k)
      BY <1>1, <1>2, <1>3, <2>3 DEF IInv, TypeOK, cancel, entryVars, runVars
    <2>4. QED
      BY <2>1, <2>2, <2>3
  <1>5. RunsExact'
    BY DEF IInv, RunsExact, Reuse, get, cancel, runVars
  <1>6. Holder' /\ Owned'
    BY <1>1, <1>2 DEF IInv, Holder, Owned, Free, Idle, Pooled
  <1>7. Counted'
    BY <1>1, <1>2, PoolAssumption DEF IInv, TypeOK, Counted, Reuse, get, cancel, Free, Idle
  <1>8. QED
    BY <1>3, <1>4, <1>5, <1>6, <1>7 DEF IInv

\* mutex_ is kept for the steps that follow, or let go with nothing done.
LEMMA HoldIInv ==
    ASSUME IInv, \/ \E k \in Key : \/ Reuse(k) /\ op' # op
                                   \/ Missing(k) \/ RemoveIdle(k)
                 \/ RefuseChat
    PROVE  IInv'
  <1>1. UNCHANGED <<entries, lru_order, made, key, posted, runVars>>
    BY DEF Reuse, Missing, RemoveIdle, RefuseChat, entryVars
  <1>2. TypeOK'
    <2>1. chats' \in Nat /\ removes' \in Nat /\ UNCHANGED <<aborts, gets, aborting, pending_remove>>
      BY DEF IInv, TypeOK, Reuse, Missing, RemoveIdle, RefuseChat, entryVars, bounds
    <2>2. QED
      BY <1>1, <2>1 DEF IInv, TypeOK, runVars
  <1>3. RunsExact' /\ LruMatches' /\ Owned'
    BY <1>1 DEF IInv, RunsExact, LruMatches, Owned, Pooled, runVars
  <1>4. Holder' /\ Counted'
    <2>1. ASSUME NEW k \in Key, Reuse(k), op' # op
          PROVE  Holder' /\ Counted'
      <3>1. /\ op' = [do |-> "replace", k |-> k] /\ k \in Pooled
            /\ chats < MaxChats /\ chats' = chats + 1
        BY <2>1 DEF Reuse, Pooled
      <3>2. QED
        BY <1>1, <3>1, PoolAssumption DEF IInv, TypeOK, Holder, Counted, Pooled
    <2>2. ASSUME NEW k \in Key, Missing(k)
          PROVE  Holder' /\ Counted'
      BY <1>1, <2>2, PoolAssumption DEF IInv, TypeOK, Holder, Counted, Pooled, Missing
    <2>3. ASSUME NEW k \in Key, RemoveIdle(k)
          PROVE  Holder' /\ Counted'
      BY <1>1, <2>3 DEF IInv, Holder, Counted, Pooled, RemoveIdle
    <2>4. CASE RefuseChat
      BY <1>1, <2>4 DEF IInv, Holder, Counted, Idle, RefuseChat, bounds
    <2>5. QED
      BY <2>1, <2>2, <2>3, <2>4
  <1>5. QED
    BY <1>2, <1>3, <1>4 DEF IInv

\* An idle session is taken out, by remove() or to be replaced.
LEMMA EraseIInv ==
    ASSUME IInv, ErasePending \/ RemoveErase
    PROVE  IInv'
  <1>1. op.k \in Pooled /\ op.k \in Key /\ Erase(op.k)
    BY DEF IInv, Holder, Idle, ErasePending, RemoveErase, Pooled
  <1>2. UNCHANGED <<made, key, pending_remove, posted, aborting, chats, removes, aborts, gets,
                    runVars>>
    BY DEF ErasePending, RemoveErase, entryVars, bounds
  <1>3. /\ entries' \in [Key -> Entry \cup {NoEntry}] /\ Pooled' = Pooled \ {op.k}
        /\ lru_order' \in Seq(Key) /\ LruMatches'
    BY <1>1, EraseKeeps
  <1>4. TypeOK' /\ RunsExact'
    BY <1>2, <1>3 DEF IInv, TypeOK, RunsExact, runVars
  <1>5. Owned'
    BY <1>1, <1>2, <1>3 DEF IInv, TypeOK, Owned, Erase, Pooled
  <1>6. Holder' /\ Counted'
    BY <1>1, <1>2, <1>3 DEF IInv, Holder, Counted, Idle, ErasePending, RemoveErase
  <1>7. QED
    BY <1>3, <1>4, <1>5, <1>6 DEF IInv

\* The scan passes an entry that is running or takes one out; the session
\* the room is for is not in the pool, so it is another one.
LEMMA EvictIInv ==
    ASSUME IInv, Evict
    PROVE  IInv'
  <1> DEFINE k == lru_order[op.i]
  <1>1. /\ op \in [do : {"make"}, k : Key, i : Nat \ {0}] /\ op.k \notin Pooled
        /\ op.i \in 1 .. Len(lru_order)
    <2>1. Len(lru_order) \in Nat
      BY LenProperties DEF IInv, TypeOK
    <2>2. QED
      BY <2>1 DEF IInv, Holder, Idle, Evict
  <1>2. UNCHANGED <<made, key, pending_remove, posted, aborting, chats, removes, aborts, gets,
                    runVars>>
    BY DEF Evict, entryVars, bounds
  <1>3. k \in Pooled /\ k \in Key
    BY <1>1, LenProperties DEF IInv, TypeOK, LruMatches, ToSet, Pooled
  <1>4. CASE UNCHANGED <<entries, lru_order>> /\ op' = [op EXCEPT !.i = @ + 1]
    <2>1. op' \in [do : {"make"}, k : Key, i : Nat \ {0}] /\ op'.k = op.k /\ op'.do = op.do
      BY <1>1, <1>4
    <2>2. Holder' /\ Counted'
      BY <1>1, <1>2, <1>4, <2>1 DEF IInv, Holder, Counted, Pooled
    <2>3. TypeOK' /\ Owned' /\ LruMatches' /\ RunsExact'
      BY <1>2, <1>4 DEF IInv, TypeOK, Owned, LruMatches, RunsExact, Pooled, runVars
    <2>4. QED
      BY <2>2, <2>3 DEF IInv
  <1>5. CASE /\ op' = [op EXCEPT !.i = 1] /\ entries' = [entries EXCEPT ![k] = NoEntry]
             /\ lru_order' = RemoveAt(lru_order, op.i)
    <2>1. entries' \in [Key -> Entry \cup {NoEntry}] /\ Pooled' = Pooled \ {k}
      BY <1>3, <1>5 DEF IInv, TypeOK, Pooled
    <2>2. /\ lru_order \in Seq(Key) /\ IsInjective(lru_order) /\ ToSet(lru_order) = Pooled
          /\ Len(lru_order) <= MaxSize /\ Len(lru_order) \in Nat
      BY LenProperties DEF IInv, TypeOK, LruMatches
    <2>3. /\ lru_order' \in Seq(Key) /\ Len(lru_order') = Len(lru_order) - 1
          /\ IsInjective(lru_order') /\ ToSet(lru_order') = Pooled \ {k}
      BY <1>1, <1>5, <2>2, RemoveAtInjective
    <2>4. LruMatches'
      <3>1. Len(lru_order') <= MaxSize
        BY <2>2, <2>3, PoolAssumption
      <3>2. QED
        BY <2>1, <2>3, <3>1 DEF LruMatches
    <2>5. TypeOK' /\ RunsExact'
      BY <1>2, <2>1, <2>3 DEF IInv, TypeOK, RunsExact, runVars
    <2>6. Owned'
      BY <1>2, <1>3, <1>5, <2>1 DEF IInv, TypeOK, Owned, Pooled
    <2>7. Holder' /\ Counted'
      BY <1>1, <1>2, <1>5, <2>1 DEF IInv, Holder, Counted
    <2>8. QED
      BY <2>4, <2>5, <2>6, <2>7 DEF IInv
  <1>6. QED
    BY <1>4, <1>5 DEF Evict

\* There is room for the new entry, and it is the only one of its session.
LEMMA MakeIInv ==
    ASSUME IInv, Make
    PROVE  IInv'
  <1>1. op \in [do : {"make"}, k : Key, i : Nat \ {0}] /\ op.k \notin Pooled /\ op.k \in Key
    BY DEF IInv, Holder, Idle, Make
  <1>2. made + 1 \in Entry /\ made < chats
    BY <1>1, PoolAssumption DEF IInv, TypeOK, Counted, Entry
  <1>3. /\ lru_order \in Seq(Key) /\ IsInjective(lru_order) /\ ToSet(lru_order) = Pooled
        /\ Len(lru_order) \in Nat
    BY LenProperties DEF IInv, TypeOK, LruMatches
  <1>4. Len(lru_order) < MaxSize
    <2>1. Cardinality(Pooled) = Len(lru_order)
      BY <1>3, InjectiveLength
    <2>2. lru_order = <<>> => Len(lru_order) = 0
      BY EmptySeq
    <2>3. QED
      BY <1>3, <2>1, <2>2, PoolAssumption DEF Make, Full
  <1>5. entries' \in [Key -> Entry \cup {NoEntry}] /\ Pooled' = Pooled \cup {op.k}
    BY <1>1, <1>2 DEF IInv, TypeOK, Make, Pooled, NoEntry, Entry
  <1>6. /\ lru_order' \in Seq(Key) /\ IsInjective(lru_order')
        /\ ToSet(lru_order') = Pooled \cup {op.k}
        /\ Len(lru_order') = Len(lru_order) + 1
    <2>1. lru_order' = Append(RemoveFirst(lru_order, op.k), op.k)
      BY DEF Make, touch_lru, erase_lru
    <2>2. /\ lru_order' \in Seq(Key) /\ IsInjective(lru_order')
          /\ ToSet(lru_order') = ToSet(lru_order) \cup {op.k}
      BY <1>1, <1>3, <2>1, TouchInjective
    <2>3. Len(lru_order') = IF op.k \in ToSet(lru_order) THEN Len(lru_order) ELSE Len(lru_order) + 1
      BY <1>1, <1>3, <2>1, TouchInjective
    <2>4. QED
      BY <1>1, <1>3, <2>2, <2>3
  <1>7. LruMatches'
    <2>1. Len(lru_order') <= MaxSize
      BY <1>3, <1>4, <1>6, PoolAssumption
    <2>2. QED
      BY <1>5, <1>6, <2>1 DEF LruMatches
  <1>8. TypeOK'
    BY <1>2, <1>5, <1>6 DEF IInv, TypeOK, Make, PostHandler, bounds, runVars
  <1>9. RunsExact'
    BY DEF IInv, RunsExact, Make, runVars
  <1>10. Holder' /\ Counted'
    BY <1>2 DEF IInv, TypeOK, Holder, Counted, Idle, Make, bounds
  <1>11. Owned'
    <2> SUFFICES ASSUME NEW k \in Pooled'
                 PROVE  entries'[k] <= made' /\ key'[entries'[k]] = k
      BY DEF IInv, Owned, Make
    <2>1. CASE k = op.k
      BY <1>1, <1>2, <2>1 DEF IInv, TypeOK, Owned, Make
    <2>2. CASE k # op.k
      BY <1>1, <1>2, <1>5, <2>2 DEF IInv, TypeOK, Owned, Make, Pooled, Entry, NoEntry
    <2>3. QED
      BY <2>1, <2>2
  <1>12. QED
    BY <1>7, <1>8, <1>9, <1>10, <1>11 DEF IInv

\* The pool is empty at first.
LEMMA InitIInv == Init => IInv
  <1> SUFFICES ASSUME Init
               PROVE  IInv
    OBVIOUS
  <1>1. lru_order \in Seq(Key) /\ Len(lru_order) = 0
    BY EmptySeq DEF Init
  <1>2. DOMAIN lru_order = {}
    BY <1>1, LenProperties
  <1>3. LruMatches
    BY <1>1, <1>2, PoolAssumption DEF Init, LruMatches, IsInjective, ToSet, Pooled
  <1>4. QED
    BY <1>1, <1>3, PoolAssumption
    DEF Init, IInv, TypeOK, Holder, Counted, Owned, RunsExact, Pooled, Idle

\* Every step keeps the invariant.
LEMMA NextIInv == IInv /\ [Next]_vars => IInv'
  <1> SUFFICES ASSUME IInv, [Next]_vars
               PROVE  IInv'
    OBVIOUS
  <1>1. CASE UNCHANGED vars
    BY <1>1 DEF vars, IInv, TypeOK, Holder, Counted, Owned, LruMatches, RunsExact, Pooled, Idle
  <1>2. QED
    BY <1>1, RunIInv, TouchIInv, HoldIInv, EraseIInv, EvictIInv, MakeIInv DEF Next

\* The inductive invariant holds throughout.
THEOREM Invariance == Spec => []IInv
  BY InitIInv, NextIInv, PTL DEF Spec

\* SessionPool: lru_order_ lists the sessions of the pool, each once, and
\* there are never more than max_size_ of them, whatever the sessions are.
THEOREM LruExact == Spec => []LruMatches
  <1>1. IInv => LruMatches
    BY DEF IInv
  <1>2. QED
    BY <1>1, Invariance, PTL

\* ActiveRunGuard: at most one handler runs the agent of an entry, the flag
\* says whether one does, and a cancellation ends with its run.
THEOREM OneRunPerEntry == Spec => []RunsExact
  <1>1. IInv => RunsExact
    BY DEF IInv
  <1>2. QED
    BY <1>1, Invariance, PTL

\* Two sessions of the pool never share an entry, and so never an agent and
\* its history: an entry stays under the key it was made for.
SessionsApart == \A k, l \in Pooled : entries[k] = entries[l] => k = l

\* get_or_create: no two sessions are ever given the same entry.
THEOREM NoSharedEntry == Spec => []SessionsApart
  <1>1. IInv => SessionsApart
    BY DEF IInv, Owned, SessionsApart
  <1>2. QED
    BY <1>1, Invariance, PTL
=============================================================================
