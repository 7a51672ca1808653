-------------------------- MODULE HistoryDBProofs --------------------------
(***************************************************************************)
(* FlushSettles, RowsListed and LogSpec of HistoryDB, for any number of    *)
(* sessions, messages, openings, calls and crashes.                        *)
(*                                                                         *)
(* For flush() the invariant is the accounting behind pending_count: it is *)
(* the queue plus the batch the flush thread works on, so when it is 0     *)
(* nothing older is on its way. For the listing it is what rw_mutex gives  *)
(* a delete on the session's own object: once its messages are gone no     *)
(* commit of the flush thread falls between that and its last statement.   *)
(*                                                                         *)
(* For the refinement of DurableLog it is the order of the numbers (OInv): *)
(* what a session has on its way rises, and lies above what is stored. So  *)
(* a commit puts its rows behind the others in ORDER BY seq. It holds of   *)
(* the sessions that never had two objects at once: two objects of one     *)
(* session each number on from what they read at their opening.            *)
(***************************************************************************)
EXTENDS HistoryDB, FiniteSetTheorems, SequenceTheorems, WellFoundedInduction, TLAPS

-----------------------------------------------------------------------------
(* The inductive invariant.                                                *)

\* Messages are numbered from 1; no sequence number is ahead of the count.
Entry(n) == [id : 1 .. n, seq : 0 .. n]

Ops == {"messages", "states", "sessions", "count", "cleanup", "save", "upsert",
        "create", "rename"}

Statement ==
    [op : Ops, on : SUBSET Session, must : BOOLEAN]
    \cup [op : {"trim"}, on : SUBSET Session, must : BOOLEAN,
          gone : SUBSET [id : Nat, seq : Nat]]

TypeOK ==
    /\ appended \in Nat /\ opens \in Nat /\ events \in Nat
    /\ messages \in [Session -> SUBSET Entry(appended)]
    /\ sessions \in [Session -> {"absent", "unnamed", "named"}]
    /\ session_states \subseteq Session
    /\ life \in [Handle -> {"closed", "open", "closing"}]
    /\ global_seq \in [Handle -> 0 .. appended]
    /\ pending_count \in [Handle -> Nat]
    /\ write_queue \in [Handle -> Seq(Entry(appended))]
    /\ batch \in [Handle -> Seq(Entry(appended))]
    /\ tx \in [Handle -> Seq(Entry(appended))]
    /\ size \in [Handle -> Nat]
    /\ flusher \in [Handle -> {"loop", "inserting", "committed"}]
    /\ job \in [Object -> Seq(Statement)]
    /\ flushCall \in [Handle -> {"idle", "checking", "parking", "waiting", "returned"}]
    /\ owed \in [Handle -> SUBSET (1 .. appended)]
    /\ shared \subseteq Session /\ unlistable \subseteq Session

\* pending_count: what is queued and the batch the flush thread works on.
Counted(s) ==
    /\ pending_count[s] = Len(write_queue[s]) + size[s]
    /\ IF flusher[s] = "inserting" THEN Len(tx[s]) + Len(batch[s]) <= size[s]
       ELSE tx[s] = <<>> /\ batch[s] = <<>>
    /\ flusher[s] = "loop" => size[s] = 0

Ids(q) == {q[i].id : i \in 1 .. Len(q)}

\* FlushSettles, queue by queue.
Settled(s) ==
    flushCall[s] = "returned" =>
        /\ owed[s] \cap Ids(tx[s]) = {}
        /\ owed[s] \cap Ids(batch[s]) = {}
        /\ owed[s] \cap Ids(write_queue[s]) = {}

Unlocked == {"count", "cleanup"}

\* Once a call has let go of rw_mutex it does not take it again.
UnlockedLast(stmts) ==
    \A i \in 1 .. Len(stmts) : stmts[i].op \in Unlocked =>
        \A j \in i .. Len(stmts) : stmts[j].op \in Unlocked

\* Only statements without rw_mutex are left while the flush thread is in
\* its transaction.
Locking(s) ==
    /\ UnlockedLast(job[s])
    /\ flusher[s] = "inserting" => \A i \in 1 .. Len(job[s]) : job[s][i].op \in Unlocked

Certain(st, op, s) == st.op = op /\ st.must /\ s \in st.on

\* A delete on the session's own object that will take its row has taken its
\* messages or has still to do so. Not so with a second object, which may commit
\* in between.
Emptied(s) ==
    \A i \in 1 .. Len(job[s]) :
        Certain(job[s][i], "sessions", s) =>
            \/ messages[s] = {}
            \/ \E j \in 1 .. (i - 1) : Certain(job[s][j], "messages", s)

\* A session that never had two objects at once has not used a twin.
Alone == \A t \in Twin : life[t] # "closed" \/ flusher[t] # "loop" => TwinOf[t] \in shared

IInv ==
    /\ TypeOK
    /\ \A o \in Handle : Counted(o) /\ Settled(o) /\ Locking(o)
    /\ \A s \in Session \ shared : Emptied(s)
    /\ Alone
    /\ RowsListed

-----------------------------------------------------------------------------
(* The operators.                                                          *)

\* The first object of a session has its name, the others do not.
LEMMA Handles ==
    /\ \A o \in Handle : SessionOf(o) \in Session /\ o \in Object /\ o \notin {"api", "none"}
    /\ \A s \in Session : s \in Handle /\ SessionOf(s) = s
    /\ \A t \in Twin : t \in Handle /\ t \notin Session /\ SessionOf(t) = TwinOf[t]
BY HistoryAssumption DEF Handle, Object, SessionOf

\* A set of numbers that is bounded has a greatest one.
LEMMA Greatest ==
    ASSUME NEW n \in Nat, NEW S \in SUBSET (0 .. n), S # {}
    PROVE  \E m \in S : \A q \in S : q <= m
<1> DEFINE T == {k \in Nat : n - k \in S}
<1>1. T # {}
  <2>1. PICK m \in S : TRUE
    OBVIOUS
  <2>2. n - m \in Nat /\ n - (n - m) = m
    BY <2>1
  <2>3. n - m \in T
    BY <2>1, <2>2
  <2>4. QED
    BY <2>3
<1>2. PICK k \in T : \A j \in T : ~ (<<j, k>> \in OpToRel(<, Nat))
  BY <1>1, NatLessThanWellFounded, WFMin
<1>3. \A j \in T : ~ (j < k)
  BY <1>2 DEF OpToRel
<1>4. n - k \in S /\ k \in Nat
  BY <1>2
<1>5. \A q \in S : q <= n - k
  <2> TAKE q \in S
  <2>1. n - q \in Nat /\ n - (n - q) = q
    OBVIOUS
  <2>2. n - q \in T
    BY <2>1
  <2>3. k <= n - q
    BY <1>3, <1>4, <2>1, <2>2
  <2>4. QED
    BY <1>4, <2>3
<1>6. QED
  BY <1>4, <1>5

\* init_seq: no sequence number in the file is ahead of the count.
LEMMA InitSeq ==
    ASSUME TypeOK
    PROVE  /\ init_seq \in 0 .. appended
           /\ \A s \in Session : \A r \in messages[s] : r.seq <= init_seq
<1> DEFINE seqs == {r.seq : r \in UNION {messages[s] : s \in Session}}
<1>1. seqs \cup {0} \in SUBSET (0 .. appended)
  BY DEF TypeOK, Entry
<1>2. appended \in Nat
  BY DEF TypeOK
<1>3. PICK m \in seqs \cup {0} : \A q \in seqs \cup {0} : q <= m
  BY <1>1, <1>2, Greatest
<1>4. \E m0 \in seqs \cup {0} : \A q \in seqs : q <= m0
  BY <1>3
<1>5. init_seq = CHOOSE m1 \in seqs \cup {0} : \A q \in seqs : q <= m1
  BY DEF init_seq
<1> HIDE DEF seqs
<1>6. init_seq \in seqs \cup {0} /\ \A q \in seqs : q <= init_seq
  BY <1>4, <1>5
<1>7. \A s \in Session : \A r \in messages[s] : r.seq \in seqs
  BY DEF seqs
<1>8. QED
  BY <1>1, <1>6, <1>7


LEMMA EntryGrows ==
    ASSUME NEW n \in Nat
    PROVE  /\ Entry(n) \subseteq Entry(n + 1)
           /\ \A q \in Seq(Entry(n)) : q \in Seq(Entry(n + 1))
<1>1. Entry(n) \subseteq Entry(n + 1)
  BY DEF Entry
<1>2. QED
  BY <1>1

LEMMA IdsOf ==
    ASSUME NEW n \in Nat, NEW q \in Seq(Entry(n))
    PROVE  /\ Ids(q) \subseteq 1 .. n
           /\ q # <<>> => Ids(Tail(q)) \subseteq Ids(q) /\ Head(q).id \in Ids(q)
           /\ \A e \in Entry(n) : Ids(Append(q, e)) = Ids(q) \cup {e.id}
<1>1. Ids(q) \subseteq 1 .. n
  <2>1. \A i \in 1 .. Len(q) : q[i] \in Entry(n)
    OBVIOUS
  <2>2. QED
    BY <2>1 DEF Ids, Entry
<1>2. q # <<>> => Ids(Tail(q)) \subseteq Ids(q) /\ Head(q).id \in Ids(q)
  BY DEF Ids
<1>3. \A e \in Entry(n) : Ids(Append(q, e)) = Ids(q) \cup {e.id}
  <2> TAKE e \in Entry(n)
  <2>1. /\ Len(Append(q, e)) = Len(q) + 1
        /\ Append(q, e)[Len(q) + 1] = e
        /\ \A i \in 1 .. Len(q) : Append(q, e)[i] = q[i]
    OBVIOUS
  <2>2. 1 .. (Len(q) + 1) = (1 .. Len(q)) \cup {Len(q) + 1}
    OBVIOUS
  <2>3. QED
    BY <2>1, <2>2 DEF Ids
<1>4. QED
  BY <1>1, <1>2, <1>3

LEMMA Triple ==
    ASSUME NEW S, NEW a \in S, NEW b \in S, NEW c \in S
    PROVE  /\ <<a, b, c>> \in Seq(S) /\ Len(<<a, b, c>>) = 3
           /\ <<a, b, c>>[1] = a /\ <<a, b, c>>[2] = b /\ <<a, b, c>>[3] = c
OBVIOUS

LEMMA DeleteShape ==
    ASSUME NEW S \in SUBSET Session, NEW must \in BOOLEAN
    PROVE  LET q == DeleteStmts(S, must)
           IN  /\ q \in Seq(Statement) /\ Len(q) = 3
               /\ q[1] = Stmt("messages", S, must)
               /\ q[2] = Stmt("states", S, FALSE)
               /\ q[3] = Stmt("sessions", S, must)
<1>1. /\ Stmt("messages", S, must) \in Statement
      /\ Stmt("states", S, FALSE) \in Statement
      /\ Stmt("sessions", S, must) \in Statement
  BY DEF Stmt, Statement, Ops
<1>2. QED
  BY <1>1, Triple DEF DeleteStmts

\* A call's list of statements is a list of statements, locks first, and a
\* delete that is sure to take rows takes the messages before.
LEMMA CallsProper ==
    ASSUME TypeOK, NEW o \in Object, NEW stmts \in CallsOn(o)
    PROVE  /\ stmts \in Seq(Statement)
           /\ UnlockedLast(stmts)
           /\ \A s \in Session : \A i \in 1 .. Len(stmts) :
                 Certain(stmts[i], "sessions", s) =>
                     \E j \in 1 .. (i - 1) : Certain(stmts[j], "messages", s)
<1> DEFINE Proper(q) ==
              /\ q \in Seq(Statement)
              /\ UnlockedLast(q)
              /\ \A s \in Session : \A i \in 1 .. Len(q) :
                    Certain(q[i], "sessions", s) =>
                        \E j \in 1 .. (i - 1) : Certain(q[j], "messages", s)
<1>1. \A S \in SUBSET Session, must \in BOOLEAN : Proper(DeleteStmts(S, must))
  <2> TAKE S \in SUBSET Session, must \in BOOLEAN
  <2> DEFINE q == DeleteStmts(S, must)
  <2>3. q \in Seq(Statement) /\ Len(q) = 3
    BY DeleteShape
  <2>4. q[1] = Stmt("messages", S, must) /\ q[2] = Stmt("states", S, FALSE)
        /\ q[3] = Stmt("sessions", S, must)
    BY DeleteShape
  <2> HIDE DEF q
  <2>5. UnlockedLast(q)
    BY <2>3, <2>4 DEF UnlockedLast, Stmt, Unlocked
  <2>6. ASSUME NEW s \in Session, NEW i \in 1 .. Len(q), Certain(q[i], "sessions", s)
        PROVE  \E j \in 1 .. (i - 1) : Certain(q[j], "messages", s)
    <3>1. i = 3
      BY <2>3, <2>4, <2>6 DEF Stmt, Certain
    <3>2. Certain(q[1], "messages", s)
      BY <2>4, <2>6, <3>1 DEF Stmt, Certain
    <3>3. QED
      BY <3>1, <3>2
  <2>7. Proper(q)
    BY <2>3, <2>5, <2>6
  <2>8. QED
    BY <2>7 DEF q
<1>2. \A s \in Session : Proper(delete_session(s))
  BY <1>1 DEF delete_session
<1>3. Proper(delete_all_sessions)
  BY <1>1 DEF delete_all_sessions
<1>4. \A s \in Session : Proper(create_session(s)) /\ Proper(rename_session(s))
  <2> TAKE s \in Session
  <2>1. Stmt("create", {s}, TRUE) \in Statement /\ Stmt("rename", {s}, TRUE) \in Statement
    BY DEF Stmt, Statement, Ops
  <2>2. QED
    BY <2>1 DEF create_session, rename_session, Stmt, Certain, UnlockedLast, Unlocked
<1>5. \A s \in Session : Proper(save_session_state(s))
  <2> TAKE s \in Session
  <2>1. Stmt("save", {s}, TRUE) \in Statement /\ Stmt("upsert", {s}, FALSE) \in Statement
    BY DEF Stmt, Statement, Ops
  <2>2. QED
    BY <2>1 DEF save_session_state, Stmt, Certain, UnlockedLast, Unlocked
<1>6. \A s \in Session : \A gone \in SUBSET messages[s] : Proper(delete_messages(s, gone))
  <2> TAKE s \in Session
  <2> TAKE gone \in SUBSET messages[s]
  <2> DEFINE trim == [op |-> "trim", on |-> {s}, must |-> TRUE, gone |-> gone]
  <2>1. gone \subseteq [id : Nat, seq : Nat]
    BY DEF TypeOK, Entry
  <2>2. trim \in Statement
    BY <2>1 DEF Statement
  <2>3. Stmt("count", {s}, FALSE) \in Statement /\ Stmt("cleanup", Session, FALSE) \in Statement
    BY DEF Stmt, Statement, Ops
  <2>4. QED
    BY <2>2, <2>3 DEF delete_messages, Stmt, Certain, UnlockedLast, Unlocked
<1>7. \A S \in SUBSET Listed \ {{}} : \A chosen \in SetToSeqs(S) :
          Proper(delete_sessions_by_time(chosen))
  <2> TAKE S \in SUBSET Listed \ {{}}
  <2> TAKE chosen \in SetToSeqs(S)
  <2>1. S \subseteq Session /\ Cardinality(S) \in Nat
    BY HistoryAssumption, FS_Subset, FS_CardinalityType DEF Listed
  <2>2. chosen \in [1 .. Cardinality(S) -> Session] /\ Len(chosen) = Cardinality(S)
    BY <2>1 DEF SetToSeqs
  <2> DEFINE n == 3 * Len(chosen)
             q == delete_sessions_by_time(chosen)
  <2>3. n \in Nat /\ q \in [1 .. n -> Statement] /\ \A i \in 1 .. n : ~ q[i].must /\ q[i].op \notin Unlocked
    <3>1. n \in Nat
      BY <2>1, <2>2
    <3>2. ASSUME NEW i \in 1 .. n
          PROVE  LET st == DeleteStmts({chosen[(i + 2) \div 3]}, FALSE)[((i + 2) % 3) + 1]
                 IN  st \in Statement /\ ~ st.must /\ st.op \notin Unlocked
      <4> DEFINE k == (i + 2) \div 3
                 d == ((i + 2) % 3) + 1
      <4>1. k \in 1 .. Len(chosen) /\ d \in {1, 2, 3}
        BY <2>1, <2>2
      <4>2. {chosen[k]} \subseteq Session
        BY <2>1, <2>2, <4>1
      <4> HIDE DEF k, d
      <4> DEFINE three == DeleteStmts({chosen[k]}, FALSE)
      <4>3. /\ three \in Seq(Statement) /\ Len(three) = 3
            /\ three[1] = Stmt("messages", {chosen[k]}, FALSE)
            /\ three[2] = Stmt("states", {chosen[k]}, FALSE)
            /\ three[3] = Stmt("sessions", {chosen[k]}, FALSE)
        BY <4>2, DeleteShape
      <4> HIDE DEF three
      <4>4. three[d] \in Statement
        <5>1. d \in 1 .. Len(three)
          BY <4>1, <4>3
        <5>2. QED
          BY ONLY <4>3, <5>1, ElementOfSeq
      <4>5. PICK op \in {"messages", "states", "sessions"} :
                three[d] = Stmt(op, {chosen[k]}, FALSE)
        BY <4>1, <4>3
      <4>6. ~ three[d].must /\ three[d].op \notin Unlocked
        BY <4>5 DEF Stmt, Unlocked
      <4>7. QED
        BY <4>4, <4>6 DEF k, d, three
    <3>3. QED
      BY <3>1, <3>2 DEF delete_sessions_by_time
  <2> HIDE DEF n, q
  <2>4. q \in Seq(Statement) /\ Len(q) = n
    BY <2>3
  <2>5. Proper(q)
    BY <2>3, <2>4 DEF Certain, UnlockedLast
  <2>6. QED
    BY <2>5 DEF q
<1>8. Listed \subseteq Session
  BY DEF Listed
<1> HIDE DEF Proper
<1>9. CASE o = "api"
  <2>1. stmts \in {delete_session(s) : s \in Session}
                 \cup {rename_session(s) : s \in Session}
    BY <1>9 DEF CallsOn
  <2>2. Proper(stmts)
    BY <2>1, <1>2, <1>4
  <2>3. QED
    BY <2>2 DEF Proper
<1>10. CASE o # "api"
  <2>1. SessionOf(o) \in Session
    BY <1>10, Handles DEF Object
  <2>2. stmts \in {create_session(SessionOf(o)), save_session_state(SessionOf(o)),
                   rename_session(SessionOf(o))}
         \cup {delete_session(s) : s \in Session}
         \cup {delete_all_sessions : s \in Listed}
         \cup {delete_sessions_by_time(chosen) :
                 chosen \in UNION {SetToSeqs(S) : S \in SUBSET Listed \ {{}}}}
         \cup UNION {{delete_messages(s, g) : g \in SUBSET messages[s]} : s \in Session}
    BY <1>10 DEF CallsOn
  <2>3. Proper(stmts)
    BY <2>1, <2>2, <1>2, <1>3, <1>4, <1>5, <1>6, <1>7, Zenon
  <2>4. QED
    BY <2>3 DEF Proper
<1>11. QED
  BY <1>9, <1>10


-----------------------------------------------------------------------------
(* The steps.                                                              *)

\* Open: init_seq is within the count.
LEMMA OpenKeeps ==
    ASSUME IInv, NEW s \in Handle, Open(s)
    PROVE  IInv'
<1>0. init_seq \in 0 .. appended
  BY InitSeq DEF IInv
<1>1. TypeOK'
  <2>1. shared' \subseteq Session
    BY Handles, HistoryAssumption DEF IInv, TypeOK, Open
  <2>2. QED
    BY <1>0, <2>1 DEF IInv, TypeOK, Open, fileVars, callVars
<1>2. ASSUME NEW u \in Handle PROVE Counted(u)'
  BY DEF IInv, TypeOK, Counted, Open, fileVars, objectVars, callVars, histVars
<1>3. ASSUME NEW u \in Handle PROVE Settled(u)'
  BY DEF IInv, TypeOK, Settled, Open, fileVars, objectVars, callVars, histVars
<1>4. ASSUME NEW u \in Handle PROVE Locking(u)'
  BY DEF IInv, TypeOK, Locking, Object, Handle, Open, fileVars, objectVars, callVars, histVars
<1>5. ASSUME NEW u \in Session \ shared' PROVE Emptied(u)'
  BY DEF IInv, TypeOK, Emptied, Object, Handle, Open, fileVars, objectVars, callVars, histVars
<1>6. RowsListed'
  BY DEF IInv, TypeOK, RowsListed, Open, fileVars, objectVars, callVars, histVars
<1>7. Alone'
  BY DEF IInv, TypeOK, Alone, Handle, Open, Event, fileVars, objectVars, callVars, histVars
<1>8. QED
  BY <1>1, <1>2, <1>3, <1>4, <1>5, <1>6, <1>7 DEF IInv

\* ~HistoryDB begins.
LEMMA CloseKeeps ==
    ASSUME IInv, NEW s \in Handle, Close(s)
    PROVE  IInv'
<1>1. TypeOK'
  BY DEF IInv, TypeOK, Close, fileVars, objectVars, callVars, histVars
<1>2. ASSUME NEW u \in Handle PROVE Counted(u)'
  BY DEF IInv, TypeOK, Counted, Close, fileVars, objectVars, callVars, histVars
<1>3. ASSUME NEW u \in Handle PROVE Settled(u)'
  BY DEF IInv, TypeOK, Settled, Close, fileVars, objectVars, callVars, histVars
<1>4. ASSUME NEW u \in Handle PROVE Locking(u)'
  BY DEF IInv, TypeOK, Locking, Object, Handle, Close, fileVars, objectVars, callVars, histVars
<1>5. ASSUME NEW u \in Session \ shared' PROVE Emptied(u)'
  BY DEF IInv, TypeOK, Emptied, Object, Handle, Close, fileVars, objectVars, callVars, histVars
<1>6. RowsListed'
  BY DEF IInv, TypeOK, RowsListed, Close, fileVars, objectVars, callVars, histVars
<1>7. Alone'
  BY DEF IInv, TypeOK, Alone, Handle, Close, Event, fileVars, objectVars, callVars, histVars
<1>8. QED
  BY <1>1, <1>2, <1>3, <1>4, <1>5, <1>6, <1>7 DEF IInv

\* The destructor has joined the flush thread.
LEMMA ClosedKeeps ==
    ASSUME IInv, NEW s \in Handle, Closed(s)
    PROVE  IInv'
<1>1. TypeOK'
  BY DEF IInv, TypeOK, Closed, fileVars, objectVars, callVars, histVars
<1>2. ASSUME NEW u \in Handle PROVE Counted(u)'
  BY DEF IInv, TypeOK, Counted, Closed, fileVars, objectVars, callVars, histVars
<1>3. ASSUME NEW u \in Handle PROVE Settled(u)'
  BY DEF IInv, TypeOK, Settled, Closed, fileVars, objectVars, callVars, histVars
<1>4. ASSUME NEW u \in Handle PROVE Locking(u)'
  BY DEF IInv, TypeOK, Locking, Object, Handle, Closed, fileVars, objectVars, callVars, histVars
<1>5. ASSUME NEW u \in Session \ shared' PROVE Emptied(u)'
  BY DEF IInv, TypeOK, Emptied, Object, Handle, Closed, fileVars, objectVars, callVars, histVars
<1>6. RowsListed'
  BY DEF IInv, TypeOK, RowsListed, Closed, fileVars, objectVars, callVars, histVars
<1>7. Alone'
  BY DEF IInv, TypeOK, Alone, Handle, Closed, Event, fileVars, objectVars, callVars, histVars
<1>8. QED
  BY <1>1, <1>2, <1>3, <1>4, <1>5, <1>6, <1>7 DEF IInv

\* append: a number nothing owed has yet.
LEMMA AppendKeeps ==
    ASSUME IInv, NEW s \in Handle, append(s)
    PROVE  IInv'
<1>1. TypeOK'
  <2>1. /\ appended \in Nat /\ appended' = appended + 1
        /\ global_seq'[s] \in 0 .. appended' /\ global_seq' \in [Handle -> 0 .. appended']
    BY SMTT(30) DEF IInv, TypeOK, append
  <2>2. [id |-> appended', seq |-> global_seq'[s]] \in Entry(appended')
    BY <2>1 DEF Entry
  <2>3. /\ Entry(appended) \subseteq Entry(appended')
        /\ \A q \in Seq(Entry(appended)) : q \in Seq(Entry(appended'))
    BY <2>1, EntryGrows
  <2>4. /\ write_queue' \in [Handle -> Seq(Entry(appended'))]
        /\ batch' \in [Handle -> Seq(Entry(appended'))]
        /\ tx' \in [Handle -> Seq(Entry(appended'))]
    BY <2>2, <2>3 DEF IInv, TypeOK, append, objectVars
  <2>5. messages' \in [Session -> SUBSET Entry(appended')]
    BY <2>3 DEF IInv, TypeOK, append, fileVars
  <2>6. owed' \in [Handle -> SUBSET (1 .. appended')]
    <3>1. owed' = owed /\ owed \in [Handle -> SUBSET (1 .. appended)]
      BY DEF IInv, TypeOK, append, callVars
    <3>2. 1 .. appended \subseteq 1 .. appended'
      BY <2>1
    <3>3. QED
      BY <3>1, <3>2
  <2>7. QED
    BY SMTT(30), <2>1, <2>4, <2>5, <2>6 DEF IInv, TypeOK, append, fileVars, callVars
<1>2. ASSUME NEW u \in Handle PROVE Counted(u)'
  BY DEF IInv, TypeOK, Counted, append, fileVars, objectVars, callVars, histVars
<1>3. ASSUME NEW u \in Handle PROVE Settled(u)'
  <2>1. /\ appended \in Nat /\ appended' = appended + 1
        /\ global_seq'[s] \in 0 .. appended'
    BY SMTT(30) DEF IInv, TypeOK, append
  <2>2. [id |-> appended', seq |-> global_seq'[s]] \in Entry(appended')
    BY <2>1 DEF Entry
  <2>3. write_queue[s] \in Seq(Entry(appended'))
    BY <2>1, EntryGrows DEF IInv, TypeOK
  <2>4. write_queue'[s] = Append(write_queue[s], [id |-> appended', seq |-> global_seq'[s]])
    BY DEF IInv, TypeOK, append
  <2>5. Ids(write_queue'[s]) = Ids(write_queue[s]) \cup {appended'}
    BY <2>1, <2>2, <2>3, <2>4, IdsOf
  <2>6. appended' \notin owed[s]
    BY <2>1 DEF IInv, TypeOK
  <2>7. CASE u = s
    BY <2>5, <2>6, <2>7 DEF IInv, Settled, append, callVars
  <2>8. CASE u # s
    BY <2>8 DEF IInv, TypeOK, Settled, append, callVars
  <2>9. QED
    BY <2>7, <2>8
<1>4. ASSUME NEW u \in Handle PROVE Locking(u)'
  BY DEF IInv, TypeOK, Locking, Object, Handle, append, fileVars, objectVars, callVars, histVars
<1>5. ASSUME NEW u \in Session \ shared' PROVE Emptied(u)'
  BY DEF IInv, TypeOK, Emptied, Object, Handle, append, fileVars, objectVars, callVars, histVars
<1>6. RowsListed'
  BY DEF IInv, TypeOK, RowsListed, append, fileVars, objectVars, callVars, histVars
<1>7. Alone'
  BY DEF IInv, TypeOK, Alone, Handle, append, Event, fileVars, objectVars, callVars, histVars
<1>8. QED
  BY <1>1, <1>2, <1>3, <1>4, <1>5, <1>6, <1>7 DEF IInv

\* flush() is called.
LEMMA FlushCallKeeps ==
    ASSUME IInv, NEW s \in Handle, FlushCall(s)
    PROVE  IInv'
<1>1. TypeOK'
  <2>1. Queued(s) \in Seq(Entry(appended))
    BY DEF IInv, TypeOK, Queued
  <2>2. Range(Queued(s)) \subseteq Entry(appended)
    BY <2>1 DEF Range
  <2>3. {r.id : r \in Range(Queued(s))} \subseteq 1 .. appended
    BY <2>2 DEF Entry
  <2>4. QED
    BY <2>3 DEF IInv, TypeOK, FlushCall, Event, fileVars, objectVars
<1>2. ASSUME NEW u \in Handle PROVE Counted(u)'
  BY DEF IInv, TypeOK, Counted, FlushCall, Event, fileVars, objectVars, callVars, histVars
<1>3. ASSUME NEW u \in Handle PROVE Settled(u)'
  BY DEF IInv, TypeOK, Settled, FlushCall, Event, fileVars, objectVars, callVars, histVars
<1>4. ASSUME NEW u \in Handle PROVE Locking(u)'
  BY DEF IInv, TypeOK, Locking, Object, Handle, FlushCall, Event, fileVars, objectVars, callVars, histVars
<1>5. ASSUME NEW u \in Session \ shared' PROVE Emptied(u)'
  BY DEF IInv, TypeOK, Emptied, Object, Handle, FlushCall, Event, fileVars, objectVars, callVars, histVars
<1>6. RowsListed'
  BY DEF IInv, TypeOK, RowsListed, FlushCall, Event, fileVars, objectVars, callVars, histVars
<1>7. Alone'
  BY DEF IInv, TypeOK, Alone, Handle, FlushCall, Event, fileVars, objectVars, callVars, histVars
<1>8. QED
  BY <1>1, <1>2, <1>3, <1>4, <1>5, <1>6, <1>7 DEF IInv

\* flush() looks at pending_count: when it is 0 nothing is on its way.
LEMMA FlushStepKeeps ==
    ASSUME IInv, NEW s \in Handle, FlushStep(s)
    PROVE  IInv'
<1>1. TypeOK'
  BY DEF IInv, TypeOK, FlushStep, fileVars, objectVars, callVars, histVars
<1>2. ASSUME NEW u \in Handle PROVE Counted(u)'
  BY DEF IInv, TypeOK, Counted, FlushStep, fileVars, objectVars, callVars, histVars
<1>3. ASSUME NEW u \in Handle PROVE Settled(u)'
  <2>1. CASE u = s /\ flushCall[s] = "checking" /\ pending_count[s] = 0
    <3>1. /\ write_queue[s] \in Seq(Entry(appended)) /\ batch[s] \in Seq(Entry(appended))
          /\ tx[s] \in Seq(Entry(appended)) /\ size[s] \in Nat
      BY DEF IInv, TypeOK
    <3>2. Counted(s)
      BY DEF IInv
    <3>3. Len(write_queue[s]) \in Nat /\ Len(batch[s]) \in Nat /\ Len(tx[s]) \in Nat
      BY <3>1
    <3>4. Len(write_queue[s]) = 0 /\ size[s] = 0
      BY <2>1, <3>1, <3>2, <3>3 DEF Counted
    <3>5. Len(batch[s]) = 0 /\ Len(tx[s]) = 0
      <4>1. CASE flusher[s] = "inserting"
        <5>1. Len(tx[s]) + Len(batch[s]) <= size[s]
          BY <3>2, <4>1 DEF Counted
        <5>2. ASSUME NEW a \in Nat, NEW b \in Nat, a + b <= 0 PROVE a = 0 /\ b = 0
          BY <5>2
        <5>3. QED
          BY <3>3, <3>4, <5>1, <5>2
      <4>2. CASE flusher[s] # "inserting"
        BY <3>2, <4>2 DEF Counted
      <4>3. QED
        BY <4>1, <4>2
    <3>6. Ids(write_queue[s]) = {} /\ Ids(batch[s]) = {} /\ Ids(tx[s]) = {}
      BY <3>4, <3>5 DEF Ids
    <3>7. QED
      BY <2>1, <3>6 DEF Settled, FlushStep, objectVars
  <2>2. CASE ~ (u = s /\ flushCall[s] = "checking" /\ pending_count[s] = 0)
    BY <2>2 DEF IInv, TypeOK, Settled, FlushStep, objectVars
  <2>3. QED
    BY <2>1, <2>2
<1>4. ASSUME NEW u \in Handle PROVE Locking(u)'
  BY DEF IInv, TypeOK, Locking, Object, Handle, FlushStep, fileVars, objectVars, callVars, histVars
<1>5. ASSUME NEW u \in Session \ shared' PROVE Emptied(u)'
  BY DEF IInv, TypeOK, Emptied, Object, Handle, FlushStep, fileVars, objectVars, callVars, histVars
<1>6. RowsListed'
  BY DEF IInv, TypeOK, RowsListed, FlushStep, fileVars, objectVars, callVars, histVars
<1>7. Alone'
  BY DEF IInv, TypeOK, Alone, Handle, FlushStep, Event, fileVars, objectVars, callVars, histVars
<1>8. QED
  BY <1>1, <1>2, <1>3, <1>4, <1>5, <1>6, <1>7 DEF IInv

\* The flush thread takes the queue, when no call holds rw_mutex.
LEMMA SwapBatchKeeps ==
    ASSUME IInv, NEW s \in Handle, SwapBatch(s)
    PROVE  IInv'
<1>1. TypeOK'
  <2>1. /\ batch' \in [Handle -> Seq(Entry(appended))] /\ size' \in [Handle -> Nat]
        /\ write_queue' \in [Handle -> Seq(Entry(appended))]
        /\ flusher' \in [Handle -> {"loop", "inserting", "committed"}]
    BY DEF IInv, TypeOK, SwapBatch
  <2>2. QED
    BY <2>1 DEF IInv, TypeOK, SwapBatch, fileVars, callVars, histVars
<1>2. ASSUME NEW u \in Handle PROVE Counted(u)'
  BY SMTT(30) DEF IInv, TypeOK, Counted, SwapBatch, RwFree, fileVars, objectVars, callVars, histVars
<1>3. ASSUME NEW u \in Handle PROVE Settled(u)'
  <2>1. Ids(<<>>) = {}
    BY DEF Ids
  <2>2. CASE u = s
    BY <2>1, <2>2 DEF IInv, TypeOK, Settled, SwapBatch, callVars
  <2>3. CASE u # s
    BY <2>3 DEF IInv, TypeOK, Settled, SwapBatch, callVars
  <2>4. QED
    BY <2>2, <2>3
<1>4. ASSUME NEW u \in Handle PROVE Locking(u)'
  <2>1. job[u] \in Seq(Statement) /\ job' = job
    BY DEF IInv, TypeOK, Object, Handle, SwapBatch, callVars
  <2>2. job[u] # <<>> => Head(job[u]) = job[u][1]
    BY <2>1
  <2>3. CASE u = s
    <3>1. \A i \in 1 .. Len(job[s]) : job[s][i].op \in Unlocked
      BY <2>1, <2>2, <2>3 DEF IInv, Locking, UnlockedLast, SwapBatch, RwFree, Unlocked
    <3>2. QED
      BY <2>1, <2>3, <3>1 DEF Locking, UnlockedLast
  <2>4. CASE u # s
    BY <2>1, <2>4 DEF IInv, TypeOK, Locking, SwapBatch
  <2>5. QED
    BY <2>3, <2>4
<1>5. ASSUME NEW u \in Session \ shared' PROVE Emptied(u)'
  BY DEF IInv, TypeOK, Emptied, Object, Handle, SwapBatch, RwFree, fileVars, objectVars, callVars, histVars
<1>6. RowsListed'
  BY DEF IInv, TypeOK, RowsListed, SwapBatch, RwFree, fileVars, objectVars, callVars, histVars
<1>7. Alone'
  BY DEF IInv, TypeOK, Alone, Handle, SwapBatch, Event, fileVars, objectVars, callVars, histVars
<1>8. QED
  BY <1>1, <1>2, <1>3, <1>4, <1>5, <1>6, <1>7 DEF IInv

\* The batch is given up.
LEMMA PrepareFailsKeeps ==
    ASSUME IInv, NEW s \in Handle, PrepareFails(s)
    PROVE  IInv'
<1>1. TypeOK'
  BY DEF IInv, TypeOK, PrepareFails, Event, fileVars, objectVars, callVars, histVars
<1>2. ASSUME NEW u \in Handle PROVE Counted(u)'
  BY DEF IInv, TypeOK, Counted, PrepareFails, Event, fileVars, objectVars, callVars, histVars
<1>3. ASSUME NEW u \in Handle PROVE Settled(u)'
  BY DEF IInv, TypeOK, Settled, PrepareFails, Event, fileVars, objectVars, callVars, histVars
<1>4. ASSUME NEW u \in Handle PROVE Locking(u)'
  BY DEF IInv, TypeOK, Locking, Object, Handle, PrepareFails, Event, fileVars, objectVars, callVars,
     histVars
<1>5. ASSUME NEW u \in Session \ shared' PROVE Emptied(u)'
  BY DEF IInv, TypeOK, Emptied, Object, Handle, PrepareFails, Event, fileVars, objectVars, callVars,
     histVars
<1>6. RowsListed'
  BY DEF IInv, TypeOK, RowsListed, PrepareFails, Event, fileVars, objectVars, callVars, histVars
<1>7. Alone'
  BY DEF IInv, TypeOK, Alone, Handle, PrepareFails, Event, fileVars, objectVars, callVars, histVars
<1>8. QED
  BY <1>1, <1>2, <1>3, <1>4, <1>5, <1>6, <1>7 DEF IInv

\* A row goes into the transaction or is dropped.
LEMMA InsertKeeps ==
    ASSUME IInv, NEW s \in Handle, Insert(s)
    PROVE  IInv'
<1>1. TypeOK'
  <2>1. batch[s] \in Seq(Entry(appended)) /\ tx[s] \in Seq(Entry(appended)) /\ batch[s] # <<>>
    BY DEF IInv, TypeOK, Insert
  <2>2. Head(batch[s]) \in Entry(appended) /\ Tail(batch[s]) \in Seq(Entry(appended))
    BY <2>1
  <2>3. Append(tx[s], Head(batch[s])) \in Seq(Entry(appended))
    BY <2>1, <2>2
  <2>4. batch' \in [Handle -> Seq(Entry(appended))] /\ tx' \in [Handle -> Seq(Entry(appended))]
    BY <2>2, <2>3 DEF IInv, TypeOK, Insert
  <2>5. QED
    BY <2>4 DEF IInv, TypeOK, Insert, callVars
<1>2. ASSUME NEW u \in Handle PROVE Counted(u)'
  <2>1. batch[s] \in Seq(Entry(appended)) /\ tx[s] \in Seq(Entry(appended)) /\ batch[s] # <<>>
    BY DEF IInv, TypeOK, Insert
  <2>2. Len(Tail(batch[s])) = Len(batch[s]) - 1 /\ Len(batch[s]) \in Nat /\ Len(tx[s]) \in Nat
    BY <2>1
  <2>3. Len(Append(tx[s], Head(batch[s]))) = Len(tx[s]) + 1
    BY <2>1
  <2>4. batch'[s] = Tail(batch[s]) /\ tx'[s] \in {tx[s], Append(tx[s], Head(batch[s]))}
    BY DEF IInv, TypeOK, Insert
  <2>5. CASE u = s
    BY SMTT(30), <2>2, <2>3, <2>4, <2>5 DEF IInv, TypeOK, Counted, Insert
  <2>6. CASE u # s
    BY <2>6 DEF IInv, TypeOK, Counted, Insert
  <2>7. QED
    BY <2>5, <2>6
<1>3. ASSUME NEW u \in Handle PROVE Settled(u)'
  <2>1. /\ batch[s] \in Seq(Entry(appended)) /\ tx[s] \in Seq(Entry(appended))
        /\ batch[s] # <<>> /\ appended \in Nat
    BY DEF IInv, TypeOK, Insert
  <2>2. Head(batch[s]) \in Entry(appended)
    BY <2>1
  <2>3. /\ Ids(Tail(batch[s])) \subseteq Ids(batch[s]) /\ Head(batch[s]).id \in Ids(batch[s])
        /\ Ids(Append(tx[s], Head(batch[s]))) = Ids(tx[s]) \cup {Head(batch[s]).id}
    BY <2>1, <2>2, IdsOf
  <2>4. batch'[s] = Tail(batch[s]) /\ tx'[s] \in {tx[s], Append(tx[s], Head(batch[s]))}
    BY DEF IInv, TypeOK, Insert
  <2>5. CASE u = s
    <3>1. Settled(s) /\ flushCall' = flushCall /\ owed' = owed /\ write_queue' = write_queue
      BY DEF IInv, Insert, callVars
    <3>2. Ids(batch'[s]) \subseteq Ids(batch[s])
      BY <2>3, <2>4
    <3>3. Ids(tx'[s]) \subseteq Ids(tx[s]) \cup Ids(batch[s])
      BY <2>3, <2>4
    <3>4. QED
      BY <2>5, <3>1, <3>2, <3>3 DEF Settled
  <2>6. CASE u # s
    BY <2>6 DEF IInv, TypeOK, Settled, Insert, callVars
  <2>7. QED
    BY <2>5, <2>6
<1>4. ASSUME NEW u \in Handle PROVE Locking(u)'
  BY DEF IInv, TypeOK, Locking, Object, Handle, Insert, fileVars, objectVars, callVars, histVars
<1>5. ASSUME NEW u \in Session \ shared' PROVE Emptied(u)'
  BY DEF IInv, TypeOK, Emptied, Object, Handle, Insert, fileVars, objectVars, callVars, histVars
<1>6. RowsListed'
  BY DEF IInv, TypeOK, RowsListed, Insert, fileVars, objectVars, callVars, histVars
<1>7. Alone'
  BY DEF IInv, TypeOK, Alone, Handle, Insert, Event, fileVars, objectVars, callVars, histVars
<1>8. QED
  BY <1>1, <1>2, <1>3, <1>4, <1>5, <1>6, <1>7 DEF IInv

\* COMMIT: rows and the session's row together; no delete is half done.
LEMMA CommitKeeps ==
    ASSUME IInv, NEW s \in Handle, Commit(s)
    PROVE  IInv'
<1> DEFINE z == SessionOf(s)
<1>0. z \in Session /\ (s \in Session => s = z)
  BY Handles
<1> HIDE DEF z
<1>1. TypeOK'
  <2>1. Range(tx[s]) \subseteq Entry(appended)
    <3>1. tx[s] \in Seq(Entry(appended))
      BY DEF IInv, TypeOK
    <3>2. QED
      BY <3>1 DEF Range
  <2>2. messages' \in [Session -> SUBSET Entry(appended)]
    BY <1>0, <2>1 DEF IInv, TypeOK, Commit, z
  <2>3. sessions' \in [Session -> {"absent", "unnamed", "named"}]
    BY <1>0 DEF IInv, TypeOK, Commit, upsert_session_meta, z
  <2>4. tx' \in [Handle -> Seq(Entry(appended))]
    BY DEF IInv, TypeOK, Commit
  <2>5. QED
    BY <2>2, <2>3, <2>4 DEF IInv, TypeOK, Commit, callVars
<1>2. ASSUME NEW u \in Handle PROVE Counted(u)'
  BY DEF IInv, TypeOK, Counted, Commit, upsert_session_meta, fileVars, objectVars, callVars,
     histVars
<1>3. ASSUME NEW u \in Handle PROVE Settled(u)'
  BY DEF IInv, TypeOK, Settled, Commit, upsert_session_meta, fileVars, objectVars, callVars,
     histVars
<1>4. ASSUME NEW u \in Handle PROVE Locking(u)'
  BY DEF IInv, TypeOK, Locking, Object, Handle, Commit, upsert_session_meta, fileVars, objectVars,
     callVars, histVars
<1>5. ASSUME NEW u \in Session \ shared' PROVE Emptied(u)'
  <2>1. CASE u = s
    <3>1. \A i \in 1 .. Len(job[s]) : job[s][i].op \in Unlocked
      BY DEF IInv, Locking, Commit
    <3>2. QED
      BY <2>1, <3>1 DEF Emptied, Certain, Unlocked, Commit, callVars
  <2>2. CASE u # s
    <3>1. u # z
      <4>1. CASE s \in Session
        BY <1>0, <2>2, <4>1
      <4>2. CASE s \in Twin
        BY <4>2, Handles DEF IInv, Alone, Commit, z
      <4>3. QED
        BY <4>1, <4>2 DEF Handle
    <3>2. messages'[u] = messages[u] /\ job' = job /\ u \in Session \ shared
      BY <1>0, <3>1 DEF IInv, TypeOK, Commit, callVars, z
    <3>3. QED
      BY <3>2 DEF IInv, Emptied
  <2>3. QED
    BY <2>1, <2>2
<1>6. RowsListed'
  <2> SUFFICES ASSUME NEW u \in Session, messages'[u] # {}, sessions'[u] = "absent"
               PROVE  u \in unlistable'
    BY DEF RowsListed
  <2>1. tx[s] = <<>> => Range(tx[s]) = {}
    BY DEF Range
  <2>2. CASE u = z /\ tx[s] # <<>>
    <3>1. sessions'[z] # "absent"
      BY <1>0, <2>2 DEF IInv, TypeOK, Commit, upsert_session_meta, z
    <3>2. QED
      BY <2>2, <3>1
  <2>3. CASE tx[s] = <<>>
    <3>1. messages'[u] = messages[u] /\ sessions' = sessions /\ unlistable' = unlistable
      BY <1>0, <2>1, <2>3 DEF IInv, TypeOK, Commit, z
    <3>2. QED
      BY <3>1 DEF IInv, RowsListed
  <2>4. CASE u # z /\ tx[s] # <<>>
    <3>1. messages'[u] = messages[u] /\ sessions'[u] = sessions[u] /\ unlistable' = unlistable \ {z}
      BY <1>0, <2>4 DEF IInv, TypeOK, Commit, upsert_session_meta, z
    <3>2. QED
      BY <2>4, <3>1 DEF IInv, RowsListed
  <2>5. QED
    BY <2>2, <2>3, <2>4
<1>7. Alone'
  BY DEF IInv, TypeOK, Alone, Handle, Commit, Event, fileVars, objectVars, callVars, histVars
<1>8. QED
  BY <1>1, <1>2, <1>3, <1>4, <1>5, <1>6, <1>7 DEF IInv

\* pending_count loses the batch.
LEMMA CountDownKeeps ==
    ASSUME IInv, NEW s \in Handle, CountDown(s)
    PROVE  IInv'
<1>1. TypeOK'
  <2>1. pending_count[s] - size[s] \in Nat
    <3>1. write_queue[s] \in Seq(Entry(appended)) /\ size[s] \in Nat
      BY DEF IInv, TypeOK
    <3>2. pending_count[s] = Len(write_queue[s]) + size[s]
      BY DEF IInv, Counted
    <3>3. Len(write_queue[s]) \in Nat
      BY <3>1
    <3>4. QED
      BY <3>1, <3>2, <3>3
  <2>2. QED
    BY <2>1 DEF IInv, TypeOK, CountDown, fileVars, histVars
<1>2. ASSUME NEW u \in Handle PROVE Counted(u)'
  BY SMTT(30) DEF IInv, TypeOK, Counted, CountDown, fileVars, objectVars, callVars, histVars
<1>3. ASSUME NEW u \in Handle PROVE Settled(u)'
  BY DEF IInv, TypeOK, Settled, CountDown, fileVars, objectVars, callVars, histVars
<1>4. ASSUME NEW u \in Handle PROVE Locking(u)'
  BY DEF IInv, TypeOK, Locking, Object, Handle, CountDown, fileVars, objectVars, callVars, histVars
<1>5. ASSUME NEW u \in Session \ shared' PROVE Emptied(u)'
  BY DEF IInv, TypeOK, Emptied, Object, Handle, CountDown, fileVars, objectVars, callVars, histVars
<1>6. RowsListed'
  BY DEF IInv, TypeOK, RowsListed, CountDown, fileVars, objectVars, callVars, histVars
<1>7. Alone'
  BY DEF IInv, TypeOK, Alone, Handle, CountDown, Event, fileVars, objectVars, callVars, histVars
<1>8. QED
  BY <1>1, <1>2, <1>3, <1>4, <1>5, <1>6, <1>7 DEF IInv

\* A call begins.
LEMMA CallKeeps ==
    ASSUME IInv, NEW o \in Object, Call(o)
    PROVE  IInv'
<1>1. TypeOK'
  <2>1. PICK stmts \in CallsOn(o) : job' = [job EXCEPT ![o] = stmts]
    BY DEF Call
  <2>2. stmts \in Seq(Statement)
    BY CallsProper DEF IInv
  <2>3. job' \in [Object -> Seq(Statement)] /\ events' \in Nat
    BY <2>1, <2>2 DEF IInv, TypeOK, Call, Event
  <2>4. QED
    BY <2>3 DEF IInv, TypeOK, Call, fileVars, objectVars
<1>2. ASSUME NEW u \in Handle PROVE Counted(u)'
  BY DEF IInv, TypeOK, Counted, Call, Event, fileVars, objectVars, callVars, histVars
<1>3. ASSUME NEW u \in Handle PROVE Settled(u)'
  BY DEF IInv, TypeOK, Settled, Call, Event, fileVars, objectVars, callVars, histVars
<1>4. ASSUME NEW u \in Handle PROVE Locking(u)'
  <2>1. PICK stmts \in CallsOn(o) : job' = [job EXCEPT ![o] = stmts]
    BY DEF Call
  <2>2. UnlockedLast(stmts)
    BY CallsProper DEF IInv
  <2>3. u \in Object /\ flusher' = flusher
    BY DEF Object, Handle, Call, objectVars
  <2>4. CASE u = o
    BY <2>1, <2>2, <2>3, <2>4 DEF IInv, TypeOK, Locking, Call
  <2>5. CASE u # o
    BY <2>1, <2>3, <2>5 DEF IInv, TypeOK, Locking
  <2>6. QED
    BY <2>4, <2>5
<1>5. ASSUME NEW u \in Session \ shared' PROVE Emptied(u)'
  <2>1. PICK stmts \in CallsOn(o) : job' = [job EXCEPT ![o] = stmts]
    BY DEF Call
  <2>2. \A s \in Session : \A i \in 1 .. Len(stmts) :
            Certain(stmts[i], "sessions", s) =>
                \E j \in 1 .. (i - 1) : Certain(stmts[j], "messages", s)
    BY CallsProper DEF IInv
  <2>3. u \in Object /\ messages' = messages
    BY DEF Object, Handle, Call, fileVars
  <2>4. CASE u = o
    BY <2>1, <2>2, <2>3, <2>4 DEF IInv, TypeOK, Emptied
  <2>5. CASE u # o
    <3>1. job'[u] = job[u] /\ shared' = shared
      BY <2>1, <2>3, <2>5 DEF IInv, TypeOK, Call
    <3>2. QED
      BY <2>3, <3>1 DEF IInv, Emptied
  <2>6. QED
    BY <2>4, <2>5
<1>6. RowsListed'
  BY DEF IInv, TypeOK, RowsListed, Call, Event, fileVars, objectVars, callVars, histVars
<1>7. Alone'
  BY DEF IInv, TypeOK, Alone, Handle, Call, Event, fileVars, objectVars, callVars, histVars
<1>8. QED
  BY <1>1, <1>2, <1>3, <1>4, <1>5, <1>6, <1>7 DEF IInv

\* The process dies.
LEMMA CrashKeeps ==
    ASSUME IInv, Crash
    PROVE  IInv'
<1>1. TypeOK'
  BY DEF IInv, TypeOK, Crash, Event, fileVars, objectVars, callVars, histVars
<1>2. ASSUME NEW u \in Handle PROVE Counted(u)'
  BY DEF IInv, TypeOK, Counted, Crash, Event, fileVars, objectVars, callVars, histVars
<1>3. ASSUME NEW u \in Handle PROVE Settled(u)'
  BY DEF IInv, TypeOK, Settled, Crash, Event, fileVars, objectVars, callVars, histVars
<1>4. ASSUME NEW u \in Handle PROVE Locking(u)'
  BY DEF IInv, TypeOK, Locking, UnlockedLast, Object, Handle, Crash, Event, fileVars, objectVars,
     callVars, histVars
<1>5. ASSUME NEW u \in Session \ shared' PROVE Emptied(u)'
  BY DEF IInv, TypeOK, Emptied, Object, Handle, Crash, Event, fileVars, objectVars, callVars, histVars
<1>6. RowsListed'
  BY DEF IInv, TypeOK, RowsListed, Crash, Event, fileVars, objectVars, callVars, histVars
<1>7. Alone'
  BY DEF IInv, TypeOK, Alone, Handle, Crash, Event, fileVars, objectVars, callVars, histVars
<1>8. QED
  BY <1>1, <1>2, <1>3, <1>4, <1>5, <1>6, <1>7 DEF IInv

\* A statement's effect: messages only go, a row goes with its statement or
\* when the session is empty.
LEMMA EffectOf ==
    ASSUME TypeOK, NEW st \in Statement, Effect(st)
    PROVE  /\ messages' \in [Session -> SUBSET Entry(appended)]
           /\ sessions' \in [Session -> {"absent", "unnamed", "named"}]
           /\ session_states' \subseteq Session
           /\ \A s \in Session :
                 /\ messages'[s] \subseteq messages[s]
                 /\ st.op = "messages" /\ s \in st.on => messages'[s] = {}
                 /\ sessions'[s] = "absent" =>
                       \/ sessions[s] = "absent"
                       \/ messages'[s] = {}
                       \/ st.op = "sessions" /\ s \in st.on
<1>1. st.on \subseteq Session
  BY DEF Statement
<1>2. messages' = [s \in Session |->
          IF s \notin st.on THEN messages[s]
          ELSE CASE st.op = "messages" -> {}
                 [] st.op = "trim" -> messages[s] \ st.gone
                 [] OTHER -> messages[s]]
  BY DEF Effect
<1>3. /\ messages' \in [Session -> SUBSET Entry(appended)]
      /\ \A s \in Session :
            /\ messages'[s] \subseteq messages[s]
            /\ st.op = "messages" /\ s \in st.on => messages'[s] = {}
            /\ st.op \notin {"messages", "trim"} => messages'[s] = messages[s]
  BY <1>2 DEF TypeOK
<1>4. sessions' \in [Session -> {"absent", "unnamed", "named"}]
  BY DEF TypeOK, Effect
<1>5. session_states' \subseteq Session
  BY <1>1 DEF TypeOK, Effect
<1>6. ASSUME NEW s \in Session, sessions'[s] = "absent"
      PROVE  \/ sessions[s] = "absent"
             \/ messages'[s] = {}
             \/ st.op = "sessions" /\ s \in st.on
  <2>1. \/ sessions[s] = "absent"
        \/ st.op = "cleanup" /\ messages[s] = {}
        \/ st.op = "sessions" /\ s \in st.on
    BY <1>6 DEF TypeOK, Effect
  <2>2. QED
    BY <1>3, <2>1
<1>7. QED
  BY <1>3, <1>4, <1>5, <1>6

LEMMA TailOf ==
    ASSUME NEW S, NEW q \in Seq(S), q # <<>>
    PROVE  /\ Head(q) = q[1] /\ q[1] \in S
           /\ Tail(q) \in Seq(S) /\ Len(Tail(q)) = Len(q) - 1
           /\ \A i \in 1 .. Len(Tail(q)) : i + 1 \in 1 .. Len(q) /\ Tail(q)[i] = q[i + 1]
OBVIOUS

\* A statement of a call: it is run, fails because the file is busy, or only
\* reads. What is left of the call keeps its shape, and the row of a session
\* goes by a delete on its own object only after its messages.
LEMMA RunStmtKeeps ==
    ASSUME IInv, NEW o \in Object, RunStmt(o)
    PROVE  IInv'
<1> DEFINE st == Head(job[o])
<1>0. /\ TypeOK /\ RowsListed /\ job[o] \in Seq(Statement) /\ job[o] # <<>>
      /\ \A h \in Handle : Counted(h) /\ Settled(h) /\ Locking(h)
      /\ \A s \in Session \ shared : Emptied(s)
      /\ Alone
  BY DEF IInv, TypeOK, RunStmt
<1>1. /\ st = job[o][1] /\ st \in Statement
      /\ Tail(job[o]) \in Seq(Statement) /\ Len(Tail(job[o])) = Len(job[o]) - 1
      /\ \A i \in 1 .. Len(Tail(job[o])) :
            i + 1 \in 1 .. Len(job[o]) /\ Tail(job[o])[i] = job[o][i + 1]
  BY <1>0, TailOf
<1>2. /\ writer' = writer /\ life' = life /\ global_seq' = global_seq
      /\ pending_count' = pending_count /\ write_queue' = write_queue /\ batch' = batch
      /\ tx' = tx /\ size' = size /\ flusher' = flusher /\ flushCall' = flushCall
      /\ owed' = owed /\ shared' = shared /\ appended' = appended /\ opens' = opens /\ events' = events
  BY DEF RunStmt, objectVars
<1>3. \/ /\ job' = [job EXCEPT ![o] = <<>>]
         /\ UNCHANGED <<messages, sessions, session_states, unlistable>>
      \/ /\ job' = [job EXCEPT ![o] = Tail(job[o])]
         /\ st.op = "count" \/ ~ st.must
         /\ UNCHANGED <<messages, sessions, session_states, unlistable>>
      \/ /\ job' = [job EXCEPT ![o] = Tail(job[o])]
         /\ Effect(st)
         /\ unlistable' = IF st.op # "sessions" THEN unlistable
                          ELSE unlistable \cup (IF st.must THEN st.on \ ({o} \ shared) ELSE st.on)
  BY DEF RunStmt
<1>4. /\ messages' \in [Session -> SUBSET Entry(appended)]
      /\ sessions' \in [Session -> {"absent", "unnamed", "named"}]
      /\ session_states' \subseteq Session
      /\ \A s \in Session : messages'[s] \subseteq messages[s]
  <2>1. CASE UNCHANGED <<messages, sessions, session_states>>
    BY <1>0, <2>1 DEF TypeOK
  <2>2. CASE Effect(st)
    BY <1>0, <1>1, <2>2, EffectOf
  <2>3. QED
    BY <1>3, <2>1, <2>2
<1>5. TypeOK'
  <2>1. job' \in [Object -> Seq(Statement)]
    <3>1. job \in [Object -> Seq(Statement)] /\ <<>> \in Seq(Statement)
      BY <1>0 DEF TypeOK
    <3>2. \E q \in Seq(Statement) : job' = [job EXCEPT ![o] = q]
      BY <1>1, <1>3, <3>1
    <3>3. QED
      BY <3>1, <3>2
  <2>2. unlistable' \subseteq Session
    <3>1. st.on \subseteq Session
      BY <1>1 DEF Statement
    <3>2. QED
      BY <1>0, <1>3, <3>1 DEF TypeOK
  <2>3. QED
    BY <1>0, <1>2, <1>4, <2>1, <2>2 DEF TypeOK
<1>6. /\ \A u \in Handle : Counted(u)' /\ Settled(u)'
      /\ Alone'
  BY <1>0, <1>2 DEF Counted, Settled, Alone
<1>7. /\ \A u \in Handle \ {o} : Locking(u)'
      /\ \A u \in Session \ (shared \cup {o}) : Emptied(u)'
  <2>1. \A u \in Handle \ {o} : job'[u] = job[u]
    BY <1>0, <1>3, Handles DEF TypeOK
  <2>2. ASSUME NEW u \in Handle \ {o} PROVE Locking(u)'
    BY <1>0, <1>2, <2>1 DEF Locking
  <2>3. ASSUME NEW u \in Session \ (shared \cup {o}) PROVE Emptied(u)'
    <3>1. u \in Handle \ {o} /\ Emptied(u)
      BY <1>0, Handles
    <3>2. messages[u] = {} => messages'[u] = {}
      BY <1>4
    <3>3. QED
      BY <2>1, <3>1, <3>2 DEF Emptied
  <2>4. QED
    BY <2>2, <2>3
<1>8. CASE job' = [job EXCEPT ![o] = <<>>] /\ UNCHANGED <<messages, sessions, session_states, unlistable>>
  <2>1. job'[o] = <<>>
    BY <1>0, <1>8 DEF TypeOK
  <2>2. Locking(o)' /\ Emptied(o)'
    BY <2>1 DEF Locking, UnlockedLast, Emptied
  <2>3. RowsListed'
    BY <1>0, <1>8 DEF RowsListed
  <2>4. QED
    BY <1>2, <1>5, <1>6, <1>7, <2>2, <2>3 DEF IInv
<1>9. CASE job' = [job EXCEPT ![o] = Tail(job[o])]
  <2>1. job'[o] = Tail(job[o])
    BY <1>0, <1>9 DEF TypeOK
  <2>2. /\ \A i \in 1 .. Len(job'[o]) : i + 1 \in 1 .. Len(job[o]) /\ job'[o][i] = job[o][i + 1]
        /\ Len(job'[o]) = Len(job[o]) - 1 /\ Len(job[o]) \in Nat
    BY <1>0, <1>1, <2>1
  <2>3. ASSUME o \in Handle PROVE Locking(o)'
    <3>1. Locking(o)
      BY <1>0, <2>3
    <3>2. flusher'[o] = "inserting" => \A i \in 1 .. Len(job'[o]) : job'[o][i].op \in Unlocked
      BY <1>2, <2>2, <3>1 DEF Locking
    <3>3. ASSUME NEW i \in 1 .. Len(job'[o]), job'[o][i].op \in Unlocked,
                 NEW j \in i .. Len(job'[o])
          PROVE  job'[o][j].op \in Unlocked
      <4>1. i + 1 \in 1 .. Len(job[o]) /\ j + 1 \in (i + 1) .. Len(job[o])
        BY <2>2
      <4>2. j \in 1 .. Len(job'[o])
        BY <2>2
      <4>3. QED
        BY <2>2, <3>1, <3>3, <4>1, <4>2 DEF Locking, UnlockedLast
    <3>4. QED
      BY <3>2, <3>3 DEF Locking, UnlockedLast
  <2>4. ASSUME o \in Session \ shared PROVE Emptied(o)'
    <3> SUFFICES ASSUME NEW i \in 1 .. Len(job'[o]), Certain(job'[o][i], "sessions", o)
                 PROVE  \/ messages'[o] = {}
                        \/ \E j \in 1 .. (i - 1) : Certain(job'[o][j], "messages", o)
      BY DEF Emptied, Certain
    <3>1. i + 1 \in 1 .. Len(job[o]) /\ Certain(job[o][i + 1], "sessions", o)
      BY <2>2
    <3>2. \/ messages[o] = {}
          \/ \E j \in 1 .. i : Certain(job[o][j], "messages", o)
      BY <1>0, <2>4, <3>1 DEF Emptied
    <3>3. CASE messages[o] = {}
      BY <1>4, <2>4, <3>3
    <3>4. CASE \E j \in 1 .. i : Certain(job[o][j], "messages", o)
      <4>1. PICK j \in 1 .. i : Certain(job[o][j], "messages", o)
        BY <3>4
      <4>2. CASE j = 1
        <5>1. st.op = "messages" /\ st.must /\ o \in st.on
          BY <1>1, <4>1, <4>2 DEF Certain
        <5>2. Effect(st)
          BY <1>3, <1>9, <2>1, <2>2, <5>1
        <5>3. QED
          BY <1>0, <1>1, <2>4, <5>1, <5>2, EffectOf
      <4>3. CASE j # 1
        <5>1. j - 1 \in 1 .. (i - 1) /\ j - 1 \in 1 .. Len(job'[o]) /\ (j - 1) + 1 = j
          BY <2>2, <4>3
        <5>2. Certain(job'[o][j - 1], "messages", o)
          BY <2>2, <4>1, <5>1
        <5>3. QED
          BY <5>1, <5>2
      <4>4. QED
        BY <4>2, <4>3
    <3>5. QED
      BY <3>2, <3>3, <3>4
  <2>5. RowsListed'
    <3>1. CASE UNCHANGED <<messages, sessions, session_states, unlistable>>
      BY <1>0, <3>1 DEF RowsListed
    <3>2. CASE Effect(st) /\ unlistable' = IF st.op # "sessions" THEN unlistable
                          ELSE unlistable \cup (IF st.must THEN st.on \ ({o} \ shared) ELSE st.on)
      <4> SUFFICES ASSUME NEW u \in Session, messages'[u] # {}, sessions'[u] = "absent"
                   PROVE  u \in unlistable'
        BY DEF RowsListed
      <4>1. messages[u] # {} /\ (sessions[u] = "absent" \/ (st.op = "sessions" /\ u \in st.on))
        <5>1. messages'[u] \subseteq messages[u]
          BY <1>4
        <5>2. \/ sessions[u] = "absent"
              \/ messages'[u] = {}
              \/ st.op = "sessions" /\ u \in st.on
          BY <1>0, <1>1, <3>2, EffectOf
        <5>3. QED
          BY <5>1, <5>2
      <4>2. CASE sessions[u] = "absent"
        BY <1>0, <3>2, <4>1, <4>2 DEF RowsListed
      <4>3. CASE st.op = "sessions" /\ u \in st.on
        <5>1. CASE u = o /\ st.must /\ u \notin shared
          <6>1. Certain(job[o][1], "sessions", o) /\ 1 \in 1 .. Len(job[o])
            BY <1>0, <1>1, <4>3, <5>1 DEF Certain
          <6>2. messages[o] = {}
            BY <1>0, <5>1, <6>1 DEF Emptied
          <6>3. QED
            BY <4>1, <5>1, <6>2
        <5>2. CASE ~ (u = o /\ st.must /\ u \notin shared)
          BY <3>2, <4>3, <5>2
        <5>3. QED
          BY <5>1, <5>2
      <4>4. QED
        BY <4>1, <4>2, <4>3
    <3>3. QED
      BY <1>3, <1>9, <2>1, <2>2, <3>1, <3>2
  <2>6. QED
    BY <1>2, <1>5, <1>6, <1>7, <2>3, <2>4, <2>5 DEF IInv
<1>10. QED
  BY <1>3, <1>8, <1>9

-----------------------------------------------------------------------------
(* The theorems.                                                           *)

LEMMA InitIInv == Init => IInv
<1> SUFFICES ASSUME Init PROVE IInv
  OBVIOUS
<1>1. TypeOK
  BY DEF Init, TypeOK
<1>2. /\ \A o \in Handle : Counted(o) /\ Settled(o) /\ Locking(o)
      /\ \A s \in Session : Emptied(s)
      /\ Alone
  BY DEF Init, Counted, Settled, Locking, UnlockedLast, Emptied, Alone, Object, Handle
<1>3. RowsListed
  BY DEF Init, RowsListed
<1>4. QED
  BY <1>1, <1>2, <1>3 DEF IInv

LEMMA NextIInv == IInv /\ [Next]_vars => IInv'
<1> SUFFICES ASSUME IInv, [Next]_vars PROVE IInv'
  OBVIOUS
<1>1. ASSUME NEW s \in Handle,
             \/ Open(s) \/ Close(s) \/ Closed(s)
             \/ append(s) \/ FlushCall(s) \/ FlushStep(s)
             \/ FlusherStep(s) \/ PrepareFails(s)
      PROVE  IInv'
  BY <1>1, OpenKeeps, CloseKeeps, ClosedKeeps, AppendKeeps, FlushCallKeeps, FlushStepKeeps,
     SwapBatchKeeps, InsertKeeps, CommitKeeps, CountDownKeeps, PrepareFailsKeeps
     DEF FlusherStep
<1>2. ASSUME NEW o \in Object, Call(o) \/ RunStmt(o)
      PROVE  IInv'
  <2>1. Call(o) => IInv'
    BY CallKeeps
  <2>2. RunStmt(o) => IInv'
    BY RunStmtKeeps
  <2>3. QED
    BY <1>2, <2>1, <2>2
<1>3. CASE Crash
  BY <1>3, CrashKeeps
<1>4. CASE UNCHANGED vars
  <2>1. TypeOK'
    BY <1>4 DEF IInv, TypeOK, vars, fileVars, objectVars, callVars, histVars
  <2>2. /\ \A o \in Handle : Counted(o)' /\ Settled(o)' /\ Locking(o)'
        /\ \A s \in Session \ shared' : Emptied(s)'
        /\ Alone'
    BY <1>4 DEF IInv, Counted, Settled, Locking, Emptied, Alone, vars, fileVars, objectVars,
                callVars, histVars
  <2>3. RowsListed'
    BY <1>4 DEF IInv, RowsListed, vars, fileVars, histVars
  <2>4. QED
    BY <2>1, <2>2, <2>3 DEF IInv
<1>5. QED
  BY <1>1, <1>2, <1>3, <1>4 DEF Next

\* What append, flush_batch, flush, the synchronous calls, the destructor and
\* a crash keep true of the queues, pending_count, rw_mutex and the tables.
THEOREM Invariance == Spec => []IInv
<1>1. QED
  BY InitIInv, NextIInv, PTL DEF Spec

\* HistoryDB::flush: when it returns, no message that was queued at the call
\* is still in the queue, in the batch or in an open transaction, however
\* many were appended meanwhile.
THEOREM FlushComplete == Spec => []FlushSettles
<1>1. IInv => FlushSettles
  <2> SUFFICES ASSUME IInv, NEW s \in Handle, flushCall[s] = "returned",
                      NEW x \in owed[s], x \in Range(PendingIds(s))
               PROVE  FALSE
    BY DEF FlushSettles
  <2>1. /\ tx[s] \in Seq(Entry(appended)) /\ batch[s] \in Seq(Entry(appended))
        /\ write_queue[s] \in Seq(Entry(appended)) /\ Settled(s)
    BY DEF IInv, TypeOK
  <2> DEFINE a == Len(tx[s])
             b == Len(batch[s])
             c == Len(write_queue[s])
  <2>2. a \in Nat /\ b \in Nat /\ c \in Nat
    BY <2>1
  <2>3. /\ Queued(s) \in Seq(Entry(appended)) /\ Len(Queued(s)) = a + b + c
        /\ \A i \in 1 .. (a + b + c) :
              Queued(s)[i] = IF i <= a THEN tx[s][i]
                             ELSE IF i <= a + b THEN batch[s][i - a]
                             ELSE write_queue[s][i - (a + b)]
    <3> DEFINE ab == tx[s] \o batch[s]
    <3>1. /\ ab \in Seq(Entry(appended)) /\ Len(ab) = a + b
          /\ \A i \in 1 .. (a + b) : ab[i] = IF i <= a THEN tx[s][i] ELSE batch[s][i - a]
      BY <2>1, ConcatProperties
    <3>2. Queued(s) = ab \o write_queue[s]
      BY DEF Queued
    <3> HIDE DEF ab
    <3>3. /\ Queued(s) \in Seq(Entry(appended)) /\ Len(Queued(s)) = Len(ab) + c
          /\ \A i \in 1 .. (Len(ab) + c) :
                Queued(s)[i] = IF i <= Len(ab) THEN ab[i] ELSE write_queue[s][i - Len(ab)]
      <4>1. write_queue[s] \in Seq(Entry(appended)) /\ ab \in Seq(Entry(appended))
        BY <2>1, <3>1
      <4>2. /\ ab \o write_queue[s] \in Seq(Entry(appended))
            /\ Len(ab \o write_queue[s]) = Len(ab) + c
            /\ \A i \in 1 .. (Len(ab) + c) :
                  (ab \o write_queue[s])[i] =
                      IF i <= Len(ab) THEN ab[i] ELSE write_queue[s][i - Len(ab)]
        BY <4>1, ConcatProperties
      <4>3. QED
        BY <3>2, <4>2
    <3> HIDE DEF a, b, c
    <3>4. QED
      BY <2>2, <3>1, <3>3
  <2> HIDE DEF a, b, c
  <2>4. PICK i \in 1 .. (a + b + c) : x = Queued(s)[i].id
    BY <2>2, <2>3 DEF Range, PendingIds
  <2>5. CASE i <= a
    <3>1. i \in 1 .. a /\ Queued(s)[i] = tx[s][i]
      BY <2>2, <2>3, <2>4, <2>5
    <3>2. x \in Ids(tx[s])
      BY <2>4, <3>1 DEF Ids, a
    <3>3. QED
      BY <2>1, <3>2 DEF Settled
  <2>6. CASE i > a /\ i <= a + b
    <3>1. i - a \in 1 .. b /\ Queued(s)[i] = batch[s][i - a]
      BY <2>2, <2>3, <2>4, <2>6
    <3>2. x \in Ids(batch[s])
      BY <2>4, <3>1 DEF Ids, b
    <3>3. QED
      BY <2>1, <3>2 DEF Settled
  <2>7. CASE i > a + b
    <3>1. i - (a + b) \in 1 .. c /\ Queued(s)[i] = write_queue[s][i - (a + b)]
      BY <2>2, <2>3, <2>4, <2>7
    <3>2. x \in Ids(write_queue[s])
      BY <2>4, <3>1 DEF Ids, c
    <3>3. QED
      BY <2>1, <3>2 DEF Settled
  <2>8. QED
    BY <2>2, <2>4, <2>5, <2>6, <2>7
<1>2. QED
  BY <1>1, Invariance, PTL

\* flush_batch and delete_session: a session with messages has its row, but
\* for a bulk delete or one through another object; a delete of a session on
\* its own object never takes the row and leaves messages.
THEOREM ListedWithRows == Spec => []RowsListed
<1>1. IInv => RowsListed
  BY DEF IInv
<1>2. QED
  BY <1>1, Invariance, PTL

-----------------------------------------------------------------------------
(* load_session: the rows in order, as a list.                             *)

RowSet == [id : Nat, seq : Nat]

\* A row has fewer rows before it than one behind it has.
LEMMA RankStrict ==
    ASSUME NEW M \in SUBSET RowSet, IsFiniteSet(M),
           NEW a \in RowSet, NEW b \in RowSet, a \in M, Before(a, b)
    PROVE  /\ Rank(M, a) \in Nat /\ Rank(M, b) \in Nat
           /\ Rank(M, a) < Rank(M, b)
<1> DEFINE A == {q \in M : Before(q, a)}
           B == {q \in M : Before(q, b)}
<1>1. IsFiniteSet(A) /\ IsFiniteSet(B)
  BY FS_Subset
<1>2. A \subseteq B
  BY DEF Before, RowSet
<1>3. a \in B /\ a \notin A
  BY DEF Before, RowSet
<1>4. Cardinality(A) \in Nat /\ Cardinality(B) \in Nat
  BY <1>1, FS_CardinalityType
<1>5. Cardinality(A) <= Cardinality(B) /\ (Cardinality(A) = Cardinality(B) => A = B)
  BY <1>1, <1>2, FS_Subset
<1>6. A # B
  BY <1>3
<1> HIDE DEF A, B
<1>7. Cardinality(A) < Cardinality(B)
  BY <1>4, <1>5, <1>6
<1>8. QED
  BY <1>4, <1>7 DEF A, B, Rank

LEMMA RankRange ==
    ASSUME NEW M \in SUBSET RowSet, IsFiniteSet(M), NEW a \in M
    PROVE  Cardinality(M) \in Nat /\ Rank(M, a) \in 0 .. (Cardinality(M) - 1)
<1> DEFINE A == {q \in M : Before(q, a)}
<1>1. IsFiniteSet(A) /\ A \subseteq M
  BY FS_Subset
<1>2. a \notin A
  BY DEF Before, RowSet
<1>3. Cardinality(A) \in Nat /\ Cardinality(M) \in Nat
  BY <1>1, FS_CardinalityType
<1>4. Cardinality(A) <= Cardinality(M) /\ (Cardinality(A) = Cardinality(M) => A = M)
  BY <1>1, FS_Subset
<1>5. A # M
  BY <1>2
<1> HIDE DEF A
<1>6. Cardinality(A) \in 0 .. (Cardinality(M) - 1)
  BY <1>3, <1>4, <1>5
<1>7. QED
  BY <1>3, <1>6 DEF A, Rank

\* Each place of the list has its one row.
LEMMA RowAtPlace ==
    ASSUME NEW M \in SUBSET RowSet, IsFiniteSet(M)
    PROVE  /\ \A k \in 1 .. Cardinality(M) : RowAt(M, k) \in M /\ Rank(M, RowAt(M, k)) = k - 1
           /\ \A r \in M : /\ Rank(M, r) + 1 \in 1 .. Cardinality(M)
                           /\ RowAt(M, Rank(M, r) + 1) = r
<1> DEFINE n == Cardinality(M)
           T == 0 .. (n - 1)
           f == [r \in M |-> Rank(M, r)]
<1>1. n \in Nat
  BY FS_CardinalityType
<1>2. IsFiniteSet(T) /\ Cardinality(T) = n
  BY SMTT(30), <1>1, FS_Interval
<1>3. \A r \in M : Rank(M, r) \in T
  BY RankRange
<1>4. \A a, b \in M : Rank(M, a) = Rank(M, b) => a = b
  <2> TAKE a, b \in M
  <2>1. a # b => Before(a, b) \/ Before(b, a)
    BY DEF Before, RowSet
  <2>2. Before(a, b) => Rank(M, a) # Rank(M, b)
    BY RankStrict
  <2>3. Before(b, a) => Rank(M, a) # Rank(M, b)
    BY RankStrict
  <2>4. QED
    BY <2>1, <2>2, <2>3
<1>5. f \in Injection(M, T)
  BY <1>3, <1>4 DEF Injection, IsInjective
<1>6. f \in Surjection(M, T)
  BY <1>2, <1>5, FS_Injection
<1>7. \A k \in T : \E r \in M : Rank(M, r) = k
  BY <1>6 DEF Surjection
<1>8. ASSUME NEW k \in 1 .. n PROVE RowAt(M, k) \in M /\ Rank(M, RowAt(M, k)) = k - 1
  <2>1. k - 1 \in T
    BY <1>1
  <2>2. \E r \in M : Rank(M, r) = k - 1
    BY <1>7, <2>1
  <2>3. QED
    BY <2>2 DEF RowAt
<1>9. ASSUME NEW r \in M
      PROVE  Rank(M, r) + 1 \in 1 .. n /\ RowAt(M, Rank(M, r) + 1) = r
  <2>1. Rank(M, r) \in T
    BY <1>3
  <2>2. Rank(M, r) + 1 \in 1 .. n /\ (Rank(M, r) + 1) - 1 = Rank(M, r)
    BY <1>1, <2>1
  <2>3. RowAt(M, Rank(M, r) + 1) \in M /\ Rank(M, RowAt(M, Rank(M, r) + 1)) = Rank(M, r)
    BY <1>8, <2>2
  <2>4. QED
    BY <1>4, <2>2, <2>3
<1>10. QED
  BY <1>8, <1>9

LEMMA OrderBySeqType ==
    ASSUME NEW M \in SUBSET RowSet, IsFiniteSet(M)
    PROVE  /\ OrderBySeq(M) \in Seq(Nat) /\ Len(OrderBySeq(M)) = Cardinality(M)
           /\ Cardinality(M) \in Nat
           /\ \A k \in 1 .. Cardinality(M) : OrderBySeq(M)[k] = RowAt(M, k).id
<1>1. Cardinality(M) \in Nat
  BY FS_CardinalityType
<1>2. \A k \in 1 .. Cardinality(M) : RowAt(M, k) \in M
  BY RowAtPlace
<1>3. \A k \in 1 .. Cardinality(M) : RowAt(M, k).id \in Nat
  BY <1>2 DEF RowSet
<1>4. QED
  BY <1>1, <1>3 DEF OrderBySeq

\* Deleting rows takes them out of the list and leaves the others in order.
LEMMA FewerRows ==
    ASSUME NEW M \in SUBSET RowSet, IsFiniteSet(M), NEW F \in SUBSET M
    PROVE  Log!Thinned(OrderBySeq(F), OrderBySeq(M))
<1> DEFINE n == Cardinality(F)
           place == [k \in 1 .. n |-> Rank(M, RowAt(F, k)) + 1]
<1>1. IsFiniteSet(F) /\ F \in SUBSET RowSet
  BY FS_Subset
<1>2. n \in Nat /\ Len(OrderBySeq(F)) = n /\ Len(OrderBySeq(M)) = Cardinality(M)
  BY <1>1, OrderBySeqType
<1>3. \A k \in 1 .. n : RowAt(F, k) \in F /\ Rank(F, RowAt(F, k)) = k - 1
  BY <1>1, RowAtPlace
<1>4. \A k \in 1 .. n : place[k] \in 1 .. Cardinality(M) /\ RowAt(M, place[k]) = RowAt(F, k)
  BY <1>3, RowAtPlace
<1>5. ASSUME NEW i \in 1 .. n, NEW j \in 1 .. n, i < j
      PROVE  place[i] < place[j]
  <2> DEFINE a == RowAt(F, i)
             b == RowAt(F, j)
  <2>1. a \in F /\ b \in F /\ a \in RowSet /\ b \in RowSet /\ Rank(F, a) = i - 1 /\ Rank(F, b) = j - 1
    BY <1>1, <1>3
  <2> HIDE DEF a, b
  <2>2. a # b
    BY <1>5, <2>1
  <2>3. Before(a, b) \/ Before(b, a)
    BY <2>1, <2>2 DEF Before, RowSet
  <2>4. ~ Before(b, a)
    <3> SUFFICES ASSUME Before(b, a) PROVE FALSE
      OBVIOUS
    <3>1. Rank(F, b) < Rank(F, a)
      BY <1>1, <2>1, RankStrict
    <3>2. QED
      BY <1>2, <1>5, <2>1, <3>1
  <2>5. /\ Rank(M, a) \in Nat /\ Rank(M, b) \in Nat
        /\ Rank(M, a) < Rank(M, b)
    BY <2>1, <2>3, <2>4, RankStrict
  <2>6. QED
    BY <2>5 DEF a, b
<1>6. \A k \in 1 .. n : OrderBySeq(F)[k] = OrderBySeq(M)[place[k]]
  BY SMTT(30), <1>1, <1>4, OrderBySeqType
<1>7. place \in [1 .. n -> 1 .. Cardinality(M)]
  BY <1>4
<1> HIDE DEF place
<1>8. QED
  BY <1>2, <1>5, <1>6, <1>7 DEF Log!Thinned

IdsInOrder(q) == [i \in DOMAIN q |-> q[i].id]

LEMMA IdsInOrderType ==
    ASSUME NEW q \in Seq(RowSet)
    PROVE  /\ IdsInOrder(q) \in Seq(Nat) /\ Len(IdsInOrder(q)) = Len(q) /\ Len(q) \in Nat
           /\ \A i \in 1 .. Len(q) : IdsInOrder(q)[i] = q[i].id
<1>1. Len(q) \in Nat /\ DOMAIN q = 1 .. Len(q)
  OBVIOUS
<1>2. \A i \in 1 .. Len(q) : q[i] \in RowSet
  OBVIOUS
<1>3. \A i \in 1 .. Len(q) : q[i].id \in Nat
  BY <1>2 DEF RowSet
<1>4. QED
  BY <1>1, <1>3 DEF IdsInOrder

\* Rows with higher numbers, inserted in order, come behind all others.
LEMMA MoreRows ==
    ASSUME NEW M \in SUBSET RowSet, IsFiniteSet(M), NEW q \in Seq(RowSet),
           \A i \in 1 .. Len(q), j \in 1 .. Len(q) : i < j => Before(q[i], q[j]),
           \A r \in M, i \in 1 .. Len(q) : Before(r, q[i])
    PROVE  /\ IsFiniteSet(M \cup Range(q))
           /\ OrderBySeq(M \cup Range(q)) = OrderBySeq(M) \o IdsInOrder(q)
<1> DEFINE n == Cardinality(M)
           m == Len(q)
           W == M \cup Range(q)
           Upto(i) == {q[j] : j \in 1 .. i}
<1>1. n \in Nat /\ m \in Nat /\ \A i \in 1 .. m : q[i] \in RowSet
  BY FS_CardinalityType
<1>2. \A a, b \in RowSet : ~ (Before(a, b) /\ Before(b, a)) /\ ~ Before(a, a)
  BY DEF Before, RowSet
<1>3. ASSUME NEW i \in 0 .. m
      PROVE  /\ IsFiniteSet(Upto(i)) /\ Cardinality(Upto(i)) = i
             /\ Upto(i) \cap M = {} /\ Upto(i) \subseteq RowSet
  <2> DEFINE g == [j \in 1 .. i |-> q[j]]
  <2>1. \A j \in 1 .. i : j \in 1 .. m
    BY <1>1
  <2>2. \A j, k \in 1 .. i : q[j] = q[k] => j = k
    <3> SUFFICES ASSUME NEW j \in 1 .. i, NEW k \in 1 .. i, q[j] = q[k], j # k
                 PROVE  FALSE
      OBVIOUS
    <3>1. j < k \/ k < j
      OBVIOUS
    <3>2. Before(q[j], q[j])
      BY <2>1, <3>1
    <3>3. QED
      BY <1>1, <1>2, <2>1, <3>2
  <2>3. g \in Bijection(1 .. i, Upto(i))
    BY <2>2 DEF Bijection, Injection, Surjection, IsInjective
  <2>4. IsFiniteSet(1 .. i) /\ Cardinality(1 .. i) = i
    BY <1>1, FS_Interval
  <2>5. IsFiniteSet(Upto(i)) /\ Cardinality(Upto(i)) = i
    BY <2>3, <2>4, FS_Bijection DEF ExistsBijection
  <2>6. Upto(i) \cap M = {} /\ Upto(i) \subseteq RowSet
    BY <1>1, <1>2, <2>1
  <2>7. QED
    BY <2>5, <2>6
<1>4. Range(q) = Upto(m)
  BY RangeEquality
<1>5. /\ IsFiniteSet(W) /\ W \in SUBSET RowSet /\ Cardinality(W) = n + m
  <2>1. IsFiniteSet(Upto(m)) /\ Cardinality(Upto(m)) = m /\ Upto(m) \cap M = {}
        /\ Upto(m) \subseteq RowSet
    <3>1. m \in 0 .. m
      BY <1>1
    <3>2. QED
      BY <1>3, <3>1
  <2>2. IsFiniteSet(M \cup Upto(m))
        /\ Cardinality(M \cup Upto(m)) = n + m - Cardinality(M \cap Upto(m))
    BY <2>1, FS_Union
  <2>3. Cardinality(M \cap Upto(m)) = 0
    BY <2>1, FS_EmptySet
  <2>4. Cardinality(M \cup Upto(m)) = n + m
    <3> HIDE DEF n, m, Upto
    <3>1. QED
      BY <1>1, <2>2, <2>3
  <2>5. QED
    BY <1>4, <2>1, <2>2, <2>4
<1>6. \A r \in M : Rank(W, r) = Rank(M, r)
  <2> TAKE r \in M
  <2>1. {p \in W : Before(p, r)} = {p \in M : Before(p, r)}
    BY <1>1, <1>2, <1>4
  <2>2. QED
    BY <2>1 DEF Rank
<1>7. ASSUME NEW i \in 1 .. m PROVE Rank(W, q[i]) = n + i - 1
  <2>1. i - 1 \in 0 .. m
    BY <1>1
  <2>2. {p \in W : Before(p, q[i])} = M \cup Upto(i - 1)
    <3>1. \A j \in 1 .. m : Before(q[j], q[i]) <=> j \in 1 .. (i - 1)
      <4> TAKE j \in 1 .. m
      <4>1. j < i => Before(q[j], q[i])
        OBVIOUS
      <4>2. i < j => Before(q[i], q[j])
        OBVIOUS
      <4>3. j < i \/ i < j \/ j = i
        BY <1>1
      <4>4. j < i <=> j \in 1 .. (i - 1)
        BY <1>1
      <4>5. QED
        BY <1>1, <1>2, <4>1, <4>2, <4>3, <4>4
    <3>2. {p \in Upto(m) : Before(p, q[i])} = Upto(i - 1)
      BY <1>1, <3>1
    <3>3. QED
      BY <1>4, <3>2
  <2>3. IsFiniteSet(Upto(i - 1)) /\ Cardinality(Upto(i - 1)) = i - 1 /\ Upto(i - 1) \cap M = {}
    BY <1>3, <2>1
  <2>4. Cardinality(M \cup Upto(i - 1)) = n + (i - 1) - Cardinality(M \cap Upto(i - 1))
    BY <2>3, FS_Union
  <2>5. Cardinality(M \cap Upto(i - 1)) = 0
    BY <2>3, FS_EmptySet
  <2>6. Cardinality(M \cup Upto(i - 1)) = n + i - 1
    <3> HIDE DEF n, m, Upto
    <3>1. i \in Nat
      BY <1>1
    <3>2. QED
      BY <1>1, <2>4, <2>5, <3>1
  <2>7. QED
    BY <2>2, <2>6 DEF Rank
<1>8. \A k \in 1 .. n : RowAt(W, k) = RowAt(M, k)
  <2> TAKE k \in 1 .. n
  <2>1. RowAt(M, k) \in M /\ Rank(M, RowAt(M, k)) = k - 1
    BY RowAtPlace
  <2>2. RowAt(W, (k - 1) + 1) = RowAt(M, k)
    <3>1. RowAt(M, k) \in W /\ Rank(W, RowAt(M, k)) = k - 1
      BY <1>6, <2>1
    <3> HIDE DEF W
    <3>2. \A r \in W : RowAt(W, Rank(W, r) + 1) = r
      BY <1>5, RowAtPlace
    <3>3. QED
      BY <3>1, <3>2
  <2>3. (k - 1) + 1 = k
    BY <1>1
  <2>4. QED
    BY <2>2, <2>3
<1>9. \A i \in 1 .. m : RowAt(W, n + i) = q[i]
  <2> TAKE i \in 1 .. m
  <2>1. q[i] \in W
    BY <1>4
  <2>2. RowAt(W, (n + i - 1) + 1) = q[i]
    BY <1>5, <1>7, <2>1, RowAtPlace
  <2>3. (n + i - 1) + 1 = n + i
    BY <1>1
  <2>4. QED
    BY <2>2, <2>3
<1> HIDE DEF W
<1>10. /\ OrderBySeq(W) \in Seq(Nat) /\ Len(OrderBySeq(W)) = n + m
       /\ \A k \in 1 .. (n + m) : OrderBySeq(W)[k] = RowAt(W, k).id
  BY <1>5, OrderBySeqType
<1>11. /\ OrderBySeq(M) \in Seq(Nat) /\ Len(OrderBySeq(M)) = n
       /\ \A k \in 1 .. n : OrderBySeq(M)[k] = RowAt(M, k).id
  BY OrderBySeqType
<1>12. /\ IdsInOrder(q) \in Seq(Nat) /\ Len(IdsInOrder(q)) = m
       /\ \A i \in 1 .. m : IdsInOrder(q)[i] = q[i].id
  BY IdsInOrderType
<1> DEFINE L == OrderBySeq(M) \o IdsInOrder(q)
<1>13. /\ L \in Seq(Nat) /\ Len(L) = n + m
       /\ \A k \in 1 .. (n + m) : L[k] = IF k <= n THEN OrderBySeq(M)[k] ELSE IdsInOrder(q)[k - n]
  <2> DEFINE p == OrderBySeq(M)
             r == IdsInOrder(q)
  <2>1. p \in Seq(Nat) /\ r \in Seq(Nat) /\ Len(p) = n /\ Len(r) = m
    BY <1>11, <1>12
  <2> HIDE DEF p, r
  <2>2. /\ p \o r \in Seq(Nat) /\ Len(p \o r) = Len(p) + Len(r)
        /\ \A k \in 1 .. (Len(p) + Len(r)) :
              (p \o r)[k] = IF k <= Len(p) THEN p[k] ELSE r[k - Len(p)]
    BY ONLY <2>1, ConcatProperties
  <2>3. QED
    BY <2>1, <2>2 DEF p, r
<1> HIDE DEF L, n, m
<1>14. ASSUME NEW k \in 1 .. (n + m) PROVE OrderBySeq(W)[k] = L[k]
  <2>1. CASE k <= n
    <3>1. k \in 1 .. n
      BY <1>1, <2>1
    <3>2. QED
      BY <1>8, <1>10, <1>11, <1>13, <2>1, <3>1
  <2>2. CASE ~ (k <= n)
    <3>1. k - n \in 1 .. m /\ n + (k - n) = k
      BY <1>1, <2>2
    <3>2. RowAt(W, k) = q[k - n]
      BY <1>9, <3>1
    <3>3. QED
      BY <1>10, <1>12, <1>13, <2>2, <3>1, <3>2
  <2>3. QED
    BY <2>1, <2>2
<1>15. OrderBySeq(W) = L
  BY <1>10, <1>13, <1>14, SeqEqual
<1>16. QED
  BY <1>5, <1>15 DEF W, L

-----------------------------------------------------------------------------
(* What is on its way to the file, step by step.                           *)

\* The queue of a session as it moves: nothing but append changes it at the
\* end, and what leaves it leaves at the front.
Rest(q, k) == SubSeq(q, k + 1, Len(q))

LEMMA RestOf ==
    ASSUME NEW S, NEW q \in Seq(S), NEW k \in 0 .. Len(q)
    PROVE  /\ Rest(q, k) \in Seq(S) /\ Len(Rest(q, k)) = Len(q) - k
           /\ \A i \in 1 .. (Len(q) - k) : Rest(q, k)[i] = q[k + i]
<1>1. Len(q) \in Nat
  OBVIOUS
<1>2. \A i \in (k + 1) .. Len(q) : q[i] \in S
  BY <1>1, ElementOfSeq
<1>3. /\ SubSeq(q, k + 1, Len(q)) \in Seq(S)
      /\ Len(SubSeq(q, k + 1, Len(q))) = IF k + 1 <= Len(q) THEN Len(q) - (k + 1) + 1 ELSE 0
      /\ \A i \in 1 .. (Len(q) - (k + 1) + 1) : SubSeq(q, k + 1, Len(q))[i] = q[(k + 1) + i - 1]
  BY <1>1, <1>2, SubSeqProperties
<1>4. QED
  BY <1>1, <1>3 DEF Rest

LEMMA RestOfJoin ==
    ASSUME NEW S, NEW p \in Seq(S), NEW q \in Seq(S)
    PROVE  Rest(p \o q, Len(p)) = q /\ Len(p) \in 0 .. Len(p \o q)
<1>1. /\ p \o q \in Seq(S) /\ Len(p \o q) = Len(p) + Len(q) /\ Len(p) \in Nat /\ Len(q) \in Nat
      /\ \A i \in 1 .. (Len(p) + Len(q)) : (p \o q)[i] = IF i <= Len(p) THEN p[i] ELSE q[i - Len(p)]
  BY ConcatProperties
<1> DEFINE w == p \o q
           r == Rest(w, Len(p))
<1>2. Len(p) \in 0 .. Len(w)
  BY <1>1
<1>3. /\ r \in Seq(S) /\ Len(r) = Len(w) - Len(p)
      /\ \A i \in 1 .. (Len(w) - Len(p)) : r[i] = w[Len(p) + i]
  <2> HIDE DEF w
  <2>1. w \in Seq(S)
    BY <1>1 DEF w
  <2>2. QED
    BY <1>2, <2>1, RestOf
<1> HIDE DEF r
<1>4. Len(r) = Len(q)
  BY <1>1, <1>3
<1>5. ASSUME NEW i \in 1 .. Len(q) PROVE r[i] = q[i]
  <2>1. i \in 1 .. (Len(w) - Len(p)) /\ Len(p) + i \in 1 .. (Len(p) + Len(q))
        /\ ~ (Len(p) + i <= Len(p)) /\ (Len(p) + i) - Len(p) = i
    BY <1>1
  <2>2. QED
    BY <1>1, <1>3, <2>1
<1>6. r = q
  BY <1>3, <1>4, <1>5, SeqEqual
<1>7. QED
  BY <1>2, <1>6 DEF r

\* One row from the front of b to the end of p.
LEMMA MoveOne ==
    ASSUME NEW S, NEW p \in Seq(S), NEW b \in Seq(S), b # <<>>
    PROVE  Append(p, Head(b)) \o Tail(b) = p \o b
<1>1. /\ Head(b) \in S /\ Tail(b) \in Seq(S) /\ Len(Tail(b)) = Len(b) - 1 /\ Len(b) \in Nat \ {0}
      /\ Len(p) \in Nat /\ Head(b) = b[1]
      /\ \A i \in 1 .. Len(Tail(b)) : Tail(b)[i] = b[i + 1]
  BY HeadTailProperties, EmptySeq
<1> DEFINE h == Append(p, Head(b))
           l == Tail(b)
<1>2. /\ h \in Seq(S) /\ Len(h) = Len(p) + 1 /\ h[Len(p) + 1] = b[1]
      /\ \A i \in 1 .. Len(p) : h[i] = p[i]
  BY <1>1, AppendProperties
<1>3. l \in Seq(S) /\ Len(l) = Len(b) - 1 /\ \A i \in 1 .. (Len(b) - 1) : l[i] = b[i + 1]
  BY <1>1
<1> HIDE DEF h, l
<1>4. /\ h \o l \in Seq(S) /\ Len(h \o l) = Len(h) + Len(l)
      /\ \A i \in 1 .. (Len(h) + Len(l)) : (h \o l)[i] = IF i <= Len(h) THEN h[i] ELSE l[i - Len(h)]
  BY <1>2, <1>3, ConcatProperties
<1>5. /\ p \o b \in Seq(S) /\ Len(p \o b) = Len(p) + Len(b)
      /\ \A i \in 1 .. (Len(p) + Len(b)) : (p \o b)[i] = IF i <= Len(p) THEN p[i] ELSE b[i - Len(p)]
  BY ConcatProperties
<1>6. Len(h \o l) = Len(p \o b)
  BY <1>1, <1>2, <1>3, <1>4, <1>5
<1>7. ASSUME NEW i \in 1 .. Len(h \o l) PROVE (h \o l)[i] = (p \o b)[i]
  <2>1. i \in 1 .. (Len(p) + Len(b)) /\ Len(h) + Len(l) = Len(p) + Len(b)
    BY <1>1, <1>2, <1>3, <1>4
  <2>2. CASE i <= Len(p)
    BY <1>1, <1>2, <1>4, <1>5, <2>1, <2>2
  <2>3. CASE i = Len(p) + 1
    BY <1>1, <1>2, <1>4, <1>5, <2>1, <2>3
  <2>4. CASE i > Len(p) + 1
    <3>1. i - Len(h) \in 1 .. (Len(b) - 1) /\ (i - Len(h)) + 1 = i - Len(p)
      BY <1>1, <1>2, <2>1, <2>4
    <3>2. (h \o l)[i] = l[i - Len(h)] /\ (p \o b)[i] = b[i - Len(p)]
      BY <1>1, <1>2, <1>4, <1>5, <2>1, <2>4
    <3>3. QED
      BY <1>3, <3>1, <3>2
  <2>5. QED
    BY <1>1, <2>1, <2>2, <2>3, <2>4
<1>8. h \o l = p \o b
  BY <1>4, <1>5, <1>6, <1>7, SeqEqual
<1>9. QED
  BY <1>8 DEF h, l

LEMMA JoinAppend ==
    ASSUME NEW S, NEW p \in Seq(S), NEW q \in Seq(S), NEW e \in S
    PROVE  p \o Append(q, e) = Append(p \o q, e)
<1>1. <<e>> \in Seq(S) /\ p \o q \in Seq(S)
  OBVIOUS
<1>2. Append(q, e) = q \o <<e>> /\ Append(p \o q, e) = (p \o q) \o <<e>>
  BY <1>1, AppendIsConcat
<1>3. QED
  BY <1>1, <1>2, ConcatAssociative

LEMMA FrontOfJoin ==
    ASSUME NEW S, NEW p \in Seq(S), NEW q \in Seq(S)
    PROVE  SubSeq(p \o q, 1, Len(p)) = p
<1>1. /\ p \o q \in Seq(S) /\ Len(p \o q) = Len(p) + Len(q) /\ Len(p) \in Nat /\ Len(q) \in Nat
      /\ \A i \in 1 .. (Len(p) + Len(q)) : (p \o q)[i] = IF i <= Len(p) THEN p[i] ELSE q[i - Len(p)]
  BY ConcatProperties
<1>2. \A i \in 1 .. Len(p) : (p \o q)[i] = p[i] /\ (p \o q)[i] \in S
  BY <1>1, ElementOfSeq
<1> DEFINE r == SubSeq(p \o q, 1, Len(p))
<1>3. /\ r \in Seq(S) /\ Len(r) = Len(p)
      /\ \A i \in 1 .. Len(p) : r[i] = (p \o q)[1 + i - 1]
  BY <1>1, <1>2, SubSeqProperties
<1> HIDE DEF r
<1>4. \A i \in 1 .. Len(r) : r[i] = p[i]
  <2> TAKE i \in 1 .. Len(r)
  <2>1. 1 + i - 1 = i /\ i \in 1 .. Len(p)
    BY <1>1, <1>3
  <2>2. QED
    BY <1>2, <1>3, <2>1
<1>5. r = p
  BY <1>3, <1>4, SeqEqual
<1>6. QED
  BY <1>5 DEF r

LEMMA QueuedType ==
    ASSUME TypeOK, NEW s \in Session
    PROVE  /\ tx[s] \in Seq(Entry(appended)) /\ batch[s] \in Seq(Entry(appended))
           /\ write_queue[s] \in Seq(Entry(appended))
           /\ Queued(s) \in Seq(Entry(appended)) /\ Entry(appended) \subseteq RowSet
           /\ Queued(s) \in Seq(RowSet) /\ messages[s] \in SUBSET RowSet
<1>1. /\ tx[s] \in Seq(Entry(appended)) /\ batch[s] \in Seq(Entry(appended))
      /\ write_queue[s] \in Seq(Entry(appended)) /\ messages[s] \subseteq Entry(appended)
  BY Handles DEF TypeOK
<1>2. Queued(s) \in Seq(Entry(appended))
  BY <1>1 DEF Queued
<1>3. Entry(appended) \subseteq RowSet
  BY DEF TypeOK, Entry, RowSet
<1>4. Queued(s) \in Seq(RowSet)
  BY <1>2, <1>3, SeqMonotonic
<1>5. QED
  BY <1>1, <1>2, <1>3, <1>4

\* Rows in the order of their numbers, all higher than those stored and none
\* higher than the object's counter.
Rising(q, stored, last) ==
    /\ \A i \in 1 .. Len(q) : q[i].seq <= last
    /\ \A i, j \in 1 .. Len(q) : i < j => q[i].seq < q[j].seq
    /\ \A r \in stored : \A i \in 1 .. Len(q) : r.seq < q[i].seq

Ordered(s) ==
    /\ Rising(Queued(s), messages[s], global_seq[s])
    /\ IF life[s] = "closed" THEN Queued(s) = <<>> /\ flusher[s] = "loop"
       ELSE \A r \in messages[s] : r.seq <= global_seq[s]
    /\ IsFiniteSet(messages[s])
    /\ tx[s] # <<>> => writer = s

\* A session two objects have written to is in no particular order.
OInv == \A s \in Session \ shared : Ordered(s)

Still(u) == Queued(u)' = Queued(u) /\ messages'[u] = messages[u]

\* The k oldest of what is on its way are stored or given up.
Settle(s, k, stored) ==
    /\ k \in 0 .. Len(Queued(s))
    /\ Queued(s)' = Rest(Queued(s), k)
    /\ messages'[s] = IF stored THEN messages[s] \cup Range(SubSeq(Queued(s), 1, k))
                      ELSE messages[s]
    /\ \A u \in Session \ {s} : Still(u)
    /\ appended' = appended /\ shared' = shared

LEMMA NoneSettled ==
    ASSUME IInv, NEW s \in Session \ shared, \A u \in Session : Still(u), appended' = appended,
           shared' = shared
    PROVE  Settle(s, 0, FALSE)
<1>1. Queued(s) \in Seq(RowSet)
  BY QueuedType DEF IInv
<1>2. Rest(Queued(s), 0) = Queued(s) /\ 0 \in 0 .. Len(Queued(s))
  BY <1>1, SubSeqFull DEF Rest
<1>3. QED
  BY <1>2 DEF Settle, Still

\* What is in the three places stays there.
LEMMA SameQueues ==
    ASSUME NEW u \in Session, tx'[u] = tx[u], batch'[u] = batch[u],
           write_queue'[u] = write_queue[u], messages'[u] = messages[u]
    PROVE  Still(u)
BY DEF Still, Queued

LEMMA OpenSettles ==
    ASSUME IInv, NEW s \in Session \ shared,
           Open(s) \/ Close(s) \/ Closed(s) \/ FlushCall(s) \/ FlushStep(s) \/ CountDown(s)
    PROVE  Settle(s, 0, FALSE)
<1> \A v \in Session : v \in Handle /\ SessionOf(v) = v
  BY Handles
<1>1. /\ tx' = tx /\ batch' = batch /\ write_queue' = write_queue /\ messages' = messages
      /\ appended' = appended /\ shared' = shared
  BY Handles DEF Open, Close, Closed, FlushCall, FlushStep, CountDown, fileVars, objectVars,
                 histVars
<1>2. QED
  BY <1>1, SameQueues, NoneSettled

LEMMA SwapBatchSettles ==
    ASSUME IInv, NEW s \in Session \ shared, SwapBatch(s)
    PROVE  Settle(s, 0, FALSE)
<1> \A v \in Session : v \in Handle /\ SessionOf(v) = v
  BY Handles
<1>1. /\ tx[s] = <<>> /\ batch[s] = <<>> /\ write_queue[s] \in Seq(RowSet)
  <2>1. tx[s] = <<>> /\ batch[s] = <<>>
    BY DEF IInv, Counted, SwapBatch
  <2>2. write_queue[s] \in Seq(RowSet)
    BY QueuedType, SeqMonotonic DEF IInv
  <2>3. QED
    BY <2>1, <2>2
<1>2. /\ tx' = tx /\ messages' = messages /\ appended' = appended /\ shared' = shared
      /\ batch'[s] = write_queue[s] /\ write_queue'[s] = <<>>
      /\ \A u \in Session \ {s} : batch'[u] = batch[u] /\ write_queue'[u] = write_queue[u]
  BY DEF IInv, TypeOK, SwapBatch, fileVars, histVars
<1>3. Queued(s)' = (<<>> \o write_queue[s]) \o <<>> /\ Queued(s) = (<<>> \o <<>>) \o write_queue[s]
  BY <1>1, <1>2 DEF Queued
<1>4. Queued(s)' = Queued(s)
  <2>1. <<>> \o <<>> = <<>> /\ <<>> \o write_queue[s] = write_queue[s]
        /\ write_queue[s] \o <<>> = write_queue[s]
    BY <1>1, ConcatEmptySeq
  <2>2. QED
    BY <1>3, <2>1
<1>5. \A u \in Session : Still(u)
  BY <1>2, <1>4, SameQueues DEF Still
<1>6. QED
  BY <1>2, <1>5, NoneSettled

LEMMA PrepareFailsSettles ==
    ASSUME IInv, NEW s \in Session \ shared, PrepareFails(s)
    PROVE  Settle(s, Len(batch[s]), FALSE)
<1> \A v \in Session : v \in Handle /\ SessionOf(v) = v
  BY Handles
<1> DEFINE b == batch[s]
           w == write_queue[s]
<1>1. /\ tx[s] = <<>> /\ b \in Seq(Entry(appended)) /\ w \in Seq(Entry(appended))
  BY QueuedType DEF IInv, PrepareFails
<1>2. /\ tx' = tx /\ messages' = messages /\ appended' = appended /\ shared' = shared
      /\ write_queue' = write_queue
      /\ batch'[s] = <<>> /\ \A u \in Session \ {s} : batch'[u] = batch[u]
  BY DEF IInv, TypeOK, PrepareFails, fileVars
<1>3. Queued(s) = (<<>> \o b) \o w /\ Queued(s)' = (<<>> \o <<>>) \o w
  BY <1>1, <1>2 DEF Queued
<1> HIDE DEF b, w
<1>4. Queued(s) = b \o w /\ Queued(s)' = w
  BY <1>1, <1>3, ConcatEmptySeq
<1>5. Rest(Queued(s), Len(b)) = w /\ Len(b) \in 0 .. Len(Queued(s))
  BY <1>1, <1>4, RestOfJoin
<1>6. \A u \in Session \ {s} : Still(u)
  BY <1>2, SameQueues
<1>7. QED
  BY <1>2, <1>4, <1>5, <1>6 DEF Settle, b

\* An INSERT that finds the file busy is the first of its transaction: once
\* one has succeeded the object holds the write lock.
LEMMA InsertSettles ==
    ASSUME IInv, OInv, NEW s \in Session \ shared, Insert(s)
    PROVE  Settle(s, 0, FALSE) \/ Settle(s, 1, FALSE)
<1> \A v \in Session : v \in Handle /\ SessionOf(v) = v
  BY Handles
<1> DEFINE t == tx[s]
           b == batch[s]
           w == write_queue[s]
<1>1. /\ t \in Seq(Entry(appended)) /\ b \in Seq(Entry(appended)) /\ w \in Seq(Entry(appended))
      /\ b # <<>>
  BY QueuedType DEF IInv, Insert
<1>2. /\ messages' = messages /\ appended' = appended /\ shared' = shared
      /\ write_queue' = write_queue /\ batch'[s] = Tail(b)
      /\ \A u \in Session \ {s} : batch'[u] = batch[u] /\ tx'[u] = tx[u]
  BY DEF IInv, TypeOK, Insert
<1>3. \A u \in Session \ {s} : Still(u)
  BY <1>2, SameQueues
<1>4. CASE writer \in {"none", s}
  <2>1. tx'[s] = Append(t, Head(b))
    BY <1>4 DEF IInv, TypeOK, Insert
  <2>2. Queued(s)' = (Append(t, Head(b)) \o Tail(b)) \o w /\ Queued(s) = (t \o b) \o w
    BY <1>2, <2>1 DEF Queued
  <2> HIDE DEF t, b, w
  <2>3. Append(t, Head(b)) \o Tail(b) = t \o b
    BY <1>1, MoveOne
  <2>4. \A u \in Session : Still(u)
    BY <1>2, <1>3, <2>2, <2>3 DEF Still
  <2>5. QED
    BY <1>2, <2>4, NoneSettled
<1>5. CASE writer \notin {"none", s}
  <2>1. t = <<>> /\ tx'[s] = <<>>
    BY <1>5 DEF OInv, Ordered, Insert
  <2>2. Queued(s)' = (<<>> \o Tail(b)) \o w /\ Queued(s) = (<<>> \o b) \o w
    BY <1>2, <2>1 DEF Queued
  <2> DEFINE e == <<Head(b)>>
  <2> HIDE DEF t, b, w
  <2>3. /\ Head(b) \in Entry(appended) /\ Tail(b) \in Seq(Entry(appended))
    BY <1>1, HeadTailProperties
  <2>4. e \in Seq(Entry(appended)) /\ Len(e) = 1
    BY <2>3
  <2>5. b = e \o Tail(b)
    <3>1. Append(<<>>, Head(b)) \o Tail(b) = <<>> \o b
      BY <1>1, MoveOne, EmptySeq
    <3>2. Append(<<>>, Head(b)) = e
      BY <2>3
    <3>3. <<>> \o b = b
      BY <1>1, ConcatEmptySeq
    <3>4. QED
      BY <3>1, <3>2, <3>3
  <2> HIDE DEF e
  <2> DEFINE v == Tail(b) \o w
  <2>6. v \in Seq(Entry(appended))
    BY <1>1, <2>3, ConcatProperties
  <2>7. Queued(s)' = v
    BY <2>2, <2>3, ConcatEmptySeq
  <2>8. Queued(s) = e \o v
    <3>1. <<>> \o b = b
      BY <1>1, ConcatEmptySeq
    <3>2. (e \o Tail(b)) \o w = e \o (Tail(b) \o w)
      <4> DEFINE l == Tail(b)
                 S == Entry(appended)
      <4>1. e \in Seq(S) /\ l \in Seq(S) /\ w \in Seq(S)
        BY <1>1, <2>3, <2>4
      <4> HIDE DEF l, S
      <4>2. (e \o l) \o w = e \o (l \o w)
        BY ONLY <4>1, ConcatAssociative
      <4>3. QED
        BY <4>2 DEF l
    <3>3. QED
      BY <2>2, <2>5, <3>1, <3>2
  <2> HIDE DEF v
  <2>9. Rest(Queued(s), 1) = v /\ 1 \in 0 .. Len(Queued(s))
    <3>1. Rest(e \o v, Len(e)) = v /\ Len(e) \in 0 .. Len(e \o v)
      BY <2>4, <2>6, RestOfJoin
    <3>2. QED
      BY <2>4, <2>8, <3>1
  <2>10. Settle(s, 1, FALSE)
    BY <1>2, <1>3, <2>7, <2>9 DEF Settle
  <2>11. QED
    BY <2>10
<1>6. QED
  BY <1>4, <1>5

LEMMA CommitSettles ==
    ASSUME IInv, NEW s \in Session \ shared, Commit(s)
    PROVE  Settle(s, Len(tx[s]), TRUE)
<1> \A v \in Session : v \in Handle /\ SessionOf(v) = v
  BY Handles
<1> DEFINE t == tx[s]
           w == write_queue[s]
<1>1. /\ batch[s] = <<>> /\ t \in Seq(Entry(appended)) /\ w \in Seq(Entry(appended))
  BY QueuedType DEF IInv, Commit
<1>2. /\ messages'[s] = messages[s] \cup Range(t) /\ appended' = appended /\ shared' = shared
      /\ write_queue' = write_queue /\ batch' = batch /\ tx'[s] = <<>>
      /\ \A u \in Session \ {s} : tx'[u] = tx[u] /\ messages'[u] = messages[u]
  BY DEF IInv, TypeOK, Commit
<1>3. Queued(s) = (t \o <<>>) \o w /\ Queued(s)' = (<<>> \o <<>>) \o w
  BY <1>1, <1>2 DEF Queued
<1> HIDE DEF t, w
<1>4. Queued(s) = t \o w /\ Queued(s)' = w
  BY <1>1, <1>3, ConcatEmptySeq
<1>5. /\ Rest(Queued(s), Len(t)) = w /\ Len(t) \in 0 .. Len(Queued(s))
      /\ SubSeq(Queued(s), 1, Len(t)) = t
  BY <1>1, <1>4, RestOfJoin, FrontOfJoin
<1>6. \A u \in Session \ {s} : Still(u)
  BY <1>2, SameQueues
<1>7. QED
  BY <1>2, <1>4, <1>5, <1>6 DEF Settle, t

LEMMA AppendQueues ==
    ASSUME IInv, NEW s \in Session \ shared, append(s)
    PROVE  /\ Queued(s)' = Append(Queued(s), [id |-> appended + 1, seq |-> global_seq[s] + 1])
           /\ [id |-> appended + 1, seq |-> global_seq[s] + 1] \in RowSet
           /\ appended' = appended + 1 /\ shared' = shared
           /\ messages' = messages /\ writer' = writer
           /\ life' = life /\ flusher' = flusher /\ tx' = tx
           /\ global_seq'[s] = global_seq[s] + 1
           /\ \A u \in Session \ {s} : Still(u) /\ global_seq'[u] = global_seq[u]
<1> \A v \in Session : v \in Handle /\ SessionOf(v) = v
  BY Handles
<1> DEFINE e == [id |-> appended + 1, seq |-> global_seq[s] + 1]
           w == write_queue[s]
           tb == tx[s] \o batch[s]
<1>1. /\ tx[s] \in Seq(Entry(appended)) /\ batch[s] \in Seq(Entry(appended))
      /\ w \in Seq(Entry(appended)) /\ Entry(appended) \subseteq RowSet
  BY QueuedType DEF IInv
<1>2. tb \in Seq(RowSet) /\ w \in Seq(RowSet)
  <2>1. tb \in Seq(Entry(appended))
    BY <1>1, ConcatProperties
  <2>2. QED
    BY <1>1, <2>1, SeqMonotonic
<1>3. appended \in Nat /\ global_seq[s] \in Nat
  BY DEF IInv, TypeOK
<1>4. e \in RowSet
  BY <1>3 DEF RowSet
<1>5. /\ appended' = appended + 1 /\ shared' = shared
      /\ messages' = messages /\ writer' = writer
      /\ life' = life /\ flusher' = flusher /\ tx' = tx /\ batch' = batch
      /\ global_seq'[s] = global_seq[s] + 1
      /\ \A u \in Session \ {s} : global_seq'[u] = global_seq[u] /\ write_queue'[u] = write_queue[u]
  BY DEF IInv, TypeOK, append, fileVars
<1>6. write_queue'[s] = Append(w, e)
  BY <1>5 DEF IInv, TypeOK, append
<1>7. Queued(s)' = tb \o Append(w, e) /\ Queued(s) = tb \o w
  BY <1>5, <1>6 DEF Queued
<1> HIDE DEF e, w, tb
<1>8. tb \o Append(w, e) = Append(tb \o w, e)
  BY ONLY <1>2, <1>4, JoinAppend
<1>9. \A u \in Session \ {s} : Still(u)
  BY <1>5, SameQueues
<1>10. QED
  BY <1>4, <1>5, <1>7, <1>8, <1>9 DEF e

LEMMA FrontOf ==
    ASSUME NEW S, NEW q \in Seq(S), NEW k \in 0 .. Len(q)
    PROVE  /\ SubSeq(q, 1, k) \in Seq(S) /\ Len(SubSeq(q, 1, k)) = k
           /\ \A i \in 1 .. k : i \in 1 .. Len(q) /\ SubSeq(q, 1, k)[i] = q[i]
<1>1. Len(q) \in Nat
  OBVIOUS
<1>2. \A i \in 1 .. k : i \in 1 .. Len(q)
  BY <1>1
<1>3. \A i \in 1 .. k : q[i] \in S
  BY <1>2, ElementOfSeq
<1>4. /\ SubSeq(q, 1, k) \in Seq(S)
      /\ Len(SubSeq(q, 1, k)) = IF 1 <= k THEN k - 1 + 1 ELSE 0
      /\ \A i \in 1 .. (k - 1 + 1) : SubSeq(q, 1, k)[i] = q[1 + i - 1]
  BY <1>1, <1>3, SubSeqProperties
<1>5. QED
  BY <1>1, <1>2, <1>4

\* What leaves the queue at the front is in order and behind all that is
\* stored; what remains is behind it.
LEMMA RisingFront ==
    ASSUME NEW M \in SUBSET RowSet, IsFiniteSet(M), NEW q \in Seq(RowSet), NEW n \in Nat,
           NEW k \in 0 .. Len(q), Rising(q, M, n)
    PROVE  LET f == SubSeq(q, 1, k)
           IN  /\ f \in Seq(RowSet)
               /\ \A i \in 1 .. Len(f), j \in 1 .. Len(f) : i < j => Before(f[i], f[j])
               /\ \A r \in M, i \in 1 .. Len(f) : Before(r, f[i])
               /\ Rising(Rest(q, k), M, n)
               /\ Rising(Rest(q, k), M \cup Range(f), n)
               /\ IsFiniteSet(M \cup Range(f))
               /\ \A r \in Range(f) : r.seq <= n
<1> DEFINE f == SubSeq(q, 1, k)
           l == Rest(q, k)
<1>1. /\ f \in Seq(RowSet) /\ Len(f) = k
      /\ \A i \in 1 .. k : i \in 1 .. Len(q) /\ f[i] = q[i]
  BY FrontOf
<1>2. /\ l \in Seq(RowSet) /\ Len(l) = Len(q) - k /\ Len(q) \in Nat
      /\ \A i \in 1 .. (Len(q) - k) : l[i] = q[k + i]
  BY RestOf
<1>3. Range(f) = {f[i] : i \in 1 .. k}
  BY <1>1, RangeEquality
<1> HIDE DEF f, l
<1>4. \A i, j \in 1 .. Len(q) : i < j => q[i].seq < q[j].seq
  BY DEF Rising
<1>5. \A i \in 1 .. Len(f), j \in 1 .. Len(f) : i < j => Before(f[i], f[j])
  BY <1>1, <1>4 DEF Before
<1>6. \A r \in M, i \in 1 .. Len(f) : Before(r, f[i])
  BY <1>1 DEF Before, Rising
<1>7. \A i \in 1 .. Len(l) : k + i \in 1 .. Len(q) /\ l[i] = q[k + i]
  BY <1>2
<1>8. Rising(l, M, n)
  <2>1. \A i \in 1 .. Len(l) : l[i].seq <= n
    BY <1>7 DEF Rising
  <2>2. ASSUME NEW i \in 1 .. Len(l), NEW j \in 1 .. Len(l), i < j
        PROVE  l[i].seq < l[j].seq
    <3>1. k + i < k + j
      BY <1>2, <2>2
    <3>2. QED
      BY <1>4, <1>7, <3>1
  <2>3. \A r \in M : \A i \in 1 .. Len(l) : r.seq < l[i].seq
    BY <1>7 DEF Rising
  <2>4. QED
    BY <2>1, <2>2, <2>3 DEF Rising
<1>9. \A r \in Range(f) : r.seq <= n /\ \A i \in 1 .. Len(l) : r.seq < l[i].seq
  <2> TAKE r \in Range(f)
  <2>1. PICK j \in 1 .. k : r = q[j] /\ j \in 1 .. Len(q)
    BY <1>1, <1>3
  <2>2. r.seq <= n
    BY <2>1 DEF Rising
  <2>3. ASSUME NEW i \in 1 .. Len(l) PROVE r.seq < l[i].seq
    <3>1. j < k + i
      BY <1>2, <2>1
    <3>2. QED
      BY <1>4, <1>7, <2>1, <3>1
  <2>4. QED
    BY <2>2, <2>3
<1>10. Rising(l, M \cup Range(f), n)
  BY <1>8, <1>9 DEF Rising
<1>11. IsFiniteSet(M \cup Range(f))
  BY <1>1, <1>5, <1>6, MoreRows
<1>12. QED
  BY <1>1, <1>5, <1>6, <1>8, <1>9, <1>10, <1>11 DEF f, l

-----------------------------------------------------------------------------
(* The order of the sequence numbers is kept.                              *)

LEMMA SettleOrdered ==
    ASSUME IInv, OInv, NEW s \in Session \ shared, NEW k, NEW stored \in BOOLEAN, Settle(s, k, stored)
    PROVE  /\ Rising(Queued(s)', messages'[s], global_seq[s])
           /\ IsFiniteSet(messages'[s])
           /\ life[s] # "closed" => \A r \in messages'[s] : r.seq <= global_seq[s]
<1> \A v \in Session : v \in Handle /\ SessionOf(v) = v
  BY Handles
<1> DEFINE f == SubSeq(Queued(s), 1, k)
<1>1. /\ messages[s] \in SUBSET RowSet /\ Queued(s) \in Seq(RowSet) /\ global_seq[s] \in Nat
  <2>1. global_seq[s] \in Nat
    BY DEF IInv, TypeOK
  <2>2. QED
    BY <2>1, QueuedType DEF IInv
<1>2. /\ Rising(Queued(s), messages[s], global_seq[s]) /\ IsFiniteSet(messages[s])
      /\ life[s] # "closed" => \A r \in messages[s] : r.seq <= global_seq[s]
  BY DEF OInv, Ordered
<1>3. k \in 0 .. Len(Queued(s)) /\ Queued(s)' = Rest(Queued(s), k)
      /\ messages'[s] \in {messages[s], messages[s] \cup Range(f)}
  BY DEF Settle
<1>4. /\ Rising(Rest(Queued(s), k), messages[s], global_seq[s])
      /\ Rising(Rest(Queued(s), k), messages[s] \cup Range(f), global_seq[s])
      /\ IsFiniteSet(messages[s] \cup Range(f))
      /\ \A r \in Range(f) : r.seq <= global_seq[s]
  BY <1>1, <1>2, <1>3, RisingFront
<1> HIDE DEF f
<1>5. QED
  BY <1>2, <1>3, <1>4

LEMMA BystanderOrdered ==
    ASSUME OInv, NEW u \in Session \ shared, Still(u), life'[u] = life[u],
           global_seq'[u] = global_seq[u], flusher'[u] = flusher[u], tx'[u] = tx[u],
           tx[u] # <<>> => writer' = writer
    PROVE  Ordered(u)'
BY DEF OInv, Ordered, Still

\* A step of session s that settles something and leaves the object open.
LEMMA OpenOrdered ==
    ASSUME IInv, OInv, NEW s \in Session \ shared, NEW k, NEW stored \in BOOLEAN, Settle(s, k, stored),
           life[s] # "closed", life' \in [Handle -> {"closed", "open", "closing"}],
           life'[s] # "closed", global_seq' = global_seq,
           tx'[s] # <<>> => writer' = s,
           \A u \in Session \ (shared \cup {s}) :
               /\ life'[u] = life[u] /\ flusher'[u] = flusher[u]
               /\ tx'[u] = tx[u] /\ (tx[u] # <<>> => writer' = writer)
    PROVE  OInv'
<1> \A v \in Session : v \in Handle /\ SessionOf(v) = v
  BY Handles
<1>1. Ordered(s)'
  BY SettleOrdered DEF Ordered
<1>2. \A u \in Session \ (shared \cup {s}) : Ordered(u)'
  BY BystanderOrdered DEF Settle
<1>3. QED
  BY <1>1, <1>2 DEF OInv, Settle

LEMMA OpenKeepsOrder ==
    ASSUME IInv, OInv, NEW s \in Session \ shared, Open(s)
    PROVE  OInv'
<1> \A v \in Session : v \in Handle /\ SessionOf(v) = v
  BY Handles
<1>1. Settle(s, 0, FALSE)
  BY OpenSettles
<1>2. \A r \in messages[s] : r.seq <= init_seq
  BY InitSeq DEF IInv
<1>3. /\ messages' = messages /\ tx' = tx /\ flusher' = flusher /\ writer' = writer
      /\ life'[s] = "open" /\ global_seq'[s] = init_seq /\ life[s] = "closed"
      /\ \A u \in Session \ {s} : life'[u] = life[u] /\ global_seq'[u] = global_seq[u]
  BY DEF IInv, TypeOK, Open, fileVars
<1>4. Queued(s) = <<>> /\ IsFiniteSet(messages[s]) /\ (tx[s] # <<>> => writer = s)
  BY <1>3 DEF OInv, Ordered
<1>5. Queued(s)' = <<>>
  BY <1>4 DEF Open, Queued, fileVars
<1>6. Rising(<<>>, messages[s], init_seq)
  BY DEF Rising
<1>7. Ordered(s)'
  BY <1>2, <1>3, <1>4, <1>5, <1>6 DEF Ordered
<1>8. \A u \in Session \ (shared \cup {s}) : Ordered(u)'
  BY <1>1, <1>3, BystanderOrdered DEF Settle
<1>9. QED
  BY <1>1, <1>7, <1>8 DEF OInv, Settle

LEMMA ClosedKeepsOrder ==
    ASSUME IInv, OInv, NEW s \in Session \ shared, Closed(s)
    PROVE  OInv'
<1> \A v \in Session : v \in Handle /\ SessionOf(v) = v
  BY Handles
<1>1. Settle(s, 0, FALSE)
  BY OpenSettles
<1>2. /\ messages' = messages /\ tx' = tx /\ flusher' = flusher /\ writer' = writer
      /\ batch' = batch /\ write_queue' = write_queue
      /\ life'[s] = "closed" /\ global_seq'[s] = 0 /\ flusher[s] = "loop" /\ write_queue[s] = <<>>
      /\ \A u \in Session \ {s} : life'[u] = life[u] /\ global_seq'[u] = global_seq[u]
  BY DEF IInv, TypeOK, Closed, fileVars
<1>3. tx[s] = <<>> /\ batch[s] = <<>>
  BY <1>2 DEF IInv, Counted
<1>4. Queued(s)' = (<<>> \o <<>>) \o <<>>
  BY <1>2, <1>3 DEF Queued
<1>5. <<>> \o <<>> = <<>>
  BY EmptySeq, ConcatEmptySeq
<1>6. Queued(s)' = <<>>
  BY <1>4, <1>5
<1>7. Rising(<<>>, messages[s], 0)
  BY DEF Rising
<1>8. Ordered(s)'
  BY <1>2, <1>3, <1>6, <1>7 DEF OInv, Ordered
<1>9. \A u \in Session \ (shared \cup {s}) : Ordered(u)'
  BY <1>1, <1>2, BystanderOrdered DEF Settle
<1>10. QED
  BY <1>1, <1>8, <1>9 DEF OInv, Settle

LEMMA AppendKeepsOrder ==
    ASSUME IInv, OInv, NEW s \in Session \ shared, append(s)
    PROVE  OInv'
<1> \A v \in Session : v \in Handle /\ SessionOf(v) = v
  BY Handles
<1> DEFINE q == Queued(s)
           e == [id |-> appended + 1, seq |-> global_seq[s] + 1]
<1>1. /\ q \in Seq(RowSet) /\ messages[s] \in SUBSET RowSet /\ global_seq[s] \in Nat /\ life[s] = "open"
  <2>1. global_seq[s] \in Nat
    BY DEF IInv, TypeOK
  <2>2. QED
    BY <2>1, QueuedType DEF IInv, append
<1>2. /\ Queued(s)' = Append(q, e) /\ e \in RowSet /\ messages' = messages /\ writer' = writer
      /\ life' = life /\ flusher' = flusher /\ tx' = tx
      /\ global_seq'[s] = global_seq[s] + 1 /\ shared' = shared
      /\ \A u \in Session \ {s} : Still(u) /\ global_seq'[u] = global_seq[u]
  BY AppendQueues
<1>3. /\ Rising(q, messages[s], global_seq[s]) /\ IsFiniteSet(messages[s])
      /\ \A r \in messages[s] : r.seq <= global_seq[s]
      /\ tx[s] # <<>> => writer = s
  BY <1>1 DEF OInv, Ordered
<1>4. e.seq = global_seq[s] + 1
  OBVIOUS
<1> HIDE DEF q, e
<1>5. /\ Append(q, e) \in Seq(RowSet) /\ Len(Append(q, e)) = Len(q) + 1 /\ Len(q) \in Nat
      /\ \A i \in 1 .. Len(q) : Append(q, e)[i] = q[i]
      /\ Append(q, e)[Len(q) + 1] = e
  BY <1>1, <1>2, AppendProperties
<1>6. \A i \in 1 .. Len(q) : q[i] \in RowSet /\ q[i].seq \in Nat
  <2>1. \A i \in 1 .. Len(q) : q[i] \in RowSet
    BY <1>1, ElementOfSeq
  <2>2. QED
    BY <2>1 DEF RowSet
<1>7. \A r \in messages[s] : r.seq \in Nat
  BY <1>1 DEF RowSet
<1>8. Rising(Append(q, e), messages[s], global_seq[s] + 1)
  <2> DEFINE w == Append(q, e)
             n == global_seq[s]
  <2> HIDE DEF w, n
  <2>1. /\ Len(w) = Len(q) + 1 /\ Len(q) \in Nat /\ n \in Nat
        /\ \A i \in 1 .. Len(q) : w[i] = q[i] /\ q[i].seq \in Nat /\ q[i].seq <= n
        /\ w[Len(q) + 1] = e /\ e.seq = n + 1
    BY <1>1, <1>3, <1>4, <1>5, <1>6 DEF w, n, Rising
  <2>2. \A i \in 1 .. Len(w) : i \in 1 .. Len(q) \/ i = Len(q) + 1
    BY <2>1
  <2>3. \A i \in 1 .. Len(w) : w[i].seq <= n + 1
    BY <2>1, <2>2
  <2>4. ASSUME NEW i \in 1 .. Len(w), NEW j \in 1 .. Len(w), i < j
        PROVE  w[i].seq < w[j].seq
    <3>1. i \in 1 .. Len(q)
      BY <2>1, <2>4
    <3>2. CASE j \in 1 .. Len(q)
      BY <1>3, <2>1, <2>4, <3>1, <3>2 DEF Rising
    <3>3. CASE j = Len(q) + 1
      <4>1. w[i].seq \in Nat /\ w[i].seq <= n /\ w[j].seq = n + 1
        BY <2>1, <3>1, <3>3
      <4>2. QED
        BY <2>1, <4>1
    <3>4. QED
      BY <2>2, <3>2, <3>3
  <2>5. ASSUME NEW r \in messages[s], NEW i \in 1 .. Len(w)
        PROVE  r.seq < w[i].seq
    <3>1. CASE i \in 1 .. Len(q)
      BY <1>3, <2>1, <3>1 DEF Rising
    <3>2. CASE i = Len(q) + 1
      <4>1. r.seq \in Nat /\ r.seq <= n /\ w[i].seq = n + 1
        BY <1>3, <1>7, <2>1, <3>2 DEF n
      <4>2. QED
        BY <2>1, <4>1
    <3>3. QED
      BY <2>2, <3>1, <3>2
  <2>6. QED
    BY <2>3, <2>4, <2>5 DEF Rising, w, n
<1>9. \A r \in messages[s] : r.seq <= global_seq[s] + 1
  BY <1>1, <1>3, <1>7
<1>10. Ordered(s)'
  BY <1>1, <1>2, <1>3, <1>8, <1>9 DEF Ordered
<1>11. \A u \in Session \ (shared \cup {s}) : Ordered(u)'
  BY <1>2, BystanderOrdered
<1>12. QED
  BY <1>2, <1>10, <1>11 DEF OInv

LEMMA SessionKeepsOrder ==
    ASSUME IInv, OInv, NEW s \in Session \ shared,
           Close(s) \/ FlushCall(s) \/ FlushStep(s) \/ CountDown(s) \/ SwapBatch(s) \/ PrepareFails(s)
    PROVE  OInv'
<1> \A v \in Session : v \in Handle /\ SessionOf(v) = v
  BY Handles
<1>1. \E k : Settle(s, k, FALSE)
  BY OpenSettles, SwapBatchSettles, PrepareFailsSettles
<1>2. /\ writer' = writer /\ tx' = tx /\ global_seq' = global_seq
      /\ life' \in [Handle -> {"closed", "open", "closing"}]
      /\ \A u \in Session \ {s} : life'[u] = life[u] /\ flusher'[u] = flusher[u]
      /\ life[s] # "closed" => life'[s] # "closed"
  BY DEF IInv, TypeOK, Close, FlushCall, FlushStep, CountDown, SwapBatch, PrepareFails,
         fileVars, objectVars
<1>3. tx[s] # <<>> => writer = s
  BY DEF OInv, Ordered
<1>4. CASE life[s] # "closed"
  BY <1>1, <1>2, <1>3, <1>4, OpenOrdered
<1>5. CASE life[s] = "closed"
  <2>1. flusher[s] = "loop"
    BY <1>5 DEF OInv, Ordered
  <2>2. FlushStep(s)
    BY <1>5, <2>1 DEF Close, FlushCall, CountDown, SwapBatch, PrepareFails
  <2>3. /\ write_queue' = write_queue /\ batch' = batch /\ messages' = messages
        /\ life' = life /\ flusher' = flusher /\ shared' = shared
    BY <2>2 DEF FlushStep, fileVars, objectVars, histVars
  <2>4. \A u \in Session \ shared : Ordered(u)'
    BY <1>2, <2>3, SameQueues, BystanderOrdered
  <2>5. QED
    BY <2>3, <2>4 DEF OInv
<1>6. QED
  BY <1>4, <1>5

LEMMA WritingKeepsOrder ==
    ASSUME IInv, OInv, NEW s \in Session \ shared, Insert(s) \/ Commit(s)
    PROVE  OInv'
<1> \A v \in Session : v \in Handle /\ SessionOf(v) = v
  BY Handles
<1>1. \E k : \E stored \in BOOLEAN : Settle(s, k, stored)
  BY InsertSettles, CommitSettles
<1>2. /\ flusher[s] = "inserting" /\ life' = life /\ global_seq' = global_seq
      /\ life \in [Handle -> {"closed", "open", "closing"}]
      /\ \A u \in Session \ {s} : tx'[u] = tx[u] /\ flusher'[u] = flusher[u]
  BY SMTT(30) DEF IInv, TypeOK, Insert, Commit
<1>3. life[s] # "closed"
  BY <1>2 DEF OInv, Ordered
<1>4. \A u \in Session \ shared : tx[u] # <<>> => writer = u
  BY DEF OInv, Ordered
<1>5. tx'[s] # <<>> => writer' = s
  BY <1>4 DEF IInv, TypeOK, Insert, Commit
<1>6. \A u \in Session \ (shared \cup {s}) : tx[u] # <<>> => writer' = writer
  BY <1>4, HistoryAssumption DEF Insert, Commit
<1>7. QED
  BY <1>1, <1>2, <1>3, <1>5, <1>6, OpenOrdered

\* A delete only takes rows.
LEMMA StmtKeepsOrder ==
    ASSUME IInv, OInv, NEW o \in Object, Call(o) \/ RunStmt(o)
    PROVE  /\ OInv'
           /\ \A u \in Session : Queued(u)' = Queued(u) /\ messages'[u] \subseteq messages[u]
           /\ appended' = appended /\ shared' = shared
<1>1. /\ writer' = writer /\ life' = life /\ global_seq' = global_seq /\ write_queue' = write_queue
      /\ batch' = batch /\ tx' = tx /\ flusher' = flusher /\ appended' = appended
      /\ shared' = shared
  BY DEF Call, RunStmt, fileVars, objectVars
<1>2. \A u \in Session : messages'[u] \subseteq messages[u]
  <2>1. CASE messages' = messages
    BY <2>1
  <2>2. CASE Effect(Head(job[o])) /\ job[o] # <<>>
    <3>1. job[o] \in Seq(Statement)
      BY DEF IInv, TypeOK
    <3>2. Head(job[o]) \in Statement
      BY <2>2, <3>1, HeadTailProperties
    <3>3. QED
      BY <2>2, <3>2, EffectOf DEF IInv
  <2>3. QED
    BY <2>1, <2>2 DEF Call, RunStmt, fileVars
<1>3. \A u \in Session : Queued(u)' = Queued(u)
  BY <1>1 DEF Queued
<1>4. ASSUME NEW u \in Session \ shared PROVE Ordered(u)'
  <2>1. Ordered(u)
    BY DEF OInv
  <2>2. IsFiniteSet(messages'[u])
    BY <1>2, <2>1, FS_Subset DEF Ordered
  <2>3. Rising(Queued(u), messages'[u], global_seq[u])
    BY <1>2, <2>1 DEF Ordered, Rising
  <2>4. QED
    BY <1>1, <1>2, <1>3, <2>1, <2>2, <2>3 DEF Ordered
<1>5. QED
  BY <1>1, <1>2, <1>3, <1>4 DEF OInv

LEMMA CrashKeepsOrder ==
    ASSUME IInv, OInv, Crash
    PROVE  /\ OInv'
           /\ \A u \in Session : Queued(u)' = <<>> /\ messages'[u] = messages[u]
           /\ appended' = appended /\ shared' = shared
<1>1. /\ messages' = messages /\ appended' = appended /\ shared' = shared
      /\ \A u \in Session : /\ tx'[u] = <<>> /\ batch'[u] = <<>> /\ write_queue'[u] = <<>>
                            /\ life'[u] = "closed" /\ flusher'[u] = "loop" /\ global_seq'[u] = 0
  BY Handles DEF Crash
<1>2. <<>> \o <<>> = <<>>
  BY EmptySeq, ConcatEmptySeq
<1>3. \A u \in Session : Queued(u)' = <<>>
  BY <1>1, <1>2 DEF Queued
<1>4. \A u \in Session \ shared : IsFiniteSet(messages[u])
  BY DEF OInv, Ordered
<1>5. \A u \in Session \ shared : Ordered(u)'
  BY <1>1, <1>3, <1>4 DEF Ordered, Rising
<1>6. QED
  BY <1>1, <1>3, <1>5 DEF OInv


LEMMA InitOInv == Init => OInv
<1> SUFFICES ASSUME Init, NEW s \in Session PROVE Ordered(s)
  BY DEF OInv
<1>1. /\ tx[s] = <<>> /\ batch[s] = <<>> /\ write_queue[s] = <<>> /\ messages[s] = {}
      /\ life[s] = "closed" /\ flusher[s] = "loop"
  BY Handles DEF Init
<1>2. <<>> \o <<>> = <<>>
  BY EmptySeq, ConcatEmptySeq
<1>3. Queued(s) = <<>>
  BY <1>1, <1>2 DEF Queued
<1>4. QED
  BY <1>1, <1>3, FS_EmptySet DEF Ordered, Rising

\* The steps of an object whose session is shared, or becomes so: no other
\* session notices.
LEMMA AsideKeepsOrder ==
    ASSUME IInv, OInv, NEW h \in Handle, h \notin Session \ shared,
           \/ Open(h) \/ Close(h) \/ Closed(h)
           \/ append(h) \/ FlushCall(h) \/ FlushStep(h)
           \/ FlusherStep(h) \/ PrepareFails(h)
    PROVE  /\ OInv'
           /\ \A u \in Session \ shared' : Still(u)
           /\ SessionOf(h) \in shared' \/ FlushStep(h)
           /\ shared' = shared \/ (Open(h) /\ shared' = shared \cup {SessionOf(h)})
           /\ appended' = appended \/ (append(h) /\ appended' = appended + 1)
<1> DEFINE E == Session \ shared'
<1>1. /\ shared' = shared \/ (Open(h) /\ shared' = shared \cup {SessionOf(h)})
      /\ appended' = appended \/ (append(h) /\ appended' = appended + 1)
  BY Handles DEF Open, Close, Closed, append, FlushCall, FlushStep, FlusherStep, SwapBatch,
                 Insert, Commit, CountDown, PrepareFails, histVars
<1>2. SessionOf(h) \in shared' \/ FlushStep(h)
  <2>1. CASE h \in Session
    BY <1>1, <2>1, Handles
  <2>2. CASE h \in Twin
    <3>1. CASE Open(h)
      BY <2>2, <3>1, Handles DEF Open
    <3>2. CASE ~ Open(h) /\ ~ FlushStep(h)
      <4>1. life[h] # "closed" \/ flusher[h] # "loop"
        BY <3>2 DEF Close, Closed, append, FlushCall, FlusherStep, SwapBatch, Insert, Commit,
                    CountDown, PrepareFails
      <4>2. TwinOf[h] \in shared
        BY <2>2, <4>1 DEF IInv, Alone
      <4>3. QED
        BY <1>1, <2>2, <4>2, Handles
    <3>3. QED
      BY <3>1, <3>2
  <2>3. QED
    BY <2>1, <2>2 DEF Handle
<1>3. ASSUME NEW u \in E
      PROVE  Still(u) /\ Ordered(u)'
  <2>1. u \in Session \ shared /\ u \in Handle /\ u # h /\ u # "none" /\ Ordered(u)
    BY <1>1, Handles, HistoryAssumption DEF OInv
  <2>2. /\ life'[u] = life[u] /\ global_seq'[u] = global_seq[u] /\ flusher'[u] = flusher[u]
        /\ tx'[u] = tx[u] /\ batch'[u] = batch[u] /\ write_queue'[u] = write_queue[u]
    <3>1. CASE Open(h) \/ Close(h) \/ Closed(h) \/ append(h)
      BY <2>1, <3>1 DEF IInv, TypeOK, Open, Close, Closed, append
    <3>2. CASE FlushCall(h) \/ FlushStep(h)
      BY <3>2 DEF FlushCall, FlushStep, objectVars
    <3>3. CASE FlusherStep(h) \/ PrepareFails(h)
      BY <2>1, <3>3 DEF IInv, TypeOK, FlusherStep, SwapBatch, Insert, Commit, CountDown,
                        PrepareFails
    <3>4. QED
      BY <3>1, <3>2, <3>3
  <2>3. messages'[u] = messages[u]
    <3>1. CASE Commit(h)
      <4>1. ~ FlushStep(h)
        BY <3>1 DEF IInv, TypeOK, Commit, FlushStep, objectVars
      <4>2. u # SessionOf(h)
        BY <1>2, <4>1
      <4>3. QED
        BY <2>1, <3>1, <4>2, Handles DEF IInv, TypeOK, Commit
    <3>2. CASE ~ Commit(h)
      BY <3>2 DEF Open, Close, Closed, append, FlushCall, FlushStep, FlusherStep, SwapBatch,
                  Insert, CountDown, PrepareFails, fileVars
    <3>3. QED
      BY <3>1, <3>2
  <2>4. tx[u] # <<>> => writer' = writer
    <3>1. CASE Commit(h) \/ Insert(h)
      BY <2>1, <3>1 DEF Ordered, Commit, Insert
    <3>2. CASE ~ (Commit(h) \/ Insert(h))
      BY <3>2 DEF Open, Close, Closed, append, FlushCall, FlushStep, FlusherStep, SwapBatch,
                  CountDown, PrepareFails, fileVars
    <3>3. QED
      BY <3>1, <3>2
  <2>5. Still(u)
    BY <2>1, <2>2, <2>3, SameQueues
  <2>6. QED
    BY <2>1, <2>2, <2>4, <2>5, BystanderOrdered
<1>4. QED
  BY <1>1, <1>2, <1>3 DEF OInv

LEMMA NextOInv == IInv /\ OInv /\ [Next]_vars => OInv'
<1> SUFFICES ASSUME IInv, OInv, [Next]_vars PROVE OInv'
  OBVIOUS
<1>1. ASSUME NEW s \in Handle,
             \/ Open(s) \/ Close(s) \/ Closed(s)
             \/ append(s) \/ FlushCall(s) \/ FlushStep(s)
             \/ FlusherStep(s) \/ PrepareFails(s)
      PROVE  OInv'
  <2>1. CASE s \in Session \ shared
    BY <1>1, <2>1, OpenKeepsOrder, ClosedKeepsOrder, AppendKeepsOrder, SessionKeepsOrder,
       WritingKeepsOrder DEF FlusherStep
  <2>2. CASE s \notin Session \ shared
    BY <1>1, <2>2, AsideKeepsOrder
  <2>3. QED
    BY <2>1, <2>2
<1>2. ASSUME NEW o \in Object, Call(o) \/ RunStmt(o)
      PROVE  OInv'
  BY <1>2, StmtKeepsOrder
<1>3. CASE Crash
  BY <1>3, CrashKeepsOrder
<1>4. CASE UNCHANGED vars
  BY <1>4 DEF OInv, Ordered, Queued, vars, fileVars, objectVars,
                    histVars
<1>5. QED
  BY <1>1, <1>2, <1>3, <1>4 DEF Next

\* next_seq and init_seq: at every moment, over any number of objects opened
\* one after the other on a session, what it has queued carries numbers in
\* the order of the appends, all higher than the numbers stored. A session
\* that has had two objects at once is excepted: its numbers collide
\* (StrictlyOrdered of HistoryDB, which TLC violates).
THEOREM NumbersInOrder == Spec => []OInv
<1>1. QED
  BY Invariance, InitOInv, NextOInv, PTL DEF Spec

-----------------------------------------------------------------------------
(* The refinement: every step is a step of DurableLog or leaves it alone.  *)

LEMMA IdsOfRest ==
    ASSUME NEW q \in Seq(RowSet), NEW k \in 0 .. Len(q)
    PROVE  /\ IdsInOrder(Rest(q, k)) = SubSeq(IdsInOrder(q), k + 1, Len(IdsInOrder(q)))
           /\ IdsInOrder(SubSeq(q, 1, k)) = SubSeq(IdsInOrder(q), 1, k)
<1> DEFINE p == IdsInOrder(q)
           r == Rest(q, k)
           f == SubSeq(q, 1, k)
<1>1. /\ p \in Seq(Nat) /\ Len(p) = Len(q) /\ Len(q) \in Nat
      /\ \A i \in 1 .. Len(q) : p[i] = q[i].id
  BY IdsInOrderType
<1>2. /\ r \in Seq(RowSet) /\ Len(r) = Len(q) - k
      /\ \A i \in 1 .. (Len(q) - k) : r[i] = q[k + i]
  BY RestOf
<1>3. /\ f \in Seq(RowSet) /\ Len(f) = k
      /\ \A i \in 1 .. k : i \in 1 .. Len(q) /\ f[i] = q[i]
  BY FrontOf
<1> HIDE DEF p, r, f
<1>4. /\ Rest(p, k) \in Seq(Nat) /\ Len(Rest(p, k)) = Len(q) - k
      /\ \A i \in 1 .. (Len(q) - k) : Rest(p, k)[i] = p[k + i]
  <2>1. k \in 0 .. Len(p)
    BY <1>1
  <2>2. /\ Rest(p, k) \in Seq(Nat) /\ Len(Rest(p, k)) = Len(p) - k
        /\ \A i \in 1 .. (Len(p) - k) : Rest(p, k)[i] = p[k + i]
    BY <1>1, <2>1, RestOf
  <2>3. QED
    BY <1>1, <2>2
<1>5. /\ SubSeq(p, 1, k) \in Seq(Nat) /\ Len(SubSeq(p, 1, k)) = k
      /\ \A i \in 1 .. k : SubSeq(p, 1, k)[i] = p[i]
  BY <1>1, FrontOf
<1>6. /\ IdsInOrder(r) \in Seq(Nat) /\ Len(IdsInOrder(r)) = Len(q) - k
      /\ \A i \in 1 .. (Len(q) - k) : IdsInOrder(r)[i] = r[i].id
  BY <1>2, IdsInOrderType
<1>7. /\ IdsInOrder(f) \in Seq(Nat) /\ Len(IdsInOrder(f)) = k
      /\ \A i \in 1 .. k : IdsInOrder(f)[i] = f[i].id
  BY <1>3, IdsInOrderType
<1>8. IdsInOrder(r) = Rest(p, k)
  <2>1. \A i \in 1 .. (Len(q) - k) : k + i \in 1 .. Len(q)
    BY <1>1
  <2>2. \A i \in 1 .. (Len(q) - k) : IdsInOrder(r)[i] = Rest(p, k)[i]
    BY <1>1, <1>2, <1>4, <1>6, <2>1
  <2>3. QED
    BY <1>4, <1>6, <2>2, SeqEqual
<1>9. IdsInOrder(f) = SubSeq(p, 1, k)
  <2>1. \A i \in 1 .. k : IdsInOrder(f)[i] = SubSeq(p, 1, k)[i]
    BY <1>1, <1>3, <1>5, <1>7
  <2>2. QED
    BY <1>5, <1>7, <2>1, SeqEqual
<1>10. QED
  BY <1>8, <1>9 DEF p, r, f, Rest

LEMMA IdsOfAppend ==
    ASSUME NEW q \in Seq(RowSet), NEW e \in RowSet
    PROVE  IdsInOrder(Append(q, e)) = Append(IdsInOrder(q), e.id)
<1> DEFINE p == IdsInOrder(q)
           w == Append(q, e)
           v == Append(p, e.id)
<1>1. /\ p \in Seq(Nat) /\ Len(p) = Len(q) /\ Len(q) \in Nat
      /\ \A i \in 1 .. Len(q) : p[i] = q[i].id
  BY IdsInOrderType
<1>2. e.id \in Nat
  BY DEF RowSet
<1>3. /\ w \in Seq(RowSet) /\ Len(w) = Len(q) + 1
      /\ \A i \in 1 .. Len(q) : w[i] = q[i]
      /\ w[Len(q) + 1] = e
  BY AppendProperties
<1> HIDE DEF p, w
<1>4. /\ v \in Seq(Nat) /\ Len(v) = Len(q) + 1
      /\ \A i \in 1 .. Len(q) : v[i] = p[i]
      /\ v[Len(q) + 1] = e.id
  BY <1>1, <1>2, AppendProperties
<1>5. /\ IdsInOrder(w) \in Seq(Nat) /\ Len(IdsInOrder(w)) = Len(q) + 1
      /\ \A i \in 1 .. (Len(q) + 1) : IdsInOrder(w)[i] = w[i].id
  BY <1>3, IdsInOrderType
<1> HIDE DEF v
<1>6. \A i \in 1 .. (Len(q) + 1) : i \in 1 .. Len(q) \/ i = Len(q) + 1
  BY <1>1
<1>7. \A i \in 1 .. (Len(q) + 1) : IdsInOrder(w)[i] = v[i]
  BY <1>1, <1>3, <1>4, <1>5, <1>6
<1>8. IdsInOrder(w) = v
  BY <1>4, <1>5, <1>7, SeqEqual
<1>9. QED
  BY <1>8 DEF p, w, v


\* The log and the pending list of a session depend on its rows and queues.
LEMMA StillSame ==
    ASSUME NEW u \in Session, Still(u) \/ u \in shared, u \in shared' <=> u \in shared
    PROVE  LogOf(u)' = LogOf(u) /\ PendOf(u)' = PendOf(u)
BY DEF Still, LogOf, PendOf, load_session, PendingIds

LEMMA NothingSettled ==
    ASSUME \A u \in Session \ shared : Still(u), shared' = shared
    PROVE  /\ \A u \in Session : LogOf(u)' = LogOf(u) /\ PendOf(u)' = PendOf(u)
           /\ appended' = appended => UNCHANGED Log!logVars
<1>1. \A u \in Session : LogOf(u)' = LogOf(u) /\ PendOf(u)' = PendOf(u)
  BY StillSame
<1>2. QED
  BY <1>1 DEF Log!logVars

\* Settling none is no step of the log, storing some is Store, giving some up
\* is Drop.
LEMMA SettleRefines ==
    ASSUME IInv, OInv, NEW s \in Session \ shared, NEW k, NEW stored \in BOOLEAN, Settle(s, k, stored)
    PROVE  [Log!LogNext]_(Log!logVars)
<1> DEFINE q == Queued(s)
           f == SubSeq(q, 1, k)
           M == messages[s]
<1>1. /\ q \in Seq(RowSet) /\ M \in SUBSET RowSet /\ global_seq[s] \in Nat
  <2>1. global_seq[s] \in Nat
    BY Handles DEF IInv, TypeOK
  <2>2. QED
    BY <2>1, QueuedType DEF IInv
<1>2. /\ k \in 0 .. Len(q) /\ Queued(s)' = Rest(q, k)
      /\ appended' = appended /\ shared' = shared
      /\ messages'[s] = IF stored THEN M \cup Range(f) ELSE M
      /\ \A u \in Session \ {s} : Still(u)
  BY DEF Settle
<1>3. Rising(q, M, global_seq[s]) /\ IsFiniteSet(M)
  BY DEF OInv, Ordered
<1>4. /\ PendOf(s) = IdsInOrder(q) /\ PendOf(s)' = IdsInOrder(Queued(s)')
      /\ LogOf(s) = OrderBySeq(M) /\ LogOf(s)' = OrderBySeq(messages'[s])
  BY <1>2 DEF PendOf, PendingIds, IdsInOrder, LogOf, load_session
<1> HIDE DEF q, f, M
<1>5. /\ PendOf(s)' = SubSeq(PendOf(s), k + 1, Len(PendOf(s)))
      /\ IdsInOrder(f) = SubSeq(PendOf(s), 1, k) /\ Len(PendOf(s)) = Len(q)
      /\ Len(q) \in Nat
  BY <1>1, <1>2, <1>4, IdsOfRest, IdsInOrderType DEF f
<1>6. OrderBySeq(M \cup Range(f)) = OrderBySeq(M) \o IdsInOrder(f)
  <2>1. /\ f \in Seq(RowSet)
        /\ \A i \in 1 .. Len(f), j \in 1 .. Len(f) : i < j => Before(f[i], f[j])
        /\ \A r \in M, i \in 1 .. Len(f) : Before(r, f[i])
    BY <1>1, <1>2, <1>3, RisingFront DEF f
  <2>2. QED
    BY <1>1, <1>3, <2>1, MoreRows
<1>7. \A u \in Session \ {s} : LogOf(u)' = LogOf(u) /\ PendOf(u)' = PendOf(u)
  BY <1>2, StillSame
<1>8. CASE k = 0
  <2>1. /\ SubSeq(PendOf(s), 1, 0) = <<>> /\ IdsInOrder(q) \in Seq(Nat)
        /\ SubSeq(PendOf(s), 1, Len(PendOf(s))) = PendOf(s)
        /\ OrderBySeq(M) \in Seq(Nat)
    BY <1>1, <1>3, <1>4, IdsInOrderType, OrderBySeqType, SubSeqFull, SubSeqEmpty
  <2>2. PendOf(s)' = PendOf(s)
    BY <1>5, <1>8, <2>1
  <2>3. OrderBySeq(M) \o <<>> = OrderBySeq(M)
    BY <2>1, ConcatEmptySeq
  <2>4. LogOf(s)' = LogOf(s)
    BY <1>2, <1>4, <1>5, <1>6, <1>8, <2>1, <2>3
  <2>5. \A u \in Session : LogOf(u)' = LogOf(u) /\ PendOf(u)' = PendOf(u)
    BY <1>7, <2>2, <2>4
  <2>6. QED
    BY <1>2, <2>5 DEF Log!logVars
<1>9. CASE k # 0
  <2>1. k \in 1 .. Len(PendOf(s))
    BY <1>2, <1>5, <1>9
  <2>2. CASE stored
    <3>1. LogOf(s)' = LogOf(s) \o SubSeq(PendOf(s), 1, k)
      BY <1>2, <1>4, <1>5, <1>6, <2>2
    <3>2. Log!Store(s)
      BY <1>2, <1>5, <1>7, <2>1, <3>1 DEF Log!Store
    <3>3. QED
      BY <3>2 DEF Log!LogNext
  <2>3. CASE ~ stored
    <3>1. LogOf(s)' = LogOf(s)
      BY <1>2, <1>4, <2>3
    <3>2. Log!Drop(s)
      BY <1>2, <1>5, <1>7, <2>1, <3>1 DEF Log!Drop
    <3>3. QED
      BY <3>2 DEF Log!LogNext
  <2>4. QED
    BY <2>2, <2>3
<1>10. QED
  BY <1>8, <1>9

LEMMA AppendRefines ==
    ASSUME IInv, NEW s \in Session \ shared, append(s)
    PROVE  Log!LogNext
<1> DEFINE q == Queued(s)
           e == [id |-> appended + 1, seq |-> global_seq[s] + 1]
<1>1. q \in Seq(RowSet)
  BY QueuedType DEF IInv
<1>2. /\ Queued(s)' = Append(q, e) /\ e \in RowSet /\ appended' = appended + 1
      /\ shared' = shared
      /\ messages' = messages /\ \A u \in Session \ {s} : Still(u)
  BY AppendQueues
<1>3. e.id = appended'
  BY <1>2
<1>4. /\ PendOf(s) = IdsInOrder(q) /\ PendOf(s)' = IdsInOrder(Queued(s)')
  BY <1>2 DEF PendOf, PendingIds, IdsInOrder
<1> HIDE DEF q, e
<1>5. PendOf(s)' = Append(PendOf(s), appended')
  BY <1>1, <1>2, <1>3, <1>4, IdsOfAppend
<1>6. \A u \in Session \ {s} : PendOf(u)' = PendOf(u)
  BY <1>2, StillSame
<1>7. \A u \in Session : LogOf(u)' = LogOf(u)
  BY <1>2 DEF LogOf, load_session
<1>8. Log!AppendMessage(s)
  BY <1>2, <1>5, <1>6, <1>7 DEF Log!AppendMessage
<1>9. QED
  BY <1>8 DEF Log!LogNext

LEMMA StmtRefines ==
    ASSUME IInv, OInv, NEW o \in Object, Call(o) \/ RunStmt(o)
    PROVE  Log!LogNext
<1>1. /\ \A u \in Session : Queued(u)' = Queued(u) /\ messages'[u] \subseteq messages[u]
      /\ appended' = appended /\ shared' = shared
  BY StmtKeepsOrder
<1>2. \A u \in Session : PendOf(u)' = PendOf(u)
  BY <1>1 DEF PendOf, PendingIds
<1>3. ASSUME NEW u \in Session
      PROVE  Log!Thinned(LogOf(u)', LogOf(u))
  <2>1. CASE u \notin shared
    <3>1. messages[u] \in SUBSET RowSet /\ IsFiniteSet(messages[u])
      BY <2>1, QueuedType DEF IInv, OInv, Ordered
    <3>2. LogOf(u) = OrderBySeq(messages[u]) /\ LogOf(u)' = OrderBySeq(messages'[u])
      BY <1>1, <2>1 DEF LogOf, load_session
    <3>3. QED
      BY <1>1, <3>1, <3>2, FewerRows
  <2>2. CASE u \in shared
    <3>1. LogOf(u) = <<>> /\ LogOf(u)' = <<>>
      BY <1>1, <2>2 DEF LogOf
    <3>2. Log!Thinned(<<>>, <<>>)
      <4>1. Len(<<>>) = 0 /\ 1 .. Len(<<>>) = {}
        OBVIOUS
      <4>2. [i \in 1 .. Len(<<>>) |-> i] \in [1 .. Len(<<>>) -> 1 .. Len(<<>>)]
        OBVIOUS
      <4>3. QED
        BY <4>1, <4>2 DEF Log!Thinned
    <3>3. QED
      BY <3>1, <3>2
  <2>3. QED
    BY <2>1, <2>2
<1>4. Log!Erase
  BY <1>1, <1>2, <1>3 DEF Log!Erase
<1>5. QED
  BY <1>4 DEF Log!LogNext

LEMMA CrashRefines ==
    ASSUME IInv, OInv, Crash
    PROVE  Log!LogNext
<1>1. /\ \A u \in Session : Queued(u)' = <<>> /\ messages'[u] = messages[u]
      /\ appended' = appended /\ shared' = shared
  BY CrashKeepsOrder
<1>2. \A u \in Session : PendOf(u)' = <<>> /\ LogOf(u)' = LogOf(u)
  BY <1>1 DEF PendOf, PendingIds, LogOf, load_session
<1>3. Log!LosePending
  BY <1>1, <1>2 DEF Log!LosePending
<1>4. QED
  BY <1>3 DEF Log!LogNext

LEMMA InitRefines == Init => Log!LogInit
<1> SUFFICES ASSUME Init PROVE Log!LogInit
  OBVIOUS
<1>1. \A s \in Session : PendOf(s) = <<>>
  <2> TAKE s \in Session
  <2>1. tx[s] = <<>> /\ batch[s] = <<>> /\ write_queue[s] = <<>>
    BY Handles DEF Init
  <2>2. <<>> \o <<>> = <<>>
    BY EmptySeq, ConcatEmptySeq
  <2>3. Queued(s) = <<>>
    BY <2>1, <2>2 DEF Queued
  <2>4. QED
    BY <2>3 DEF PendOf, PendingIds
<1>2. \A s \in Session : LogOf(s) = <<>>
  <2> TAKE s \in Session
  <2>1. Cardinality({}) = 0 /\ messages[s] = {}
    BY FS_EmptySet DEF Init
  <2>2. QED
    BY <2>1 DEF LogOf, load_session, OrderBySeq
<1>3. appended = 0 /\ shared = {}
  BY DEF Init
<1>4. QED
  BY <1>1, <1>2, <1>3 DEF Log!LogInit

\* A second object, or a step of an object whose session is shared.
LEMMA AsideRefines ==
    ASSUME IInv, OInv, NEW h \in Handle, h \notin Session \ shared,
           \/ Open(h) \/ Close(h) \/ Closed(h)
           \/ append(h) \/ FlushCall(h) \/ FlushStep(h)
           \/ FlusherStep(h) \/ PrepareFails(h)
    PROVE  [Log!LogNext]_(Log!logVars)
<1>1. /\ \A u \in Session \ shared' : Still(u)
      /\ SessionOf(h) \in shared' \/ FlushStep(h)
      /\ shared' = shared \/ (Open(h) /\ shared' = shared \cup {SessionOf(h)})
      /\ appended' = appended \/ (append(h) /\ appended' = appended + 1)
  BY AsideKeepsOrder
<1>2. CASE shared' = shared /\ appended' = appended
  BY <1>1, <1>2, NothingSettled
<1>3. CASE shared' = shared /\ append(h) /\ appended' = appended + 1
  <2>1. ~ FlushStep(h)
    BY <1>3 DEF IInv, TypeOK, append, FlushStep, histVars
  <2>2. shared # {}
    BY <1>1, <1>3, <2>1
  <2>3. \A u \in Session : LogOf(u)' = LogOf(u) /\ PendOf(u)' = PendOf(u)
    BY <1>1, <1>3, NothingSettled
  <2>4. Log!AppendShared
    BY <1>3, <2>2, <2>3 DEF Log!AppendShared
  <2>5. QED
    BY <2>4 DEF Log!LogNext
<1>4. CASE Open(h) /\ shared' = shared \cup {SessionOf(h)}
  <2> DEFINE z == SessionOf(h)
  <2>1. z \in Session /\ z \in shared' /\ appended' = appended
    BY <1>4, Handles DEF Open
  <2>2. LogOf(z)' = <<>> /\ PendOf(z)' = <<>>
    BY <2>1 DEF LogOf, PendOf
  <2>3. \A u \in Session \ {z} : LogOf(u)' = LogOf(u) /\ PendOf(u)' = PendOf(u)
    BY <1>1, <1>4, StillSame
  <2> HIDE DEF z
  <2>4. Log!Share(z)
    BY <1>4, <2>1, <2>2, <2>3 DEF Log!Share, z
  <2>5. QED
    BY <2>1, <2>4 DEF Log!LogNext
<1>5. QED
  BY <1>1, <1>2, <1>3, <1>4 DEF Open

LEMMA NextRefines == IInv /\ OInv /\ [Next]_vars => [Log!LogNext]_(Log!logVars)
<1> SUFFICES ASSUME IInv, OInv, [Next]_vars PROVE [Log!LogNext]_(Log!logVars)
  OBVIOUS
<1>1. ASSUME NEW s \in Handle,
             \/ Open(s) \/ Close(s) \/ Closed(s)
             \/ append(s) \/ FlushCall(s) \/ FlushStep(s)
             \/ FlusherStep(s) \/ PrepareFails(s)
      PROVE  [Log!LogNext]_(Log!logVars)
  <2>1. CASE s \in Session \ shared /\ append(s)
    BY <2>1, AppendRefines
  <2>2. CASE s \in Session \ shared /\ ~ append(s)
    <3>1. \E k : \E stored \in BOOLEAN : Settle(s, k, stored)
      BY <1>1, <2>2, OpenSettles, SwapBatchSettles, PrepareFailsSettles, InsertSettles,
         CommitSettles DEF FlusherStep
    <3>2. QED
      BY <2>2, <3>1, SettleRefines
  <2>3. CASE s \notin Session \ shared
    BY <1>1, <2>3, AsideRefines
  <2>4. QED
    BY <2>1, <2>2, <2>3
<1>2. ASSUME NEW o \in Object, Call(o) \/ RunStmt(o)
      PROVE  Log!LogNext
  BY <1>2, StmtRefines
<1>3. CASE Crash
  BY <1>3, CrashRefines
<1>4. CASE UNCHANGED vars
  <2>1. (\A u \in Session : Still(u)) /\ appended' = appended /\ shared' = shared
    BY <1>4 DEF Still, Queued, vars, fileVars, objectVars, histVars
  <2>2. QED
    BY <2>1, NothingSettled
<1>5. QED
  BY <1>1, <1>2, <1>3, <1>4 DEF Next

\* HistoryDB is a durable log: whatever the queues, the batches, the failed
\* inserts, the deletes, the closings, the crashes and the re-openings do,
\* load_session returns the messages in the order they were appended, each
\* stored behind all that was stored before it, and an append is pending
\* until it is stored, given up or lost in a crash. This is said of a session
\* up to the moment it has two objects at once (DurableLog's Share).
THEOREM ImplementsLog == Spec => LogSpec
<1>1. QED
  BY Invariance, NumbersInOrder, InitRefines, NextRefines, PTL DEF Spec, LogSpec, Log!LogSpec
=============================================================================
