-------------------------- MODULE SafeChangeProofs --------------------------
(***************************************************************************)
(* Proofs about SafeChange and the policy engine under it, for any files,  *)
(* diffs, threads and requests, any number of commands, faults, edits and  *)
(* crashes.                                                                *)
(***************************************************************************)
EXTENDS SafeChange, FiniteSetTheorems, SequenceTheorems, TLAPS

-----------------------------------------------------------------------------
(* The one-time approvals.                                                 *)

Granted(print) == {g \in grants : g.print = print}
Approved(print) == {a \in approvals : a.print = print}

\* An id stands for one request, which is pending or was approved at most
\* once; a grant is numbered by the ones before it.
Numbered ==
    /\ asks \in Nat
    /\ \A r \in pending_ : r.permission_id \in Nat /\ r.permission_id < asks
    /\ \A r, q \in pending_ : r.permission_id = q.permission_id => r = q
    /\ \A r \in pending_, a \in approvals : r.permission_id # a.id
    /\ \A a \in approvals : a.id \in Nat /\ a.id < asks
    /\ IsFiniteSet(grants) /\ IsFiniteSet(approvals)
    /\ \A g \in grants : g.n \in Nat /\ g.n < Cardinality(grants)

\* An approval that can still be spent has not been spent.
Unspent ==
    /\ \A print \in approved_once_ : Cardinality(Granted(print)) < Cardinality(Approved(print))
    /\ \A print \in {g.print : g \in grants} :
          Cardinality(Granted(print)) <= Cardinality(Approved(print))

PolicyInv == Numbered /\ Unspent

\* Both histories stay finite, and so do their parts.
LEMMA HistoryFinite ==
    ASSUME Numbered, NEW print
    PROVE  /\ IsFiniteSet(Granted(print)) /\ Cardinality(Granted(print)) \in Nat
           /\ IsFiniteSet(Approved(print)) /\ Cardinality(Approved(print)) \in Nat
  BY FS_Subset, FS_CardinalityType DEF Numbered, Granted, Approved

\* A fingerprint that was never let through has spent nothing.
LEMMA NothingSpent ==
    ASSUME Numbered, NEW print, print \notin {g.print : g \in grants}
    PROVE  Cardinality(Granted(print)) <= Cardinality(Approved(print))
  <1>1. Granted(print) = {}
    BY DEF Granted
  <1>2. QED
    BY <1>1, FS_EmptySet, HistoryFinite

\* ask(): an approval is taken out with the call it lets through.
LEMMA AllowedPolicy ==
    ASSUME PolicyInv, NEW tool, NEW print, Allowed(tool, print)
    PROVE  PolicyInv'
  <1>1. CASE UNCHANGED <<approved_once_, grants>>
    BY <1>1 DEF Allowed, PolicyInv, Numbered, Unspent, Granted, Approved
  <1>2. CASE /\ print \in approved_once_ /\ approved_once_' = approved_once_ \ {print}
             /\ grants' = grants \cup {[n |-> Cardinality(grants), print |-> print]}
    <2> DEFINE new == [n |-> Cardinality(grants), print |-> print]
    <2>1. UNCHANGED <<session_allow_, pending_, asks, approvals>>
      BY DEF Allowed
    <2>2. Cardinality(grants) \in Nat /\ new \notin grants
      BY FS_CardinalityType DEF PolicyInv, Numbered
    <2>3. IsFiniteSet(grants') /\ Cardinality(grants') = Cardinality(grants) + 1
      BY <1>2, <2>2, FS_AddElement DEF PolicyInv, Numbered
    <2>4. Numbered'
      <3>1. \A g \in grants' : g.n \in Nat /\ g.n < Cardinality(grants')
        <4> TAKE g \in grants'
        <4>1. CASE g = new
          BY <2>2, <2>3, <4>1
        <4>2. CASE g \in grants
          BY <2>2, <2>3, <4>2 DEF PolicyInv, Numbered
        <4>3. QED
          BY <1>2, <4>1, <4>2
      <3>2. QED
        BY <2>1, <2>3, <3>1 DEF PolicyInv, Numbered
    <2>5. \A p : Approved(p)' = Approved(p)
      BY <2>1 DEF Approved
    <2>6. \A p : p # print => Granted(p)' = Granted(p)
      BY <1>2 DEF Granted
    <2>7. Cardinality(Granted(print)') = Cardinality(Granted(print)) + 1
      <3>1. Granted(print)' = Granted(print) \cup {new} /\ new \notin Granted(print)
        BY <1>2, <2>2 DEF Granted
      <3>2. QED
        BY <3>1, HistoryFinite, FS_AddElement DEF PolicyInv
    <2>8. Cardinality(Granted(print)') <= Cardinality(Approved(print)')
      BY <1>2, <2>5, <2>7, HistoryFinite DEF PolicyInv, Unspent
    <2>9. Unspent'
      <3>1. \A p \in approved_once_' : Cardinality(Granted(p)') < Cardinality(Approved(p)')
        BY <1>2, <2>5, <2>6 DEF PolicyInv, Unspent
      <3>2. ASSUME NEW p \in {g.print : g \in grants'}
            PROVE  Cardinality(Granted(p)') <= Cardinality(Approved(p)')
        <4>1. CASE p = print
          BY <2>8, <4>1
        <4>2. CASE p # print
          BY <1>2, <2>5, <2>6, <4>2 DEF PolicyInv, Unspent
        <4>3. QED
          BY <4>1, <4>2
      <3>3. QED
        BY <3>1, <3>2 DEF Unspent
    <2>10. QED
      BY <2>4, <2>9 DEF PolicyInv
  <1>3. QED
    BY <1>1, <1>2 DEF Allowed, Take

\* ask(): a request gets an id that no other has.
LEMMA AskedPolicy ==
    ASSUME PolicyInv, NEW tool, NEW print, Asked(tool, print)
    PROVE  PolicyInv'
  <1> DEFINE new == [permission_id |-> asks, key |-> PolicyKey(tool), print |-> print]
  <1>1. Numbered'
    <2>1. /\ asks' = asks + 1 /\ pending_' = pending_ \cup {new}
          /\ new.permission_id = asks /\ UNCHANGED <<approvals, grants>>
      BY DEF Asked
    <2> HIDE DEF new
    <2>2. QED
      BY <2>1 DEF PolicyInv, Numbered
  <1>2. Unspent'
    BY DEF Asked, PolicyInv, Unspent, Granted, Approved
  <1>3. QED
    BY <1>1, <1>2 DEF PolicyInv

\* approve(): an approval for one call is a new one, also when the same call
\* was approved before.
LEMMA ApprovePolicy ==
    ASSUME PolicyInv, NEW r \in pending_, NEW b \in BOOLEAN, approve(r, b)
    PROVE  PolicyInv'
  <1>1. CASE b
    BY <1>1 DEF approve, PolicyInv, Numbered, Unspent, Granted, Approved
  <1>2. CASE ~b
    <2> DEFINE new == [id |-> r.permission_id, print |-> r.print]
    <2>1. /\ approved_once_' = approved_once_ \cup {r.print} /\ approvals' = approvals \cup {new}
          /\ pending_' = pending_ \ {r} /\ UNCHANGED <<asks, grants>>
      BY <1>2 DEF approve
    <2>2. new \notin approvals
      BY DEF PolicyInv, Numbered
    <2>3. Numbered'
      <3>1. IsFiniteSet(approvals')
        BY <2>1, FS_AddElement DEF PolicyInv, Numbered
      <3>2. QED
        BY <2>1, <3>1 DEF PolicyInv, Numbered
    <2>4. \A p : Granted(p)' = Granted(p)
      BY <2>1 DEF Granted
    <2>5. \A p : p # r.print => Approved(p)' = Approved(p)
      BY <2>1 DEF Approved
    <2>6. Cardinality(Approved(r.print)') = Cardinality(Approved(r.print)) + 1
      <3>1. Approved(r.print)' = Approved(r.print) \cup {new} /\ new \notin Approved(r.print)
        BY <2>1, <2>2 DEF Approved
      <3>2. QED
        BY <3>1, HistoryFinite, FS_AddElement DEF PolicyInv
    <2>7. Cardinality(Granted(r.print)) <= Cardinality(Approved(r.print))
      BY NothingSpent DEF PolicyInv, Unspent
    <2>8. Cardinality(Granted(r.print)') < Cardinality(Approved(r.print)')
      BY <2>4, <2>6, <2>7, HistoryFinite DEF PolicyInv
    <2>9. Unspent'
      <3>1. ASSUME NEW p \in approved_once_'
            PROVE  Cardinality(Granted(p)') < Cardinality(Approved(p)')
        <4>1. CASE p = r.print
          BY <2>8, <4>1
        <4>2. CASE p # r.print
          BY <2>1, <2>4, <2>5, <4>2 DEF PolicyInv, Unspent
        <4>3. QED
          BY <4>1, <4>2
      <3>2. ASSUME NEW p \in {g.print : g \in grants'}
            PROVE  Cardinality(Granted(p)') <= Cardinality(Approved(p)')
        <4>1. CASE p = r.print
          BY <2>4, <2>6, <2>7, <4>1, HistoryFinite DEF PolicyInv
        <4>2. CASE p # r.print
          BY <2>1, <2>4, <2>5, <4>2 DEF PolicyInv, Unspent
        <4>3. QED
          BY <4>1, <4>2
      <3>3. QED
        BY <3>1, <3>2 DEF Unspent
    <2>10. QED
      BY <2>3, <2>9 DEF PolicyInv
  <1>3. QED
    BY <1>1, <1>2

\* Nothing has been asked at first.
LEMMA InitPolicy == Init => PolicyInv
  <1> SUFFICES ASSUME Init
               PROVE  PolicyInv
    OBVIOUS
  <1>1. approved_once_ = {} /\ pending_ = {} /\ asks = 0 /\ approvals = {} /\ grants = {}
    BY DEF Init
  <1>2. IsFiniteSet(grants) /\ IsFiniteSet(approvals)
    BY <1>1, FS_EmptySet
  <1>3. QED
    BY <1>1, <1>2 DEF PolicyInv, Numbered, Unspent

\* deny_pending(), and the end of the process.
LEMMA ForgetPolicy ==
    ASSUME PolicyInv, Forget \/ \E r \in pending_ : deny_pending(r)
    PROVE  PolicyInv'
  <1>1. /\ pending_' \subseteq pending_ /\ approved_once_' \subseteq approved_once_
        /\ UNCHANGED <<asks, approvals, grants>>
    BY DEF Forget, deny_pending
  <1>2. QED
    BY <1>1 DEF PolicyInv, Numbered, Unspent, Granted, Approved

\* The commands' own steps do not touch the policy engine.
LEMMA NextPolicy == PolicyInv /\ [Next]_vars => PolicyInv'
  <1> SUFFICES ASSUME PolicyInv, [Next]_vars
               PROVE  PolicyInv'
    OBVIOUS
  <1>1. CASE \E t \in Thread : Start(t)
    BY <1>1, AllowedPolicy, AskedPolicy DEF Start
  <1>2. CASE Answer
    BY <1>2, ApprovePolicy, ForgetPolicy DEF Answer
  <1>3. CASE Crash
    BY <1>3, ForgetPolicy DEF Crash
  <1>4. CASE UNCHANGED policyVars
    BY <1>4 DEF policyVars, PolicyInv, Numbered, Unspent, Granted, Approved
  <1>5. QED
    BY ZenonT(30), <1>1, <1>2, <1>3, <1>4 DEF Next, vars, Checkpoint, ReadApply, ReadRevert,
       ReadRestore,
       remove, FileTool, RestoreCheck, RemoveFile, WriteTmp, Rename, WriteFails, SaveChange,
       SaveRevert, SaveRestore, TestLoop, Edit

\* PolicyEngine::ask and approve: an approval for one call lets at most one
\* call through, however many threads ask and however often the process dies.
THEOREM ApprovalsSpentOnce == Spec => []ApprovalSpentOnce
  <1>1. PolicyInv => ApprovalSpentOnce
    BY DEF PolicyInv, Unspent, ApprovalSpentOnce, Granted, Approved
  <1>2. QED
    BY <1>1, InitPolicy, NextPolicy, PTL DEF Spec

-----------------------------------------------------------------------------
(* The commands. Types first.                                              *)

Hunks == [file : Files, kind : {"add", "modify", "remove"}]
Content == {NoFile} \cup {<<m>> : m \in SUBSET (Patches \cup {"base", "tool", "edit"})}
Writes == [file : Files, content : Content, expect : SUBSET Content]
Entries == [file : Files, before : Content, after : Content]
Change == [files : Seq(Entries), reverted : BOOLEAN, torn : BOOLEAN, reused : BOOLEAN]
Snapshot == [files : UNION {[S -> Content] : S \in (SUBSET Files) \ {{}}},
             deleted : BOOLEAN, torn : BOOLEAN]

Changing == {"apply", "safe", "revert", "restore"}
Kind == Changing \cup {"delete", "write", "unlink"}
PC == {"idle", "checkpoint", "snapshot", "execute", "check", "write", "rename", "save", "test"}

Job == [pc : PC, kind : Kind \cup {"none"}, patch : Patches \cup {"none"},
        id : Nat, force : BOOLEAN, files : SUBSET Files, todo : Seq(Writes), record : Seq(Entries),
        torn : BOOLEAN, moved : SUBSET Files, stale : SUBSET Files, short : SUBSET Files,
        own : SUBSET Nat]

Typed ==
    /\ disk \in [Files -> Content]
    /\ tmp \in [Files -> [Suffix -> Content]]
    /\ checkpoints \in Seq(Snapshot)
    /\ changes \in UNION {[S -> Change] : S \in SUBSET Nat}
    /\ clock \in Nat
    /\ audit \in [Thread -> {"none", "success", "failed"}]
    /\ job \in [Thread -> Job]

\* No path twice.
OneEach(s) == \A i, k \in DOMAIN s : s[i].file = s[k].file => i = k

Paths(s) == {s[i].file : i \in DOMAIN s}

\* A change record names each of its files once.
Records == \A id \in DOMAIN changes : changes[id].files # <<>> /\ OneEach(changes[id].files)

\* Each of the command's own checkpoints was given content c of f.
Kept(j, f, c) ==
    \A i \in j.own : f \in DOMAIN checkpoints[i].files /\ checkpoints[i].files[f] = c

Writing == {"check", "write", "rename"}

\* Where a command is, what it has to do, and what it is about.
Stage(j) ==
    /\ j.pc = "idle" => j = Idle
    /\ j.pc # "idle" => j.kind \in Kind
    /\ j.pc \in Writing <=> j.todo # <<>>
    /\ j.pc \in Writing \cup {"save"} => j.kind \in Changing
    /\ j.pc = "check" => j.kind = "restore"
    /\ j.pc \in {"snapshot", "test"} => j.kind = "safe"
    /\ j.kind \in {"apply", "safe"} => j.patch \in Patches /\ j.files = affected_paths(j.patch)
    /\ j.kind \in {"restore", "delete"} => j.id \in DOMAIN checkpoints
    /\ j.kind = "restore" => j.files \subseteq DOMAIN checkpoints[j.id].files
    /\ j.kind = "restore" /\ j.files = {} => j.own = {}
    /\ j.files = {} => j.kind \in {"none", "restore", "delete"}
    /\ j.own \subseteq DOMAIN checkpoints
    /\ j.pc = "checkpoint" => j.own = {}
    /\ j.pc \in {"snapshot", "execute"} \cup Writing /\ j.own = {} =>
          j.kind \in {"restore", "delete"}
    /\ j.kind = "revert" => j.id \in DOMAIN changes
    /\ j.kind \in {"write", "unlink"} => j.files # {}

\* The record a patch or a revert works from. Another record may have been
\* saved under a revert's id, but then the id is known to be used twice.
Record(j) ==
    /\ j.kind \in {"apply", "safe", "revert"} /\ j.pc \in {"write", "rename", "save", "test"} =>
          j.record # <<>> /\ OneEach(j.record)
    /\ j.kind \in {"apply", "safe"} /\ j.pc \in {"write", "rename", "save", "test"} =>
          j.files = Paths(j.record)
    /\ j.kind = "revert" /\ ~Confused(j) =>
          /\ j.files = Paths(changes[j.id].files)
          /\ j.pc \in {"write", "rename", "save"} => j.record = changes[j.id].files

\* The writes that are left: each path once, with the content it is to get.
Todo(j) ==
    /\ OneEach(j.todo)
    /\ j.kind = "restore" => \A i \in DOMAIN j.todo :
          LET w == j.todo[i]
          IN  /\ w.file \in j.files /\ w.content = checkpoints[j.id].files[w.file]
              /\ w.expect = IF j.force \/ w.content = NoFile THEN {} ELSE {w.content, NoFile}
    /\ j.kind \in {"apply", "safe", "revert"} => \A i \in DOMAIN j.todo :
          \E k \in DOMAIN j.record :
              /\ j.todo[i].file = j.record[k].file
              /\ j.todo[i].content = IF j.kind = "revert" THEN j.record[k].before
                                     ELSE j.record[k].after

\* A write finds what it expects unless somebody else wrote in between.
Expected(j, w) == w.expect = {} \/ w.file \in j.stale \/ disk[w.file] \in w.expect

Looked(j) ==
    /\ j.pc \in {"write", "rename"} => Expected(j, Head(j.todo))
    /\ j.kind \in {"apply", "safe", "revert"} => \A i \in DOMAIN j.todo : Expected(j, j.todo[i])

\* What the command will replace was put into its checkpoints.
Saved(j) ==
    /\ j.pc \in {"checkpoint", "snapshot"} => j.files # {}
    /\ j.pc \in {"snapshot", "execute"} /\ j.kind # "delete" =>
          \A f \in j.files : f \in j.moved \/ Kept(j, f, disk[f])
    /\ \A i \in DOMAIN j.todo : LET f == j.todo[i].file
          IN  f \in j.moved \/ Kept(j, f, disk[f]) \/ Confused(j)

\* The files that are not to be written any more are as intended.
Done(j) ==
    /\ j.pc \in Writing \cup {"save", "test"} /\ ~Confused(j) /\ ~j.torn =>
          \A f \in j.files \ (j.moved \cup j.short) :
             f \in Paths(j.todo) \/ disk[f] = Intended(j, f)
    /\ j.pc = "rename" => LET w == Head(j.todo)
          IN  \/ w.file \in j.moved \cup j.short
              \/ tmp[w.file][SuffixOf(j.kind)] = w.content

ThreadInv(j) == Stage(j) /\ Record(j) /\ Todo(j) /\ Looked(j) /\ Saved(j) /\ Done(j)

CommandInv == Typed /\ Records /\ \A t \in Thread : ThreadInv(job[t])

-----------------------------------------------------------------------------
(* The operators the commands are built from.                              *)

\* SetToSeq lists each element of a finite set once.
LEMMA SetToSeqProperties ==
    ASSUME NEW S, IsFiniteSet(S)
    PROVE  /\ SetToSeq(S) \in Seq(S)
           /\ \A x \in S : \E i \in DOMAIN SetToSeq(S) : SetToSeq(S)[i] = x
           /\ \A i, k \in DOMAIN SetToSeq(S) : SetToSeq(S)[i] = SetToSeq(S)[k] => i = k
  <1> DEFINE n == Cardinality(S)
             s == SetToSeq(S)
  <1>1. n \in Nat /\ \E f \in [1..n -> S] : IsInjective(f)
    BY FS_CardinalityType DEF ExistsBijection, Bijection, Injection
  <1>2. s \in [1..n -> S] /\ IsInjective(s)
    BY <1>1 DEF SetToSeq
  <1> HIDE DEF s
  <1>3. s \in Injection(1..n, S)
    BY <1>2 DEF Injection
  <1>4. Cardinality(1..n) = n
    BY <1>1, FS_Interval
  <1>5. s \in Surjection(1..n, S)
    BY <1>3, <1>4, FS_Injection
  <1>6. s \in Seq(S)
    BY <1>1, <1>2
  <1>7. \A x \in S : \E i \in DOMAIN s : s[i] = x
    BY <1>2, <1>5 DEF Surjection
  <1>8. \A i, k \in DOMAIN s : s[i] = s[k] => i = k
    BY <1>2 DEF IsInjective
  <1>9. QED
    BY <1>6, <1>7, <1>8 DEF s

\* The writes that are left after the first.
LEMMA TailProperties ==
    ASSUME NEW S, NEW s \in Seq(S), s # <<>>
    PROVE  /\ 1 \in DOMAIN s /\ Head(s) = s[1] /\ Head(s) \in S
           /\ Tail(s) \in Seq(S)
           /\ \A i \in DOMAIN Tail(s) : i \in Nat /\ i + 1 \in DOMAIN s /\ Tail(s)[i] = s[i + 1]
           /\ \A i \in DOMAIN s : i # 1 => i \in Nat /\ i - 1 \in DOMAIN Tail(s)
           /\ Tail(s) = <<>> <=> Len(s) = 1
  <1>1. /\ Head(s) \in S /\ Tail(s) \in Seq(S) /\ Len(Tail(s)) = Len(s) - 1
        /\ \A i \in 1 .. Len(Tail(s)) : Tail(s)[i] = s[i + 1]
    BY HeadTailProperties
  <1>2. Len(s) \in Nat /\ Len(s) # 0 /\ DOMAIN s = 1 .. Len(s) /\ DOMAIN Tail(s) = 1 .. (Len(s) - 1)
    BY <1>1
  <1>3. 1 \in DOMAIN s /\ Head(s) = s[1]
    BY <1>2
  <1>4. \A i \in DOMAIN Tail(s) : i \in Nat /\ i + 1 \in DOMAIN s /\ Tail(s)[i] = s[i + 1]
    BY <1>1, <1>2
  <1>5. \A i \in DOMAIN s : i # 1 => i \in Nat /\ i - 1 \in DOMAIN Tail(s)
    BY <1>2
  <1>6. Tail(s) = <<>> <=> Len(s) = 1
    <2>1. Tail(s) = <<>> <=> Len(Tail(s)) = 0
      BY <1>1, EmptySeq
    <2>2. QED
      BY <1>1, <1>2, <2>1
  <1>7. QED
    BY <1>1, <1>3, <1>4, <1>5, <1>6

\* Dropping the first write drops its path.
LEMMA TailPaths ==
    ASSUME NEW s \in Seq(Writes), s # <<>>, OneEach(s)
    PROVE  OneEach(Tail(s)) /\ Paths(Tail(s)) = Paths(s) \ {Head(s).file}
  <1>1. OneEach(Tail(s))
    <2> SUFFICES ASSUME NEW i \in DOMAIN Tail(s), NEW k \in DOMAIN Tail(s),
                        Tail(s)[i].file = Tail(s)[k].file
                 PROVE  i = k
      BY DEF OneEach
    <2>1. i \in Nat /\ k \in Nat /\ i + 1 = k + 1
      BY TailProperties DEF OneEach
    <2>2. QED
      BY <2>1
  <1>2. Paths(Tail(s)) \subseteq Paths(s) \ {Head(s).file}
    BY TailProperties DEF OneEach, Paths
  <1>3. Paths(s) \ {Head(s).file} \subseteq Paths(Tail(s))
    <2> SUFFICES ASSUME NEW i \in DOMAIN s, i # 1
                 PROVE  s[i].file \in Paths(Tail(s))
      BY TailProperties DEF Paths
    <2>1. i \in Nat /\ i - 1 \in DOMAIN Tail(s) /\ Tail(s)[i - 1] = s[i]
      BY TailProperties
    <2>2. QED
      BY <2>1 DEF Paths
  <1>4. QED
    BY <1>1, <1>2, <1>3

\* The entry of a record for a path.
LEMMA EntryOf ==
    ASSUME NEW s \in Seq(Entries), OneEach(s), NEW k \in DOMAIN s
    PROVE  (CHOOSE r \in ToSet(s) : r.file = s[k].file) = s[k]
  BY DEF OneEach, ToSet

\* A patched file has content a diff can leave.
LEMMA PatchedType ==
    ASSUME NEW p \in Patches, NEW kind, NEW c \in Content
    PROVE  Patched(p, kind, c) \in Content
  <1>1. CASE kind = "remove"
    BY <1>1 DEF Patched, Content
  <1>2. CASE kind # "remove"
    <2> DEFINE m == (IF c = NoFile THEN {} ELSE c[1]) \cup {p}
    <2>1. m \in SUBSET (Patches \cup {"base", "tool", "edit"})
      BY DEF Content, NoFile
    <2>2. Patched(p, kind, c) = <<m>>
      BY <1>2 DEF Patched
    <2> HIDE DEF m
    <2>3. QED
      BY <2>1, <2>2 DEF Content
  <1>3. QED
    BY <1>1, <1>2

-----------------------------------------------------------------------------
(* What a thread sees of the others' steps.                                *)

\* Checkpoints keep their contents. So do change records, unless the id turns
\* out to be used twice.
Grows ==
    /\ \A i \in DOMAIN checkpoints :
          i \in DOMAIN checkpoints' /\ checkpoints'[i].files = checkpoints[i].files
    /\ \A id \in DOMAIN changes :
          /\ id \in DOMAIN changes'
          /\ changes[id].reused => changes'[id].reused
          /\ changes'[id].reused \/ changes'[id].files = changes[id].files

\* u stays where it is and knows of every path that was written.
Aside(u) ==
    \E F \in SUBSET Files :
        /\ job'[u] = [job[u] EXCEPT !.moved = @ \cup F, !.stale = @ \cup F]
        /\ \A f \in Files \ F : disk'[f] = disk[f] /\ tmp'[f] = tmp[f]

\* The fields of a thread with nothing to do.
LEMMA IdleFields ==
    /\ Idle.pc = "idle" /\ Idle.kind = "none" /\ Idle.patch = "none" /\ Idle.id = 0
    /\ Idle.force = FALSE /\ Idle.files = {} /\ Idle.todo = <<>> /\ Idle.record = <<>>
    /\ Idle.moved = {} /\ Idle.stale = {} /\ Idle.short = {} /\ Idle.own = {} /\ Idle.torn = FALSE
    /\ Idle \in Job
  <1>1. /\ Idle.pc = "idle" /\ Idle.kind = "none" /\ Idle.patch = "none" /\ Idle.id = 0
        /\ Idle.force = FALSE /\ Idle.torn = FALSE
    BY DEF Idle
  <1>2. Idle.files = {} /\ Idle.moved = {} /\ Idle.stale = {} /\ Idle.short = {} /\ Idle.own = {}
    BY DEF Idle
  <1>3. Idle.todo = <<>>
    BY DEF Idle
  <1>4. Idle.record = <<>>
    BY DEF Idle
  <1>5. Idle \in Job
    BY DEF Idle, Job, PC
  <1>6. QED
    BY <1>1, <1>2, <1>3, <1>4, <1>5

\* A thread that has nothing to do is in order.
LEMMA IdleInv ==
    ASSUME NEW u \in Thread, job'[u] = Idle
    PROVE  ThreadInv(job[u])'
  <1>1. job'[u].pc = "idle" /\ job'[u].kind = "none" /\ job'[u].todo = <<>> /\ job'[u].own = {}
    BY IdleFields
  <1>2. DOMAIN job'[u].todo = {}
    <2>1. DOMAIN <<>> = {}
      OBVIOUS
    <2>2. QED
      BY <1>1, <2>1
  <1>3. (Stage(job[u]) /\ Record(job[u]))'
    BY <1>1 DEF Stage, Record, Changing, Writing, Kind
  <1>4. (Todo(job[u]) /\ Looked(job[u]) /\ Saved(job[u]) /\ Done(job[u]))'
    BY <1>1, <1>2 DEF Todo, Looked, Saved, Done, OneEach, Writing
  <1>5. QED
    BY <1>3, <1>4 DEF ThreadInv

\* A thread's claims survive the steps of the others and of the user's editor.
LEMMA Bystander ==
    ASSUME CommandInv, Typed', Grows, NEW u \in Thread, job[u].pc # "idle", Aside(u)
    PROVE  ThreadInv(job[u])'
  <1> DEFINE j == job[u]
  <1>1. PICK F \in SUBSET Files :
            /\ job'[u] = [job[u] EXCEPT !.moved = @ \cup F, !.stale = @ \cup F]
            /\ \A f \in Files \ F : disk'[f] = disk[f] /\ tmp'[f] = tmp[f]
    BY DEF Aside
  <1>2. j \in Job /\ job'[u] \in Job
    BY DEF CommandInv, Typed
  <1>3. /\ job'[u].pc = j.pc /\ job'[u].kind = j.kind /\ job'[u].patch = j.patch
        /\ job'[u].id = j.id /\ job'[u].force = j.force /\ job'[u].files = j.files
        /\ job'[u].todo = j.todo /\ job'[u].record = j.record
        /\ job'[u].torn = j.torn /\ job'[u].short = j.short /\ job'[u].own = j.own
        /\ job'[u].moved = j.moved \cup F /\ job'[u].stale = j.stale \cup F
    BY <1>1, <1>2 DEF Job
  <1>4. ThreadInv(j)
    BY DEF CommandInv
  <1>5. Confused(j) => Confused(job[u])'
    BY <1>3, <1>4 DEF ThreadInv, Stage, Confused, Grows
  <1>6. Stage(job[u])'
    BY <1>3, <1>4 DEF ThreadInv, Stage, Grows
  <1>7. Record(job[u])'
    BY <1>3, <1>4, <1>5 DEF ThreadInv, Stage, Record, Grows, Confused
  <1>8. j.todo \in Seq(Writes) /\ \A i \in DOMAIN j.todo : j.todo[i] \in Writes
    <2>1. j.todo \in Seq(Writes)
      BY <1>2 DEF Job
    <2>2. QED
      BY <2>1, ElementOfSeq
  <1>9. Todo(job[u])'
    <2>1. j.kind = "restore" => checkpoints'[j.id].files = checkpoints[j.id].files
      BY <1>4 DEF ThreadInv, Stage, Grows
    <2>2. Todo(j)
      BY <1>4 DEF ThreadInv
    <2>3. /\ job'[u].kind = j.kind /\ job'[u].id = j.id /\ job'[u].force = j.force
          /\ job'[u].files = j.files /\ job'[u].todo = j.todo /\ job'[u].record = j.record
      BY <1>3
    <2>4. OneEach(job'[u].todo)
      BY <2>2, <2>3 DEF Todo
    <2> HIDE DEF j
    <2>5. QED
      BY ONLY <2>1, <2>2, <2>3, <2>4 DEF Todo
  <1>10. \A i \in DOMAIN j.todo : Expected(j, j.todo[i]) => Expected(job[u], j.todo[i])'
    BY <1>1, <1>3, <1>8 DEF Expected, Writes
  <1>11. Looked(job[u])'
    <2>1. j.pc \in {"write", "rename"} => 1 \in DOMAIN j.todo /\ Head(j.todo) = j.todo[1]
      BY <1>4, <1>8, TailProperties DEF ThreadInv, Stage, Writing
    <2>2. QED
      BY <1>3, <1>4, <1>10, <2>1 DEF ThreadInv, Looked
  <1>12. \A f \in Files : Kept(j, f, disk[f]) => f \in F \/ Kept(job[u], f, disk[f])'
    <2>1. \A i \in j.own : i \in DOMAIN checkpoints /\ checkpoints'[i].files = checkpoints[i].files
      BY <1>4 DEF ThreadInv, Stage, Grows
    <2>2. QED
      BY <1>1, <1>3, <2>1 DEF Kept
  <1>13. Saved(job[u])'
    <2>1. j.files \subseteq Files /\ \A i \in DOMAIN j.todo : j.todo[i].file \in Files
      BY <1>2, <1>8 DEF Job, Writes
    <2>2. QED
      BY <1>3, <1>4, <1>5, <1>12, <2>1 DEF ThreadInv, Saved
  <1>14. Done(job[u])'
    <2>1. j.pc # "idle" /\ j.kind = "restore" => checkpoints'[j.id].files = checkpoints[j.id].files
      BY <1>4 DEF ThreadInv, Stage, Grows
    <2>2. \A f : Intended(job[u], f)' = Intended(j, f)
      BY <1>3, <2>1 DEF Intended
    <2>3. ASSUME j.pc \in Writing \cup {"save", "test"}, ~Confused(job[u])', ~j.torn
          PROVE  \A f \in job'[u].files \ (job'[u].moved \cup job'[u].short) :
                    f \in Paths(job'[u].todo) \/ disk'[f] = Intended(job[u], f)'
      <3>1. ASSUME NEW f \in j.files, f \notin j.moved, f \notin j.short
            PROVE  f \in Paths(j.todo) \/ disk[f] = Intended(j, f)
        BY <1>4, <1>5, <2>3, <3>1 DEF ThreadInv, Done
      <3>2. j.files \subseteq Files
        BY <1>2 DEF Job
      <3>3. QED
        BY <1>1, <1>3, <2>2, <3>1, <3>2
    <2>4. ASSUME j.pc = "rename"
          PROVE  LET w == Head(j.todo)
                 IN  \/ w.file \in job'[u].moved \cup job'[u].short
                     \/ tmp'[w.file][SuffixOf(j.kind)] = w.content
      <3>1. Head(j.todo).file \in Files
        BY <1>4, <1>8, <2>4, TailProperties DEF ThreadInv, Stage, Writing, Writes
      <3>2. QED
        BY <1>1, <1>3, <1>4, <2>4, <3>1 DEF ThreadInv, Done
    <2>5. QED
      BY <1>3, <2>3, <2>4 DEF Done
  <1>15. QED
    BY <1>6, <1>7, <1>9, <1>11, <1>13, <1>14 DEF ThreadInv

\* A step that changes neither files nor u's command leaves its claims as they are.
LEMMA Unmoved ==
    ASSUME CommandInv, Typed', Grows, NEW u \in Thread, job'[u] = job[u], UNCHANGED <<disk, tmp>>
    PROVE  ThreadInv(job[u])'
  <1>1. CASE job[u].pc = "idle"
    BY <1>1, IdleInv DEF CommandInv, ThreadInv, Stage
  <1>2. CASE job[u].pc # "idle"
    <2>1. job[u] \in Job
      BY DEF CommandInv, Typed
    <2>2. job'[u] = [job[u] EXCEPT !.moved = @ \cup {}, !.stale = @ \cup {}]
      BY <2>1 DEF Job
    <2>3. {} \in SUBSET Files /\ \A g \in Files \ {} : disk'[g] = disk[g] /\ tmp'[g] = tmp[g]
      OBVIOUS
    <2>4. Aside(u)
      BY <2>2, <2>3 DEF Aside
    <2>5. QED
      BY <1>2, <2>4, Bystander
  <1>3. QED
    BY <1>1, <1>2

\* A step of t that writes no file.
LEMMA StepAlone ==
    ASSUME CommandInv, NEW t \in Thread, job' = [job EXCEPT ![t] = job'[t]],
           UNCHANGED <<disk, tmp>>, Typed', Records', Grows, ThreadInv(job[t])'
    PROVE  CommandInv'
  <1>1. ASSUME NEW u \in Thread, u # t
        PROVE  ThreadInv(job[u])'
    <2>1. job'[u] = job[u]
      BY <1>1 DEF CommandInv, Typed
    <2>2. QED
      BY <2>1, Unmoved
  <1>2. QED
    BY <1>1 DEF CommandInv

\* A step of t that writes f, or its temporary file.
LEMMA StepTouching ==
    ASSUME CommandInv, NEW t \in Thread, NEW f \in Files,
           job' = [Touched(f) EXCEPT ![t] = job'[t]],
           \A g \in Files \ {f} : disk'[g] = disk[g] /\ tmp'[g] = tmp[g],
           Typed', Records', Grows, ThreadInv(job[t])'
    PROVE  CommandInv'
  <1>1. ASSUME NEW u \in Thread, u # t
        PROVE  ThreadInv(job[u])'
    <2>1. CASE job[u].pc = "idle"
      BY <1>1, <2>1, IdleInv DEF CommandInv, ThreadInv, Stage, Touched
    <2>2. CASE job[u].pc # "idle"
      <3>1. job'[u] = [job[u] EXCEPT !.moved = @ \cup {f}, !.stale = @ \cup {f}]
        BY <1>1, <2>2 DEF Touched
      <3>2. Aside(u)
        BY <3>1 DEF Aside
      <3>3. QED
        BY <2>2, <3>2, Bystander
    <2>3. QED
      BY <2>1, <2>2
  <1>2. QED
    BY <1>1 DEF CommandInv

\* Nothing happens to the stores.
LEMMA GrowsNot ==
    ASSUME UNCHANGED <<checkpoints, changes>>
    PROVE  Grows /\ (Records => Records')
  BY DEF Grows, Records

\* The jobs keep their type.
LEMMA TouchedType ==
    ASSUME Typed, NEW f \in Files
    PROVE  Touched(f) \in [Thread -> Job]
  <1>1. \A j \in Job : [j EXCEPT !.moved = @ \cup {f}, !.stale = @ \cup {f}] \in Job
    BY DEF Job
  <1>2. \A u \in Thread : job[u] \in Job
    BY DEF Typed
  <1>3. QED
    BY <1>1, <1>2 DEF Touched

\* A command that ends here has no more claims to keep.
LEMMA FinishStep ==
    ASSUME CommandInv, NEW t \in Thread, NEW ok \in BOOLEAN, Finish(t, ok), UNCHANGED <<disk, tmp>>,
           checkpoints' \in Seq(Snapshot), changes' \in UNION {[S -> Change] : S \in SUBSET Nat},
           clock' \in Nat, Records', Grows
    PROVE  CommandInv'
  <1>1. job' = [job EXCEPT ![t] = Idle] /\ job'[t] = Idle
    BY DEF Finish, CommandInv, Typed
  <1>2. job' \in [Thread -> Job]
    BY <1>1, IdleFields DEF CommandInv, Typed
  <1>3. audit' \in [Thread -> {"none", "success", "failed"}]
    BY DEF Finish, CommandInv, Typed
  <1>4. Typed'
    BY <1>2, <1>3 DEF CommandInv, Typed
  <1>5. QED
    BY <1>1, <1>4, IdleInv, StepAlone

-----------------------------------------------------------------------------
(* The commands start.                                                     *)

\* A command is about paths of the workspace, and about a record that exists.
LEMMA DescriptorsInOrder ==
    ASSUME CommandInv, NEW d \in Descriptors
    PROVE  d \in Job /\ d.pc = "checkpoint" /\ d.todo = <<>> /\ d.own = {} /\ Stage(d) /\ Record(d)
  <1> DEFINE
        Named(id) == {e.file : e \in ToSet(changes[id].files)}
        Patch(r) == Descriptor(r.kind, r.patch, 0, FALSE, affected_paths(r.patch))
        Revert(id, b) == Descriptor("revert", "none", id, b, Named(id))
        Restore(id, b, sel) == Descriptor("restore", "none", id, b, sel)
        Delete(id) == Descriptor("delete", "none", id, FALSE, {})
        Tooled(k, f) == Descriptor(k, "none", 0, FALSE, {f})
        Some(id) == Selections(Loaded(id))
  <1>1. ASSUME NEW r \in Requests, d = Patch(r)
        PROVE  d \in Job /\ d.pc = "checkpoint" /\ d.todo = <<>> /\ d.own = {} /\ Stage(d) /\ Record(d)
    <2>1. d = Descriptor(r.kind, r.patch, 0, FALSE, affected_paths(r.patch))
      BY <1>1
    <2>2. r.kind \in {"apply", "safe"} /\ r.patch \in Patches
      BY ChangeAssumption
    <2>3. affected_paths(r.patch) \in SUBSET Files /\ affected_paths(r.patch) # {}
      <3>1. DiffOf[r.patch] \in Seq(Hunks)
        BY <2>2, ChangeAssumption DEF Hunks
      <3>2. \A i \in DOMAIN DiffOf[r.patch] : DiffOf[r.patch][i] \in Hunks
        BY <3>1, ElementOfSeq
      <3>3. DiffOf[r.patch] # <<>>
        BY <2>2, ChangeAssumption
      <3>4. 1 \in DOMAIN DiffOf[r.patch]
        BY <3>1, <3>3, TailProperties
      <3>5. QED
        BY <3>2, <3>4 DEF affected_paths, Hunks
    <2>4. d = [Idle EXCEPT !.pc = "checkpoint", !.kind = r.kind, !.patch = r.patch,
                         !.id = 0, !.force = FALSE, !.files = affected_paths(r.patch)]
      BY <2>1 DEF Descriptor
    <2>5. d \in Job
      BY <2>2, <2>3, <2>4, IdleFields DEF Job, PC, Kind, Changing
    <2>6. /\ d.pc = "checkpoint" /\ d.kind = r.kind /\ d.patch = r.patch /\ d.id = 0
          /\ d.files = affected_paths(r.patch) /\ d.todo = <<>> /\ d.own = {}
      BY <2>4, IdleFields DEF Job
    <2>7. QED
      BY <2>2, <2>3, <2>5, <2>6 DEF Stage, Record, Writing, Kind, Changing
  <1>2. ASSUME NEW id \in DOMAIN changes, NEW b \in BOOLEAN, d = Revert(id, b)
        PROVE  d \in Job /\ d.pc = "checkpoint" /\ d.todo = <<>> /\ d.own = {} /\ Stage(d) /\ Record(d)
    <2>1. d = Descriptor("revert", "none", id, b, Paths(changes[id].files))
      BY <1>2 DEF ToSet, Paths
    <2>2. id \in Nat /\ changes[id] \in Change
      BY DEF CommandInv, Typed
    <2>3. Paths(changes[id].files) \in SUBSET Files /\ Paths(changes[id].files) # {}
      <3>1. changes[id].files \in Seq(Entries)
        BY <2>2 DEF Change
      <3>2. \A i \in DOMAIN changes[id].files : changes[id].files[i] \in Entries
        BY <3>1, ElementOfSeq
      <3>3. changes[id].files # <<>>
        BY DEF CommandInv, Records
      <3>4. 1 \in DOMAIN changes[id].files
        BY <3>1, <3>3, TailProperties
      <3>5. QED
        BY <3>2, <3>4 DEF Paths, Entries
    <2>4. d = [Idle EXCEPT !.pc = "checkpoint", !.kind = "revert", !.patch = "none",
                         !.id = id, !.force = b, !.files = Paths(changes[id].files)]
      BY <2>1 DEF Descriptor
    <2>5. d \in Job
      BY <2>2, <2>3, <2>4, IdleFields DEF Job, PC, Kind, Changing
    <2>6. /\ d.pc = "checkpoint" /\ d.kind = "revert" /\ d.patch = "none" /\ d.id = id
          /\ d.files = Paths(changes[id].files) /\ d.todo = <<>> /\ d.own = {}
      BY <2>4, IdleFields DEF Job
    <2>7. QED
      BY <2>3, <2>5, <2>6 DEF Stage, Record, Writing, Kind, Changing
  <1>3. ASSUME NEW id \in DOMAIN checkpoints, NEW b \in BOOLEAN, NEW sel \in Some(id),
               d = Restore(id, b, sel)
        PROVE  d \in Job /\ d.pc = "checkpoint" /\ d.todo = <<>> /\ d.own = {} /\ Stage(d) /\ Record(d)
    <2>1. d = Descriptor("restore", "none", id, b, sel)
      BY <1>3
    <2>2. id \in Nat /\ checkpoints[id] \in Snapshot
      <3>1. checkpoints \in Seq(Snapshot)
        BY DEF CommandInv, Typed
      <3>2. QED
        BY <3>1, ElementOfSeq
    <2>3. sel \subseteq DOMAIN checkpoints[id].files /\ sel \in SUBSET Files
      BY <2>2 DEF Selections, Loaded, Snapshot
    <2>4. d = [Idle EXCEPT !.pc = "checkpoint", !.kind = "restore", !.patch = "none",
                         !.id = id, !.force = b, !.files = sel]
      BY <2>1 DEF Descriptor
    <2>5. d \in Job
      BY <2>2, <2>3, <2>4, IdleFields DEF Job, PC, Kind, Changing
    <2>6. /\ d.pc = "checkpoint" /\ d.kind = "restore" /\ d.patch = "none" /\ d.id = id
          /\ d.files = sel /\ d.todo = <<>> /\ d.own = {}
      BY <2>4, IdleFields DEF Job
    <2>7. QED
      BY <2>3, <2>5, <2>6 DEF Stage, Record, Writing, Kind, Changing
  <1>4. ASSUME NEW id \in DOMAIN checkpoints, d = Delete(id)
        PROVE  d \in Job /\ d.pc = "checkpoint" /\ d.todo = <<>> /\ d.own = {} /\ Stage(d) /\ Record(d)
    <2>1. d = Descriptor("delete", "none", id, FALSE, {})
      BY <1>4
    <2>2. id \in Nat
      <3>1. checkpoints \in Seq(Snapshot)
        BY DEF CommandInv, Typed
      <3>2. QED
        BY <3>1
    <2>4. d = [Idle EXCEPT !.pc = "checkpoint", !.kind = "delete", !.patch = "none",
                         !.id = id, !.force = FALSE, !.files = {}]
      BY <2>1 DEF Descriptor
    <2>5. d \in Job
      BY <2>2, <2>4, IdleFields DEF Job, PC, Kind, Changing
    <2>6. /\ d.pc = "checkpoint" /\ d.kind = "delete" /\ d.patch = "none" /\ d.id = id
          /\ d.files = {} /\ d.todo = <<>> /\ d.own = {}
      BY <2>4, IdleFields DEF Job
    <2>7. QED
      BY <2>5, <2>6 DEF Stage, Record, Writing, Kind, Changing
  <1>5. ASSUME NEW k \in {"write", "unlink"}, NEW f \in Contested, d = Tooled(k, f)
        PROVE  d \in Job /\ d.pc = "checkpoint" /\ d.todo = <<>> /\ d.own = {} /\ Stage(d) /\ Record(d)
    <2>1. d = Descriptor(k, "none", 0, FALSE, {f})
      BY <1>5
    <2>2. {f} \in SUBSET Files
      BY ChangeAssumption
    <2>4. d = [Idle EXCEPT !.pc = "checkpoint", !.kind = k, !.patch = "none",
                         !.id = 0, !.force = FALSE, !.files = {f}]
      BY <2>1 DEF Descriptor
    <2>5. d \in Job
      BY <2>2, <2>4, IdleFields DEF Job, PC, Kind, Changing
    <2>6. /\ d.pc = "checkpoint" /\ d.kind = k /\ d.patch = "none" /\ d.id = 0
          /\ d.files = {f} /\ d.todo = <<>> /\ d.own = {}
      BY <2>4, IdleFields DEF Job
    <2>7. QED
      BY <2>5, <2>6 DEF Stage, Record, Writing, Kind, Changing
  <1>6. Distinct \subseteq DOMAIN checkpoints
    BY DEF Distinct
  <1>7. \/ \E r \in Requests : d = Patch(r)
        \/ \E id \in DOMAIN changes, b \in BOOLEAN : d = Revert(id, b)
        \/ \E id \in Distinct : \E b \in BOOLEAN, sel \in Some(id) : d = Restore(id, b, sel)
        \/ \E id \in Distinct : d = Delete(id)
        \/ \E k \in {"write", "unlink"}, f \in Contested : d = Tooled(k, f)
    <2> DEFINE A == {Patch(r) : r \in Requests}
               whole == {i \in DOMAIN changes : ~changes[i].torn}
               B == {Revert(id, b) : id \in whole, b \in BOOLEAN}
               C(id) == {Restore(id, b, sel) : b \in BOOLEAN, sel \in Some(id)}
               undeleted == {i \in Distinct : ~checkpoints[i].deleted}
               D == {Delete(id) : id \in Distinct}
               E == {Tooled(k, f) : k \in {"write", "unlink"}, f \in Contested}
    <2>1. Descriptors = A \cup B \cup (UNION {C(id) : id \in undeleted}) \cup D \cup E
      BY DEF Descriptors
    <2> HIDE DEF Patch, Revert, Restore, Delete, Tooled, Some
    <2>2. d \in B => \E id \in DOMAIN changes, b \in BOOLEAN : d = Revert(id, b)
      OBVIOUS
    <2>3. \A id : d \in C(id) => \E b \in BOOLEAN, sel \in Some(id) : d = Restore(id, b, sel)
      OBVIOUS
    <2>4. d \in E => \E k \in {"write", "unlink"}, f \in Contested : d = Tooled(k, f)
      OBVIOUS
    <2>5. d \in A => \E r \in Requests : d = Patch(r)
      OBVIOUS
    <2>6. d \in D => \E id \in Distinct : d = Delete(id)
      OBVIOUS
    <2>7. undeleted \subseteq Distinct
      OBVIOUS
    <2> HIDE DEF A, B, C, D, E, undeleted
    <2>8. d \in A \/ d \in B \/ (\E id \in undeleted : d \in C(id)) \/ d \in D \/ d \in E
      BY <2>1
    <2>9. QED
      BY <2>2, <2>3, <2>4, <2>5, <2>6, <2>7, <2>8
  <1> HIDE DEF Patch, Revert, Restore, Delete, Tooled, Some
  <1>8. QED
    BY <1>1, <1>2, <1>3, <1>4, <1>5, <1>6, <1>7

\* A command that has read nothing claims nothing but its subject.
LEMMA Fresh ==
    ASSUME NEW t \in Thread, job'[t].todo = <<>>,
           \/ job'[t].pc = "checkpoint" /\ job'[t].files # {}
           \/ job'[t].pc = "execute" /\ job'[t].files = {},
           Stage(job[t])', Record(job[t])'
    PROVE  ThreadInv(job[t])'
  <1>1. DOMAIN job'[t].todo = {}
    <2>1. DOMAIN <<>> = {}
      OBVIOUS
    <2>2. QED
      BY <2>1
  <1>2. (Todo(job[t]) /\ Looked(job[t]) /\ Saved(job[t]) /\ Done(job[t]))'
    BY <1>1 DEF Todo, Looked, Saved, Done, OneEach, Writing
  <1>3. QED
    BY <1>2 DEF ThreadInv

\* The authorize stage.
LEMMA StartKeeps ==
    ASSUME CommandInv, NEW t \in Thread, Start(t)
    PROVE  CommandInv'
  <1>1. UNCHANGED <<checkpoints, changes, clock, disk, tmp>>
    BY DEF Start, storeVars
  <1>2. PICK d \in Descriptors :
          \/ /\ job' = [job EXCEPT ![t] = IF d.files = {} THEN [d EXCEPT !.pc = "execute"] ELSE d]
             /\ audit' = [audit EXCEPT ![t] = "none"]
          \/ /\ audit' = [audit EXCEPT ![t] = IF Audited(d.kind) THEN "failed" ELSE "none"]
             /\ UNCHANGED job
    BY DEF Start
  <1>3. d \in Job /\ d.pc = "checkpoint" /\ d.todo = <<>> /\ d.own = {} /\ Stage(d) /\ Record(d)
    BY DescriptorsInOrder
  <1>4. audit' \in [Thread -> {"none", "success", "failed"}]
    BY <1>2 DEF CommandInv, Typed
  <1>5. CASE UNCHANGED job
    <2>1. Typed'
      BY <1>1, <1>4, <1>5 DEF CommandInv, Typed
    <2>2. job' = [job EXCEPT ![t] = job'[t]]
      BY <1>5 DEF CommandInv, Typed
    <2>3. ThreadInv(job[t])'
      BY <1>1, <1>5, <2>1, GrowsNot, Unmoved
    <2>4. QED
      BY <1>1, <2>1, <2>2, <2>3, GrowsNot, StepAlone DEF CommandInv
  <1>6. CASE job' = [job EXCEPT ![t] = IF d.files = {} THEN [d EXCEPT !.pc = "execute"] ELSE d]
    <2> DEFINE e == IF d.files = {} THEN [d EXCEPT !.pc = "execute"] ELSE d
    <2>1. job'[t] = e /\ job' = [job EXCEPT ![t] = job'[t]]
      BY <1>6 DEF CommandInv, Typed
    <2>2. /\ e \in Job /\ e.kind = d.kind /\ e.patch = d.patch /\ e.id = d.id
          /\ e.force = d.force /\ e.files = d.files /\ e.todo = d.todo /\ e.record = d.record
          /\ e.own = d.own /\ e.pc = IF d.files = {} THEN "execute" ELSE "checkpoint"
      BY <1>3 DEF Job, PC
    <2> HIDE DEF e
    <2>3. job' \in [Thread -> Job]
      BY <2>1, <2>2 DEF CommandInv, Typed
    <2>4. Typed'
      BY <1>1, <1>4, <2>3 DEF CommandInv, Typed
    <2>5. Stage(job[t])'
      BY <1>1, <1>3, <2>1, <2>2 DEF Stage, Writing, Kind, Changing
    <2>6. Record(job[t])'
      BY <1>1, <1>3, <2>1, <2>2 DEF Record, Confused
    <2>7. ThreadInv(job[t])'
      <3>1. /\ job'[t].todo = <<>>
            /\ \/ job'[t].pc = "checkpoint" /\ job'[t].files # {}
               \/ job'[t].pc = "execute" /\ job'[t].files = {}
        BY <1>3, <2>1, <2>2
      <3>2. QED
        BY <2>5, <2>6, <3>1, Fresh
    <2>8. QED
      BY <1>1, <2>1, <2>4, <2>7, GrowsNot, StepAlone DEF CommandInv
  <1>7. QED
    BY <1>2, <1>5, <1>6

\* A thread that ends its command and leaves the stores alone.
LEMMA FinishQuietly ==
    ASSUME CommandInv, NEW t \in Thread, NEW ok \in BOOLEAN, Finish(t, ok),
           UNCHANGED <<disk, tmp, checkpoints, changes, clock>>
    PROVE  CommandInv'
  BY FinishStep, GrowsNot DEF CommandInv, Typed

\* The checkpoint stage: what the command will replace is kept first.
LEMMA CheckpointKeeps ==
    ASSUME CommandInv, NEW t \in Thread, Checkpoint(t)
    PROVE  CommandInv'
  <1> DEFINE j == job[t]
             n == Len(checkpoints) + 1
  <1>1. UNCHANGED <<disk, tmp, changes, clock>> /\ j.pc \in {"checkpoint", "snapshot"}
    BY DEF Checkpoint
  <1>2. CASE Finish(t, FALSE) /\ UNCHANGED checkpoints
    BY <1>1, <1>2, FinishQuietly
  <1>3. ASSUME NEW torn \in BOOLEAN, create(t, torn), UNCHANGED audit,
               job' = [job EXCEPT ![t].pc = IF job[t].kind = "safe" /\ @ = "checkpoint"
                                            THEN "snapshot" ELSE "execute",
                                  ![t].moved = IF job[t].pc = "checkpoint" THEN {} ELSE @,
                                  ![t].own = @ \cup (DOMAIN checkpoints' \ DOMAIN checkpoints)]
        PROVE  CommandInv'
    <2> DEFINE new == [files |-> [f \in j.files |-> disk[f]], deleted |-> FALSE, torn |-> torn]
    <2>1. /\ j \in Job /\ checkpoints \in Seq(Snapshot) /\ disk \in [Files -> Content]
          /\ ThreadInv(j) /\ j.files # {}
      BY <1>1 DEF CommandInv, Typed, ThreadInv, Saved
    <2>2. new \in Snapshot
      BY <2>1 DEF Job, Snapshot
    <2>3. checkpoints' = Append(checkpoints, new)
      BY <1>3 DEF create
    <2>4. new.files = [f \in j.files |-> disk[f]]
      OBVIOUS
    <2> HIDE DEF new
    <2>5. /\ checkpoints' \in Seq(Snapshot) /\ n \in DOMAIN checkpoints'
          /\ checkpoints'[n] = new /\ n \in Nat /\ n \notin DOMAIN checkpoints
          /\ \A i \in DOMAIN checkpoints : i \in DOMAIN checkpoints' /\ checkpoints'[i] = checkpoints[i]
          /\ DOMAIN checkpoints' = DOMAIN checkpoints \cup {n}
      BY <2>1, <2>2, <2>3, AppendProperties
    <2> HIDE DEF n
    <2>6. /\ job' = [job EXCEPT ![t] = job'[t]] /\ job'[t] \in Job
          /\ job'[t].pc = (IF j.kind = "safe" /\ j.pc = "checkpoint" THEN "snapshot" ELSE "execute")
          /\ job'[t].kind = j.kind /\ job'[t].patch = j.patch /\ job'[t].id = j.id
          /\ job'[t].force = j.force /\ job'[t].files = j.files /\ job'[t].todo = j.todo
          /\ job'[t].record = j.record /\ job'[t].own = j.own \cup {n}
          /\ job'[t].moved = IF j.pc = "checkpoint" THEN {} ELSE j.moved
      <3>1. DOMAIN checkpoints' \ DOMAIN checkpoints = {n}
        BY <2>5
      <3>2. job' = [job EXCEPT ![t] =
                      [j EXCEPT !.pc = IF j.kind = "safe" /\ j.pc = "checkpoint"
                                       THEN "snapshot" ELSE "execute",
                                !.moved = IF j.pc = "checkpoint" THEN {} ELSE j.moved,
                                !.own = j.own \cup {n}]]
        BY <1>3, <3>1
      <3>3. QED
        BY <2>1, <2>5, <3>2 DEF CommandInv, Typed, Job, PC
    <2>7. job' \in [Thread -> Job]
      BY <2>6 DEF CommandInv, Typed
    <2>8. Typed'
      BY <1>1, <1>3, <2>5, <2>7 DEF CommandInv, Typed
    <2>9. Grows
      BY <1>1, <2>5 DEF Grows
    <2>10. Records'
      BY <1>1 DEF CommandInv, Records
    <2>11. j.todo = <<>> /\ DOMAIN j.todo = {}
      BY <1>1, <2>1 DEF ThreadInv, Stage, Writing, Job
    <2>12. Stage(job[t])'
      BY <1>1, <2>1, <2>5, <2>6, <2>11 DEF ThreadInv, Stage, Writing
    <2>13. Record(job[t])'
      BY <1>1, <2>1, <2>6, <2>11 DEF ThreadInv, Record, Confused
    <2>14. Saved(job[t])'
      <3>1. ASSUME NEW f \in j.files, f \notin job'[t].moved
            PROVE  Kept(job[t], f, disk[f])'
        <4>1. \A i \in j.own : /\ f \in DOMAIN checkpoints[i].files
                               /\ checkpoints[i].files[f] = disk[f] /\ i \in DOMAIN checkpoints
          <5>1. CASE j.pc = "checkpoint"
            BY <2>1, <5>1 DEF ThreadInv, Stage
          <5>2. CASE j.pc = "snapshot"
            BY <2>1, <2>6, <3>1, <5>2 DEF ThreadInv, Stage, Saved, Kept
          <5>3. QED
            BY <1>1, <5>1, <5>2
        <4>2. f \in DOMAIN checkpoints'[n].files /\ checkpoints'[n].files[f] = disk[f]
          BY <2>4, <2>5, <3>1
        <4>3. QED
          BY <1>1, <2>5, <2>6, <4>1, <4>2 DEF Kept
      <3>2. QED
        BY <2>1, <2>6, <2>11, <3>1 DEF Saved
    <2>15. (Todo(job[t]) /\ Looked(job[t]) /\ Done(job[t]))'
      BY <2>6, <2>11 DEF Todo, Looked, Done, OneEach, Writing
    <2>16. ThreadInv(job[t])'
      BY <2>12, <2>13, <2>14, <2>15 DEF ThreadInv
    <2>17. QED
      BY <1>1, <2>6, <2>8, <2>9, <2>10, <2>16, StepAlone
  <1>4. QED
    BY <1>2, <1>3 DEF Checkpoint

-----------------------------------------------------------------------------
(* The commands end.                                                       *)

\* Deleting a checkpoint marks it; saving it after a restore brings it back, or
\* cuts it short.
LEMMA MarkCheckpoint ==
    ASSUME CommandInv, NEW i \in DOMAIN checkpoints, NEW b \in BOOLEAN, NEW c \in BOOLEAN,
           checkpoints' = [checkpoints EXCEPT ![i] = [@ EXCEPT !.deleted = b, !.torn = c]],
           UNCHANGED changes
    PROVE  checkpoints' \in Seq(Snapshot) /\ Grows /\ Records'
  <1>1. checkpoints \in Seq(Snapshot) /\ checkpoints[i] \in Snapshot
    <2>1. checkpoints \in Seq(Snapshot)
      BY DEF CommandInv, Typed
    <2>2. QED
      BY <2>1, ElementOfSeq
  <1>2. [checkpoints[i] EXCEPT !.deleted = b, !.torn = c] \in Snapshot
    BY <1>1 DEF Snapshot
  <1>3. checkpoints' = [checkpoints EXCEPT ![i] = [checkpoints[i] EXCEPT !.deleted = b, !.torn = c]]
    OBVIOUS
  <1>4. checkpoints' \in Seq(Snapshot)
    BY <1>1, <1>2, <1>3
  <1>5. \A k \in DOMAIN checkpoints :
           k \in DOMAIN checkpoints' /\ checkpoints'[k].files = checkpoints[k].files
    BY <1>1, <1>3 DEF Snapshot
  <1>6. QED
    BY <1>4, <1>5 DEF Grows, CommandInv, Records

\* remove() of a checkpoint.
LEMMA RemoveKeeps ==
    ASSUME CommandInv, NEW t \in Thread, remove(t)
    PROVE  CommandInv'
  <1>1. job[t].id \in DOMAIN checkpoints
    BY DEF remove, CommandInv, ThreadInv, Stage
  <1>2. \E ok \in BOOLEAN : Finish(t, ok)
    BY DEF remove
  <1>3. /\ checkpoints' = [checkpoints EXCEPT ![job[t].id].deleted = TRUE]
        /\ UNCHANGED <<disk, tmp, changes, clock>>
    BY DEF remove
  <1>4. checkpoints' \in Seq(Snapshot) /\ Grows /\ Records'
    <2> DEFINE c == checkpoints[job[t].id]
    <2>1. c \in Snapshot
      <3>1. checkpoints \in Seq(Snapshot)
        BY DEF CommandInv, Typed
      <3>2. QED
        BY <1>1, <3>1, ElementOfSeq
    <2>2. [c EXCEPT !.deleted = TRUE] = [c EXCEPT !.deleted = TRUE, !.torn = c.torn]
      BY <2>1 DEF Snapshot
    <2>3. c.torn \in BOOLEAN
      BY <2>1 DEF Snapshot
    <2>4. checkpoints' = [checkpoints EXCEPT ![job[t].id] = [c EXCEPT !.deleted = TRUE, !.torn = c.torn]]
      BY <1>3, <2>2
    <2>5. QED
      BY <1>1, <1>3, <2>3, <2>4, MarkCheckpoint
  <1>5. QED
    BY <1>2, <1>3, <1>4, FinishStep DEF CommandInv, Typed

\* restore() saves its record.
LEMMA SaveRestoreKeeps ==
    ASSUME CommandInv, NEW t \in Thread, SaveRestore(t)
    PROVE  CommandInv'
  <1>1. UNCHANGED <<disk, tmp, changes, clock>> /\ job[t].id \in DOMAIN checkpoints
    BY DEF SaveRestore, CommandInv, ThreadInv, Stage
  <1>2. CASE Finish(t, FALSE) /\ UNCHANGED checkpoints
    BY <1>1, <1>2, FinishQuietly
  <1>3. CASE Finish(t, TRUE) /\ UNCHANGED checkpoints
    BY <1>1, <1>3, FinishQuietly
  <1>4. ASSUME NEW torn \in BOOLEAN, Finish(t, TRUE),
               checkpoints' = [checkpoints EXCEPT ![job[t].id] =
                                [@ EXCEPT !.deleted = FALSE, !.torn = torn \/ job[t].torn]]
        PROVE  CommandInv'
    <2>1. checkpoints' \in Seq(Snapshot) /\ Grows /\ Records'
      BY <1>1, <1>4, MarkCheckpoint
    <2>2. QED
      BY <1>1, <1>4, <2>1, FinishStep DEF CommandInv, Typed
  <1>5. QED
    BY <1>2, <1>3, <1>4 DEF SaveRestore

\* ChangeStore::save of an apply. A record under an id that was there before is
\* marked as such.
LEMMA SaveChangeKeeps ==
    ASSUME CommandInv, NEW t \in Thread, SaveChange(t)
    PROVE  CommandInv'
  <1> DEFINE j == job[t]
             new(torn) == [files |-> j.record, reverted |-> FALSE, torn |-> torn,
                           reused |-> j.id \in DOMAIN changes]
  <1>1. /\ UNCHANGED <<disk, tmp, checkpoints, clock>>
        /\ j.pc = "save" /\ j.kind \in {"apply", "safe"}
    BY DEF SaveChange
  <1>2. CASE Finish(t, FALSE) /\ UNCHANGED changes
    BY <1>1, <1>2, FinishQuietly
  <1>3. ASSUME NEW torn \in BOOLEAN,
               changes' = [x \in {j.id} \cup DOMAIN changes |->
                              IF x # j.id THEN changes[x] ELSE new(torn)],
               \/ Finish(t, TRUE)
               \/ j.kind = "safe" /\ job' = [job EXCEPT ![t].pc = "test"] /\ UNCHANGED audit
        PROVE  CommandInv'
    <2>1. /\ j \in Job /\ ThreadInv(j) /\ Records
          /\ changes \in UNION {[S -> Change] : S \in SUBSET Nat}
      BY DEF CommandInv, Typed
    <2>2. /\ new(torn) \in Change /\ new(torn).files = j.record
          /\ new(torn).reused = (j.id \in DOMAIN changes)
      BY <2>1 DEF Job, Change
    <2> HIDE DEF new
    <2>4. changes' = [x \in {j.id} \cup DOMAIN changes |-> IF x # j.id THEN changes[x] ELSE new(torn)]
      BY <1>3
    <2>5. /\ j.id \in Nat /\ DOMAIN changes \subseteq Nat
          /\ \A x \in DOMAIN changes : changes[x] \in Change
      <3>1. PICK S \in SUBSET Nat : changes \in [S -> Change]
        BY <2>1
      <3>2. j.id \in Nat
        BY <2>1 DEF Job
      <3>3. QED
        BY <3>1, <3>2
    <2>6. /\ changes' \in [{j.id} \cup DOMAIN changes -> Change]
          /\ {j.id} \cup DOMAIN changes \in SUBSET Nat
      BY <2>2, <2>4, <2>5
    <2>7. changes' \in UNION {[S -> Change] : S \in SUBSET Nat}
      BY <2>6
    <2>8. Grows
      BY <1>1, <2>2, <2>4 DEF Grows
    <2>9. Records'
      <3>1. j.record # <<>> /\ OneEach(j.record)
        BY <1>1, <2>1 DEF ThreadInv, Record
      <3>2. QED
        BY <2>1, <2>2, <2>4, <3>1 DEF Records
    <2>10. CASE Finish(t, TRUE)
      BY <1>1, <2>7, <2>8, <2>9, <2>10, FinishStep DEF CommandInv, Typed
    <2>11. CASE j.kind = "safe" /\ job' = [job EXCEPT ![t].pc = "test"] /\ UNCHANGED audit
      <3>1. /\ job' = [job EXCEPT ![t] = job'[t]] /\ job'[t] \in Job
            /\ job'[t].pc = "test" /\ job'[t].kind = "safe" /\ job'[t].patch = j.patch
            /\ job'[t].files = j.files /\ job'[t].todo = j.todo /\ job'[t].record = j.record
            /\ job'[t].moved = j.moved /\ job'[t].short = j.short /\ job'[t].torn = j.torn
            /\ job'[t].own = j.own
        BY <2>1, <2>11 DEF CommandInv, Typed, Job, PC
      <3>2. job' \in [Thread -> Job]
        BY <3>1 DEF CommandInv, Typed
      <3>3. Typed'
        BY <1>1, <2>7, <2>11, <3>2 DEF CommandInv, Typed
      <3>4. j.todo = <<>> /\ DOMAIN j.todo = {}
        BY <1>1, <2>1 DEF ThreadInv, Stage, Writing
      <3>5. (Stage(job[t]) /\ Record(job[t]))'
        BY <1>1, <2>1, <2>11, <3>1, <3>4 DEF ThreadInv, Stage, Record, Writing, Kind, Changing
      <3>6. (Todo(job[t]) /\ Looked(job[t]) /\ Saved(job[t]))'
        BY <3>1, <3>4 DEF Todo, Looked, Saved, OneEach
      <3>7. Done(job[t])'
        <4>1. \A f : Intended(job[t], f)' = Intended(j, f)
          BY <2>11, <3>1 DEF Intended
        <4>2. ~j.torn => \A f \in j.files \ (j.moved \cup j.short) :
                 f \in Paths(j.todo) \/ disk[f] = Intended(j, f)
          BY <1>1, <2>1 DEF ThreadInv, Done, Confused, Writing
        <4>3. QED
          BY <1>1, <3>1, <4>1, <4>2 DEF Done
      <3>8. ThreadInv(job[t])'
        BY <3>5, <3>6, <3>7 DEF ThreadInv
      <3>9. QED
        BY <1>1, <2>8, <2>9, <3>1, <3>3, <3>8, StepAlone
    <2>12. QED
      BY <1>3, <2>10, <2>11
  <1>4. \A torn : [x \in {j.id} \cup DOMAIN changes |-> IF x # j.id THEN changes[x] ELSE new(torn)]
        = [id \in {job[t].id} \cup DOMAIN changes |->
              IF id # job[t].id THEN changes[id]
              ELSE [files |-> job[t].record, reverted |-> FALSE, torn |-> torn,
                    reused |-> id \in DOMAIN changes]]
    OBVIOUS
  <1>5. QED
    BY <1>1, <1>2, <1>3, <1>4 DEF SaveChange

\* revert() saves the record it loaded: the one that is there, unless the id is
\* used twice.
LEMMA SaveRevertKeeps ==
    ASSUME CommandInv, NEW t \in Thread, SaveRevert(t)
    PROVE  CommandInv'
  <1> DEFINE j == job[t]
             new(torn) == [changes[j.id] EXCEPT !.files = j.record, !.reverted = TRUE, !.torn = torn]
  <1>1. /\ UNCHANGED <<disk, tmp, checkpoints, clock>>
        /\ j.pc = "save" /\ j.kind = "revert" /\ Finish(t, TRUE)
    BY DEF SaveRevert
  <1>2. CASE UNCHANGED changes
    BY <1>1, <1>2, FinishQuietly
  <1>3. ASSUME NEW torn \in BOOLEAN, changes' = [changes EXCEPT ![j.id] = new(torn)]
        PROVE  CommandInv'
    <2>1. /\ j \in Job /\ ThreadInv(j) /\ Records
          /\ changes \in UNION {[S -> Change] : S \in SUBSET Nat}
      BY DEF CommandInv, Typed
    <2>2. /\ j.id \in DOMAIN changes /\ j.record # <<>> /\ OneEach(j.record)
          /\ ~changes[j.id].reused => j.record = changes[j.id].files
      BY <1>1, <2>1 DEF ThreadInv, Stage, Record, Confused
    <2>3. changes[j.id] \in Change
      BY <2>1, <2>2
    <2>4. /\ new(torn) \in Change /\ new(torn).files = j.record
          /\ new(torn).reused = changes[j.id].reused
      BY <2>1, <2>3 DEF Job, Change
    <2> HIDE DEF new
    <2>5. PICK S \in SUBSET Nat : changes \in [S -> Change]
      BY <2>1
    <2>6. changes' \in [S -> Change]
      BY <1>3, <2>4, <2>5
    <2>7. Grows
      BY <1>1, <1>3, <2>2, <2>4, <2>5, <2>6 DEF Grows
    <2>8. Records'
      BY <1>3, <2>1, <2>2, <2>4, <2>5, <2>6 DEF Records
    <2>9. QED
      BY <1>1, <2>6, <2>7, <2>8, FinishStep DEF CommandInv, Typed
  <1>4. QED
    BY <1>2, <1>3 DEF SaveRevert

\* A command that ends without a write or a record.
LEMMA EndKeeps ==
    ASSUME CommandInv, NEW t \in Thread, WriteFails(t) \/ TestLoop(t)
    PROVE  CommandInv'
  <1>1. /\ \E ok \in BOOLEAN : Finish(t, ok)
        /\ UNCHANGED <<disk, tmp, checkpoints, changes, clock>>
    BY DEF WriteFails, TestLoop, storeVars
  <1>2. QED
    BY <1>1, FinishQuietly

\* The process dies: no thread has claims any more.
LEMMA CrashKeeps ==
    ASSUME CommandInv, Crash
    PROVE  CommandInv'
  <1>1. /\ UNCHANGED <<disk, tmp, checkpoints, changes, clock, audit>>
        /\ job' = [u \in Thread |-> Idle]
    BY DEF Crash, storeVars
  <1>2. Typed'
    BY <1>1, IdleFields DEF CommandInv, Typed
  <1>3. \A u \in Thread : ThreadInv(job[u])'
    BY <1>1, IdleInv
  <1>4. QED
    BY <1>1, <1>2, <1>3, GrowsNot DEF CommandInv

\* A request is answered.
LEMMA AnswerKeeps ==
    ASSUME CommandInv, UNCHANGED <<disk, tmp, checkpoints, changes, clock, audit, job>>
    PROVE  CommandInv'
  <1>1. Typed' /\ Grows /\ Records'
    BY GrowsNot DEF CommandInv, Typed
  <1>2. QED
    BY <1>1, Unmoved DEF CommandInv

-----------------------------------------------------------------------------
(* One call on a file: the user's editor and the file tools.               *)

\* The user saves a file.
LEMMA EditKeeps ==
    ASSUME CommandInv, NEW f \in Contested, Edit(f)
    PROVE  CommandInv'
  <1> DEFINE m == (IF disk[f] = NoFile THEN {} ELSE disk[f][1]) \cup {"edit"}
  <1>1. f \in Files
    BY ChangeAssumption
  <1>2. /\ disk' = [disk EXCEPT ![f] = <<m>>] /\ job' = Touched(f)
        /\ UNCHANGED <<tmp, checkpoints, changes, clock, audit>>
    BY DEF Edit, storeVars
  <1>3. disk \in [Files -> Content] /\ disk[f] \in Content
    BY <1>1 DEF CommandInv, Typed
  <1>4. m \in SUBSET (Patches \cup {"base", "tool", "edit"})
    BY <1>3 DEF Content, NoFile
  <1> HIDE DEF m
  <1>5. disk' \in [Files -> Content]
    BY <1>1, <1>2, <1>3, <1>4 DEF Content
  <1>6. job' \in [Thread -> Job]
    BY <1>1, <1>2, TouchedType DEF CommandInv
  <1>7. Typed' /\ Grows /\ Records'
    BY <1>2, <1>5, <1>6, GrowsNot DEF CommandInv, Typed
  <1>8. ASSUME NEW u \in Thread
        PROVE  ThreadInv(job[u])'
    <2>1. CASE job[u].pc = "idle"
      BY <1>2, <2>1, IdleInv DEF CommandInv, ThreadInv, Stage, Touched
    <2>2. CASE job[u].pc # "idle"
      <3>1. job'[u] = [job[u] EXCEPT !.moved = @ \cup {f}, !.stale = @ \cup {f}]
        BY <1>2, <2>2 DEF Touched
      <3>2. \A g \in Files \ {f} : disk'[g] = disk[g] /\ tmp'[g] = tmp[g]
        BY <1>2, <1>3
      <3>3. Aside(u)
        BY <1>1, <3>1, <3>2 DEF Aside
      <3>4. QED
        BY <1>7, <2>2, <3>3, Bystander
    <2>3. QED
      BY <2>1, <2>2
  <1>9. QED
    BY <1>7, <1>8 DEF CommandInv

\* write_file and delete_file.
LEMMA FileToolKeeps ==
    ASSUME CommandInv, NEW t \in Thread, FileTool(t)
    PROVE  CommandInv'
  <1> DEFINE f == CHOOSE g \in job[t].files : TRUE
             c(torn) == IF job[t].kind = "unlink" THEN NoFile
                        ELSE IF torn THEN CutShort ELSE <<{"tool"}>>
  <1>1. job[t].pc = "execute" /\ job[t].kind \in {"write", "unlink"}
    BY DEF FileTool
  <1>2. f \in Files
    <2>1. job[t].files # {} /\ job[t].files \subseteq Files
      BY <1>1 DEF CommandInv, Typed, Job, ThreadInv, Stage
    <2>2. QED
      BY <2>1
  <1>3. \A torn \in BOOLEAN : c(torn) \in Content
    BY DEF Content, CutShort
  <1>4. \A torn : Write(f, c(torn), {}).file = f
    BY DEF Write
  <1>5. PICK torn \in BOOLEAN :
           /\ disk' = [disk EXCEPT ![f] = c(torn)] /\ job' = [Touched(f) EXCEPT ![t] = Idle]
           /\ UNCHANGED <<tmp, checkpoints, changes, clock, audit>>
    BY <1>4 DEF FileTool, Install, storeVars
  <1> HIDE DEF f, c
  <1>6. /\ disk' \in [Files -> Content]
        /\ \A g \in Files \ {f} : disk'[g] = disk[g] /\ tmp'[g] = tmp[g]
    BY <1>2, <1>3, <1>5 DEF CommandInv, Typed
  <1>7. job'[t] = Idle
    BY <1>5 DEF Touched
  <1>8. job' \in [Thread -> Job]
    BY <1>2, <1>5, TouchedType, IdleFields DEF CommandInv
  <1>9. Typed' /\ Grows /\ Records'
    BY <1>5, <1>6, <1>8, GrowsNot DEF CommandInv, Typed
  <1>10. QED
    BY <1>2, <1>5, <1>6, <1>7, <1>9, IdleInv, StepTouching

-----------------------------------------------------------------------------
(* The handlers look at the files and decide on the writes.                *)

\* PatchService::apply: the writes are computed from what is there.
LEMMA ReadApplyKeeps ==
    ASSUME CommandInv, NEW t \in Thread, ReadApply(t)
    PROVE  CommandInv'
  <1> DEFINE j == job[t]
             p == j.patch
             diff == DiffOf[p]
             entry(i) == [file |-> diff[i].file, before |-> disk[diff[i].file],
                          after |-> Patched(p, diff[i].kind, disk[diff[i].file])]
             entries == [i \in DOMAIN diff |-> entry(i)]
             todo == [i \in DOMAIN entries |->
                        Write(entries[i].file, entries[i].after, {entries[i].before})]
  <1>1. /\ j.pc = "execute" /\ j.kind \in {"apply", "safe"}
        /\ UNCHANGED <<disk, tmp, checkpoints, changes>>
    BY DEF ReadApply
  <1>2. CASE Finish(t, FALSE) /\ UNCHANGED clock
    BY <1>1, <1>2, FinishQuietly
  <1>3. CASE \E ms \in {clock, clock + 1} :
               /\ clock' = ms /\ UNCHANGED audit
               /\ job' = [job EXCEPT ![t].pc = "write", ![t].id = ms, ![t].stale = {},
                                     ![t].record = entries, ![t].todo = todo]
    <2>1. PICK ms \in {clock, clock + 1} :
               /\ clock' = ms /\ UNCHANGED audit
               /\ job' = [job EXCEPT ![t].pc = "write", ![t].id = ms, ![t].stale = {},
                                     ![t].record = entries, ![t].todo = todo]
      BY <1>3
    <2>2. j \in Job /\ ThreadInv(j) /\ disk \in [Files -> Content] /\ clock \in Nat
      BY DEF CommandInv, Typed
    <2>3. p \in Patches /\ j.files = affected_paths(p) /\ j.todo = <<>>
      BY <1>1, <2>2 DEF ThreadInv, Stage, Writing
    <2>4. diff \in Seq(Hunks) /\ diff # <<>> /\ OneEach(diff)
      BY <2>3, ChangeAssumption DEF Hunks, OneEach
    <2> HIDE DEF p, diff
    <2>5. ASSUME NEW i \in DOMAIN diff
          PROVE  /\ diff[i].file \in Files /\ entry(i) \in Entries
                 /\ Write(diff[i].file, entry(i).after, {entry(i).before}) \in Writes
      <3>1. diff[i] \in Hunks
        BY <2>4, ElementOfSeq
      <3>2. diff[i].file \in Files /\ disk[diff[i].file] \in Content
        BY <2>2, <3>1 DEF Hunks
      <3>3. Patched(p, diff[i].kind, disk[diff[i].file]) \in Content
        BY <2>3, <3>2, PatchedType
      <3>4. QED
        BY <3>2, <3>3 DEF Entries, Writes, Write
    <2>6. /\ entries \in Seq(Entries) /\ entries # <<>> /\ DOMAIN entries = DOMAIN diff
          /\ todo \in Seq(Writes) /\ todo # <<>> /\ DOMAIN todo = DOMAIN diff
      <3>1. DOMAIN entries = DOMAIN diff /\ DOMAIN todo = DOMAIN diff
        OBVIOUS
      <3>2. DOMAIN diff = 1 .. Len(diff) /\ Len(diff) \in Nat /\ Len(diff) # 0
        BY <2>4
      <3>3. entries \in [1 .. Len(diff) -> Entries] /\ todo \in [1 .. Len(diff) -> Writes]
        BY <2>5, <3>2
      <3> HIDE DEF entries, todo
      <3>4. entries \in Seq(Entries) /\ todo \in Seq(Writes)
        BY <3>2, <3>3
      <3>5. DOMAIN <<>> = {} /\ 1 \in DOMAIN diff
        BY <3>2
      <3>6. QED
        BY <3>1, <3>4, <3>5
    <2>7. \A i \in DOMAIN diff :
             /\ entries[i].file = diff[i].file /\ entries[i].before = disk[diff[i].file]
             /\ todo[i].file = diff[i].file /\ todo[i].content = entries[i].after
             /\ todo[i].expect = {disk[diff[i].file]}
      BY DEF Write
    <2> HIDE DEF entries, todo
    <2>8. /\ job' = [job EXCEPT ![t] = job'[t]] /\ job'[t] \in Job
          /\ job'[t].pc = "write" /\ job'[t].kind = j.kind /\ job'[t].patch = j.patch
          /\ job'[t].files = j.files /\ job'[t].todo = todo /\ job'[t].record = entries
          /\ job'[t].moved = j.moved /\ job'[t].stale = {} /\ job'[t].own = j.own
      <3>1. ms \in Nat
        BY <2>1, <2>2
      <3>2. job' = [job EXCEPT ![t] = [j EXCEPT !.pc = "write", !.id = ms, !.stale = {},
                                                 !.record = entries, !.todo = todo]]
        BY <2>1
      <3>3. QED
        BY <2>2, <2>6, <3>1, <3>2 DEF CommandInv, Typed, Job, PC
    <2>9. job' \in [Thread -> Job]
      BY <2>8 DEF CommandInv, Typed
    <2>10. Typed' /\ Grows /\ Records'
      BY <1>1, <2>1, <2>2, <2>9, GrowsNot DEF CommandInv, Typed
    <2>11. Stage(job[t])'
      BY <1>1, <2>2, <2>6, <2>8 DEF ThreadInv, Stage, Writing, Changing
    <2>12. OneEach(entries) /\ OneEach(todo) /\ Paths(entries) = j.files /\ Paths(todo) = j.files
      <3>1. OneEach(entries) /\ OneEach(todo)
        BY <2>4, <2>6, <2>7 DEF OneEach
      <3>2. j.files = Paths(diff)
        BY <2>3 DEF affected_paths, Paths, p, diff
      <3>3. QED
        BY SMTT(30), <2>6, <2>7, <3>1, <3>2 DEF Paths
    <2>13. Record(job[t])'
      BY <1>1, <2>6, <2>8, <2>12 DEF Record
    <2>14. Todo(job[t])'
      BY <1>1, <2>6, <2>7, <2>8, <2>12 DEF Todo
    <2>15. Looked(job[t])'
      <3>1. \A i \in DOMAIN job'[t].todo : Expected(job[t], job[t].todo[i])'
        BY <1>1, <2>6, <2>7, <2>8 DEF Expected
      <3>2. 1 \in DOMAIN todo /\ Head(todo) = todo[1]
        BY <2>6, TailProperties
      <3>3. Expected(job[t], Head(job[t].todo))'
        BY <2>8, <3>1, <3>2 DEF Expected
      <3>4. QED
        BY <3>1, <3>3 DEF Looked
    <2>16. Saved(job[t])'
      <3>1. \A f \in j.files : f \in j.moved \/ Kept(j, f, disk[f])
        BY <1>1, <2>2 DEF ThreadInv, Saved
      <3>2. \A i \in DOMAIN todo : todo[i].file \in j.files
        BY <2>12 DEF Paths
      <3>3. QED
        BY <1>1, <2>8, <3>1, <3>2 DEF Saved, Kept
    <2>17. Done(job[t])'
      BY <2>8, <2>12 DEF Done
    <2>18. ThreadInv(job[t])'
      BY <2>11, <2>13, <2>14, <2>15, <2>16, <2>17 DEF ThreadInv
    <2>19. QED
      BY <1>1, <2>8, <2>10, <2>18, StepAlone
  <1>4. QED
    BY <1>2, <1>3 DEF ReadApply

\* revert(): the writes put back what the record says was there.
LEMMA ReadRevertKeeps ==
    ASSUME CommandInv, NEW t \in Thread, ReadRevert(t)
    PROVE  CommandInv'
  <1> DEFINE j == job[t]
             record == changes[j.id].files
             write(i) == Write(record[i].file, record[i].before,
                               IF j.force THEN {} ELSE {record[i].after})
             todo == [i \in DOMAIN record |-> write(i)]
  <1>1. /\ j.pc = "execute" /\ j.kind = "revert"
        /\ UNCHANGED <<disk, tmp, checkpoints, changes, clock>>
    BY DEF ReadRevert, storeVars
  <1>2. CASE Finish(t, FALSE)
    BY <1>1, <1>2, FinishQuietly
  <1>3. CASE /\ Unchanged(t, record) /\ UNCHANGED audit
             /\ job' = [job EXCEPT ![t].pc = "write", ![t].stale = {},
                                   ![t].record = record, ![t].todo = todo]
    <2>1. j \in Job /\ ThreadInv(j) /\ Records
      BY DEF CommandInv, Typed
    <2>2. j.id \in DOMAIN changes /\ j.todo = <<>> /\ (~Confused(j) => j.files = Paths(record))
      BY <1>1, <2>1 DEF ThreadInv, Stage, Record, Writing
    <2>3. changes[j.id] \in Change
      <3>1. changes \in UNION {[S -> Change] : S \in SUBSET Nat}
        BY DEF CommandInv, Typed
      <3>2. QED
        BY <2>2, <3>1
    <2>4. record \in Seq(Entries) /\ record # <<>> /\ OneEach(record)
      BY <2>1, <2>2, <2>3 DEF Change, Records
    <2>5. j.force \/ \A i \in DOMAIN record : disk[record[i].file] = record[i].after
      BY <1>3 DEF Unchanged
    <2> HIDE DEF record
    <2>6. ASSUME NEW i \in DOMAIN record
          PROVE  write(i) \in Writes /\ write(i).file = record[i].file
                 /\ write(i).content = record[i].before
                 /\ write(i).expect = IF j.force THEN {} ELSE {record[i].after}
      <3>1. record[i] \in Entries
        BY <2>4, ElementOfSeq
      <3>2. QED
        BY <3>1 DEF Entries, Writes, Write
    <2>7. todo \in Seq(Writes) /\ todo # <<>> /\ DOMAIN todo = DOMAIN record
      <3>1. DOMAIN todo = DOMAIN record
        OBVIOUS
      <3>2. DOMAIN record = 1 .. Len(record) /\ Len(record) \in Nat /\ Len(record) # 0
        BY <2>4
      <3>3. todo \in [1 .. Len(record) -> Writes]
        BY <2>6, <3>2
      <3> HIDE DEF todo
      <3>4. todo \in Seq(Writes)
        BY <3>2, <3>3
      <3>5. DOMAIN <<>> = {} /\ 1 \in DOMAIN record
        BY <3>2
      <3>6. QED
        BY <3>1, <3>4, <3>5
    <2>8. \A i \in DOMAIN record :
             /\ todo[i].file = record[i].file /\ todo[i].content = record[i].before
             /\ todo[i].expect = IF j.force THEN {} ELSE {record[i].after}
      BY <2>6
    <2> HIDE DEF todo
    <2>9. /\ job' = [job EXCEPT ![t] = job'[t]] /\ job'[t] \in Job
          /\ job'[t].pc = "write" /\ job'[t].kind = "revert" /\ job'[t].patch = j.patch
          /\ job'[t].id = j.id /\ job'[t].force = j.force
          /\ job'[t].files = j.files /\ job'[t].todo = todo /\ job'[t].record = record
          /\ job'[t].moved = j.moved /\ job'[t].stale = {} /\ job'[t].own = j.own
      <3>1. job' = [job EXCEPT ![t] = [j EXCEPT !.pc = "write", !.stale = {},
                                                 !.record = record, !.todo = todo]]
        BY <1>3
      <3>2. QED
        BY <1>1, <2>1, <2>4, <2>7, <3>1 DEF CommandInv, Typed, Job, PC
    <2>10. job' \in [Thread -> Job]
      BY <2>9 DEF CommandInv, Typed
    <2>11. Typed' /\ Grows /\ Records'
      BY <1>1, <1>3, <2>10, GrowsNot DEF CommandInv, Typed
    <2>12. Stage(job[t])'
      BY <1>1, <2>1, <2>7, <2>9 DEF ThreadInv, Stage, Writing, Changing
    <2>13. OneEach(todo) /\ Paths(todo) = Paths(record)
      <3>1. OneEach(todo)
        BY <2>4, <2>7, <2>8 DEF OneEach
      <3>2. QED
        BY <2>7, <2>8, <3>1 DEF Paths
    <2>14. Confused(job[t])' <=> Confused(j)
      BY <1>1, <2>9 DEF Confused
    <2>15. Record(job[t])'
      BY <1>1, <2>2, <2>4, <2>9, <2>14 DEF Record, record
    <2>16. Todo(job[t])'
      BY ZenonT(30), <2>7, <2>8, <2>9, <2>13 DEF Todo
    <2>17. Looked(job[t])'
      <3>1. \A i \in DOMAIN job'[t].todo : Expected(job[t], job[t].todo[i])'
        <4>1. CASE j.force
          BY <2>7, <2>8, <2>9, <4>1 DEF Expected
        <4>2. CASE ~j.force
          BY <1>1, <2>5, <2>7, <2>8, <2>9, <4>2 DEF Expected
        <4>3. QED
          BY <4>1, <4>2
      <3>2. 1 \in DOMAIN todo /\ Head(todo) = todo[1]
        BY <2>7, TailProperties
      <3>3. Expected(job[t], Head(job[t].todo))'
        BY <2>9, <3>1, <3>2 DEF Expected
      <3>4. QED
        BY <3>1, <3>3 DEF Looked
    <2>18. Saved(job[t])'
      <3>1. \A f \in j.files : f \in j.moved \/ Kept(j, f, disk[f])
        BY <1>1, <2>1 DEF ThreadInv, Saved
      <3>2. ~Confused(j) => \A i \in DOMAIN todo : todo[i].file \in j.files
        BY <2>2, <2>13 DEF Paths
      <3>3. QED
        BY <1>1, <2>9, <2>14, <3>1, <3>2 DEF Saved, Kept
    <2>19. Done(job[t])'
      BY <2>2, <2>9, <2>13, <2>14 DEF Done
    <2>20. ThreadInv(job[t])'
      BY <2>12, <2>15, <2>16, <2>17, <2>18, <2>19 DEF ThreadInv
    <2>21. QED
      BY <1>1, <2>9, <2>11, <2>20, StepAlone
  <1>4. QED
    BY <1>2, <1>3 DEF ReadRevert

\* restore(): the writes put back what the checkpoint holds.
LEMMA ReadRestoreKeeps ==
    ASSUME CommandInv, NEW t \in Thread, ReadRestore(t)
    PROVE  CommandInv'
  <1> DEFINE j == job[t]
             saved == checkpoints[j.id].files
             write(f) == Write(f, saved[f],
                               IF j.force \/ saved[f] = NoFile THEN {} ELSE {saved[f], NoFile})
             paths == IF j.files = {} THEN DOMAIN saved ELSE j.files
             W == {write(f) : f \in paths}
             todo == SetToSeq(W)
  <1>1. /\ j.pc = "execute" /\ j.kind = "restore"
        /\ UNCHANGED <<disk, tmp, checkpoints, changes, clock>>
    BY DEF ReadRestore, storeVars
  <1>2. CASE Finish(t, FALSE)
    BY <1>1, <1>2, FinishQuietly
  <1>3. CASE job' = [job EXCEPT ![t] = [j EXCEPT !.pc = "save", !.torn = TRUE]] /\ UNCHANGED audit
    <2>1. j \in Job /\ ThreadInv(j)
      BY DEF CommandInv, Typed
    <2>2. j.todo = <<>> /\ DOMAIN j.todo = {}
      BY <1>1, <2>1 DEF ThreadInv, Stage, Writing
    <2>3. /\ job' = [job EXCEPT ![t] = job'[t]] /\ job'[t] \in Job
          /\ job'[t].pc = "save" /\ job'[t].kind = "restore" /\ job'[t].patch = j.patch
          /\ job'[t].id = j.id /\ job'[t].files = j.files /\ job'[t].todo = j.todo
          /\ job'[t].torn = TRUE /\ job'[t].own = j.own
      BY <1>1, <1>3, <2>1 DEF CommandInv, Typed, Job, PC
    <2>4. job' \in [Thread -> Job]
      BY <2>3 DEF CommandInv, Typed
    <2>5. Typed' /\ Grows /\ Records'
      BY <1>1, <1>3, <2>4, GrowsNot DEF CommandInv, Typed
    <2>6. Stage(job[t])'
      BY <1>1, <2>1, <2>2, <2>3 DEF ThreadInv, Stage, Writing, Changing
    <2>7. (Record(job[t]) /\ Todo(job[t]) /\ Looked(job[t]) /\ Saved(job[t]) /\ Done(job[t]))'
      BY <2>2, <2>3 DEF Record, Todo, Looked, Saved, Done, OneEach
    <2>8. QED
      BY <1>1, <2>3, <2>5, <2>6, <2>7, StepAlone DEF ThreadInv
  <1>4. CASE /\ job' = [job EXCEPT ![t] = [j EXCEPT !.pc = "check", !.files = paths, !.todo = todo]]
             /\ UNCHANGED audit
    <2>1. j \in Job /\ ThreadInv(j) /\ checkpoints \in Seq(Snapshot)
      BY DEF CommandInv, Typed
    <2>2. /\ j.id \in DOMAIN checkpoints /\ j.files \subseteq DOMAIN saved
          /\ j.files = {} => j.own = {}
      BY <1>1, <2>1 DEF ThreadInv, Stage
    <2>3. checkpoints[j.id] \in Snapshot
      BY <2>1, <2>2, ElementOfSeq
    <2>4. /\ paths # {} /\ paths \subseteq DOMAIN saved /\ paths \subseteq Files
          /\ \A f \in paths : saved[f] \in Content
      BY <2>2, <2>3 DEF Snapshot
    <2>23. j.files # {} => paths = j.files
      OBVIOUS
    <2> HIDE DEF paths
    <2> HIDE DEF saved
    <2>5. ASSUME NEW f \in paths
          PROVE  /\ write(f) \in Writes /\ write(f).file = f /\ write(f).content = saved[f]
                 /\ write(f).expect = IF j.force \/ saved[f] = NoFile THEN {} ELSE {saved[f], NoFile}
      BY <2>4 DEF Writes, Write, Content
    <2> HIDE DEF write
    <2>6. IsFiniteSet(W) /\ W \subseteq Writes /\ W # {}
      <3>1. IsFiniteSet(paths)
        BY <2>4, ChangeAssumption, FS_Subset
      <3> DEFINE g == [f \in paths |-> write(f)]
      <3>2. g \in Surjection(paths, W)
        BY DEF Surjection
      <3>3. IsFiniteSet(W)
        BY <3>1, <3>2, FS_Surjection
      <3>4. W \subseteq Writes
        BY ZenonT(30), <2>5
      <3>5. W # {}
        BY <2>4
      <3>6. QED
        BY <3>3, <3>4, <3>5
    <2>7. ASSUME NEW w \in W
          PROVE  /\ w.file \in paths /\ w.content = saved[w.file] /\ w = write(w.file)
                 /\ w.expect = IF j.force \/ w.content = NoFile THEN {} ELSE {w.content, NoFile}
      <3>1. PICK f \in paths : w = write(f)
        OBVIOUS
      <3>2. w.file = f /\ w.content = saved[f]
        BY <2>5, <3>1
      <3>3. w.expect = IF j.force \/ saved[f] = NoFile THEN {} ELSE {saved[f], NoFile}
        BY <2>5, <3>1
      <3>4. QED
        BY <3>1, <3>2, <3>3
    <2>8. (\A f \in paths : \E w \in W : w.file = f) /\ \A v, w \in W : v.file = w.file => v = w
      <3>1. \A f \in paths : write(f) \in W /\ write(f).file = f
        BY <2>5
      <3>2. \A v, w \in W : v.file = w.file => v = w
        BY <2>7
      <3>3. QED
        BY <3>1, <3>2
    <2> HIDE DEF W
    <2>9. /\ todo \in Seq(W) /\ \A w \in W : \E i \in DOMAIN todo : todo[i] = w
          /\ \A i, k \in DOMAIN todo : todo[i] = todo[k] => i = k
      BY <2>6, SetToSeqProperties
    <2> HIDE DEF todo
    <2>10. \A i \in DOMAIN todo : todo[i] \in W
      BY <2>9, ElementOfSeq
    <2>11. todo \in Seq(Writes) /\ todo # <<>>
      <3>1. DOMAIN todo # {} /\ DOMAIN <<>> = {}
        BY <2>6, <2>9
      <3>2. todo \in Seq(Writes)
        BY <2>6, <2>9
      <3>3. QED
        BY <3>1, <3>2
    <2>12. OneEach(todo) /\ Paths(todo) = paths
      <3>1. OneEach(todo)
        BY <2>8, <2>9, <2>10 DEF OneEach
      <3>2. Paths(todo) \subseteq paths
        BY <2>7, <2>10 DEF Paths
      <3>3. paths \subseteq Paths(todo)
        BY <2>8, <2>9 DEF Paths
      <3>4. QED
        BY <3>1, <3>2, <3>3
    <2>13. /\ job' = [job EXCEPT ![t] = job'[t]] /\ job'[t] \in Job
           /\ job'[t].pc = "check" /\ job'[t].kind = "restore" /\ job'[t].patch = j.patch
           /\ job'[t].id = j.id /\ job'[t].force = j.force
           /\ job'[t].files = paths /\ job'[t].todo = todo /\ job'[t].record = j.record
           /\ job'[t].moved = j.moved /\ job'[t].own = j.own
      <3>1. job' = [job EXCEPT ![t] = [j EXCEPT !.pc = "check", !.files = paths, !.todo = todo]]
        BY <1>4
      <3>2. QED
        BY <1>1, <2>1, <2>4, <2>11, <3>1 DEF CommandInv, Typed, Job, PC
    <2>14. job' \in [Thread -> Job]
      BY <2>13 DEF CommandInv, Typed
    <2>15. Typed' /\ Grows /\ Records'
      BY <1>1, <1>4, <2>14, GrowsNot DEF CommandInv, Typed
    <2>16. Stage(job[t])'
      BY <1>1, <2>1, <2>2, <2>4, <2>11, <2>13 DEF ThreadInv, Stage, Writing, Changing, saved
    <2>17. (Record(job[t]) /\ Looked(job[t]))'
      BY <2>13 DEF Record, Looked
    <2>18. Todo(job[t])'
      BY <1>1, <2>7, <2>10, <2>12, <2>13 DEF Todo, saved
    <2>19. Saved(job[t])'
      <3>1. \A f \in paths : f \in j.moved \/ Kept(j, f, disk[f])
        <4>1. CASE j.files = {}
          BY <2>2, <4>1 DEF Kept
        <4>2. CASE j.files # {}
          BY <1>1, <2>1, <2>23, <4>2 DEF ThreadInv, Saved
        <4>3. QED
          BY <4>1, <4>2
      <3>2. \A i \in DOMAIN todo : todo[i].file \in paths
        BY <2>12 DEF Paths
      <3>3. QED
        BY <1>1, <2>13, <3>1, <3>2 DEF Saved, Kept
    <2>20. Done(job[t])'
      BY <2>12, <2>13 DEF Done
    <2>21. ThreadInv(job[t])'
      BY <2>16, <2>17, <2>18, <2>19, <2>20 DEF ThreadInv
    <2>22. QED
      BY <1>1, <2>13, <2>15, <2>21, StepAlone
  <1>5. QED
    BY <1>2, <1>3, <1>4 DEF ReadRestore

-----------------------------------------------------------------------------
(* The writes, one file at a time.                                         *)

\* A thread that is writing has a first write, of a path of the workspace.
LEMMA FirstWrite ==
    ASSUME CommandInv, NEW t \in Thread, job[t].pc \in Writing
    PROVE  /\ job[t] \in Job /\ ThreadInv(job[t])
           /\ job[t].todo \in Seq(Writes) /\ job[t].todo # <<>> /\ 1 \in DOMAIN job[t].todo
           /\ Head(job[t].todo) = job[t].todo[1] /\ Head(job[t].todo) \in Writes
           /\ Head(job[t].todo).file \in Files /\ Head(job[t].todo).content \in Content
           /\ Head(job[t].todo).file \in Paths(job[t].todo)
  <1>1. job[t] \in Job /\ ThreadInv(job[t])
    BY DEF CommandInv, Typed
  <1>2. job[t].todo \in Seq(Writes) /\ job[t].todo # <<>>
    BY <1>1 DEF ThreadInv, Stage, Job
  <1>3. /\ 1 \in DOMAIN job[t].todo
        /\ Head(job[t].todo) = job[t].todo[1] /\ Head(job[t].todo) \in Writes
    BY <1>2, TailProperties
  <1>4. QED
    BY <1>1, <1>2, <1>3 DEF Writes, Paths

\* The first write has the content its path is to get.
LEMMA FirstIntended ==
    ASSUME CommandInv, NEW t \in Thread, job[t].pc \in Writing
    PROVE  Head(job[t].todo).content = Intended(job[t], Head(job[t].todo).file)
  <1> DEFINE j == job[t]
             w == Head(j.todo)
  <1>1. j \in Job /\ ThreadInv(j) /\ 1 \in DOMAIN j.todo /\ w = j.todo[1]
    BY FirstWrite
  <1>2. j.kind \in Changing /\ (j.pc = "check" => j.kind = "restore")
    BY <1>1 DEF ThreadInv, Stage
  <1> HIDE DEF w
  <1>3. ASSUME j.kind = "restore"
        PROVE  w.content = Intended(j, w.file)
    BY <1>1, <1>3 DEF ThreadInv, Todo, Intended
  <1>4. ASSUME j.kind # "restore"
        PROVE  w.content = Intended(j, w.file)
    <2>1. OneEach(j.record) /\ j.record \in Seq(Entries)
      BY <1>1, <1>2, <1>4 DEF ThreadInv, Record, Job, Changing, Writing
    <2>2. PICK k \in DOMAIN j.record :
              /\ w.file = j.record[k].file
              /\ w.content = IF j.kind = "revert" THEN j.record[k].before ELSE j.record[k].after
      BY <1>1, <1>2, <1>4 DEF ThreadInv, Todo, Changing
    <2>3. (CHOOSE r \in ToSet(j.record) : r.file = w.file) = j.record[k]
      BY <2>1, <2>2, EntryOf
    <2>4. QED
      BY <1>4, <2>2, <2>3 DEF Intended
  <1>5. QED
    BY <1>3, <1>4 DEF w

\* The thread after its first write.
LEMMA AdvanceFields ==
    ASSUME CommandInv, NEW t \in Thread, job[t].pc \in Writing, job'[t] = Advance(t)
    PROVE  LET j == job[t]
           IN  /\ job'[t] \in Job /\ job'[t].todo = Tail(j.todo)
               /\ job'[t].pc = IF Len(j.todo) = 1 THEN "save"
                               ELSE IF j.kind = "restore" THEN "check" ELSE "write"
               /\ job'[t].kind = j.kind /\ job'[t].patch = j.patch /\ job'[t].id = j.id
               /\ job'[t].force = j.force /\ job'[t].files = j.files /\ job'[t].record = j.record
               /\ job'[t].moved = j.moved /\ job'[t].stale = j.stale
               /\ job'[t].torn = j.torn /\ job'[t].short = j.short /\ job'[t].own = j.own
  <1> DEFINE j == job[t]
  <1>1. j \in Job /\ Tail(j.todo) \in Seq(Writes)
    BY FirstWrite, TailProperties
  <1>2. job'[t] = [j EXCEPT !.todo = Tail(j.todo),
                            !.pc = IF Len(j.todo) = 1 THEN "save"
                                   ELSE IF j.kind = "restore" THEN "check" ELSE "write"]
    BY DEF Advance
  <1>3. QED
    BY <1>1, <1>2 DEF Job, PC

\* A file is done when it has the content it was to get, or was written by
\* somebody else meanwhile: the thread goes on to the next one, or to its end.
LEMMA Advanced ==
    ASSUME CommandInv, NEW t \in Thread, job[t].pc \in Writing, job'[t] = Advance(t),
           UNCHANGED <<checkpoints, changes>>,
           \A g \in Files \ {Head(job[t].todo).file} : disk'[g] = disk[g],
           \/ Head(job[t].todo).file \in job[t].moved \cup job[t].short
           \/ disk'[Head(job[t].todo).file] = Head(job[t].todo).content
    PROVE  ThreadInv(job[t])'
  <1> DEFINE j == job[t]
             w == Head(j.todo)
             rest == Tail(j.todo)
  <1>1. /\ j \in Job /\ ThreadInv(j) /\ j.todo \in Seq(Writes) /\ j.todo # <<>>
        /\ w \in Writes /\ w.file \in Files
    BY FirstWrite
  <1>2. /\ job'[t].todo = rest
        /\ job'[t].pc = IF Len(j.todo) = 1 THEN "save"
                        ELSE IF j.kind = "restore" THEN "check" ELSE "write"
        /\ job'[t].kind = j.kind /\ job'[t].patch = j.patch /\ job'[t].id = j.id
        /\ job'[t].force = j.force /\ job'[t].files = j.files /\ job'[t].record = j.record
        /\ job'[t].moved = j.moved /\ job'[t].stale = j.stale
        /\ job'[t].torn = j.torn /\ job'[t].short = j.short /\ job'[t].own = j.own
    BY AdvanceFields
  <1>3. /\ rest \in Seq(Writes) /\ (rest = <<>> <=> Len(j.todo) = 1)
        /\ \A i \in DOMAIN rest : i + 1 \in DOMAIN j.todo /\ rest[i] = j.todo[i + 1]
    BY <1>1, TailProperties
  <1>4. OneEach(rest) /\ Paths(rest) = Paths(j.todo) \ {w.file}
    BY <1>1, TailPaths DEF ThreadInv, Todo
  <1>5. j.kind \in Changing /\ (j.pc = "check" => j.kind = "restore")
    BY <1>1 DEF ThreadInv, Stage
  <1>6. w.content = Intended(j, w.file) /\ \A g \in Files \ {w.file} : disk'[g] = disk[g]
    BY FirstIntended
  <1> HIDE DEF w, rest
  <1>7. Confused(job[t])' <=> Confused(j)
    BY <1>2 DEF Confused
  <1>8. \A i \in DOMAIN rest : rest[i].file \in Files /\ rest[i].file # w.file
    <2>1. \A i \in DOMAIN rest : rest[i] \in Writes
      BY <1>3, ElementOfSeq
    <2>2. QED
      BY <1>4, <2>1 DEF Paths, Writes
  <1>9. Stage(job[t])'
    BY <1>1, <1>2, <1>3, <1>5 DEF ThreadInv, Stage, Writing, Changing
  <1>10. Record(job[t])'
    BY <1>1, <1>2, <1>5, <1>7 DEF ThreadInv, Record, Writing
  <1>11. Todo(job[t])'
    <2>1. CASE j.kind = "restore"
      <3>1. ASSUME NEW i \in DOMAIN rest
            PROVE  /\ rest[i].file \in j.files
                   /\ rest[i].content = checkpoints[j.id].files[rest[i].file]
                   /\ rest[i].expect = IF j.force \/ rest[i].content = NoFile THEN {}
                                       ELSE {rest[i].content, NoFile}
        BY ZenonT(30), <1>1, <1>3, <2>1 DEF ThreadInv, Todo
      <3>2. QED
        BY <1>2, <1>4, <2>1, <3>1 DEF Todo
    <2>2. CASE j.kind # "restore"
      <3>1. ASSUME NEW i \in DOMAIN rest
            PROVE  \E k \in DOMAIN j.record :
                      /\ rest[i].file = j.record[k].file
                      /\ rest[i].content = IF j.kind = "revert" THEN j.record[k].before
                                           ELSE j.record[k].after
        BY <1>1, <1>3, <1>5, <2>2 DEF ThreadInv, Todo, Changing
      <3>2. QED
        BY <1>2, <1>4, <2>2, <3>1 DEF Todo
    <2>3. QED
      BY <2>1, <2>2
  <1>12. Looked(job[t])'
    <2>1. CASE j.kind = "restore"
      BY <1>2, <2>1 DEF Looked
    <2>2. CASE j.kind # "restore"
      <3>1. \A i \in DOMAIN rest : Expected(j, rest[i])
        BY <1>1, <1>3, <1>5, <2>2 DEF ThreadInv, Looked, Changing
      <3>2. \A i \in DOMAIN job'[t].todo : Expected(job[t], job[t].todo[i])'
        BY <1>2, <1>6, <1>8, <3>1 DEF Expected
      <3>3. rest # <<>> => 1 \in DOMAIN rest /\ Head(rest) = rest[1]
        BY <1>3, TailProperties
      <3>4. job'[t].pc \in {"write", "rename"} => Expected(job[t], Head(job[t].todo))'
        BY <1>2, <1>3, <3>2, <3>3 DEF Expected
      <3>5. QED
        BY <3>2, <3>4 DEF Looked
    <2>3. QED
      BY <2>1, <2>2
  <1>13. Saved(job[t])'
    <2>1. \A i \in DOMAIN rest : LET f == rest[i].file
             IN  f \in j.moved \/ Kept(j, f, disk[f]) \/ Confused(j)
      BY <1>1, <1>3 DEF ThreadInv, Saved
    <2>2. QED
      BY <1>2, <1>3, <1>6, <1>7, <1>8, <2>1 DEF Saved, Kept
  <1>14. Done(job[t])'
    <2>1. \A f : Intended(job[t], f)' = Intended(j, f)
      BY <1>2 DEF Intended
    <2>2. ASSUME ~Confused(j), ~j.torn, NEW f \in j.files, f \notin j.moved, f \notin j.short
          PROVE  f \in Paths(rest) \/ disk'[f] = Intended(j, f)
      <3>1. f \in Paths(j.todo) \/ disk[f] = Intended(j, f)
        BY <1>1, <2>2 DEF ThreadInv, Done
      <3>2. f \in Files
        BY <1>1 DEF Job
      <3>3. CASE f = w.file
        BY <1>6, <2>2, <3>3 DEF w
      <3>4. CASE f # w.file
        BY <1>4, <1>6, <3>1, <3>2, <3>4
      <3>5. QED
        BY <3>3, <3>4
    <2>3. QED
      BY <1>2, <1>7, <2>1, <2>2 DEF Done
  <1>15. QED
    BY <1>9, <1>10, <1>11, <1>12, <1>13, <1>14 DEF ThreadInv

\* A step that changes nothing but where the thread is leaves its writes as they
\* were.
LEMMA SameWork ==
    ASSUME NEW t \in Thread, ThreadInv(job[t]), UNCHANGED <<disk, checkpoints, changes>>,
           job[t].pc \in Writing, job'[t].pc \in Writing,
           job'[t].kind = job[t].kind, job'[t].id = job[t].id, job'[t].force = job[t].force,
           job'[t].files = job[t].files, job'[t].todo = job[t].todo,
           job'[t].record = job[t].record, job'[t].moved = job[t].moved,
           job'[t].own = job[t].own
    PROVE  /\ Confused(job[t])' <=> Confused(job[t])
           /\ \A f : Intended(job[t], f)' = Intended(job[t], f)
           /\ Todo(job[t])' /\ Saved(job[t])'
  <1>1. Confused(job[t])' <=> Confused(job[t])
    BY DEF Confused
  <1>2. \A f : Intended(job[t], f)' = Intended(job[t], f)
    BY DEF Intended
  <1>3. Todo(job[t])'
    <2>1. Todo(job[t])
      BY DEF ThreadInv
    <2>2. /\ job'[t].kind = job[t].kind /\ job'[t].id = job[t].id
          /\ job'[t].force = job[t].force /\ job'[t].files = job[t].files
          /\ job'[t].todo = job[t].todo /\ job'[t].record = job[t].record
          /\ checkpoints' = checkpoints
      OBVIOUS
    <2>3. OneEach(job'[t].todo)
      BY <2>1, <2>2 DEF Todo
    <2>4. QED
      BY ONLY SMTT(60), <2>1, <2>2, <2>3 DEF Todo
  <1>4. Saved(job[t])'
    BY <1>1 DEF ThreadInv, Saved, Kept, Writing
  <1>5. QED
    BY <1>1, <1>2, <1>3, <1>4

\* restore() looks at its next file.
LEMMA RestoreCheckKeeps ==
    ASSUME CommandInv, NEW t \in Thread, RestoreCheck(t)
    PROVE  CommandInv'
  <1> DEFINE j == job[t]
             w == Head(j.todo)
             conflict == /\ ~j.force /\ w.content # NoFile /\ disk[w.file] # NoFile
                         /\ disk[w.file] # w.content
  <1>1. j.pc = "check" /\ j.pc \in Writing /\ UNCHANGED <<disk, tmp, checkpoints, changes, clock>>
    BY DEF RestoreCheck, storeVars, Writing
  <1>2. CASE Finish(t, FALSE)
    BY <1>1, <1>2, FinishQuietly
  <1>3. CASE job' = [job EXCEPT ![t] = Advance(t)] /\ RestoreSkips(t, w) /\ UNCHANGED audit
    <2>1. job'[t] = Advance(t) /\ job' = [job EXCEPT ![t] = job'[t]]
      BY <1>3 DEF CommandInv, Typed
    <2>2. job'[t] \in Job
      BY <1>1, <2>1, AdvanceFields
    <2>3. job' \in [Thread -> Job]
      BY <2>1, <2>2 DEF CommandInv, Typed
    <2>4. Typed' /\ Grows /\ Records'
      BY <1>1, <1>3, <2>3, GrowsNot DEF CommandInv, Typed
    <2>5. ThreadInv(job[t])'
      BY <1>1, <1>3, <2>1, Advanced DEF RestoreSkips
    <2>6. QED
      BY <1>1, <2>1, <2>4, <2>5, StepAlone
  <1>4. CASE /\ ~conflict /\ UNCHANGED audit
             /\ job' = [job EXCEPT ![t] = [j EXCEPT !.pc = "write", !.stale = j.stale \ {w.file}]]
    <2>1. /\ j \in Job /\ ThreadInv(j) /\ j.todo # <<>> /\ 1 \in DOMAIN j.todo
          /\ w = j.todo[1]
      BY <1>1, FirstWrite
    <2>2. j.kind = "restore"
      BY <1>1, <2>1 DEF ThreadInv, Stage
    <2>3. /\ job' = [job EXCEPT ![t] = job'[t]] /\ job'[t] \in Job
          /\ job'[t].pc = "write" /\ job'[t].kind = "restore" /\ job'[t].patch = j.patch
          /\ job'[t].id = j.id /\ job'[t].force = j.force
          /\ job'[t].files = j.files /\ job'[t].todo = j.todo /\ job'[t].record = j.record
          /\ job'[t].moved = j.moved /\ job'[t].stale = j.stale \ {w.file}
          /\ job'[t].torn = j.torn /\ job'[t].short = j.short /\ job'[t].own = j.own
      <3> HIDE DEF w
      <3>1. job' = [job EXCEPT ![t] = [j EXCEPT !.pc = "write", !.stale = j.stale \ {w.file}]]
        BY <1>4
      <3>2. QED
        BY <2>1, <2>2, <3>1 DEF CommandInv, Typed, Job, PC
    <2>4. job' \in [Thread -> Job]
      BY <2>3 DEF CommandInv, Typed
    <2>5. Typed' /\ Grows /\ Records'
      BY <1>1, <1>4, <2>4, GrowsNot DEF CommandInv, Typed
    <2>6. Stage(job[t])'
      BY <1>1, <2>1, <2>2, <2>3 DEF ThreadInv, Stage, Writing, Changing
    <2>7. /\ Confused(job[t])' <=> Confused(j)
          /\ \A f : Intended(job[t], f)' = Intended(j, f)
          /\ Todo(job[t])' /\ Saved(job[t])'
      BY <1>1, <2>1, <2>2, <2>3, SameWork DEF Writing
    <2>8. Looked(job[t])'
      <3>1. w.expect = IF j.force \/ w.content = NoFile THEN {} ELSE {w.content, NoFile}
        BY <2>1, <2>2 DEF ThreadInv, Todo
      <3>2. w.expect = {} \/ disk[w.file] \in w.expect
        BY <1>4, <3>1
      <3>3. Expected(job[t], Head(job[t].todo))'
        BY <1>1, <2>3, <3>2 DEF Expected
      <3>4. QED
        BY <2>3, <3>3 DEF Looked
    <2>9. Record(job[t])'
      BY <2>3 DEF Record
    <2>10. Done(job[t])'
      BY <1>1, <2>1, <2>3, <2>7 DEF ThreadInv, Done
    <2>11. ThreadInv(job[t])'
      BY <2>6, <2>7, <2>8, <2>9, <2>10 DEF ThreadInv
    <2>12. QED
      BY <1>1, <2>3, <2>5, <2>11, StepAlone
  <1>5. QED
    <2>1. \/ Finish(t, FALSE)
          \/ /\ ~conflict
             /\ job' = [job EXCEPT ![t] =
                           IF RestoreSkips(t, w) THEN Advance(t)
                           ELSE [job[t] EXCEPT !.pc = "write", !.stale = @ \ {w.file}]]
             /\ UNCHANGED audit
      BY DEF RestoreCheck
    <2> HIDE DEF w, conflict
    <2>2. CASE RestoreSkips(t, w)
      BY <1>2, <1>3, <2>1, <2>2
    <2>3. CASE ~RestoreSkips(t, w)
      BY <1>2, <1>4, <2>1, <2>3
    <2>4. QED
      BY <2>2, <2>3

\* The first write is done and its file has the content c.
LEMMA InstallKeeps ==
    ASSUME CommandInv, NEW t \in Thread, NEW c \in Content, job[t].pc \in Writing,
           Install(t, Head(job[t].todo), c, Advance(t)),
           c = Head(job[t].todo).content \/ Head(job[t].todo).file \in job[t].moved \cup job[t].short,
           tmp' \in [Files -> [Suffix -> Content]],
           \A g \in Files \ {Head(job[t].todo).file} : tmp'[g] = tmp[g],
           UNCHANGED <<checkpoints, changes, clock, audit>>
    PROVE  CommandInv'
  <1> DEFINE f == Head(job[t].todo).file
  <1>1. f \in Files
    BY FirstWrite
  <1>2. disk' = [disk EXCEPT ![f] = c] /\ job' = [Touched(f) EXCEPT ![t] = Advance(t)]
    BY DEF Install
  <1>3. /\ disk' \in [Files -> Content] /\ disk'[f] = c
        /\ \A g \in Files \ {f} : disk'[g] = disk[g]
    BY <1>1, <1>2 DEF CommandInv, Typed
  <1>4. job'[t] = Advance(t) /\ job' = [Touched(f) EXCEPT ![t] = job'[t]]
    BY <1>2 DEF Touched
  <1>5. job'[t] \in Job
    BY <1>4, AdvanceFields
  <1>6. job' \in [Thread -> Job]
    BY <1>1, <1>4, <1>5, TouchedType DEF CommandInv
  <1>7. Typed' /\ Grows /\ Records'
    BY <1>3, <1>6, GrowsNot DEF CommandInv, Typed
  <1>8. ThreadInv(job[t])'
    BY <1>3, <1>4, Advanced
  <1>9. QED
    BY <1>1, <1>3, <1>4, <1>7, <1>8, StepTouching

\* filesystem::remove.
LEMMA RemoveFileKeeps ==
    ASSUME CommandInv, NEW t \in Thread, RemoveFile(t)
    PROVE  CommandInv'
  <1>1. /\ job[t].pc \in Writing /\ Head(job[t].todo).content = NoFile
        /\ Install(t, Head(job[t].todo), NoFile, Advance(t))
        /\ UNCHANGED <<tmp, checkpoints, changes, clock, audit>>
    BY DEF RemoveFile, Writing, storeVars
  <1>2. NoFile \in Content /\ tmp' \in [Files -> [Suffix -> Content]]
    BY <1>1 DEF Content, CommandInv, Typed
  <1>3. QED
    BY <1>1, <1>2, InstallKeeps

\* rename(tmp, path): what is in the temporary file is what the command put
\* there, unless somebody else wrote that path meanwhile.
LEMMA RenameKeeps ==
    ASSUME CommandInv, NEW t \in Thread, Rename(t)
    PROVE  CommandInv'
  <1> DEFINE j == job[t]
             w == Head(j.todo)
             s == SuffixOf(j.kind)
             from == tmp[w.file][s]
  <1>1. j.pc = "rename" /\ j.pc \in Writing /\ UNCHANGED <<checkpoints, changes, clock>>
    BY DEF Rename, Writing, storeVars
  <1>2. CASE Finish(t, FALSE) /\ UNCHANGED <<disk, tmp>>
    BY <1>1, <1>2, FinishQuietly
  <1>3. CASE /\ Install(t, w, from, Advance(t)) /\ UNCHANGED audit
             /\ tmp' = [tmp EXCEPT ![w.file][s] = NoFile]
    <2>1. w.file \in Files /\ s \in Suffix /\ tmp \in [Files -> [Suffix -> Content]] /\ ThreadInv(j)
      BY <1>1, FirstWrite DEF SuffixOf, Suffix, CommandInv, Typed
    <2>2. from \in Content
      BY <2>1
    <2>3. from = w.content \/ w.file \in j.moved \cup j.short
      BY <1>1, <2>1 DEF ThreadInv, Done
    <2>4. /\ tmp' \in [Files -> [Suffix -> Content]]
          /\ \A g \in Files \ {w.file} : tmp'[g] = tmp[g]
      <3> HIDE DEF w, s
      <3>1. NoFile \in Content
        BY DEF Content
      <3>2. [tmp[w.file] EXCEPT ![s] = NoFile] \in [Suffix -> Content]
        BY <2>1, <3>1
      <3>3. tmp' = [tmp EXCEPT ![w.file] = [tmp[w.file] EXCEPT ![s] = NoFile]]
        BY <1>3
      <3>4. QED
        BY <2>1, <3>2, <3>3
    <2>5. QED
      BY <1>1, <1>3, <2>2, <2>3, <2>4, InstallKeeps
  <1>4. QED
    BY <1>2, <1>3 DEF Rename

\* The temporary file is filled; whoever else writes that path has to reckon
\* with it.
LEMMA WriteTmpKeeps ==
    ASSUME CommandInv, NEW t \in Thread, WriteTmp(t)
    PROVE  CommandInv'
  <1> DEFINE j == job[t]
             w == Head(j.todo)
             s == SuffixOf(j.kind)
             c(torn) == IF torn THEN CutShort ELSE w.content
             short(torn) == IF torn THEN j.short \cup {w.file} ELSE j.short
  <1>1. /\ j.pc = "write" /\ j.pc \in Writing
        /\ UNCHANGED <<disk, checkpoints, changes, clock, audit>>
        /\ \E torn \in BOOLEAN :
              /\ tmp' = [tmp EXCEPT ![w.file][s] = c(torn)]
              /\ job' = [Touched(w.file) EXCEPT ![t] =
                           [j EXCEPT !.pc = "rename", !.short = short(torn)]]
    BY DEF WriteTmp, Writing, storeVars
  <1>16. PICK torn \in BOOLEAN :
            /\ tmp' = [tmp EXCEPT ![w.file][s] = c(torn)]
            /\ job' = [Touched(w.file) EXCEPT ![t] = [j EXCEPT !.pc = "rename", !.short = short(torn)]]
    BY <1>1
  <1>2. /\ j \in Job /\ ThreadInv(j) /\ j.todo # <<>> /\ w.file \in Files /\ w.content \in Content
        /\ s \in Suffix /\ tmp \in [Files -> [Suffix -> Content]]
        /\ c(torn) \in Content /\ j.short \subseteq short(torn) /\ short(torn) \subseteq Files
        /\ c(torn) = w.content \/ w.file \in short(torn)
    <2>1. CutShort \in Content
      BY DEF CutShort, Content
    <2>2. j \in Job /\ w.file \in Files /\ w.content \in Content
      BY <1>1, FirstWrite
    <2>3. j.short \subseteq Files
      BY <2>2 DEF Job
    <2>4. QED
      BY <1>1, <2>1, <2>2, <2>3, FirstWrite DEF SuffixOf, Suffix, CommandInv, Typed
  <1>3. /\ tmp' \in [Files -> [Suffix -> Content]] /\ tmp'[w.file][s] = c(torn)
        /\ \A g \in Files \ {w.file} : tmp'[g] = tmp[g]
    <2> HIDE DEF w, s, c
    <2>1. [tmp[w.file] EXCEPT ![s] = c(torn)] \in [Suffix -> Content]
      BY <1>2
    <2>2. tmp' = [tmp EXCEPT ![w.file] = [tmp[w.file] EXCEPT ![s] = c(torn)]]
      BY <1>16
    <2>3. QED
      BY <1>2, <2>1, <2>2
  <1>4. /\ job'[t] = [j EXCEPT !.pc = "rename", !.short = short(torn)]
        /\ job' = [Touched(w.file) EXCEPT ![t] = job'[t]]
    BY <1>16 DEF Touched
  <1> HIDE DEF c, short
  <1>5. /\ job'[t] \in Job
        /\ job'[t].pc = "rename" /\ job'[t].kind = j.kind /\ job'[t].patch = j.patch
        /\ job'[t].id = j.id /\ job'[t].force = j.force
        /\ job'[t].files = j.files /\ job'[t].todo = j.todo /\ job'[t].record = j.record
        /\ job'[t].moved = j.moved /\ job'[t].stale = j.stale
        /\ job'[t].torn = j.torn /\ job'[t].short = short(torn) /\ job'[t].own = j.own
    BY <1>2, <1>4 DEF Job, PC
  <1>6. job' \in [Thread -> Job]
    BY <1>2, <1>4, <1>5, TouchedType DEF CommandInv
  <1>7. Typed' /\ Grows /\ Records'
    BY <1>1, <1>3, <1>6, GrowsNot DEF CommandInv, Typed
  <1>8. Stage(job[t])'
    BY <1>1, <1>2, <1>5 DEF ThreadInv, Stage, Writing
  <1>9. /\ Confused(job[t])' <=> Confused(j)
        /\ \A f : Intended(job[t], f)' = Intended(j, f)
        /\ Todo(job[t])' /\ Saved(job[t])'
    BY <1>1, <1>2, <1>5, SameWork DEF Writing
  <1>10. Record(job[t])'
    <2>1. UNCHANGED changes /\ j.pc = "write" /\ ThreadInv(j)
      BY <1>1, <1>2
    <2>2. QED
      BY <1>5, <1>9, <2>1 DEF ThreadInv, Record
  <1>11. Looked(job[t])'
    BY <1>1, <1>2, <1>5 DEF ThreadInv, Looked, Expected
  <1>12. ASSUME ~Confused(j), ~j.torn
         PROVE  \A f \in j.files \ (j.moved \cup j.short) : f \in Paths(j.todo) \/ disk[f] = Intended(j, f)
    BY <1>1, <1>2, <1>12 DEF ThreadInv, Done
  <1>13. Done(job[t])'
    <2>1. UNCHANGED disk
      BY <1>1
    <2>2. QED
      BY <1>2, <1>3, <1>5, <1>9, <1>12, <2>1 DEF Done
  <1>14. ThreadInv(job[t])'
    BY <1>8, <1>9, <1>10, <1>11, <1>13 DEF ThreadInv
  <1>15. QED
    BY <1>1, <1>2, <1>3, <1>4, <1>7, <1>14, StepTouching

-----------------------------------------------------------------------------
(* The invariant, and what follows from it.                                *)

\* At first no command is under way.
LEMMA InitCommands == Init => CommandInv
  <1> SUFFICES ASSUME Init
               PROVE  CommandInv
    OBVIOUS
  <1>1. /\ disk \in [Files -> Content] /\ tmp \in [Files -> [Suffix -> Content]]
        /\ clock \in Nat /\ audit \in [Thread -> {"none", "success", "failed"}]
    <2>1. NoFile \in Content /\ <<{"base"}>> \in Content
      BY DEF Content
    <2>2. QED
      BY <2>1 DEF Init
  <1>2. checkpoints \in Seq(Snapshot) /\ changes = <<>> /\ DOMAIN changes = {}
    BY DEF Init
  <1>3. changes \in UNION {[S -> Change] : S \in SUBSET Nat}
    <2>1. changes \in [{} -> Change]
      BY <1>2
    <2>2. QED
      BY <2>1
  <1>4. job = [t \in Thread |-> Idle]
    BY DEF Init
  <1>5. Typed
    BY <1>1, <1>2, <1>3, <1>4, IdleFields DEF Typed
  <1>6. Records
    BY <1>2 DEF Records
  <1>7. ASSUME NEW t \in Thread
        PROVE  ThreadInv(job[t])
    <2>1. /\ job[t] = Idle /\ job[t].pc = "idle" /\ job[t].kind = "none" /\ job[t].todo = <<>>
          /\ DOMAIN job[t].todo = {} /\ job[t].own = {}
      <3>1. job[t] = Idle /\ DOMAIN <<>> = {}
        BY <1>4
      <3>2. QED
        BY <3>1, IdleFields
    <2>2. Stage(job[t]) /\ Record(job[t])
      BY <2>1 DEF Stage, Record, Changing, Writing, Kind
    <2>3. Todo(job[t]) /\ Looked(job[t]) /\ Saved(job[t]) /\ Done(job[t])
      BY <2>1 DEF Todo, Looked, Saved, Done, OneEach, Writing
    <2>4. QED
      BY <2>2, <2>3 DEF ThreadInv
  <1>8. QED
    BY <1>5, <1>6, <1>7 DEF CommandInv

\* Every step keeps the invariant.
LEMMA NextCommands == CommandInv /\ [Next]_vars => CommandInv'
  <1> SUFFICES ASSUME CommandInv, [Next]_vars
               PROVE  CommandInv'
    OBVIOUS
  <1>1. ASSUME NEW t \in Thread,
               \/ Start(t) \/ Checkpoint(t)
               \/ ReadApply(t) \/ ReadRevert(t) \/ ReadRestore(t) \/ remove(t) \/ FileTool(t)
               \/ RestoreCheck(t) \/ RemoveFile(t) \/ WriteTmp(t) \/ Rename(t) \/ WriteFails(t)
               \/ SaveChange(t) \/ SaveRevert(t) \/ SaveRestore(t) \/ TestLoop(t)
        PROVE  CommandInv'
    BY <1>1, StartKeeps, CheckpointKeeps, ReadApplyKeeps, ReadRevertKeeps, ReadRestoreKeeps,
       RemoveKeeps, FileToolKeeps, RestoreCheckKeeps, RemoveFileKeeps, WriteTmpKeeps, RenameKeeps,
       EndKeeps, SaveChangeKeeps, SaveRevertKeeps, SaveRestoreKeeps
  <1>2. CASE \E f \in Contested : Edit(f)
    BY <1>2, EditKeeps
  <1>3. CASE Answer
    BY <1>3, AnswerKeeps DEF Answer, storeVars
  <1>4. CASE Crash
    BY <1>4, CrashKeeps
  <1>5. CASE UNCHANGED vars
    BY <1>5, AnswerKeeps DEF vars, storeVars
  <1>6. QED
    BY <1>1, <1>2, <1>3, <1>4, <1>5 DEF Next

\* The steps of a command that change a file: the file tools' one call, and the
\* removal or the rename that ends the first of its writes.
LEMMA WhoWrites ==
    ASSUME CommandInv, Next, NEW t \in Thread, Steps(t), NEW f \in Files, disk'[f] # disk[f]
    PROVE  \/ job[t].pc = "execute" /\ job[t].kind \in {"write", "unlink"} /\ f \in job[t].files
           \/ job[t].pc \in {"write", "rename"} /\ f = Head(job[t].todo).file
  <1>1. job \in [Thread -> Job] /\ disk \in [Files -> Content]
    BY DEF CommandInv, Typed
  <1>2. ASSUME NEW g \in Files, NEW u \in Thread, u # t, NEW n,
               job' = Touched(g) \/ job' = [Touched(g) EXCEPT ![u] = n]
        PROVE  FALSE
    <2>1. job'[t] = Touched(g)[t]
      BY <1>2 DEF Touched
    <2>2. job'[t].pc = job[t].pc /\ job'[t].todo = job[t].todo
      BY <1>1, <2>1 DEF Touched, Job
    <2>3. QED
      BY <2>2 DEF Steps
  <1>3. ASSUME NEW u \in Thread, FileTool(u)
        PROVE  /\ u = t /\ job[t].pc = "execute" /\ job[t].kind \in {"write", "unlink"}
               /\ f \in job[t].files
    <2> DEFINE g == CHOOSE h \in job[u].files : TRUE
               c(torn) == IF job[u].kind = "unlink" THEN NoFile
                          ELSE IF torn THEN CutShort ELSE <<{"tool"}>>
    <2>1. job[u].files # {} /\ job[u].files \subseteq Files
      BY <1>1, <1>3 DEF FileTool, CommandInv, ThreadInv, Stage, Job
    <2>2. g \in job[u].files /\ g \in Files
      BY <2>1
    <2>3. \A torn : Write(g, c(torn), {}).file = g
      BY DEF Write
    <2>4. PICK torn \in BOOLEAN :
             disk' = [disk EXCEPT ![g] = c(torn)] /\ job' = [Touched(g) EXCEPT ![u] = Idle]
      BY <1>3, <2>3 DEF FileTool, Install
    <2> HIDE DEF g, c
    <2>5. f = g
      BY <1>1, <2>4
    <2>6. u = t
      BY <1>2, <2>2, <2>4
    <2>7. QED
      BY <1>3, <2>2, <2>5, <2>6 DEF FileTool
  <1>4. ASSUME NEW u \in Thread, RemoveFile(u) \/ Rename(u)
        PROVE  u = t /\ job[t].pc \in {"write", "rename"} /\ f = Head(job[t].todo).file
    <2> DEFINE g == Head(job[u].todo).file
    <2>1. job[u].pc \in {"write", "rename"} /\ g \in Files
      BY <1>4, FirstWrite DEF RemoveFile, Rename, Writing
    <2>2. PICK c, n : disk' = [disk EXCEPT ![g] = c] /\ job' = [Touched(g) EXCEPT ![u] = n]
      BY <1>4 DEF RemoveFile, Rename, Install
    <2> HIDE DEF g
    <2>3. f = g
      BY <1>1, <2>2
    <2>4. u = t
      BY <1>2, <2>1, <2>2
    <2>5. QED
      BY <2>1, <2>3, <2>4 DEF g
  <1>5. ASSUME NEW g \in Contested, Edit(g)
        PROVE  FALSE
    <2>1. g \in Files /\ job' = Touched(g)
      BY <1>5, ChangeAssumption DEF Edit
    <2>2. job'[t].pc = job[t].pc /\ job'[t].todo = job[t].todo
      BY <1>1, <2>1 DEF Touched, Job
    <2>3. QED
      BY <2>2 DEF Steps
  <1>6. ASSUME UNCHANGED disk
        PROVE  FALSE
    BY <1>6
  <1>7. ASSUME NEW u \in Thread,
               \/ Start(u) \/ Checkpoint(u) \/ ReadApply(u) \/ ReadRevert(u) \/ ReadRestore(u)
               \/ remove(u) \/ RestoreCheck(u) \/ WriteTmp(u) \/ WriteFails(u) \/ SaveChange(u)
               \/ SaveRevert(u) \/ SaveRestore(u) \/ TestLoop(u)
        PROVE  FALSE
    BY <1>6, <1>7 DEF Start, Checkpoint, ReadApply, ReadRevert, ReadRestore, remove, RestoreCheck,
       WriteTmp, WriteFails, SaveChange, SaveRevert, SaveRestore, TestLoop
  <1>8. ~Answer /\ ~Crash
    BY <1>6 DEF Answer, Crash
  <1>9. QED
    BY <1>3, <1>4, <1>5, <1>7, <1>8 DEF Next

\* A write of a command that looks first finds what it looked at, unless somebody
\* else wrote the file in between.
LEMMA EditsKeptStep ==
    ASSUME CommandInv, Next, NEW t \in Thread, Steps(t), job[t].todo # <<>>
    PROVE  LET w == Head(job[t].todo)
           IN  \/ disk'[w.file] = disk[w.file] \/ w.expect = {}
               \/ w.file \in job[t].stale \/ disk[w.file] \in w.expect
  <1> DEFINE w == Head(job[t].todo)
  <1>1. job[t].pc \in Writing /\ ThreadInv(job[t])
    BY DEF CommandInv, ThreadInv, Stage
  <1>2. w.file \in Files
    BY <1>1, FirstWrite
  <1>3. CASE disk'[w.file] # disk[w.file]
    <2>1. job[t].pc \in {"write", "rename"}
      BY <1>1, <1>2, <1>3, WhoWrites DEF Writing
    <2>2. QED
      BY <1>1, <2>1 DEF ThreadInv, Looked, Expected
  <1>4. QED
    BY <1>3

\* apply(), revert() and restore() without force never replace a content they
\* have not looked at, but for a write in between.
THEOREM NoEditLost == Spec => EditsKept
  <1>1. CommandInv /\ [Next]_vars =>
           [\A t \in Thread :
              (Steps(t) /\ job[t].todo # <<>>) =>
                  LET w == Head(job[t].todo)
                  IN  \/ disk'[w.file] = disk[w.file] \/ w.expect = {}
                      \/ w.file \in job[t].stale \/ disk[w.file] \in w.expect]_vars
    BY EditsKeptStep
  <1>2. QED
    BY <1>1, InitCommands, NextCommands, PTL DEF Spec, EditsKept

\* What a step of a command replaces was put into its own checkpoints, and is
\* still there unless each of them was cut short.
LEMMA RecoverableStep ==
    ASSUME CommandInv, Next, NEW t \in Thread, NEW f \in Files, Steps(t), disk'[f] # disk[f]
    PROVE  f \in job[t].moved \/ Held(f, disk[f]) \/ Unkept(job[t]) \/ Confused(job[t])
  <1> DEFINE j == job[t]
  <1>1. ThreadInv(j)
    BY DEF CommandInv
  <1>2. ASSUME Kept(j, f, disk[f]), j.pc \in {"execute"} \cup Writing, j.kind # "delete"
        PROVE  Held(f, disk[f]) \/ Unkept(j)
    <2>1. j.own \subseteq DOMAIN checkpoints /\ (j.own = {} => j.kind = "restore")
      BY <1>1, <1>2 DEF ThreadInv, Stage
    <2>2. CASE \A i \in j.own : checkpoints[i].torn
      BY <2>1, <2>2 DEF Unkept
    <2>3. CASE \E i \in j.own : ~checkpoints[i].torn
      BY <1>2, <2>1, <2>3 DEF Kept, Held
    <2>4. QED
      BY <2>2, <2>3
  <1>3. CASE j.pc = "execute" /\ j.kind \in {"write", "unlink"} /\ f \in j.files
    BY <1>1, <1>2, <1>3 DEF ThreadInv, Saved
  <1>4. CASE j.pc \in {"write", "rename"} /\ f = Head(j.todo).file
    <2>1. 1 \in DOMAIN j.todo /\ f = j.todo[1].file /\ j.pc \in Writing
      BY <1>4, FirstWrite DEF Writing
    <2>2. j.kind # "delete"
      BY <1>1, <2>1 DEF ThreadInv, Stage, Changing
    <2>3. QED
      BY <1>1, <1>2, <2>1, <2>2 DEF ThreadInv, Saved
  <1>5. QED
    BY <1>3, <1>4, WhoWrites

\* The checkpoint stage: whatever a command replaces or removes, whether it will
\* finish, fail half-way or be cut off, can be had back, but for what others wrote
\* after the command's checkpoint, for checkpoints that were cut short unnoticed,
\* and for a change id that two changes share.
THEOREM AlwaysRecoverable == Spec => Recoverable
  <1>1. CommandInv /\ [Next]_vars =>
           [\A t \in Thread, f \in Files :
              (Steps(t) /\ disk'[f] # disk[f])
              => (f \in job[t].moved \/ Held(f, disk[f]) \/ Unkept(job[t])
                  \/ Confused(job[t]))]_vars
    BY RecoverableStep
  <1>2. QED
    BY <1>1, InitCommands, NextCommands, PTL DEF Spec, Recoverable

\* A command that reports success has done all of it.
LEMMA DeliversStep ==
    ASSUME CommandInv, Next, NEW t \in Thread, job[t].kind \in Changing,
           audit[t] = "none", audit'[t] = "success", ~Confused(job[t]), ~job[t].torn
    PROVE  \A f \in job[t].files \ (job[t].moved \cup job[t].short) :
              disk'[f] = Intended(job[t], f)
  <1>1. audit \in [Thread -> {"none", "success", "failed"}] /\ ThreadInv(job[t])
    BY DEF CommandInv, Typed
  <1>2. CASE UNCHANGED disk /\ job[t].pc \in {"save", "test"}
    <2>1. job[t].todo = <<>>
      BY <1>1, <1>2 DEF ThreadInv, Stage, Writing
    <2>2. DOMAIN <<>> = {}
      OBVIOUS
    <2>3. Paths(job[t].todo) = {}
      BY <2>1, <2>2 DEF Paths
    <2>4. QED
      BY <1>1, <1>2, <2>3 DEF ThreadInv, Done
  <1>3. ASSUME UNCHANGED audit
        PROVE  FALSE
    BY <1>3
  <1>4. ASSUME NEW u \in Thread, NEW ok \in BOOLEAN, Finish(u, ok)
        PROVE  u = t /\ ok
    BY <1>1, <1>4 DEF Finish
  <1>5. ASSUME NEW u \in Thread, Start(u)
        PROVE  FALSE
    BY <1>1, <1>5 DEF Start
  <1>6. ASSUME NEW u \in Thread,
               \/ Checkpoint(u) \/ ReadApply(u) \/ ReadRevert(u) \/ ReadRestore(u) \/ FileTool(u)
               \/ RestoreCheck(u) \/ RemoveFile(u) \/ WriteTmp(u) \/ Rename(u) \/ WriteFails(u)
        PROVE  FALSE
    BY <1>3, <1>4, <1>6 DEF Checkpoint, ReadApply, ReadRevert, ReadRestore, FileTool,
       RestoreCheck, RemoveFile, WriteTmp, Rename, WriteFails
  <1>7. ASSUME NEW u \in Thread, remove(u)
        PROVE  FALSE
    BY <1>4, <1>7 DEF remove, Changing
  <1>8. ASSUME NEW u \in Thread,
               SaveChange(u) \/ SaveRevert(u) \/ SaveRestore(u) \/ TestLoop(u)
        PROVE  UNCHANGED disk /\ job[t].pc \in {"save", "test"}
    BY <1>3, <1>4, <1>8 DEF SaveChange, SaveRevert, SaveRestore, TestLoop
  <1>9. ~Answer /\ ~Crash /\ ~\E f \in Contested : Edit(f)
    BY <1>3 DEF Answer, Crash, Edit
  <1>10. QED
    BY <1>2, <1>5, <1>6, <1>7, <1>8, <1>9 DEF Next

\* apply(), revert(), restore() and the safe change loop: success is reported only
\* when each file is as intended, but for what others wrote since the checkpoint,
\* for a change id that is not unique, and for the faults the code does not look for.
THEOREM SuccessDelivers == Spec => Delivers
  <1>1. CommandInv /\ [Next]_vars =>
           [\A t \in Thread :
              (/\ job[t].kind \in {"apply", "safe", "revert", "restore"}
               /\ audit[t] = "none" /\ audit'[t] = "success"
               /\ ~Confused(job[t]) /\ ~job[t].torn)
              => \A f \in job[t].files \ (job[t].moved \cup job[t].short) :
                    disk'[f] = Intended(job[t], f)]_vars
    BY DeliversStep DEF Changing
  <1>2. QED
    BY <1>1, InitCommands, NextCommands, PTL DEF Spec, Delivers
=============================================================================
