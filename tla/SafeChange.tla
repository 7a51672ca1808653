----------------------------- MODULE SafeChange -----------------------------
(***************************************************************************)
(* How the workspace's files are changed: patch apply and revert, the safe *)
(* change loop, checkpoint restore and delete, and the file tools. Each    *)
(* passes the kernel's stages (authorize, checkpoint, execute, audit), and *)
(* each runs on whatever thread asked for it. There is no lock on files,   *)
(* on change records or on checkpoints: REST commands, tool calls and the  *)
(* user's editor interleave between any two file operations.               *)
(*                                                                         *)
(* A file's content is <<>> when there is no file, else <<marks>>: the set *)
(* of edits it carries. A diff's context lines are the mark "base". Hashes *)
(* stand for contents: two contents with one hash are not modelled.        *)
(***************************************************************************)
EXTENDS PolicyEngine, SequencesExt

CONSTANTS
    Files, InitialFiles,  \* the paths, and those that exist at the start
    Patches, DiffOf,      \* diffs: each a sequence of [file, kind]
    Thread,               \* threads that run commands
    Requests,             \* the changes asked for, [kind, patch]
    Kinds,                \* the other commands asked for
    Contested,            \* the paths the user and the file tools write, and that
                          \* a partial restore names
    InitialAllow,         \* what the session has been allowed before
    MaxCommands,
    MaxEvents             \* bound on edits by the user, faults and crashes

\* A diff names a file, as parse_unified_diff demands, and each path once, as
\* diff and git write them. The code does not look: of two sections for one
\* path the second would be computed without the first and replace it.
ASSUME ChangeAssumption ==
    /\ IsFiniteSet(Files) /\ InitialFiles \subseteq Files /\ Contested \subseteq Files
    /\ Requests \subseteq [kind : {"apply", "safe"}, patch : Patches]
    /\ Kinds \subseteq {"revert", "restore", "delete", "write", "unlink"}
    /\ {MaxCommands, MaxEvents, MaxAsks} \subseteq Nat
    /\ \A p \in Patches : /\ DiffOf[p] \in Seq([file : Files, kind : {"add", "modify", "remove"}])
                          /\ DiffOf[p] # <<>>
                          /\ \A i, j \in DOMAIN DiffOf[p] :
                                DiffOf[p][i].file = DiffOf[p][j].file => i = j

VARIABLES
    disk,         \* per path, its content
    tmp,          \* per path and suffix, the temporary file of a write
    checkpoints,  \* checkpoint files: a sequence of [files, deleted, torn]; a torn one
                  \* was cut short while it was written
    changes,      \* change records by change_id: [files, reverted, torn], and the
                  \* history field reused: another was saved under the same id before
    clock,        \* milliseconds, where change ids come from
    audit,        \* per thread, the event its last command appended to the log
    job,          \* per thread, the command it runs
    commands, events

storeVars == <<checkpoints, changes, clock>>
boundVars == <<commands, events>>
vars == <<policyVars, storeVars, boundVars, disk, tmp, audit, job>>

Suffix == {"tmp", "checkpoint.tmp"}
NoFile == <<>>

\* A thread with nothing to do. files: the affected paths; todo: the writes left,
\* [file, content, expect]; record: the change it will save; torn: restore loaded
\* a torn checkpoint. The rest is history: moved and stale are the paths others
\* wrote since the command's checkpoint, and since its last look at them; short,
\* the paths it wrote incompletely; own, its own checkpoints.
Idle == [pc |-> "idle", kind |-> "none", patch |-> "none", id |-> 0, force |-> FALSE,
         files |-> {}, todo |-> <<>>, record |-> <<>>, torn |-> FALSE,
         moved |-> {}, stale |-> {}, short |-> {}, own |-> {}]

Init ==
    /\ disk = [f \in Files |-> IF f \in InitialFiles THEN <<{"base"}>> ELSE NoFile]
    /\ tmp = [f \in Files |-> [s \in Suffix |-> NoFile]]
    /\ checkpoints = <<>>
    /\ changes = <<>>
    /\ clock = 1
    /\ audit = [t \in Thread |-> "none"]
    /\ job = [t \in Thread |-> Idle]
    /\ commands = 0 /\ events = 0
    /\ session_allow_ = InitialAllow
    /\ approved_once_ = {} /\ pending_ = {} /\ asks = 0
    /\ approvals = {} /\ grants = {}

-----------------------------------------------------------------------------
(* Helpers.                                                                *)

\* The kernel's audit stage closes a command of the pipeline, whatever became
\* of it; the file tools are governed by ToolCallManager and leave no event.
Audited(kind) == kind \notin {"write", "unlink"}

\* The thread is done with its command.
Finish(t, ok) ==
    /\ job' = [job EXCEPT ![t] = Idle]
    /\ audit' = [audit EXCEPT ![t] = IF ~Audited(job[t].kind) THEN @
                                     ELSE IF ok THEN "success" ELSE "failed"]

\* f is written: every command under way has to reckon with that.
Touched(f) ==
    [u \in Thread |->
        IF job[u].pc = "idle" THEN job[u]
        ELSE [job[u] EXCEPT !.moved = @ \cup {f}, !.stale = @ \cup {f}]]

Event == events < MaxEvents /\ events' = events + 1 /\ UNCHANGED commands

\* A call on the file system fails.
Fault == Event

\* A file is written. What the stream still holds is flushed when it is closed,
\* and whether that worked is not asked: on a full disk the file is cut short and
\* the writer goes on.
Flushed(torn) == IF torn THEN Fault ELSE UNCHANGED boundVars

\* A file that was cut short has lost its marks.
CutShort == <<{}>>

Tool(kind) ==
    CASE kind = "apply"   -> "apply_patch"
      [] kind = "safe"    -> "safe_code_change"
      [] kind = "revert"  -> "revert_patch"
      [] kind = "restore" -> "restore_checkpoint"
      [] kind = "delete"  -> "delete_checkpoint"
      [] kind = "write"   -> "write_file"
      [] kind = "unlink"  -> "delete_file"

\* What the gate shows the policy engine: paths, subject and force, not the diff.
Fingerprint(j) == [tool |-> Tool(j.kind), files |-> j.files, id |-> j.id, force |-> j.force]

\* hunks apply where their context is found; an added file has none.
Applies(p, kind, content) ==
    \/ kind = "add"
    \/ content # NoFile /\ {"base"} \subseteq content[1] /\ p \notin content[1]

\* apply_file_patch, and the removal of a file.
Patched(p, kind, content) ==
    IF kind = "remove" THEN NoFile
    ELSE <<(IF content = NoFile THEN {} ELSE content[1]) \cup {p}>>

affected_paths(p) == {DiffOf[p][i].file : i \in DOMAIN DiffOf[p]}

-----------------------------------------------------------------------------
(* A command is asked for.                                                 *)

Descriptor(kind, p, id, force, files) ==
    [Idle EXCEPT !.pc = "checkpoint", !.kind = kind, !.patch = p,
                 !.id = id, !.force = force, !.files = files]

\* All paths of a checkpoint, or those of Contested among them.
Selections(paths) == {paths} \cup ({paths \cap Contested} \ {{}})

\* Of several checkpoints that are equal, the first stands for all.
Distinct == {i \in DOMAIN checkpoints : \A k \in 1..(i - 1) : checkpoints[k] # checkpoints[i]}

\* CheckpointService::load: a record that was cut short is no error to the parser,
\* which keeps the keys before the cut; its files are lost.
Loaded(id) == IF checkpoints[id].torn THEN {} ELSE DOMAIN checkpoints[id].files

\* revert and restore read their record to know the paths. A torn change record
\* is refused; a torn checkpoint names none.
Descriptors ==
    {Descriptor(r.kind, r.patch, 0, FALSE, affected_paths(r.patch)) : r \in Requests}
    \cup {Descriptor("revert", "none", id, b, {e.file : e \in ToSet(changes[id].files)}) :
              id \in {i \in DOMAIN changes : ~changes[i].torn}, b \in BOOLEAN}
    \cup (UNION {{Descriptor("restore", "none", id, b, sel) :
                     b \in BOOLEAN, sel \in Selections(Loaded(id))} :
                     id \in {i \in Distinct : ~checkpoints[i].deleted}})
    \cup {Descriptor("delete", "none", id, FALSE, {}) : id \in Distinct}
    \cup {Descriptor(k, "none", 0, FALSE, {f}) : k \in {"write", "unlink"}, f \in Contested}

\* A command is asked for and passes the authorize stage, or waits for the
\* user's answer to be asked for again. Only a command that names files to change
\* has a checkpoint stage.
Start(t) ==
    /\ job[t].pc = "idle" /\ commands < MaxCommands
    /\ commands' = commands + 1
    /\ \E d \in {e \in Descriptors : e.kind \in Kinds \cup {"apply", "safe"}} :
          \/ /\ Allowed(Tool(d.kind), Fingerprint(d))
             /\ job' = [job EXCEPT ![t] =
                           IF d.files = {} THEN [d EXCEPT !.pc = "execute"] ELSE d]
             /\ audit' = [audit EXCEPT ![t] = "none"]
          \/ /\ Asked(Tool(d.kind), Fingerprint(d))
             /\ audit' = [audit EXCEPT ![t] = IF Audited(d.kind) THEN "failed" ELSE "none"]
             /\ UNCHANGED job
    /\ UNCHANGED <<storeVars, disk, tmp, events>>

\* Mutant: a forced command is taken to need no way back.
create_Unforced(t, torn) ==
    checkpoints' = IF job[t].force THEN checkpoints
                   ELSE Append(checkpoints, [files |-> [f \in job[t].files |-> disk[f]],
                                             deleted |-> FALSE, torn |-> torn])

\* CheckpointService::create. The files are read one after the other; since
\* nothing here relates two files, one look at all of them stands for it.
create(t, torn) ==
    checkpoints' = Append(checkpoints, [files |-> [f \in job[t].files |-> disk[f]],
                                        deleted |-> FALSE, torn |-> torn])

\* The checkpoint stage, and then the snapshot safe_code_change makes itself. A
\* file that cannot be read ends it, and so does a record that cannot be opened or
\* put in its place; one that is cut short does not.
Checkpoint(t) ==
    /\ job[t].pc \in {"checkpoint", "snapshot"}
    /\ \/ /\ \E torn \in BOOLEAN : Flushed(torn) /\ create(t, torn)
          /\ job' = [job EXCEPT ![t].pc = IF job[t].kind = "safe" /\ @ = "checkpoint"
                                          THEN "snapshot" ELSE "execute",
                                ![t].moved = IF job[t].pc = "checkpoint" THEN {} ELSE @,
                                ![t].own = @ \cup (DOMAIN checkpoints' \ DOMAIN checkpoints)]
          /\ UNCHANGED audit
       \/ Fault /\ Finish(t, FALSE) /\ UNCHANGED checkpoints
    /\ UNCHANGED <<policyVars, disk, tmp, changes, clock>>

-----------------------------------------------------------------------------
(* The handlers look at what is there and decide on the writes.            *)

\* What a command is about to do to one path: expect holds the contents it
\* believes it replaces, when it is one that looks before it writes.
Write(f, content, expect) == [file |-> f, content |-> content, expect |-> expect]

\* PatchService::apply up to its first write; as in create, one look stands for
\* the reads of all files.
ReadApply(t) ==
    LET p == job[t].patch
        entries == [i \in DOMAIN DiffOf[p] |->
                       LET e == DiffOf[p][i]
                       IN  [file |-> e.file, before |-> disk[e.file],
                            after |-> Patched(p, e.kind, disk[e.file])]]
    IN  /\ job[t].pc = "execute" /\ job[t].kind \in {"apply", "safe"}
        /\ IF \A i \in DOMAIN DiffOf[p] :
                 Applies(p, DiffOf[p][i].kind, disk[DiffOf[p][i].file])
           THEN \E ms \in {clock, clock + 1} :
                   /\ clock' = ms
                   /\ job' = [job EXCEPT ![t].pc = "write", ![t].id = ms, ![t].stale = {},
                                 ![t].record = entries,
                                 ![t].todo = [i \in DOMAIN entries |->
                                                Write(entries[i].file, entries[i].after,
                                                      {entries[i].before})]]
                   /\ UNCHANGED audit
           ELSE Finish(t, FALSE) /\ UNCHANGED clock
        /\ UNCHANGED <<policyVars, boundVars, disk, tmp, checkpoints, changes>>

\* Mutant: the files are not compared with what the change left in them.
Unchanged_Trust(t, record) == TRUE

\* revert(): without force every file must still be as the change left it.
Unchanged(t, record) ==
    job[t].force \/ \A i \in DOMAIN record : disk[record[i].file] = record[i].after

ReadRevert(t) ==
    LET change == changes[job[t].id]
    IN  /\ job[t].pc = "execute" /\ job[t].kind = "revert"
        /\ IF ~change.torn /\ ~change.reverted /\ Unchanged(t, change.files)
           THEN /\ job' = [job EXCEPT ![t].pc = "write", ![t].stale = {},
                              ![t].record = change.files,
                              ![t].todo = [i \in DOMAIN change.files |->
                                  Write(change.files[i].file, change.files[i].before,
                                        IF job[t].force THEN {} ELSE {change.files[i].after})]]
                /\ UNCHANGED audit
           ELSE Finish(t, FALSE)
        /\ UNCHANGED <<policyVars, storeVars, boundVars, disk, tmp>>

\* restore() loads the record again: of a torn one nothing is left to do but to
\* save it. With no paths named, all of its files are meant. A path it did not have
\* is not checked.
ReadRestore(t) ==
    LET saved == checkpoints[job[t].id]
        paths == IF job[t].files = {} THEN DOMAIN saved.files ELSE job[t].files
        todo == SetToSeq({Write(f, saved.files[f],
                                IF job[t].force \/ saved.files[f] = NoFile THEN {}
                                ELSE {saved.files[f], NoFile}) : f \in paths})
    IN  /\ job[t].pc = "execute" /\ job[t].kind = "restore"
        /\ IF saved.deleted THEN Finish(t, FALSE)
           ELSE /\ job' = [job EXCEPT ![t] =
                              IF saved.torn THEN [@ EXCEPT !.pc = "save", !.torn = TRUE]
                              ELSE [@ EXCEPT !.pc = "check", !.files = paths, !.todo = todo]]
                /\ UNCHANGED audit
        /\ UNCHANGED <<policyVars, storeVars, boundVars, disk, tmp>>

\* remove() of a checkpoint.
remove(t) ==
    /\ job[t].pc = "execute" /\ job[t].kind = "delete"
    /\ Finish(t, ~checkpoints[job[t].id].deleted)
    /\ checkpoints' = [checkpoints EXCEPT ![job[t].id].deleted = TRUE]
    /\ UNCHANGED <<policyVars, boundVars, disk, tmp, changes, clock>>

-----------------------------------------------------------------------------
(* The writes, one file at a time.                                         *)

\* w.file gets a new content.
Install(t, w, content, next) ==
    /\ disk' = [disk EXCEPT ![w.file] = content]
    /\ job' = [Touched(w.file) EXCEPT ![t] = next]

\* The thread after the first of its writes is done: restore looks at the next
\* file, the others save their record.
Advance(t) ==
    [job[t] EXCEPT !.todo = Tail(@),
                   !.pc = IF Len(job[t].todo) = 1 THEN "save"
                          ELSE IF job[t].kind = "restore" THEN "check" ELSE "write"]

\* restore(): nothing to do for a path that did not exist and does not now.
RestoreSkips(t, w) == w.content = NoFile /\ disk[w.file] = NoFile

\* restore(), per file: without force a file that existed and exists must be as
\* it was.
RestoreCheck(t) ==
    LET w == Head(job[t].todo)
        conflict == /\ ~job[t].force /\ w.content # NoFile /\ disk[w.file] # NoFile
                    /\ disk[w.file] # w.content
    IN  /\ job[t].pc = "check"
        /\ IF conflict THEN Finish(t, FALSE)
           ELSE /\ job' = [job EXCEPT ![t] =
                              IF RestoreSkips(t, w) THEN Advance(t)
                              ELSE [job[t] EXCEPT !.pc = "write", !.stale = @ \ {w.file}]]
                /\ UNCHANGED audit
        /\ UNCHANGED <<policyVars, storeVars, boundVars, disk, tmp>>

\* filesystem::remove, which does not mind a file that is gone.
RemoveFile(t) ==
    LET w == Head(job[t].todo)
    IN  /\ job[t].pc = "write" /\ w.content = NoFile
        /\ Install(t, w, NoFile, Advance(t))
        /\ UNCHANGED <<policyVars, storeVars, boundVars, tmp, audit>>

SuffixOf(kind) == IF kind = "restore" THEN "checkpoint.tmp" ELSE "tmp"

\* write_file_atomic and write_text fill a temporary file whose name depends on
\* the path alone: whoever else is writing that path has lost its content. It may
\* be cut short.
WriteTmp(t) ==
    LET w == Head(job[t].todo)
    IN  /\ job[t].pc = "write" /\ w.content # NoFile
        /\ \E torn \in BOOLEAN :
              /\ Flushed(torn)
              /\ tmp' = [tmp EXCEPT ![w.file][SuffixOf(job[t].kind)] =
                                       IF torn THEN CutShort ELSE w.content]
              /\ job' = [Touched(w.file) EXCEPT ![t] =
                           [job[t] EXCEPT !.pc = "rename",
                                          !.short = IF torn THEN @ \cup {w.file} ELSE @]]
        /\ UNCHANGED <<policyVars, storeVars, disk, audit>>

\* rename(tmp, path) fails when another writer has already renamed it away.
Rename(t) ==
    LET w == Head(job[t].todo)
        from == tmp[w.file][SuffixOf(job[t].kind)]
    IN  /\ job[t].pc = "rename"
        /\ IF from = NoFile THEN Finish(t, FALSE) /\ UNCHANGED <<disk, tmp>>
           ELSE /\ Install(t, w, from, Advance(t))
                /\ tmp' = [tmp EXCEPT ![w.file][SuffixOf(job[t].kind)] = NoFile]
                /\ UNCHANGED audit
        /\ UNCHANGED <<policyVars, storeVars, boundVars>>

\* Mutant: a failed write is skipped and the rest goes on.
WriteFails_Skip(t) ==
    /\ job[t].pc = "write" /\ Fault
    /\ job' = [job EXCEPT ![t] = Advance(t)]
    /\ UNCHANGED <<policyVars, storeVars, disk, tmp, audit>>

\* A directory cannot be made, a temporary file not opened or a file not removed,
\* or write_file_atomic sees its write fail: the command ends where it is, with the
\* files before this one written and nothing recorded.
WriteFails(t) ==
    /\ job[t].pc = "write" /\ Fault /\ Finish(t, FALSE)
    /\ UNCHANGED <<policyVars, storeVars, disk, tmp>>

\* write_file and delete_file: one call on the file itself.
FileTool(t) ==
    LET f == CHOOSE g \in job[t].files : TRUE
        content(torn) == IF job[t].kind = "unlink" THEN NoFile
                         ELSE IF torn THEN CutShort ELSE <<{"tool"}>>
    IN  /\ job[t].pc = "execute" /\ job[t].kind \in {"write", "unlink"}
        /\ \E torn \in BOOLEAN :
              /\ Flushed(torn)
              /\ Install(t, Write(f, content(torn), {}), content(torn), Idle)
        /\ UNCHANGED <<policyVars, storeVars, tmp, audit>>

-----------------------------------------------------------------------------
(* The end of a command.                                                   *)

\* ChangeStore::save of an apply. The id is the millisecond: a second apply in
\* the same one replaces the record of the first.
SaveChange(t) ==
    /\ job[t].pc = "save" /\ job[t].kind \in {"apply", "safe"}
    /\ \/ /\ \E torn \in BOOLEAN :
                /\ Flushed(torn)
                /\ changes' = [id \in {job[t].id} \cup DOMAIN changes |->
                                 IF id # job[t].id THEN changes[id]
                                 ELSE [files |-> job[t].record, reverted |-> FALSE,
                                       torn |-> torn, reused |-> id \in DOMAIN changes]]
          /\ IF job[t].kind = "apply" THEN Finish(t, TRUE)
             ELSE job' = [job EXCEPT ![t].pc = "test"] /\ UNCHANGED audit
       \/ Fault /\ Finish(t, FALSE) /\ UNCHANGED changes
    /\ UNCHANGED <<policyVars, disk, tmp, checkpoints, clock>>

\* revert() saves the record it loaded, marked, and does not look at the result.
SaveRevert(t) ==
    /\ job[t].pc = "save" /\ job[t].kind = "revert" /\ Finish(t, TRUE)
    /\ \/ \E torn \in BOOLEAN :
             /\ Flushed(torn)
             /\ changes' = [changes EXCEPT ![job[t].id] =
                              [@ EXCEPT !.files = job[t].record, !.reverted = TRUE,
                                        !.torn = torn]]
       \/ Fault /\ UNCHANGED changes
    /\ UNCHANGED <<policyVars, disk, tmp, checkpoints, clock>>

\* restore() saves its record too: a checkpoint deleted meanwhile is back. What it
\* loaded torn may have lost its id as well, and then goes to a file of no use.
SaveRestore(t) ==
    /\ job[t].pc = "save" /\ job[t].kind = "restore"
    /\ \/ /\ \E torn \in BOOLEAN :
                /\ Flushed(torn)
                /\ checkpoints' = [checkpoints EXCEPT ![job[t].id] =
                                     [@ EXCEPT !.deleted = FALSE, !.torn = torn \/ job[t].torn]]
          /\ Finish(t, TRUE)
       \/ job[t].torn /\ Finish(t, TRUE) /\ UNCHANGED <<checkpoints, boundVars>>
       \/ Fault /\ Finish(t, FALSE) /\ UNCHANGED checkpoints
    /\ UNCHANGED <<policyVars, disk, tmp, changes, clock>>

\* The test command of a safe change. A failure undoes nothing.
TestLoop(t) ==
    /\ job[t].pc = "test"
    /\ \E passed \in BOOLEAN : Finish(t, passed)
    /\ UNCHANGED <<policyVars, storeVars, boundVars, disk, tmp>>

-----------------------------------------------------------------------------
(* The surroundings.                                                       *)

\* The user saves a file in an editor.
Edit(f) ==
    /\ Event
    /\ disk' = [disk EXCEPT ![f] = <<(IF @ = NoFile THEN {} ELSE @[1]) \cup {"edit"}>>]
    /\ job' = Touched(f)
    /\ UNCHANGED <<policyVars, storeVars, tmp, audit>>

\* A request is answered (approve_permission, deny_permission).
Answer ==
    /\ \E r \in pending_ : (\E b \in BOOLEAN : approve(r, b)) \/ deny_pending(r)
    /\ UNCHANGED <<storeVars, boundVars, disk, tmp, audit, job>>

\* The process dies: files, records and checkpoints stay as they are.
Crash ==
    /\ Event
    /\ \E t \in Thread : job[t].pc # "idle"
    /\ job' = [t \in Thread |-> Idle]
    /\ Forget
    /\ UNCHANGED <<storeVars, disk, tmp, audit>>

Next ==
    \/ \E t \in Thread :
          \/ Start(t) \/ Checkpoint(t)
          \/ ReadApply(t) \/ ReadRevert(t) \/ ReadRestore(t) \/ remove(t) \/ FileTool(t)
          \/ RestoreCheck(t) \/ RemoveFile(t) \/ WriteTmp(t) \/ Rename(t) \/ WriteFails(t)
          \/ SaveChange(t) \/ SaveRevert(t) \/ SaveRestore(t) \/ TestLoop(t)
    \/ \E f \in Contested : Edit(f)
    \/ Answer \/ Crash

Spec == Init /\ [][Next]_vars

-----------------------------------------------------------------------------
(* Properties.                                                             *)

TypeOK ==
    /\ \A f \in Files : disk[f] = NoFile \/ Len(disk[f]) = 1
    /\ DOMAIN job = Thread /\ DOMAIN tmp = Files
    /\ \A t \in Thread : job[t].files \subseteq Files
    /\ \A i \in DOMAIN checkpoints : DOMAIN checkpoints[i].files \subseteq Files

\* Somewhere on disk f has content c: in a checkpoint (or in one the user
\* deleted), or in a change record, that was not cut short.
Held(f, c) ==
    \/ \E i \in DOMAIN checkpoints : /\ f \in DOMAIN checkpoints[i].files /\ ~checkpoints[i].torn
                                     /\ checkpoints[i].files[f] = c
    \/ \E id \in DOMAIN changes : \E e \in ToSet(changes[id].files) :
          e.file = f /\ e.before = c /\ ~changes[id].torn

\* Thread t takes a step of its command.
Steps(t) == <<job'[t].pc, job'[t].todo>> # <<job[t].pc, job[t].todo>>

\* A revert reads the record once for its paths and again to execute. In between
\* a second apply of the same millisecond may have replaced the record.
Confused(j) == j.kind = "revert" /\ changes[j.id].reused

\* The command's own checkpoints were all cut short, unnoticed. A restore may have
\* none: it names no files, hence makes none, when its record was torn as it was
\* asked for and whole again as it was executed.
Unkept(j) == (j.own = {} => j.kind = "restore") /\ \A i \in j.own : checkpoints[i].torn

\* The checkpoint stage and the stores: whatever a command replaces or removes,
\* forced or not, and whether it will finish, fail half-way or be cut off, the
\* former content is already on disk elsewhere. The exceptions are a file that
\* somebody else wrote after the command's own checkpoint, a checkpoint that was
\* cut short (CheckpointService::save does not ask whether its write succeeded),
\* and a change id that two changes share.
Recoverable ==
    [][\A t \in Thread, f \in Files :
          (Steps(t) /\ disk'[f] # disk[f])
          => (f \in job[t].moved \/ Held(f, disk[f]) \/ Unkept(job[t]) \/ Confused(job[t]))]_vars

\* apply(), revert() and restore() without force: a file is replaced only while
\* it holds what the command knows (the content the patch was computed from,
\* what the change left, what the checkpoint saved), unless it was written
\* between the command's look and its write. restore() deletes files newer than
\* the checkpoint without looking, and is not judged there.
EditsKept ==
    [][\A t \in Thread :
          (Steps(t) /\ job[t].todo # <<>>) =>
              LET w == Head(job[t].todo)
              IN  \/ disk'[w.file] = disk[w.file] \/ w.expect = {}
                  \/ w.file \in job[t].stale \/ disk[w.file] \in w.expect]_vars

\* What a command that reports success was to leave in file f.
Intended(j, f) ==
    IF j.kind = "restore" THEN checkpoints[j.id].files[f]
    ELSE LET e == CHOOSE r \in ToSet(j.record) : r.file = f
         IN  IF j.kind = "revert" THEN e.before ELSE e.after

\* A patch, a revert or a restore that reports success has done all of it: each
\* of its files is as intended. The exceptions are a file that somebody else wrote
\* since the command's checkpoint, a change id that is not unique, and the faults
\* the code does not look for: a temporary file cut short when it was closed, and a
\* restore from a checkpoint that was cut short. Any other fault, a conflict or a
\* lost temporary file on the way is never reported as success.
Delivers ==
    [][\A t \in Thread :
          (/\ job[t].kind \in {"apply", "safe", "revert", "restore"}
           /\ audit[t] = "none" /\ audit'[t] = "success"
           /\ ~Confused(job[t]) /\ ~job[t].torn)
          => \A f \in job[t].files \ (job[t].moved \cup job[t].short) :
                disk'[f] = Intended(job[t], f)]_vars

-----------------------------------------------------------------------------
(* What the documentation says. TLC refutes both with a write that is cut  *)
(* short; no run keeps them.                                               *)

\* docs/runtime_execution_model.md, "Checkpoint failure stops before execute":
\* once the checkpoint stage is over, a command has a checkpoint to go back to.
FailedCheckpointStops ==
    \A t \in Thread :
        (job[t].pc \in {"execute", "check", "write", "rename"} /\ job[t].own # {})
        => ~Unkept(job[t])

\* docs/tools-reference.md, restore_checkpoint with no paths restores all files of
\* the checkpoint: no restore of a record without its files reports success.
TornNotRestored ==
    [][\A t \in Thread :
          (job[t].kind = "restore" /\ job[t].torn /\ job'[t].pc = "idle")
          => audit'[t] # "success"]_vars
=============================================================================
