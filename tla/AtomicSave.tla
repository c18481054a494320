----------------------------- MODULE AtomicSave -----------------------------
(***************************************************************************)
(* Saving a buffer to its file: the changed-on-disk check                  *)
(* (persist/disk.rs), the backups (persist/backup.rs), the write by rename *)
(* or in place (persist/atomic.rs) and what the session notes of it        *)
(* (app/file_cmds.rs, app/dispatch.rs, app/session.rs), with a failure, a  *)
(* crash or another program's write between any two system calls.          *)
(*                                                                         *)
(* A text is an atom.  A directory entry holds the file it names; entries  *)
(* with one id are hard links of one inode.  `now` is what a read of the   *)
(* inode gives, `stable` what stable storage has of it.                    *)
(***************************************************************************)
EXTENDS Naturals

CONSTANTS
    Text,       \* whole texts
    Blank,      \* the empty one, which a missing file opens as
    Torn,       \* part of a text: a write that stopped half-way
    Gone,       \* no file
    Options,    \* the write options sessions run with
    MaxId,      \* bound: inodes that exist at a time
    MaxEvents   \* bound: saves, reads, other programs' writes and crashes

ASSUME ConstantsAssumption ==
    /\ Blank \in Text
    /\ {Torn, Gone} \cap Text = {} /\ Torn # Gone
    /\ MaxId \in Nat \ {0} /\ MaxEvents \in Nat
    /\ Options \subseteq [copy : {"auto", "yes", "no"}, keep : BOOLEAN, guard : BOOLEAN,
                          once : BOOLEAN, split : BOOLEAN, fsync : BOOLEAN, autoread : BOOLEAN]

VARIABLES
    dir,        \* the directory's entries
    sfile,      \* the file the path names on stable storage
    moved,      \* the path's stat is not the one in Seen.last
    seen,       \* Seen: the text of its hash, and its state
    backed_up,  \* the Emacs visit has made its backup
    buf, clean, \* the buffer, and ~is_modified
    opts,       \* WriteOptions
    pc, job,    \* where the save stands, and what it has found and made
    unread,     \* the path holds another program's text, written while the
                \* session was idle and not read since
    by,         \* who last changed what the path holds
    events      \* how many there were

session == <<seen, backed_up, buf, clean, opts>>
vars == <<dir, sfile, moved, session, pc, job, unread, by, events>>

Name == {"target", "backup", "temp", "link"}
Id == 1 .. MaxId
NoFile == [id |-> 0, now |-> Gone, stable |-> Gone]
Content == Text \cup {Torn}
File == [id : Id, now : Content, stable : Content] \cup {NoFile}

NoJob == [force |-> FALSE, visit |-> FALSE, text |-> Blank, in_place |-> FALSE,
          made |-> FALSE, exists |-> FALSE, id |-> 0, old |-> Gone, raced |-> FALSE,
          proven |-> TRUE, ok |-> TRUE]
Job == [force : BOOLEAN, visit : BOOLEAN, text : Content, in_place : BOOLEAN,
        made : BOOLEAN, exists : BOOLEAN, id : {0} \cup Id, old : Content \cup {Gone},
        raced : BOOLEAN, proven : BOOLEAN, ok : BOOLEAN]
Steps == {"idle", "dead", "read", "prepare", "unlink", "preserve", "copying", "create",
          "fill", "rename", "sync_dir", "open", "write", "writing", "sync_file", "finish",
          "saw"}

\* Files, texts and steps.
TypeOK ==
    /\ dir \in [Name -> File] /\ sfile \in File
    /\ moved \in BOOLEAN /\ backed_up \in BOOLEAN /\ clean \in BOOLEAN
    /\ seen \in [text : Content, state : {"same", "changed", "gone"}]
    /\ buf \in Content
    /\ opts \in Options
    /\ pc \in Steps
    /\ job \in Job
    /\ unread \in BOOLEAN /\ by \in {"save", "others"} /\ events \in 0 .. MaxEvents

----------------------------------------------------------------------------
(* The file system (external).                                             *)

Target == dir["target"]
TextOf(f) == IF f = NoFile THEN Blank ELSE f.now
Free == Id \ ({dir[n].id : n \in Name} \cup {sfile.id, job.id})
Fresh == CHOOSE id \in Free : TRUE
CanCreate == Free # {}

\* The inode `id` changes, under whatever names it has.
Write(id, now, synced) ==
    LET Written(f) == IF f.id # id THEN f
                      ELSE [f EXCEPT !.now = now, !.stable = IF synced THEN now ELSE @]
    IN  /\ dir' = [n \in Name |-> Written(dir[n])]
        /\ sfile' = Written(sfile)

Linked(n, f) == dir' = [dir EXCEPT ![n] = f] /\ sfile' = sfile

\* st_nlink > 1
HardLinked == Target # NoFile /\ \E n \in Name \ {"target"} : dir[n].id = Target.id

\* What the path may hold after a power cut.
Outcomes ==
    UNION {IF f.now = f.stable THEN {f.now} ELSE {f.now, f.stable, Torn} :
           f \in {Target, sfile}}

----------------------------------------------------------------------------
(* What the session has seen of the file.                                  *)

\* Variant: a file once found as it was is taken to be so.
CheckedOnce ==
    IF seen.state = "same" /\ Target # NoFile THEN "same" ELSE seen.state

\* Seen::check
Checked ==
    IF ~moved THEN seen.state
    ELSE IF Target = NoFile THEN "gone"
    ELSE IF Target.now = seen.text THEN "same" ELSE "changed"

\* What saw notes.
SeenOf(t) == [text |-> t, state |-> "same"]

\* conflicts, without `!`
Conflicts == Checked = "changed"

----------------------------------------------------------------------------
Init ==
    /\ opts \in Options
    /\ buf \in Text
    /\ \E linked \in BOOLEAN :
         dir = [n \in Name |-> IF n = "target" \/ (linked /\ n = "link")
                               THEN [id |-> 1, now |-> buf, stable |-> buf] ELSE NoFile]
    /\ sfile = dir["target"]
    /\ moved = FALSE
    /\ seen = SeenOf(buf)
    /\ backed_up = FALSE
    /\ clean = TRUE
    /\ pc = "idle"
    /\ job = NoJob
    /\ unread = FALSE
    /\ by = "others"
    /\ events = 0

Event == events < MaxEvents /\ events' = events + 1

Edit(t) ==
    /\ pc = "idle"
    /\ t # buf
    /\ buf' = t
    /\ clean' = FALSE
    /\ UNCHANGED <<dir, sfile, moved, seen, backed_up, opts, pc, job, unread, by, events>>

\* write_own and save: a file another program changed is not written over
\* without `!`.
Save(force) ==
    /\ Event
    /\ pc = "idle"
    /\ IF force
       THEN UNCHANGED <<seen, moved>>
       ELSE seen' = [seen EXCEPT !.state = Checked] /\ moved' = FALSE
    /\ IF ~force /\ Conflicts
       THEN UNCHANGED <<pc, job>>
       ELSE /\ pc' = "prepare"
            /\ job' = [NoJob EXCEPT !.force = force, !.text = buf, !.old = TextOf(Target)]
    /\ UNCHANGED <<dir, sfile, backed_up, buf, clean, opts, unread, by>>

\* Policy::wanted
Wanted(in_place) == (opts.keep \/ (opts.guard /\ in_place)) /\ ~(opts.once /\ backed_up)

\* The method write_with means to use.
MeansInPlace(copy) ==
    /\ Target # NoFile
    /\ copy = "yes" \/ (copy = "auto" /\ HardLinked)
    /\ ~(opts.split /\ HardLinked)

\* write_with up to the backups: stale temps go, a file that may not be
\* written is E505 without `!`.
Prepare ==
    /\ pc = "prepare"
    /\ Linked("temp", NoFile)
    /\ \E copy \in IF opts.once /\ Target # NoFile /\ Wanted(FALSE)
                   THEN {"yes", "no"} ELSE {opts.copy} :
         LET in_place == MeansInPlace(copy)
             j == [job EXCEPT !.in_place = in_place, !.exists = Target # NoFile]
         IN  \/ /\ job' = j
                /\ pc' = IF j.exists /\ Wanted(in_place) THEN "unlink"
                         ELSE IF in_place THEN "open" ELSE "create"
             \/ /\ j.exists /\ ~job.force
                /\ job' = NoJob
                /\ pc' = "idle"
    /\ UNCHANGED <<moved, session, unread, by, events>>

----------------------------------------------------------------------------
(* The backup.                                                             *)

\* Variant: a backup is a hard link where one can be made.
LinksAlways == TRUE

\* preserve links the file a rename will replace, and copies one that will
\* be written in place.
LinksBackup == ~job.in_place

AfterBackup == IF job.in_place THEN "open" ELSE "create"

\* preserve: the previous backup goes first.
PreserveUnlinks ==
    /\ pc = "unlink"
    /\ Linked("backup", NoFile)
    /\ pc' = "preserve"
    /\ UNCHANGED <<moved, session, job, unread, by, events>>

PreserveLinks ==
    /\ pc = "preserve"
    /\ LinksBackup /\ Target # NoFile
    /\ Linked("backup", Target)
    /\ pc' = AfterBackup
    /\ job' = [job EXCEPT !.made = TRUE]
    /\ backed_up' = opts.once
    /\ UNCHANGED <<moved, seen, buf, clean, opts, unread, by, events>>

\* copy_file creates the backup, and later has copied and synced it.
PreserveCopies ==
    /\ pc = "preserve"
    /\ Target # NoFile /\ CanCreate
    /\ Linked("backup", [id |-> Fresh, now |-> Torn, stable |-> Torn])
    /\ pc' = "copying"
    /\ UNCHANGED <<moved, session, job, unread, by, events>>

CopyEnds ==
    /\ pc = "copying"
    /\ Target # NoFile
    /\ Write(dir["backup"].id, Target.now, TRUE)
    /\ pc' = AfterBackup
    /\ job' = [job EXCEPT !.made = TRUE]
    /\ backed_up' = opts.once
    /\ UNCHANGED <<moved, seen, buf, clean, opts, unread, by, events>>

\* No place takes the backup: E509 or E510, which only `!` goes past.
BackupFails ==
    /\ pc \in {"unlink", "preserve", "copying"}
    /\ Linked("backup", IF pc = "unlink" THEN dir["backup"] ELSE NoFile)
    /\ pc' = IF job.force THEN AfterBackup ELSE "idle"
    /\ job' = IF job.force THEN job ELSE NoJob
    /\ UNCHANGED <<moved, session, unread, by, events>>

----------------------------------------------------------------------------
(* The write by rename.                                                    *)

\* create_temp; in a directory that takes no new file an existing file is
\* written in place.
CreateTemp ==
    /\ pc = "create"
    /\ CanCreate
    /\ Linked("temp", [id |-> Fresh, now |-> Torn, stable |-> Torn])
    /\ pc' = "fill"
    /\ UNCHANGED <<moved, session, job, unread, by, events>>

\* The rename became an in-place write: a write backup is made now, unless
\* there is a backup already.
Fallback == IF ~job.made /\ Wanted(TRUE) THEN "unlink" ELSE "open"

\* Attempt::InPlace, from create_temp or because the owner or an extended
\* attribute cannot be given to a new file.
FallBack ==
    /\ pc \in {"create", "fill"} /\ job.exists
    /\ Linked("temp", NoFile)
    /\ job' = [job EXCEPT !.in_place = TRUE]
    /\ pc' = Fallback
    /\ UNCHANGED <<moved, session, unread, by, events>>

\* Variant: the temp is renamed without a sync.
FillUnsynced ==
    /\ pc = "fill"
    /\ Write(dir["temp"].id, job.text, FALSE)
    /\ pc' = "rename"
    /\ UNCHANGED <<moved, session, job, unread, by, events>>

\* fill_temp: the bytes, owner, mode and attributes, and the sync.
FillTemp ==
    /\ pc = "fill"
    /\ Write(dir["temp"].id, job.text, opts.fsync)
    /\ pc' = "rename"
    /\ UNCHANGED <<moved, session, job, unread, by, events>>

\* Variant: the old file is removed first.
RemoveThenRename ==
    /\ pc = "rename"
    /\ dir' = IF Target = NoFile
              THEN [dir EXCEPT !["target"] = dir["temp"], !["temp"] = NoFile]
              ELSE [dir EXCEPT !["target"] = NoFile]
    /\ sfile' = sfile
    /\ moved' = TRUE /\ by' = "save"
    /\ job' = [job EXCEPT !.id = dir["temp"].id]
    /\ pc' = IF Target # NoFile THEN "rename"
             ELSE IF opts.fsync THEN "sync_dir" ELSE "finish"
    /\ unread' = FALSE
    /\ UNCHANGED <<session, events>>

RenameTemp ==
    /\ pc = "rename"
    /\ dir' = [dir EXCEPT !["target"] = dir["temp"], !["temp"] = NoFile] /\ sfile' = sfile
    /\ moved' = TRUE /\ by' = "save"
    /\ job' = [job EXCEPT !.id = dir["temp"].id]
    /\ pc' = IF opts.fsync THEN "sync_dir" ELSE "finish"
    /\ unread' = FALSE
    /\ UNCHANGED <<session, events>>

\* SaveError::Untouched: the temp is removed.
ReplaceFails ==
    /\ pc \in {"create", "fill", "rename"}
    /\ Linked("temp", NoFile)
    /\ job' = [job EXCEPT !.ok = FALSE]
    /\ pc' = "finish"
    /\ UNCHANGED <<moved, session, unread, by, events>>

\* sync_dir: done, not supported here, or failed (NotDurable).
SyncDir ==
    /\ pc = "sync_dir"
    /\ \/ dir' = dir /\ sfile' = Target /\ job' = job
       \/ /\ UNCHANGED <<dir, sfile>>
          /\ \/ job' = [job EXCEPT !.proven = FALSE]
             \/ job' = [job EXCEPT !.ok = FALSE]
    /\ pc' = "finish"
    /\ UNCHANGED <<moved, session, unread, by, events>>

----------------------------------------------------------------------------
(* The write in place.                                                     *)

\* in_place_write opens what the path now names.
OpenInPlace ==
    /\ pc = "open"
    /\ \/ /\ Target # NoFile
          /\ job' = [job EXCEPT !.id = Target.id]
          /\ pc' = "write"
       \/ /\ job' = [job EXCEPT !.ok = FALSE]
          /\ pc' = "finish"
    /\ UNCHANGED <<dir, sfile, moved, session, unread, by, events>>

Hits == Target.id = job.id

WriteBegins ==
    /\ pc = "write"
    /\ Write(job.id, Torn, FALSE)
    /\ moved' = (moved \/ Hits) /\ by' = IF Hits THEN "save" ELSE by
    /\ unread' = (unread /\ ~Hits)
    /\ pc' = "writing"
    /\ UNCHANGED <<session, job, events>>

\* write_all and set_len end, or fail (Partial).
WriteEnds ==
    /\ pc = "writing"
    /\ \/ /\ Write(job.id, job.text, FALSE)
          /\ by' = IF Hits THEN "save" ELSE by
          /\ pc' = IF opts.fsync THEN "sync_file" ELSE "finish"
          /\ job' = job
       \/ /\ UNCHANGED <<dir, sfile, by>>
          /\ job' = [job EXCEPT !.ok = FALSE]
          /\ pc' = "finish"
    /\ UNCHANGED <<moved, session, unread, events>>

SyncFile ==
    /\ pc = "sync_file"
    /\ \/ Write(job.id, job.text, TRUE) /\ job' = job
       \/ job' = [job EXCEPT !.ok = FALSE] /\ UNCHANGED <<dir, sfile>>
    /\ pc' = "finish"
    /\ UNCHANGED <<moved, session, unread, by, events>>

----------------------------------------------------------------------------
(* The end of a save, and reads.                                           *)

\* Made::finish: a backup that only guarded the write goes with its success.
DropsBackup == job.made /\ ~opts.keep /\ job.ok

Finish ==
    /\ pc = "finish"
    /\ Linked("backup", IF DropsBackup THEN NoFile ELSE dir["backup"])
    /\ pc' = IF job.ok THEN "saw" ELSE "idle"
    /\ job' = IF job.ok THEN job ELSE NoJob
    /\ UNCHANGED <<moved, session, unread, by, events>>

\* saw, then mark_saved: only now is the file looked at.
Saw ==
    /\ pc = "saw"
    /\ seen' = SeenOf(job.text)
    /\ moved' = FALSE
    /\ clean' = TRUE
    /\ unread' = FALSE
    /\ pc' = "idle" /\ job' = NoJob
    /\ UNCHANGED <<dir, sfile, backed_up, buf, opts, by, events>>

\* Start-up, `:e!`, or 'autoread' of a clean buffer that check_disk finds
\* changed: the file is read.
ReadFile ==
    /\ Event
    /\ \/ /\ pc = "dead" \/ (pc = "idle" /\ Target # NoFile)
          /\ UNCHANGED <<seen, moved>>
          /\ job' = [NoJob EXCEPT !.text = TextOf(Target), !.visit = TRUE]
       \/ /\ pc = "idle" /\ clean /\ opts.autoread /\ Conflicts
          /\ seen' = [seen EXCEPT !.state = Checked] /\ moved' = FALSE
          /\ job' = [NoJob EXCEPT !.text = TextOf(Target)]
    /\ pc' = "read"
    /\ unread' = FALSE
    /\ UNCHANGED <<dir, sfile, backed_up, buf, clean, opts, by>>

\* saw: its stat is taken after the read and after any recovery prompt.
ReadSaw ==
    /\ pc = "read"
    /\ seen' = SeenOf(job.text)
    /\ moved' = FALSE
    /\ buf' = job.text /\ clean' = TRUE
    /\ backed_up' = (backed_up /\ ~job.visit)
    /\ pc' = "idle" /\ job' = NoJob
    /\ UNCHANGED <<dir, sfile, opts, unread, by, events>>

\* check_disk without a reload (or the file cannot be read): the state is
\* only noted.
CheckDisk ==
    /\ pc = "idle"
    /\ seen' = [seen EXCEPT !.state = Checked]
    /\ moved' = FALSE
    /\ UNCHANGED <<dir, sfile, backed_up, buf, clean, opts, pc, job, unread, by, events>>

----------------------------------------------------------------------------
(* Other programs and crashes (external).                                  *)

\* Another program replaces the file, or removes it.
OtherProgram(t) ==
    /\ Event
    /\ pc # "dead"
    /\ t # Target.now
    /\ \/ t = Gone
       \/ t \in Text /\ CanCreate
    /\ LET f == IF t = Gone THEN NoFile ELSE [id |-> Fresh, now |-> t, stable |-> t]
       IN  dir' = [dir EXCEPT !["target"] = f] /\ sfile' = f
    /\ moved' = TRUE
    /\ by' = "others"
    /\ unread' = (pc = "idle" /\ t \notin {Gone, seen.text})
    /\ job' = IF pc = "idle" THEN job ELSE [job EXCEPT !.raced = TRUE]
    /\ UNCHANGED <<session, pc>>

\* The session's memory goes.
Dies ==
    /\ Event
    /\ pc # "dead"
    /\ pc' = "dead"
    /\ job' = NoJob
    /\ seen' = SeenOf(Blank) /\ moved' = FALSE
    /\ buf' = Blank /\ clean' = TRUE /\ backed_up' = FALSE
    /\ unread' = FALSE
    /\ opts' = opts

\* The process is killed; the file system goes on.
Kill ==
    /\ Dies
    /\ UNCHANGED <<dir, sfile, by>>

\* The power goes: contents and a renamed entry that were not synced may be
\* lost.
PowerCut ==
    /\ Dies
    /\ \E f \in {Target, sfile} :
       LET d == [dir EXCEPT !["target"] = f]
           dirty == {n \in Name : d[n].now # d[n].stable}
       IN  \E kept \in [{d[n].id : n \in dirty} -> {"now", "stable", "torn"}] :
             dir' = [n \in Name |->
                       IF n \notin dirty THEN d[n]
                       ELSE LET t == CASE kept[d[n].id] = "now" -> d[n].now
                                       [] kept[d[n].id] = "stable" -> d[n].stable
                                       [] OTHER -> Torn
                            IN  [d[n] EXCEPT !.now = t, !.stable = t]]
    /\ sfile' = dir'["target"]
    /\ by' = "others"

Next ==
    \/ \E t \in Text : Edit(t)
    \/ \E force \in BOOLEAN : Save(force)
    \/ Prepare
    \/ PreserveUnlinks \/ PreserveLinks \/ PreserveCopies \/ CopyEnds \/ BackupFails
    \/ CreateTemp \/ FallBack \/ FillTemp \/ RenameTemp \/ ReplaceFails \/ SyncDir
    \/ OpenInPlace \/ WriteBegins \/ WriteEnds \/ SyncFile
    \/ Finish \/ Saw
    \/ ReadFile \/ ReadSaw \/ CheckDisk
    \/ \E t \in Text \cup {Gone} : OtherProgram(t)
    \/ Kill \/ PowerCut

Spec == Init /\ [][Next]_vars

----------------------------------------------------------------------------
(* Properties.                                                             *)

\* A save implements the atomic one: whatever fails or crashes between two
\* system calls, the path holds the old text or the new, and less only after
\* write_with has gone in place.
Abstract == INSTANCE SafeFile WITH
    file <- IF Target = NoFile THEN Gone ELSE Target.now,
    saving <- [new |-> job.text, atomic |-> ~job.in_place],
    foreign <- (by = "others")
SaveIsAtomic == Abstract!Spec

\* "Written" means durable: when a synced save reports success, a power cut at
\* any later moment leaves the saved text.  The ways out are stated: the file
\* system has no directory sync (the report says so), another program wrote
\* after the save, or the save wrote into a file whose own name was never
\* synced.
ReportedIsDurable ==
    [][pc = "saw" /\ pc' = "idle" /\ opts.fsync /\ job.proven /\ ~job.raced
         /\ (job.in_place => sfile.id = job.id)
         => Outcomes' = {buf'}]_vars

\* A text another program wrote while the session was idle is never written
\* over without `!`, however often the file was checked, deleted and restored
\* in between.
NoSilentOverwrite ==
    /\ TypeOK
    /\ unread /\ pc \notin {"idle", "dead", "read"} => job.force

\* While a write in place is under way, and after it failed, the write backup
\* holds the text that was there, also when the write meant to rename.
WriteBackupGuards ==
    [][/\ pc \in {"writing", "sync_file"} \/ (pc = "finish" /\ ~job.ok)
       /\ job.in_place /\ job.id # 0 /\ ~job.raced
       /\ opts.guard /\ ~opts.keep /\ ~opts.once /\ ~job.force
       => dir'["backup"].now = job.old]_vars

\* backup.rs: "a backup of an in-place write is always a copy, since the write
\* changes that inode".
BackupOfInPlaceIsCopy ==
    pc = "writing" /\ job.made /\ ~job.raced => dir["backup"].id # job.id
=============================================================================
