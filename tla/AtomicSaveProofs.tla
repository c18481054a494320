-------------------------- MODULE AtomicSaveProofs --------------------------
(***************************************************************************)
(* A save, for all texts, options and bounds: it implements the atomic     *)
(* file of module SafeFile, writes over nothing it has not seen, guards a  *)
(* write in place with a backup, and reports as durable what is.           *)
(***************************************************************************)
EXTENDS AtomicSave, TLAPS

Busy == pc \notin {"idle", "dead", "read"}

(* A temp or a backup under way is a file of its own, which nothing else   *)
(* names; and a rename is on its way to the path with the whole text.      *)
OwnFile(n) ==
    /\ dir[n].id # 0 /\ dir[n].id # sfile.id
    /\ \A m \in Name \ {n} : dir[m].id # dir[n].id

TempInv ==
    /\ pc \in {"fill", "rename"} => OwnFile("temp")
    /\ pc = "rename" => dir["temp"].now = job.text
    /\ pc = "rename" /\ opts.fsync => dir["temp"].stable = job.text
    /\ pc = "copying" => OwnFile("backup")

(* Which method a step belongs to, and the inode a write in place has open.*)
MethodInv ==
    /\ pc \in {"prepare", "create", "fill", "rename", "sync_dir"} => ~job.in_place
    /\ pc \in {"open", "write", "writing", "sync_file"} => job.in_place
    /\ pc \in {"prepare", "unlink", "preserve", "copying", "create", "fill", "rename", "open"}
          => job.id = 0
    /\ pc \in {"write", "writing", "sync_file"} => job.id # 0
    /\ pc \in {"finish", "saw"} /\ opts.fsync /\ job.ok /\ job.in_place => job.id # 0
    /\ pc \in {"write", "writing", "sync_file"} /\ ~job.raced => Target.id = job.id
    /\ pc = "sync_file" /\ Target.id = job.id => Target.now = job.text

(* Another program's text that was not read is told from what the session  *)
(* has seen, and no write of the session has begun over it.                *)
UnreadInv ==
    unread => /\ pc \notin {"read", "dead"}
              /\ Busy => job.force
              /\ Target # NoFile /\ Target.now # seen.text
              /\ moved \/ seen.state = "changed"
              /\ pc \in {"writing", "sync_file"} => Target.id # job.id

(* The text being saved is the buffer's.                                   *)
BufferInv == Busy => job.text = buf

Settled(f) == f.now = job.text /\ f.stable = job.text

(* What a synced save has brought to stable storage when it reports.       *)
DurableInv ==
    opts.fsync /\ ~job.raced =>
        /\ pc = "sync_dir" => Settled(Target)
        /\ (pc = "saw" \/ (pc = "finish" /\ job.ok)) /\ job.in_place =>
              Settled(Target) /\ (sfile.id = job.id => Settled(sfile))
        /\ (pc = "saw" \/ (pc = "finish" /\ job.ok)) /\ ~job.in_place /\ job.proven =>
              Settled(Target) /\ Settled(sfile)

(* A write backup, and nothing that would take its place.                  *)
Guarding == opts.guard /\ ~opts.keep /\ ~opts.once /\ ~job.force

GuardInv ==
    /\ Busy /\ ~job.raced /\ pc \in {"prepare", "unlink", "preserve", "copying", "create",
                                     "fill", "rename", "open", "write"}
          => TextOf(Target) = job.old
    /\ Busy /\ Guarding /\ ~job.in_place => ~job.made
    /\ pc \in {"unlink", "preserve", "copying"} /\ Guarding => job.in_place
    /\ Busy /\ Guarding /\ job.in_place /\ ~job.raced
          /\ pc \in {"open", "write", "writing", "sync_file", "finish"} /\ (pc = "finish" => ~job.ok)
          => /\ dir["backup"].now = job.old /\ dir["backup"].stable = job.old
             /\ dir["backup"].id # 0 /\ dir["backup"].id # Target.id /\ dir["backup"].id # job.id

IInv ==
    /\ TypeOK
    /\ TempInv
    /\ MethodInv
    /\ UnreadInv
    /\ BufferInv
    /\ DurableInv
    /\ GuardInv

----------------------------------------------------------------------------
(* What the records are, so that the proofs need not look inside them.     *)
LEMMA Files ==
    /\ NoFile \in File /\ NoFile.id = 0 /\ NoFile.now = Gone /\ NoFile.stable = Gone
    /\ \A f \in File : f # NoFile => f.id \in Id /\ f.now \in Content /\ f.stable \in Content
    /\ \A f \in File : f = NoFile <=> f.id = 0
    /\ \A i \in Id, s, t \in Content : [id |-> i, now |-> s, stable |-> t] \in File
    /\ 0 \notin Id /\ Gone \notin Content /\ Torn \in Content /\ Blank \in Content
    /\ Text \subseteq Content
BY ConstantsAssumption DEF File, NoFile, Id, Content

LEMMA NoJobFields ==
    /\ NoJob \in Job /\ ~NoJob.force /\ ~NoJob.in_place /\ NoJob.id = 0 /\ ~NoJob.raced
    /\ NoJob.proven /\ NoJob.ok /\ ~NoJob.made /\ NoJob.text = Blank
BY Files DEF NoJob, Job

LEMMA Reading ==
    ASSUME TypeOK
    PROVE  /\ Target \in File /\ TextOf(Target) \in Content
           /\ Checked \in {"same", "changed", "gone"}
BY Files DEF TypeOK, Target, TextOf, Checked, Name

(* A new file's inode is one nothing names.                                *)
LEMMA FreshIsFree ==
    ASSUME CanCreate
    PROVE  /\ Fresh \in Id /\ Fresh # sfile.id /\ Fresh # job.id
           /\ \A n \in Name : Fresh # dir[n].id
<1>1. Fresh \in Free
  BY DEF CanCreate, Fresh
<1> QED
  BY <1>1 DEF Free

(* A write to an inode changes the files with that inode.                  *)
LEMMA WriteEffect ==
    ASSUME TypeOK, NEW i \in Id, NEW t \in Content, NEW synced \in BOOLEAN,
           Write(i, t, synced)
    PROVE  /\ dir' \in [Name -> File] /\ sfile' \in File
           /\ \A n \in Name :
                 /\ dir[n].id # i => dir'[n] = dir[n]
                 /\ dir[n].id = i => /\ dir'[n].id = i /\ dir'[n].now = t
                                     /\ synced => dir'[n].stable = t
           /\ sfile.id # i => sfile' = sfile
           /\ sfile.id = i => /\ sfile'.id = i /\ sfile'.now = t
                              /\ synced => sfile'.stable = t
<1> USE Files DEF TypeOK
<1> DEFINE Written(f) == IF f.id # i THEN f
                         ELSE [f EXCEPT !.now = t, !.stable = IF synced THEN t ELSE @]
<1>1. ASSUME NEW f \in File
      PROVE  /\ Written(f) \in File
             /\ f.id # i => Written(f) = f
             /\ f.id = i => /\ Written(f).id = i /\ Written(f).now = t
                            /\ synced => Written(f).stable = t
  <2>1. CASE f.id # i
    BY <2>1
  <2>2. CASE f.id = i
    <3>1. f \in [id : Id, now : Content, stable : Content]
      BY <2>2 DEF File
    <3> QED
      BY <2>2, <3>1 DEF File
  <2> QED
    BY <2>1, <2>2
<1>2. dir' = [n \in Name |-> Written(dir[n])] /\ sfile' = Written(sfile)
  BY DEF Write
<1> HIDE DEF Written
<1> QED
  BY <1>1, <1>2

(* Changing the buffer, which only an idle session does.                   *)
LEMMA EditPreserves ==
    ASSUME IInv, NEW t \in Text, Edit(t)
    PROVE  IInv'
<1> USE Files, NoJobFields DEF IInv, session, Edit
<1>1. TypeOK'
  <2>1. job' \in Job
    BY  DEF TypeOK
  <2>2. dir' \in [Name -> File] /\ sfile' \in File
    BY  DEF TypeOK, Name
  <2> QED
    BY <2>1, <2>2, Reading, ConstantsAssumption DEF TypeOK, Steps
<1>2. TempInv'
  BY DEF TypeOK, TempInv, OwnFile, Name, Job
<1>3. MethodInv'
  BY DEF TypeOK, MethodInv, Target, Name, Job
<1>4. UnreadInv' /\ BufferInv'
  BY DEF TypeOK, UnreadInv, BufferInv, Busy, Target, Name, Job
<1>5. DurableInv'
  BY DEF TypeOK, DurableInv, MethodInv, Settled, Target, Name, Job
<1>6. GuardInv'
  BY DEF TypeOK, GuardInv, MethodInv, Busy, Guarding, TextOf, Target, Name, Job
<1> QED
  BY <1>1, <1>2, <1>3, <1>4, <1>5, <1>6

(* A save of a file with an unread text goes on only with `!`.             *)
LEMMA SavePreserves ==
    ASSUME IInv, NEW force \in BOOLEAN, Save(force)
    PROVE  IInv'
<1> USE Files, NoJobFields DEF IInv, session, Save, Event, Conflicts
<1>1. TypeOK'
  <2>1. job' \in Job
    <3>1. [NoJob EXCEPT !.force = force, !.text = buf, !.old = TextOf(Target)] \in Job
      <4>1. buf \in Content /\ TextOf(Target) \in Content
        BY Reading DEF TypeOK
      <4> QED
        BY <4>1 DEF NoJob, Job
    <3> QED
      BY <3>1 DEF TypeOK
  <2>2. dir' \in [Name -> File] /\ sfile' \in File
    BY  DEF TypeOK, Name
  <2>3. seen' \in [text : Content, state : {"same", "changed", "gone"}] /\ moved' \in BOOLEAN
    BY Reading DEF TypeOK
  <2>4. pc' \in Steps /\ events' \in 0 .. MaxEvents
    BY ConstantsAssumption DEF TypeOK, Steps
  <2> QED
    BY <2>1, <2>2, <2>3, <2>4 DEF TypeOK
<1>2. TempInv'
  BY DEF TypeOK, TempInv, OwnFile, Name, Job
<1>3. MethodInv'
  BY DEF TypeOK, MethodInv, Target, Name, Job
<1>4. UnreadInv' /\ BufferInv'
  BY DEF TypeOK, UnreadInv, BufferInv, Busy, Target, Name, Job, Checked
<1>5. DurableInv'
  BY DEF TypeOK, DurableInv, MethodInv, Settled, Target, Name, Job
<1>6. GuardInv'
  BY DEF TypeOK, GuardInv, MethodInv, Busy, Guarding, TextOf, Target, Name, Job
<1> QED
  BY <1>1, <1>2, <1>3, <1>4, <1>5, <1>6

(* The method is chosen, or E505.                                          *)
LEMMA PreparePreserves ==
    ASSUME IInv, Prepare
    PROVE  IInv'
<1> USE Files, NoJobFields DEF IInv, session
<1> DEFINE J(b) == [job EXCEPT !.in_place = b, !.exists = Target # NoFile]
<1>1. PICK in_place \in BOOLEAN :
         /\ in_place => Target # NoFile
         /\ \/ /\ job' = J(in_place)
               /\ pc' = IF J(in_place).exists /\ Wanted(in_place) THEN "unlink"
                        ELSE IF in_place THEN "open" ELSE "create"
            \/ job' = NoJob /\ pc' = "idle" /\ ~job.force
  BY DEF Prepare, MeansInPlace
<1>2. /\ pc = "prepare" /\ dir' = [dir EXCEPT !["temp"] = NoFile] /\ sfile' = sfile
      /\ UNCHANGED <<moved, seen, backed_up, buf, clean, opts, unread, by, events>>
  BY DEF Prepare, Linked
<1>3. Target' = Target /\ dir'["backup"] = dir["backup"] /\ Target \in File
  BY <1>2 DEF TypeOK, Target, Name
<1>4. \/ /\ job' \in Job /\ job'.in_place = in_place /\ job'.force = job.force
         /\ job'.text = job.text /\ job'.raced = job.raced /\ job'.old = job.old
         /\ job'.made = job.made /\ job'.ok = job.ok /\ job'.id = job.id
         /\ \/ pc' = "unlink" /\ Wanted(in_place)
            \/ pc' = "open" /\ in_place /\ ~Wanted(in_place)
            \/ pc' = "create" /\ ~in_place
      \/ job' = NoJob /\ pc' = "idle" /\ ~job.force
  <2>1. /\ J(in_place) \in Job /\ J(in_place).in_place = in_place
        /\ J(in_place).force = job.force /\ J(in_place).text = job.text
        /\ J(in_place).raced = job.raced /\ J(in_place).old = job.old
        /\ J(in_place).made = job.made /\ J(in_place).ok = job.ok
        /\ J(in_place).id = job.id
        /\ J(in_place).exists = (Target # NoFile)
    BY DEF TypeOK, Job
  <2> HIDE DEF J
  <2>2. CASE job' = J(in_place)
    <3>1. \/ pc' = "unlink" /\ Wanted(in_place)
          \/ pc' = "open" /\ in_place /\ ~Wanted(in_place)
          \/ pc' = "create" /\ ~in_place
          \/ pc' = "idle" /\ ~job.force /\ job' = NoJob
      BY <1>1, <2>1
    <3> QED
      BY <2>1, <2>2, <3>1
  <2> QED
    BY <1>1, <2>2
<1>5. TypeOK'
  BY <1>2, <1>4 DEF TypeOK, Name, Steps
<1>6. TempInv' /\ BufferInv' /\ DurableInv'
  BY <1>2, <1>4 DEF TempInv, BufferInv, DurableInv, Busy
<1>9. MethodInv'
  BY <1>2, <1>4 DEF MethodInv
<1>7. UnreadInv'
  BY <1>2, <1>3, <1>4 DEF UnreadInv, Busy
<1>8. GuardInv'
  BY <1>2, <1>3, <1>4 DEF TypeOK, GuardInv, MethodInv, Busy, Guarding, TextOf, Wanted
<1> QED
  BY <1>5, <1>6, <1>7, <1>8, <1>9

(* The previous backup goes.                                               *)
LEMMA PreserveUnlinksPreserves ==
    ASSUME IInv, PreserveUnlinks
    PROVE  IInv'
<1> USE Files, NoJobFields DEF IInv, session, PreserveUnlinks, Linked
<1>1. TypeOK'
  <2>1. job' \in Job
    BY  DEF TypeOK
  <2>2. dir' \in [Name -> File] /\ sfile' \in File
    BY  DEF TypeOK, Name
  <2> QED
    BY <2>1, <2>2, Reading, ConstantsAssumption DEF TypeOK, Steps
<1>2. TempInv'
  BY DEF TypeOK, TempInv, OwnFile, Name, Job
<1>3. MethodInv'
  BY DEF TypeOK, MethodInv, Target, Name, Job
<1>4. UnreadInv' /\ BufferInv'
  BY DEF TypeOK, UnreadInv, BufferInv, Busy, Target, Name, Job
<1>5. DurableInv'
  BY DEF TypeOK, DurableInv, MethodInv, Settled, Target, Name, Job
<1>6. GuardInv'
  BY DEF TypeOK, GuardInv, MethodInv, Busy, Guarding, TextOf, Target, Name, Job
<1> QED
  BY <1>1, <1>2, <1>3, <1>4, <1>5, <1>6

(* A backup that is a hard link.                                           *)
LEMMA PreserveLinksPreserves ==
    ASSUME IInv, PreserveLinks
    PROVE  IInv'
<1> USE Files, NoJobFields DEF IInv, session, PreserveLinks, Linked, LinksBackup,
       AfterBackup
<1>1. TypeOK'
  <2>1. job' \in Job
    BY DEF Job, TypeOK
  <2>2. dir' \in [Name -> File] /\ sfile' \in File
    BY Reading DEF TypeOK, Name
  <2> QED
    BY <2>1, <2>2, Reading, ConstantsAssumption DEF TypeOK, Steps
<1>2. TempInv'
  BY DEF TypeOK, TempInv, OwnFile, Name, Job
<1>3. MethodInv'
  BY DEF TypeOK, MethodInv, Target, Name, Job
<1>4. UnreadInv' /\ BufferInv'
  BY DEF TypeOK, UnreadInv, BufferInv, Busy, Target, Name, Job
<1>5. DurableInv'
  BY DEF TypeOK, DurableInv, MethodInv, Settled, Target, Name, Job
<1>6. GuardInv'
  BY DEF TypeOK, GuardInv, MethodInv, Busy, Guarding, TextOf, Target, Name, Job
<1> QED
  BY <1>1, <1>2, <1>3, <1>4, <1>5, <1>6

(* A backup that is a copy starts as a file of its own.                    *)
LEMMA PreserveCopiesPreserves ==
    ASSUME IInv, PreserveCopies
    PROVE  IInv'
<1> USE Files, NoJobFields DEF IInv, session, PreserveCopies, Linked
<1>1. TypeOK'
  <2>1. job' \in Job
    BY  DEF TypeOK
  <2>2. dir' \in [Name -> File] /\ sfile' \in File
    BY FreshIsFree DEF TypeOK, Name
  <2> QED
    BY <2>1, <2>2, Reading, ConstantsAssumption DEF TypeOK, Steps
<1>2. TempInv'
  BY FreshIsFree DEF TypeOK, TempInv, OwnFile, Name, Job
<1>3. MethodInv'
  BY FreshIsFree DEF TypeOK, MethodInv, Target, Name, Job
<1>4. UnreadInv' /\ BufferInv'
  BY FreshIsFree DEF TypeOK, UnreadInv, BufferInv, Busy, Target, Name, Job
<1>5. DurableInv'
  BY FreshIsFree DEF TypeOK, DurableInv, MethodInv, Settled, Target, Name, Job
<1>6. GuardInv'
  BY FreshIsFree DEF TypeOK, GuardInv, MethodInv, Busy, Guarding, TextOf, Target, Name,
         Job
<1> QED
  BY <1>1, <1>2, <1>3, <1>4, <1>5, <1>6

(* A backup that could not be made.                                        *)
LEMMA BackupFailsPreserves ==
    ASSUME IInv, BackupFails
    PROVE  IInv'
<1> USE Files, NoJobFields DEF IInv, session, BackupFails, Linked, AfterBackup
<1>1. TypeOK'
  <2>1. job' \in Job
    BY  DEF TypeOK
  <2>2. dir' \in [Name -> File] /\ sfile' \in File
    BY  DEF TypeOK, Name
  <2> QED
    BY <2>1, <2>2, Reading, ConstantsAssumption DEF TypeOK, Steps
<1>2. TempInv'
  BY DEF TypeOK, TempInv, OwnFile, Name, Job
<1>3. MethodInv'
  BY DEF TypeOK, MethodInv, Target, Name, Job
<1>4. UnreadInv' /\ BufferInv'
  BY DEF TypeOK, UnreadInv, BufferInv, Busy, Target, Name, Job
<1>5. DurableInv'
  BY DEF TypeOK, DurableInv, MethodInv, Settled, Target, Name, Job
<1>6. GuardInv'
  BY DEF TypeOK, GuardInv, MethodInv, Busy, Guarding, TextOf, Target, Name, Job
<1> QED
  BY <1>1, <1>2, <1>3, <1>4, <1>5, <1>6

(* The temp starts as a file of its own.                                   *)
LEMMA CreateTempPreserves ==
    ASSUME IInv, CreateTemp
    PROVE  IInv'
<1> USE Files, NoJobFields DEF IInv, session, CreateTemp, Linked
<1>1. TypeOK'
  <2>1. job' \in Job
    BY  DEF TypeOK
  <2>2. dir' \in [Name -> File] /\ sfile' \in File
    BY FreshIsFree DEF TypeOK, Name
  <2> QED
    BY <2>1, <2>2, Reading, ConstantsAssumption DEF TypeOK, Steps
<1>2. TempInv'
  BY FreshIsFree DEF TypeOK, TempInv, OwnFile, Name, Job
<1>3. MethodInv'
  BY FreshIsFree DEF TypeOK, MethodInv, Target, Name, Job
<1>4. UnreadInv' /\ BufferInv'
  BY FreshIsFree DEF TypeOK, UnreadInv, BufferInv, Busy, Target, Name, Job
<1>5. DurableInv'
  BY FreshIsFree DEF TypeOK, DurableInv, MethodInv, Settled, Target, Name, Job
<1>6. GuardInv'
  BY FreshIsFree DEF TypeOK, GuardInv, MethodInv, Busy, Guarding, TextOf, Target, Name,
         Job
<1> QED
  BY <1>1, <1>2, <1>3, <1>4, <1>5, <1>6

(* The rename becomes a write in place.                                    *)
LEMMA FallBackPreserves ==
    ASSUME IInv, FallBack
    PROVE  IInv'
<1> USE Files, NoJobFields DEF IInv, session, FallBack, Linked, Fallback, Wanted
<1>1. TypeOK'
  <2>1. job' \in Job
    BY DEF Job, TypeOK
  <2>2. dir' \in [Name -> File] /\ sfile' \in File
    BY  DEF TypeOK, Name
  <2> QED
    BY <2>1, <2>2, Reading, ConstantsAssumption DEF TypeOK, Steps
<1>2. TempInv'
  BY DEF TypeOK, TempInv, OwnFile, Name, Job
<1>3. MethodInv'
  BY DEF TypeOK, MethodInv, Target, Name, Job
<1>4. UnreadInv' /\ BufferInv'
  BY DEF TypeOK, UnreadInv, BufferInv, Busy, Target, Name, Job
<1>5. DurableInv'
  BY DEF TypeOK, DurableInv, MethodInv, Settled, Target, Name, Job
<1>6. GuardInv'
  BY DEF TypeOK, GuardInv, MethodInv, Busy, Guarding, TextOf, Target, Name, Job
<1> QED
  BY <1>1, <1>2, <1>3, <1>4, <1>5, <1>6

(* The path gets the temp.                                                 *)
LEMMA RenameTempPreserves ==
    ASSUME IInv, RenameTemp
    PROVE  IInv'
<1> USE Files, NoJobFields DEF IInv, session, RenameTemp
<1>1. TypeOK'
  <2>1. job' \in Job
    <3>1. dir["temp"].id \in Id
      BY DEF TempInv, OwnFile, TypeOK, Name
    <3> QED
      BY <3>1 DEF TypeOK, Job
  <2>2. dir' \in [Name -> File] /\ sfile' \in File
    BY  DEF TypeOK, Name
  <2> QED
    BY <2>1, <2>2, Reading, ConstantsAssumption DEF TypeOK, Steps
<1>2. TempInv'
  BY DEF TypeOK, TempInv, OwnFile, Name, Job
<1>3. MethodInv'
  BY DEF TypeOK, MethodInv, Target, Name, Job
<1>4. UnreadInv' /\ BufferInv'
  BY DEF TypeOK, UnreadInv, BufferInv, Busy, Target, Name, Job
<1>5. DurableInv'
  BY DEF TypeOK, DurableInv, MethodInv, Settled, Target, Name, Job, TempInv, OwnFile
<1>6. GuardInv'
  BY DEF TypeOK, GuardInv, MethodInv, Busy, Guarding, TextOf, Target, Name, Job
<1> QED
  BY <1>1, <1>2, <1>3, <1>4, <1>5, <1>6

(* The write by rename fails.                                              *)
LEMMA ReplaceFailsPreserves ==
    ASSUME IInv, ReplaceFails
    PROVE  IInv'
<1> USE Files, NoJobFields DEF IInv, session, ReplaceFails, Linked
<1>1. TypeOK'
  <2>1. job' \in Job
    BY DEF Job, TypeOK
  <2>2. dir' \in [Name -> File] /\ sfile' \in File
    BY  DEF TypeOK, Name
  <2> QED
    BY <2>1, <2>2, Reading, ConstantsAssumption DEF TypeOK, Steps
<1>2. TempInv'
  BY DEF TypeOK, TempInv, OwnFile, Name, Job
<1>3. MethodInv'
  BY DEF TypeOK, MethodInv, Target, Name, Job
<1>4. UnreadInv' /\ BufferInv'
  BY DEF TypeOK, UnreadInv, BufferInv, Busy, Target, Name, Job
<1>5. DurableInv'
  BY DEF TypeOK, DurableInv, MethodInv, Settled, Target, Name, Job
<1>6. GuardInv'
  BY DEF TypeOK, GuardInv, MethodInv, Busy, Guarding, TextOf, Target, Name, Job
<1> QED
  BY <1>1, <1>2, <1>3, <1>4, <1>5, <1>6

(* The directory is synced, or not.                                        *)
LEMMA SyncDirPreserves ==
    ASSUME IInv, SyncDir
    PROVE  IInv'
<1> USE Files, NoJobFields DEF IInv, session, SyncDir
<1>1. TypeOK'
  <2>1. job' \in Job
    BY DEF Job, TypeOK
  <2>2. dir' \in [Name -> File] /\ sfile' \in File
    BY Reading DEF TypeOK, Name
  <2> QED
    BY <2>1, <2>2, Reading, ConstantsAssumption DEF TypeOK, Steps
<1>2. TempInv'
  BY DEF TypeOK, TempInv, OwnFile, Name, Job
<1>3. MethodInv'
  BY DEF TypeOK, MethodInv, Target, Name, Job
<1>4. UnreadInv' /\ BufferInv'
  BY DEF TypeOK, UnreadInv, BufferInv, Busy, Target, Name, Job
<1>5. DurableInv'
  BY DEF TypeOK, DurableInv, MethodInv, Settled, Target, Name, Job
<1>6. GuardInv'
  BY DEF TypeOK, GuardInv, MethodInv, Busy, Guarding, TextOf, Target, Name, Job
<1> QED
  BY <1>1, <1>2, <1>3, <1>4, <1>5, <1>6

(* The write in place opens what the path names.                           *)
LEMMA OpenInPlacePreserves ==
    ASSUME IInv, OpenInPlace
    PROVE  IInv'
<1> USE Files, NoJobFields DEF IInv, session, OpenInPlace
<1>1. TypeOK'
  <2>1. job' \in Job
    BY Reading DEF Job, TypeOK
  <2>2. dir' \in [Name -> File] /\ sfile' \in File
    BY  DEF TypeOK, Name
  <2> QED
    BY <2>1, <2>2, Reading, ConstantsAssumption DEF TypeOK, Steps
<1>2. TempInv'
  BY DEF TypeOK, TempInv, OwnFile, Name, Job
<1>3. MethodInv'
  BY DEF TypeOK, MethodInv, Target, Name, Job
<1>4. UnreadInv' /\ BufferInv'
  BY DEF TypeOK, UnreadInv, BufferInv, Busy, Target, Name, Job
<1>5. DurableInv'
  BY DEF TypeOK, DurableInv, MethodInv, Settled, Target, Name, Job
<1>6. GuardInv'
  BY DEF TypeOK, GuardInv, MethodInv, Busy, Guarding, TextOf, Target, Name, Job
<1> QED
  BY <1>1, <1>2, <1>3, <1>4, <1>5, <1>6

(* A write backup goes with a success.                                     *)
LEMMA FinishPreserves ==
    ASSUME IInv, Finish
    PROVE  IInv'
<1> USE Files, NoJobFields DEF IInv, session, Finish, Linked, DropsBackup
<1>1. TypeOK'
  <2>1. job' \in Job
    BY  DEF TypeOK
  <2>2. dir' \in [Name -> File] /\ sfile' \in File
    BY  DEF TypeOK, Name
  <2> QED
    BY <2>1, <2>2, Reading, ConstantsAssumption DEF TypeOK, Steps
<1>2. TempInv'
  BY DEF TypeOK, TempInv, OwnFile, Name, Job
<1>3. MethodInv'
  BY DEF TypeOK, MethodInv, Target, Name, Job
<1>4. UnreadInv' /\ BufferInv'
  BY DEF TypeOK, UnreadInv, BufferInv, Busy, Target, Name, Job
<1>5. DurableInv'
  BY DEF TypeOK, DurableInv, MethodInv, Settled, Target, Name, Job
<1>6. GuardInv'
  BY DEF TypeOK, GuardInv, MethodInv, Busy, Guarding, TextOf, Target, Name, Job
<1> QED
  BY <1>1, <1>2, <1>3, <1>4, <1>5, <1>6

(* The save is noted.                                                      *)
LEMMA SawPreserves ==
    ASSUME IInv, Saw
    PROVE  IInv'
<1> USE Files, NoJobFields DEF IInv, session, Saw, SeenOf
<1>1. TypeOK'
  <2>1. job' \in Job
    BY  DEF TypeOK
  <2>2. dir' \in [Name -> File] /\ sfile' \in File
    BY  DEF TypeOK, Name
  <2>3. seen' \in [text : Content, state : {"same", "changed", "gone"}] /\ pc' \in Steps
    BY DEF TypeOK, Job, Steps
  <2> QED
    BY <2>1, <2>2, <2>3 DEF TypeOK
<1>2. TempInv'
  BY DEF TypeOK, TempInv, OwnFile, Name, Job
<1>3. MethodInv'
  BY DEF TypeOK, MethodInv, Target, Name, Job
<1>4. UnreadInv' /\ BufferInv'
  BY DEF TypeOK, UnreadInv, BufferInv, Busy, Target, Name, Job
<1>5. DurableInv'
  BY DEF TypeOK, DurableInv, MethodInv, Settled, Target, Name, Job
<1>6. GuardInv'
  BY DEF TypeOK, GuardInv, MethodInv, Busy, Guarding, TextOf, Target, Name, Job
<1> QED
  BY <1>1, <1>2, <1>3, <1>4, <1>5, <1>6

(* The file is read.                                                       *)
LEMMA ReadFilePreserves ==
    ASSUME IInv, ReadFile
    PROVE  IInv'
<1> USE Files, NoJobFields DEF IInv, session, ReadFile, Event, Conflicts
<1>1. TypeOK'
  <2>1. job' \in Job
    <3>1. ASSUME NEW b \in BOOLEAN
          PROVE  /\ [NoJob EXCEPT !.text = TextOf(Target), !.visit = b] \in Job
                 /\ [NoJob EXCEPT !.text = TextOf(Target)] \in Job
      <4>1. TextOf(Target) \in Content
        BY Reading
      <4> QED
        BY <4>1 DEF NoJob, Job
    <3> QED
      BY <3>1
  <2>2. dir' \in [Name -> File] /\ sfile' \in File
    BY  DEF TypeOK, Name
  <2>3. seen' \in [text : Content, state : {"same", "changed", "gone"}] /\ moved' \in BOOLEAN
    BY Reading DEF TypeOK
  <2>4. pc' \in Steps /\ events' \in 0 .. MaxEvents
    BY ConstantsAssumption DEF TypeOK, Steps
  <2> QED
    BY <2>1, <2>2, <2>3, <2>4 DEF TypeOK
<1>2. TempInv'
  BY DEF TypeOK, TempInv, OwnFile, Name, Job
<1>3. MethodInv'
  BY DEF TypeOK, MethodInv, Target, Name, Job
<1>4. UnreadInv' /\ BufferInv'
  BY DEF TypeOK, UnreadInv, BufferInv, Busy, Target, Name, Job, Checked
<1>5. DurableInv'
  BY DEF TypeOK, DurableInv, MethodInv, Settled, Target, Name, Job
<1>6. GuardInv'
  BY DEF TypeOK, GuardInv, MethodInv, Busy, Guarding, TextOf, Target, Name, Job
<1> QED
  BY <1>1, <1>2, <1>3, <1>4, <1>5, <1>6

(* The read is noted.                                                      *)
LEMMA ReadSawPreserves ==
    ASSUME IInv, ReadSaw
    PROVE  IInv'
<1> USE Files, NoJobFields DEF IInv, session, ReadSaw, SeenOf
<1>1. TypeOK'
  <2>1. job' \in Job
    BY  DEF TypeOK
  <2>2. dir' \in [Name -> File] /\ sfile' \in File
    BY  DEF TypeOK, Name
  <2> QED
    BY <2>1, <2>2, Reading, ConstantsAssumption DEF TypeOK, Steps, Job
<1>2. TempInv'
  BY DEF TypeOK, TempInv, OwnFile, Name, Job
<1>3. MethodInv'
  BY DEF TypeOK, MethodInv, Target, Name, Job
<1>4. UnreadInv' /\ BufferInv'
  BY DEF TypeOK, UnreadInv, BufferInv, Busy, Target, Name, Job
<1>5. DurableInv'
  BY DEF TypeOK, DurableInv, MethodInv, Settled, Target, Name, Job
<1>6. GuardInv'
  BY DEF TypeOK, GuardInv, MethodInv, Busy, Guarding, TextOf, Target, Name, Job
<1> QED
  BY <1>1, <1>2, <1>3, <1>4, <1>5, <1>6

(* The state of the file is noted.                                         *)
LEMMA CheckDiskPreserves ==
    ASSUME IInv, CheckDisk
    PROVE  IInv'
<1> USE Files, NoJobFields DEF IInv, session, CheckDisk
<1>1. TypeOK'
  <2>1. job' \in Job
    BY  DEF TypeOK
  <2>2. dir' \in [Name -> File] /\ sfile' \in File
    BY  DEF TypeOK, Name
  <2> QED
    BY <2>1, <2>2, Reading, ConstantsAssumption DEF TypeOK, Steps
<1>2. TempInv'
  BY DEF TypeOK, TempInv, OwnFile, Name, Job
<1>3. MethodInv'
  BY DEF TypeOK, MethodInv, Target, Name, Job
<1>4. UnreadInv' /\ BufferInv'
  BY DEF TypeOK, UnreadInv, BufferInv, Busy, Target, Name, Job, Checked
<1>5. DurableInv'
  BY DEF TypeOK, DurableInv, MethodInv, Settled, Target, Name, Job
<1>6. GuardInv'
  BY DEF TypeOK, GuardInv, MethodInv, Busy, Guarding, TextOf, Target, Name, Job
<1> QED
  BY <1>1, <1>2, <1>3, <1>4, <1>5, <1>6

(* The process is killed.                                                  *)
LEMMA KillPreserves ==
    ASSUME IInv, Kill
    PROVE  IInv'
<1> USE Files, NoJobFields DEF IInv, session, Kill, Dies, Event, SeenOf
<1>1. TypeOK'
  <2>1. job' \in Job
    BY  DEF TypeOK
  <2>2. dir' \in [Name -> File] /\ sfile' \in File
    BY  DEF TypeOK, Name
  <2>3. seen' \in [text : Content, state : {"same", "changed", "gone"}] /\ pc' \in Steps
    BY DEF Steps
  <2>4. events' \in 0 .. MaxEvents
    BY ConstantsAssumption DEF TypeOK
  <2> QED
    BY <2>1, <2>2, <2>3, <2>4 DEF TypeOK
<1>2. TempInv'
  BY DEF TypeOK, TempInv, OwnFile, Name, Job
<1>3. MethodInv'
  BY DEF TypeOK, MethodInv, Target, Name, Job
<1>4. UnreadInv' /\ BufferInv'
  BY DEF TypeOK, UnreadInv, BufferInv, Busy, Target, Name, Job
<1>5. DurableInv'
  BY DEF TypeOK, DurableInv, MethodInv, Settled, Target, Name, Job
<1>6. GuardInv'
  BY DEF TypeOK, GuardInv, MethodInv, Busy, Guarding, TextOf, Target, Name, Job
<1> QED
  BY <1>1, <1>2, <1>3, <1>4, <1>5, <1>6

----------------------------------------------------------------------------
(* The copy of the backup ends: it holds what the path holds.              *)
LEMMA CopyEndsPreserves ==
    ASSUME IInv, CopyEnds
    PROVE  IInv'
<1> USE Files, NoJobFields DEF IInv, session
<1>1. /\ pc = "copying" /\ Target # NoFile /\ pc' = AfterBackup
      /\ job' = [job EXCEPT !.made = TRUE] /\ backed_up' = opts.once
      /\ Write(dir["backup"].id, Target.now, TRUE)
      /\ UNCHANGED <<moved, seen, buf, clean, opts, unread, by, events>>
  BY DEF CopyEnds
<1>2. dir["backup"].id \in Id /\ Target \in File /\ Target.now \in Content
  BY <1>1 DEF TypeOK, TempInv, OwnFile, Target, Name
<1>3. /\ dir' \in [Name -> File] /\ sfile' = sfile
      /\ \A n \in Name \ {"backup"} : dir'[n] = dir[n]
      /\ dir'["backup"].id = dir["backup"].id
      /\ dir'["backup"].now = Target.now /\ dir'["backup"].stable = Target.now
  <2>1. OwnFile("backup")
    BY <1>1 DEF TempInv
  <2>2. PICK i \in Id, t \in Content : i = dir["backup"].id /\ t = Target.now
    BY <1>2
  <2>3. Write(i, t, TRUE)
    BY <1>1, <2>2
  <2>4. /\ dir' \in [Name -> File] /\ (sfile.id # i => sfile' = sfile)
        /\ \A n \in Name :
              /\ dir[n].id # i => dir'[n] = dir[n]
              /\ dir[n].id = i => dir'[n].id = i /\ dir'[n].now = t /\ dir'[n].stable = t
    <3>1. PICK s \in BOOLEAN : s = TRUE
      OBVIOUS
    <3>2. Write(i, t, s)
      BY <2>3, <3>1
    <3>3. /\ dir' \in [Name -> File] /\ (sfile.id # i => sfile' = sfile)
          /\ \A n \in Name :
                /\ dir[n].id # i => dir'[n] = dir[n]
                /\ dir[n].id = i => dir'[n].id = i /\ dir'[n].now = t
                /\ dir[n].id = i /\ s => dir'[n].stable = t
      BY <2>2, <3>2, WriteEffect
    <3> QED
      BY <3>1, <3>3
  <2>5. \A n \in Name \ {"backup"} : dir'[n] = dir[n]
    BY ONLY <2>1, <2>2, <2>4 DEF OwnFile
  <2>6. "backup" \in Name /\ dir["backup"].id = i /\ sfile.id # i
    BY <2>1, <2>2 DEF OwnFile, Name
  <2> QED
    BY <2>2, <2>4, <2>5, <2>6
<1>4. /\ job' \in Job /\ \A x \in {"force", "text", "in_place", "id", "old", "raced"} : job'[x] = job[x]
      /\ Target' = Target
  BY <1>1, <1>3 DEF TypeOK, Job, Target, Name
<1>5. pc' \in {"open", "create"} /\ (pc' = "open" <=> job.in_place)
  BY <1>1 DEF AfterBackup, TypeOK, Job
<1>6. TypeOK'
  BY <1>1, <1>3, <1>4, <1>5, ConstantsAssumption DEF TypeOK, Steps
<1>7. TempInv' /\ MethodInv' /\ DurableInv'
  BY <1>1, <1>4, <1>5 DEF TempInv, MethodInv, DurableInv
<1>8. UnreadInv' /\ BufferInv'
  BY <1>1, <1>4, <1>5 DEF UnreadInv, BufferInv, Busy
<1>9. GuardInv'
  <2>1. Guarding' => Guarding /\ job.in_place
    BY <1>1, <1>4 DEF Guarding, GuardInv
  <2>2. ~job.raced => Target.now = job.old
    BY <1>1 DEF GuardInv, Busy, TextOf
  <2>3. dir["backup"].id # Target.id /\ dir["backup"].id # job.id
    BY <1>1, <1>2 DEF TempInv, OwnFile, Target, Name, MethodInv
  <2> QED
    BY <1>1, <1>2, <1>3, <1>4, <1>5, <2>1, <2>2, <2>3 DEF GuardInv, Busy, TextOf
<1> QED
  BY <1>6, <1>7, <1>8, <1>9

(* The temp is filled: a file nothing else names.                          *)
LEMMA FillTempPreserves ==
    ASSUME IInv, FillTemp
    PROVE  IInv'
<1> USE Files, NoJobFields DEF IInv, session
<1>1. /\ pc = "fill" /\ pc' = "rename" /\ OwnFile("temp")
      /\ Write(dir["temp"].id, job.text, opts.fsync)
      /\ UNCHANGED <<moved, seen, backed_up, buf, clean, opts, job, unread, by, events>>
  BY DEF FillTemp, TempInv
<1>2. dir["temp"].id \in Id /\ job.text \in Content /\ opts.fsync \in BOOLEAN
  BY <1>1, ConstantsAssumption DEF TypeOK, OwnFile, Name, Job
<1>3. /\ dir' \in [Name -> File] /\ sfile' = sfile
      /\ \A n \in Name \ {"temp"} : dir'[n] = dir[n]
      /\ dir'["temp"].id = dir["temp"].id
      /\ dir'["temp"].now = job.text /\ (opts.fsync => dir'["temp"].stable = job.text)
  BY <1>1, <1>2, WriteEffect DEF OwnFile, Name
<1>4. Target' = Target /\ dir'["backup"] = dir["backup"]
  BY <1>3 DEF Target, Name
<1>5. TypeOK'
  BY <1>1, <1>3 DEF TypeOK, Steps
<1>6. TempInv'
  BY <1>1, <1>3 DEF TempInv, OwnFile, Name
<1>7. MethodInv' /\ DurableInv'
  BY <1>1, <1>4 DEF MethodInv, DurableInv
<1>8. UnreadInv' /\ BufferInv'
  BY <1>1, <1>4 DEF UnreadInv, BufferInv, Busy
<1>9. GuardInv'
  BY <1>1, <1>4 DEF GuardInv, Guarding, Busy, TextOf
<1> QED
  BY <1>5, <1>6, <1>7, <1>8, <1>9

(* A write in place touches the inode it opened, and no other.             *)
LEMMA WriteInPlace ==
    ASSUME IInv, pc \in {"write", "writing", "sync_file"},
           NEW t \in Content, NEW synced \in BOOLEAN, Write(job.id, t, synced)
    PROVE  /\ dir' \in [Name -> File] /\ sfile' \in File
           /\ Target'.id = Target.id
           /\ ~Hits => Target' = Target
           /\ Hits => Target # NoFile /\ Target' # NoFile /\ Target'.now = t
           /\ Hits /\ synced => Target'.stable = t
           /\ sfile'.id = sfile.id
           /\ sfile.id = job.id /\ synced => sfile'.now = t /\ sfile'.stable = t
           /\ ~job.raced => Hits
           /\ dir["backup"].id # job.id => dir'["backup"] = dir["backup"]
<1> USE Files DEF IInv
<1>1. job.id \in Id
  BY DEF TypeOK, Job, MethodInv
<1>2. Target \in File
  BY DEF TypeOK, Target, Name
<1> QED
  BY <1>1, <1>2, WriteEffect DEF MethodInv, Hits, Target, Name

(* The write in place begins: what the path held is gone.                  *)
LEMMA WriteBeginsPreserves ==
    ASSUME IInv, WriteBegins
    PROVE  IInv'
<1> USE Files, NoJobFields DEF IInv, session
<1>1. /\ pc = "write" /\ pc' = "writing" /\ Write(job.id, Torn, FALSE)
      /\ moved' = (moved \/ Hits) /\ by' = (IF Hits THEN "save" ELSE by)
      /\ unread' = (unread /\ ~Hits)
      /\ UNCHANGED <<seen, backed_up, buf, clean, opts, job, events>>
  BY DEF WriteBegins
<1>2. /\ dir' \in [Name -> File] /\ sfile' \in File
      /\ Target'.id = Target.id /\ (~Hits => Target' = Target)
      /\ dir["backup"].id # job.id => dir'["backup"] = dir["backup"]
  BY <1>1, WriteInPlace
<1>3. TypeOK'
  BY <1>1, <1>2 DEF TypeOK, Steps
<1>4. TempInv' /\ MethodInv' /\ DurableInv'
  BY <1>1, <1>2 DEF TempInv, MethodInv, DurableInv
<1>5. UnreadInv' /\ BufferInv'
  BY <1>1, <1>2 DEF UnreadInv, BufferInv, Busy, Hits
<1>6. GuardInv'
  BY <1>1, <1>2 DEF GuardInv, Guarding, Busy
<1> QED
  BY <1>3, <1>4, <1>5, <1>6

(* The write in place ends with the whole text, or fails.                  *)
LEMMA WriteEndsPreserves ==
    ASSUME IInv, WriteEnds
    PROVE  IInv'
<1> USE Files, NoJobFields DEF IInv, session
<1>1. pc = "writing" /\ UNCHANGED <<moved, seen, backed_up, buf, clean, opts, unread, events>>
  BY DEF WriteEnds
<1>2. CASE /\ Write(job.id, job.text, FALSE) /\ by' = (IF Hits THEN "save" ELSE by)
           /\ pc' = (IF opts.fsync THEN "sync_file" ELSE "finish") /\ job' = job
  <2>1. /\ dir' \in [Name -> File] /\ sfile' \in File
        /\ Target'.id = Target.id /\ (~Hits => Target' = Target)
        /\ Hits => Target'.now = job.text
        /\ dir["backup"].id # job.id => dir'["backup"] = dir["backup"]
    <3>1. job.text \in Content
      BY DEF TypeOK, Job
    <3> QED
      BY <1>1, <1>2, <3>1, WriteInPlace
  <2>2. TypeOK'
    BY <1>1, <1>2, <2>1 DEF TypeOK, Steps
  <2>3. TempInv' /\ MethodInv' /\ DurableInv'
    BY <1>1, <1>2, <2>1 DEF TempInv, MethodInv, DurableInv, Hits
  <2>4. UnreadInv' /\ BufferInv'
    BY <1>1, <1>2, <2>1 DEF UnreadInv, BufferInv, Busy, Hits
  <2>5. GuardInv'
    BY <1>1, <1>2, <2>1 DEF GuardInv, Guarding, Busy
  <2> QED
    BY <2>2, <2>3, <2>4, <2>5
<1>3. CASE UNCHANGED <<dir, sfile, by>> /\ job' = [job EXCEPT !.ok = FALSE] /\ pc' = "finish"
  <2>1. /\ job' \in Job /\ ~job'.ok /\ Target' = Target
        /\ \A x \in {"force", "text", "in_place", "id", "old", "raced", "made"} : job'[x] = job[x]
    BY <1>3 DEF TypeOK, Job, Target
  <2>2. TypeOK'
    BY <1>1, <1>3, <2>1 DEF TypeOK, Steps
  <2>3. TempInv' /\ MethodInv' /\ DurableInv'
    BY <1>1, <1>3, <2>1 DEF TempInv, MethodInv, DurableInv
  <2>4. UnreadInv' /\ BufferInv'
    BY <1>1, <1>3, <2>1 DEF UnreadInv, BufferInv, Busy
  <2>5. GuardInv'
    BY <1>1, <1>3, <2>1 DEF GuardInv, MethodInv, Guarding, Busy
  <2> QED
    BY <2>2, <2>3, <2>4, <2>5
<1> QED
  BY <1>2, <1>3 DEF WriteEnds

(* The file is synced, or the sync fails.                                  *)
LEMMA SyncFilePreserves ==
    ASSUME IInv, SyncFile
    PROVE  IInv'
<1> USE Files, NoJobFields DEF IInv, session
<1>1. /\ pc = "sync_file" /\ pc' = "finish"
      /\ UNCHANGED <<moved, seen, backed_up, buf, clean, opts, unread, by, events>>
  BY DEF SyncFile
<1>2. CASE Write(job.id, job.text, TRUE) /\ job' = job
  <2>1. /\ dir' \in [Name -> File] /\ sfile' \in File
        /\ Target'.id = Target.id /\ (~Hits => Target' = Target)
        /\ Hits => Target'.now = job.text /\ Target'.stable = job.text
        /\ sfile'.id = sfile.id /\ (sfile.id = job.id => sfile'.now = job.text /\ sfile'.stable = job.text)
        /\ ~job.raced => Hits
        /\ dir["backup"].id # job.id => dir'["backup"] = dir["backup"]
    <3>1. job.text \in Content
      BY DEF TypeOK, Job
    <3> QED
      BY <1>1, <1>2, <3>1, WriteInPlace
  <2>2. TypeOK'
    BY <1>1, <1>2, <2>1 DEF TypeOK, Steps
  <2>3. TempInv' /\ MethodInv'
    BY <1>1, <1>2, <2>1 DEF TempInv, MethodInv
  <2>4. DurableInv'
    BY <1>1, <1>2, <2>1 DEF DurableInv, MethodInv, Settled
  <2>5. UnreadInv' /\ BufferInv'
    BY <1>1, <1>2, <2>1 DEF UnreadInv, BufferInv, Busy, Hits
  <2>6. GuardInv'
    BY <1>1, <1>2, <2>1 DEF GuardInv, MethodInv, Guarding, Busy
  <2> QED
    BY <2>2, <2>3, <2>4, <2>5, <2>6
<1>3. CASE UNCHANGED <<dir, sfile>> /\ job' = [job EXCEPT !.ok = FALSE]
  <2>1. /\ job' \in Job /\ ~job'.ok /\ Target' = Target
        /\ \A x \in {"force", "text", "in_place", "id", "old", "raced", "made"} : job'[x] = job[x]
    BY <1>3 DEF TypeOK, Job, Target
  <2>2. TypeOK'
    BY <1>1, <1>3, <2>1 DEF TypeOK, Steps
  <2>3. TempInv' /\ MethodInv' /\ DurableInv'
    BY <1>1, <1>3, <2>1 DEF TempInv, MethodInv, DurableInv
  <2>4. UnreadInv' /\ BufferInv'
    BY <1>1, <1>3, <2>1 DEF UnreadInv, BufferInv, Busy
  <2>5. GuardInv'
    BY <1>1, <1>3, <2>1 DEF GuardInv, MethodInv, Guarding, Busy
  <2> QED
    BY <2>2, <2>3, <2>4, <2>5
<1> QED
  BY <1>2, <1>3 DEF SyncFile

(* Another program replaces the file: a race, unless the session is idle.  *)
LEMMA OtherProgramPreserves ==
    ASSUME IInv, NEW t \in Text \cup {Gone}, OtherProgram(t)
    PROVE  IInv'
<1> USE Files, NoJobFields DEF IInv, session
<1>1. PICK f \in File :
         /\ dir' = [dir EXCEPT !["target"] = f] /\ sfile' = f
         /\ t = Gone => f = NoFile
         /\ t # Gone => f.id = Fresh /\ f # NoFile /\ f.now = t /\ CanCreate
  <2>1. CASE t = Gone
    BY <2>1 DEF OtherProgram
  <2>2. CASE t # Gone
    <3>1. CanCreate /\ t \in Content
      BY <2>2 DEF OtherProgram
    <3>2. [id |-> Fresh, now |-> t, stable |-> t] \in File
      BY <3>1, FreshIsFree
    <3>3. [id |-> Fresh, now |-> t, stable |-> t] # NoFile
      BY FreshIsFree, <3>1
    <3> QED
      BY <2>2, <3>1, <3>2, <3>3 DEF OtherProgram
  <2> QED
    BY <2>1, <2>2
<1>2. /\ moved' = TRUE /\ by' = "others" /\ pc # "dead"
      /\ unread' = (pc = "idle" /\ t \notin {Gone, seen.text})
      /\ events < MaxEvents /\ events' = events + 1
      /\ UNCHANGED <<seen, backed_up, buf, clean, opts, pc>>
  BY DEF OtherProgram, Event
<1>3. /\ job' \in Job
      /\ pc = "idle" => job' = job
      /\ pc # "idle" =>
            /\ job'.raced
            /\ \A x \in {"force", "text", "in_place", "id", "old", "made", "ok"} : job'[x] = job[x]
  BY DEF OtherProgram, TypeOK, Job
<1>4. /\ Target' = f /\ \A n \in Name \ {"target"} : dir'[n] = dir[n]
  BY <1>1 DEF TypeOK, Target, Name
<1>5. \/ f = NoFile
      \/ f.id # job.id /\ \A n \in Name : f.id # dir[n].id
  BY <1>1, FreshIsFree
<1>6. TypeOK'
  <2>1. dir' \in [Name -> File] /\ events' \in 0 .. MaxEvents
    BY <1>1, <1>2, ConstantsAssumption DEF TypeOK, Name
  <2> QED
    BY <1>1, <1>2, <1>3, <2>1 DEF TypeOK
<1>7. TempInv'
  BY <1>1, <1>2, <1>3, <1>4, <1>5 DEF TempInv, OwnFile, Name
<1>8. MethodInv'
  BY <1>2, <1>3, <1>4, <1>5 DEF MethodInv
<1>9. UnreadInv' /\ BufferInv'
  BY <1>1, <1>2, <1>3, <1>4 DEF UnreadInv, BufferInv, Busy
<1>10. DurableInv' /\ GuardInv'
  BY <1>2, <1>3 DEF DurableInv, GuardInv, Busy, Guarding
<1> QED
  BY <1>6, <1>7, <1>8, <1>9, <1>10

(* A power cut leaves files with whole or torn contents, and no session.   *)
LEMMA PowerCutFiles ==
    ASSUME TypeOK, PowerCut
    PROVE  /\ dir' \in [Name -> File] /\ sfile' = dir'["target"]
           /\ dir["backup"].now = dir["backup"].stable => dir'["backup"] = dir["backup"]
<1> USE Files DEF TypeOK
<1>1. PICK f \in {Target, sfile} :
        LET d == [dir EXCEPT !["target"] = f]
            dirty == {n \in Name : d[n].now # d[n].stable}
        IN  \E kept \in [{d[n].id : n \in dirty} -> {"now", "stable", "torn"}] :
              dir' = [n \in Name |->
                        IF n \notin dirty THEN d[n]
                        ELSE LET t == CASE kept[d[n].id] = "now" -> d[n].now
                                        [] kept[d[n].id] = "stable" -> d[n].stable
                                        [] OTHER -> Torn
                             IN  [d[n] EXCEPT !.now = t, !.stable = t]]
  BY DEF PowerCut
<1> DEFINE d == [dir EXCEPT !["target"] = f]
           dirty == {n \in Name : d[n].now # d[n].stable}
           Cut(n, t) == [d[n] EXCEPT !.now = t, !.stable = t]
<1>2. f \in File /\ d \in [Name -> File] /\ d["backup"] = dir["backup"]
  BY DEF Target, Name
<1>3. ASSUME NEW n \in Name
      PROVE  /\ n \notin dirty => dir'[n] = d[n]
             /\ n \in dirty => \E t \in {d[n].now, d[n].stable, Torn} : dir'[n] = Cut(n, t)
  <2> HIDE DEF d
  <2> QED
    BY <1>1 DEF d
<1>4. ASSUME NEW n \in Name, n \in dirty
      PROVE  \A t \in {d[n].now, d[n].stable, Torn} : Cut(n, t) \in File
  <2>1. d[n] \in [id : Id, now : Content, stable : Content]
    BY <1>2, <1>4 DEF File, NoFile
  <2> HIDE DEF d
  <2> QED
    BY <2>1 DEF File
<1>5. \A n \in Name : dir'[n] \in File
  <2> HIDE DEF d, dirty, Cut
  <2> QED
    BY <1>2, <1>3, <1>4
<1>6. dir' = [n \in Name |-> dir'[n]]
  BY <1>1
<1>7. dir["backup"].now = dir["backup"].stable => dir'["backup"] = dir["backup"]
  BY <1>2, <1>3 DEF Name
<1>8. sfile' = dir'["target"]
  BY DEF PowerCut
<1> QED
  BY <1>5, <1>6, <1>7, <1>8

LEMMA PowerCutPreserves ==
    ASSUME IInv, PowerCut
    PROVE  IInv'
<1> USE Files, NoJobFields DEF IInv
<1>1. /\ pc' = "dead" /\ job' = NoJob /\ seen' = SeenOf(Blank) /\ moved' = FALSE
      /\ buf' = Blank /\ clean' = TRUE /\ backed_up' = FALSE /\ unread' = FALSE
      /\ opts' = opts /\ by' = "others" /\ events < MaxEvents /\ events' = events + 1
  BY DEF PowerCut, Dies, Event
<1>2. TypeOK'
  <2>1. dir' \in [Name -> File] /\ sfile' \in File
    BY PowerCutFiles DEF Name
  <2>2. events' \in 0 .. MaxEvents
    BY <1>1, ConstantsAssumption DEF TypeOK
  <2>3. seen' \in [text : Content, state : {"same", "changed", "gone"}]
    BY <1>1 DEF SeenOf
  <2> QED
    BY <1>1, <2>1, <2>2, <2>3 DEF TypeOK, Steps
<1> QED
  BY <1>1, <1>2 DEF TempInv, MethodInv, UnreadInv, BufferInv, DurableInv, GuardInv, Busy

----------------------------------------------------------------------------
LEMMA Initially ==
    Init => IInv
<1> SUFFICES ASSUME Init PROVE IInv
  OBVIOUS
<1> USE Files, NoJobFields
<1>1. PICK linked \in BOOLEAN :
         dir = [n \in Name |-> IF n = "target" \/ (linked /\ n = "link")
                               THEN [id |-> 1, now |-> buf, stable |-> buf] ELSE NoFile]
  BY DEF Init
<1>2. 1 \in Id /\ buf \in Content
  BY ConstantsAssumption DEF Init, Id
<1>3. [id |-> 1, now |-> buf, stable |-> buf] \in File
  BY <1>2
<1>4. dir \in [Name -> File] /\ sfile \in File
  BY <1>1, <1>3 DEF Init, Name
<1>5. seen \in [text : Content, state : {"same", "changed", "gone"}]
  BY <1>2 DEF Init, SeenOf
<1>6. TypeOK
  <2>1. job \in Job /\ pc \in Steps /\ events \in 0 .. MaxEvents
    BY ConstantsAssumption DEF Init, Steps
  <2> QED
    BY <1>2, <1>4, <1>5, <2>1 DEF Init, TypeOK
<1> QED
  BY <1>6 DEF Init, IInv, TempInv, MethodInv, UnreadInv, BufferInv, DurableInv, GuardInv, Busy

(* One lemma per action; Next is their disjunction.                        *)
LEMMA StepPreserves ==
    ASSUME IInv, Next
    PROVE  IInv'
<1>3. ASSUME NEW t \in Text, Edit(t)
      PROVE  IInv'
  BY <1>3, EditPreserves
<1>4. ASSUME NEW force \in BOOLEAN, Save(force)
      PROVE  IInv'
  BY <1>4, SavePreserves
<1>5. ASSUME NEW t \in Text \cup {Gone}, OtherProgram(t)
      PROVE  IInv'
  BY <1>5, OtherProgramPreserves
<1>6. CASE Prepare
  BY <1>6, PreparePreserves
<1>7. CASE PreserveUnlinks
  BY <1>7, PreserveUnlinksPreserves
<1>8. CASE PreserveLinks
  BY <1>8, PreserveLinksPreserves
<1>9. CASE PreserveCopies
  BY <1>9, PreserveCopiesPreserves
<1>10. CASE CopyEnds
  BY <1>10, CopyEndsPreserves
<1>11. CASE BackupFails
  BY <1>11, BackupFailsPreserves
<1>12. CASE CreateTemp
  BY <1>12, CreateTempPreserves
<1>13. CASE FallBack
  BY <1>13, FallBackPreserves
<1>14. CASE FillTemp
  BY <1>14, FillTempPreserves
<1>15. CASE RenameTemp
  BY <1>15, RenameTempPreserves
<1>16. CASE ReplaceFails
  BY <1>16, ReplaceFailsPreserves
<1>17. CASE SyncDir
  BY <1>17, SyncDirPreserves
<1>18. CASE OpenInPlace
  BY <1>18, OpenInPlacePreserves
<1>19. CASE WriteBegins
  BY <1>19, WriteBeginsPreserves
<1>20. CASE WriteEnds
  BY <1>20, WriteEndsPreserves
<1>21. CASE SyncFile
  BY <1>21, SyncFilePreserves
<1>22. CASE Finish
  BY <1>22, FinishPreserves
<1>23. CASE Saw
  BY <1>23, SawPreserves
<1>24. CASE ReadFile
  BY <1>24, ReadFilePreserves
<1>25. CASE ReadSaw
  BY <1>25, ReadSawPreserves
<1>26. CASE CheckDisk
  BY <1>26, CheckDiskPreserves
<1>27. CASE Kill
  BY <1>27, KillPreserves
<1>28. CASE PowerCut
  BY <1>28, PowerCutPreserves
<1> QED
  BY <1>3, <1>4, <1>5, <1>6, <1>7, <1>8, <1>9, <1>10, <1>11, <1>12, <1>13, <1>14,
     <1>15, <1>16, <1>17, <1>18, <1>19, <1>20, <1>21, <1>22, <1>23, <1>24, <1>25, <1>26,
     <1>27, <1>28
     DEF Next

(* Every step of a save, of a read, of another program and of a crash      *)
(* keeps the invariant.                                                    *)
THEOREM Inductive ==
    Spec => []IInv
<1>1. ASSUME IInv, [Next]_vars
      PROVE  IInv'
  <2>1. CASE Next
    BY <1>1, <2>1, StepPreserves
  <2>2. CASE UNCHANGED vars
    BY <1>1, <2>2 DEF vars, session, IInv, TypeOK, TempInv, OwnFile, MethodInv, UnreadInv,
                      BufferInv, DurableInv, Settled, GuardInv, Guarding, Busy, Target, TextOf
  <2> QED
    BY <1>1, <2>1, <2>2
<1> QED
  BY <1>1, Initially, PTL DEF Spec

(* A text another program wrote while the session was idle is not written  *)
(* over without `!` (conflicts, and what Seen::check keeps of the file).   *)
THEOREM NothingIsSilentlyOverwritten ==
    Spec => []NoSilentOverwrite
<1>1. IInv => NoSilentOverwrite
  BY DEF IInv, UnreadInv, NoSilentOverwrite, Busy
<1> QED
  BY <1>1, Inductive, PTL

(* When a synced save reports success, what a power cut may leave at the   *)
(* path is the buffer's text (sync_dir, sync_all before the report).       *)
THEOREM ReportsAreDurable ==
    Spec => ReportedIsDurable
<1>1. ASSUME IInv, Next, pc = "saw", pc' = "idle", opts.fsync, job.proven, ~job.raced,
             job.in_place => sfile.id = job.id
      PROVE  Outcomes' = {buf'}
  <2> USE DEF IInv
  <2>1. Saw
    BY <1>1 DEF Next, Edit, Save, Prepare, PreserveUnlinks, PreserveLinks, PreserveCopies,
                CopyEnds, BackupFails, CreateTemp, FallBack, FillTemp, RenameTemp,
                ReplaceFails, SyncDir, OpenInPlace, WriteBegins, WriteEnds, SyncFile,
                Finish, ReadFile, ReadSaw, CheckDisk, OtherProgram, Kill, PowerCut, Dies
  <2>2. Target' = Target /\ sfile' = sfile /\ buf' = job.text
    BY <1>1, <2>1 DEF Saw, Target, BufferInv, Busy
  <2>3. Settled(Target) /\ Settled(sfile)
    BY <1>1 DEF DurableInv
  <2> QED
    BY <2>2, <2>3 DEF Outcomes, Settled
<1>2. IInv /\ [Next]_vars
        => [pc = "saw" /\ pc' = "idle" /\ opts.fsync /\ job.proven /\ ~job.raced
              /\ (job.in_place => sfile.id = job.id)
              => Outcomes' = {buf'}]_vars
  BY <1>1
<1> QED
  BY <1>2, Inductive, PTL DEF Spec, ReportedIsDurable

(* Whatever happens while a write in place is under way, and after it      *)
(* failed, the write backup still holds the text that was there (preserve, *)
(* Made::finish).                                                          *)
THEOREM WriteBackupsGuard ==
    Spec => WriteBackupGuards
<1> DEFINE Exposed == /\ pc \in {"writing", "sync_file"} \/ (pc = "finish" /\ ~job.ok)
                      /\ job.in_place /\ job.id # 0 /\ ~job.raced
                      /\ opts.guard /\ ~opts.keep /\ ~opts.once /\ ~job.force
<1>1. ASSUME IInv, Next, Exposed
      PROVE  dir'["backup"].now = job.old
  <2> USE Files DEF IInv
  <2>1. /\ dir["backup"].now = job.old /\ dir["backup"].stable = job.old
        /\ dir["backup"].id # job.id
    BY <1>1 DEF GuardInv, Guarding, Busy
  <2>2. ASSUME dir'["backup"] = dir["backup"]
        PROVE  dir'["backup"].now = job.old
    BY <2>1, <2>2
  <2>3. CASE WriteEnds \/ SyncFile
    <3>1. job.text \in Content
      BY <1>1 DEF TypeOK, Job
    <3>2. dir' = dir \/ Write(job.id, job.text, FALSE) \/ Write(job.id, job.text, TRUE)
      BY <2>3 DEF WriteEnds, SyncFile
    <3>3. pc \in {"write", "writing", "sync_file"}
      BY <2>3 DEF WriteEnds, SyncFile
    <3> QED
      BY <1>1, <2>1, <3>1, <3>2, <3>3, WriteInPlace
  <2>4. CASE Finish
    <3>1. ~job.ok
      BY <1>1, <2>4 DEF Finish
    <3> QED
      BY <2>1, <2>4, <3>1 DEF Finish, DropsBackup, Linked, TypeOK, Name
  <2>5. CASE \E t \in Text \cup {Gone} : OtherProgram(t)
    BY <2>1, <2>5 DEF OtherProgram, TypeOK, Name
  <2>6. CASE Kill
    BY <2>1, <2>6 DEF Kill
  <2>7. CASE PowerCut
    BY <1>1, <2>1, <2>7, PowerCutFiles
  <2> QED
    BY <1>1, <2>3, <2>4, <2>5, <2>6, <2>7
    DEF Next, Edit, Save, Prepare, PreserveUnlinks, PreserveLinks, PreserveCopies, CopyEnds,
        BackupFails, CreateTemp, FallBack, FillTemp, RenameTemp, ReplaceFails, SyncDir,
        OpenInPlace, WriteBegins, Saw, ReadFile, ReadSaw, CheckDisk
<1>2. IInv /\ [Next]_vars => [Exposed => dir'["backup"].now = job.old]_vars
  BY <1>1
<1> QED
  BY <1>2, Inductive, PTL DEF Spec, WriteBackupGuards

----------------------------------------------------------------------------
(* The refinement of SafeFile.                                             *)
PathHolds == IF Target = NoFile THEN Gone ELSE Target.now

(* A step that leaves the path alone begins, directs or ends a save.       *)
LEMMA ChooseStep ==
    ASSUME TypeOK', PathHolds' = PathHolds, by' = by
    PROVE  Abstract!Choose
<1>1. job'.text \in Text \cup {Torn} /\ (~job'.in_place) \in BOOLEAN
  BY DEF TypeOK, Job, Content
<1>2. [new |-> job'.text, atomic |-> ~job'.in_place] \in Abstract!Saving
  BY <1>1 DEF Abstract!Saving
<1> QED
  BY <1>2 DEF Abstract!Choose, PathHolds

LEMMA OthersStep ==
    ASSUME TypeOK', by' = "others"
    PROVE  Abstract!Others
<1>1. job'.text \in Text \cup {Torn} /\ (~job'.in_place) \in BOOLEAN
  BY DEF TypeOK, Job, Content
<1>2. [new |-> job'.text, atomic |-> ~job'.in_place] \in Abstract!Saving
  BY <1>1 DEF Abstract!Saving
<1>3. Target' \in File
  BY DEF TypeOK, Target, Name
<1>4. PathHolds' \in Text \cup {Gone, Torn}
  BY <1>3, Files DEF PathHolds, Content
<1> QED
  BY <1>2, <1>4 DEF Abstract!Others, PathHolds

(* Most steps touch the temp, the backup or the session only.              *)
LEMMA PathLeftAlone ==
    ASSUME IInv,
           \/ \E t \in Text : Edit(t)
           \/ \E force \in BOOLEAN : Save(force)
           \/ Prepare \/ PreserveUnlinks \/ PreserveLinks \/ PreserveCopies \/ BackupFails
           \/ CreateTemp \/ FallBack \/ ReplaceFails \/ SyncDir \/ OpenInPlace
           \/ Finish \/ Saw \/ ReadFile \/ ReadSaw \/ CheckDisk \/ Kill
    PROVE  PathHolds' = PathHolds /\ by' = by
<1>1. dir'["target"] = dir["target"] /\ by' = by
  BY DEF IInv, TypeOK, Name, Linked, Edit, Save, Prepare, PreserveUnlinks, PreserveLinks,
         PreserveCopies, BackupFails, CreateTemp, FallBack, ReplaceFails, SyncDir,
         OpenInPlace, Finish, Saw, ReadFile, ReadSaw, CheckDisk, Kill
<1> QED
  BY <1>1 DEF PathHolds, Target

(* A backup's copy and a temp's bytes go to files of their own.            *)
LEMMA OwnFilesLeaveThePath ==
    ASSUME IInv, CopyEnds \/ FillTemp
    PROVE  PathHolds' = PathHolds /\ by' = by
<1>1. PICK n \in {"backup", "temp"} : OwnFile(n) /\ \E t, s : Write(dir[n].id, t, s)
  BY DEF IInv, TempInv, CopyEnds, FillTemp
<1>2. dir'["target"] = dir["target"]
  BY <1>1 DEF Write, OwnFile, Name
<1> QED
  BY <1>2 DEF PathHolds, Target, CopyEnds, FillTemp

(* The rename puts the whole new text at the path, in one step.            *)
LEMMA RenameCommits ==
    ASSUME IInv, RenameTemp
    PROVE  Abstract!Commit
<1>1. OwnFile("temp") /\ dir["temp"].now = job.text
  BY DEF IInv, TempInv, RenameTemp
<1>2. Target' = dir["temp"] /\ Target' # NoFile
  BY <1>1, Files DEF RenameTemp, IInv, TypeOK, Target, Name, OwnFile
<1>3. job'.text = job.text /\ job'.in_place = job.in_place
  BY DEF RenameTemp, IInv, TypeOK, Job
<1> QED
  BY <1>1, <1>2, <1>3 DEF Abstract!Commit, RenameTemp

(* A write in place tears the path, and then holds the whole new text; a   *)
(* file another program has put there meanwhile is left alone.             *)
LEMMA InPlaceStep ==
    ASSUME IInv, TypeOK', WriteBegins \/ WriteEnds \/ SyncFile
    PROVE  Abstract!Next
<1> USE Files DEF IInv
<1>1. job.text \in Content /\ pc \in {"write", "writing", "sync_file"} /\ job.in_place
  BY DEF TypeOK, Job, MethodInv, WriteBegins, WriteEnds, SyncFile
<1>2. CASE WriteBegins
  <2>1. /\ ~Hits => Target' = Target
        /\ Hits => Target' # NoFile /\ Target'.now = Torn
    BY <1>1, <1>2, WriteInPlace DEF WriteBegins
  <2>2. CASE Hits
    <3>1. Abstract!Tear
      BY <1>1, <1>2, <2>1, <2>2 DEF Abstract!Tear, WriteBegins
    <3> QED
      BY <3>1 DEF Abstract!Next
  <2>3. CASE ~Hits
    <3>1. PathHolds' = PathHolds /\ by' = by
      BY <1>2, <2>1, <2>3 DEF PathHolds, WriteBegins
    <3> QED
      BY <3>1, ChooseStep DEF Abstract!Next
  <2> QED
    BY <2>2, <2>3
<1>3. CASE WriteEnds
  <2>1. CASE UNCHANGED <<dir, sfile, by>>
    <3>1. PathHolds' = PathHolds /\ by' = by
      BY <2>1 DEF PathHolds, Target
    <3> QED
      BY <3>1, ChooseStep DEF Abstract!Next
  <2>2. CASE Write(job.id, job.text, FALSE) /\ by' = (IF Hits THEN "save" ELSE by) /\ job' = job
    <3>1. /\ ~Hits => Target' = Target
          /\ Hits => Target' # NoFile /\ Target'.now = job.text
      BY <1>1, <2>2, WriteInPlace
    <3>2. CASE Hits
      <4>1. Abstract!Commit
        BY <2>2, <3>1, <3>2 DEF Abstract!Commit
      <4> QED
        BY <4>1 DEF Abstract!Next
    <3>3. CASE ~Hits
      <4>1. PathHolds' = PathHolds /\ by' = by
        BY <2>2, <3>1, <3>3 DEF PathHolds
      <4> QED
        BY <4>1, ChooseStep DEF Abstract!Next
    <3> QED
      BY <3>2, <3>3
  <2> QED
    BY <1>3, <2>1, <2>2 DEF WriteEnds
<1>4. CASE SyncFile
  <2>1. CASE UNCHANGED <<dir, sfile>>
    <3>1. PathHolds' = PathHolds /\ by' = by
      BY <1>4, <2>1 DEF PathHolds, Target, SyncFile
    <3> QED
      BY <3>1, ChooseStep DEF Abstract!Next
  <2>2. CASE Write(job.id, job.text, TRUE)
    <3>1. /\ ~Hits => Target' = Target
          /\ Hits => Target # NoFile /\ Target' # NoFile /\ Target'.now = job.text
      BY <1>1, <2>2, WriteInPlace
    <3>2. Hits => Target.now = job.text
      BY <1>4 DEF SyncFile, MethodInv, Hits
    <3>3. PathHolds' = PathHolds /\ by' = by
      BY <1>4, <3>1, <3>2 DEF PathHolds, SyncFile
    <3> QED
      BY <3>3, ChooseStep DEF Abstract!Next
  <2> QED
    BY <1>4, <2>1, <2>2 DEF SyncFile
<1> QED
  BY <1>2, <1>3, <1>4

(* A save implements the atomic one: for all texts, options, failures and  *)
(* crashes the path holds the old text or the new, and less only after     *)
(* write_with has gone in place (RenameCommits, InPlaceStep).              *)
THEOREM SavesAreAtomic ==
    Spec => SaveIsAtomic
<1> DEFINE avars == <<IF Target = NoFile THEN Gone ELSE Target.now,
                      [new |-> job.text, atomic |-> ~job.in_place],
                      by = "others">>
<1>1. Init => Abstract!Init
  <2> SUFFICES ASSUME Init PROVE Abstract!Init
    OBVIOUS
  <2>1. Target = [id |-> 1, now |-> buf, stable |-> buf] /\ buf \in Text
    BY DEF Init, Target, Name
  <2>2. Target # NoFile /\ Target.now = buf
    BY <2>1 DEF NoFile
  <2>3. job.text \in Text \cup {Torn} /\ (~job.in_place) \in BOOLEAN
    BY NoJobFields, ConstantsAssumption DEF Init
  <2> QED
    BY <2>1, <2>2, <2>3 DEF Abstract!Init, Abstract!Saving, Init
<1>2. ASSUME IInv, [Next]_vars
      PROVE  [Abstract!Next]_avars
  <2>1. CASE UNCHANGED vars
    BY <2>1 DEF vars, Target
  <2>2. CASE Next
    <3>1. TypeOK'
      BY <1>2, <2>2, StepPreserves DEF IInv
    <3>2. CASE PathHolds' = PathHolds /\ by' = by
      BY <3>1, <3>2, ChooseStep DEF Abstract!Next
    <3>3. CASE RenameTemp
      BY <1>2, <3>3, RenameCommits DEF Abstract!Next
    <3>4. CASE WriteBegins \/ WriteEnds \/ SyncFile
      BY <1>2, <3>1, <3>4, InPlaceStep
    <3>5. CASE PowerCut \/ \E t \in Text \cup {Gone} : OtherProgram(t)
      <4>1. by' = "others"
        BY <3>5 DEF PowerCut, OtherProgram
      <4> QED
        BY <3>1, <4>1, OthersStep DEF Abstract!Next
    <3>6. CASE CopyEnds \/ FillTemp
      BY <1>2, <3>2, <3>6, OwnFilesLeaveThePath
    <3> QED
      BY <1>2, <2>2, <3>2, <3>3, <3>4, <3>5, <3>6, PathLeftAlone DEF Next
  <2> QED
    BY <1>2, <2>1, <2>2
<1> QED
  BY <1>1, <1>2, Inductive, PTL DEF Spec, SaveIsAtomic, Abstract!Spec

=============================================================================
