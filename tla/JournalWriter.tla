--------------------------- MODULE JournalWriter ---------------------------
(* The recovery journal of one file buffer: the Writer that turns drained  *)
(* changes into records (persist/journal.rs), the session's frame that     *)
(* drives it (app/session.rs), the crash-path rescue (recover.rs) and the  *)
(* replay a later start offers (persist/rj01.rs, ui/recovery.rs).          *)
(*                                                                         *)
(* A text is an atom and an Edit record knows the text it was computed     *)
(* from, so replaying it over any other text gives Garbage.  Sizes count   *)
(* records.  Markers, timestamps and file formats carry no text and are    *)
(* left out.                                                               *)
EXTENDS Naturals, Sequences

CONSTANTS
    Texts,         \* what the buffer and the file can hold
    FirstText,     \* what the file holds at first
    LargeTexts,    \* the texts above rj01::LARGE_FILE
    LogCap,        \* the change log's cap
    SyncEvery,     \* 'updatecount': buffered changes that force a sync
    PendingCap,    \* PENDING_CAP
    CompactAfter,  \* COMPACT_AFTER, and the checkpoint's own size
    MaxRecords,    \* bound: no change once the journal is this long (a
                   \* large document's is never compacted)
    Chained        \* may one command line hold several commands (`:w | d`)?

ASSUME ConstantsAssumption ==
    /\ FirstText \in Texts
    /\ LargeTexts \subseteq Texts
    /\ {LogCap, PendingCap, CompactAfter, MaxRecords} \subseteq Nat
    /\ SyncEvery \in Nat \ {0}
    /\ Chained \in BOOLEAN

None == "None"
Garbage == "Garbage"

ASSUME NamesAssumption == {None, Garbage} \cap Texts = {}

NotHeld == [base |-> None, ready |-> FALSE]

VARIABLES
    (* the document and its file *)
    text, modified,
    log,             \* entries since the last drain, or lost
    disk,            \* the file's text
    saved,           \* the text mark_saved last saw
    (* the session *)
    alive, phase, journaling, attached, published,
    (* Writer *)
    state, rewrite, base, pending, pending_changes, last_change, on_disk,
    since_checkpoint, large, held,
    (* the journal file *)
    journal,
    (* what the properties remember *)
    safe,            \* the text of the last sync, while it is unsaved
    recent,          \* the texts the buffer has held since
    tampered,        \* somebody deleted the journal since
    rescued          \* has a crash path written the journal? "Part": it failed

docVars == <<text, modified, log, disk, saved>>
sessionVars == <<alive, phase, journaling, attached, published>>
writerVars == <<state, rewrite, base, pending, pending_changes, last_change,
                on_disk, since_checkpoint, large, held>>
ghostVars == <<safe, recent, tampered, rescued>>
vars == <<docVars, sessionVars, writerVars, journal, ghostVars>>

----------------------------------------------------------------------------
(* The journal file: its records in order.                                 *)

Header(b, o) == [kind |-> "Header", base |-> b, owner |-> o]
Checkpoint(t) == [kind |-> "Checkpoint", text |-> t]
Edit(from, to) == [kind |-> "Edit", from |-> from, to |-> to]
Torn == [kind |-> "Torn"]
Missing == <<[kind |-> "Missing"]>>

Exists(j) == j # Missing
HasHeader(j) == Exists(j) /\ j # <<>> /\ Head(j).kind = "Header"

\* read_owner: the journal's Header names this process.
Owned(j) == HasHeader(j) /\ Head(j).owner = "self"

\* The same file once the process that wrote it is gone.
Orphaned(j) == IF Owned(j) THEN [j EXCEPT ![1].owner = "gone"] ELSE j

\* Variant: removes the journal of any session.
DiscardedByAnyone(j) == Missing

\* discard_file
Discarded(j) == IF Owned(j) THEN Missing ELSE j

\* whole: Header + Checkpoint of the text.
Whole(t) == <<Header(None, "self"), Checkpoint(t)>>

Unread == [header |-> FALSE, text |-> None, disk_changed |-> FALSE,
           last_good |-> 0, lost_tail |-> FALSE]

\* One turn of replay's loop.  An Edit is only checked against the length of
\* the text it meets.
ReplayRecord(r, rec, d) ==
    LET stop == [r EXCEPT !.lost_tail = TRUE]
        next == [r EXCEPT !.last_good = @ + 1]
        stops == \/ r.lost_tail \/ rec.kind = "Torn"
                 \/ r.header = (rec.kind = "Header")
                 \/ rec.kind = "Edit" /\ ~r.disk_changed /\ r.text = None
    IN  CASE stops -> stop
          [] ~stops /\ rec.kind = "Header" ->
                [next EXCEPT !.header = TRUE,
                             !.text = IF rec.base = d THEN d ELSE None,
                             !.disk_changed = rec.base \notin {None, d}]
          [] ~stops /\ rec.kind = "Checkpoint" ->
                [next EXCEPT !.text = rec.text, !.disk_changed = FALSE]
          [] ~stops /\ rec.kind = "Edit" ->
                IF r.disk_changed THEN next
                ELSE [next EXCEPT !.text = IF @ = rec.from THEN rec.to ELSE Garbage]

ReplayAll(recs, d) ==
    LET upTo[n \in 0 .. Len(recs)] ==
            IF n = 0 THEN Unread ELSE ReplayRecord(upTo[n - 1], recs[n], d)
    IN  upTo[Len(recs)]

Replay(j, d) == ReplayAll(IF Exists(j) THEN j ELSE <<>>, d)

\* Replay.text
Recovered(j, d) ==
    LET r == Replay(j, d) IN IF r.disk_changed THEN None ELSE r.text

\* What an append of recs leaves behind when it stops part-way.
PartAppended(j, recs) ==
    {j \o SubSeq(recs, 1, k) : k \in 0 .. Len(recs)} \cup
    {j \o SubSeq(recs, 1, k) \o <<Torn>> : k \in 0 .. Len(recs) - 1}

\* write_private creates a missing target empty, then replaces it by rename.
PartReplaced(j, content) ==
    {j, content} \cup (IF Exists(j) THEN {} ELSE {<<>>})

\* Nothing synced is left to lose: the work was saved or let go.
NothingAtStake == safe' = None /\ recent' = {} /\ tampered' = FALSE

----------------------------------------------------------------------------
(* The document and the commands that change it or its file.               *)

Drained == [lost |-> FALSE, entries |-> <<>>]
Lost == [lost |-> TRUE, entries |-> <<>>]

Logged(e, fits) ==
    IF log.lost \/ ~fits \/ Len(log.entries) = LogCap THEN Lost
    ELSE [log EXCEPT !.entries = Append(@, e)]

\* A command ends: the next one of its line follows, or the frame does.
EndCommand == phase' = IF Chained THEN "input" ELSE "frame"

\* A change, an undo or a redo; one back to the saved node leaves the buffer
\* clean.
Change(t, fits) ==
    /\ alive /\ phase = "input"
    /\ t # text /\ Len(journal) < MaxRecords
    /\ text' = t
    /\ modified' \in (IF t = saved THEN BOOLEAN ELSE {TRUE})
    /\ log' = Logged(Edit(text, t), fits)
    /\ recent' = IF safe = None THEN {} ELSE recent \cup {t}
    /\ EndCommand
    /\ UNCHANGED <<disk, saved, alive, journaling, attached, published, writerVars,
                   journal, safe, tampered, rescued>>

\* `:w`: the file is written, then mark_saved, then journal::clear.
Save ==
    /\ alive /\ phase = "input"
    /\ disk' = text
    /\ saved' = text
    /\ modified' = FALSE
    /\ journal' = Discarded(journal)
    /\ NothingAtStake
    /\ EndCommand
    /\ UNCHANGED <<text, log, alive, journaling, attached, published, writerVars, rescued>>

\* E667: the bytes are in the file, the fsync failed; the buffer stays
\* modified and keeps its journal.  A Crash next is the process dying after
\* the write and before journal::clear.
SaveUnproven ==
    /\ alive /\ phase = "input"
    /\ disk' = text
    /\ EndCommand
    /\ UNCHANGED <<text, modified, log, saved, alive, journaling, attached, published,
                   writerVars, journal, ghostVars>>

\* `:e!`: the document restarts from the file, not recording.
Reload ==
    /\ alive /\ phase = "input"
    /\ text' = disk
    /\ saved' = disk
    /\ modified' = FALSE
    /\ log' = Lost
    /\ journal' = Discarded(journal)
    /\ NothingAtStake
    /\ EndCommand
    /\ UNCHANGED <<disk, alive, journaling, attached, published, writerVars, rescued>>

\* `:set noswapfile`, `:set swapfile`
SetSwapFile ==
    /\ alive /\ phase = "input"
    /\ journaling' = ~journaling
    /\ EndCommand
    /\ UNCHANGED <<docVars, alive, attached, published, writerVars, journal, ghostVars>>

----------------------------------------------------------------------------
(* Writer.  absorb drains the change log; its four outcomes are actions.   *)

Cap(n, most) == IF n > most THEN most ELSE n

Unsynced == state # "Idle" /\ (rewrite \/ held # NotHeld \/ pending # <<>>)

HashRunning == ~rewrite /\ held # NotHeld /\ ~held.ready

\* Variant: the idle timer alone.
DueWhenIdle == Unsynced /\ ~HashRunning /\ last_change # "Recent"

Due ==
    /\ Unsynced
    /\ ~HashRunning
    /\ pending_changes >= SyncEvery \/ last_change # "Recent"

\* discard, but for the file.  base, large and the journal's name stay.
ForgetJournal ==
    /\ state' = "Idle"
    /\ rewrite' = FALSE
    /\ held' = NotHeld
    /\ pending' = <<>>
    /\ pending_changes' = 0
    /\ last_change' = None
    /\ on_disk' = 0
    /\ since_checkpoint' = 0

\* Writer::new
NewWriter == ForgetJournal /\ base' = None /\ large' = FALSE

\* Variant: trusts that only a Live writer has a file.
DropsLiveJournal == journal' = IF state = "Live" THEN Discarded(journal) ELSE journal

DropsJournal == journal' = IF state = "Idle" THEN journal ELSE Discarded(journal)

\* touch
Touch(n) ==
    /\ pending_changes' = Cap(pending_changes + n, SyncEvery)
    /\ last_change' = "Recent"

\* pre_frame and sync_journals both begin with absorb; sync_journals finds
\* only the writers an earlier frame made.
AbsorbAt(next) ==
    /\ alive
    /\ \/ next = "sync" /\ phase \in {"input", "frame"} /\ journaling
       \/ next = "risky" /\ phase = "input" /\ attached
    /\ phase' = next
    /\ attached' = TRUE
    /\ log' = Drained
    /\ UNCHANGED <<text, modified, disk, saved, alive, journaling, published>>

\* The buffer is clean: its journal goes, its text is the next base.
AbsorbClean(next) ==
    /\ ~modified
    /\ AbsorbAt(next)
    /\ DropsJournal
    /\ ForgetJournal
    /\ base' = text
    /\ NothingAtStake
    /\ UNCHANGED <<large, rescued>>

\* The log has no entries to give (overflow, recording just turned on).
AbsorbCheckpoint(next) ==
    /\ modified /\ log.lost
    /\ AbsorbAt(next)
    /\ rewrite' = TRUE
    /\ state' = IF state = "Idle" THEN "Fresh" ELSE state
    /\ Touch(1)
    /\ pending' = <<>>
    /\ UNCHANGED <<base, on_disk, since_checkpoint, large, held, journal, ghostVars>>

AbsorbNothing(next) ==
    /\ modified /\ log = Drained
    /\ AbsorbAt(next)
    /\ pending' = IF rewrite THEN <<>> ELSE pending
    /\ UNCHANGED <<state, rewrite, base, pending_changes, last_change, on_disk,
                   since_checkpoint, large, held, journal, ghostVars>>

\* PENDING_CAP; the variant buffers without limit.
NeverOverCap(records) == FALSE
OverCap(records) == Len(records) > PendingCap

\* start: what a journal begun at the first change holds before its edits.
\* A large base is named by its hash, which may still be running.
StartRecords ==
    IF base = None \/ base \in LargeTexts THEN <<>>
    ELSE <<Header(None, "self"), Checkpoint(base)>>

Start(hashed) ==
    /\ state' = "Fresh"
    /\ base' = None
    /\ IF base = None THEN UNCHANGED <<large, held>>
       ELSE /\ large' = (base \in LargeTexts)
            /\ held' = IF base \in LargeTexts THEN [base |-> base, ready |-> hashed]
                       ELSE held

AbsorbChanges(next, hashed, encodes) ==
    LET fresh == state = "Idle"
        queued == IF fresh THEN StartRecords ELSE pending
        whole == rewrite \/ (fresh /\ base = None)
        records == queued \o log.entries
        dropped == whole \/ ~encodes \/ OverCap(records)
        counted == (IF fresh THEN 0 ELSE since_checkpoint)
                       + (IF whole THEN 0 ELSE Len(log.entries))
    IN  /\ modified /\ ~log.lost /\ log.entries # <<>>
        /\ AbsorbAt(next)
        /\ IF fresh THEN Start(hashed) ELSE UNCHANGED <<state, base, large, held>>
        /\ rewrite' = dropped
        /\ pending' = IF dropped THEN <<>> ELSE records
        /\ since_checkpoint' = Cap(counted, CompactAfter + 1)
        /\ Touch(Len(log.entries))
        /\ UNCHANGED <<on_disk, journal, ghostVars>>

Absorb(next) ==
    \/ AbsorbClean(next)
    \/ AbsorbCheckpoint(next)
    \/ AbsorbNothing(next)
    \/ \E hashed, encodes \in BOOLEAN : AbsorbChanges(next, hashed, encodes)

\* The frame finds journaling off: the writer goes with its journal, and the
\* buffer is not published.
FrameWithoutJournal ==
    /\ alive /\ phase \in {"input", "frame"} /\ ~journaling
    /\ DropsJournal
    /\ NewWriter
    /\ attached' = FALSE
    /\ published' = [text |-> None, modified |-> FALSE]
    /\ phase' = "input"
    /\ NothingAtStake
    /\ UNCHANGED <<docVars, alive, journaling, rescued>>

----------------------------------------------------------------------------
(* flush.                                                                  *)

Compacts == state = "Live" /\ ~large /\ since_checkpoint > CompactAfter

\* append is tried; it declines a journal of another length than it left.
Appends == state = "Live" /\ ~rewrite /\ ~Compacts
\* Variant: appends to whatever is there.
AnyLength == Exists(journal)
AsLeft == Exists(journal) /\ Len(journal) = on_disk
\* Variant: writes its records where the journal was deleted.
RewritesWhenAsked == rewrite \/ Compacts
Rewrites == rewrite \/ Compacts \/ (Appends /\ ~AsLeft)

\* What write_out writes when it does not append.
WholeJournal ==
    IF Rewrites THEN Whole(text)
    ELSE IF held # NotHeld THEN <<Header(held.base, "self")>> \o pending
    ELSE pending

\* The frame syncs when the policy asks; a risky operation whenever anything
\* waits, waiting for the hash too.
Flushing ==
    /\ alive
    /\ (phase = "sync" /\ Due) \/ (phase = "risky" /\ Unsynced)

\* The frame ends by publishing the buffer to the rescue store.
EndSync ==
    /\ phase' = "input"
    /\ published' = IF phase = "sync" THEN [text |-> text, modified |-> modified]
                    ELSE published
    /\ UNCHANGED <<docVars, alive, journaling, attached>>

NoFlush ==
    /\ alive /\ phase \in {"sync", "risky"} /\ ~Flushing
    /\ EndSync
    /\ UNCHANGED <<writerVars, journal, ghostVars>>

Synced(content) ==
    /\ journal' = content
    /\ on_disk' = Len(content)
    /\ state' = "Live"
    /\ rewrite' = FALSE
    /\ pending' = <<>>
    /\ pending_changes' = 0
    /\ safe' = text
    /\ recent' = {text}
    /\ tampered' = FALSE
    /\ UNCHANGED <<base, last_change, rescued>>

FlushAppends ==
    /\ Flushing /\ Appends /\ AsLeft
    /\ Synced(journal \o pending)
    /\ EndSync
    /\ UNCHANGED <<since_checkpoint, large, held>>

FlushReplaces ==
    /\ Flushing /\ ~(Appends /\ AsLeft)
    /\ Synced(WholeJournal)
    /\ EndSync
    /\ since_checkpoint' = IF Rewrites THEN 0 ELSE since_checkpoint
    /\ large' = (large /\ ~Rewrites)
    /\ held' = NotHeld

\* What the file can hold when the write stops part-way.
PartWritten ==
    IF Appends /\ AsLeft THEN PartAppended(journal, pending)
    ELSE PartReplaced(journal, WholeJournal)

\* An I/O error: the records stay, the next trigger retries.  A Crash next
\* is the process dying inside the write.
FlushFails ==
    /\ Flushing
    /\ journal' \in PartWritten
    /\ rewrite' = Rewrites
    /\ pending' = IF Compacts THEN <<>> ELSE pending
    /\ pending_changes' = 0
    /\ last_change' = "Recent"
    /\ EndSync
    /\ UNCHANGED <<state, base, on_disk, since_checkpoint, large, held, ghostVars>>

\* The idle timer; the hash thread.
IdleElapses ==
    /\ alive
    /\ last_change = "Recent"
    /\ last_change' = "Elapsed"
    /\ UNCHANGED <<docVars, sessionVars, state, rewrite, base, pending, pending_changes,
                   on_disk, since_checkpoint, large, held, journal, ghostVars>>

HashFinishes ==
    /\ alive /\ held # NotHeld /\ ~held.ready
    /\ held' = [held EXCEPT !.ready = TRUE]
    /\ UNCHANGED <<docVars, sessionVars, state, rewrite, base, pending, pending_changes,
                   last_change, on_disk, since_checkpoint, large, journal, ghostVars>>

----------------------------------------------------------------------------
(* The ends of a session, and the next one.                                *)

\* The process is gone, and its memory with it.
Dies ==
    /\ alive /\ alive' = FALSE
    /\ phase' = "frame"
    /\ journaling' = TRUE
    /\ attached' = FALSE
    /\ log' = Lost
    /\ NewWriter
    /\ UNCHANGED <<text, modified, disk, saved, published>>

\* SIGKILL, a power cut.
Crash == Dies /\ UNCHANGED <<journal, ghostVars>>

\* A normal quit lets the changes go: discard_journals.
Quit ==
    /\ phase = "input"
    /\ Dies
    /\ journal' = Discarded(journal)
    /\ NothingAtStake
    /\ UNCHANGED rescued

\* rescue: a journal of this process gets a Checkpoint after its last intact
\* record, any other is replaced whole.
RescueReplay == Replay(journal, None)
RescueAppends == Owned(journal) /\ ~RescueReplay.disk_changed
\* Variant: leaves a torn tail in place.
RescueKeepsTail == journal
RescueKeeps == SubSeq(journal, 1, RescueReplay.last_good)

\* panic hook, fatal signal or watchdog: the store's text, as the last frame
\* published it.
Rescue ==
    /\ Dies
    /\ IF ~published.modified THEN UNCHANGED <<journal, rescued>>
       ELSE /\ journal' = IF RescueAppends
                          THEN Append(RescueKeeps, Checkpoint(published.text))
                          ELSE Whole(published.text)
            /\ rescued' = "Yes"
    /\ UNCHANGED <<safe, recent, tampered>>

RescueFails ==
    /\ published.modified
    /\ Dies
    /\ journal' \in
        IF RescueAppends
        THEN {journal} \cup PartAppended(RescueKeeps, <<Checkpoint(published.text)>>)
        ELSE PartReplaced(journal, Whole(published.text))
    /\ rescued' = "Part"
    /\ UNCHANGED <<safe, recent, tampered>>

\* Somebody removes the journal.
Tamper ==
    /\ alive /\ phase = "input"
    /\ Owned(journal) /\ safe # None
    /\ journal' = Missing
    /\ tampered' = TRUE
    /\ UNCHANGED <<docVars, sessionVars, writerVars, safe, recent, rescued>>

\* The next start: a document that does not record yet, a new writer, and
\* the frame before any key, as Dies left them.
Open(t, j, kept) ==
    /\ ~alive
    /\ alive' = TRUE
    /\ text' = t
    /\ modified' = (t # disk)
    /\ saved' = disk
    /\ journal' = j
    /\ published' = [text |-> None, modified |-> FALSE]
    /\ safe' = kept
    /\ recent' = {kept} \ {None}
    /\ tampered' = FALSE
    /\ rescued' = "No"
    /\ UNCHANGED <<disk, log, phase, journaling, attached, writerVars>>

Offer == Recovered(journal, disk)
Offered == Offer \notin {None, disk}

\* offer finds nothing to recover.
OpenUnprompted ==
    /\ ~Offered /\ ~Replay(journal, disk).disk_changed
    /\ Open(disk, Orphaned(journal), None)

\* DiskChanged: the journal is archived, when it can be.
OpenUnreplayable ==
    /\ Replay(journal, disk).disk_changed
    /\ \E j \in {Missing, Orphaned(journal)} : Open(disk, j, None)

\* `r`: adopt rewrites the journal as this process's own, when it can.
OpenRecovered ==
    /\ Offered
    /\ \/ Open(Offer, Whole(Offer), Offer)
       \/ Open(Offer, Orphaned(journal), None)

\* `e`, `d`: the journal is archived, when it can be.
OpenDiskFile ==
    /\ Offered
    /\ \E j \in {Missing, Orphaned(journal)} : Open(disk, j, None)

----------------------------------------------------------------------------
Init ==
    /\ text = FirstText /\ modified = FALSE /\ log = Lost
    /\ disk = FirstText /\ saved = FirstText
    /\ alive = TRUE /\ phase = "frame" /\ journaling = TRUE /\ attached = FALSE
    /\ published = [text |-> None, modified |-> FALSE]
    /\ state = "Idle" /\ rewrite = FALSE /\ base = None /\ pending = <<>>
    /\ pending_changes = 0 /\ last_change = None /\ on_disk = 0
    /\ since_checkpoint = 0 /\ large = FALSE /\ held = NotHeld
    /\ journal = Missing
    /\ safe = None /\ recent = {} /\ tampered = FALSE /\ rescued = "No"

Command ==
    \/ \E t \in Texts, fits \in BOOLEAN : Change(t, fits)
    \/ Save
    \/ SaveUnproven
    \/ Reload
    \/ SetSwapFile

Frame == Absorb("sync") \/ FrameWithoutJournal
Flush == FlushAppends \/ FlushReplaces
NextStart == OpenUnprompted \/ OpenUnreplayable \/ OpenRecovered \/ OpenDiskFile

Next ==
    \/ Command
    \/ Frame
    \/ Absorb("risky")
    \/ NoFlush
    \/ Flush
    \/ FlushFails
    \/ IdleElapses
    \/ HashFinishes
    \/ Tamper
    \/ Crash
    \/ Rescue \/ RescueFails
    \/ Quit
    \/ NextStart

Spec == Init /\ [][Next]_vars

\* The scheduling the code guarantees: the event loop wakes at wake_in and
\* runs its frame, the timer and the hash thread finish, and a journal that
\* keeps being retried is written sooner or later.
FairSpec ==
    /\ Spec
    /\ SF_vars(Frame)
    /\ WF_vars(NoFlush)
    /\ SF_vars(Flush)
    /\ WF_vars(IdleElapses)
    /\ WF_vars(HashFinishes)

----------------------------------------------------------------------------
(* Properties.                                                             *)

MaybeTexts == Texts \cup {None}
Records ==
    [kind : {"Header"}, base : MaybeTexts, owner : {"self", "gone"}]
        \cup [kind : {"Checkpoint"}, text : Texts]
        \cup [kind : {"Edit"}, from : Texts, to : Texts]
        \cup {Torn, Missing[1]}

\* Every variable keeps its type; the pending records and the change log
\* stay within their caps whatever fails.
TypeOK ==
    /\ {text, disk, saved} \subseteq Texts
    /\ modified \in BOOLEAN
    /\ log \in [lost : BOOLEAN, entries : Seq(Records)] /\ Len(log.entries) <= LogCap
    /\ {alive, journaling, attached, rewrite, large, tampered} \subseteq BOOLEAN
    /\ phase \in {"input", "frame", "sync", "risky"}
    /\ published \in [text : MaybeTexts, modified : BOOLEAN]
    /\ state \in {"Idle", "Fresh", "Live"}
    /\ {base, safe} \subseteq MaybeTexts
    /\ pending \in Seq(Records) /\ Len(pending) <= PendingCap
    /\ pending_changes \in 0 .. SyncEvery
    /\ last_change \in {None, "Recent", "Elapsed"}
    /\ on_disk \in Nat
    /\ since_checkpoint \in 0 .. CompactAfter + 1
    /\ held \in [base : LargeTexts, ready : BOOLEAN] \cup {NotHeld}
    /\ journal \in Seq(Records)
    /\ recent \subseteq Texts
    /\ rescued \in {"No", "Part", "Yes"}

\* No sequence of failed, torn, retried and compacted writes, and no crash in
\* one, leaves a journal whose edits replay over a text they were not made
\* from: nobody is ever offered a text the buffer never held.
ReplayNeverMixes == Recovered(journal, disk) # Garbage

BaseStands == HasHeader(journal) => Head(journal).base \in {None, disk}

\* What a sync made durable is never lost: until the buffer is saved or its
\* changes are let go, every crash leaves a journal that replays to the
\* synced text or to a later one.  A deleted journal, or a large file that
\* changed under its journal (RFC-0023 section 5), is the only way out.
SyncedTextSurvives ==
    safe # None /\ ~tampered /\ BaseStands =>
        Recovered(journal, disk) \in
            recent \cup (IF rescued = "No" THEN {} ELSE {published.text})

\* A crash path that says it wrote the journal has made the text of the last
\* frame recoverable, whatever state the journal was in: torn, foreign,
\* deleted, or resting on a disk text that is gone.
RescueRestoresFrame ==
    rescued = "Yes" => Recovered(journal, disk) = published.text

\* A frame that shows a clean buffer leaves no journal of this session
\* behind: nothing is offered that was saved, undone or thrown away.
CleanFrameLeavesNoJournal ==
    [][phase = "sync" /\ phase' = "input" /\ ~modified' => ~Owned(journal')]_vars

\* A crashed session's journal (kept because it could not be archived or taken
\* over) is never deleted by this session's saves, reloads, clean frames and
\* quits: only a journal that holds this session's text takes its place.
CrashedJournalIsKept ==
    [][HasHeader(journal) /\ ~Owned(journal) /\ journal' # journal =>
            Owned(journal') \/ ~alive]_vars

\* Unsynced changes are synced: by the idle timer, by the change count when
\* the typing never pauses, after failed writes, and once a large base is
\* hashed.
UnsyncedIsSynced == (alive /\ Unsynced) ~> (~alive \/ ~Unsynced)
=============================================================================
