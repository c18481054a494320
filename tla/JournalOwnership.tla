-------------------------- MODULE JournalOwnership --------------------------
(* Several ruse processes on one file and the journals they keep for it:   *)
(* the document's own name, which a process claims when no live other      *)
(* process owns it, and `<name>.<pid>.rj` beside it (persist/journal.rs:   *)
(* claim, offer, adopt, archive, Writer, rescue; the prompt of             *)
(* ui/recovery.rs; the save and quit paths of app/session.rs).             *)
(*                                                                         *)
(* A text is the set of the edits in it, an edit is its number, and a      *)
(* journal's length is the number of edits it holds.  A process looks at   *)
(* the owner of a journal in one step and acts on the answer in a later    *)
(* one: between them the other processes run.  Renames of the file, the    *)
(* unnamed buffer, newer formats and legacy sidecars are left out, and no  *)
(* pid is used twice.                                                      *)
EXTENDS Naturals, FiniteSets

CONSTANTS
    Proc,       \* the processes; each opens the file once
    MaxEdits    \* bound: edits over all processes

ASSUME OwnershipAssumption == MaxEdits \in Nat

Primary == "primary"
NoOwner == "none"

\* An alternate is never the document's own name, and every journal on disk
\* was written by a process.
ASSUME NamesAssumption == Primary \notin Proc /\ NoOwner \notin Proc

File == {Primary} \cup Proc       \* a process's alternate is named after it
Garbled == 0                      \* records replayed over a foreign text
Text == SUBSET (0 .. MaxEdits)

Absent == [owner |-> NoOwner, text |-> {}]
Journal(p, t) == [owner |-> p, text |-> t]
Journals == {Absent} \cup [owner : Proc, text : Text]
NoOffer == [file |-> Primary, journal |-> Absent, inUse |-> FALSE]
Nowhere == [file |-> Primary, journal |-> Absent]

VARIABLES
    disk,       \* the journal at each name
    archive,    \* the edits in archived journals
    doc,        \* the document file's text
    edits,      \* how many edits were made
    phase,      \* where each process is
    buf,        \* its buffer
    offer,      \* the crashed journal its prompt shows
    state, file, rewrite,    \* Writer's fields
    look,       \* what it found at `file` when it chose that name
    left,       \* the journal it last left on disk and has not let go
    (* what the properties remember *)
    synced,     \* the edits some journal write covered
    released,   \* the edits saved or let go
    hit,        \* processes whose journal a stale decision disturbed
    forfeit     \* edits overwritten by a process never offered them

filesVars == <<disk, archive, doc>>
writerVars == <<state, file, rewrite, look>>
ghosts == <<synced, released, hit, forfeit>>
vars == <<disk, archive, doc, edits, phase, buf, offer, state, file, rewrite,
          look, left, synced, released, hit, forfeit>>

----------------------------------------------------------------------------

Running(p) == phase[p] \notin {"off", "quit", "dead"}

\* is_live_other: the owner's pid answers and its start time matches.
LiveOther(p, j) == j # Absent /\ j.owner # p /\ Running(j.owner)

\* Variant: the document's own name, whoever has it.
ClaimAnyway(p, f) == f

\* claim
Claim(p, f) == IF LiveOther(p, disk[f]) THEN p ELSE f

\* discard_file, over the files d.
DiscardFile(p, f, d) == IF d[f].owner = p THEN [d EXCEPT ![f] = Absent] ELSE d

\* offer_one: a crashed process's journal whose text is not the file's.
Offers(p, f) ==
    /\ disk[f] # Absent
    /\ ~LiveOther(p, disk[f])
    /\ disk[f].text # doc

\* candidates: the document's own name first, then the newest alternate.
Candidates(p) ==
    IF Offers(p, Primary) THEN {Primary} ELSE {f \in Proc : Offers(p, f)}

\* A running process whose journal is not p's.
InUse(p) == \E f \in File : LiveOther(p, disk[f])

\* The owner of the journal at f, if it is a running process's latest.
Victims(p, f) ==
    {q \in Proc \ {p} : /\ Running(q)
                        /\ left[q] # Nowhere
                        /\ left[q].file = f
                        /\ disk[f] = left[q].journal}

\* What p's step does to the journal of another at f.  A stale one acts on
\* a look that no longer holds, or for a process that was itself disturbed.
Disturbs(p, f, stale) ==
    IF stale \/ p \in hit THEN hit \cup Victims(p, f) ELSE hit

\* p replaces the journal at f by one of its own.
Replaces(p, f, t, stale) ==
    /\ disk' = [disk EXCEPT ![f] = Journal(p, t)]
    /\ left' = [left EXCEPT ![p] = [file |-> f, journal |-> Journal(p, t)]]
    /\ synced' = synced \cup t
    /\ hit' = Disturbs(p, f, stale) \ {p}
    /\ forfeit' = IF disk[f].owner # p /\ (stale \/ p \in hit
                                             \/ disk[f] # offer[p].journal)
                  THEN forfeit \cup disk[f].text ELSE forfeit

----------------------------------------------------------------------------
(* Opening the file: offer, the prompt's answers, adopt.                   *)

\* The first frame after the prompt makes the Writer: Idle over an unchanged
\* buffer, waiting to write a recovered one.
StartsEditing(p, t, s) ==
    /\ phase' = [phase EXCEPT ![p] = "edit"]
    /\ buf' = [buf EXCEPT ![p] = t]
    /\ state' = [state EXCEPT ![p] = s]
    /\ file' = [file EXCEPT ![p] = Claim(p, Primary)]
    /\ UNCHANGED <<rewrite, look, doc, edits>>

\* Nothing to recover; a file in use is opened anyway, or read-only.
OpenPlain(p) ==
    /\ phase[p] = "off"
    /\ Candidates(p) = {}
    /\ StartsEditing(p, doc, "Idle")
    /\ UNCHANGED <<disk, archive, offer, left, ghosts>>

OpenPrompt(p, f) ==
    /\ phase[p] = "off"
    /\ f \in Candidates(p)
    /\ phase' = [phase EXCEPT ![p] = "prompt"]
    /\ offer' = [offer EXCEPT ![p] = [file |-> f, journal |-> disk[f],
                                      inUse |-> InUse(p)]]
    /\ UNCHANGED <<filesVars, edits, buf, writerVars, left, ghosts>>

\* `e` at the in-use prompt: the crashed journal is not asked about.
EditAnyway(p) ==
    /\ phase[p] = "prompt" /\ offer[p].inUse
    /\ offer' = [offer EXCEPT ![p] = NoOffer]
    /\ StartsEditing(p, doc, "Idle")
    /\ UNCHANGED <<disk, archive, left, ghosts>>

\* Variant: opens the file, and the journal stays.
ForgetsToArchive(p, f) == UNCHANGED <<disk, archive, hit>>

\* archive: whatever is at f now moves, whoever owns it.
Archives(p, f) ==
    /\ disk[f] # Absent
    /\ archive' = archive \cup disk[f].text
    /\ disk' = [disk EXCEPT ![f] = Absent]
    /\ hit' = Disturbs(p, f, disk[f] # offer[p].journal)

\* `e`, `k`: the disk file is opened and the offered journal archived.
AnswerDisk(p) ==
    /\ phase[p] = "prompt"
    /\ Archives(p, offer[p].file)
    /\ StartsEditing(p, doc, "Idle")
    /\ UNCHANGED <<offer, left, synced, released, forfeit>>

\* It could not be archived; the answer has given it up.
AnswerDiskFails(p) ==
    /\ phase[p] = "prompt"
    /\ StartsEditing(p, doc, "Idle")
    /\ released' = released \cup offer[p].journal.text
    /\ UNCHANGED <<disk, archive, offer, left, synced, hit, forfeit>>

AnswerQuit(p) ==
    /\ phase[p] = "prompt"
    /\ phase' = [phase EXCEPT ![p] = "quit"]
    /\ UNCHANGED <<filesVars, edits, buf, offer, writerVars, left, ghosts>>

\* `r`: adopt claims the name it will write.
AnswerRecover(p) ==
    LET f == Claim(p, Primary)
    IN  /\ phase[p] = "prompt"
        /\ phase' = [phase EXCEPT ![p] = "adopt"]
        /\ file' = [file EXCEPT ![p] = f]
        /\ look' = [look EXCEPT ![p] = disk[f]]
        /\ UNCHANGED <<filesVars, edits, buf, offer, state, rewrite, left, ghosts>>

\* A journal under another name is archived once the new one is written.
AdoptWrites(p) ==
    LET text == offer[p].journal.text
    IN  /\ phase[p] = "adopt"
        /\ Replaces(p, file[p], text, disk[file[p]] # look[p])
        /\ phase' = [phase EXCEPT ![p] = "adopted"]
        /\ UNCHANGED <<archive, doc, edits, buf, offer, writerVars, released>>

AdoptEnds(p) == StartsEditing(p, offer[p].journal.text, "Fresh")

AdoptFails(p) ==
    /\ phase[p] = "adopt"
    /\ AdoptEnds(p)
    /\ UNCHANGED <<disk, archive, offer, left, ghosts>>

AdoptArchives(p) ==
    /\ phase[p] = "adopted" /\ file[p] # offer[p].file
    /\ Archives(p, offer[p].file)
    /\ AdoptEnds(p)
    /\ UNCHANGED <<offer, left, synced, released, forfeit>>

\* The journal's name was the one written, or it could not be archived.
AdoptArchivesNothing(p) ==
    /\ phase[p] = "adopted"
    /\ AdoptEnds(p)
    /\ UNCHANGED <<disk, archive, offer, left, ghosts>>

----------------------------------------------------------------------------
(* The editing session: the Writer, saving, quitting.                      *)

\* A change, absorbed by the frame that follows it.
Edit(p) ==
    /\ phase[p] = "edit" /\ edits < MaxEdits
    /\ edits' = edits + 1
    /\ buf' = [buf EXCEPT ![p] = @ \cup {edits'}]
    /\ state' = [state EXCEPT ![p] = IF @ = "Idle" THEN "Fresh" ELSE @]
    /\ UNCHANGED <<filesVars, phase, offer, file, rewrite, look, left, ghosts>>

\* write_out with no journal of this writer on disk: claim, then write.
FlushClaims(p) ==
    LET f == Claim(p, Primary)
    IN  /\ phase[p] = "edit" /\ state[p] = "Fresh"
        /\ phase' = [phase EXCEPT ![p] = "write"]
        /\ file' = [file EXCEPT ![p] = f]
        /\ look' = [look EXCEPT ![p] = disk[f]]
        /\ UNCHANGED <<filesVars, edits, buf, offer, state, rewrite, left, ghosts>>

Unsynced(p) == rewrite[p] \/ buf[p] # left[p].journal.text

\* append compares lengths only.
AsLeft(p) ==
    /\ disk[file[p]] # Absent
    /\ Cardinality(disk[file[p]].text) = Cardinality(left[p].journal.text)

\* Appending to another's journal of the same length garbles it.
FlushAppends(p) ==
    LET f == file[p]
        ours == disk[f] = left[p].journal
        new == buf[p] \ left[p].journal.text
        j == Journal(disk[f].owner,
                     IF ours THEN buf[p] ELSE disk[f].text \cup {Garbled})
    IN  /\ phase[p] = "edit" /\ state[p] = "Live"
        /\ ~rewrite[p] /\ Unsynced(p) /\ AsLeft(p)
        /\ disk' = [disk EXCEPT ![f] = j]
        /\ left' = [left EXCEPT ![p] = [file |-> f, journal |-> Journal(p, buf[p])]]
        /\ synced' = synced \cup buf[p]
        /\ hit' = Disturbs(p, f, FALSE)
        /\ forfeit' = IF ~ours /\ p \in hit THEN forfeit \cup new ELSE forfeit
        /\ UNCHANGED <<archive, doc, edits, phase, buf, offer, writerVars, released>>

\* The journal is not as it was left: a Live writer keeps its name and does
\* not look whose it is now.
FlushRewrites(p) ==
    /\ phase[p] = "edit" /\ state[p] = "Live"
    /\ Unsynced(p) /\ (rewrite[p] \/ ~AsLeft(p))
    /\ phase' = [phase EXCEPT ![p] = "write"]
    /\ rewrite' = [rewrite EXCEPT ![p] = TRUE]
    /\ look' = [look EXCEPT ![p] = disk[file[p]]]
    /\ UNCHANGED <<filesVars, edits, buf, offer, state, file, left, ghosts>>

WriteOut(p) ==
    /\ phase[p] = "write"
    /\ Replaces(p, file[p], buf[p], disk[file[p]] # look[p])
    /\ phase' = [phase EXCEPT ![p] = "edit"]
    /\ state' = [state EXCEPT ![p] = "Live"]
    /\ rewrite' = [rewrite EXCEPT ![p] = FALSE]
    /\ UNCHANGED <<archive, doc, edits, buf, offer, file, look, released>>

WriteFails(p) ==
    /\ phase[p] = "write"
    /\ phase' = [phase EXCEPT ![p] = "edit"]
    /\ UNCHANGED <<filesVars, edits, buf, offer, writerVars, left, ghosts>>

\* Variant: the document's own name only.
WithoutPrimary(p) == DiscardFile(p, Primary, disk)

\* The document's own journal and the Writer's, where this process owns them.
WithoutJournals(p) ==
    DiscardFile(p, Primary, IF state[p] = "Idle" THEN disk
                            ELSE DiscardFile(p, file[p], disk))

LetsGo(p) ==
    /\ disk' = WithoutJournals(p)
    /\ left' = [left EXCEPT ![p] = Nowhere]
    /\ released' = released \cup buf[p]
    /\ hit' = hit \ {p}

\* `:w`, and the frame after it.
Save(p) ==
    /\ phase[p] = "edit" /\ state[p] # "Idle"
    /\ doc' = buf[p]
    /\ LetsGo(p)
    /\ state' = [state EXCEPT ![p] = "Idle"]
    /\ rewrite' = [rewrite EXCEPT ![p] = FALSE]
    /\ UNCHANGED <<archive, edits, phase, buf, offer, file, look, synced, forfeit>>

\* discard_journals: `:q`, `:q!`.
Quit(p) ==
    /\ phase[p] = "edit"
    /\ LetsGo(p)
    /\ phase' = [phase EXCEPT ![p] = "quit"]
    /\ UNCHANGED <<archive, doc, edits, buf, offer, writerVars, synced, forfeit>>

----------------------------------------------------------------------------
(* Ends that are not quits.                                                *)

\* A panic, a fatal signal or an I/O error exit: rescue claims the Writer's
\* name and writes the whole text.
RescueClaims(p) ==
    LET f == Claim(p, file[p])
    IN  /\ phase[p] = "edit" /\ state[p] # "Idle"
        /\ phase' = [phase EXCEPT ![p] = "rescue"]
        /\ file' = [file EXCEPT ![p] = f]
        /\ look' = [look EXCEPT ![p] = disk[f]]
        /\ UNCHANGED <<filesVars, edits, buf, offer, state, rewrite, left, ghosts>>

RescueWrites(p) ==
    /\ phase[p] = "rescue"
    /\ Replaces(p, file[p], buf[p], disk[file[p]] # look[p])
    /\ phase' = [phase EXCEPT ![p] = "dead"]
    /\ UNCHANGED <<archive, doc, edits, buf, offer, writerVars, released>>

\* SIGKILL, a power cut, or a rescue that fails.
Kill(p) ==
    /\ Running(p)
    /\ phase' = [phase EXCEPT ![p] = "dead"]
    /\ UNCHANGED <<filesVars, edits, buf, offer, writerVars, left, ghosts>>

----------------------------------------------------------------------------

Init ==
    /\ disk = [f \in File |-> Absent]
    /\ archive = {} /\ doc = {} /\ edits = 0
    /\ phase = [p \in Proc |-> "off"]
    /\ buf = [p \in Proc |-> {}]
    /\ offer = [p \in Proc |-> NoOffer]
    /\ state = [p \in Proc |-> "Idle"]
    /\ file = [p \in Proc |-> Primary]
    /\ rewrite = [p \in Proc |-> FALSE]
    /\ look = [p \in Proc |-> Absent]
    /\ left = [p \in Proc |-> Nowhere]
    /\ synced = {} /\ released = {} /\ hit = {} /\ forfeit = {}

Next ==
    \E p \in Proc :
        \/ OpenPlain(p) \/ \E f \in File : OpenPrompt(p, f)
        \/ EditAnyway(p) \/ AnswerDisk(p) \/ AnswerDiskFails(p) \/ AnswerQuit(p)
        \/ AnswerRecover(p) \/ AdoptWrites(p) \/ AdoptFails(p)
        \/ AdoptArchives(p) \/ AdoptArchivesNothing(p)
        \/ Edit(p)
        \/ FlushClaims(p) \/ FlushAppends(p) \/ FlushRewrites(p)
        \/ WriteOut(p) \/ WriteFails(p)
        \/ Save(p) \/ Quit(p)
        \/ RescueClaims(p) \/ RescueWrites(p) \/ Kill(p)

Spec == Init /\ [][Next]_vars

----------------------------------------------------------------------------

\* Every variable keeps its type.
TypeOK ==
    /\ disk \in [File -> Journals]
    /\ archive \in Text /\ doc \in Text /\ edits \in 0 .. MaxEdits
    /\ phase \in [Proc -> {"off", "prompt", "adopt", "adopted", "edit", "write",
                           "rescue", "quit", "dead"}]
    /\ buf \in [Proc -> Text]
    /\ offer \in [Proc -> [file : File, journal : Journals, inUse : BOOLEAN]]
    /\ state \in [Proc -> {"Idle", "Fresh", "Live"}]
    /\ file \in [Proc -> File]
    /\ rewrite \in [Proc -> BOOLEAN]
    /\ look \in [Proc -> Journals]
    /\ left \in [Proc -> [file : File, journal : Journals]]
    /\ synced \in Text /\ released \in Text /\ forfeit \in Text
    /\ hit \subseteq Proc

\* Sessions write beside each other (claim, alternate, write_out, adopt,
\* archive, discard_file): a running process's journal is as it left it,
\* unless another process acted on a look at the journals that was out of
\* date; and under a process's alternate name nobody else's claim, rescue,
\* prompt answer or stale decision ever reaches it.
KeptApart ==
    /\ TypeOK
    /\ \A p \in Proc :
          /\ disk[p] # Absent => disk[p].owner = p
          /\ (Running(p) /\ left[p] # Nowhere /\ (p \notin hit \/ left[p].file = p))
                => disk[left[p].file] = left[p].journal

\* Synced work that was neither saved nor let go is in a journal or in the
\* archive: the only way to lose it is the write of a session that was never
\* offered it (it crashed after that session opened the file, or `e` passed
\* it over at the in-use prompt) or that raced with it.
WorkIsKept ==
    synced \subseteq
        (UNION {disk[f].text : f \in File}) \cup archive \cup released \cup forfeit

\* A process that quit or saved its way out leaves no journal of its own
\* (discard_journals), save one: text it recovered while another process held
\* the document's name was adopted under its alternate, and a Writer that has
\* moved to the document's name since does not remove that.
QuitLeavesNothing ==
    \A p \in Proc, f \in File :
        (phase[p] = "quit" /\ disk[f].owner = p) => f = p /\ offer[p] # NoOffer

=============================================================================
