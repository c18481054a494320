# Verification of ruse

TLA+ models of the parts of ruse that keep a user's text safe: the undo
history, the document, the edit-list algebra and the anchors under both, the
workspace of buffers and windows, saving to disk, the recovery journal with its
crash paths and its owners, and the language server coordinator. TLC checks
them on small instances; TLAPS proves what matters most of them for every value
of the constants.

## The system

ruse is a modal terminal editor. `crates/core` holds the text model and the
editing language, free of I/O; `apps/tui` holds the terminal session,
persistence, the language-server client and the UI.

| Component | State it keeps | Operations | Interacts with |
|---|---|---|---|
| Undo history (`core/undo.rs`) | a tree of nodes with group, origin and redo edge, `current`, `synced`, `last_was_nav` | record, sync, undo, redo, to_chronological | owned by the document |
| Document (`core/document.rs`) | text, revision, undo history, `saved_node`, open undo block, line index, anchors | apply, undo/redo/chronological, undo blocks, mark_saved/unsaved, reload, replacing | commands, LSP results and reloads call it; the journal drains it |
| Change log (`core/change_log.rs`) | entries since the last drain, or that they are lost | push, drain, set_recording | filled by the document, drained by the journal writer |
| Edit lists, line index (`core/edit.rs`, `document.rs`) | a canonical list of edits; line starts made lazily | new, apply_to, inverse, lines_changed; line_starts | every change of the document |
| Journal writer (`tui/persist/journal.rs`) | Idle/Fresh/Live, pending records, base, held header | absorb, due, flush, discard | the session's frame; the journal file |
| Journal replay (`tui/persist/rj01.rs`) | none | replay | the start-up offer, the rescue |
| Crash rescue (`tui/recover.rs`, `signals.rs`) | the buffers the last frame published | sync, rescue_all | panic hook, exit path, watchdog thread |
| Recovery prompt (`tui/ui/recovery.rs`) | none | recover, edit disk file, discard, quit | start-up |
| Session (`tui/app/session.rs`) | files, writers, options | frame, commands, quit | everything above |
| Save (`tui/persist/atomic.rs`, `backup.rs`, `disk.rs`) | temp file, backups, what was last seen on disk | conflict check, write by rename, write in place, backups | save commands, 'autoread', other programs |
| Anchors (`core/anchor.rs`) | slots with generations, ranks, pending shifts | insert, remove, apply a change | the document, marks, diagnostics, other windows' cursors |
| Workspace (`core/workspace.rs`) | arenas of buffers and views, windows, focus, buffer list, alternate | edit, reload, split, close, only, add, focus, delete | every command; the quit check |
| LSP (`tui/lsp`, `app/lsp_coordinator.rs`) | client life, versions sent, pending requests, completion menu, stashed edits | spawn, sync, poll, ingest, request, apply_pending | the document, the session, a server process |

The remaining components (commands, motions, registers, input, rendering,
terminal, remote agent, options, trust) are under "Not modelled" and, with
their reasons, in `PROJECT.json`.

What is hard here is not the single operation. It is the order of operations:
undo, redo, time travel and saves mixed over branches; a transaction that was
computed from a text that has changed since; a journal write that fails or
tears, is retried, compacted, interrupted by a crash and rescued by another
thread; a save in the middle of a command line that the writer is not told of;
two sessions that read a journal's owner before either writes; a save that
falls back to another method half-way; a server that answers a question about a
text that is gone; a buffer deleted under the windows that show it.
`PROJECT.json` lists these hazards at the lines where they bite.

## Modules

| Module | Models | Abstraction |
|---|---|---|
| `UndoHistory` | `undo.rs` | Nodes are their creation order. `ancestry[n]` replaces the walk up the parents. Edits and cursors are in `Document`. |
| `Document` | `document.rs`, `change_log.rs`, over `H == INSTANCE UndoHistory` | A text is an atom. An edit list is the pair (text it was made from, text it gives); over any other text it gives `Garbage`. |
| `EditList` | `edit.rs`, `line_starts_of`, `carried_line_starts` | Operators on real byte sequences. Each loop over the edits is a recursive function of how many are done. |
| `LineIndex` | a document's bytes under runs of edit lists, with the cached line starts | Two bytes: newline and one other. |
| `LineMap` | the byte and the line rule of `anchor.rs`, over `EditList` | Operators: where one position goes through one change. Characters are one byte. |
| `AnchorStore` | the store of `anchor.rs`: slots, ranks, the Fenwick tree of pending shifts, the batched sweep | Real bytes. Slots and ranks count from 1. `rule` and `dead` are history variables. |
| `JournalWriter` | `persist/journal.rs` (`Writer`, `rescue`, `offer`, `adopt`), `rj01.rs` (`replay`), the frame, risky operations and commands of `session.rs`, `dispatch.rs`, `file_cmds.rs`, `recover.rs`, `ui/recovery.rs` | One process, one buffer. A journal is a sequence of records; sizes count records. Markers and Meta records carry no text. |
| `JournalOwnership` | the same journal seen from several processes: `claim`, alternates, `write_out`, `adopt`, archive, rescue, the prompt | A text is the set of edits in it, so that "whose work is this" can be asked. Records are not modelled, each write is one journal. |
| `SafeFile` | what a save promises | Three variables: the file, the save under way, who changed it last. |
| `AtomicSave` | `persist/atomic.rs`, `backup.rs`, `disk.rs` and their callers | One path. A text is an atom, an entry names an inode with what a read gives and what stable storage holds. One action per system call that changes something. |
| `LspCoordinator` | `app/lsp_coordinator.rs`, `lsp/client.rs`, the frame's use of both | One server, two pipes. A text is (buffer, revision); an edit batch is the set of texts it was computed from. |
| `Workspace` | `core/workspace.rs`, the buffer, window and quit commands of `session.rs` and `dispatch.rs` | A buffer is its length and its modified flag. A cursor that an edit touches may land anywhere in the new text: the exact rule is `LineMap`'s. |
| `MC*` | instances for TLC | |
| `DocumentProofs`, `LineIndexProofs`, `AnchorStoreProofs`, `WorkspaceProofs`, `AtomicSaveProofs`, `JournalWriterProofs`, `JournalOwnershipProofs`, `LspCoordinatorProofs` | theorems about the module each is named after; `WorkspaceProofs` also those about `UndoHistory` | |

`Document` composes with `UndoHistory` by INSTANCE: each of its actions is a
history action plus what happens to text, revision, saved node and log.
`LineIndex` extends `LineMap`, which extends `EditList`; together they discharge
what `Document` assumes of an edit list (its inverse takes the new text back to
the old one) and what the line rule promises a mark. `AnchorStore` extends
`LineMap` and compares the store's batched sweep with the rule applied to each
anchor alone. `AtomicSave` implements `SafeFile` by INSTANCE with a refinement
mapping.
`JournalWriter` takes from `Document` only what the journal sees: a text, the
modified flag and a change log that has its entries or has lost them.
`JournalOwnership` takes from `JournalWriter` that a flush leaves the whole
text or the old journal, and adds the other processes.

### Correspondence

`UndoHistory`: `Record`, `Sync`, `Undo`, `Redo`, `ToChronological` are the five
methods that change the tree. `Joins` is `group_for`; `RedoChildAfter` is what
`navigate_to` writes into the redo edges it crosses; `RedoWalk` is the loop of
`redo`, which writes none.

`Document`: `ApplyNow` is a command's transaction; `Prepare` and `ApplyPlan`
split one whose edits are computed from a snapshot and arrive later.
`ApplyEmpty` is the empty edit list. `Replay` is one revision and one log entry
per crossed node. `MarkSaved` writes the file and notes the node. `Reload` is
the 'autoread' reload in one undo step; `Replace` is `:e!`. The byte limit of
the change log is a nondeterministic choice (`big`).

`JournalWriter`: a session is a cycle of phases. In `input` a command line
runs; with `Chained` it may hold several commands. `frame` is the state between
the last command and the next frame. `Absorb("sync")` begins the frame's pass
over the buffer, `NoFlush`, `FlushAppends`, `FlushReplaces` or `FlushFails`
ends it and publishes the buffer to the rescue store. `Absorb("risky")` is
`sync_journals`, before a shell command or an LSP edit batch. `FlushFails`
leaves every prefix an interrupted append can leave, and whole old or new
content for a replacement. `Crash` is SIGKILL or a power cut, `Rescue` and
`RescueFails` the panic hook, exit path and watchdog, `Quit` a normal exit, and
`Open*` the outcomes of the next start. `Tamper` is another program deleting
the journal. `SaveUnproven` is the save whose fsync failed (E667).

`JournalOwnership`: `OpenPlain` and `OpenPrompt` are the start-up offer,
`EditAnyway` the answer at the in-use prompt, `Answer*` the prompt's answers
and `Adopt*` the steps of `adopt`. `FlushClaims` chooses the name (`claim`) and
`WriteOut` writes there, two steps because another process may come between;
`FlushAppends` and `FlushRewrites` are the later syncs, which do not claim
again. `RescueClaims` and `RescueWrites` split a rescue the same way.

`AtomicSave`: `pc` is the next system call of a save. `Save` is the conflict
check, `Prepare` what `write_with` reads of the target, `PreserveUnlinks`,
`PreserveLinks`, `PreserveCopies` and `CopyEnds` the backup, `CreateTemp`,
`FillTemp`, `RenameTemp` and `SyncDir` the write by rename, `FallBack` the
change to a write in place, `OpenInPlace`, `WriteBegins`, `WriteEnds` and
`SyncFile` that write, `Finish` and `Saw` what is removed and noted.
`BackupFails`, `ReplaceFails` and the failing disjuncts are the error returns.
`CheckDisk`, `ReadFile` and `ReadSaw` are the idle check and a reload.
`OtherProgram` writes, replaces or deletes the file at any moment; `Kill` ends
the process, `PowerCut` also loses what stable storage has not got.

`LspCoordinator`: `phase` walks through one frame: `Spawn`, `Sync`, `Poll` (one
message a step) and `PollEnds`, `Ingest`, `Requests`, `ApplyPending`; then
either `Tick` or a key (`Type`, `Select`, `LeaveMenu`, `Omni`, `Ask`,
`AcceptAction`, `Focus`) begins the next. `Takes`, `Answer`, `Refuses`,
`AsksEdit` and `ServerDies` are the server, an external process: it answers in
any order, from the text it has, or never.

`AnchorStore`: `Insert`, `RemoveAnchor` and `ApplyChange` are the store's three
operations. `Regions`, `Plan`, `Place` and `Crossed` are the stages of `apply`.

`Workspace`: `Apply`, `PlaceCursor`, `MarkSaved`, `ReloadFocused` (`:e!`),
`ReloadUndoable` ('autoread'), `FocusWindow`, `Split`, `CloseFocused`, `Only`,
`AddBuffer`, `FocusBuffer`, `BufferDelete`, `QuitWindow`, `QuitAll`.

Definitions marked "Variant" beside an operator are what that operator would be
after a plausible mistake. They are used by no action.

## Runs

| Run | Bounds | States | Shows |
|---|---|---|---|
| `undo_history` | 2 origins, 6 nodes | 165,038 | the shape of tree and groups; undo/redo and g-/g+ are inverses |
| `document` | 2 texts, 3 nodes, 4 revisions, log of 2 | 387,477 | text, node, revision, saved state and log stay together |
| `line_index` | 3 bytes, 2 inserted, 2 edits per list | 9,854 | the edit algebra, the line index and the line rule against reference definitions |
| `journal` | 2 texts, one of them large, log of 1, 3 pending records | 804,139 | what was synced survives; nothing false is offered |
| `journal_liveness` | the same, one command per line | 107,848 | what waits is written |
| `save` | 2 texts, 6 inodes, 4 events, 5 option sets | 4,978,146 | a save implements `SafeFile`; what is reported is durable; nobody's text is lost unasked |
| `lsp` | 2 buffers, 2 revisions, ids to 3 | 1,621,538 | the server's copies follow; late answers do no harm to the menu; the server is answered |
| `anchors` | 4 bytes, 2 edits, 2 ids, 3 kinds | 92,310 | the batched sweep is the rule |
| `ownership` | 3 processes, 3 edits, symmetric | 2,315,130 | sessions keep apart; synced work is not lost |
| `workspace` | 2 buffers, 2 windows, 5 views, 1 byte | 361,140 | handles, cursors and the quit check |
| `save_backup` | as `save` | violation | a kept backup is the inode written over |
| `lsp_stale_edits` | as `lsp`, other questions | violation | edits for an older text or another buffer are applied |

Why the bounds suffice. Six nodes hold two branches with groups of two on each
side of a fork, and a third branch; every clause of the undo code looks at a
node, its parent and their groups. Two texts tell "the right text" from
"another one", and `Garbage` stands for every wrong application. In the journal
run each limit (log, pending cap, change count, compaction) is passed within a
few changes, so overflow, checkpoint, compaction, append and large base all
meet each failure and crash; `MaxRecords` only bounds a large document's
journal, which is never compacted. Four events let a save race with another
program's write and be followed by a power cut, and six inodes are one for each
of the path, its backup, its temp file, another hard link, what stable storage
still has under the path and what the save has open. The
option sets are the Vim default, 'backup', a write in place that breaks hard
links, neither guard nor fsync nor 'autoread', and the Emacs profile's one
backup per visit. Two revisions tell a current text from a superseded one, and
id 1 is the handshake's, so ids to 3 leave two requests, enough for one to be
late; `format` and `action` bring an edit batch by an answer and one by the
server's own request. Two anchors and two edits reach regions that merge, stay
apart and cross (`:m`), and one slot freed and used again; three anchors with
one edit, where a shift is first summed over two nodes of the Fenwick tree, pass as
well. Three processes are
the least at which one can crash, one hold the name and one arrive late; the
three edits give each its own work. Five views are the least at which `:bd`
empties two windows and one hidden view of a buffer at once; a run with three
buffers and four views passes as well.

Deadlock is checked except where the system may stop: `anchors` and `save` use
up their bounds, `ownership` ends when every process has, `workspace` when the
editor quits.

### What the properties say

`UndoHistory`
- `TreeShape`: parents are older, redo edges lead to children, every inner node
  has one.
- `GroupsAreChains`: a group's nodes are consecutive and unbranched, which
  `group_tips` takes for granted.
- `CurrentIsTip`: `to_chronological` silently gives up when `current` is not a
  tip; it always is.
- `UndoRedoInverse`, `ChronologicalInverse`: a command and its opposite lead
  back to the node they left.

`Document`
- `TextIsCurrentNodes`: every edit list was applied to the text it was made
  from.
- `CleanMeansOnDisk`: a buffer that says it is clean holds what the file holds,
  though only node numbers are compared.
- `LogReplaysToText`: the log's entries lead from the last drain to the text.
- `RevisionNamesText`: one revision never names two texts, across `:e!` too.
- `BlockIsOneStep`: changes of an open block share one undo step.

`LineIndex`
- `InverseRestores`, `ApplyIsSplicing`: an inverse is canonical and takes the
  text back; a list does what splicing its edits one by one does.
- `CachedStartsAreExact`: scanned or carried line starts are the text's.
- `LineEditIsWhole`: `lines_changed` gives whole lines, and its shortcut for an
  insertion gives the same edit.
- `MarksStayOnTheirLine`: a mark keeps its line and column through any change
  that only inserts, deletes or moves whole lines. One shape of list is left out
  (`NoneJoins`): edits that touch, the first taking the newline before an empty
  line and the last that line's own, join the lines around it, and a line may
  then come to look like another. The smallest text where this shows has seven
  bytes and three deletions.

`JournalWriter`
- `ReplayNeverMixes`: no journal replays edits over a text they were not made
  from.
- `SyncedTextSurvives`: until saved or let go, a synced text or a later one can
  be recovered after any crash. Two ways out are stated in the property: the
  journal was deleted, or a large file changed under its journal.
- `RescueRestoresFrame`: a rescue that reports success has made the last
  frame's text recoverable.
- `CleanFrameLeavesNoJournal`, `CrashedJournalIsKept`: a session removes its
  own journal when the buffer is clean, and never a crashed session's.
- `UnsyncedIsSynced`: records that wait are written.

`JournalOwnership`
- `KeptApart`: a running session's journal is as it left it unless another acted
  on a look at the disk that was out of date, and its alternate is never
  touched even then.
- `WorkIsKept`: synced work is in a journal or the archive until saved or let
  go, but for the losses named below.
- `QuitLeavesNothing`: a session that quits leaves no journal of its own but for
  one named case.

`AtomicSave`
- `SaveIsAtomic`: `SafeFile` is implemented.
- `ReportedIsDurable`: after a reported save a power cut leaves the saved text.
- `NoSilentOverwrite`: a text another program wrote while the session was idle
  is not written over without `!`.
- `WriteBackupGuards`: during and after a failed write in place the write backup
  holds the old text.

`LspCoordinator`
- `ServerFollows`: what is held back, in the pipe and at the server adds up,
  version by version, to what the coordinator believes the server has.
- `ClosedStaysClosed`: no answer reopens a menu that was closed after its
  request.
- `ApplyEditAnswered`: a server that asks for an edit is answered.

`AnchorStore`
- `SweepFollowsRule`: the store's offsets and flags are those of the rule.
- `StoreIsOrdered`: the code's own `assert_invariants`.
- `RemovedStaysDead`: a removed id never names an anchor again.

`Workspace`
- `HandlesAreLive`, `CursorsInText`: the code's own `assert_invariants`, after
  every command.
- `QuitDropsNothingUnseen`: no quit drops a modified buffer other than the
  focused one.

The type invariant of `LineIndex`, `JournalOwnership`, `AtomicSave`,
`LspCoordinator`, `AnchorStore` and `Workspace` is a conjunct of one of these.

### Fairness

Two runs use it. In `journal_liveness`: `SF(Frame)`: the event loop runs a frame after
every command line and wakes at `wake_in`; typing interrupts it but every key
is followed by a frame. `WF(NoFlush)`: the frame's pass over a buffer ends.
`SF(Flush)`: a write that is retried for ever succeeds some day; on a file
system that always fails nothing can be promised, and the code only retries.
`WF(IdleElapses)`, `WF(HashFinishes)`: time passes and the hash thread ends.
Nothing is assumed of the user: typing may never pause, and the change count
then forces the sync. Journaling may be switched off and the buffer saved; both
end the wait.

In `lsp`: `WF(Frame)`, a frame that has begun goes through its steps;
`WF(Tick)`, the loop wakes by itself while a client is there; `SF(Takes)`, the
server reads its pipe. It is strong only because the model places the server's
steps between frames, where a process of its own would run beside them.
Nothing is assumed of the server's answers, and it may die.

## Findings

Two statements in the repository's comments and documents are not what the code
does; each has a run of its own. They are quoted in `PROJECT.json`.

1. `backup.rs`: "a backup of an in-place write is always a copy". With 'backup'
   on, the backup is made as a hard link while a rename is still meant; when
   the rename is given up, the write goes into the inode the backup names.
2. RFC-0007: a transaction built against a superseded revision is dropped. A
   formatting or rename answer is applied to whatever text is there.

Other behaviour met while modelling, none of it excluded by a property:

- `mark_saved` (document.rs:631) says a change after a save is a step of its
  own; inside an open undo block, such as a macro replay's, it joins the saved
  step (document.rs:383).
- A large document's journal keeps the `DiskBase` from before a save when the
  same command line changes the buffer again before the next frame
  (journal.rs:1346).
- A rescue writes the last frame's text, which may follow a newer one already
  synced by a risky operation (recover.rs:81).
- After `:set noswapfile` and `:set swapfile` a modified buffer has no journal
  until its next change (session.rs:1225).
- The stat that a later check compares with is taken after the file was read
  (disk.rs:71): a write between the two is not noticed.
- Two sessions may both find the primary name free and write it in turn, and a
  `Live` writer rewrites its journal without claiming again. `hit` records
  whose journal this disturbs.
- A session that opened a file before another crashed, or chose `e` at the
  in-use prompt, writes over the crashed journal at its first sync (`forfeit`).
- Text adopted into an alternate stays there after `:q!` when the writer has
  since moved to the primary name: the exception of `QuitLeavesNothing`.
- `:keepalt bd` can leave the alternate naming a retired buffer; `alternate()`
  filters it, so no command sees it.

## Proofs

Each proof module states an inductive invariant `IInv`, proves that the initial
states satisfy it and that every action keeps it (one lemma per action or group
of like actions), and draws the properties from it. Before it was proved, each
`IInv` was checked by TLC on the instance of the component's run. The runs and
the theorems are about the same definitions.

### `WorkspaceProofs`, the undo history: any set of origins, any number of nodes

| Theorem | Property |
|---|---|
| `TypeCorrect`, `TreeShapeHolds`, `GroupsStayChains`, `CurrentStaysTip` | `TypeOK`, `TreeShape`, `GroupsAreChains`, `CurrentIsTip` |
| `UndoAndRedoAreInverse`, `ChronologicalStepsAreInverse` | `UndoRedoInverse`, `ChronologicalInverse` |

Assumptions: `MaxNodes` is a positive natural and no origin is the sentinel
`NoOrigin`.

`AncestryInv` ties `ancestry` to `parent`: a node's ancestors are itself and
its parent's, without gaps, and every two of them one above the other.
`GroupInv` numbers the groups in creation order below `next_group` and keeps the
root alone in group 0. `NewestInv` says that without a navigation since the
last change `current` is the newest node: this is why a change may join the
group of `current` without making a group that is not consecutive.
`CurrentIsTip` is not inductive without `GroupsAreChains`: undo stops at the
first ancestor outside the group, and that ancestor is a tip because nothing but
the next node of its group could have followed it inside the group
(`UndoLandsOnTip`); redo walks while the group stays the same and so stops at
the last node of a chain (`RedoLandsOnTip`). The inverse theorems need in
addition that a node has one child among the ancestors of another
(`OneChildOnPath`): the redo edges an undo wrote are then exactly its way back.

### `DocumentProofs`: any texts, any tree, any log cap

| Theorem | Property |
|---|---|
| `Types`, `TextIsTheNodes`, `CleanIsOnDisk`, `LogIsComplete` | `TypeOK`, `TextIsCurrentNodes`, `CleanMeansOnDisk`, `LogReplaysToText` |
| `RevisionIsAName`, `BlockIsOne` | `RevisionNamesText`, `BlockIsOneStep` |

Assumptions: `UserInput` is an origin and `NoOrigin` is none; neither `Garbage`
nor the mark of the empty edit list is a text; the bounds are naturals.

`TreeInv` is the part of the undo history's invariant that navigation needs.
`EdgeInv` says that every edit was made from the text of its node's parent.
`TextIsCurrentNodes` follows from the two by the shape of the walk:
`PathFacts` shows that `Path(n, above)` descends from the nearest ancestor of
`n` in `above`, so the two halves of `StepEdits` meet at one node, the lowest
common ancestor, and `StepEditsLead` that the inverses up and the edits down,
each made from the text the one before it gives, lead from the text to the
target's (`Leads`). `SavedInv` says that the saved node's text is the file's,
not only when it is current: a save may be undone and redone. `PlanInv` says
that a transaction made at the current revision was made from the current text,
which is why comparing revisions is enough. `BlockInv` says that an open block
that has changed something and not navigated is not at the root, so that the
next change has a group to join.

### `LineIndexProofs`: texts and edit lists of any length

| Theorem | Property |
|---|---|
| `InverseIsRight`, `ApplyIsRight`, `StartsAreRight` | `InverseRestores`, `ApplyIsSplicing`, `CachedStartsAreExact` |
| `LineEditsAreRight` | `LineEditIsWhole` |
| `MarksStay` | `MarksStayOnTheirLine` |

Assumptions: a newline is not one of the other bytes, the bounds are naturals,
and the texts and insertions are byte strings. `Normalize` sorts by the standard
module's CHOOSE, which the provers cannot look into: that its result is a list of
the edits it was given is stated in `Accepted` as an intersection and checked to
be no restriction by TLC (`NormalizeKeepsEdits`).

`IInv` says that the text is what the last change's canonical list made of the
old text, and that line starts are those of the text they are kept for: the
cached ones of this text, the ones set aside of the old one, together with the
very edits that lead from it (`StartsInv`). The rest is about one text and one
list, by induction on the list (`ListInduct`): every list is empty or ends in an
edit that follows a shorter canonical list (`CanonOfAppend`).
- `ApplySplices`: splicing in the last edit leaves the text before it alone, and
  the others lie there (`WrittenOfPrefix`, `CanonNarrows`).
- `Inverted`: the inverses of the first edits are canonical for what these wrote,
  end where it ends and give back what was read. The edit that comes to stand
  where the last inverse stands is the hard case: that inverse then deletes
  nothing and nothing lies between the two, so merging loses nothing.
- `Kept`: the starts carried over the first edits are those of what they wrote,
  and the count of old starts used up is the number of lines begun before the
  last edit's end. It rests on `EndsConcat`, that the newlines of a text are those
  of its first part and, moved, of its second, and on `UpToStarts`, that
  `partition_point` finds the place where the parts meet.

`InverseIsRight` is what `Document` and its proofs take for granted when they
write an edit list as the pair of its two texts.

`LineEditsAreRight` needs no more of the states. `LineHead` and `LineTail` are
maxima; `EditBetween` shows that the edit between a shared head and a shared tail
makes the new text of the old one, whatever bounds them. For the shortcut,
`SharedHeadIsPrefix` and `KnownTailIsSuffix` show that what is counted on from a
part known to be shared is what the full comparison counts from nothing.

`MarksStay` needs of the states only that the text is what the last list makes
of the old one. An edit in whole lines neither starts nor ends inside a line
(`WholeBeside`), so a line lies between two edits or one of them takes it whole.
- Between two edits (`UntouchedStays`): its bytes are shifted by what the edits
  before it grew the text. That a line still starts there, and ends there, is the
  hard part where edits touch: `StartChain` and `EndChain` follow the edits that
  touch to the left and to the right, and this is where `NoneJoins` is needed.
- Deletions (`DeletesLeave`): every line left was one before, so `Unique` tells
  that a line that was taken is not found again.
- `:m` (`DeletedBlock`, `InsertsBlock`, `MovedLine`): the block that one edit takes
  is the block that the other puts down, and the line is found in it by its
  number (`LineOfStart`).

### `AnchorStoreProofs`: anchor stores of any size, over any texts and lists

| Theorem | Property |
|---|---|
| `StoreStaysOrdered`, `RemovedIdsStayDead`, `SweepIsTheRule` | `StoreIsOrdered`, `RemovedStaysDead`, `SweepFollowsRule` |
| `ShiftsAreRight` | what the Fenwick tree reads after an update |

It builds on the lemmas of `LineIndexProofs` about edit lists and the line rule.
Assumptions beside those: the anchors' kinds are those of the code, and the mark
of an empty slot is no anchor.

`assert_invariants` alone is not inductive. `StoreIInv` has
three parts. `StorePart`: every live anchor is inside the text, pending shift
included, and a current order is a permutation of the live slots by offset.
`FreePart`: the free list names each empty slot once. `DeadPart`: a slot is past
the generation of every id removed from it, and as no slot or generation is
without an id the ids handed out bound both; this is `RemovedIdsStayDead`.
`ApplyChange` is the hard step:
- `ShiftsAreRight`: `LowestOne` nests (`CoversUp`, `UpPathCovers`), so the path up
  from a rank meets the path down from a later one just once.
- `RegionsFacts`, `PlanFacts`: merged regions lie apart and in order, so their
  ranks part the order into intervals; `ApartGoes` says that an anchor outside
  every region only shifts, by the deltas of the regions left of it. For lines
  this is `LineClear`: the region reaches one line past the edit's own, so an
  edit outside cannot be the deciding one.
- `SettledStep` places the last region left: what is right of it stays where it
  was put, what is left of it is as before, and the shift stored from `hi + 1` on
  is the one the anchors there still lack. `PlacedFacts` is the induction.
- `SweptStore`: after it every anchor is inside the text (`ByteInText`,
  `LineInText`) and the order is sorted but at the edges of regions, which is just
  where `Crossed` looks; `NormalizedFacts` is the fresh order it then asks for.

`RuleInv`, on top of `StoreIInv`, says that offset and flag of every live anchor
are those that `rule` records. `ExactStep` follows one anchor through the sweep;
`AloneFacts` shows that the byte rule met one edit at a time, each shifted by the
ones before it, is `map_byte_inside` with its skipped prefix.

### `WorkspaceProofs`, the workspace: any number of buffers, views and windows

`HandlesStayLive`, `CursorsStayInText` and `QuittingDropsNothingUnseen` prove
`HandlesAreLive`, `CursorsInText` and `QuitDropsNothingUnseen`. `ViewsInv`
joins the first two: a view is retired, or shows a position in the text of a
live buffer. `OrderInv` is the buffer list as a bijection with the live buffers.
`BufferDelete` is the hard step: every view of the buffer goes to another one
at a position in it, and that the list is not empty then rests on the
replacement's being live.

### `AtomicSaveProofs`: any texts, options and file ids

| Theorem | Property |
|---|---|
| `SavesAreAtomic` | `SaveIsAtomic`: every step is a step of `SafeFile` or a stutter |
| `ReportsAreDurable`, `WriteBackupsGuard` | `ReportedIsDurable`, `WriteBackupGuards` |
| `NothingIsSilentlyOverwritten` | `NoSilentOverwrite` |

Assumptions: the empty text is one, `Torn` and `Gone` are none, the bounds are
naturals, and the option sets are well typed.

`TempInv` says that a temp file or a backup being filled is an inode of its own,
which nothing else names, and that what is about to be renamed is the whole
text, on stable storage when fsync is on. `MethodInv` says which steps belong to
the write by rename and which to the write in place, and whose inode is open.
`UnreadInv` tells a text that was not read from what the session has seen: it is
why a change cannot hide behind an equal stat. `DurableInv` says what each step
of a synced save has brought to stable storage, `GuardInv` that the path holds
the old text until the write begins and the write backup from then on.

### `JournalWriterProofs`: any texts, caps and journal lengths

| Theorem | Property |
|---|---|
| `Types`, `NothingIsMixed`, `SyncedSurvives`, `RescueRestores` | `TypeOK`, `ReplayNeverMixes`, `SyncedTextSurvives`, `RescueRestoresFrame` |
| `CleanFrames`, `CrashedJournals` | `CleanFrameLeavesNoJournal`, `CrashedJournalIsKept` |

Assumptions: `None` and `Garbage` are no
texts, and the caps are naturals (`NamesAssumption` and the bounds).

Replay is a recursive function over the records; `Sound` describes the journals
it takes all of: a header, then checkpoints and edits each made from the text
the record before leaves, whose replay is `Tip`. `JournalInv` says that a
journal is missing, just created, or sound up to a torn end. `LogInv` and
`WriterInv` say where the next records fit: the change log leads from the last
drain (`Base`) to the text, and the pending records from the journal's tip, or
from the held header's base, to that drain. Without `WriterInv` nothing tells
that an append continues the journal it is made to. `SafeInv` says that whatever
the journal can come to hold while something is at stake is a text the buffer
has held since the last sync. `SessionInv` and `RescuedInv` tie the phases,
the frame that was published and the rescue to it.

### `JournalOwnershipProofs`: any number of processes and edits

`SessionsKeptApart`, `SyncedWorkIsKept` and `QuittingCleansUp` prove
`KeptApart`, `WorkIsKept` and `QuitLeavesNothing`. Assumption
(`NamesAssumption`): a process is neither the document's own name nor "none".

`NamesInv` and `LeftInv` say what a process has left, and where. `OfferInv`
says that what a prompt shows was left by a process that has ended, `LookInv`
that nobody is about to write over the journal of one that runs unless its own
was hit. `OfferedInv` and `KeptInv` follow a piece of work: it is in the
journal its owner wrote, and once a prompt has shown it, in the buffer, in the
archive or let go. `AlternateInv` is what `QuitLeavesNothing` needs of a
session that recovered nothing.

### `LspCoordinatorProofs`: any number of buffers, revisions and requests

`DocsAreFollowed` and `ClosedIsClosed` prove `ServerFollows` and
`ClosedStaysClosed`. Assumptions: there is a buffer, the bounds are naturals,
and there is at least one id for the handshake.

`IdsInv` says that an id given out is new. `LifeInv` says that notifications
are held back only before the handshake, so that what is held back always comes
after what is in the pipe. `FollowInv` is then kept because requests and
replies tell nothing of a buffer (`FollowsSame`), a sent notification adds the
next version, and one taken from the front is the next one of the server's copy.
`MenuInv` says that while the menu is closed, the request whose answer would
open it is younger than the closing.

### Recursion and induction

The provers have no induction over data. What a recursive function (`Replay`,
`ApplyAll`, `Path`, `Copied`, `Inverses`, `Carried`, `Placements`, `Sums` and the
others) computes is proved with the
module's lemma `Induct`: a set of naturals that holds 0 and is closed under
successors is all of them, from `WellFoundedInduction`. The set holds the
lengths for which the claim is true.

### Only model-checked

- Liveness under fairness: `UnsyncedIsSynced`, `ApplyEditAnswered`.

## Not modelled

- Editing commands, motions, indent, format, patterns and expressions: large
  sequential functions of a text to an edit list. They reach the document only
  through transactions, which are modelled; bounded inputs would say less of
  them than their unit tests do. They are most of the source.
- Character tables: generated. Rendering, logging, health: output only.
- Input and keymaps, options, configuration, trust, saved session state: parsers
  and tables, deterministic and sequential.
- Terminal, PTY and remote agent: I/O and encodings, one request at a time.
- Registers, line undo, undo cursor: sequential data beside the document.
- Of the modelled parts: journal `follow` (a renamed buffer), the unnamed
  buffer's journal, legacy sidecars; symbolic links, special files, 'patchmode'
  and appending saves; several servers at once, hover, references and
  diagnostics; buffer names and the split layout.

## Plan

Every invariant and action property of the passing runs that is not about
liveness has a theorem. Liveness stays with TLC. What is left is to model more:
journal `follow` and several language servers first, then registers and line
undo.
