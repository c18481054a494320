------------------------------ MODULE Document ------------------------------
(***************************************************************************)
(* An editable document (crates/core/src/document.rs) over its undo        *)
(* history, with the change log a recovery journal drains                  *)
(* (crates/core/src/change_log.rs).                                        *)
(*                                                                         *)
(* A text is a value, and an edit list is known by the text it was made    *)
(* from and the text it gives there: applied to any other text it yields   *)
(* Garbage.  That Edit::inverse really undoes apply_to is the business of  *)
(* module EditList.  Anchors and tracked positions are left out.           *)
(***************************************************************************)
EXTENDS Integers, Sequences

CONSTANTS
    Origins,
    UserInput,     \* the origin of what the user types, and of a reload
    Hints,         \* the grouping hints transactions carry
    Texts,         \* the texts a buffer can hold
    LogCap,        \* ChangeLogCap::entries
    MaxNodes,      \* bound: undo nodes
    MaxRevision    \* bound: revisions

Garbage == "Garbage"
NoEdit == [from |-> "any", to |-> "same"]      \* the empty EditList
NoPlan == [base |-> -1, edit |-> NoEdit]
None == "None"

ASSUME OriginsAssumption == UserInput \in Origins /\ "NoOrigin" \notin Origins
ASSUME HintsAssumption == Hints \subseteq {"Continue", "BreakBefore", "JoinPrev"}
ASSUME TextsAssumption == Texts # {} /\ Garbage \notin Texts /\ NoEdit.from \notin Texts
ASSUME LogCapAssumption == LogCap \in Nat
ASSUME BoundsAssumption == MaxNodes \in Nat \ {0} /\ MaxRevision \in Nat

VARIABLES
    count, parent, group, origin, ancestry, redo_child, current, next_group,
    last_was_nav, synced,
    text,
    revision,
    forward,       \* forward[n]: the edit that made node n
    base_text,     \* the text of the root
    saved_node,    \* the node mark_saved saw current, -1 for None
    undo_block,    \* None, "open" (Some(false)) or "joining" (Some(true))
    recording, entries, lost,     \* the ChangeLog
    plan,          \* a transaction computed from a snapshot and not yet applied
    disk,          \* history: the text last written to or read from the file
    drained        \* history: [text, revision] the drains so far amount to

H == INSTANCE UndoHistory

history == <<count, parent, group, origin, ancestry, redo_child, current,
             next_group, last_was_nav, synced>>
log == <<recording, entries, lost>>
vars == <<history, text, revision, forward, base_text, saved_node, undo_block,
          log, plan, disk, drained>>

Edits == [from : Texts, to : Texts]
Apply(e, t) == IF e = NoEdit THEN t ELSE IF e.from = t THEN e.to ELSE Garbage
InverseEdit(e) == [from |-> e.to, to |-> e.from]

Entries == [base : 0 .. MaxRevision, result : 0 .. MaxRevision,
            edit : Edits \cup {NoEdit}]

TypeOK ==
    /\ H!TypeOK
    /\ text \in Texts
    /\ revision \in 0 .. MaxRevision
    /\ forward \in [1 .. count - 1 -> Edits]
    /\ base_text \in Texts
    /\ saved_node \in H!Nodes \cup {H!NoNode}
    /\ undo_block \in {None, "open", "joining"}
    /\ recording \in BOOLEAN
    /\ entries \in Seq(Entries) /\ Len(entries) <= LogCap
    /\ lost \in {None, "Started", "Overflow"}
    /\ plan = NoPlan \/ plan \in [base : 0 .. MaxRevision, edit : Edits]
    /\ disk \in Texts
    /\ drained \in [text : Texts, revision : 0 .. MaxRevision]

\* A file opened with text t: loaded and marked saved, not yet journalled.
Init ==
    /\ H!Init
    /\ text \in Texts
    /\ revision = 0
    /\ forward = <<>>
    /\ base_text = text
    /\ saved_node = H!Root
    /\ undo_block = None
    /\ recording = FALSE /\ entries = <<>> /\ lost = None
    /\ plan = NoPlan
    /\ disk = text
    /\ drained = [text |-> text, revision |-> 0]

\* Variant: clean anywhere in the saved node's undo step.
IsModifiedByGroup == saved_node = H!NoNode \/ group[saved_node] # group[current]

\* is_modified
IsModified == saved_node # current
NodeText(n) == IF n = H!Root THEN base_text ELSE forward[n].to

----------------------------------------------------------------------------
(* The change log.                                                         *)

Wants == recording /\ lost = None

\* Variant: a log without a cap.
PushUncapped(es, big) ==
    /\ entries' = IF Wants THEN entries \o es ELSE entries
    /\ UNCHANGED <<lost, recording>>

\* Variant: an overflowing log keeps the entries it already holds.
PushKeepingOld(es, big) ==
    /\ entries' = IF Wants /\ Len(entries) + Len(es) <= LogCap /\ ~big
                  THEN entries \o es ELSE entries
    /\ UNCHANGED <<lost, recording>>

\* push of the entries es one by one: past either limit the log drops all it
\* holds and wants no more until the next drain.  `big`: the byte limit is hit.
Push(es, big) ==
    /\ recording' = recording
    /\ IF ~Wants THEN UNCHANGED <<entries, lost>>
       ELSE IF Len(entries) + Len(es) > LogCap \/ big
            THEN entries' = <<>> /\ lost' = "Overflow"
            ELSE entries' = entries \o es /\ lost' = lost

\* One entry per revision bump, chained from the current revision.
Chained(edits) ==
    [i \in 1 .. Len(edits) |->
        [base |-> revision + i - 1, result |-> revision + i, edit |-> edits[i]]]

SetRecording(on) ==
    /\ on # recording
    /\ recording' = on
    /\ entries' = <<>>
    /\ lost' = IF on THEN "Started" ELSE None
    /\ UNCHANGED <<history, text, revision, forward, base_text, saved_node, undo_block,
                   plan, disk, drained>>

\* The text after the edits of the entries es.
ApplyAll(t, es) ==
    LET upTo[n \in 0 .. Len(es)] == IF n = 0 THEN t ELSE Apply(es[n].edit, upTo[n - 1])
    IN  upTo[Len(es)]

\* drain: a checkpoint hands over the whole text, otherwise the entries.
Drain ==
    /\ drained' = IF ~Wants THEN [text |-> text, revision |-> revision]
                  ELSE IF entries = <<>> THEN drained
                  ELSE [text |-> ApplyAll(drained.text, entries),
                        revision |-> entries[Len(entries)].result]
    /\ entries' = <<>>
    /\ lost' = None
    /\ UNCHANGED <<history, text, revision, forward, base_text, saved_node, undo_block,
                   recording, plan, disk>>

----------------------------------------------------------------------------
(* Transactions.                                                           *)

\* Variant: an open undo block changes nothing.
HintUnchanged(h) == h

\* In a block, every change after the first joins it.
EffectiveHint(h) == IF undo_block = "joining" THEN "JoinPrev" ELSE h

\* The committed path of apply_inner for a non-empty edit list.
Commit(e, o, joins, big) ==
    /\ revision < MaxRevision
    /\ H!AddNode(o, joins)
    /\ text' = Apply(e, text)
    /\ revision' = revision + 1
    /\ forward' = [n \in 1 .. count |-> IF n = count THEN e ELSE forward[n]]
    /\ undo_block' = IF undo_block = "open" THEN "joining" ELSE undo_block
    /\ Push(Chained(<<e>>), big)

\* A command computes its edits and applies them at once.
ApplyNow(t, o, h, big) ==
    /\ Commit([from |-> text, to |-> t], o, H!Joins(o, EffectiveHint(h)), big)
    /\ synced' = FALSE
    /\ UNCHANGED <<base_text, saved_node, plan, disk, drained>>

\* An empty edit list advances the revision and adds no node.
ApplyEmpty ==
    /\ revision < MaxRevision
    /\ revision' = revision + 1
    /\ Push(Chained(<<NoEdit>>), FALSE)
    /\ UNCHANGED <<history, text, forward, base_text, saved_node, undo_block, plan, disk,
                   drained>>

\* A snapshot is taken and edits are computed from it (a formatter, an LSP
\* answer) ...
Prepare(t) ==
    /\ plan = NoPlan
    /\ plan' = [base |-> revision, edit |-> [from |-> text, to |-> t]]
    /\ UNCHANGED <<history, text, revision, forward, base_text, saved_node, undo_block, log,
                   disk, drained>>

\* Variant: the base revision is not compared.
NeverStale == FALSE

Stale == plan.base # revision

\* ... and arrive later: a stale base is refused and changes nothing.
ApplyPlan(o, h, big) ==
    /\ plan # NoPlan
    /\ plan' = NoPlan
    /\ \/ /\ Stale
          /\ UNCHANGED <<history, text, revision, forward, undo_block, log>>
       \/ /\ ~Stale
          /\ Commit(plan.edit, o, H!Joins(o, EffectiveHint(h)), big)
          /\ synced' = FALSE
    /\ UNCHANGED <<base_text, saved_node, disk, drained>>

BeginUndoBlock ==
    /\ undo_block = None
    /\ undo_block' = "open"
    /\ UNCHANGED <<history, text, revision, forward, base_text, saved_node, log, plan, disk,
                   drained>>

EndUndoBlock ==
    /\ undo_block # None
    /\ undo_block' = None
    /\ UNCHANGED <<history, text, revision, forward, base_text, saved_node, log, plan, disk,
                   drained>>

----------------------------------------------------------------------------
(* Navigation: replay re-applies one edit list per crossed node.           *)

\* The nodes from the first ancestor of n in `above`, left out, down to n.
Path(n, above) ==
    LET to[m \in H!Nodes] == IF m \in above THEN <<>> ELSE Append(to[parent[m]], m)
    IN  to[n]

\* UndoStep::edits on the way to t: inverses up to the lowest common
\* ancestor, then forwards down.
StepEdits(t) ==
    LET up == Path(current, ancestry[t])
        down == Path(t, ancestry[current])
    IN  [i \in 1 .. Len(up) |-> InverseEdit(forward[up[Len(up) + 1 - i]])]
          \o [i \in 1 .. Len(down) |-> forward[down[i]]]

Replay(t, big) ==
    LET es == StepEdits(t)
    IN  /\ revision + Len(es) <= MaxRevision
        /\ text' = ApplyAll(text, Chained(es))
        /\ revision' = revision + Len(es)
        /\ Push(Chained(es), big)
        /\ UNCHANGED <<forward, base_text, saved_node, undo_block, plan, disk, drained>>

Undo(big) == H!Undo /\ Replay(current', big)
Redo(big) == H!Redo /\ Replay(current', big)
Chronological(older, big) == H!ToChronological(older) /\ Replay(current', big)

SyncUndo ==
    /\ H!Sync
    /\ UNCHANGED <<text, revision, forward, base_text, saved_node, undo_block, log, plan,
                   disk, drained>>

----------------------------------------------------------------------------
(* The saved state.                                                        *)

\* A save writes the text, then mark_saved notes the node and closes the group.
MarkSaved ==
    /\ saved_node' = current
    /\ disk' = text
    /\ H!Sync
    /\ UNCHANGED <<text, revision, forward, base_text, undo_block, log, plan, drained>>

MarkUnsaved ==
    /\ saved_node' = H!NoNode
    /\ UNCHANGED <<history, text, revision, forward, base_text, undo_block, log, plan, disk,
                   drained>>

\* reload_tracked: the file now holds t.  sync, apply, sync, mark_saved; the
\* change is made with the Continue hint by the user.
Reload(t, big) ==
    /\ disk' = t
    /\ \/ /\ t = text
          /\ revision < MaxRevision
          /\ revision' = revision + 1
          /\ Push(Chained(<<NoEdit>>), FALSE)
          /\ H!Sync
          /\ UNCHANGED <<text, forward, undo_block>>
       \/ /\ t # text
          /\ Commit([from |-> text, to |-> t], UserInput,
                    undo_block = "joining" /\ H!Mergeable, big)
          /\ synced' = TRUE
    /\ saved_node' = current'
    /\ UNCHANGED <<base_text, plan, drained>>

\* Variant: the document read again starts over at revision zero.
FirstRevisionZero == 0

FirstRevision == revision + 1

\* Document::replacing (`:e!`): a new document under the same id, with its
\* own history and change log, read from the file and marked saved.
Replace(t) ==
    /\ revision < MaxRevision
    /\ count' = 1
    /\ parent' = [n \in {H!Root} |-> H!NoNode]
    /\ group' = [n \in {H!Root} |-> 0]
    /\ origin' = [n \in {H!Root} |-> H!NoOrigin]
    /\ ancestry' = [n \in {H!Root} |-> {H!Root}]
    /\ redo_child' = [n \in {H!Root} |-> H!NoNode]
    /\ current' = H!Root
    /\ next_group' = 1
    /\ last_was_nav' = FALSE
    /\ synced' = TRUE
    /\ text' = t /\ base_text' = t /\ disk' = t
    /\ revision' = FirstRevision
    /\ forward' = <<>>
    /\ saved_node' = H!Root
    /\ undo_block' = None
    /\ recording' = FALSE /\ entries' = <<>> /\ lost' = None
    /\ UNCHANGED <<plan, drained>>

----------------------------------------------------------------------------
Next ==
    \/ \E t \in Texts, o \in Origins, h \in Hints, big \in BOOLEAN : ApplyNow(t, o, h, big)
    \/ ApplyEmpty
    \/ \E t \in Texts : Prepare(t)
    \/ \E o \in Origins, h \in Hints, big \in BOOLEAN : ApplyPlan(o, h, big)
    \/ BeginUndoBlock \/ EndUndoBlock
    \/ \E big \in BOOLEAN : Undo(big) \/ Redo(big)
    \/ \E older, big \in BOOLEAN : Chronological(older, big)
    \/ SyncUndo
    \/ MarkSaved \/ MarkUnsaved
    \/ \E t \in Texts, big \in BOOLEAN : Reload(t, big)
    \/ \E t \in Texts : Replace(t)
    \/ \E on \in BOOLEAN : SetRecording(on)
    \/ Drain

Spec == Init /\ [][Next]_vars

----------------------------------------------------------------------------
(* Properties.                                                             *)

\* Whatever path navigation took through the branches, whatever arrived late,
\* the text is the one the current node was made with: every edit list was
\* applied to the text it was computed from.
TextIsCurrentNodes == text = NodeText(current)

\* is_modified compares undo nodes, not texts: a buffer that says it is clean
\* holds what the file holds, after any undo, redo, reload or `:e!`.
CleanMeansOnDisk == ~IsModified => text = disk

\* While the log has its entries, they lead from what was drained before to
\* the current text and revision, one revision at a time.
LogReplaysToText ==
    Wants =>
        /\ ApplyAll(drained.text, entries) = text
        /\ \A i \in 1 .. Len(entries) :
              entries[i].base = drained.revision + i - 1 /\ entries[i].result = drained.revision + i
        /\ drained.revision + Len(entries) = revision

\* One id never shows two texts under one revision, `:e!` included: what a
\* cache keyed on (id, revision) relies on.
RevisionNamesText == [][revision' >= revision /\ (text' # text => revision' > revision)]_vars

\* The changes of an open undo block are one undo step, as long as the block
\* does not navigate: the second and later ones join the group of the first.
BlockIsOneStep ==
    [][count' = count + 1 /\ undo_block = "joining" /\ ~last_was_nav
          => group'[current'] = group[current]]_vars
=============================================================================
