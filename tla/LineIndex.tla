----------------------------- MODULE LineIndex ------------------------------
(***************************************************************************)
(* A document's bytes under a run of edit lists, with the cached line      *)
(* starts (crates/core/src/document.rs, crates/core/src/edit.rs).          *)
(***************************************************************************)
EXTENDS LineMap

CONSTANTS
    MaxIns,     \* bound: the length of one insertion
    MaxEdits    \* bound: the edits of one list

ASSUME BoundsAssumption == MaxIns \in Nat /\ MaxEdits \in Nat

VARIABLES
    buf,           \* Document::text
    line_starts,   \* the OnceLock: <<>> while empty
    before,        \* line_starts_before: [starts, edits], starts <<>> for None
    old, last      \* history: the text before the last change, and its edits

vars == <<buf, line_starts, before, old, last>>

Edits(len) == {e \in [pos : 0 .. len, del : 0 .. len, ins : Strings(MaxIns)] : End(e) <= len}

\* The edits a caller may hand in for a text of len bytes.
Lists(len) == UNION {[1 .. n -> Edits(len)] : n \in 0 .. MaxEdits}

\* The canonical lists that EditList::new makes of raw edits on len bytes, in
\* any order, and that it and the bounds check accept. Sorting leaves
\* the edits what they are (NormalizeKeepsEdits), hence the intersection.
Accepted ==
    [len \in 0 .. MaxLen |->
        {list \in {Normalize(raw) : raw \in Lists(len)} \cap Lists(len) :
            Disjoint(list) /\ InBounds(list, len)}]

NoStarts == [starts |-> <<>>, edits |-> <<>>]

\* Bytes, and offsets within them.
TypeOK ==
    /\ buf \in Strings(MaxLen) /\ old \in Strings(MaxLen)
    /\ line_starts \in Seq(0 .. MaxLen)
    /\ before.starts \in Seq(0 .. MaxLen)
    /\ Len(last) <= MaxEdits /\ Len(before.edits) <= MaxEdits

Init ==
    /\ buf \in Strings(MaxLen)
    /\ line_starts = <<>>
    /\ before = NoStarts
    /\ old = buf
    /\ last = <<>>

\* Variant: starts from before an older change are kept with the new edits.
BeforeUnlessMade(list) ==
    [starts |-> IF line_starts = <<>> THEN before.starts ELSE line_starts, edits |-> list]

\* carry_line_starts: the starts made before this change, if any were.
CarryLineStarts(list) ==
    IF line_starts = <<>> THEN NoStarts ELSE [starts |-> line_starts, edits |-> list]

\* The document applies the edits EditList::new accepted.
Change(list) ==
    /\ list # <<>>
    /\ Len(ApplyTo(list, buf)) <= MaxLen
    /\ buf' = ApplyTo(list, buf)
    /\ before' = CarryLineStarts(list)
    /\ line_starts' = <<>>
    /\ old' = buf
    /\ last' = list

\* The first lookup after a change.
LineStarts ==
    /\ line_starts = <<>>
    /\ line_starts' = IF before.starts = <<>> THEN LineStartsOf(buf)
                      ELSE CarriedLineStarts(before.starts, before.edits)
    /\ UNCHANGED <<buf, before, old, last>>

Next ==
    \/ \E list \in Accepted[Len(buf)] : Change(list)
    \/ LineStarts

Spec == Init /\ [][Next]_vars

----------------------------------------------------------------------------
(* Properties.                                                             *)

\* Undo's premise: the stored inverse of any accepted list is a canonical
\* list itself (from_sorted's debug_assert), so that it can be inverted again,
\* and takes the new buffer back to the old one, touching edits included.
InverseRestores ==
    LET inv == InverseList(last, old)
    IN  Disjoint(inv) /\ InBounds(inv, Len(buf)) /\ ApplyTo(inv, buf) = old

Splice(b, e) == Slice(b, 0, e.pos) \o e.ins \o Slice(b, End(e), Len(b))

\* The edits spliced in one at a time, the last first.
Spliced(b, list) ==
    LET after[n \in 0 .. Len(list)] ==
          IF n = 0 THEN b ELSE Splice(after[n - 1], list[Len(list) + 1 - n])
    IN  after[Len(list)]

\* Applying a list is order-free: it is splicing its edits one at a time from
\* the last to the first, so no edit moves another.
ApplyIsSplicing == buf = Spliced(old, last)

\* The cached line starts, scanned or carried through the edits, are those of
\* the text.
CachedStartsAreExact == TypeOK /\ (line_starts # <<>> => line_starts = LineStartsOf(buf))

\* The line edit a reload or a line command records turns the old text into
\* the new one and begins and ends at line boundaries of both, and the
\* shortcut for an insertion finds the very edit the full comparison does.
LineEditIsWhole ==
    LET e == LinesChanged(old, buf)
        StartsLine(b, p) == p = 0 \/ p = Len(b) \/ b[p] = NL
    IN  /\ ApplyTo(<<e>>, old) = buf
        /\ StartsLine(old, e.pos) /\ StartsLine(old, End(e))
        /\ StartsLine(buf, e.pos + Len(e.ins))
        /\ \A at \in 0 .. Len(buf), s \in Strings(MaxIns) :
              LinesChangedByInsert(buf, at, s)
                = LinesChanged(buf, Slice(buf, 0, at) \o s \o Slice(buf, at, Len(buf)))

\* The lines of a text that are not empty, by where they start.
LinesOf(b) == {p \in 0 .. Len(b) : LineStartAt(b, p) /\ LineEnd(b, p) > p}
LineText(b, p) == Slice(b, p, LineEnd(b, p))
Unique(b, p) == \A q \in LinesOf(b) : LineText(b, q) = LineText(b, p) => q = p

WholeLines(b, e) == StartAligned(b, e) \/ EndAligned(b, e)
Bare(b, e, lines) == IF StartAligned(b, e) THEN SubSeq(lines, 1, Len(lines) - 1) ELSE Tail(lines)

\* A change that inserts whole lines, one that deletes whole lines, and one
\* that deletes a block of them and inserts it elsewhere (:m).
InsertsLines(b, list) == \A i \in 1 .. Len(list) : WholeLines(b, list[i]) /\ list[i].del = 0
DeletesLines(b, list) == \A i \in 1 .. Len(list) : WholeLines(b, list[i]) /\ list[i].ins = <<>>
MovesLines(b, list) ==
    \E i, j \in 1 .. Len(list) :
        /\ Len(list) = 2 /\ i # j
        /\ WholeLines(b, list[i]) /\ list[i].ins = <<>>
        /\ WholeLines(b, list[j]) /\ list[j].del = 0 /\ list[j].ins # <<>>
        /\ Bare(b, list[i], Slice(b, list[i].pos, End(list[i]))) = Bare(b, list[j], list[j].ins)

\* Edits that touch and take both newlines of one line, the one before it and
\* its own, join the lines around it.
Touching(list, i, j) == \A k \in i .. j - 1 : End(list[k]) = list[k + 1].pos
NoneJoins(b, list) ==
    \A i, j \in 1 .. Len(list) :
        i < j /\ Touching(list, i, j) => StartAligned(b, list[i]) \/ EndAligned(b, list[j])

\* A line position keeps its line and its column through a change that only
\* inserts, only deletes or only moves whole lines and joins none, whenever the
\* line is still there and can be told from the others.
MarksStayOnTheirLine ==
    NoneJoins(old, last) /\ (InsertsLines(old, last) \/ DeletesLines(old, last) \/ MovesLines(old, last)) =>
      \A p \in LinesOf(old), q \in LinesOf(buf), g \in {"drop", "keep", "cursor"} :
        (LineText(old, p) = LineText(buf, q) /\ Unique(old, p) /\ Unique(buf, q))
          => \A o \in p .. LineEnd(old, p) :
               MapOffset(old, buf, last, o, g) = q + (o - p)
=============================================================================
