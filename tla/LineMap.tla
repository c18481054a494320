------------------------------ MODULE LineMap -------------------------------
(***************************************************************************)
(* Where a position goes through one change (crates/core/src/anchor.rs):   *)
(* a byte position by its bias, a line position (a mark, a jump, another   *)
(* window's cursor) as Vim's mark_adjust moves it.                         *)
(*                                                                         *)
(* A change is the text before it, the text after it and a canonical edit  *)
(* list.  Bytes are one-byte characters, so snapping to a character        *)
(* boundary only clamps to the end of the text.                            *)
(***************************************************************************)
EXTENDS EditList

CONSTANT BLANK      \* the byte a join removes and puts

Lost == -1          \* map returns None: the line went and took the position

Snap(buf, p) == MinOf(p, Len(buf))
LineStart(buf, p) == LineHead(buf, MinOf(p, Len(buf)))
LineEnd(buf, p) == Min({Len(buf)} \cup {i \in MinOf(p, Len(buf)) .. Len(buf) - 1 : buf[i + 1] = NL})
Newlines(buf) == Len(NewlineEnds(buf))

\* prefix: the net growth of the first n edits.
Deltas(list) ==
    LET sum[n \in 0 .. Len(list)] == IF n = 0 THEN 0 ELSE sum[n - 1] + Delta(list[n])
    IN  sum

TotalDelta(list) == Deltas(list)[Len(list)]

----------------------------------------------------------------------------
(* The byte rule.                                                          *)

\* map_one: the deleted span collapses to its start, then the insertion is
\* placed by the bias.
MapOne(a, pos, del, ins, bias) ==
    LET end == pos + del
        inside == pos < a /\ a < end
    IN  CASE a < pos -> [at |-> a, inside |-> FALSE]
          [] a > end -> [at |-> a - del + ins, inside |-> FALSE]
          [] OTHER   -> [at |-> IF bias = "after" THEN pos + ins ELSE pos, inside |-> inside]

\* One edit met: the anchor is before it and stays, or the edit moves it.
MeetEdit(acc, e, shift, bias) ==
    LET r == MapOne(acc.at, e.pos + shift, e.del, Len(e.ins), bias)
    IN  IF acc.at < e.pos + shift THEN acc ELSE [at |-> r.at, inside |-> acc.inside \/ r.inside]

\* Where the first n edits leave the anchor at o, the first i being past.
MetInTurn(list, i, o, bias) ==
    LET to[n \in i .. Len(list)] ==
          IF n = i THEN [at |-> o + Deltas(list)[i], inside |-> FALSE]
          ELSE MeetEdit(to[n - 1], list[n], Deltas(list)[n - 1], bias)
    IN  to

\* map_byte_inside: the edits that end before o only shift it; the ones it
\* reaches are met in turn, each where the ones before it leave it.
MapByteInside(list, o, bias) ==
    LET i == Cardinality({n \in 1 .. Len(list) : End(list[n]) < o})
    IN  MetInTurn(list, i, o, bias)[Len(list)]

----------------------------------------------------------------------------
(* The line rule.                                                          *)

LineStartAt(old, p) == p = 0 \/ old[p] = NL
IsNewline(old, p) == p < Len(old) /\ old[p + 1] = NL
EndsInNewline(s) == s # <<>> /\ Last(s) = NL
StartsWithNewline(s) == s # <<>> /\ Head(s) = NL
IsBlank(s) == \A i \in 1 .. Len(s) : s[i] = BLANK

\* start_aligned: whole lines, each with the newline that ends it.
StartAligned(old, e) ==
    /\ LineStartAt(old, e.pos) /\ LineStartAt(old, End(e))
    /\ e.ins = <<>> \/ EndsInNewline(e.ins)

\* end_aligned: whole lines, each with the newline before it.
EndAligned(old, e) ==
    /\ IsNewline(old, e.pos)
    /\ End(e) = Len(old) \/ IsNewline(old, End(e))
    /\ e.ins = <<>> \/ StartsWithNewline(e.ins)

\* is_join: a newline and the next line's indent become blanks.
IsJoin(old, e) ==
    /\ IsNewline(old, e.pos)
    /\ IsBlank(Slice(old, e.pos + 1, End(e)))
    /\ IsBlank(e.ins)

\* at_col: column col of the line that starts at ls, clamped onto the line.
AtCol(new, ls, col) ==
    LET s == MinOf(ls, Len(new)) IN s + MinOf(col, LineEnd(new, s) - s)

\* new_line_start: the slot after a final newline is no line.
NewLineStart(new, p) ==
    LET q == MinOf(p, Len(new))
    IN  LineStart(new, IF q = Len(new) /\ EndsInNewline(new) THEN q - 1 ELSE q)

\* The lines the edit f inserts as whole lines, and where in it they start:
\* <<>> when it inserts no whole lines.
InsertedBlock(old, f) ==
    IF LineStartAt(old, f.pos) /\ EndsInNewline(f.ins)
    THEN <<[body |-> SubSeq(f.ins, 1, Len(f.ins) - 1), first |-> 0]>>
    ELSE IF StartsWithNewline(f.ins) /\ (f.pos = Len(old) \/ IsNewline(old, f.pos))
    THEN <<[body |-> Tail(f.ins), first |-> 1]>>
    ELSE <<>>

\* Where line j of s starts; past the last line, where one more would.
LineOf(s, j) ==
    LET starts == LineStartsOf(s)
    IN  IF j < Len(starts) THEN starts[j + 1] ELSE Len(s) + 1

\* moved: line j of the block that e deletes, when the same change inserts
\* the block elsewhere (:m).
Moved(old, new, list, e, j, col, lead) ==
    LET span == Slice(old, e.pos, End(e))
        gone == IF lead THEN Tail(span) ELSE SubSeq(span, 1, Len(span) - 1)
        Carries(n) ==
          /\ list[n].del = 0 /\ list[n].pos # e.pos
          /\ InsertedBlock(old, list[n]) # <<>>
          /\ InsertedBlock(old, list[n])[1].body = gone
        carriers == {n \in 1 .. Len(list) : Carries(n)}
        k == Min(carriers)
        block == InsertedBlock(old, list[k])[1]
        at == list[k].pos + Deltas(list)[k - 1] + block.first
    IN  IF e.ins # <<>> \/ carriers = {} THEN Lost
        ELSE AtCol(new, at + LineOf(block.body, j), col)

\* replaced: line j of the block of whole lines e replaces, the block being
\* at base in the new text.
Replaced(old, new, e, base, j, col, gravity, lead) ==
    LET starts == IF lead THEN NewlineEnds(e.ins)
                  ELSE IF e.ins = <<>> THEN <<>>
                  ELSE LineStartsOf(Slice(e.ins, 0, Len(e.ins) - 1))
        after == base + Len(e.ins) + IF lead /\ End(e) < Len(old) THEN 1 ELSE 0
    IN  IF j < Len(starts) THEN AtCol(new, base + starts[j + 1], col)
        ELSE CASE gravity = "drop"   -> Lost
               [] gravity = "keep"   -> AtCol(new, NewLineStart(new, after), col)
               [] gravity = "cursor" -> IF starts # <<>> THEN base + Last(starts)
                                        ELSE IF lead THEN LineStart(new, base)
                                        ELSE IF base = 0 THEN 0
                                        ELSE LineStart(new, base - 1)

\* A block of whole lines deleted or replaced: carried along, or replaced.
BlockLine(old, new, list, e, base, j, col, gravity, lead) ==
    LET to == Moved(old, new, list, e, j, col, lead)
    IN  IF to # Lost THEN to ELSE Replaced(old, new, e, base, j, col, gravity, lead)

\* A charwise edit that runs into the line [ls, le] from above.
RunsIn(old, new, e, base, delta, o, ls, le, gravity) ==
    LET start == LineStart(new, base)
    IN  IF End(e) > le
        THEN CASE gravity = "drop"   -> Lost
               [] gravity = "keep"   -> base + Len(e.ins)
               [] gravity = "cursor" -> start
        ELSE IF e.ins = <<>> /\ ~IsJoin(old, e) THEN AtCol(new, start, base - start + o - ls)
        ELSE IF o >= End(e) THEN o + delta + Delta(e)
        ELSE base + Len(e.ins)

\* Variant: only what ends before the line counts as above it.
NothingEndsAtLine(old, e, ls) ==
    e.del = 0 /\ e.pos = ls /\ EndsInNewline(e.ins)

\* The edit is wholly above the line that starts at ls: it ends there, or
\* inserts whole lines there.
IsAbove(old, e, ls) ==
    \/ End(e) = ls /\ e.pos < ls /\ (StartAligned(old, e) \/ ~EndAligned(old, e))
    \/ e.del = 0 /\ e.pos = ls /\ EndsInNewline(e.ins)

\* The first edit that is neither wholly above the line at ls nor past it.
Deciding(old, list, ls) ==
    LET ended == Cardinality({n \in 1 .. Len(list) : End(list[n]) < ls})
    IN  Min({Len(list) + 1} \cup
            {k \in ended + 1 .. Len(list) : list[k].pos > ls \/ ~IsAbove(old, list[k], ls)})

\* Where the edit e, delta past its old place, puts offset o of the line
\* [ls, le].
MapBy(old, new, list, e, delta, o, ls, le, gravity) ==
    LET base == e.pos + delta
        Block(j, lead) == BlockLine(old, new, list, e, base, j, o - ls, gravity, lead)
    IN  IF StartAligned(old, e) /\ ls < End(e)
        THEN Block(Newlines(Slice(old, e.pos, ls)), FALSE)
        ELSE IF e.pos = ls THEN AtCol(new, ls + delta, o - ls)
        ELSE IF EndAligned(old, e) THEN Block(Newlines(Slice(old, e.pos + 1, ls)), TRUE)
        ELSE RunsIn(old, new, e, base, delta, o, ls, le, gravity)

\* With the deciding edit n known: the edits before it shift the line.
MapFrom(old, new, list, n, o, ls, gravity) ==
    LET delta == Deltas(list)[n - 1]
    IN  IF n > Len(list) \/ list[n].pos > ls THEN AtCol(new, ls + delta, o - ls)
        ELSE MapBy(old, new, list, list[n], delta, o, ls, LineEnd(old, o), gravity)

Snapped(new, to) == IF to = Lost THEN Lost ELSE Snap(new, to)

\* LineMap::map_offset: the edits above the line shift it; the first other
\* edit that starts at the line or above it decides.
MapOffset(old, new, list, o0, gravity) ==
    LET o == MinOf(o0, Len(old))
        ls == LineStart(old, o)
    IN  Snapped(new, MapFrom(old, new, list, Deciding(old, list, ls), o, ls, gravity))
=============================================================================
