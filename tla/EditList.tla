------------------------------ MODULE EditList ------------------------------
(***************************************************************************)
(* Edits and canonical edit lists (crates/core/src/edit.rs), and the line  *)
(* starts a document derives from them (crates/core/src/document.rs).      *)
(*                                                                         *)
(* A buffer is a sequence of bytes; an offset counts the bytes before a    *)
(* gap, so buf[p + 1] is the byte after offset p.                          *)
(***************************************************************************)
EXTENDS Integers, Sequences, SequencesExt, FiniteSets, FiniteSetsExt

CONSTANTS
    NL,         \* the newline byte
    Byte,       \* the bytes other than NL
    MaxLen      \* bound: the length of a buffer

ASSUME ByteAssumption == NL \notin Byte
ASSUME MaxLenAssumption == MaxLen \in Nat

\* The buffers of at most n bytes.
Strings(n) == UNION {[1 .. k -> Byte \cup {NL}] : k \in 0 .. n}

End(e) == e.pos + e.del
Delta(e) == Len(e.ins) - e.del
Slice(buf, from, to) == SubSeq(buf, from + 1, to)

\* EditList::new on the edits `raw`, in any order: no-ops go, the rest is
\* sorted by position.
Normalize(raw) ==
    SortSeq(SelectSeq(raw, LAMBDA e : e.del # 0 \/ e.ins # <<>>),
            LAMBDA a, b : a.pos < b.pos)

\* What new and from_sorted require: touching is allowed, a shared start or
\* byte is not.
Disjoint(list) ==
    \A i \in 1 .. Len(list) - 1 :
        list[i + 1].pos # list[i].pos /\ list[i + 1].pos >= End(list[i])

InBounds(list, len) == \A i \in 1 .. Len(list) : list[i].pos <= len /\ End(list[i]) <= len

\* Variant: what an edit deletes is copied all the same.
CursorAtDeleted(list, n) == IF n = 0 THEN 0 ELSE list[n].pos

\* How far apply_to has read after n edits.
Cursor(list, n) == IF n = 0 THEN 0 ELSE End(list[n])

\* What apply_to has written after n edits: up to each edit a copy, its
\* insertion, and nothing of what it deletes.
Copied(list, buf) ==
    LET out[n \in 0 .. Len(list)] ==
          IF n = 0 THEN <<>>
          ELSE out[n - 1] \o Slice(buf, Cursor(list, n - 1), list[n].pos) \o list[n].ins
    IN  out

\* apply_to
ApplyTo(list, buf) ==
    Copied(list, buf)[Len(list)] \o Slice(buf, Cursor(list, Len(list)), Len(buf))

\* Variant: what edits at one position removed is put back in the wrong order.
MergedSwapped(x, e, removed) == [x EXCEPT !.del = @ + Len(e.ins), !.ins = removed \o @]

\* An edit e that comes to stand where the inverse x stands is undone with it.
Merged(x, e, removed) == [x EXCEPT !.del = @ + Len(e.ins), !.ins = @ \o removed]

\* One edit undone where it stands in the new buffer.
InverseStep(acc, e, buf) ==
    LET at == e.pos + acc.delta
        removed == Slice(buf, e.pos, End(e))
        k == Len(acc.inv)
    IN  [inv |-> IF k > 0 /\ acc.inv[k].pos = at
                 THEN [acc.inv EXCEPT ![k] = Merged(@, e, removed)]
                 ELSE Append(acc.inv, [pos |-> at, del |-> Len(e.ins), ins |-> removed]),
         delta |-> acc.delta + Delta(e)]

\* The inverses of the first n edits.
Inverses(list, buf) ==
    LET to[n \in 0 .. Len(list)] ==
          IF n = 0 THEN [inv |-> <<>>, delta |-> 0] ELSE InverseStep(to[n - 1], list[n], buf)
    IN  to

\* inverse
InverseList(list, buf) == Inverses(list, buf)[Len(list)].inv

----------------------------------------------------------------------------
(* The smallest edit in whole lines.                                       *)

\* The largest n <= top that satisfies P; P(0) is taken to hold.
Largest(top, P(_)) == Max({0} \cup {n \in 0 .. top : P(n)})

\* The end of the last whole line of buf[0 .. common].
LineHead(buf, common) == Max({0} \cup {i \in 1 .. common : buf[i] = NL})

\* Variant: the shared tail is not cut to a line boundary on the new side.
LineTailOldOnly(old, new, head, same) ==
    Largest(same, LAMBDA t : Len(old) - t = head \/ old[Len(old) - t] = NL)

\* The longest shared tail that starts a line on both sides.
LineTail(old, new, head, same) ==
    Largest(same, LAMBDA t :
        /\ Len(old) - t = head \/ old[Len(old) - t] = NL
        /\ Len(new) - t = head \/ new[Len(new) - t] = NL)

MinOf(a, b) == IF a < b THEN a ELSE b
CommonPrefix(a, b) == Largest(MinOf(Len(a), Len(b)), LAMBDA n : SubSeq(a, 1, n) = SubSeq(b, 1, n))
CommonSuffix(a, b, room) == Largest(room, LAMBDA n : Slice(a, Len(a) - n, Len(a)) = Slice(b, Len(b) - n, Len(b)))

\* lines_changed
LinesChanged(old, new) ==
    LET head == LineHead(old, CommonPrefix(old, new))
        same == CommonSuffix(old, new, MinOf(Len(old), Len(new)) - head)
        tail == LineTail(old, new, head, same)
    IN  [pos |-> head, del |-> Len(old) - tail - head, ins |-> Slice(new, head, Len(new) - tail)]

\* What precedes the insertion is shared, and may run on into its text.
SharedHead(old, new, at) ==
    at + Largest(Len(old) - at, LAMBDA n : Slice(old, at, at + n) = Slice(new, at, at + n))

\* What follows the insertion is shared, as far as the head leaves it.
KnownTail(old, at, room) == MinOf(Len(old) - at, room)

\* lines_changed_by_insert: the same for text inserted at `at`, from what is
\* known to be shared.
LinesChangedByInsert(old, at, ins) ==
    LET new == Slice(old, 0, at) \o ins \o Slice(old, at, Len(old))
        head == LineHead(old, SharedHead(old, new, at))
        room == Len(old) - head
        known == KnownTail(old, at, room)
        same == known + Largest(room - known, LAMBDA n :
                    Slice(old, Len(old) - known - n, Len(old) - known)
                      = Slice(new, Len(new) - known - n, Len(new) - known))
        tail == LineTail(old, new, head, same)
    IN  [pos |-> head, del |-> Len(old) - tail - head, ins |-> Slice(new, head, Len(new) - tail)]

----------------------------------------------------------------------------
(* Line starts.                                                            *)

\* The offsets just past a newline.
NewlineEnds(buf) ==
    LET ends[n \in 0 .. Len(buf)] ==
          IF n = 0 THEN <<>>
          ELSE IF buf[n] = NL THEN Append(ends[n - 1], n) ELSE ends[n - 1]
    IN  ends[Len(buf)]

\* line_starts_of
LineStartsOf(buf) == <<0>> \o NewlineEnds(buf)

Shifted(starts, d) == [i \in 1 .. Len(starts) |-> starts[i] + d]

\* partition_point: how many of the starts, the first i taken as read, are <= p.
UpTo(starts, i, p) == i + Cardinality({k \in i + 1 .. Len(starts) : starts[k] <= p})

\* The starts before an edit stay, those of deleted newlines go, inserted
\* newlines add theirs.
CarryStep(acc, e, starts) ==
    LET keep == UpTo(starts, acc.i, e.pos)
    IN  [out |-> acc.out \o Shifted(Slice(starts, acc.i, keep), acc.delta)
                         \o Shifted(NewlineEnds(e.ins), e.pos + acc.delta),
         i |-> UpTo(starts, keep, End(e)),
         delta |-> acc.delta + Delta(e)]

\* The starts after the first n edits.
Carried(starts, list) ==
    LET to[n \in 0 .. Len(list)] ==
          IF n = 0 THEN [out |-> <<0>>, i |-> 1, delta |-> 0]
          ELSE CarryStep(to[n - 1], list[n], starts)
    IN  to

\* carried_line_starts: what follows the last edit moves along.
CarriedLineStarts(starts, list) ==
    LET end == Carried(starts, list)[Len(list)]
    IN  end.out \o Shifted(Slice(starts, end.i, Len(starts)), end.delta)
=============================================================================
