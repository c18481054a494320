---------------------------- MODULE AnchorStore -----------------------------
(***************************************************************************)
(* A document's anchor store (crates/core/src/anchor.rs): slots reused     *)
(* under a generation, the live anchors in rank order, and a Fenwick tree  *)
(* of shifts that are still pending at each rank.                          *)
(*                                                                         *)
(* Slots and ranks count from 1 (the code from 0); rank 0 is UNRANKED.     *)
(***************************************************************************)
EXTENDS LineMap

CONSTANTS
    Texts,        \* the texts a document is opened with
    Inserts,      \* what an edit inserts, <<>> included
    Kinds,        \* the anchors made: [track, side, policy]
    NoAnchor,     \* an empty slot
    MaxDel,       \* bound: the bytes one edit deletes
    MaxChanged,   \* bound: the edits of all changes together
    MaxIds        \* bound: ids handed out

ASSUME StoreAssumption == MaxDel \in Nat /\ MaxChanged \in Nat /\ MaxIds \in Nat
ASSUME TextsAssumption == Texts \subseteq Strings(MaxLen) /\ Inserts \subseteq Seq(Byte \cup {NL})

VARIABLES
    text,       \* Document::text
    slots,      \* AnchorStore::slots
    free,       \* AnchorStore::free
    order,      \* AnchorStore::order
    shift,      \* AnchorStore::shift
    stale,      \* AnchorStore::stale
    edits,      \* how many edits the changes made so far had
    rule,       \* history: where the rule alone puts each slot's anchor
    dead        \* history: the ids removed

store == <<slots, free, order, shift, stale>>
storeVars == <<text, slots, free, order, shift, stale, edits, rule, dead>>

Track == {[track |-> "byte", side |-> b, policy |-> p] : b \in {"before", "after"}, p \in {"clamp", "invalidate"}}
           \cup {[track |-> "line", side |-> g, policy |-> "clamp"] : g \in {"drop", "keep", "cursor"}}

ASSUME KindsAssumption == Kinds \subseteq Track

\* struct Anchor
Anchor == [offset : Int, kind : Kinds, invalidated : BOOLEAN, rank : Nat]

ASSUME NoAnchorAssumption == NoAnchor \notin Anchor

ChangeEdits(len) == {e \in [pos : 0 .. len, del : 0 .. MaxDel, ins : Inserts] :
                  End(e) <= len /\ (e.del # 0 \/ e.ins # <<>>)}

\* The canonical lists of each text, by their length, that leave it within
\* the bound.
Changes ==
    [buf \in Strings(MaxLen) |->
        [n \in 1 .. MaxChanged |->
            {l \in [1 .. n -> ChangeEdits(Len(buf))] :
                Disjoint(l) /\ Len(buf) + TotalDelta(l) <= MaxLen}]]

----------------------------------------------------------------------------
(* The Fenwick tree of pending shifts, a sequence indexed by rank.         *)

\* isolate_lowest_one
LowestOne[i \in 1 .. 2 * MaxIds] == IF i % 2 = 1 THEN 1 ELSE 2 * LowestOne[i \div 2]

\* The nodes add_from visits, by the rank it starts from.
UpPath[i \in 1 .. 2 * MaxIds] ==
    IF i > MaxIds THEN {} ELSE {i} \cup UpPath[i + LowestOne[i]]

\* Shifts::add_from: d more for every rank >= r.
AddFrom(tree, r, d) ==
    [i \in 1 .. Len(tree) |-> IF i \in UpPath[r] THEN tree[i] + d ELSE tree[i]]

\* Shifts::at: the sums of the nodes on the way down from each rank.
Sums(tree) ==
    LET sum[i \in 0 .. Len(tree)] == IF i = 0 THEN 0 ELSE tree[i] + sum[i - LowestOne[i]]
    IN  sum

ShiftAt(tree, r) == Sums(tree)[r]

----------------------------------------------------------------------------
(* Reading.                                                                *)

Live == {s \in 1 .. Len(slots) : slots[s].anchor # NoAnchor}

\* offset_of
OffsetOf(a) == IF a.rank = 0 THEN a.offset ELSE a.offset + ShiftAt(shift, a.rank)

\* get: the slot of a live id.
IsLive(id) ==
    id.slot \in 1 .. Len(slots) /\ slots[id.slot].gen = id.gen /\ slots[id.slot].anchor # NoAnchor

----------------------------------------------------------------------------
(* Creating and removing.                                                  *)

StoreInit ==
    /\ text \in Texts
    /\ slots = <<>> /\ free = <<>> /\ order = <<>> /\ shift = <<>>
    /\ stale = FALSE
    /\ edits = 0
    /\ rule = <<>>
    /\ dead = {}

\* insert, insert_line: the slot freed last, or a new one.
Insert(offset, kind) ==
    LET a == [offset |-> offset, kind |-> kind, invalidated |-> FALSE, rank |-> 0]
        slot == IF free = <<>> THEN Len(slots) + 1 ELSE Last(free)
        at == [at |-> offset, gone |-> FALSE]
    IN  /\ Cardinality(Live) + Cardinality(dead) < MaxIds
        /\ slots' = IF free = <<>> THEN Append(slots, [gen |-> 0, anchor |-> a])
                    ELSE [slots EXCEPT ![slot].anchor = a]
        /\ free' = IF free = <<>> THEN free ELSE Front(free)
        /\ rule' = IF free = <<>> THEN Append(rule, at) ELSE [rule EXCEPT ![slot] = at]
        /\ stale' = TRUE
        /\ UNCHANGED <<text, order, shift, edits, dead>>

\* Variant: the generation of a freed slot is kept.
RemoveAnchorKeepingGen(id) ==
    /\ IsLive(id)
    /\ slots' = [slots EXCEPT ![id.slot].anchor = NoAnchor]
    /\ free' = Append(free, id.slot)
    /\ stale' = TRUE
    /\ dead' = dead \cup {id}
    /\ UNCHANGED <<text, order, shift, edits, rule>>

\* remove; a stale id changes nothing.
RemoveAnchor(id) ==
    /\ IsLive(id)
    /\ slots' = [slots EXCEPT ![id.slot] = [gen |-> id.gen + 1, anchor |-> NoAnchor]]
    /\ free' = Append(free, id.slot)
    /\ stale' = TRUE
    /\ dead' = dead \cup {id}
    /\ UNCHANGED <<text, order, shift, edits, rule>>

----------------------------------------------------------------------------
(* One change.                                                             *)

\* A store as a value: what the steps of apply hand on.
Store == [slots |-> slots, order |-> order, shift |-> shift]

Zeros(n) == [i \in 1 .. n |-> 0]

\* The elements of S in a strict total order.
Sorted(S, Precedes(_, _)) ==
    [i \in 1 .. Cardinality(S) |->
        CHOOSE x \in S : Cardinality({y \in S : Precedes(y, x)}) = i - 1]

\* Slot s takes its offset and its rank.
RankOne(sl, s, o, r) == [sl EXCEPT ![s].anchor = [@ EXCEPT !.offset = o, !.rank = r]]

\* The slots once the first r of the live ones have theirs.
Ranking(st, live) ==
    LET to[r \in 0 .. Len(live)] ==
          IF r = 0 THEN st.slots
          ELSE RankOne(to[r - 1], live[r], OffsetOf(st.slots[live[r]].anchor), r)
    IN  to

\* The live slots take the ranks and the offsets of a fresh order.
Ranked(st, live) ==
    [slots |-> Ranking(st, live)[Len(live)], order |-> live, shift |-> Zeros(Len(live))]

\* normalize: every pending shift is folded in and the live slots sorted.
Normalized(st) ==
    LET off(s) == OffsetOf(st.slots[s].anchor)
    IN  Ranked(st, Sorted(Live, LAMBDA a, b : off(a) < off(b) \/ (off(a) = off(b) /\ a < b)))

\* at_rank
AtRank(st, r) == st.slots[st.order[r]].anchor.offset + ShiftAt(st.shift, r)

\* Variant: the region of an edit is its own span.
RegionIsSpan(old, e) == [ws |-> e.pos, we |-> End(e), delta |-> Delta(e)]

\* The old lines of an edit and one line either side.
RegionOf(old, e) ==
    LET ls == LineStart(old, e.pos)
        le == LineEnd(old, End(e))
    IN  [ws |-> LineStart(old, IF ls = 0 THEN 0 ELSE ls - 1),
         we |-> LineEnd(old, le + 1),
         delta |-> Delta(e)]

\* The touched regions, merged when they meet.
MergeRegion(acc, g) ==
    IF acc # <<>> /\ g.ws <= Last(acc).we
    THEN [acc EXCEPT ![Len(acc)].we = IF g.we > @ THEN g.we ELSE @,
                     ![Len(acc)].delta = @ + g.delta]
    ELSE Append(acc, g)

RegionsTo(old, list) ==
    LET to[n \in 0 .. Len(list)] ==
          IF n = 0 THEN <<>> ELSE MergeRegion(to[n - 1], RegionOf(old, list[n]))
    IN  to

Regions(old, list) == RegionsTo(old, list)[Len(list)]

\* A line that went with its anchor leaves it where gravity "keep" would.
KeptLine(to, keep) == [to |-> IF to = Lost THEN keep ELSE to, gone |-> to = Lost]
KeptByte(r, policy) == [to |-> r.at, gone |-> r.inside /\ policy = "invalidate"]

\* map_anchor
MapAnchor(a, o, old, new, list) ==
    CASE a.kind.track = "line" ->
           KeptLine(MapOffset(old, new, list, o, a.kind.side), MapOffset(old, new, list, o, "keep"))
      [] a.kind.track = "byte" ->
           KeptByte(MapByteInside(list, o, a.kind.side), a.kind.policy)

\* The ranks of the anchors in a region, after the first lo, and where each
\* of them goes, sorted by that (a stable sort).
Plan(st, g, old, new, list) ==
    LET ranks == 1 .. Len(st.order)
        lo == Cardinality({r \in ranks : AtRank(st, r) < g.ws})
        hi == Cardinality({r \in ranks : AtRank(st, r) <= g.we})
        Goes(r) == [anchor |-> MapAnchor(st.slots[st.order[r]].anchor, AtRank(st, r), old, new, list),
                    slot |-> st.order[r], from |-> r]
    IN  [lo |-> lo, hi |-> hi, delta |-> g.delta,
         moved |-> Sorted({Goes(r) : r \in lo + 1 .. hi},
                          LAMBDA a, b : \/ a.anchor.to < b.anchor.to
                                        \/ a.anchor.to = b.anchor.to /\ a.from < b.from)]

\* An anchor takes its new rank and offset, less the deltas of the regions
\* left of its own and the shift pending at the rank.
PlaceOne(st, m, r, left) ==
    LET a == st.slots[m.slot].anchor
    IN  [st EXCEPT !.order[r] = m.slot,
                   !.slots[m.slot].anchor =
                      [a EXCEPT !.rank = r,
                                !.offset = m.anchor.to - left - ShiftAt(st.shift, r),
                                !.invalidated = a.invalidated \/ m.anchor.gone]]

\* The first i anchors of a region placed.
Placing(st, p, left) ==
    LET to[i \in 0 .. Len(p.moved)] ==
          IF i = 0 THEN st ELSE PlaceOne(to[i - 1], p.moved[i], p.lo + i, left)
    IN  to

\* All of them placed; every rank past the region shifts.
Place(st, p, left) ==
    [Placing(st, p, left)[Len(p.moved)] EXCEPT !.shift = AddFrom(@, p.hi + 1, p.delta)]

\* Variant: regions are taken to stay apart.
NeverCrossed(st, plan) == FALSE

\* An anchor left its region (a line moved with :m) and came out of order at
\* a region's edge.
Crossed(st, plan) ==
    LET Inverted(r) == r > 0 /\ r < Len(st.order) /\ AtRank(st, r) > AtRank(st, r + 1)
    IN  \E i \in 1 .. Len(plan) : Inverted(plan[i].lo) \/ Inverted(plan[i].hi)

\* apply, the first loop: every region is planned from the order as it stands.
Planned(st, old, new, list) ==
    LET regions == Regions(old, list)
    IN  [i \in 1 .. Len(regions) |-> Plan(st, regions[i], old, new, list)]

\* The second: the last n regions placed, and the deltas left of them.
Placements(st, plan, delta) ==
    LET Step(acc, p) == LET left == acc.left - p.delta
                        IN  [st |-> Place(acc.st, p, left), left |-> left]
        to[n \in 0 .. Len(plan)] ==
          IF n = 0 THEN [st |-> st, left |-> delta] ELSE Step(to[n - 1], plan[Len(plan) + 1 - n])
    IN  to

Placed(st, plan, delta) == Placements(st, plan, delta)[Len(plan)].st

\* One edit, whose position the edits before it shifted.
MetAlone(acc, e, bias) ==
    LET r == MapOne(acc.at, e.pos + acc.shift, e.del, Len(e.ins), bias)
    IN  [at |-> r.at, inside |-> acc.inside \/ r.inside, shift |-> acc.shift + Delta(e)]

\* The position of one anchor, the first n edits met in turn, each where the
\* edits before it leave it.
Alone(list, o, bias) ==
    LET to[n \in 0 .. Len(list)] ==
          IF n = 0 THEN [at |-> o, inside |-> FALSE, shift |-> 0]
          ELSE MetAlone(to[n - 1], list[n], bias)
    IN  to

OneByOne(list, o, bias) == Alone(list, o, bias)[Len(list)]

\* What the rule says of slot s, apart from the store.
RuleOf(s, old, new, list) ==
    LET a == slots[s].anchor
        Joined(r) == [at |-> r.to, gone |-> rule[s].gone \/ r.gone]
    IN  IF a.kind.track = "line" THEN Joined(MapAnchor(a, rule[s].at, old, new, list))
        ELSE Joined(KeptByte(OneByOne(list, rule[s].at, a.kind.side), a.kind.policy))

\* Document::apply hands the store its change.
ApplyChange(list) ==
    \E new \in {ApplyTo(list, text)}, st \in {IF stale THEN Normalized(Store) ELSE Store} :
    \E plan \in {Planned(st, text, new, list)} :
    \E end \in {Placed(st, plan, TotalDelta(list))} :
        /\ edits' = edits + Len(list)
        /\ text' = new
        /\ rule' = [s \in 1 .. Len(rule) |->
                      IF s \in Live THEN RuleOf(s, text, new, list) ELSE rule[s]]
        /\ IF Live = {} THEN UNCHANGED <<slots, order, shift, stale>>
           ELSE /\ slots' = end.slots /\ order' = end.order /\ shift' = end.shift
                /\ stale' = Crossed(end, plan)
        /\ UNCHANGED <<free, dead>>

StoreNext ==
    \/ \E o \in 0 .. Len(text), k \in Kinds : Insert(o, k)
    \/ \E s \in Live : RemoveAnchor([slot |-> s, gen |-> slots[s].gen])
    \/ \E n \in 1 .. MaxChanged - edits : \E list \in Changes[text][n] : ApplyChange(list)

StoreSpec == StoreInit /\ [][StoreNext]_storeVars

----------------------------------------------------------------------------
(* Properties.                                                             *)

\* Offsets, ranks, generations.
StoreTypes ==
    /\ text \in Strings(MaxLen)
    /\ Len(slots) <= MaxIds
    /\ slots \in Seq([gen : 0 .. MaxIds, anchor : Anchor \cup {NoAnchor}])
    /\ \A s \in Live : slots[s].anchor.rank <= Len(order)
    /\ free \in Seq(1 .. Len(slots)) /\ order \in Seq(1 .. Len(slots)) /\ shift \in Seq(Int)
    /\ stale \in BOOLEAN

\* The batched sweep (regions, ranks, pending shifts) gives every live anchor
\* the position and the flag its rule gives it alone, one edit at a time,
\* however many changes, inserts and removes came between.
SweepFollowsRule ==
    \A s \in Live : /\ OffsetOf(slots[s].anchor) = rule[s].at
                    /\ slots[s].anchor.invalidated = rule[s].gone

\* assert_invariants: the free list names the empty slots once each, anchors
\* are inside the text, and a current order ranks the live ones by offset.
StoreIsOrdered ==
    /\ StoreTypes
    /\ ToSet(free) = 1 .. Len(slots) \ Live
    /\ Cardinality(ToSet(free)) = Len(free)
    /\ \A s \in Live : OffsetOf(slots[s].anchor) \in 0 .. Len(text)
    /\ ~stale =>
         /\ Len(order) = Cardinality(Live) /\ Len(shift) = Len(order)
         /\ \A r \in 1 .. Len(order) : order[r] \in Live /\ slots[order[r]].anchor.rank = r
         /\ \A r \in 1 .. Len(order) - 1 : AtRank(Store, r) <= AtRank(Store, r + 1)

\* INV-HANDLE: an id that was removed never names an anchor again, whoever
\* has its slot now.
RemovedStaysDead == \A id \in dead : ~IsLive(id)
=============================================================================
