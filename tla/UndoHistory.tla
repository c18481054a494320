---------------------------- MODULE UndoHistory ----------------------------
(***************************************************************************)
(* The branching undo history of one document (crates/core/src/undo.rs).   *)
(*                                                                         *)
(* A node is named by its index in UndoHistory::nodes.  A node's `seq` is  *)
(* that same index and `chronological` lists the indices in order, so both *)
(* are left out.  `children` is the set of nodes that name a node as their *)
(* parent; creation order and index order agree.  The edits a node carries *)
(* are the business of module Document.                                    *)
(***************************************************************************)
EXTENDS Integers

CONSTANTS
    Origins,     \* TransactionOrigin: who made a change
    MaxNodes     \* bound: nodes a history may hold, the root included

ASSUME OriginsAssumption == Origins # {}
ASSUME MaxNodesAssumption == MaxNodes \in Nat \ {0}

Continue == "Continue"
BreakBefore == "BreakBefore"
JoinPrev == "JoinPrev"
GroupHint == {Continue, BreakBefore, JoinPrev}

Root == 0
NoNode == -1
NoOrigin == "NoOrigin"

ASSUME NoOriginAssumption == NoOrigin \notin Origins

VARIABLES
    count,         \* nodes.len()
    parent,        \* parent[n], NoNode on the root
    group,         \* the undo group of n: nodes of one group undo together
    origin,        \* the origin of the change that made n
    ancestry,      \* what ancestry(n) walks: n and its ancestors, parents
                   \* being immutable once a node exists
    redo_child,    \* the child CTRL-R enters, NoNode when never set
    current,
    next_group,
    last_was_nav,  \* an undo or redo since the last recorded change
    synced         \* an undo sync since the last recorded change

tree == <<count, parent, group, origin, ancestry, next_group>>
vars == <<tree, redo_child, current, last_was_nav, synced>>

Nodes == 0 .. count - 1

TypeOK ==
    /\ count \in 1 .. MaxNodes
    /\ parent \in [Nodes -> Nodes \cup {NoNode}]
    /\ group \in [Nodes -> Nat]
    /\ origin \in [Nodes -> Origins \cup {NoOrigin}]
    /\ ancestry \in [Nodes -> SUBSET Nodes]
    /\ redo_child \in [Nodes -> Nodes \cup {NoNode}]
    /\ current \in Nodes
    /\ next_group \in Nat \ {0}
    /\ last_was_nav \in BOOLEAN
    /\ synced \in BOOLEAN

Init ==
    /\ count = 1
    /\ parent = [n \in {Root} |-> NoNode]
    /\ group = [n \in {Root} |-> 0]
    /\ origin = [n \in {Root} |-> NoOrigin]
    /\ ancestry = [n \in {Root} |-> {Root}]
    /\ redo_child = [n \in {Root} |-> NoNode]
    /\ current = Root
    /\ next_group = 1
    /\ last_was_nav = FALSE
    /\ synced = FALSE

----------------------------------------------------------------------------
(* Recording a change.                                                     *)

\* Variant: a change right after an undo may still join the group undone into.
MergeableAfterNav == parent[current] # NoNode

Mergeable == parent[current] # NoNode /\ ~last_was_nav

\* group_for: whether a change made by o with hint h joins the current group.
Joins(o, h) ==
    /\ Mergeable
    /\ \/ h = JoinPrev
       \/ h = Continue /\ ~synced /\ origin[current] = o

\* The new child of `current`, in its group when `joins`, else in a fresh one.
AddNode(o, joins) ==
    /\ count < MaxNodes
    /\ count' = count + 1
    /\ parent' = [n \in 0 .. count |-> IF n = count THEN current ELSE parent[n]]
    /\ group' = [n \in 0 .. count |->
                   IF n # count THEN group[n]
                   ELSE IF joins THEN group[current] ELSE next_group]
    /\ origin' = [n \in 0 .. count |-> IF n = count THEN o ELSE origin[n]]
    /\ ancestry' = [n \in 0 .. count |->
                      IF n = count THEN ancestry[current] \cup {count} ELSE ancestry[n]]
    /\ redo_child' = [n \in 0 .. count |->
                        IF n = count THEN NoNode
                        ELSE IF n = current THEN count ELSE redo_child[n]]
    /\ next_group' = IF joins THEN next_group ELSE next_group + 1
    /\ current' = count
    /\ last_was_nav' = FALSE

Record(o, h) == AddNode(o, Joins(o, h)) /\ synced' = FALSE

Sync ==
    /\ synced' = TRUE
    /\ UNCHANGED <<tree, redo_child, current, last_was_nav>>

----------------------------------------------------------------------------
(* Navigation.  A walk from `current` to t undoes the nodes of Up(t) and   *)
(* re-applies those of Down(t); ids grow away from the root, so the lowest *)
(* common ancestor is where the two meet.                                  *)

Children(n) == {c \in Nodes : parent[c] = n}
Up(t) == ancestry[current] \ ancestry[t]
Down(t) == ancestry[t] \ ancestry[current]
IsMax(m, S) == m \in S /\ \A k \in S : k <= m
IsMin(m, S) == m \in S /\ \A k \in S : m <= k

\* Variant: crossed edges are not remembered as the way back.
RedoChildKept(t) == redo_child

\* Variant: a crossed edge is noted at its child, not at its parent.
RedoChildSwapped(t) == [n \in Nodes |-> IF n \in Up(t) THEN parent[n] ELSE redo_child[n]]

\* Every crossed edge becomes its parent's redo edge; the way down is
\* written last, so it decides at the lowest common ancestor.
RedoChildAfter(t) ==
    [p \in Nodes |->
        IF \E n \in Down(t) : parent[n] = p
        THEN CHOOSE n \in Down(t) : parent[n] = p
        ELSE IF \E n \in Up(t) : parent[n] = p
             THEN CHOOSE n \in Up(t) : parent[n] = p
             ELSE redo_child[p]]

\* Variant: lands one node past the target.
NavigatePast(t) ==
    /\ current' = t + 1
    /\ redo_child' = RedoChildAfter(t)
    /\ last_was_nav' = TRUE
    /\ UNCHANGED <<tree, synced>>

NavigateTo(t) ==
    /\ current' = t
    /\ redo_child' = RedoChildAfter(t)
    /\ last_was_nav' = TRUE
    /\ UNCHANGED <<tree, synced>>

\* Variant: `u` undoes one node, not its whole group.
UndoOneNode(t) == current # Root /\ t = parent[current]

\* `u` stops at the nearest ancestor outside the current group.
UndoLandsOn(t) ==
    /\ current # Root
    /\ IsMax(t, {a \in ancestry[current] : a = Root \/ group[a] # group[current]})

Undo == \E t \in Nodes : UndoLandsOn(t) /\ NavigateTo(t)

\* redo_target: the child last visited, else the newest.
IsRedoTarget(p, c) ==
    IF redo_child[p] # NoNode THEN c = redo_child[p] ELSE IsMax(c, Children(p))

\* The nodes CTRL-R enters: down redo targets while the group stays that of
\* the first one.
RedoWalk ==
    {d \in Nodes :
        /\ current \in ancestry[d]
        /\ d # current
        /\ \A m \in Down(d) : IsRedoTarget(parent[m], m)
        /\ \A m, k \in Down(d) : group[m] = group[k]}

RedoLandsOn(t) == IsMax(t, RedoWalk)

\* redo never writes redo_child.
Redo ==
    \E t \in Nodes :
        /\ RedoLandsOn(t)
        /\ current' = t
        /\ last_was_nav' = TRUE
        /\ UNCHANGED <<tree, redo_child, synced>>

\* The last node of each run of one group in creation order.
GroupTips == {n \in Nodes : n + 1 \in Nodes => group[n + 1] # group[n]}

\* Variant: g+ skips to the newest change.
ChronologicalTargetNewest(older, t) ==
    /\ current \in GroupTips
    /\ IF older THEN IsMax(t, {n \in GroupTips : n < current})
                ELSE IsMax(t, {n \in GroupTips : n > current})

ChronologicalTarget(older, t) ==
    /\ current \in GroupTips
    /\ IF older THEN IsMax(t, {n \in GroupTips : n < current})
                ELSE IsMin(t, {n \in GroupTips : n > current})

ToChronological(older) ==
    \E t \in Nodes : ChronologicalTarget(older, t) /\ NavigateTo(t)

----------------------------------------------------------------------------
Next ==
    \/ \E o \in Origins, h \in GroupHint : Record(o, h)
    \/ Sync
    \/ Undo
    \/ Redo
    \/ \E older \in BOOLEAN : ToChronological(older)

Spec == Init /\ [][Next]_vars

----------------------------------------------------------------------------
(* Properties.                                                             *)

\* assert_invariants: a parent is older than its child, the root is the only
\* node without one, a redo edge leads to a child, and every node with
\* children has one, so redo never has to guess.
TreeShape ==
    /\ parent[Root] = NoNode
    /\ \A n \in Nodes \ {Root} : parent[n] \in 0 .. n - 1
    /\ \A n \in Nodes : redo_child[n] # NoNode => parent[redo_child[n]] = n
    /\ \A n \in Nodes : Children(n) # {} => redo_child[n] # NoNode

\* The premise group_tips is written on: a group's nodes are created one
\* after another, each on top of the one before, groups never recur, and no
\* branch ever starts inside a group.
GroupsAreChains ==
    /\ \A m, n \in Nodes : m <= n => group[m] <= group[n]
    /\ \A n \in Nodes \ {Root} : group[n] = group[n - 1] => Children(n - 1) = {n}

\* g- and g+ look `current` up among the group tips and give up when it is
\* not there: however undo, redo, syncs and branches were mixed, it is.
CurrentIsTip == current \in GroupTips

\* `u` then CTRL-R is back on the node `u` left, and CTRL-R then `u` likewise,
\* whatever branches hang off the nodes in between.
UndoRedoInverse ==
    [][\A n \in Nodes : n = current =>
          /\ Undo => RedoLandsOn(n)'
          /\ Redo => UndoLandsOn(n)']_vars

\* g- then g+ (and g+ then g-) is back where it started, across branches and
\* whatever the walk did to the redo edges.
ChronologicalInverse ==
    [][\A n \in Nodes, older \in BOOLEAN :
          n = current /\ ToChronological(older) => ChronologicalTarget(~older, n)']_vars

============================================================================
