-------------------------- MODULE WorkspaceProofs ---------------------------
(***************************************************************************)
(* The undo history of a buffer, for every set of origins and every size:  *)
(* it is well typed, its undo groups are unbranched chains, and `current`  *)
(* is always the tip of its group.                                         *)
(*                                                                         *)
(* The workspace, for all bounds: its handles stay live, no cursor is left *)
(* past the end of a text, and quitting drops nothing the user cannot see. *)
(***************************************************************************)
EXTENDS UndoHistory, Workspace, FiniteSetTheorems, WellFoundedInduction, TLAPS

(* The undo history.                                                       *)

(* Ancestry is what walking the parents gives: reflexive, closed upwards,  *)
(* ordered by creation, without gaps, and with every two ancestors of a    *)
(* node one above the other.                                               *)
AncestryInv ==
    /\ \A n \in Nodes : n \in ancestry[n] /\ Root \in ancestry[n]
    /\ \A n \in Nodes : \A a \in ancestry[n] : a <= n
    /\ \A n \in Nodes \ {Root} : ancestry[n] = ancestry[parent[n]] \cup {n}
    /\ \A n \in Nodes : \A a \in ancestry[n] \ {n} :
          \E c \in ancestry[n] : c \in Nodes /\ c # Root /\ parent[c] = a
    /\ \A n \in Nodes : \A a \in ancestry[n] : ancestry[a] \subseteq ancestry[n]
    /\ \A n \in Nodes : \A a, b \in ancestry[n] : a <= b => a \in ancestry[b]

GroupInv ==
    /\ group[Root] = 0
    /\ \A n \in Nodes \ {Root} : group[n] > 0
    /\ \A n \in Nodes : group[n] < next_group
    /\ \A n \in Nodes \ {Root} : group[n] = group[n - 1] => parent[n] = n - 1
    /\ \A c \in Nodes \ {Root} :
          group[c] = group[parent[c]] =>
             \A d \in Nodes \ {Root} : parent[d] = parent[c] => d = c

(* Only the newest node can be extended in place: a change may join the    *)
(* current group only when nothing was navigated since it was made.        *)
NewestInv == ~last_was_nav => current = count - 1

IInv ==
    /\ TypeOK
    /\ TreeShape
    /\ AncestryInv
    /\ GroupsAreChains
    /\ GroupInv
    /\ NewestInv
    /\ CurrentIsTip

----------------------------------------------------------------------------
(* An undo lands on a tip: were the landing node followed by a node of its *)
(* own group, that node would be its only child, hence on the way undone,  *)
(* and the walk would have stopped there.                                  *)
LEMMA UndoLandsOnTip ==
    ASSUME IInv, NEW t \in Nodes, UndoLandsOn(t)
    PROVE  t \in GroupTips
<1>1. SUFFICES ASSUME t + 1 \in Nodes, group[t + 1] = group[t] PROVE FALSE
  BY DEF GroupTips
<1>2. t \in ancestry[current] /\ (t = Root \/ group[t] # group[current])
  BY DEF UndoLandsOn, IsMax
<1>3. t # current
  BY <1>2 DEF UndoLandsOn
<1>4. PICK c \in ancestry[current] : c \in Nodes /\ c # Root /\ parent[c] = t
  BY <1>2, <1>3 DEF IInv, TypeOK, AncestryInv
<1>5. t + 1 \in Nodes \ {Root} /\ (t + 1) - 1 = t
  BY <1>1 DEF Nodes, Root, IInv, TypeOK
<1>6. parent[t + 1] = t
  BY <1>1, <1>5 DEF IInv, GroupInv
<1>7. c = t + 1
  BY <1>1, <1>4, <1>5, <1>6 DEF IInv, GroupInv
<1>8. t # Root
  BY <1>1, <1>5 DEF IInv, GroupInv, TypeOK, Nodes, Root
<1>9. group[c] # group[current]
  BY <1>1, <1>2, <1>7, <1>8
<1>10. c <= t
  BY <1>4, <1>9 DEF UndoLandsOn, IsMax
<1> QED
  BY <1>7, <1>10 DEF Nodes, IInv, TypeOK

(* A redo lands on a tip: were the landing node followed by a node of its  *)
(* own group, that node would be its only child, hence its redo target,    *)
(* and the walk would have gone on.                                        *)
LEMMA RedoLandsOnTip ==
    ASSUME IInv, NEW t \in Nodes, RedoLandsOn(t)
    PROVE  t \in GroupTips
<1>1. SUFFICES ASSUME t + 1 \in Nodes, group[t + 1] = group[t] PROVE FALSE
  BY DEF GroupTips
<1>2. /\ current \in ancestry[t]
      /\ t # current
      /\ \A m \in Down(t) : IsRedoTarget(parent[m], m)
      /\ \A m, k \in Down(t) : group[m] = group[k]
  BY DEF RedoLandsOn, IsMax, RedoWalk
<1>3. t + 1 \in Nodes \ {Root} /\ (t + 1) - 1 = t
  BY <1>1 DEF Nodes, Root, IInv, TypeOK
<1>4. parent[t + 1] = t
  BY <1>1, <1>3 DEF IInv, GroupInv
<1>5. ancestry[t + 1] = ancestry[t] \cup {t + 1}
  BY <1>3, <1>4 DEF IInv, AncestryInv
<1>6. t + 1 \notin ancestry[current] /\ t \notin ancestry[current]
  BY <1>2, <1>3 DEF IInv, AncestryInv, TypeOK, Nodes
<1>7. Down(t + 1) = Down(t) \cup {t + 1}
  BY <1>5, <1>6 DEF Down
<1>8. t \in Down(t)
  BY <1>6 DEF Down, IInv, AncestryInv
<1>9. \A m, k \in Down(t + 1) : group[m] = group[k]
  BY <1>1, <1>2, <1>7, <1>8
<1>10. redo_child[t] = t + 1
  <2>1. t + 1 \in Children(t)
    BY <1>3, <1>4 DEF Children
  <2>2. redo_child[t] # NoNode /\ parent[redo_child[t]] = t
    BY <2>1 DEF IInv, TreeShape
  <2>3. redo_child[t] \in Nodes \ {Root}
    BY <2>2 DEF IInv, TypeOK, TreeShape, NoNode, Nodes, Root
  <2> QED
    BY <1>1, <1>3, <1>4, <2>2, <2>3 DEF IInv, GroupInv
<1>11. IsRedoTarget(parent[t + 1], t + 1)
  BY <1>3, <1>4, <1>10 DEF IsRedoTarget, NoNode, Nodes
<1>12. t + 1 \in RedoWalk
  BY <1>2, <1>3, <1>5, <1>6, <1>7, <1>9, <1>11 DEF RedoWalk, IInv, AncestryInv
<1>13. t + 1 <= t
  BY <1>12 DEF RedoLandsOn, IsMax
<1> QED
  BY <1>13 DEF Nodes, IInv, TypeOK

----------------------------------------------------------------------------
(* Moving to a tip preserves the invariant: navigation changes no node,    *)
(* only the redo edges, and each one it writes leads to a child.           *)
LEMMA NavigationPreserves ==
    ASSUME IInv, NEW t \in Nodes, t \in GroupTips, NavigateTo(t)
    PROVE  IInv'
<1> USE DEF NavigateTo, tree
<1>1. Nodes' = Nodes
  BY DEF Nodes
<1>2. Down(t) \subseteq Nodes /\ Up(t) \subseteq Nodes
  BY DEF Down, Up, IInv, TypeOK
<1>3. \A p \in Nodes :
         \/ redo_child'[p] \in Nodes /\ parent[redo_child'[p]] = p
         \/ redo_child'[p] = redo_child[p]
  BY <1>2 DEF RedoChildAfter
<1>4. TypeOK'
  <2>1. redo_child' \in [Nodes -> Nodes \cup {NoNode}]
    BY <1>3 DEF RedoChildAfter, IInv, TypeOK
  <2> QED
    BY <1>1, <2>1 DEF IInv, TypeOK
<1>5. TreeShape'
  <2>1. \A n \in Nodes : redo_child'[n] # NoNode => parent[redo_child'[n]] = n
    BY <1>3 DEF IInv, TreeShape
  <2>2. \A n \in Nodes : Children(n)' = Children(n)
    BY <1>1 DEF Children
  <2>3. NoNode \notin Nodes
    BY DEF NoNode, Nodes
  <2>4. \A n \in Nodes : Children(n) # {} => redo_child'[n] # NoNode
    BY <1>3, <2>3 DEF IInv, TreeShape
  <2> QED
    BY <1>1, <2>1, <2>2, <2>4 DEF IInv, TreeShape
<1>6. AncestryInv' /\ GroupsAreChains' /\ GroupInv'
  BY <1>1 DEF IInv, AncestryInv, GroupsAreChains, GroupInv, Children
<1>7. NewestInv' /\ CurrentIsTip'
  BY <1>1 DEF NewestInv, CurrentIsTip, GroupTips
<1> QED
  BY <1>4, <1>5, <1>6, <1>7 DEF IInv

(* Recording a change preserves the invariant.  A change joins the current *)
(* group only when `current` is the newest node, so the group grows at its *)
(* end and at a node without children.                                     *)
LEMMA RecordPreserves ==
    ASSUME IInv, NEW o \in Origins, NEW h \in GroupHint, Record(o, h)
    PROVE  IInv'
<1> DEFINE g == IF Joins(o, h) THEN group[current] ELSE next_group
<1>0. count \in Nat \ {0} /\ current \in Nodes /\ count \notin Nodes /\ count # Root
  BY DEF IInv, TypeOK, Nodes, Root
<1>1. Nodes' = Nodes \cup {count} /\ Nodes' = 0 .. count
  BY <1>0 DEF Record, AddNode, Nodes
<1>2. /\ parent'[count] = current /\ group'[count] = g /\ origin'[count] = o
      /\ ancestry'[count] = ancestry[current] \cup {count}
      /\ redo_child'[count] = NoNode
  BY <1>1 DEF Record, AddNode
<1>3. \A n \in Nodes : /\ parent'[n] = parent[n] /\ group'[n] = group[n]
                       /\ origin'[n] = origin[n] /\ ancestry'[n] = ancestry[n]
                       /\ redo_child'[n] = IF n = current THEN count ELSE redo_child[n]
  BY <1>0, <1>1 DEF Record, AddNode
<1>4. g \in Nat /\ (g = next_group \/ (g = group[current] /\ Joins(o, h)))
  BY <1>0 DEF IInv, TypeOK
<1>5. Joins(o, h) => current = count - 1 /\ current # Root
  BY DEF Joins, Mergeable, IInv, NewestInv, TreeShape
<1>6. \A n \in Nodes : group[n] <= g
  BY <1>0, <1>4, <1>5 DEF IInv, TypeOK, GroupInv, GroupsAreChains, Nodes
<1>7. TypeOK'
  <2>1. count' \in 1 .. MaxNodes /\ current' \in Nodes'
    BY <1>0, <1>1, MaxNodesAssumption DEF Record, AddNode
  <2>2. parent' \in [Nodes' -> Nodes' \cup {NoNode}]
    BY <1>0, <1>1 DEF Record, AddNode, IInv, TypeOK
  <2>3. group' \in [Nodes' -> Nat]
    BY <1>0, <1>1, <1>4 DEF Record, AddNode, IInv, TypeOK
  <2>4. origin' \in [Nodes' -> Origins \cup {NoOrigin}]
    BY <1>0, <1>1 DEF Record, AddNode, IInv, TypeOK
  <2>5. ancestry' \in [Nodes' -> SUBSET Nodes']
    BY <1>0, <1>1 DEF Record, AddNode, IInv, TypeOK
  <2>6. redo_child' \in [Nodes' -> Nodes' \cup {NoNode}]
    BY <1>0, <1>1 DEF Record, AddNode, IInv, TypeOK
  <2>7. next_group' \in Nat \ {0}
    BY DEF Record, AddNode, IInv, TypeOK
  <2>8. last_was_nav' \in BOOLEAN /\ synced' \in BOOLEAN
    BY DEF Record, AddNode
  <2> QED
    BY <2>1, <2>2, <2>3, <2>4, <2>5, <2>6, <2>7, <2>8 DEF TypeOK
<1>8. TreeShape'
  <2>1. parent'[Root] = NoNode
    BY <1>0, <1>3 DEF IInv, TreeShape, Nodes, Root
  <2>2. \A n \in Nodes' \ {Root} : parent'[n] \in 0 .. n - 1
    BY <1>0, <1>1, <1>2, <1>3 DEF IInv, TreeShape, Nodes
  <2>3. \A n \in Nodes' : redo_child'[n] # NoNode => parent'[redo_child'[n]] = n
    <3> SUFFICES ASSUME NEW n \in Nodes', redo_child'[n] # NoNode
                 PROVE  parent'[redo_child'[n]] = n
      OBVIOUS
    <3>1. CASE n = current
      BY <1>0, <1>2, <1>3, <3>1
    <3>2. CASE n # current
      <4>1. n \in Nodes /\ redo_child'[n] = redo_child[n] /\ redo_child[n] \in Nodes
        BY <1>1, <1>2, <1>3, <3>2 DEF IInv, TypeOK
      <4> QED
        BY <1>3, <4>1 DEF IInv, TreeShape
    <3> QED
      BY <3>1, <3>2
  <2>4. \A n \in Nodes' : Children(n)' # {} => redo_child'[n] # NoNode
    <3> SUFFICES ASSUME NEW n \in Nodes', NEW c \in Nodes', parent'[c] = n
                 PROVE  redo_child'[n] # NoNode
      BY DEF Children
    <3>1. CASE n = current
      BY <1>0, <1>3, <3>1 DEF NoNode
    <3>2. CASE n # current
      <4>1. c \in Nodes /\ parent[c] = n
        BY <1>1, <1>2, <1>3, <3>2
      <4>2. n \in Nodes
        BY <1>0, <1>1, <4>1 DEF IInv, TypeOK, NoNode
      <4> QED
        BY <1>3, <3>2, <4>1, <4>2 DEF IInv, TreeShape, Children
    <3> QED
      BY <3>1, <3>2
  <2> QED
    BY <2>1, <2>2, <2>3, <2>4 DEF TreeShape
<1>9. AncestryInv'
  <2>1. \A n \in Nodes' : n \in ancestry'[n] /\ Root \in ancestry'[n]
    BY <1>0, <1>1, <1>2, <1>3 DEF IInv, AncestryInv
  <2>2. \A n \in Nodes' : \A a \in ancestry'[n] : a <= n
    <3>1. \A a \in ancestry[current] \cup {count} : a <= count
      BY <1>0 DEF IInv, TypeOK, AncestryInv, Nodes
    <3> QED
      BY <1>1, <1>2, <1>3, <3>1 DEF IInv, AncestryInv
  <2>3. \A n \in Nodes' \ {Root} : ancestry'[n] = ancestry'[parent'[n]] \cup {n}
    <3>1. \A n \in Nodes \ {Root} : parent[n] \in Nodes
      BY DEF IInv, TypeOK, TreeShape, NoNode
    <3>2. ancestry'[count] = ancestry'[parent'[count]] \cup {count}
      BY <1>0, <1>2, <1>3
    <3> QED
      BY <1>1, <1>3, <3>1, <3>2 DEF IInv, AncestryInv
  <2>4. \A n \in Nodes' : \A a \in ancestry'[n] \ {n} :
           \E c \in ancestry'[n] : c \in Nodes' /\ c # Root /\ parent'[c] = a
    <3> SUFFICES ASSUME NEW n \in Nodes', NEW a \in ancestry'[n] \ {n}
                 PROVE \E c \in ancestry'[n] : c \in Nodes' /\ c # Root /\ parent'[c] = a
      OBVIOUS
    <3>1. CASE n # count
      BY <1>1, <1>3, <3>1 DEF IInv, AncestryInv
    <3>2. CASE n = count /\ a = current
      BY <1>0, <1>1, <1>2, <3>2
    <3>3. CASE n = count /\ a # current
      <4>1. a \in ancestry[current] \ {current}
        BY <1>2, <3>3
      <4>2. PICK c \in ancestry[current] : c \in Nodes /\ c # Root /\ parent[c] = a
        BY <1>0, <4>1 DEF IInv, AncestryInv
      <4> QED
        BY <1>1, <1>2, <1>3, <3>3, <4>2
    <3> QED
      BY <3>1, <3>2, <3>3
  <2>5. \A n \in Nodes' : \A a \in ancestry'[n] : ancestry'[a] \subseteq ancestry'[n]
    <3> SUFFICES ASSUME NEW n \in Nodes', NEW a \in ancestry'[n]
                 PROVE  ancestry'[a] \subseteq ancestry'[n]
      OBVIOUS
    <3>1. CASE n # count
      BY <1>1, <1>3, <3>1 DEF IInv, TypeOK, AncestryInv
    <3>2. CASE n = count /\ a = count
      BY <3>2
    <3>3. CASE n = count /\ a # count
      <4>1. a \in ancestry[current] /\ a \in Nodes
        BY <1>0, <1>2, <3>3 DEF IInv, TypeOK
      <4> QED
        BY <1>0, <1>2, <1>3, <3>3, <4>1 DEF IInv, AncestryInv
    <3> QED
      BY <3>1, <3>2, <3>3
  <2>6. \A n \in Nodes' : \A a, b \in ancestry'[n] : a <= b => a \in ancestry'[b]
    <3> SUFFICES ASSUME NEW n \in Nodes', NEW a \in ancestry'[n], NEW b \in ancestry'[n],
                        a <= b
                 PROVE  a \in ancestry'[b]
      OBVIOUS
    <3>1. CASE n # count
      <4>1. n \in Nodes /\ ancestry'[n] = ancestry[n] /\ b \in Nodes
        BY <1>1, <1>3, <3>1 DEF IInv, TypeOK
      <4> QED
        BY <1>3, <4>1 DEF IInv, AncestryInv
    <3>2. CASE n = count /\ b = count
      BY <3>2
    <3>3. CASE n = count /\ b # count
      <4>1. b \in ancestry[current] /\ b \in Nodes
        BY <1>0, <1>2, <3>3 DEF IInv, TypeOK
      <4>2. a \in ancestry[current]
        BY <1>0, <1>2, <3>3, <4>1 DEF Nodes
      <4> QED
        BY <1>0, <1>3, <4>1, <4>2 DEF IInv, AncestryInv
    <3> QED
      BY <3>1, <3>2, <3>3
  <2> QED
    BY <2>1, <2>2, <2>3, <2>4, <2>5, <2>6 DEF AncestryInv
<1>10. \A n \in Nodes : Children(n)' = IF n = current THEN Children(n) \cup {count} ELSE Children(n)
  BY <1>0, <1>1, <1>2, <1>3 DEF Children
<1>11. GroupsAreChains'
  <2>1. \A m, n \in Nodes' : m <= n => group'[m] <= group'[n]
    BY <1>0, <1>1, <1>2, <1>3, <1>4, <1>6 DEF IInv, TypeOK, GroupsAreChains, Nodes
  <2>2. ASSUME NEW n \in Nodes' \ {Root}, group'[n] = group'[n - 1]
        PROVE  Children(n - 1)' = {n}
    <3>1. n - 1 \in Nodes
      BY <1>0, <1>1 DEF Nodes, Root
    <3>2. CASE n # count
      <4>1. group[n] = group[n - 1] /\ n \in Nodes \ {Root}
        BY <1>1, <1>3, <2>2, <3>1, <3>2
      <4>2. n - 1 # current
        BY <1>0, <4>1 DEF IInv, CurrentIsTip, GroupTips, Nodes
      <4> QED
        BY <1>10, <3>1, <4>1, <4>2 DEF IInv, GroupsAreChains
    <3>3. CASE n = count
      <4>1. g # next_group
        BY <1>2, <1>3, <2>2, <3>1, <3>3 DEF IInv, TypeOK, GroupInv
      <4>2. current = n - 1
        BY <1>4, <1>5, <3>3, <4>1
      <4>3. Children(current) = {}
        BY <1>0, <3>3, <4>2 DEF Children, IInv, TreeShape, Nodes, Root, NoNode
      <4> QED
        BY <1>10, <3>1, <3>3, <4>2, <4>3
    <3> QED
      BY <3>2, <3>3
  <2> QED
    BY <2>1, <2>2 DEF GroupsAreChains
<1>12. GroupInv'
  <2>1. group'[Root] = 0 /\ \A n \in Nodes' \ {Root} : group'[n] > 0
    <3>1. Root \in Nodes
      BY <1>0 DEF Nodes, Root
    <3>2. g > 0
      BY <1>0, <1>4, <1>5 DEF IInv, TypeOK, GroupInv
    <3> QED
      BY <1>0, <1>1, <1>2, <1>3, <3>1, <3>2 DEF IInv, GroupInv
  <2>2. \A n \in Nodes' : group'[n] < next_group'
    BY <1>0, <1>1, <1>2, <1>3, <1>4 DEF IInv, TypeOK, GroupInv, Record, AddNode
  <2>3. ASSUME NEW n \in Nodes' \ {Root}, group'[n] = group'[n - 1]
        PROVE  parent'[n] = n - 1
    <3>1. n - 1 \in Nodes' /\ Children(n - 1)' = {n}
      BY <1>0, <1>1, <1>11, <2>3 DEF GroupsAreChains, Nodes, Root
    <3> QED
      BY <3>1 DEF Children
  <2>4. ASSUME NEW c \in Nodes' \ {Root}, group'[c] = group'[parent'[c]],
               NEW d \in Nodes' \ {Root}, parent'[d] = parent'[c]
        PROVE  d = c
    <3>1. parent'[c] \in 0 .. c - 1
      BY <1>8, <2>4 DEF TreeShape
    <3>2. group'[c] = group'[c - 1]
      <4>1. /\ c \in Nat /\ c - 1 \in Nodes' /\ parent'[c] \in Nodes'
            /\ parent'[c] <= c - 1 /\ c - 1 <= c
        BY <1>0, <1>1, <2>4, <3>1 DEF Root
      <4>2. group'[parent'[c]] <= group'[c - 1] /\ group'[c - 1] <= group'[c]
        BY <1>11, <2>4, <4>1 DEF GroupsAreChains
      <4>3. group'[c] \in Nat /\ group'[c - 1] \in Nat
        BY <1>7, <2>4, <4>1 DEF TypeOK
      <4> QED
        BY <2>4, <4>2, <4>3
    <3>3. c - 1 = parent'[c] /\ Children(c - 1)' = {c}
      BY <1>11, <2>3, <2>4, <3>2 DEF GroupsAreChains
    <3> QED
      BY <2>4, <3>3 DEF Children
  <2> QED
    BY <2>1, <2>2, <2>3, <2>4 DEF GroupInv
<1>13. NewestInv' /\ CurrentIsTip'
  BY <1>0, <1>1 DEF Record, AddNode, NewestInv, CurrentIsTip, GroupTips, Nodes
<1> QED
  BY <1>7, <1>8, <1>9, <1>11, <1>12, <1>13 DEF IInv

(* A redo goes down existing redo edges and writes none.                   *)
LEMMA RedoPreserves ==
    ASSUME IInv, Redo
    PROVE  IInv'
<1>1. PICK t \in Nodes : /\ RedoLandsOn(t)
                         /\ current' = t
                         /\ last_was_nav' = TRUE
                         /\ UNCHANGED <<tree, redo_child, synced>>
  BY DEF Redo
<1>2. t \in GroupTips
  BY <1>1, RedoLandsOnTip
<1>3. Nodes' = Nodes
  BY <1>1 DEF Nodes, tree
<1>4. TypeOK'
  BY <1>1, <1>3 DEF IInv, TypeOK, tree
<1>5. TreeShape' /\ AncestryInv' /\ GroupsAreChains' /\ GroupInv'
  BY <1>1, <1>3 DEF IInv, tree, TreeShape, AncestryInv, GroupsAreChains, GroupInv, Children
<1>6. NewestInv' /\ CurrentIsTip'
  BY <1>1, <1>2, <1>3 DEF NewestInv, CurrentIsTip, GroupTips, tree
<1> QED
  BY <1>4, <1>5, <1>6 DEF IInv

(* A sync changes nothing the invariant speaks of.                         *)
LEMMA SyncPreserves ==
    ASSUME IInv, Sync \/ UNCHANGED vars
    PROVE  IInv'
<1>1. UNCHANGED <<tree, redo_child, current, last_was_nav>> /\ synced' \in BOOLEAN
  BY DEF Sync, vars, IInv, TypeOK
<1>2. Nodes' = Nodes
  BY <1>1 DEF Nodes, tree
<1>3. TypeOK'
  BY <1>1, <1>2 DEF IInv, TypeOK, tree
<1>4. TreeShape' /\ AncestryInv' /\ GroupsAreChains' /\ GroupInv' /\ NewestInv' /\ CurrentIsTip'
  BY <1>1, <1>2 DEF IInv, tree, TreeShape, AncestryInv, GroupsAreChains, GroupInv,
                    NewestInv, CurrentIsTip, GroupTips, Children
<1> QED
  BY <1>3, <1>4 DEF IInv

----------------------------------------------------------------------------
(* The inductive invariant holds in every state of every history.          *)
THEOREM Inductive == Spec => []IInv
<1>1. Init => IInv
  <2> SUFFICES ASSUME Init PROVE IInv
    OBVIOUS
  <2>1. Nodes = {Root}
    BY DEF Init, Nodes, Root
  <2>2. TypeOK
    <3>1. count \in 1 .. MaxNodes /\ current \in Nodes /\ next_group \in Nat \ {0}
      BY <2>1, MaxNodesAssumption DEF Init
    <3>2. /\ parent \in [Nodes -> Nodes \cup {NoNode}]
          /\ redo_child \in [Nodes -> Nodes \cup {NoNode}]
          /\ group \in [Nodes -> Nat]
      BY <2>1 DEF Init
    <3>3. /\ origin \in [Nodes -> Origins \cup {NoOrigin}]
          /\ ancestry \in [Nodes -> SUBSET Nodes]
      BY <2>1 DEF Init
    <3>4. last_was_nav \in BOOLEAN /\ synced \in BOOLEAN
      BY DEF Init
    <3> QED
      BY <3>1, <3>2, <3>3, <3>4 DEF TypeOK
  <2>3. TreeShape
    BY <2>1 DEF Init, TreeShape, Children, NoNode, Root
  <2>4. AncestryInv /\ GroupsAreChains /\ GroupInv
    BY <2>1 DEF Init, AncestryInv, GroupsAreChains, GroupInv, Root
  <2>5. NewestInv /\ CurrentIsTip
    BY <2>1 DEF Init, NewestInv, CurrentIsTip, GroupTips, Root
  <2> QED
    BY <2>2, <2>3, <2>4, <2>5 DEF IInv
<1>2. IInv /\ [Next]_vars => IInv'
  <2> SUFFICES ASSUME IInv, [Next]_vars PROVE IInv'
    OBVIOUS
  <2>1. ASSUME NEW o \in Origins, NEW h \in GroupHint, Record(o, h) PROVE IInv'
    BY <2>1, RecordPreserves
  <2>2. CASE Sync \/ UNCHANGED vars
    BY <2>2, SyncPreserves
  <2>3. CASE Undo
    <3>1. PICK t \in Nodes : UndoLandsOn(t) /\ NavigateTo(t)
      BY <2>3 DEF Undo
    <3> QED
      BY <3>1, UndoLandsOnTip, NavigationPreserves
  <2>4. CASE Redo
    BY <2>4, RedoPreserves
  <2>5. ASSUME NEW older \in BOOLEAN, ToChronological(older) PROVE IInv'
    <3>1. PICK t \in Nodes : ChronologicalTarget(older, t) /\ NavigateTo(t)
      BY <2>5 DEF ToChronological
    <3>2. t \in GroupTips
      BY <3>1 DEF ChronologicalTarget, IsMax, IsMin
    <3> QED
      BY <3>1, <3>2, NavigationPreserves
  <2> QED
    BY <2>1, <2>2, <2>3, <2>4, <2>5 DEF Next
<1> QED
  BY <1>1, <1>2, PTL DEF Spec

(* The history is well typed (undo.rs, the fields of UndoHistory).         *)
THEOREM TypeCorrect == Spec => []TypeOK
<1>1. IInv => TypeOK
  BY DEF IInv
<1> QED
  BY <1>1, Inductive, PTL

(* The tree keeps the shape assert_invariants checks.                      *)
THEOREM TreeShapeHolds == Spec => []TreeShape
<1>1. IInv => TreeShape
  BY DEF IInv
<1> QED
  BY <1>1, Inductive, PTL

(* Undo groups are unbranched chains of consecutive nodes: the premise of  *)
(* group_tips.                                                             *)
THEOREM GroupsStayChains == Spec => []GroupsAreChains
<1>1. IInv => GroupsAreChains
  BY DEF IInv
<1> QED
  BY <1>1, Inductive, PTL

(* g- and g+ always find `current` among the group tips.                   *)
THEOREM CurrentStaysTip == Spec => []CurrentIsTip
<1>1. IInv => CurrentIsTip
  BY DEF IInv
<1> QED
  BY <1>1, Inductive, PTL

----------------------------------------------------------------------------
(* Two nodes of one group have only nodes of that group between them, so   *)
(* the older of the two is not the group's tip.                            *)
LEMMA TipEndsGroup ==
    ASSUME IInv, NEW m \in Nodes, NEW n \in Nodes, m < n, group[m] = group[n]
    PROVE  m \notin GroupTips
<1>1. m + 1 \in Nodes /\ m <= m + 1 /\ m + 1 <= n
  BY DEF Nodes, IInv, TypeOK
<1>2. group[m] <= group[m + 1] /\ group[m + 1] <= group[n]
  BY <1>1 DEF IInv, GroupsAreChains
<1>3. group[m] \in Nat /\ group[m + 1] \in Nat
  BY <1>1 DEF IInv, TypeOK
<1> QED
  BY <1>1, <1>2, <1>3 DEF GroupTips

(* Between a node and an ancestor of it lie just the younger ancestors.    *)
LEMMA BelowAncestor ==
    ASSUME IInv, NEW n \in Nodes, NEW a \in ancestry[n]
    PROVE  /\ ancestry[a] \ ancestry[n] = {}
           /\ ancestry[n] \ ancestry[a] = {m \in ancestry[n] : m > a}
<1>1. a \in Nodes /\ ancestry[a] \subseteq ancestry[n] /\ ancestry[n] \subseteq Nodes
  BY DEF IInv, TypeOK, AncestryInv
<1>2. \A m \in ancestry[n] : m <= a <=> m \in ancestry[a]
  BY <1>1 DEF IInv, AncestryInv
<1> QED
  BY <1>1, <1>2 DEF Nodes

(* A node has one child among the ancestors of another.                    *)
LEMMA OneChildOnPath ==
    ASSUME IInv, NEW n \in Nodes, NEW c \in ancestry[n], NEW d \in ancestry[n],
           c # Root, d # Root, parent[c] = parent[d]
    PROVE  c = d
<1>1. c \in Nodes \ {Root} /\ d \in Nodes \ {Root}
  BY DEF IInv, TypeOK
<1>2. parent[c] \in Nodes /\ parent[c] < c /\ parent[d] < d
  <2>1. parent[c] \in 0 .. c - 1 /\ parent[d] \in 0 .. d - 1
    BY <1>1 DEF IInv, TreeShape
  <2> QED
    BY <1>1, <2>1 DEF IInv, TypeOK, Nodes, Root
<1>3. ancestry[c] = ancestry[parent[c]] \cup {c} /\ ancestry[d] = ancestry[parent[d]] \cup {d}
  BY <1>1 DEF IInv, AncestryInv
<1>4. \A a \in ancestry[parent[c]] : a <= parent[c]
  BY <1>2 DEF IInv, AncestryInv
<1>5. CASE c < d
  <2>1. c \in ancestry[d]
    BY <1>1, <1>5 DEF IInv, AncestryInv, Nodes
  <2> QED
    BY <1>1, <1>2, <1>3, <1>4, <1>5, <2>1 DEF Nodes
<1>6. CASE d < c
  <2>1. d \in ancestry[c]
    BY <1>1, <1>6 DEF IInv, AncestryInv, Nodes
  <2> QED
    BY <1>1, <1>2, <1>3, <1>4, <1>6, <2>1 DEF Nodes
<1> QED
  BY <1>1, <1>5, <1>6 DEF Nodes

(* CTRL-R undoes `u`: every edge the undo crossed became the redo edge of  *)
(* its parent, the nodes crossed are of one group, and that group ends     *)
(* where the undo began.                                                   *)
LEMMA RedoAfterUndo ==
    ASSUME IInv, NEW t \in Nodes, UndoLandsOn(t), NavigateTo(t), NEW n \in Nodes, n = current
    PROVE  RedoLandsOn(n)'
<1> USE DEF NavigateTo, tree
<1>1. Nodes' = Nodes /\ n \in Nodes /\ ancestry[n] \subseteq Nodes
  BY DEF Nodes, IInv, TypeOK
<1>2. t \in ancestry[n] /\ t # n /\ t \in Nodes /\ n # Root
  BY DEF UndoLandsOn, IsMax
<1>3. Up(t) = {m \in ancestry[n] : m > t} /\ Down(t) = {}
  BY <1>1, <1>2, BelowAncestor DEF Up, Down
<1>4. \A m \in Up(t) : m \in Nodes \ {Root} /\ group[m] = group[n]
  BY <1>1, <1>2, <1>3 DEF UndoLandsOn, IsMax, Nodes, Root
<1>5. \A m \in Up(t) : parent[m] \in Nodes /\ redo_child'[parent[m]] = m
  <2> SUFFICES ASSUME NEW m \in Up(t)
               PROVE  parent[m] \in Nodes /\ redo_child'[parent[m]] = m
    OBVIOUS
  <2>1. parent[m] \in Nodes
    BY <1>4 DEF IInv, TreeShape, TypeOK, Nodes, NoNode
  <2>2. \A x \in Up(t) : parent[x] = parent[m] => x = m
    BY <1>1, <1>3, <1>4, OneChildOnPath
  <2>3. redo_child'[parent[m]] = CHOOSE x \in Up(t) : parent[x] = parent[m]
    BY <1>3, <2>1 DEF RedoChildAfter
  <2> QED
    BY <2>1, <2>2, <2>3
<1>6. \A m \in Up(t) : IsRedoTarget(parent[m], m)'
  BY <1>1, <1>4, <1>5 DEF IsRedoTarget, NoNode, Nodes
<1>7. \A d \in Nodes : Down(d)' = ancestry[d] \ ancestry[t]
  BY DEF Down
<1>8. n \in RedoWalk'
  <2>1. Down(n)' = Up(t)
    BY <1>1, <1>7 DEF Up
  <2>2. \A m \in Down(n)' : IsRedoTarget(parent[m], m)'
    BY <1>6, <2>1
  <2>3. \A m, k \in Down(n)' : group'[m] = group'[k]
    BY <1>4, <2>1
  <2> QED
    BY <1>1, <1>2, <2>2, <2>3 DEF RedoWalk
<1>9. ASSUME NEW d \in RedoWalk' PROVE d <= n
  <2>1. /\ d \in Nodes /\ t \in ancestry[d] /\ d # t
        /\ \A m \in Down(d)' : IsRedoTarget(parent[m], m)'
        /\ \A m, k \in Down(d)' : group[m] = group[k]
    BY <1>1, <1>9 DEF RedoWalk
  <2>2. Down(d)' = {m \in ancestry[d] : m > t}
    BY <1>7, <2>1, BelowAncestor
  <2>3. PICK m \in ancestry[d] : m \in Nodes /\ m # Root /\ parent[m] = t
    BY <2>1 DEF IInv, AncestryInv
  <2>4. PICK k \in ancestry[n] : k \in Nodes /\ k # Root /\ parent[k] = t
    BY <1>1, <1>2 DEF IInv, AncestryInv
  <2>5. m > t /\ k > t
    BY <2>3, <2>4 DEF IInv, TypeOK, TreeShape, Nodes
  <2>6. m \in Down(d)' /\ k \in Up(t)
    BY <1>3, <2>2, <2>3, <2>4, <2>5
  <2>7. redo_child'[t] = k /\ k # NoNode
    BY <1>5, <2>4, <2>6 DEF NoNode, Nodes
  <2>8. m = k
    BY <2>1, <2>3, <2>6, <2>7 DEF IsRedoTarget
  <2>9. d \in Down(d)'
    BY <1>2, <2>1, <2>2 DEF IInv, TypeOK, AncestryInv, Nodes
  <2>10. group[d] = group[n]
    BY <1>4, <2>1, <2>6, <2>8, <2>9
  <2>11. n \in GroupTips
    BY DEF IInv, CurrentIsTip
  <2> QED
    BY <1>1, <2>1, <2>10, <2>11, TipEndsGroup DEF Nodes
<1>10. IsMax(n, RedoWalk')
  BY <1>8, <1>9 DEF IsMax
<1> QED
  BY <1>10 DEF RedoLandsOn, IsMax

(* `u` undoes CTRL-R: `current` was the tip of another group, and below it *)
(* the redo entered nodes of one group only.                               *)
LEMMA UndoAfterRedo ==
    ASSUME IInv, Redo, NEW n \in Nodes, n = current
    PROVE  UndoLandsOn(n)'
<1>1. PICK t \in Nodes : RedoLandsOn(t) /\ current' = t /\ UNCHANGED tree
  BY DEF Redo
<1>2. /\ n \in ancestry[t] /\ t # n /\ ancestry[t] \subseteq Nodes
      /\ \A m, k \in Down(t) : group[m] = group[k]
  BY <1>1 DEF RedoLandsOn, IsMax, RedoWalk, IInv, TypeOK
<1>3. Down(t) = {m \in ancestry[t] : m > n}
  BY <1>1, <1>2, BelowAncestor DEF Down
<1>4. n < t /\ t \in Down(t) /\ t # Root
  BY <1>1, <1>2, <1>3 DEF IInv, TypeOK, AncestryInv, Nodes, Root
<1>5. group[n] # group[t]
  BY <1>1, <1>4, TipEndsGroup DEF IInv, CurrentIsTip
<1>6. \A a \in ancestry[t] : a = Root \/ group[a] # group[t] => a <= n
  BY <1>2, <1>3, <1>4 DEF Nodes, Root
<1>7. IsMax(n, {a \in ancestry[t] : a = Root \/ group[a] # group[t]})
  BY <1>2, <1>5, <1>6 DEF IsMax
<1> QED
  BY <1>1, <1>4, <1>7 DEF UndoLandsOn, IsMax, tree

(* `u` and CTRL-R undo each other, in every history.                       *)
THEOREM UndoAndRedoAreInverse == Spec => UndoRedoInverse
<1> DEFINE A == \A n \in Nodes : n = current =>
                   /\ Undo => RedoLandsOn(n)'
                   /\ Redo => UndoLandsOn(n)'
<1>1. IInv => A
  <2> SUFFICES ASSUME IInv, NEW n \in Nodes, n = current
               PROVE  (Undo => RedoLandsOn(n)') /\ (Redo => UndoLandsOn(n)')
    OBVIOUS
  <2>1. ASSUME Undo PROVE RedoLandsOn(n)'
    <3>1. PICK t \in Nodes : UndoLandsOn(t) /\ NavigateTo(t)
      BY <2>1 DEF Undo
    <3> QED
      BY <3>1, RedoAfterUndo
  <2>2. ASSUME Redo PROVE UndoLandsOn(n)'
    BY <2>2, UndoAfterRedo
  <2> QED
    BY <2>1, <2>2
<1>2. []IInv => [][A]_vars
  BY <1>1, PTL
<1> QED
  BY <1>2, Inductive DEF UndoRedoInverse

(* g- and g+ undo each other, in every history.                            *)
THEOREM ChronologicalStepsAreInverse == Spec => ChronologicalInverse
<1> DEFINE A == \A n \in Nodes, older \in BOOLEAN :
                   n = current /\ ToChronological(older) => ChronologicalTarget(~older, n)'
<1>1. IInv => A
  <2> SUFFICES ASSUME IInv, NEW n \in Nodes, NEW older \in BOOLEAN, n = current,
                      ToChronological(older)
               PROVE  ChronologicalTarget(~older, n)'
    OBVIOUS
  <2>1. PICK t \in Nodes : ChronologicalTarget(older, t) /\ NavigateTo(t)
    BY DEF ToChronological
  <2>2. Nodes' = Nodes /\ GroupTips' = GroupTips
    BY <2>1 DEF NavigateTo, tree, Nodes, GroupTips
  <2>3. n \in GroupTips /\ t \in GroupTips /\ current' = t
    BY <2>1 DEF ChronologicalTarget, IsMax, IsMin, NavigateTo
  <2>4. CASE older
    <3>1. IsMin(n, {m \in GroupTips : m > t})
      BY <2>1, <2>3, <2>4 DEF ChronologicalTarget, IsMax, IsMin, GroupTips, Nodes
    <3> QED
      BY <2>2, <2>3, <2>4, <3>1 DEF ChronologicalTarget, IsMin
  <2>5. CASE ~older
    <3>1. IsMax(n, {m \in GroupTips : m < t})
      BY <2>1, <2>3, <2>5 DEF ChronologicalTarget, IsMax, IsMin, GroupTips, Nodes
    <3> QED
      BY <2>2, <2>3, <2>5, <3>1 DEF ChronologicalTarget, IsMax
  <2> QED
    BY <2>4, <2>5
<1>2. []IInv => [][A]_vars
  BY <1>1, PTL
<1> QED
  BY <1>2, Inductive DEF ChronologicalInverse

-----------------------------------------------------------------------------
(* The workspace: buffers, views and windows.                              *)

DocRec == [live : BOOLEAN, len : 0 .. MaxLen, modified : BOOLEAN]
ViewRec == [doc : 0 .. MaxDocs, cursor : 0 .. MaxLen]
DocId == 1 .. MaxDocs
ViewId == 1 .. MaxViews

(* A view is retired, or shows a position in the text of a live buffer.    *)
ViewOK(v) ==
    \/ v = RetiredView
    \/ /\ v.doc \in DOMAIN docs /\ docs[v.doc].live
       /\ v.cursor <= docs[v.doc].len

ViewsInv == \A v \in DOMAIN views : ViewOK(views[v])

WindowsInv ==
    /\ focus \in DOMAIN windows
    /\ \A w \in DOMAIN windows :
          windows[w] \in DOMAIN views /\ views[windows[w]] # RetiredView
    /\ \A w, x \in DOMAIN windows : windows[w] = windows[x] => w = x

OrderInv ==
    /\ \A i, j \in DOMAIN order : order[i] = order[j] => i = j
    /\ \A i \in DOMAIN order : order[i] \in DOMAIN docs /\ docs[order[i]].live
    /\ \A d \in DOMAIN docs : docs[d].live => \E i \in DOMAIN order : order[i] = d

WorkspaceIInv ==
    /\ WorkspaceTypeOK
    /\ ViewsInv
    /\ WindowsInv
    /\ OrderInv
    /\ QuitDropsNothingUnseen

----------------------------------------------------------------------------
(* Sequences.                                                              *)
LEMMA SeqFacts ==
    ASSUME NEW S, NEW s \in Seq(S)
    PROVE  /\ Len(s) \in Nat /\ DOMAIN s = 1 .. Len(s)
           /\ \A i \in DOMAIN s : s[i] \in S
           /\ s \in [1 .. Len(s) -> S]
OBVIOUS

LEMMA FunctionIsSeq ==
    ASSUME NEW S, NEW n \in Nat, NEW f \in [1 .. n -> S]
    PROVE  f \in Seq(S) /\ Len(f) = n /\ DOMAIN f = 1 .. n
OBVIOUS

LEMMA AppendFacts ==
    ASSUME NEW S, NEW s \in Seq(S), NEW e \in S
    PROVE  /\ Append(s, e) \in Seq(S) /\ Len(Append(s, e)) = Len(s) + 1
           /\ DOMAIN Append(s, e) = DOMAIN s \cup {Len(s) + 1}
           /\ \A i \in DOMAIN s : Append(s, e)[i] = s[i]
           /\ Append(s, e)[Len(s) + 1] = e
           /\ Len(s) + 1 \notin DOMAIN s
OBVIOUS

LEMMA ConcatFacts ==
    ASSUME NEW S, NEW s \in Seq(S), NEW t \in Seq(S)
    PROVE  /\ s \o t \in Seq(S) /\ Len(s \o t) = Len(s) + Len(t)
           /\ \A i \in 1 .. Len(s) + Len(t) :
                 (s \o t)[i] = IF i <= Len(s) THEN s[i] ELSE t[i - Len(s)]
OBVIOUS

LEMMA SubSeqFacts ==
    ASSUME NEW S, NEW s \in Seq(S), NEW i \in 1 .. Len(s) + 1, NEW j \in 0 .. Len(s),
           i <= j + 1
    PROVE  /\ SubSeq(s, i, j) \in Seq(S) /\ Len(SubSeq(s, i, j)) = j - i + 1
           /\ \A k \in 1 .. j - i + 1 : SubSeq(s, i, j)[k] = s[i + k - 1]
OBVIOUS

LEMMA InsertAtFacts ==
    ASSUME NEW S, NEW s \in Seq(S), NEW e \in S, NEW i \in 1 .. Len(s) + 1
    PROVE  /\ InsertAt(s, i, e) \in Seq(S) /\ Len(InsertAt(s, i, e)) = Len(s) + 1
           /\ \A k \in 1 .. Len(s) + 1 :
                 InsertAt(s, i, e)[k] = IF k < i THEN s[k] ELSE IF k = i THEN e ELSE s[k - 1]
<1> DEFINE a == SubSeq(s, 1, i - 1)
           b == SubSeq(s, i, Len(s))
           c == <<e>>
<1>1. /\ a \in Seq(S) /\ Len(a) = i - 1
      /\ \A k \in 1 .. i - 1 : a[k] = s[k]
  BY SubSeqFacts
<1>2. /\ b \in Seq(S) /\ Len(b) = Len(s) - i + 1
      /\ \A k \in 1 .. Len(s) - i + 1 : b[k] = s[i + k - 1]
  BY SubSeqFacts
<1>3. c \in Seq(S) /\ Len(c) = 1 /\ c[1] = e
  OBVIOUS
<1>4. InsertAt(s, i, e) = (a \o c) \o b
  BY DEF InsertAt
<1> HIDE DEF a, b, c
<1> DEFINE ac == a \o c
<1>5. /\ ac \in Seq(S) /\ Len(ac) = i
      /\ \A k \in 1 .. i : ac[k] = IF k < i THEN s[k] ELSE e
  <2>1. /\ ac \in Seq(S) /\ Len(ac) = Len(a) + Len(c)
        /\ \A k \in 1 .. Len(a) + Len(c) : ac[k] = IF k <= Len(a) THEN a[k] ELSE c[k - Len(a)]
    BY <1>1, <1>3, ConcatFacts
  <2> HIDE DEF ac
  <2>2. ASSUME NEW k \in 1 .. i
        PROVE  ac[k] = IF k < i THEN s[k] ELSE e
    <3>1. CASE k < i
      BY <1>1, <1>3, <2>1, <3>1
    <3>2. CASE k = i
      <4>1. k - Len(a) = 1 /\ ~(k <= Len(a))
        BY <1>1, <3>2
      <4> QED
        BY <1>1, <1>3, <2>1, <3>2, <4>1
    <3> QED
      BY <3>1, <3>2
  <2> QED
    BY <1>1, <1>3, <2>1, <2>2
<1> HIDE DEF ac
<1> DEFINE r == ac \o b
<1>6. /\ r \in Seq(S) /\ Len(r) = Len(ac) + Len(b)
      /\ \A k \in 1 .. Len(ac) + Len(b) : r[k] = IF k <= Len(ac) THEN ac[k] ELSE b[k - Len(ac)]
  BY <1>2, <1>5, ConcatFacts
<1>7. InsertAt(s, i, e) = r
  BY <1>4 DEF ac
<1> HIDE DEF r
<1>8. Len(s) \in Nat /\ Len(r) = Len(s) + 1
  BY <1>2, <1>5, <1>6
<1>9. ASSUME NEW k \in 1 .. Len(s) + 1
      PROVE  r[k] = IF k < i THEN s[k] ELSE IF k = i THEN e ELSE s[k - 1]
  <2>1. CASE k <= i
    BY <1>2, <1>5, <1>6, <2>1
  <2>2. CASE k > i
    <3>1. k - i \in 1 .. Len(s) - i + 1 /\ i + (k - i) - 1 = k - 1
      BY <1>8, <2>2
    <3>2. r[k] = b[k - i]
      BY <1>2, <1>5, <1>6, <2>2
    <3> QED
      BY <1>2, <2>2, <3>1, <3>2
  <2> QED
    BY <2>1, <2>2
<1> QED
  BY <1>6, <1>7, <1>8, <1>9

LEMMA RemoveAtFacts ==
    ASSUME NEW S, NEW s \in Seq(S), NEW i \in 1 .. Len(s)
    PROVE  /\ RemoveAt(s, i) \in Seq(S) /\ Len(RemoveAt(s, i)) = Len(s) - 1
           /\ \A k \in 1 .. Len(s) - 1 : RemoveAt(s, i)[k] = IF k < i THEN s[k] ELSE s[k + 1]
<1> DEFINE a == SubSeq(s, 1, i - 1)
           b == SubSeq(s, i + 1, Len(s))
           r == a \o b
<1>1. /\ a \in Seq(S) /\ Len(a) = i - 1
      /\ \A k \in 1 .. i - 1 : a[k] = s[k]
  BY SubSeqFacts
<1>2. /\ b \in Seq(S) /\ Len(b) = Len(s) - i
      /\ \A k \in 1 .. Len(s) - i : b[k] = s[i + k]
  BY SubSeqFacts
<1>3. RemoveAt(s, i) = r
  BY DEF RemoveAt
<1> HIDE DEF a, b
<1>4. /\ r \in Seq(S) /\ Len(r) = Len(a) + Len(b)
      /\ \A k \in 1 .. Len(a) + Len(b) : r[k] = IF k <= Len(a) THEN a[k] ELSE b[k - Len(a)]
  BY <1>1, <1>2, ConcatFacts
<1> HIDE DEF r
<1>5. Len(s) \in Nat /\ Len(r) = Len(s) - 1
  BY <1>1, <1>2, <1>4
<1>6. ASSUME NEW k \in 1 .. Len(s) - 1
      PROVE  r[k] = IF k < i THEN s[k] ELSE s[k + 1]
  <2>1. CASE k < i
    BY <1>1, <1>2, <1>4, <2>1
  <2>2. CASE k >= i
    <3>1. k - (i - 1) \in 1 .. Len(s) - i /\ i + (k - (i - 1)) = k + 1
      BY <1>5, <2>2
    <3>2. ~(k <= Len(a)) /\ k \in 1 .. Len(a) + Len(b)
      BY <1>1, <1>2, <1>5, <2>2
    <3>3. r[k] = b[k - (i - 1)]
      BY <1>1, <1>4, <3>2
    <3> QED
      BY <1>2, <2>2, <3>1, <3>3
  <2> QED
    BY <2>1, <2>2
<1> QED
  BY <1>3, <1>4, <1>5, <1>6

(* A set of naturals has a least element.                                  *)
LEMMA LeastElement ==
    ASSUME NEW T \in SUBSET Nat, T # {}
    PROVE  Min(T) \in T /\ \A y \in T : Min(T) <= y
<1> DEFINE R == {ss \in Nat \X Nat : ss[1] < ss[2]}
<1>1. IsWellFoundedOn(R, Nat)
  BY NatLessThanWellFounded DEF OpToRel
<1> HIDE DEF R
<1>2. PICK x \in T : \A y \in T : ~(<<y, x>> \in R)
  BY <1>1, WFMin
<1>3. ASSUME NEW y \in T, y < x
      PROVE  <<y, x>> \in R
  <2>1. <<y, x>> \in Nat \X Nat /\ <<y, x>>[1] = y /\ <<y, x>>[2] = x
    OBVIOUS
  <2>2. PICK p : p = <<y, x>>
    OBVIOUS
  <2>3. p \in Nat \X Nat /\ p[1] < p[2]
    BY <1>3, <2>1, <2>2
  <2>4. p \in R
    BY <2>3 DEF R
  <2> QED
    BY <2>2, <2>4
<1>4. \A y \in T : ~(y < x)
  BY <1>2, <1>3, Zenon
<1>5. \A y \in T : x <= y
  BY <1>4
<1> QED
  BY <1>5 DEF Min

----------------------------------------------------------------------------
(* What the records are, so that the proofs need not look inside them.     *)
LEMMA Records ==
    /\ RetiredView \in ViewRec /\ RetiredView.doc = 0
    /\ Retired \in DocRec /\ ~Retired.live
    /\ \A d \in 0 .. MaxDocs, c \in 0 .. MaxLen :
          View(d, c) \in ViewRec /\ View(d, c).doc = d /\ View(d, c).cursor = c
    /\ \A n \in 0 .. MaxLen, m \in BOOLEAN :
          /\ Doc(n, m) \in DocRec
          /\ Doc(n, m).live /\ Doc(n, m).len = n /\ Doc(n, m).modified = m
BY WorkspaceAssumption DEF RetiredView, Retired, View, Doc, ViewRec, DocRec, NoBuffer

LEMMA Bounds ==
    MaxLen \in Nat \ {0} /\ MaxDocs \in Nat \ {0} /\ MaxViews \in Nat \ {0} /\ MaxWindows \in Nat \ {0}
BY WorkspaceAssumption

LEMMA Typed ==
    ASSUME WorkspaceTypeOK
    PROVE  /\ Len(docs) \in 1 .. MaxDocs /\ DOMAIN docs = 1 .. Len(docs)
           /\ docs \in [1 .. Len(docs) -> DocRec]
           /\ Len(views) \in 1 .. MaxViews /\ DOMAIN views = 1 .. Len(views)
           /\ views \in [1 .. Len(views) -> ViewRec]
           /\ Len(windows) \in 1 .. MaxWindows /\ DOMAIN windows = 1 .. Len(windows)
           /\ windows \in [1 .. Len(windows) -> 1 .. MaxViews]
           /\ Len(order) \in Nat /\ DOMAIN order = 1 .. Len(order)
           /\ order \in [1 .. Len(order) -> 1 .. MaxDocs]
BY SeqFacts DEF WorkspaceTypeOK, DocRec, ViewRec

(* The focused window shows a view of a live buffer.                       *)
LEMMA Focused ==
    ASSUME WorkspaceIInv
    PROVE  /\ FocusedView \in DOMAIN views /\ views[FocusedView] # RetiredView
           /\ FocusedBuffer \in DOMAIN docs /\ docs[FocusedBuffer].live
           /\ views[FocusedView].cursor <= docs[FocusedBuffer].len
           /\ FocusedBuffer \in 1 .. MaxDocs
<1>1. FocusedView \in DOMAIN views /\ views[FocusedView] # RetiredView
  BY DEF WorkspaceIInv, WindowsInv, FocusedView
<1>2. ViewOK(views[FocusedView])
  BY <1>1 DEF WorkspaceIInv, ViewsInv
<1>3. FocusedBuffer \in DOMAIN docs
  BY <1>1, <1>2 DEF ViewOK, FocusedBuffer
<1> QED
  BY <1>1, <1>2, <1>3, Typed, Bounds DEF ViewOK, FocusedBuffer, WorkspaceIInv

LEMMA ShowsBuffer ==
    ASSUME WorkspaceIInv, NEW v \in DOMAIN views
    PROVE  /\ views[v] = RetiredView <=> views[v].doc = 0
           /\ views[v] # RetiredView =>
                 /\ views[v].doc \in DOMAIN docs /\ docs[views[v].doc].live
                 /\ views[v].cursor <= docs[views[v].doc].len
<1>1. ViewOK(views[v])
  BY DEF WorkspaceIInv, ViewsInv
<1> QED
  BY <1>1, Records, Typed DEF ViewOK, WorkspaceIInv

LEMMA WindowsKept ==
    ASSUME WindowsInv, UNCHANGED <<windows, focus>>, DOMAIN views \subseteq DOMAIN views',
           \A v \in DOMAIN views : views[v] # RetiredView => views'[v] # RetiredView
    PROVE  WindowsInv'
BY DEF WindowsInv

LEMMA OrderKept ==
    ASSUME OrderInv, order' = order, DOMAIN docs' = DOMAIN docs,
           \A d \in DOMAIN docs : docs'[d].live = docs[d].live
    PROVE  OrderInv'
BY DEF OrderInv

----------------------------------------------------------------------------
(* Edits and reloads.                                                      *)

(* A buffer of another length, with its views' cursors put into it.        *)
LEMMA NewTextPreserves ==
    ASSUME WorkspaceIInv, ~quit, NEW d \in DOMAIN docs, docs[d].live,
           NEW n \in 0 .. MaxLen, NEW m \in BOOLEAN,
           docs' = [docs EXCEPT ![d] = Doc(n, m)],
           views' \in [DOMAIN views -> ViewRec],
           \A v \in DOMAIN views :
              /\ views[v].doc = d => views'[v].doc = d /\ views'[v].cursor <= n
              /\ views[v].doc # d => views'[v] = views[v],
           UNCHANGED <<windows, focus, order, alt, quit>>
    PROVE  WorkspaceIInv'
<1> USE Records DEF WorkspaceIInv
<1>1. /\ DOMAIN docs' = DOMAIN docs /\ docs'[d] = Doc(n, m)
      /\ docs' \in [1 .. Len(docs) -> DocRec]
      /\ \A e \in DOMAIN docs : e # d => docs'[e] = docs[e]
  BY Typed
<1>2. docs' \in Seq(DocRec) /\ Len(docs') = Len(docs)
  <2>1. Len(docs) \in Nat
    BY Typed, Bounds
  <2>2. docs' \in [1 .. Len(docs) -> DocRec]
    BY <1>1
  <2> QED
    BY ONLY <2>1, <2>2, FunctionIsSeq
<1>3. views' \in Seq(ViewRec) /\ Len(views') = Len(views) /\ DOMAIN views' = DOMAIN views
  <2>1. Len(views) \in Nat /\ views' \in [1 .. Len(views) -> ViewRec]
    BY Typed, Bounds
  <2>2. views' \in Seq(ViewRec) /\ Len(views') = Len(views) /\ DOMAIN views' = 1 .. Len(views)
    BY ONLY <2>1, FunctionIsSeq
  <2> QED
    BY <2>2, Typed
<1>4. WorkspaceTypeOK'
  BY <1>2, <1>3 DEF WorkspaceTypeOK, DocRec, ViewRec
<1>5. ASSUME NEW v \in DOMAIN views
      PROVE  /\ ViewOK(views[v])'
             /\ views[v] # RetiredView => views'[v] # RetiredView
  <2>1. CASE views[v].doc = d
    BY <1>1, <2>1, Typed DEF ViewOK
  <2>2. CASE views[v].doc # d
    BY <1>1, <2>2, ShowsBuffer DEF ViewOK
  <2> QED
    BY <2>1, <2>2
<1>6. ViewsInv'
  BY <1>3, <1>5 DEF ViewsInv
<1>7. WindowsInv'
  BY <1>3, <1>5, WindowsKept
<1>8. OrderInv'
  BY <1>1, OrderKept
<1> QED
  BY <1>4, <1>6, <1>7, <1>8 DEF QuitDropsNothingUnseen

(* A command through the focused view: every other view of the buffer was  *)
(* pinned and follows the edit.                                            *)
LEMMA ApplyPreserves ==
    ASSUME WorkspaceIInv, ~quit, NEW at \in 0 .. MaxLen, NEW del \in 0 .. MaxLen,
           NEW ins \in 0 .. MaxLen, NEW m \in BOOLEAN, Apply(at, del, ins, m)
    PROVE  WorkspaceIInv'
<1> DEFINE d == FocusedBuffer
           n == docs[d].len - del + ins
<1>1. /\ at + del <= docs[d].len /\ n <= MaxLen
      /\ docs' = [docs EXCEPT ![d] = Doc(n, m)]
      /\ UNCHANGED <<windows, focus, order, alt, quit>>
  BY DEF Apply
<1>2. PICK cursors \in [DOMAIN views -> 0 .. MaxLen] :
         /\ cursors[FocusedView] <= n
         /\ \A v \in DOMAIN views \ {FocusedView} : cursors[v] \in Pinned(v, at, n)
         /\ CursorsTo(cursors)
  BY DEF Apply
<1>3. d \in DOMAIN docs /\ docs[d].live /\ docs[d].len \in 0 .. MaxLen
  BY Focused, Typed DEF DocRec, WorkspaceIInv
<1>4. n \in 0 .. MaxLen
  BY <1>1, <1>3, Bounds
<1>5. ASSUME NEW v \in DOMAIN views
      PROVE  /\ views'[v] \in ViewRec /\ views'[v].doc = views[v].doc
             /\ views'[v].cursor = cursors[v]
             /\ cursors[v] = views[v].cursor => views'[v] = views[v]
  <2>1. views[v] \in ViewRec
    BY Typed DEF WorkspaceIInv
  <2> QED
    BY <1>2, <2>1 DEF CursorsTo, ViewRec
<1>6. views' \in [DOMAIN views -> ViewRec]
  BY <1>2, <1>5 DEF CursorsTo
<1>7. ASSUME NEW v \in DOMAIN views, views[v].doc = d
      PROVE  cursors[v] <= n
  <2>1. CASE v = FocusedView
    BY <1>2, <2>1
  <2>2. CASE v # FocusedView
    <3>1. cursors[v] \in Carried(views[v].cursor, at, n)
      BY <1>2, <1>7, <2>2 DEF Pinned
    <3>2. views[v].cursor \in 0 .. MaxLen
      BY Typed DEF ViewRec, WorkspaceIInv
    <3> QED
      BY <1>1, <1>3, <1>4, <3>1, <3>2, Bounds DEF Carried
  <2> QED
    BY <2>1, <2>2
<1>8. ASSUME NEW v \in DOMAIN views, views[v].doc # d
      PROVE  views'[v] = views[v]
  BY <1>2, <1>5, <1>8 DEF Pinned, FocusedBuffer
<1>9. PICK e \in DOMAIN docs, k \in 0 .. MaxLen : e = d /\ k = n
  BY <1>3, <1>4
<1>10. \A v \in DOMAIN views :
          /\ views[v].doc = e => views'[v].doc = e /\ views'[v].cursor <= k
          /\ views[v].doc # e => views'[v] = views[v]
  BY <1>5, <1>7, <1>8, <1>9
<1>11. docs' = [docs EXCEPT ![e] = Doc(k, m)] /\ docs[e].live
  BY <1>1, <1>3, <1>9
<1> HIDE DEF d, n
<1> QED
  BY <1>1, <1>6, <1>10, <1>11, NewTextPreserves

LEMMA LiveDoc ==
    ASSUME NEW r \in DocRec, r.live
    PROVE  /\ r = Doc(r.len, r.modified) /\ [r EXCEPT !.modified = FALSE] = Doc(r.len, FALSE)
           /\ r.len \in 0 .. MaxLen /\ r.modified \in BOOLEAN
<1>1. r.live = TRUE
  BY DEF DocRec
<1>2. r = [live |-> r.live, len |-> r.len, modified |-> r.modified]
  BY DEF DocRec
<1>3. [r EXCEPT !.modified = FALSE] = [live |-> r.live, len |-> r.len, modified |-> FALSE]
  <2> DEFINE q == [r EXCEPT !.modified = FALSE]
  <2>1. q \in DocRec /\ q.live = r.live /\ q.len = r.len /\ q.modified = FALSE
    BY DEF DocRec
  <2> HIDE DEF q
  <2>2. q = [live |-> q.live, len |-> q.len, modified |-> q.modified]
    BY <2>1 DEF DocRec
  <2> QED
    BY <2>1, <2>2 DEF q
<1>4. r.len \in 0 .. MaxLen /\ r.modified \in BOOLEAN
  BY DEF DocRec
<1> QED
  BY <1>1, <1>2, <1>3, <1>4 DEF Doc

LEMMA PlaceCursorPreserves ==
    ASSUME WorkspaceIInv, ~quit, NEW c \in 0 .. MaxLen, PlaceCursor(c)
    PROVE  WorkspaceIInv'
<1>1. PICK d \in DOMAIN docs, n \in 0 .. MaxLen, m \in BOOLEAN :
         /\ d = FocusedBuffer /\ docs[d].live /\ docs[d] \in DocRec
         /\ n = docs[d].len /\ docs[d] = Doc(n, m)
  <2>1. /\ FocusedBuffer \in DOMAIN docs /\ docs[FocusedBuffer].live
        /\ docs[FocusedBuffer] \in DocRec
    BY Focused, Typed DEF WorkspaceIInv
  <2>2. PICK r \in DocRec : r = docs[FocusedBuffer]
    BY <2>1
  <2>3. r = Doc(r.len, r.modified) /\ r.len \in 0 .. MaxLen /\ r.modified \in BOOLEAN
    BY <2>1, <2>2, LiveDoc
  <2> QED
    BY <2>1, <2>2, <2>3
<1>2. docs' = [docs EXCEPT ![d] = Doc(n, m)]
  BY <1>1, Typed DEF PlaceCursor, WorkspaceIInv
<1>3. FocusedView \in DOMAIN views /\ views[FocusedView].doc = d
  BY <1>1, Focused DEF FocusedBuffer
<1>4. ASSUME NEW v \in DOMAIN views
      PROVE  /\ views'[v] \in ViewRec /\ views'[v].doc = views[v].doc
             /\ v # FocusedView => views'[v] = views[v]
             /\ v = FocusedView => views'[v].cursor = c
  <2>1. views[v] \in ViewRec
    BY Typed DEF WorkspaceIInv
  <2> QED
    BY <1>3, <2>1 DEF PlaceCursor, ViewRec
<1>5. views' \in [DOMAIN views -> ViewRec]
  BY <1>4, Typed DEF PlaceCursor, WorkspaceIInv
<1>6. ASSUME NEW v \in DOMAIN views
      PROVE  /\ views[v].doc = d => views'[v].doc = d /\ views'[v].cursor <= n
             /\ views[v].doc # d => views'[v] = views[v]
  <2>1. CASE v = FocusedView
    BY <1>1, <1>3, <1>4, <2>1 DEF PlaceCursor
  <2>2. CASE v # FocusedView
    <3>1. d # 0 /\ n = docs[d].len
      BY <1>1, Typed DEF WorkspaceIInv
    <3>2. views[v].doc = d => views[v].cursor <= n
      BY <3>1, ShowsBuffer
    <3> QED
      BY <1>4, <2>2, <3>2
  <2> QED
    BY <2>1, <2>2
<1>7. UNCHANGED <<windows, focus, order, alt, quit>>
  BY DEF PlaceCursor
<1> QED
  BY <1>1, <1>2, <1>5, <1>6, <1>7, NewTextPreserves

LEMMA MarkSavedPreserves ==
    ASSUME WorkspaceIInv, ~quit, NEW d \in DOMAIN docs, MarkSaved(d)
    PROVE  WorkspaceIInv'
<1>1. docs[d].live /\ docs[d] \in DocRec
  BY Typed DEF MarkSaved, DocLive, WorkspaceIInv
<1>2. PICK n \in 0 .. MaxLen : n = docs[d].len
  BY <1>1, LiveDoc
<1>3. docs' = [docs EXCEPT ![d] = Doc(n, FALSE)]
  BY <1>1, <1>2, LiveDoc, Typed DEF MarkSaved, WorkspaceIInv
<1>4. \A v \in DOMAIN views : views[v].doc = d => views[v].cursor <= n
  BY <1>2, ShowsBuffer, Records, Typed DEF WorkspaceIInv
<1>5. UNCHANGED <<views, windows, focus, order, alt, quit>>
  BY DEF MarkSaved
<1>6. views' \in [DOMAIN views -> ViewRec]
  BY <1>5, Typed DEF WorkspaceIInv
<1> QED
  BY <1>1, <1>3, <1>4, <1>5, <1>6, NewTextPreserves

(* A reload clamps every other view of the buffer.                         *)
LEMMA ReloadFocusedPreserves ==
    ASSUME WorkspaceIInv, ~quit, NEW n \in 0 .. MaxLen, ReloadFocused(n)
    PROVE  WorkspaceIInv'
<1>1. PICK d \in DOMAIN docs : d = FocusedBuffer /\ docs[d].live
  BY Focused
<1>2. /\ docs' = [docs EXCEPT ![d] = Doc(n, FALSE)]
      /\ UNCHANGED <<windows, focus, order, alt, quit>>
  BY <1>1 DEF ReloadFocused
<1>3. ASSUME NEW v \in DOMAIN views
      PROVE  /\ views'[v] \in ViewRec
             /\ views[v].doc = d => views'[v].doc = d /\ views'[v].cursor <= n
             /\ views[v].doc # d => views'[v] = views[v]
  <2>1. views[v] \in ViewRec /\ d \in 0 .. MaxDocs /\ 0 \in 0 .. MaxLen /\ 0 <= n
    BY Typed, Bounds DEF WorkspaceIInv
  <2>2. Snap(views[v].cursor, n) \in 0 .. MaxLen /\ Snap(views[v].cursor, n) <= n
    BY <2>1, Bounds DEF Snap, ViewRec
  <2>3. views[FocusedView].doc = d
    BY <1>1 DEF FocusedBuffer
  <2>4. views'[v] = IF v = FocusedView THEN View(d, 0)
                    ELSE IF views[v].doc = d THEN View(d, Snap(views[v].cursor, n)) ELSE views[v]
    BY <1>1 DEF ReloadFocused
  <2> QED
    BY <2>1, <2>2, <2>3, <2>4, Records
<1>4. views' \in [DOMAIN views -> ViewRec]
  BY <1>3 DEF ReloadFocused
<1> QED
  BY <1>1, <1>2, <1>3, <1>4, NewTextPreserves

LEMMA ReloadUndoablePreserves ==
    ASSUME WorkspaceIInv, ~quit, NEW d \in DOMAIN docs, NEW n \in 0 .. MaxLen, ReloadUndoable(d, n)
    PROVE  WorkspaceIInv'
<1>1. /\ docs' = [docs EXCEPT ![d] = Doc(n, FALSE)] /\ docs[d].live
      /\ UNCHANGED <<windows, focus, order, alt, quit>>
  BY DEF ReloadUndoable, DocLive
<1>2. PICK cursors \in [DOMAIN views -> 0 .. MaxLen] :
         /\ \A v \in DOMAIN views :
               IF views[v].doc = d /\ d = FocusedBuffer
               THEN cursors[v] <= n
               ELSE cursors[v] = IF views[v].doc = d THEN Snap(views[v].cursor, n)
                                 ELSE views[v].cursor
         /\ CursorsTo(cursors)
  BY DEF ReloadUndoable
<1>3. ASSUME NEW v \in DOMAIN views
      PROVE  /\ views'[v] \in ViewRec
             /\ views[v].doc = d => views'[v].doc = d /\ views'[v].cursor <= n
             /\ views[v].doc # d => views'[v] = views[v]
  <2>1. views[v] \in ViewRec
    BY Typed DEF WorkspaceIInv
  <2>2. /\ views'[v] \in ViewRec /\ views'[v].doc = views[v].doc
        /\ views'[v].cursor = cursors[v]
        /\ cursors[v] = views[v].cursor => views'[v] = views[v]
    BY <1>2, <2>1 DEF CursorsTo, ViewRec
  <2>3. Snap(views[v].cursor, n) <= n
    BY <2>1, Bounds DEF Snap, ViewRec
  <2> QED
    BY <1>2, <2>2, <2>3
<1>4. views' \in [DOMAIN views -> ViewRec]
  BY <1>2, <1>3 DEF CursorsTo
<1> QED
  BY <1>1, <1>3, <1>4, NewTextPreserves

----------------------------------------------------------------------------
(* Windows.                                                                *)
LEMMA FocusWindowPreserves ==
    ASSUME WorkspaceIInv, ~quit, NEW i \in DOMAIN windows, FocusWindow(i)
    PROVE  WorkspaceIInv'
<1>1. focus' = i /\ UNCHANGED <<docs, views, windows, order, alt, quit>>
  BY DEF FocusWindow
<1>2. WorkspaceTypeOK'
  <2>1. i \in 1 .. MaxWindows
    BY Typed, Bounds DEF WorkspaceIInv
  <2> QED
    BY <1>1, <2>1 DEF WorkspaceTypeOK, WorkspaceIInv
<1> QED
  BY <1>1, <1>2 DEF WorkspaceIInv, ViewsInv, ViewOK, WindowsInv, OrderInv, QuitDropsNothingUnseen

(* The new window has a view of its own.                                   *)
LEMMA SplitPreserves ==
    ASSUME WorkspaceIInv, ~quit, Split
    PROVE  WorkspaceIInv'
<1> USE DEF WorkspaceIInv
<1>1. PICK v0 \in ViewRec : v0 = views[FocusedView]
  BY Focused, Typed
<1>2. /\ views' = Append(views, v0) /\ windows' = InsertAt(windows, focus + 1, Len(views) + 1)
      /\ focus' = focus + 1 /\ Len(views) + 1 <= MaxViews /\ Len(windows) < MaxWindows
      /\ UNCHANGED <<docs, order, alt, quit>>
  BY <1>1 DEF Split, Room
<1>3. v0 # RetiredView /\ ViewOK(v0)
  BY <1>1, Focused DEF ViewsInv
<1>4. /\ views' \in Seq(ViewRec) /\ Len(views') = Len(views) + 1
      /\ DOMAIN views' = DOMAIN views \cup {Len(views) + 1}
      /\ \A v \in DOMAIN views : views'[v] = views[v]
      /\ views'[Len(views) + 1] = v0
  <2>1. views \in Seq(ViewRec)
    BY DEF WorkspaceTypeOK, ViewRec
  <2> QED
    BY <1>2, <2>1, AppendFacts
<1>5. focus \in 1 .. Len(windows) /\ Len(windows) \in Nat /\ Len(views) \in Nat
  BY Typed, Bounds DEF WindowsInv
<1>6. /\ windows' \in Seq(ViewId) /\ Len(windows') = Len(windows) + 1
      /\ \A k \in 1 .. Len(windows) + 1 :
            windows'[k] = IF k < focus + 1 THEN windows[k]
                          ELSE IF k = focus + 1 THEN Len(views) + 1 ELSE windows[k - 1]
  <2>1. windows \in Seq(ViewId)
    BY DEF WorkspaceTypeOK, ViewId
  <2>2. Len(views) + 1 \in ViewId /\ focus + 1 \in 1 .. Len(windows) + 1
    BY <1>2, <1>5, Bounds DEF ViewId
  <2> QED
    BY <1>2, <2>1, <2>2, InsertAtFacts
<1>7. DOMAIN windows' = 1 .. Len(windows) + 1 /\ DOMAIN windows = 1 .. Len(windows)
  BY <1>6, SeqFacts, Typed
<1>8. WorkspaceTypeOK'
  <2>1. Len(views') \in 1 .. MaxViews /\ Len(windows') \in 1 .. MaxWindows /\ focus' \in 1 .. MaxWindows
    BY <1>2, <1>4, <1>5, <1>6, Bounds
  <2> QED
    BY <1>2, <1>4, <1>6, <2>1 DEF WorkspaceTypeOK, ViewRec, ViewId
<1>9. ViewsInv'
  BY <1>2, <1>3, <1>4 DEF ViewsInv, ViewOK
<1>10. WindowsInv'
  <2>1. Len(views) + 1 \notin DOMAIN views
    BY Typed, <1>5
  <2> DEFINE Old(x) == IF x < focus + 1 THEN x ELSE x - 1
  <2>5. ASSUME NEW x \in 1 .. Len(windows) + 1, x # focus + 1
        PROVE  /\ Old(x) \in DOMAIN windows
               /\ windows'[x] = windows[Old(x)]
               /\ windows'[x] # Len(views) + 1
    <3>1. Old(x) \in DOMAIN windows
      BY <1>5, <1>7, <2>5
    <3>2. windows'[x] = windows[Old(x)]
      BY <1>5, <1>6, <2>5
    <3> QED
      BY <2>1, <3>1, <3>2 DEF WindowsInv
  <2>2. ASSUME NEW k \in 1 .. Len(windows) + 1
        PROVE  /\ windows'[k] \in DOMAIN views' /\ views'[windows'[k]] # RetiredView
    <3>1. CASE k = focus + 1
      BY <1>3, <1>4, <1>5, <1>6, <3>1
    <3>2. CASE k # focus + 1
      BY <1>4, <2>5, <3>2 DEF WindowsInv
    <3> QED
      BY <3>1, <3>2
  <2>3. ASSUME NEW k \in 1 .. Len(windows) + 1, NEW j \in 1 .. Len(windows) + 1,
               windows'[k] = windows'[j]
        PROVE  k = j
    <3>1. CASE k = focus + 1 \/ j = focus + 1
      BY <1>5, <1>6, <2>3, <2>5, <3>1
    <3>2. CASE k # focus + 1 /\ j # focus + 1
      <4>1. Old(k) = Old(j)
        BY <2>3, <2>5, <3>2 DEF WindowsInv
      <4> QED
        BY <1>5, <3>2, <4>1
    <3> QED
      BY <3>1, <3>2
  <2>4. focus' \in DOMAIN windows'
    BY <1>2, <1>5, <1>7
  <2> QED
    BY <1>7, <2>2, <2>3, <2>4 DEF WindowsInv
<1>11. OrderInv'
  BY <1>2, OrderKept
<1> QED
  BY <1>2, <1>8, <1>9, <1>10, <1>11 DEF QuitDropsNothingUnseen

(* The closed window's view is retired; no other window showed it.         *)
LEMMA CloseFocusedPreserves ==
    ASSUME WorkspaceIInv, ~quit, CloseFocused
    PROVE  WorkspaceIInv'
<1> USE DEF WorkspaceIInv
<1>1. /\ Len(windows) > 1 /\ windows' = RemoveAt(windows, focus)
      /\ views' = [views EXCEPT ![FocusedView] = RetiredView]
      /\ focus' = IF focus > Len(windows') THEN Len(windows') ELSE focus
      /\ UNCHANGED <<docs, order, alt, quit>>
  BY DEF CloseFocused, FocusAfterClose
<1>2. focus \in 1 .. Len(windows) /\ Len(windows) \in 1 .. MaxWindows /\ Len(windows) \in Nat
  BY Typed, Bounds DEF WindowsInv
<1>3. /\ windows' \in Seq(ViewId) /\ Len(windows') = Len(windows) - 1
      /\ \A k \in 1 .. Len(windows) - 1 :
            windows'[k] = IF k < focus THEN windows[k] ELSE windows[k + 1]
  <2>1. windows \in Seq(ViewId)
    BY DEF WorkspaceTypeOK, ViewId
  <2> QED
    BY <1>1, <1>2, <2>1, RemoveAtFacts
<1>4. DOMAIN windows' = 1 .. Len(windows) - 1 /\ DOMAIN windows = 1 .. Len(windows)
  BY <1>3, SeqFacts, Typed
<1>5. /\ views' \in Seq(ViewRec) /\ Len(views') = Len(views) /\ DOMAIN views' = DOMAIN views
      /\ \A v \in DOMAIN views : views'[v] = IF v = FocusedView THEN RetiredView ELSE views[v]
  <2>1. views' \in [1 .. Len(views) -> ViewRec] /\ Len(views) \in Nat
    <3>1. views' \in [1 .. Len(views) -> ViewRec]
      BY <1>1, Typed, Records
    <3> QED
      BY <3>1, Typed, Bounds
  <2>2. views' \in Seq(ViewRec) /\ Len(views') = Len(views) /\ DOMAIN views' = 1 .. Len(views)
    BY ONLY <2>1, FunctionIsSeq
  <2> QED
    BY <1>1, <2>2, Typed
<1>6. focus' \in DOMAIN windows' /\ focus' \in 1 .. MaxWindows /\ Len(windows') \in 1 .. MaxWindows
  BY <1>1, <1>2, <1>3, <1>4, Bounds
<1>7. WorkspaceTypeOK'
  BY <1>1, <1>3, <1>5, <1>6 DEF WorkspaceTypeOK, ViewRec, ViewId
<1>8. ViewsInv'
  BY <1>1, <1>5 DEF ViewsInv, ViewOK
<1>9. WindowsInv'
  <2> DEFINE Old(x) == IF x < focus THEN x ELSE x + 1
  <2>1. ASSUME NEW x \in 1 .. Len(windows) - 1
        PROVE  Old(x) \in DOMAIN windows \ {focus} /\ windows'[x] = windows[Old(x)]
    BY <1>2, <1>3, <1>4
  <2>2. ASSUME NEW k \in 1 .. Len(windows) - 1
        PROVE  windows'[k] \in DOMAIN views' /\ views'[windows'[k]] # RetiredView
    <3>1. windows[Old(k)] # FocusedView
      BY <1>2, <1>4, <2>1 DEF WindowsInv, FocusedView
    <3> QED
      BY <1>5, <2>1, <3>1 DEF WindowsInv
  <2>3. ASSUME NEW k \in 1 .. Len(windows) - 1, NEW j \in 1 .. Len(windows) - 1,
               windows'[k] = windows'[j]
        PROVE  k = j
    <3>1. Old(k) = Old(j)
      BY <2>1, <2>3 DEF WindowsInv
    <3> QED
      BY <1>2, <3>1
  <2> QED
    BY <1>4, <1>6, <2>2, <2>3 DEF WindowsInv
<1>10. OrderInv'
  BY <1>1, OrderKept
<1> QED
  BY <1>1, <1>7, <1>8, <1>9, <1>10 DEF QuitDropsNothingUnseen

LEMMA OnlyPreserves ==
    ASSUME WorkspaceIInv, ~quit, Only
    PROVE  WorkspaceIInv'
<1> USE DEF WorkspaceIInv
<1>1. /\ windows' = <<FocusedView>> /\ focus' = 1
      /\ UNCHANGED <<docs, order, alt, quit>>
  BY DEF Only
<1>2. /\ views' \in [DOMAIN views -> ViewRec] /\ views'[FocusedView] = views[FocusedView]
      /\ \A v \in DOMAIN views : views'[v] = RetiredView \/ views'[v] = views[v]
  <2>1. views' = [v \in DOMAIN views |->
                    IF v # FocusedView /\ v \in Range(windows) THEN RetiredView ELSE views[v]]
    BY DEF Only
  <2> QED
    BY <2>1, Records, Typed, Focused
<1>3. views' \in Seq(ViewRec) /\ Len(views') = Len(views) /\ DOMAIN views' = DOMAIN views
  <2>1. views' \in [1 .. Len(views) -> ViewRec] /\ Len(views) \in Nat
    BY <1>2, Typed, Bounds
  <2>2. views' \in Seq(ViewRec) /\ Len(views') = Len(views) /\ DOMAIN views' = 1 .. Len(views)
    BY ONLY <2>1, FunctionIsSeq
  <2> QED
    BY <2>2, Typed
<1>4. FocusedView \in ViewId /\ 1 \in 1 .. MaxWindows
  BY Focused, Typed, Bounds DEF ViewId
<1>5. /\ windows' \in Seq(ViewId) /\ Len(windows') = 1 /\ DOMAIN windows' = {1}
      /\ windows'[1] = FocusedView
  BY <1>1, <1>4
<1>6. WorkspaceTypeOK'
  BY <1>1, <1>3, <1>4, <1>5 DEF WorkspaceTypeOK, ViewRec, ViewId
<1>7. ViewsInv'
  BY <1>1, <1>2, <1>3 DEF ViewsInv, ViewOK
<1>8. WindowsInv'
  BY <1>1, <1>2, <1>3, <1>5, Focused DEF WindowsInv
<1>9. OrderInv'
  BY <1>1, OrderKept
<1> QED
  BY <1>1, <1>6, <1>7, <1>8, <1>9 DEF QuitDropsNothingUnseen

----------------------------------------------------------------------------
(* Buffers.                                                                *)

(* The focused window comes to show view v, which no other window shows.   *)
LEMMA ShownInFocused ==
    ASSUME WorkspaceIInv, NEW v \in ViewId, v \in DOMAIN views', views'[v] # RetiredView,
           \A w \in DOMAIN windows \ {focus} : windows[w] # v,
           windows' = [windows EXCEPT ![focus] = v], focus' = focus,
           DOMAIN views \subseteq DOMAIN views',
           \A u \in DOMAIN views : views'[u] = views[u]
    PROVE  /\ windows' \in Seq(ViewId) /\ Len(windows') = Len(windows)
           /\ WindowsInv'
<1>1. windows' \in [1 .. Len(windows) -> ViewId] /\ DOMAIN windows = 1 .. Len(windows)
  BY Typed DEF WorkspaceIInv, ViewId
<1>2. Len(windows) \in Nat
  BY Typed, Bounds DEF WorkspaceIInv
<1>3. windows' \in Seq(ViewId) /\ Len(windows') = Len(windows) /\ DOMAIN windows' = 1 .. Len(windows)
  BY ONLY <1>1, <1>2, FunctionIsSeq
<1>4. \A w \in DOMAIN windows : windows'[w] = IF w = focus THEN v ELSE windows[w]
  BY Typed DEF WorkspaceIInv
<1> QED
  BY <1>1, <1>3, <1>4 DEF WorkspaceIInv, WindowsInv

LEMMA AlternateTyped ==
    ASSUME WorkspaceTypeOK, NEW a, a \in 0 .. MaxDocs, NEW keep, AltAfter(a, keep)
    PROVE  alt' \in 0 .. MaxDocs
BY Bounds DEF AltAfter, Alternate, WorkspaceTypeOK, NoBuffer

LEMMA AddBufferPreserves ==
    ASSUME WorkspaceIInv, ~quit, NEW n \in 0 .. MaxLen, NEW keep \in BOOLEAN, AddBuffer(n, keep)
    PROVE  WorkspaceIInv'
<1> USE DEF WorkspaceIInv
<1>1. PICK d \in DocId : d = Len(docs) + 1
  BY Typed, Bounds DEF AddBuffer, DocId
<1>2. PICK v \in ViewId : v = Len(views) + 1
  BY Typed, Bounds DEF AddBuffer, Room, ViewId
<1>3. /\ docs' = Append(docs, Doc(n, FALSE)) /\ order' = Append(order, d)
      /\ views' = Append(views, View(d, 0)) /\ windows' = [windows EXCEPT ![focus] = v]
      /\ AltAfter(FocusedBuffer, keep) /\ UNCHANGED <<focus, quit>>
  BY <1>1, <1>2 DEF AddBuffer
<1>4. /\ docs' \in Seq(DocRec) /\ Len(docs') = Len(docs) + 1
      /\ DOMAIN docs' = DOMAIN docs \cup {d} /\ d \notin DOMAIN docs
      /\ \A e \in DOMAIN docs : docs'[e] = docs[e]
      /\ docs'[d].live /\ docs'[d].len = n
  <2>1. PICK m \in BOOLEAN : m = FALSE
    OBVIOUS
  <2>2. Doc(n, m) \in DocRec /\ Doc(n, m).live /\ Doc(n, m).len = n
    BY ONLY Records, n \in 0 .. MaxLen, m \in BOOLEAN
  <2>3. PICK r \in DocRec : r = Doc(n, m) /\ r.live /\ r.len = n
    BY <2>2
  <2>4. docs \in Seq(DocRec) /\ docs' = Append(docs, r)
    BY <1>3, <2>1, <2>3 DEF WorkspaceTypeOK, DocRec
  <2>5. /\ docs' \in Seq(DocRec) /\ Len(docs') = Len(docs) + 1
        /\ DOMAIN docs' = DOMAIN docs \cup {Len(docs) + 1} /\ Len(docs) + 1 \notin DOMAIN docs
        /\ \A e \in DOMAIN docs : docs'[e] = docs[e]
        /\ docs'[Len(docs) + 1] = r
    BY ONLY <2>4, r \in DocRec, AppendFacts
  <2> QED
    BY ONLY <1>1, <2>3, <2>5
<1>5. View(d, 0) \in ViewRec /\ View(d, 0) # RetiredView /\ View(d, 0).doc = d /\ View(d, 0).cursor = 0
  BY <1>1, Records, Bounds DEF DocId
<1>6. /\ views' \in Seq(ViewRec) /\ Len(views') = Len(views) + 1
      /\ DOMAIN views' = DOMAIN views \cup {v} /\ v \notin DOMAIN views
      /\ \A u \in DOMAIN views : views'[u] = views[u]
      /\ views'[v] = View(d, 0)
  <2>1. views \in Seq(ViewRec)
    BY DEF WorkspaceTypeOK, ViewRec
  <2> QED
    BY <1>2, <1>3, <1>5, <2>1, AppendFacts
<1>7. /\ order' \in Seq(DocId) /\ Len(order') = Len(order) + 1
      /\ DOMAIN order' = DOMAIN order \cup {Len(order) + 1} /\ Len(order) + 1 \notin DOMAIN order
      /\ \A i \in DOMAIN order : order'[i] = order[i]
      /\ order'[Len(order) + 1] = d
  <2>1. order \in Seq(DocId)
    BY DEF WorkspaceTypeOK, DocId
  <2> QED
    BY <1>3, <2>1, AppendFacts
<1>8. windows' \in Seq(ViewId) /\ Len(windows') = Len(windows) /\ WindowsInv'
  <2>1. \A w \in DOMAIN windows \ {focus} : windows[w] # v
    BY <1>6 DEF WindowsInv
  <2> QED
    BY <1>3, <1>5, <1>6, <2>1, ShownInFocused
<1>9. alt' \in 0 .. MaxDocs
  <2>1. FocusedBuffer \in 0 .. MaxDocs
    BY Focused, Bounds
  <2> QED
    BY <1>3, <2>1, AlternateTyped
<1>10. WorkspaceTypeOK'
  <2>1. Len(docs') \in 1 .. MaxDocs /\ Len(views') \in 1 .. MaxViews
    BY <1>1, <1>2, <1>4, <1>6, Typed, Bounds DEF DocId, ViewId
  <2> QED
    BY <1>3, <1>4, <1>6, <1>7, <1>8, <1>9, <2>1 DEF WorkspaceTypeOK, DocRec, ViewRec, DocId, ViewId
<1>11. ViewsInv'
  <2>1. ViewOK(View(d, 0))'
    <3>1. (View(d, 0).doc = d)' /\ (View(d, 0).cursor = 0)'
      BY <1>5 DEF View
    <3>2. d \in DOMAIN docs' /\ docs'[d].live /\ 0 <= docs'[d].len
      BY <1>4
    <3> QED
      BY <3>1, <3>2 DEF ViewOK
  <2>2. \A u \in DOMAIN views : ViewOK(views[u])'
    BY <1>4, <1>6 DEF ViewsInv, ViewOK
  <2> QED
    BY <1>6, <2>1, <2>2 DEF ViewsInv, ViewOK
<1>12. OrderInv'
  <2>1. \A i \in DOMAIN order : order[i] # d
    BY <1>4 DEF OrderInv
  <2>2. \A i, j \in DOMAIN order' : order'[i] = order'[j] => i = j
    BY ONLY <1>7, <2>1, OrderInv DEF OrderInv
  <2>3. \A i \in DOMAIN order' : order'[i] \in DOMAIN docs' /\ docs'[order'[i]].live
    BY ONLY <1>4, <1>7, OrderInv DEF OrderInv
  <2>4. \A e \in DOMAIN docs' : docs'[e].live => \E i \in DOMAIN order' : order'[i] = e
    BY ONLY <1>4, <1>7, OrderInv DEF OrderInv
  <2> QED
    BY <2>2, <2>3, <2>4 DEF OrderInv
<1> QED
  BY <1>3, <1>8, <1>10, <1>11, <1>12 DEF QuitDropsNothingUnseen

LEMMA FocusBufferPreserves ==
    ASSUME WorkspaceIInv, ~quit, NEW d \in DOMAIN docs, NEW keep \in BOOLEAN, FocusBuffer(d, keep)
    PROVE  WorkspaceIInv'
<1> USE DEF WorkspaceIInv
<1>1. /\ docs[d].live /\ ShowInFocused(d) /\ AltAfter(FocusedBuffer, keep)
      /\ UNCHANGED <<docs, focus, order, quit>>
  BY DEF FocusBuffer, DocLive
<1>2. alt' \in 0 .. MaxDocs
  <2>1. FocusedBuffer \in 0 .. MaxDocs
    BY Focused, Bounds
  <2> QED
    BY <1>1, <2>1, AlternateTyped
<1>3. d \in DocId /\ d # 0
  BY Typed, Bounds DEF DocId
<1>4. OrderInv'
  BY <1>1, OrderKept
<1>5. CASE Reusable(d) # {}
  <2>1. PICK v \in Reusable(d) : v = Min(Reusable(d))
    <3>1. Reusable(d) \in SUBSET Nat
      BY Typed DEF Reusable
    <3> QED
      BY <1>5, <3>1, LeastElement
  <2>2. windows' = [windows EXCEPT ![focus] = v] /\ views' = views
    BY <1>1, <1>5, <2>1 DEF ShowInFocused
  <2>3. v \in DOMAIN views /\ views[v].doc = d /\ \A w \in DOMAIN windows \ {focus} : windows[w] # v
    BY <2>1 DEF Reusable
  <2>4. v \in ViewId /\ views[v] # RetiredView
    BY <1>3, <2>3, Typed, Bounds, Records DEF ViewId
  <2>5. windows' \in Seq(ViewId) /\ Len(windows') = Len(windows) /\ WindowsInv'
    BY <1>1, <2>2, <2>3, <2>4, ShownInFocused
  <2>6. WorkspaceTypeOK'
    BY <1>1, <1>2, <2>2, <2>5 DEF WorkspaceTypeOK, ViewId
  <2>7. ViewsInv'
    BY <1>1, <2>2 DEF ViewsInv, ViewOK
  <2> QED
    BY <1>1, <1>4, <2>5, <2>6, <2>7 DEF QuitDropsNothingUnseen
<1>6. CASE Reusable(d) = {}
  <2>1. PICK v \in ViewId : v = Len(views) + 1
    BY <1>1, <1>6, Typed, Bounds DEF ShowInFocused, Room, ViewId
  <2>2. windows' = [windows EXCEPT ![focus] = v] /\ views' = Append(views, View(d, 0))
    BY <1>1, <1>6, <2>1 DEF ShowInFocused
  <2>3. View(d, 0) \in ViewRec /\ View(d, 0) # RetiredView /\ View(d, 0).doc = d /\ View(d, 0).cursor = 0
    BY <1>3, Records, Bounds DEF DocId
  <2>4. /\ views' \in Seq(ViewRec) /\ Len(views') = Len(views) + 1
        /\ DOMAIN views' = DOMAIN views \cup {v} /\ v \notin DOMAIN views
        /\ \A u \in DOMAIN views : views'[u] = views[u]
        /\ views'[v] = View(d, 0)
    <3>1. views \in Seq(ViewRec)
      BY DEF WorkspaceTypeOK, ViewRec
    <3> QED
      BY <2>1, <2>2, <2>3, <3>1, AppendFacts
  <2>5. windows' \in Seq(ViewId) /\ Len(windows') = Len(windows) /\ WindowsInv'
    <3>1. \A w \in DOMAIN windows \ {focus} : windows[w] # v
      BY <2>4 DEF WindowsInv
    <3> QED
      BY <1>1, <2>2, <2>3, <2>4, <3>1, ShownInFocused
  <2>6. WorkspaceTypeOK'
    <3>1. Len(views') \in 1 .. MaxViews
      BY <2>1, <2>4, Typed, Bounds DEF ViewId
    <3> QED
      BY <1>1, <1>2, <2>4, <2>5, <3>1 DEF WorkspaceTypeOK, ViewId, ViewRec
  <2>7. ViewsInv'
    <3>1. ViewOK(View(d, 0))'
      BY <1>1, <2>3, Typed DEF ViewOK, DocRec
    <3>2. \A u \in DOMAIN views : ViewOK(views[u])'
      BY <1>1, <2>4 DEF ViewsInv, ViewOK
    <3> QED
      BY <2>4, <3>1, <3>2 DEF ViewsInv, ViewOK
  <2> QED
    BY <1>1, <1>4, <2>5, <2>6, <2>7 DEF QuitDropsNothingUnseen
<1> QED
  BY <1>5, <1>6

(* The list without d: it held d once.                                     *)
LEMMA RemoveFirstFacts ==
    ASSUME NEW S, NEW s \in Seq(S), NEW e \in S, NEW at \in DOMAIN s, s[at] = e,
           \A i, j \in DOMAIN s : s[i] = s[j] => i = j
    PROVE  /\ RemoveFirst(s, e) \in Seq(S)
           /\ \A i, j \in DOMAIN RemoveFirst(s, e) :
                 RemoveFirst(s, e)[i] = RemoveFirst(s, e)[j] => i = j
           /\ \A i \in DOMAIN RemoveFirst(s, e) :
                 /\ RemoveFirst(s, e)[i] # e
                 /\ \E j \in DOMAIN s : RemoveFirst(s, e)[i] = s[j]
           /\ \A j \in DOMAIN s :
                 s[j] # e => \E i \in DOMAIN RemoveFirst(s, e) : RemoveFirst(s, e)[i] = s[j]
<1> DEFINE r == RemoveAt(s, at)
<1>1. Len(s) \in Nat /\ DOMAIN s = 1 .. Len(s) /\ at \in 1 .. Len(s)
  BY SeqFacts
<1>2. SelectInSeq(s, LAMBDA v : v = e) = at
  <2> DEFINE I == {i \in 1 .. Len(s) : s[i] = e}
  <2>1. I = {at}
    BY <1>1
  <2>2. I \in SUBSET Nat /\ I # {}
    BY <1>1
  <2>3. Min(I) \in I
    BY <2>2, LeastElement
  <2> QED
    BY <2>1, <2>2, <2>3 DEF SelectInSeq
<1>3. RemoveFirst(s, e) = r
  BY <1>1, <1>2 DEF RemoveFirst
<1>4. /\ r \in Seq(S) /\ Len(r) = Len(s) - 1
      /\ \A k \in 1 .. Len(s) - 1 : r[k] = IF k < at THEN s[k] ELSE s[k + 1]
  BY ONLY <1>1, s \in Seq(S), RemoveAtFacts
<1> HIDE DEF r
<1>5. DOMAIN r = 1 .. Len(s) - 1
  BY <1>4, SeqFacts
<1>6. \A i, j \in DOMAIN r : r[i] = r[j] => i = j
  <2>1. ASSUME NEW i \in DOMAIN r, NEW j \in DOMAIN r, r[i] = r[j]
        PROVE  i = j
    <3>1. (IF i < at THEN s[i] ELSE s[i + 1]) = (IF j < at THEN s[j] ELSE s[j + 1])
      BY <1>4, <1>5, <2>1
    <3>2. (IF i < at THEN i ELSE i + 1) = (IF j < at THEN j ELSE j + 1)
      BY <1>1, <1>5, <3>1
    <3> QED
      BY <1>1, <1>5, <3>2
  <2> QED
    BY <2>1
<1>7. \A i \in DOMAIN r : r[i] # e /\ \E j \in DOMAIN s : r[i] = s[j]
  <2>1. ASSUME NEW i \in DOMAIN r
        PROVE  r[i] # e /\ \E j \in DOMAIN s : r[i] = s[j]
    <3>1. PICK j \in DOMAIN s : j = IF i < at THEN i ELSE i + 1
      BY <1>1, <1>5
    <3>2. r[i] = s[j] /\ j # at
      BY <1>1, <1>4, <1>5, <3>1
    <3> QED
      BY <3>2
  <2> QED
    BY <2>1
<1>8. ASSUME NEW j \in DOMAIN s, s[j] # e
      PROVE  \E i \in DOMAIN r : r[i] = s[j]
  <2>1. j # at
    BY <1>8
  <2>2. CASE j < at
    BY <1>1, <1>4, <1>5, <2>2
  <2>3. CASE j > at
    <3>1. j - 1 \in DOMAIN r /\ ~(j - 1 < at) /\ (j - 1) + 1 = j
      BY <1>1, <1>5, <2>3
    <3> QED
      BY <1>4, <1>5, <3>1
  <2> QED
    BY <1>1, <2>1, <2>2, <2>3
<1> QED
  BY <1>3, <1>4, <1>6, <1>7, <1>8

(* The windows of a set, numbered in order.                                *)
LEMMA NthFacts ==
    ASSUME NEW n \in Nat, NEW T \in SUBSET (1 .. n)
    PROVE  /\ Cardinality(T) \in Nat
           /\ \A w \in T : Cardinality({x \in T : x <= w}) \in 1 .. Cardinality(T)
           /\ \A w, x \in T :
                 Cardinality({y \in T : y <= w}) = Cardinality({y \in T : y <= x}) => w = x
<1>1. IsFiniteSet(T)
  <2>1. IsFiniteSet(1 .. n)
    BY FS_Interval
  <2> QED
    BY <2>1, FS_Subset
<1>2. Cardinality(T) \in Nat
  BY <1>1, FS_CardinalityType
<1> DEFINE U(w) == {x \in T : x <= w}
<1>3. ASSUME NEW w \in T
      PROVE  IsFiniteSet(U(w)) /\ Cardinality(U(w)) \in 1 .. Cardinality(T)
  <2>1. U(w) \subseteq T /\ w \in U(w)
    OBVIOUS
  <2> HIDE DEF U
  <2>2. IsFiniteSet(U(w)) /\ Cardinality(U(w)) \in Nat /\ Cardinality(U(w)) <= Cardinality(T)
    BY <1>1, <2>1, FS_Subset, FS_CardinalityType
  <2>3. Cardinality(U(w)) # 0
    BY <2>1, <2>2, FS_EmptySet
  <2> QED
    BY <1>2, <2>2, <2>3
<1>4. ASSUME NEW w \in T, NEW x \in T, w < x
      PROVE  Cardinality(U(w)) # Cardinality(U(x))
  <2>1. w \in Nat /\ x \in Nat /\ \A y \in T : y \in Nat
    OBVIOUS
  <2>2. U(w) \subseteq U(x)
    <3>1. ASSUME NEW y \in T, y <= w
          PROVE  y <= x
      BY <1>4, <2>1, <3>1
    <3> QED
      BY <3>1
  <2>3. x \in U(x) /\ x \notin U(w)
    BY <1>4, <2>1
  <2>4. IsFiniteSet(U(x))
    BY <1>3
  <2> HIDE DEF U
  <2> QED
    BY <2>2, <2>3, <2>4, FS_Subset
<1> HIDE DEF U
<1>5. ASSUME NEW w \in T, NEW x \in T, Cardinality(U(w)) = Cardinality(U(x))
      PROVE  w = x
  <2>1. ~(w < x) /\ ~(x < w)
    BY <1>4, <1>5
  <2>2. w \in Int /\ x \in Int
    OBVIOUS
  <2> QED
    BY ONLY <2>1, <2>2
<1> QED
  BY <1>2, <1>3, <1>5 DEF U

(* What takes a deleted buffer's place is another live buffer.             *)
LEMMA ReplacementIsLive ==
    ASSUME WorkspaceIInv, NEW d \in DOMAIN docs, docs[d].live, Replacement(d) # NoBuffer
    PROVE  Replacement(d) \in DOMAIN docs \ {d} /\ docs[Replacement(d)].live
<1> DEFINE at == CHOOSE i \in DOMAIN order : order[i] = d
           a == SubSeq(order, at + 1, Len(order))
           b == SubSeq(order, 1, at - 1)
<1>1. at \in DOMAIN order /\ order[at] = d
  BY DEF WorkspaceIInv, OrderInv
<1>2. Replacement(d) = IF alt # d /\ DocLive(alt) THEN alt
                       ELSE IF a \o b # <<>> THEN (a \o b)[1] ELSE NoBuffer
  BY DEF Replacement
<1> HIDE DEF at
<1>3. CASE alt # d /\ DocLive(alt)
  BY <1>2, <1>3 DEF DocLive
<1>4. CASE ~(alt # d /\ DocLive(alt))
  <2>1. order \in Seq(DocId) /\ Len(order) \in Nat /\ DOMAIN order = 1 .. Len(order)
    BY Typed DEF WorkspaceIInv, WorkspaceTypeOK, DocId
  <2>2. /\ a \in Seq(DocId) /\ Len(a) = Len(order) - at
        /\ \A k \in 1 .. Len(order) - at : a[k] = order[at + k]
    <3>1. at + 1 \in 1 .. Len(order) + 1 /\ Len(order) \in 0 .. Len(order) /\ at + 1 <= Len(order) + 1
      BY <1>1, <2>1
    <3>2. /\ a \in Seq(DocId) /\ Len(a) = Len(order) - (at + 1) + 1
          /\ \A k \in 1 .. Len(order) - (at + 1) + 1 : a[k] = order[(at + 1) + k - 1]
      BY ONLY <2>1, <3>1, SubSeqFacts
    <3> HIDE DEF a
    <3>3. at \in Nat /\ Len(order) - (at + 1) + 1 = Len(order) - at
      BY <1>1, <2>1
    <3>4. \A k \in 1 .. Len(order) - at : (at + 1) + k - 1 = at + k
      BY <2>1, <3>3
    <3> QED
      BY ONLY <3>2, <3>3, <3>4
  <2>3. /\ b \in Seq(DocId) /\ Len(b) = at - 1
        /\ \A k \in 1 .. at - 1 : b[k] = order[k]
    <3>1. 1 \in 1 .. Len(order) + 1 /\ at - 1 \in 0 .. Len(order) /\ 1 <= (at - 1) + 1
      BY <1>1, <2>1
    <3>2. /\ b \in Seq(DocId) /\ Len(b) = (at - 1) - 1 + 1
          /\ \A k \in 1 .. (at - 1) - 1 + 1 : b[k] = order[1 + k - 1]
      BY ONLY <2>1, <3>1, SubSeqFacts
    <3> HIDE DEF b
    <3> QED
      BY <1>1, <2>1, <3>2
  <2> HIDE DEF a, b
  <2>4. /\ a \o b \in Seq(DocId) /\ Len(a \o b) = Len(a) + Len(b)
        /\ \A i \in 1 .. Len(a) + Len(b) :
              (a \o b)[i] = IF i <= Len(a) THEN a[i] ELSE b[i - Len(a)]
    BY <2>2, <2>3, ConcatFacts
  <2>5. PICK c \in Seq(DocId) : c = a \o b
    BY <2>4
  <2>6. c # <<>> /\ Replacement(d) = c[1]
    BY <1>2, <1>4, <2>5
  <2>7. 1 \in 1 .. Len(a) + Len(b)
    BY <2>2, <2>3, <2>4, <2>5, <2>6
  <2>8. \E i \in DOMAIN order \ {at} : c[1] = order[i]
    <3>1. CASE 1 <= Len(a)
      <4>1. c[1] = a[1] /\ a[1] = order[at + 1] /\ at + 1 \in DOMAIN order \ {at}
        BY <1>1, <2>1, <2>2, <2>4, <2>5, <2>7, <3>1
      <4> QED
        BY <4>1
    <3>2. CASE ~(1 <= Len(a))
      <4>1. Len(a) = 0
        BY <1>1, <2>1, <2>2, <3>2
      <4>2. at \in Nat /\ Len(b) >= 1 /\ at > 1
        BY <1>1, <2>1, <2>3, <2>7, <4>1
      <4>3. c[1] = b[1 - 0]
        BY <2>4, <2>5, <2>7, <3>2, <4>1
      <4>4. b[1] = order[1] /\ 1 \in DOMAIN order \ {at}
        BY <1>1, <2>1, <2>3, <4>2
      <4> QED
        BY <4>3, <4>4
    <3> QED
      BY <3>1, <3>2
  <2> QED
    BY <1>1, <2>6, <2>8 DEF WorkspaceIInv, OrderInv
<1> QED
  BY <1>3, <1>4

(* Buffer r stands by to replace d: ds, kept and list are the buffers, the *)
(* views and the list, with the scratch buffer in them if one was needed.  *)
Ready(d, r, ds, kept, list) ==
    /\ d \in DOMAIN docs /\ docs[d].live
    /\ ds \in Seq(DocRec) /\ Len(ds) \in 1 .. MaxDocs /\ DOMAIN docs \subseteq DOMAIN ds
    /\ \A e \in DOMAIN docs : ds[e] = docs[e]
    /\ r \in DocId /\ r # d /\ r \in DOMAIN ds /\ ds[r].live
    /\ list \in Seq(DocId)
    /\ \A i, j \in DOMAIN list : list[i] = list[j] => i = j
    /\ \A i \in DOMAIN list : list[i] \in DOMAIN ds /\ ds[list[i]].live
    /\ \A e \in DOMAIN ds : ds[e].live => \E i \in DOMAIN list : list[i] = e
    /\ kept \in Seq(ViewRec) /\ DOMAIN views \subseteq DOMAIN kept
    /\ \A u \in DOMAIN views : kept[u] = views[u]
    /\ \A u \in DOMAIN kept \ DOMAIN views : kept[u] = View(r, 0)

(* The step that takes d away and shows r instead.                         *)
Deleted(d, r, ds, kept, list) ==
    /\ Len(kept) + Cardinality(Showing(d)) <= MaxViews
    /\ docs' = [ds EXCEPT ![d] = Retired]
    /\ views' = [v \in DOMAIN kept |-> IF kept[v].doc = d THEN RetiredView ELSE kept[v]]
                   \o [i \in 1 .. Cardinality(Showing(d)) |-> View(r, 0)]
    /\ windows' = [w \in DOMAIN windows |->
                      IF w \in Showing(d)
                      THEN Len(kept) + Cardinality({x \in Showing(d) : x <= w})
                      ELSE windows[w]]
    /\ order' = Unlist(list, d) /\ alt' \in 0 .. MaxDocs /\ focus' = focus /\ quit' = quit

LEMMA DeletedPreserves ==
    ASSUME WorkspaceIInv, ~quit, NEW d, NEW r, NEW ds, NEW kept, NEW list,
           Ready(d, r, ds, kept, list), Deleted(d, r, ds, kept, list)
    PROVE  WorkspaceIInv'
<1> USE DEF Ready, Deleted
<1> USE DEF WorkspaceIInv
<1>1. /\ docs' \in Seq(DocRec) /\ Len(docs') = Len(ds) /\ DOMAIN docs' = DOMAIN ds
      /\ docs'[d] = Retired /\ \A e \in DOMAIN ds \ {d} : docs'[e] = ds[e]
  <2>1. Len(ds) \in Nat /\ DOMAIN ds = 1 .. Len(ds) /\ ds \in [1 .. Len(ds) -> DocRec]
    BY SeqFacts
  <2>2. docs' \in [1 .. Len(ds) -> DocRec] /\ docs'[d] = Retired
        /\ \A e \in DOMAIN ds \ {d} : docs'[e] = ds[e]
    BY <2>1, Records
  <2>3. docs' \in Seq(DocRec) /\ Len(docs') = Len(ds) /\ DOMAIN docs' = 1 .. Len(ds)
    BY ONLY <2>1, <2>2, FunctionIsSeq
  <2> QED
    BY <2>1, <2>2, <2>3
<1>2. PICK k \in Nat : k = Len(kept)
  BY SeqFacts
<1>3. DOMAIN kept = 1 .. k /\ kept \in [1 .. k -> ViewRec] /\ Len(views) <= k /\ k # 0
  <2>1. DOMAIN kept = 1 .. k /\ kept \in [1 .. k -> ViewRec]
    BY <1>2, SeqFacts
  <2>2. Len(views) \in DOMAIN views /\ Len(views) >= 1
    BY Typed, Bounds
  <2> QED
    BY <1>2, <2>1, <2>2
<1>4. /\ Showing(d) \in SUBSET (1 .. Len(windows)) /\ Len(windows) \in Nat
      /\ DOMAIN windows = 1 .. Len(windows)
  BY Typed, Bounds DEF Showing
<1> DEFINE nth(w) == Cardinality({x \in Showing(d) : x <= w})
<1>5. PICK c \in Nat : c = Cardinality(Showing(d))
  BY <1>4, NthFacts
<1>6. /\ \A w \in Showing(d) : nth(w) \in 1 .. c
      /\ \A w, x \in Showing(d) : nth(w) = nth(x) => w = x
  BY ONLY <1>4, <1>5, NthFacts
<1>7. windows' = [w \in DOMAIN windows |-> IF w \in Showing(d) THEN k + nth(w) ELSE windows[w]]
  BY <1>2
<1> HIDE DEF nth
<1>8. View(r, 0) \in ViewRec /\ View(r, 0) # RetiredView /\ View(r, 0).doc = r /\ View(r, 0).cursor = 0
  BY Records, Bounds DEF DocId
<1> DEFINE old == [v \in 1 .. k |-> IF kept[v].doc = d THEN RetiredView ELSE kept[v]]
           new == [i \in 1 .. c |-> View(r, 0)]
<1>9. old \in Seq(ViewRec) /\ Len(old) = k /\ DOMAIN old = 1 .. k
  <2>1. old \in [1 .. k -> ViewRec]
    BY <1>3, Records
  <2> QED
    BY ONLY <2>1, k \in Nat, FunctionIsSeq
<1>10. new \in Seq(ViewRec) /\ Len(new) = c /\ DOMAIN new = 1 .. c
  <2>1. new \in [1 .. c -> ViewRec]
    BY <1>8
  <2> QED
    BY ONLY <2>1, c \in Nat, FunctionIsSeq
<1>11. views' = old \o new
  BY <1>3, <1>5
<1>12. \A v \in 1 .. k : old[v] = IF kept[v].doc = d THEN RetiredView ELSE kept[v]
  OBVIOUS
<1>13. \A i \in 1 .. c : new[i] = View(r, 0)
  OBVIOUS
<1> HIDE DEF old, new
<1>14. /\ views' \in Seq(ViewRec) /\ Len(views') = k + c /\ DOMAIN views' = 1 .. k + c
       /\ \A i \in 1 .. k + c : views'[i] = IF i <= k THEN old[i] ELSE new[i - k]
  <2>1. /\ old \o new \in Seq(ViewRec) /\ Len(old \o new) = Len(old) + Len(new)
        /\ \A i \in 1 .. Len(old) + Len(new) :
              (old \o new)[i] = IF i <= Len(old) THEN old[i] ELSE new[i - Len(old)]
    BY ONLY <1>9, <1>10, ConcatFacts
  <2>2. DOMAIN (old \o new) = 1 .. Len(old \o new)
    BY ONLY <2>1, SeqFacts
  <2> QED
    BY <1>9, <1>10, <1>11, <2>1, <2>2
<1>15. /\ \A v \in 1 .. k : v \in DOMAIN views' /\
             views'[v] = IF kept[v].doc = d THEN RetiredView ELSE kept[v]
       /\ \A v \in DOMAIN views' : ~(v <= k) => views'[v] = View(r, 0)
  <2>1. ASSUME NEW v \in 1 .. k
        PROVE  v \in DOMAIN views' /\
                 views'[v] = IF kept[v].doc = d THEN RetiredView ELSE kept[v]
    <3>1. v \in 1 .. k + c /\ v <= k
      OBVIOUS
    <3> QED
      BY <1>12, <1>14, <3>1
  <2>2. ASSUME NEW v \in DOMAIN views', ~(v <= k)
        PROVE  views'[v] = View(r, 0)
    <3>1. v \in 1 .. k + c
      BY <1>14
    <3>2. v - k \in 1 .. c
      BY ONLY <2>2, <3>1, k \in Nat, c \in Nat
    <3> QED
      BY <1>13, <1>14, <2>2, <3>1, <3>2
  <2> QED
    BY <2>1, <2>2
<1>16. ViewOK(View(r, 0))'
  <2>1. (View(r, 0).doc = r)' /\ (View(r, 0).cursor = 0)'
    BY <1>8 DEF View
  <2>2. r \in DOMAIN docs' /\ docs'[r].live /\ 0 <= docs'[r].len
    <3>1. docs'[r] = ds[r] /\ ds[r] \in DocRec
      BY <1>1, SeqFacts
    <3> QED
      BY <1>1, <3>1 DEF DocRec
  <2> QED
    BY <2>1, <2>2 DEF ViewOK
<1>17. ViewsInv'
  <2>1. ASSUME NEW v \in DOMAIN views'
        PROVE  ViewOK(views[v])'
    <3>1. CASE v <= k
      <4>1. v \in 1 .. k
        BY <1>14, <3>1
      <4>2. CASE kept[v].doc = d
        BY <1>15, <4>1, <4>2 DEF ViewOK
      <4>3. CASE kept[v].doc # d /\ v \in DOMAIN views
        <5>1. views'[v] = views[v] /\ views[v].doc # d
          BY <1>15, <4>1, <4>3
        <5>2. CASE views[v] = RetiredView
          BY <5>1, <5>2 DEF ViewOK
        <5>3. CASE views[v] # RetiredView
          <6>1. /\ views[v].doc \in DOMAIN docs /\ docs[views[v].doc].live
                /\ views[v].cursor <= docs[views[v].doc].len
            BY <4>3, <5>3, ShowsBuffer
          <6>2. views[v].doc \in DOMAIN docs' /\ docs'[views[v].doc] = docs[views[v].doc]
            BY <1>1, <5>1, <6>1
          <6> QED
            BY <5>1, <6>1, <6>2 DEF ViewOK
        <5> QED
          BY <5>2, <5>3
      <4>4. CASE kept[v].doc # d /\ v \notin DOMAIN views
        <5>1. views'[v] = View(r, 0)
          BY <1>3, <1>15, <4>1, <4>4
        <5> QED
          BY <1>16, <5>1 DEF ViewOK
      <4> QED
        BY <4>2, <4>3, <4>4
    <3>2. CASE ~(v <= k)
      <4>1. views'[v] = View(r, 0)
        BY <1>15, <3>2
      <4> QED
        BY <1>16, <4>1 DEF ViewOK
    <3> QED
      BY <3>1, <3>2
  <2> QED
    BY <2>1 DEF ViewsInv
<1>18. ASSUME NEW w \in DOMAIN windows
       PROVE  /\ windows'[w] \in DOMAIN views' /\ views'[windows'[w]] # RetiredView
              /\ w \in Showing(d) => windows'[w] = k + nth(w) /\ nth(w) \in 1 .. c
              /\ w \notin Showing(d) => windows'[w] = windows[w] /\ windows[w] \in 1 .. k
  <2>1. CASE w \in Showing(d)
    <3>1. windows'[w] = k + nth(w) /\ nth(w) \in 1 .. c
      BY <1>6, <1>7, <2>1
    <3>2. k + nth(w) \in 1 .. k + c /\ ~(k + nth(w) <= k)
      BY <3>1
    <3> QED
      BY <1>8, <1>14, <1>15, <2>1, <3>1, <3>2
  <2>2. CASE w \notin Showing(d)
    <3>1. windows'[w] = windows[w]
      BY <1>7, <2>2
    <3>2. windows[w] \in DOMAIN views /\ views[windows[w]] # RetiredView /\ views[windows[w]].doc # d
      BY <2>2 DEF WindowsInv, Showing
    <3>3. windows[w] \in 1 .. k /\ kept[windows[w]] = views[windows[w]]
      BY <1>3, <3>2
    <3>4. views'[windows[w]] = views[windows[w]] /\ windows[w] \in DOMAIN views'
      BY <1>15, <3>2, <3>3
    <3> QED
      BY <2>2, <3>1, <3>2, <3>3, <3>4
  <2> QED
    BY <2>1, <2>2
<1>19. /\ windows' \in Seq(ViewId) /\ Len(windows') = Len(windows)
       /\ DOMAIN windows' = DOMAIN windows
  <2>1. \A v \in DOMAIN views' : v \in ViewId
    BY <1>2, <1>5, <1>14, Bounds DEF ViewId
  <2>2. DOMAIN windows' = DOMAIN windows /\ windows' = [w \in DOMAIN windows |-> windows'[w]]
    BY <1>7
  <2>3. windows' \in [1 .. Len(windows) -> ViewId]
    BY <1>4, <1>18, <2>1, <2>2
  <2>4. windows' \in Seq(ViewId) /\ Len(windows') = Len(windows)
    BY ONLY <1>4, <2>3, FunctionIsSeq
  <2> QED
    BY <2>2, <2>4
<1>20. WindowsInv'
  <2>1. ASSUME NEW w \in DOMAIN windows, NEW x \in DOMAIN windows, windows'[w] = windows'[x]
        PROVE  w = x
    <3>1. CASE w \in Showing(d) /\ x \in Showing(d)
      <4>1. PICK a \in 1 .. c, b \in 1 .. c : a = nth(w) /\ b = nth(x)
        BY <1>6, <3>1
      <4>2. k + a = k + b
        BY <1>18, <2>1, <3>1, <4>1
      <4>3. a = b
        BY ONLY <4>2, k \in Nat, c \in Nat, a \in 1 .. c, b \in 1 .. c
      <4> QED
        BY <1>6, <3>1, <4>1, <4>3
    <3>2. CASE w \notin Showing(d) /\ x \notin Showing(d)
      BY <1>18, <2>1, <3>2 DEF WindowsInv
    <3>3. CASE w \in Showing(d) /\ x \notin Showing(d)
      <4>1. PICK a \in 1 .. c : a = nth(w)
        BY <1>6, <3>3
      <4>2. windows'[w] = k + a /\ windows'[x] \in 1 .. k
        BY <1>18, <3>3, <4>1
      <4>3. k + a \in 1 .. k
        BY <2>1, <4>2
      <4> QED
        BY ONLY <4>3, k \in Nat, c \in Nat, a \in 1 .. c
    <3>4. CASE w \notin Showing(d) /\ x \in Showing(d)
      <4>1. PICK a \in 1 .. c : a = nth(x)
        BY <1>6, <3>4
      <4>2. windows'[x] = k + a /\ windows'[w] \in 1 .. k
        BY <1>18, <3>4, <4>1
      <4>3. k + a \in 1 .. k
        BY <2>1, <4>2
      <4> QED
        BY ONLY <4>3, k \in Nat, c \in Nat, a \in 1 .. c
    <3> QED
      BY <3>1, <3>2, <3>3, <3>4
  <2> QED
    BY <1>18, <1>19, <2>1 DEF WindowsInv
<1>21. /\ order' \in Seq(DocId)
       /\ OrderInv'
  <2>1. PICK at \in DOMAIN list : list[at] = d
    OBVIOUS
  <2>2. d \in DocId
    BY Typed, Bounds DEF DocId
  <2>3. order' = RemoveFirst(list, d)
    BY DEF Unlist
  <2>4. /\ order' \in Seq(DocId)
        /\ \A i, j \in DOMAIN order' : order'[i] = order'[j] => i = j
        /\ \A i \in DOMAIN order' : order'[i] # d /\ \E j \in DOMAIN list : order'[i] = list[j]
        /\ \A j \in DOMAIN list : list[j] # d => \E i \in DOMAIN order' : order'[i] = list[j]
    BY <2>1, <2>2, <2>3, RemoveFirstFacts
  <2>5. \A i \in DOMAIN order' : order'[i] \in DOMAIN docs' /\ docs'[order'[i]].live
    BY <1>1, <2>4
  <2>6. \A e \in DOMAIN docs' : docs'[e].live => \E i \in DOMAIN order' : order'[i] = e
    BY <1>1, <2>4, Records
  <2> QED
    BY <2>4, <2>5, <2>6 DEF OrderInv
<1>22. WorkspaceTypeOK'
  <2>1. Len(views') \in 1 .. MaxViews
    BY <1>2, <1>3, <1>5, <1>14, Bounds
  <2> QED
    BY <1>1, <1>14, <1>19, <1>21, <2>1 DEF WorkspaceTypeOK, DocRec, ViewRec, DocId, ViewId
<1> QED
  BY <1>17, <1>20, <1>21, <1>22 DEF QuitDropsNothingUnseen

LEMMA BufferDeletePreserves ==
    ASSUME WorkspaceIInv, ~quit, NEW force \in BOOLEAN, NEW keep \in BOOLEAN, BufferDelete(force, keep)
    PROVE  WorkspaceIInv'
<1> USE DEF WorkspaceIInv
<1>1. PICK d \in DocId : d = FocusedBuffer /\ d \in DOMAIN docs /\ docs[d].live
  BY Focused DEF DocId
<1>2. /\ alt' \in 0 .. MaxDocs /\ focus' = focus /\ quit' = quit
  <2>1. /\ AltAfter(IF alt = d THEN NoBuffer ELSE alt, keep) /\ focus' = focus /\ quit' = quit
    BY <1>1 DEF BufferDelete
  <2>2. (IF alt = d THEN NoBuffer ELSE alt) \in 0 .. MaxDocs
    BY Bounds DEF WorkspaceTypeOK, NoBuffer
  <2> QED
    BY <2>1, <2>2, AlternateTyped
<1>3. CASE Replacement(d) # NoBuffer
  <2>1. PICK r \in DocId : r = Replacement(d) /\ r \in DOMAIN docs /\ docs[r].live /\ r # d
    <3>1. Replacement(d) \in DOMAIN docs \ {d} /\ docs[Replacement(d)].live
      BY <1>1, <1>3, ReplacementIsLive
    <3>2. Replacement(d) \in DocId
      BY <3>1, Typed, Bounds DEF DocId
    <3> QED
      BY <3>1, <3>2
  <2>2. /\ Len(views) + Cardinality(Showing(d)) <= MaxViews
        /\ docs' = [docs EXCEPT ![d] = Retired]
        /\ views' = [v \in DOMAIN views |-> IF views[v].doc = d THEN RetiredView ELSE views[v]]
                       \o [i \in 1 .. Cardinality(Showing(d)) |-> View(r, 0)]
        /\ windows' = [w \in DOMAIN windows |->
                          IF w \in Showing(d)
                          THEN Len(views) + Cardinality({x \in Showing(d) : x <= w})
                          ELSE windows[w]]
        /\ order' = Unlist(order, d)
    BY <1>1, <1>3, <2>1 DEF BufferDelete
  <2>3. docs \in Seq(DocRec) /\ views \in Seq(ViewRec) /\ order \in Seq(DocId)
        /\ Len(docs) \in 1 .. MaxDocs
    BY DEF WorkspaceTypeOK, DocRec, ViewRec, DocId
  <2>4. PICK ds \in Seq(DocRec), kept \in Seq(ViewRec), list \in Seq(DocId) :
           ds = docs /\ kept = views /\ list = order
    BY <2>3
  <2>5. /\ \A i, j \in DOMAIN list : list[i] = list[j] => i = j
        /\ \A i \in DOMAIN list : list[i] \in DOMAIN ds /\ ds[list[i]].live
        /\ \A e \in DOMAIN ds : ds[e].live => \E i \in DOMAIN list : list[i] = e
    BY <2>4 DEF OrderInv
  <2>6. /\ Len(kept) + Cardinality(Showing(d)) <= MaxViews
        /\ docs' = [ds EXCEPT ![d] = Retired]
        /\ views' = [v \in DOMAIN kept |-> IF kept[v].doc = d THEN RetiredView ELSE kept[v]]
                       \o [i \in 1 .. Cardinality(Showing(d)) |-> View(r, 0)]
        /\ windows' = [w \in DOMAIN windows |->
                          IF w \in Showing(d)
                          THEN Len(kept) + Cardinality({x \in Showing(d) : x <= w})
                          ELSE windows[w]]
        /\ order' = Unlist(list, d)
    BY <2>2, <2>4
  <2>7. /\ Len(ds) \in 1 .. MaxDocs /\ DOMAIN docs \subseteq DOMAIN ds
        /\ \A e \in DOMAIN docs : ds[e] = docs[e]
        /\ r \in DOMAIN ds /\ ds[r].live
        /\ DOMAIN views \subseteq DOMAIN kept
        /\ \A u \in DOMAIN views : kept[u] = views[u]
        /\ \A u \in DOMAIN kept \ DOMAIN views : kept[u] = View(r, 0)
    BY <2>1, <2>3, <2>4
  <2> QED
    <3>1. Ready(d, r, ds, kept, list)
      BY <1>1, <2>1, <2>5, <2>7 DEF Ready
    <3>2. Deleted(d, r, ds, kept, list)
      BY <1>2, <2>6 DEF Deleted
    <3> QED
      BY <3>1, <3>2, DeletedPreserves
<1>4. CASE Replacement(d) = NoBuffer
  <2>1. Len(docs) < MaxDocs /\ Len(Append(views, View(Len(docs) + 1, 0))) + Cardinality(Showing(d)) <= MaxViews
    BY <1>1, <1>4 DEF BufferDelete
  <2>2. PICK r \in DocId : r = Len(docs) + 1
    BY <2>1, Typed, Bounds DEF DocId
  <2> DEFINE ds == Append(docs, Doc(0, FALSE))
             kept == Append(views, View(r, 0))
             list == Append(order, r)
  <2>3. /\ Len(kept) + Cardinality(Showing(d)) <= MaxViews
        /\ docs' = [ds EXCEPT ![d] = Retired]
        /\ views' = [v \in DOMAIN kept |-> IF kept[v].doc = d THEN RetiredView ELSE kept[v]]
                       \o [i \in 1 .. Cardinality(Showing(d)) |-> View(r, 0)]
        /\ windows' = [w \in DOMAIN windows |->
                          IF w \in Showing(d)
                          THEN Len(kept) + Cardinality({x \in Showing(d) : x <= w})
                          ELSE windows[w]]
        /\ order' = Unlist(list, d)
    BY <1>1, <1>4, <2>1, <2>2 DEF BufferDelete
  <2>4. /\ ds \in Seq(DocRec) /\ Len(ds) = Len(docs) + 1
        /\ DOMAIN ds = DOMAIN docs \cup {r} /\ r \notin DOMAIN docs
        /\ \A e \in DOMAIN docs : ds[e] = docs[e]
        /\ ds[r].live
    <3>1. PICK m \in BOOLEAN, n \in 0 .. MaxLen : m = FALSE /\ n = 0
      <4>1. PICK m \in BOOLEAN : m = FALSE
        OBVIOUS
      <4>2. 0 \in 0 .. MaxLen
        BY Bounds
      <4> QED
        BY <4>1, <4>2
    <3>2. PICK x \in DocRec : x = Doc(n, m) /\ x.live
      BY ONLY Records, n \in 0 .. MaxLen, m \in BOOLEAN
    <3>3. docs \in Seq(DocRec) /\ ds = Append(docs, x)
      BY <3>1, <3>2 DEF WorkspaceTypeOK, DocRec
    <3> HIDE DEF ds
    <3>4. /\ ds \in Seq(DocRec) /\ Len(ds) = Len(docs) + 1
          /\ DOMAIN ds = DOMAIN docs \cup {Len(docs) + 1} /\ Len(docs) + 1 \notin DOMAIN docs
          /\ \A e \in DOMAIN docs : ds[e] = docs[e]
          /\ ds[Len(docs) + 1] = x
      BY ONLY <3>3, x \in DocRec, AppendFacts
    <3> QED
      BY ONLY <2>2, <3>2, <3>4
  <2>5. /\ kept \in Seq(ViewRec) /\ DOMAIN kept = DOMAIN views \cup {Len(views) + 1}
        /\ \A u \in DOMAIN views : kept[u] = views[u]
        /\ kept[Len(views) + 1] = View(r, 0)
    <3>1. views \in Seq(ViewRec)
      BY DEF WorkspaceTypeOK, ViewRec
    <3>2. r \in 0 .. MaxDocs /\ 0 \in 0 .. MaxLen
      BY Bounds DEF DocId
    <3>3. View(r, 0) \in ViewRec
      BY ONLY <3>2, Records
    <3> QED
      BY ONLY <3>1, <3>3, AppendFacts
  <2>6. /\ list \in Seq(DocId) /\ DOMAIN list = DOMAIN order \cup {Len(order) + 1}
        /\ Len(order) + 1 \notin DOMAIN order
        /\ \A i \in DOMAIN order : list[i] = order[i]
        /\ list[Len(order) + 1] = r
    <3>1. order \in Seq(DocId)
      BY DEF WorkspaceTypeOK, DocId
    <3> QED
      BY ONLY <3>1, r \in DocId, AppendFacts
  <2>7. PICK es \in Seq(DocRec), us \in Seq(ViewRec), ls \in Seq(DocId) :
           es = ds /\ us = kept /\ ls = list
    BY <2>4, <2>5, <2>6
  <2>8. /\ Len(us) + Cardinality(Showing(d)) <= MaxViews
        /\ docs' = [es EXCEPT ![d] = Retired]
        /\ views' = [v \in DOMAIN us |-> IF us[v].doc = d THEN RetiredView ELSE us[v]]
                       \o [i \in 1 .. Cardinality(Showing(d)) |-> View(r, 0)]
        /\ windows' = [w \in DOMAIN windows |->
                          IF w \in Showing(d)
                          THEN Len(us) + Cardinality({x \in Showing(d) : x <= w})
                          ELSE windows[w]]
        /\ order' = Unlist(ls, d)
    BY ONLY <2>3, <2>7
  <2> HIDE DEF ds, kept, list
  <2>9. \A i \in DOMAIN order : order[i] # r
    BY <2>4 DEF OrderInv
  <2>10. \A i, j \in DOMAIN ls : ls[i] = ls[j] => i = j
    BY ONLY <2>6, <2>7, <2>9, OrderInv DEF OrderInv
  <2>11. \A i \in DOMAIN ls : ls[i] \in DOMAIN es /\ es[ls[i]].live
    <3>1. \A i \in DOMAIN order : order[i] \in DOMAIN docs /\ docs[order[i]].live
      BY DEF OrderInv
    <3>2. \A i \in DOMAIN order : order[i] \in DOMAIN ds /\ ds[order[i]].live
      BY ONLY <2>4, <3>1
    <3> QED
      BY ONLY <2>4, <2>6, <2>7, <3>2
  <2>12. \A e \in DOMAIN es : es[e].live => \E i \in DOMAIN ls : ls[i] = e
    BY ONLY <2>4, <2>6, <2>7, OrderInv DEF OrderInv
  <2>13. Len(es) \in 1 .. MaxDocs
    BY <2>1, <2>4, <2>7, Typed, Bounds
  <2>14. /\ DOMAIN docs \subseteq DOMAIN es /\ \A e \in DOMAIN docs : es[e] = docs[e]
         /\ r # d /\ r \in DOMAIN es /\ es[r].live
    BY <1>1, <2>4, <2>7
  <2>15. /\ DOMAIN views \subseteq DOMAIN us
         /\ \A u \in DOMAIN views : us[u] = views[u]
         /\ \A u \in DOMAIN us \ DOMAIN views : us[u] = View(r, 0)
    BY <2>5, <2>7
  <2> QED
    <3>1. Ready(d, r, es, us, ls)
      BY <1>1, <2>10, <2>11, <2>12, <2>13, <2>14, <2>15 DEF Ready
    <3>2. Deleted(d, r, es, us, ls)
      BY <1>2, <2>8 DEF Deleted
    <3> QED
      BY <3>1, <3>2, DeletedPreserves
<1> QED
  BY <1>3, <1>4

----------------------------------------------------------------------------
(* Quitting.                                                               *)

(* The quit check asks of the buffer list, which holds every live buffer.  *)
LEMMA QuitAsksOfAll ==
    ASSUME WorkspaceIInv, NEW force \in BOOLEAN, MayQuit(force),
           UNCHANGED <<docs, views, windows, focus, order, alt>>, quit' = TRUE
    PROVE  WorkspaceIInv'
<1> USE DEF WorkspaceIInv
<1>1. ASSUME NEW d \in DOMAIN docs, docs[d].live, docs[d].modified
      PROVE  d = FocusedBuffer
  <2>1. PICK i \in DOMAIN order : order[i] = d
    BY <1>1 DEF OrderInv
  <2>2. d \in Listed
    BY <1>1, <2>1 DEF Listed, Range, DocLive
  <2> QED
    BY <1>1, <2>2 DEF MayQuit
<1>2. QuitDropsNothingUnseen'
  BY <1>1 DEF QuitDropsNothingUnseen, FocusedBuffer, FocusedView
<1>3. WorkspaceTypeOK'
  BY DEF WorkspaceTypeOK
<1>4. ViewsInv' /\ WindowsInv' /\ OrderInv'
  BY DEF ViewsInv, ViewOK, WindowsInv, OrderInv
<1> QED
  BY <1>2, <1>3, <1>4

LEMMA QuitPreserves ==
    ASSUME WorkspaceIInv, NEW force \in BOOLEAN, QuitWindow(force) \/ QuitAll
    PROVE  WorkspaceIInv'
<1>1. CASE QuitWindow(force)
  BY <1>1, QuitAsksOfAll DEF QuitWindow
<1>2. CASE QuitAll
  <2>1. PICK f \in BOOLEAN : f = FALSE
    OBVIOUS
  <2> QED
    BY <1>2, <2>1, QuitAsksOfAll DEF QuitAll
<1> QED
  BY <1>1, <1>2

----------------------------------------------------------------------------
LEMMA Initially ==
    WorkspaceInit => WorkspaceIInv
<1> SUFFICES ASSUME WorkspaceInit
             PROVE  WorkspaceIInv
  OBVIOUS
<1>1. PICK n \in 0 .. MaxLen : docs = <<Doc(n, FALSE)>>
  BY DEF WorkspaceInit
<1>2. PICK m \in BOOLEAN : m = FALSE
  OBVIOUS
<1>3. PICK x \in DocRec : x = Doc(n, m) /\ x.live /\ x.len = n
  BY ONLY Records, n \in 0 .. MaxLen, m \in BOOLEAN
<1>4. docs = <<x>>
  BY <1>1, <1>2, <1>3
<1>5. PICK y \in ViewRec : y = View(1, 0) /\ y.doc = 1 /\ y.cursor = 0
  BY Records, Bounds
<1>6. views = <<y>> /\ windows = <<1>> /\ focus = 1 /\ order = <<1>> /\ alt = 0 /\ quit = FALSE
  BY <1>5 DEF WorkspaceInit, NoBuffer
<1>7. /\ docs \in Seq(DocRec) /\ Len(docs) = 1 /\ DOMAIN docs = {1} /\ docs[1] = x
      /\ views \in Seq(ViewRec) /\ Len(views) = 1 /\ DOMAIN views = {1} /\ views[1] = y
  BY <1>4, <1>6
<1>8. /\ windows \in Seq(ViewId) /\ Len(windows) = 1 /\ DOMAIN windows = {1} /\ windows[1] = 1
      /\ order \in Seq(DocId) /\ DOMAIN order = {1} /\ order[1] = 1
  BY <1>6, Bounds DEF ViewId, DocId
<1>9. WorkspaceTypeOK
  <2>1. /\ 1 \in 1 .. MaxDocs /\ 1 \in 1 .. MaxViews /\ 1 \in 1 .. MaxWindows
        /\ alt \in 0 .. MaxDocs
    BY <1>6, Bounds
  <2>2. quit \in BOOLEAN
    BY <1>6
  <2> QED
    BY <1>6, <1>7, <1>8, <2>1, <2>2 DEF WorkspaceTypeOK, DocRec, ViewRec, ViewId, DocId
<1>10. ViewsInv
  BY <1>3, <1>5, <1>7 DEF ViewsInv, ViewOK
<1>11. WindowsInv
  BY <1>5, <1>6, <1>7, <1>8, Records DEF WindowsInv
<1>12. OrderInv
  BY <1>3, <1>7, <1>8 DEF OrderInv
<1> QED
  BY <1>6, <1>9, <1>10, <1>11, <1>12 DEF WorkspaceIInv, QuitDropsNothingUnseen

LEMMA StepPreserves ==
    WorkspaceIInv /\ [WorkspaceNext]_workspaceVars => WorkspaceIInv'
<1> SUFFICES ASSUME WorkspaceIInv, [WorkspaceNext]_workspaceVars
             PROVE  WorkspaceIInv'
  OBVIOUS
<1>1. CASE WorkspaceNext
  <2>1. ~quit
    BY <1>1 DEF WorkspaceNext
  <2>2. CASE \E at, del, ins \in 0 .. MaxLen, m \in BOOLEAN : Apply(at, del, ins, m)
    BY <2>1, <2>2, ApplyPreserves
  <2>3. CASE \E c \in 0 .. MaxLen : PlaceCursor(c)
    BY <2>1, <2>3, PlaceCursorPreserves
  <2>4. CASE \E n \in 0 .. MaxLen : ReloadFocused(n)
    BY <2>1, <2>4, ReloadFocusedPreserves
  <2>5. CASE \E d \in DOMAIN docs : MarkSaved(d)
    <3>1. PICK d \in DOMAIN docs : MarkSaved(d)
      BY <2>5
    <3> QED
      BY <2>1, <3>1, MarkSavedPreserves
  <2>6. CASE \E d \in DOMAIN docs, n \in 0 .. MaxLen : ReloadUndoable(d, n)
    <3>1. PICK d \in DOMAIN docs, n \in 0 .. MaxLen : ReloadUndoable(d, n)
      BY <2>6
    <3> QED
      BY <2>1, <3>1, ReloadUndoablePreserves
  <2>7. CASE \E d \in DOMAIN docs, keep \in BOOLEAN : FocusBuffer(d, keep)
    <3>1. PICK d \in DOMAIN docs, keep \in BOOLEAN : FocusBuffer(d, keep)
      BY <2>7
    <3> QED
      BY <2>1, <3>1, FocusBufferPreserves
  <2>8. CASE \E i \in DOMAIN windows : FocusWindow(i)
    <3>1. PICK i \in DOMAIN windows : FocusWindow(i)
      BY <2>8
    <3> QED
      BY <2>1, <3>1, FocusWindowPreserves
  <2>9. CASE Split
    BY <2>1, <2>9, SplitPreserves
  <2>10. CASE CloseFocused
    BY <2>1, <2>10, CloseFocusedPreserves
  <2>11. CASE Only
    BY <2>1, <2>11, OnlyPreserves
  <2>12. CASE \E n \in 0 .. MaxLen, keep \in BOOLEAN : AddBuffer(n, keep)
    BY <2>1, <2>12, AddBufferPreserves
  <2>13. CASE \E force, keep \in BOOLEAN : BufferDelete(force, keep)
    BY <2>1, <2>13, BufferDeletePreserves
  <2>14. CASE \E force \in BOOLEAN : QuitWindow(force)
    BY <2>14, QuitPreserves
  <2>15. CASE QuitAll
    <3>1. PICK force \in BOOLEAN : TRUE
      OBVIOUS
    <3> QED
      BY <2>15, QuitPreserves
  <2> QED
    BY <1>1, <2>2, <2>3, <2>4, <2>5, <2>6, <2>7, <2>8, <2>9, <2>10, <2>11, <2>12, <2>13,
       <2>14, <2>15 DEF WorkspaceNext
<1>2. CASE UNCHANGED workspaceVars
  BY <1>2 DEF workspaceVars, WorkspaceIInv, WorkspaceTypeOK, ViewsInv, ViewOK, WindowsInv, OrderInv, QuitDropsNothingUnseen,
     FocusedBuffer, FocusedView
<1> QED
  BY <1>1, <1>2

(* The inductive invariant of the workspace: every command of the session  *)
(* that edits, reloads, opens, hides, splits, closes, deletes or quits     *)
(* keeps it.                                                               *)
THEOREM WorkspaceInductive ==
    WorkspaceSpec => []WorkspaceIInv
<1>1. WorkspaceInit => WorkspaceIInv
  BY Initially
<1>2. WorkspaceIInv /\ [WorkspaceNext]_workspaceVars => WorkspaceIInv'
  BY StepPreserves
<1> QED
  BY <1>1, <1>2, PTL DEF WorkspaceSpec

(* assert_invariants, handles: whatever the user opens, splits, closes and *)
(* deletes, every view shows a live buffer, every window a live view of    *)
(* its own, and the buffer list holds each live buffer exactly once.       *)
THEOREM HandlesStayLive ==
    WorkspaceSpec => []HandlesAreLive
<1>1. WorkspaceIInv => HandlesAreLive
  <2> SUFFICES ASSUME WorkspaceIInv
               PROVE  HandlesAreLive
    OBVIOUS
  <2> USE DEF WorkspaceIInv
  <2>1. \A v \in DOMAIN views : views[v] # RetiredView => DocLive(views[v].doc)
    BY DEF ViewsInv, ViewOK, DocLive
  <2>2. /\ focus \in DOMAIN windows
        /\ \A w \in DOMAIN windows :
              windows[w] \in DOMAIN views /\ views[windows[w]] # RetiredView
    BY DEF WindowsInv
  <2>3. IsInjective(windows)
    BY DEF WindowsInv, IsInjective
  <2>4. IsInjective(order)
    BY DEF OrderInv, IsInjective
  <2>5. Range(order) = {d \in DOMAIN docs : docs[d].live}
    BY DEF OrderInv, Range
  <2> QED
    BY <2>1, <2>2, <2>3, <2>4, <2>5 DEF HandlesAreLive
<1> QED
  BY <1>1, WorkspaceInductive, PTL

(* assert_invariants, positions: no edit, undo, reload or delete through   *)
(* one view leaves another view's cursor past the end of its buffer.       *)
THEOREM CursorsStayInText ==
    WorkspaceSpec => []CursorsInText
<1>1. WorkspaceIInv => CursorsInText
  BY DEF WorkspaceIInv, ViewsInv, ViewOK, CursorsInText
<1> QED
  BY <1>1, WorkspaceInductive, PTL

(* quit_window and `:qa`: the editor never ends with a modified buffer     *)
(* other than the focused one, however long it has been hidden.            *)
THEOREM QuittingDropsNothingUnseen ==
    WorkspaceSpec => []QuitDropsNothingUnseen
<1>1. WorkspaceIInv => QuitDropsNothingUnseen
  BY DEF WorkspaceIInv
<1> QED
  BY <1>1, WorkspaceInductive, PTL

=============================================================================
