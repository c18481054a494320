--------------------------- MODULE DocumentProofs ---------------------------
(***************************************************************************)
(* The document, for every set of texts and hints and every bound: its     *)
(* text is that of the current undo node, a clean buffer is on disk, the   *)
(* change log replays to the text, and a revision names one text.          *)
(***************************************************************************)
EXTENDS Document, WellFoundedInduction, TLAPS

Root == 0
Nodes == 0 .. count - 1

(* The undo tree: parents are older, and ancestry is their transitive      *)
(* closure.                                                                *)
TreeInv ==
    /\ H!TypeOK
    /\ \A n \in Nodes : n # Root => parent[n] \in 0 .. n - 1
    /\ \A n \in Nodes : n \in ancestry[n] /\ Root \in ancestry[n]
    /\ \A n \in Nodes : \A a \in ancestry[n] : a <= n
    /\ \A n \in Nodes : n # Root => ancestry[n] = ancestry[parent[n]] \cup {n}

LogTyped ==
    /\ recording \in BOOLEAN
    /\ entries \in Seq(Entries) /\ Len(entries) <= LogCap
    /\ lost \in {None, "Started", "Overflow"}

TextTyped ==
    /\ text \in Texts /\ base_text \in Texts /\ disk \in Texts
    /\ revision \in 0 .. MaxRevision
    /\ forward \in [1 .. count - 1 -> Edits]
    /\ saved_node \in Nodes \cup {-1}
    /\ undo_block \in {None, "open", "joining"}
    /\ drained \in [text : Texts, revision : 0 .. MaxRevision]

(* Every edit was made from the text of its node's parent.                 *)
EdgeInv == \A n \in 1 .. count - 1 : forward[n].from = NodeText(parent[n])

SavedInv == saved_node # -1 => NodeText(saved_node) = disk

(* A plan that is not stale was made from the text that is there.          *)
PlanInv ==
    \/ plan = NoPlan
    \/ /\ plan \in [base : 0 .. MaxRevision, edit : Edits]
       /\ plan.base <= revision
       /\ plan.base = revision => plan.edit.from = text

BlockInv == undo_block = "joining" /\ ~last_was_nav => current # Root

IInv ==
    /\ TreeInv /\ LogTyped /\ TextTyped
    /\ EdgeInv /\ TextIsCurrentNodes /\ SavedInv /\ PlanInv
    /\ LogReplaysToText /\ BlockInv

----------------------------------------------------------------------------
(* Induction.                                                              *)

LEMMA Induct ==
    ASSUME NEW P \in SUBSET Nat, 0 \in P, \A n \in P : n + 1 \in P
    PROVE  P = Nat
<1> DEFINE R == {ss \in Nat \X Nat : ss[1] < ss[2]}
           T == Nat \ P
<1>1. IsWellFoundedOn(R, Nat)
  BY NatLessThanWellFounded DEF OpToRel
<1> HIDE DEF R
<1>2. SUFFICES ASSUME T # {}
               PROVE  FALSE
  OBVIOUS
<1>3. PICK x \in T : \A y \in T : ~(<<y, x>> \in R)
  BY <1>1, <1>2, WFMin
<1>4. x # 0 /\ x - 1 \in Nat /\ (x - 1) + 1 = x
  OBVIOUS
<1>5. x - 1 \in T
  BY <1>4
<1>6. PICK p : p = <<x - 1, x>>
  OBVIOUS
<1>7. p \in Nat \X Nat /\ p[1] < p[2]
  BY <1>4, <1>6
<1>8. p \in R
  BY <1>7 DEF R
<1> QED
  BY <1>3, <1>5, <1>6, <1>8

----------------------------------------------------------------------------
(* What the entries of a log make of a text.                               *)

(* g holds the text after each of the first m entries.                     *)
Run(t, es, m, g) ==
    /\ g = [n \in 0 .. m |-> g[n]]
    /\ g[0] = t
    /\ \A n \in 1 .. m : g[n] = Apply(es[n].edit, g[n - 1])

LEMMA RunExists ==
    ASSUME NEW t, NEW es
    PROVE  \A m \in Nat : \E g : Run(t, es, m, g)
<1> DEFINE P == {m \in Nat : \E g : Run(t, es, m, g)}
<1>1. 0 \in P
  <2> DEFINE g == [n \in 0 .. 0 |-> t]
  <2>1. Run(t, es, 0, g)
    BY DEF Run
  <2> QED BY <2>1
<1>2. ASSUME NEW m \in P
      PROVE  m + 1 \in P
  <2>1. PICK g : Run(t, es, m, g)
    OBVIOUS
  <2> DEFINE h == [n \in 0 .. m + 1 |-> IF n = m + 1 THEN Apply(es[m + 1].edit, g[m]) ELSE g[n]]
  <2>2. h = [n \in 0 .. m + 1 |-> h[n]]
    OBVIOUS
  <2>3. h[0] = t
    BY <2>1 DEF Run
  <2>4. ASSUME NEW n \in 1 .. m + 1
        PROVE  h[n] = Apply(es[n].edit, h[n - 1])
    <3>1. CASE n = m + 1
      BY <3>1
    <3>2. CASE n # m + 1
      <4>1. n \in 1 .. m /\ h[n] = g[n] /\ h[n - 1] = g[n - 1]
        BY <3>2
      <4> HIDE DEF h
      <4> QED BY <2>1, <4>1 DEF Run
    <3> QED BY <3>1, <3>2
  <2> HIDE DEF h
  <2>5. Run(t, es, m + 1, h)
    BY <2>2, <2>3, <2>4 DEF Run
  <2> QED BY <2>5
<1> HIDE DEF P
<1>3. P = Nat
  <2>1. P \in SUBSET Nat
    BY DEF P
  <2> QED BY <1>1, <1>2, <2>1, Induct
<1> QED BY <1>3 DEF P

LEMMA RunUnique ==
    ASSUME NEW t, NEW es, NEW m \in Nat, NEW g, NEW h, Run(t, es, m, g), Run(t, es, m, h)
    PROVE  g[m] = h[m]
<1> DEFINE P == {n \in Nat : n <= m => g[n] = h[n]}
<1>1. 0 \in P
  BY DEF Run
<1>2. ASSUME NEW n \in P PROVE n + 1 \in P
  <2> SUFFICES ASSUME n + 1 <= m PROVE g[n + 1] = h[n + 1]
    OBVIOUS
  <2>1. n + 1 \in 1 .. m /\ (n + 1) - 1 = n /\ n <= m
    OBVIOUS
  <2>2. g[n + 1] = Apply(es[n + 1].edit, g[n]) /\ h[n + 1] = Apply(es[n + 1].edit, h[n])
    BY <2>1 DEF Run
  <2> QED BY <2>1, <2>2
<1> HIDE DEF P
<1>3. P = Nat
  <2>1. P \in SUBSET Nat
    BY DEF P
  <2> QED BY <1>1, <1>2, <2>1, Induct
<1> QED BY <1>3 DEF P

LEMMA ApplyAllRuns ==
    ASSUME NEW t, NEW es, Len(es) \in Nat
    PROVE  \E g : Run(t, es, Len(es), g) /\ ApplyAll(t, es) = g[Len(es)]
<1> DEFINE R == CHOOSE g : g = [n \in 0 .. Len(es) |->
                                   IF n = 0 THEN t ELSE Apply(es[n].edit, g[n - 1])]
<1>1. ApplyAll(t, es) = R[Len(es)]
  BY DEF ApplyAll
<1>2. PICK g : Run(t, es, Len(es), g)
  BY RunExists
<1>3. g = [n \in 0 .. Len(es) |-> IF n = 0 THEN t ELSE Apply(es[n].edit, g[n - 1])]
  <2>1. ASSUME NEW n \in 0 .. Len(es)
        PROVE  g[n] = IF n = 0 THEN t ELSE Apply(es[n].edit, g[n - 1])
    <3>1. CASE n = 0
      BY <3>1, <1>2 DEF Run
    <3>2. CASE n # 0
      <4>1. n \in 1 .. Len(es)
        BY <3>2
      <4> QED BY <3>2, <4>1, <1>2 DEF Run
    <3> QED BY <3>1, <3>2
  <2>2. g = [n \in 0 .. Len(es) |-> g[n]]
    BY <1>2 DEF Run
  <2> QED BY <2>1, <2>2
<1>4. R = [n \in 0 .. Len(es) |-> IF n = 0 THEN t ELSE Apply(es[n].edit, R[n - 1])]
  BY <1>3
<1> HIDE DEF R
<1>5. Run(t, es, Len(es), R)
  BY <1>4 DEF Run
<1> QED BY <1>1, <1>5

LEMMA ApplyAllIs ==
    ASSUME NEW t, NEW es, Len(es) \in Nat, NEW g, Run(t, es, Len(es), g)
    PROVE  ApplyAll(t, es) = g[Len(es)]
<1>1. PICK h : Run(t, es, Len(es), h) /\ ApplyAll(t, es) = h[Len(es)]
  BY ApplyAllRuns
<1>2. g[Len(es)] = h[Len(es)]
  BY <1>1, RunUnique
<1> QED BY <1>1, <1>2

\* Entries after entries.
LEMMA ApplyAllConcat ==
    ASSUME NEW S, NEW t, NEW a \in Seq(S), NEW b \in Seq(S)
    PROVE  ApplyAll(t, a \o b) = ApplyAll(ApplyAll(t, a), b)
<1>0. /\ Len(a) \in Nat /\ Len(b) \in Nat /\ Len(a \o b) = Len(a) + Len(b)
      /\ \A i \in 1 .. Len(a) + Len(b) : (a \o b)[i] = IF i <= Len(a) THEN a[i] ELSE b[i - Len(a)]
  OBVIOUS
<1>1. PICK g : Run(t, a, Len(a), g) /\ ApplyAll(t, a) = g[Len(a)]
  BY <1>0, ApplyAllRuns
<1>2. PICK h : Run(g[Len(a)], b, Len(b), h) /\ ApplyAll(g[Len(a)], b) = h[Len(b)]
  BY <1>0, ApplyAllRuns
<1> DEFINE m == Len(a) + Len(b)
           k == [n \in 0 .. m |-> IF n <= Len(a) THEN g[n] ELSE h[n - Len(a)]]
<1>3. k = [n \in 0 .. m |-> k[n]]
  OBVIOUS
<1>4. k[0] = t
  BY <1>0, <1>1 DEF Run
<1>5. ASSUME NEW n \in 1 .. m PROVE k[n] = Apply((a \o b)[n].edit, k[n - 1])
  <2>1. CASE n <= Len(a)
    <3>1. n \in 1 .. Len(a) /\ k[n] = g[n] /\ k[n - 1] = g[n - 1] /\ (a \o b)[n] = a[n]
      BY <2>1, <1>0
    <3> QED BY <3>1, <1>1 DEF Run
  <2>2. CASE n > Len(a)
    <3>1. n - Len(a) \in 1 .. Len(b) /\ k[n] = h[n - Len(a)] /\ (a \o b)[n] = b[n - Len(a)]
      BY <2>2, <1>0
    <3>2. k[n - 1] = h[(n - Len(a)) - 1]
      <4>1. CASE n = Len(a) + 1
        <5>1. k[n - 1] = g[Len(a)] /\ (n - Len(a)) - 1 = 0
          BY <4>1, <1>0
        <5> QED BY <5>1, <1>2 DEF Run
      <4>2. CASE n # Len(a) + 1
        <5>1. n - 1 \in 0 .. m /\ ~(n - 1 <= Len(a)) /\ (n - 1) - Len(a) = (n - Len(a)) - 1
          BY <4>2, <2>2, <1>0
        <5> QED BY <5>1
      <4> QED BY <4>1, <4>2
    <3>3. h[n - Len(a)] = Apply(b[n - Len(a)].edit, h[(n - Len(a)) - 1])
      BY <3>1, <1>2 DEF Run
    <3> HIDE DEF k
    <3> QED BY <3>1, <3>2, <3>3
  <2> QED BY <2>1, <2>2, <1>0
<1>6. k[m] = h[Len(b)]
  <2>1. CASE Len(b) = 0
    BY <2>1, <1>0, <1>2 DEF Run
  <2>2. CASE Len(b) # 0
    BY <2>2, <1>0
  <2> QED BY <2>1, <2>2
<1> HIDE DEF k
<1>7. Run(t, a \o b, Len(a \o b), k)
  BY <1>0, <1>3, <1>4, <1>5 DEF Run
<1>8. ApplyAll(t, a \o b) = k[m]
  <2>1. PICK c : c = a \o b
    OBVIOUS
  <2>2. Len(c) \in Nat /\ Len(c) = m /\ Run(t, c, Len(c), k)
    BY <2>1, <1>0, <1>7
  <2>3. ApplyAll(t, c) = k[Len(c)]
    BY <2>2, ApplyAllIs
  <2> QED BY <2>1, <2>2, <2>3
<1> QED BY <1>1, <1>2, <1>6, <1>8

LEMMA ApplyAllNone ==
    ASSUME NEW t
    PROVE  ApplyAll(t, <<>>) = t
<1>1. Len(<<>>) = 0 /\ 0 \in Nat
  OBVIOUS
<1>2. PICK g : Run(t, <<>>, Len(<<>>), g) /\ ApplyAll(t, <<>>) = g[Len(<<>>)]
  BY <1>1, ApplyAllRuns
<1> QED BY <1>1, <1>2 DEF Run

LEMMA ApplyAllOne ==
    ASSUME NEW t, NEW e
    PROVE  ApplyAll(t, <<e>>) = Apply(e.edit, t)
<1>1. Len(<<e>>) = 1 /\ <<e>>[1] = e
  OBVIOUS
<1>2. PICK g : Run(t, <<e>>, Len(<<e>>), g) /\ ApplyAll(t, <<e>>) = g[Len(<<e>>)]
  BY <1>1, ApplyAllRuns
<1>3. g[0] = t /\ g[1] = Apply(<<e>>[1].edit, g[1 - 1])
  BY <1>1, <1>2 DEF Run
<1> QED BY <1>1, <1>2, <1>3

----------------------------------------------------------------------------
(* Edits that follow one another from text to text.                        *)

Leads(es, a, b) ==
    /\ es \in Seq(Edits)
    /\ IF es = <<>> THEN a = b ELSE es[1].from = a /\ es[Len(es)].to = b
    /\ \A i \in 1 .. Len(es) - 1 : es[i].to = es[i + 1].from

LEMMA LeadsOn ==
    ASSUME NEW x, NEW y, NEW a, NEW b, NEW c, Leads(x, a, b), Leads(y, b, c)
    PROVE  Leads(x \o y, a, c)
<1>0. x \in Seq(Edits) /\ y \in Seq(Edits)
  BY DEF Leads
<1>1. CASE x = <<>>
  <2>1. x \o y = y /\ a = b
    BY <1>0, <1>1 DEF Leads
  <2> QED BY <2>1
<1>2. CASE y = <<>>
  <2>1. x \o y = x /\ b = c
    BY <1>0, <1>2 DEF Leads
  <2> QED BY <2>1
<1>3. CASE x # <<>> /\ y # <<>>
  <2>1. PICK z : z = x \o y
    OBVIOUS
  <2>2. /\ z \in Seq(Edits) /\ Len(x) \in Nat \ {0} /\ Len(y) \in Nat \ {0}
        /\ Len(z) = Len(x) + Len(y)
        /\ \A i \in 1 .. Len(x) + Len(y) : z[i] = IF i <= Len(x) THEN x[i] ELSE y[i - Len(x)]
    BY <2>1, <1>0, <1>3
  <2>3. z # <<>> /\ z[1] = x[1] /\ z[Len(z)] = y[Len(y)]
    <3>1. Len(z) # 0 /\ 1 \in 1 .. Len(x) + Len(y) /\ 1 <= Len(x)
      BY <2>2
    <3>2. Len(z) \in 1 .. Len(x) + Len(y) /\ ~(Len(z) <= Len(x)) /\ Len(z) - Len(x) = Len(y)
      BY <2>2
    <3>3. z # <<>>
      BY <3>1
    <3> QED BY <3>1, <3>2, <3>3, <2>2
  <2>4. ASSUME NEW i \in 1 .. Len(z) - 1 PROVE z[i].to = z[i + 1].from
    <3>1. CASE i < Len(x)
      <4>1. z[i] = x[i] /\ z[i + 1] = x[i + 1] /\ i \in 1 .. Len(x) - 1
        BY <3>1, <2>2
      <4> QED BY <4>1 DEF Leads
    <3>2. CASE i = Len(x)
      <4>1. z[i] = x[Len(x)] /\ z[i + 1] = y[1]
        BY <3>2, <2>2
      <4> QED BY <4>1, <1>3 DEF Leads
    <3>3. CASE i > Len(x)
      <4>1. /\ z[i] = y[i - Len(x)] /\ z[i + 1] = y[(i - Len(x)) + 1]
            /\ i - Len(x) \in 1 .. Len(y) - 1
        BY <3>3, <2>2
      <4> QED BY <4>1 DEF Leads
    <3> QED BY <3>1, <3>2, <3>3, <2>2
  <2>5. x[1].from = a /\ y[Len(y)].to = c
    BY <1>3 DEF Leads
  <2>6. Leads(z, a, c)
    BY <2>2, <2>3, <2>4, <2>5 DEF Leads
  <2> QED BY <2>1, <2>6
<1> QED BY <1>1, <1>2, <1>3

LEMMA NoEditIsNone == NoEdit \notin Edits
<1> SUFFICES ASSUME NoEdit \in Edits PROVE FALSE
  OBVIOUS
<1>1. NoEdit.from \in Texts
  BY DEF Edits
<1> QED BY <1>1, TextsAssumption

\* Applying them comes to where they lead.
LEMMA ApplyAllLeads ==
    ASSUME NEW es, NEW a, NEW b, Leads(es, a, b), NEW ch, Len(ch) = Len(es),
           \A i \in 1 .. Len(es) : ch[i].edit = es[i]
    PROVE  ApplyAll(a, ch) = b
<1>0. es \in Seq(Edits) /\ Len(es) \in Nat /\ \A i \in 1 .. Len(es) : es[i] \in Edits
  BY DEF Leads
<1> DEFINE g == [n \in 0 .. Len(es) |-> IF n = 0 THEN a ELSE es[n].to]
<1>1. g = [n \in 0 .. Len(es) |-> g[n]] /\ g[0] = a
  BY <1>0
<1>2. ASSUME NEW n \in 1 .. Len(es) PROVE g[n] = Apply(ch[n].edit, g[n - 1])
  <2>1. g[n] = es[n].to /\ ch[n].edit = es[n] /\ es[n] \in Edits
    BY <1>0
  <2>2. g[n - 1] = es[n].from
    <3>1. CASE n = 1
      <4>1. es # <<>>
        BY <3>1, <1>0
      <4> QED BY <3>1, <4>1, <1>0 DEF Leads
    <3>2. CASE n # 1
      <4>1. n - 1 \in 1 .. Len(es) - 1 /\ (n - 1) + 1 = n
        BY <3>2, <1>0
      <4>2. es[n - 1].to = es[(n - 1) + 1].from
        BY <4>1 DEF Leads
      <4>3. g[n - 1] = es[n - 1].to
        BY <4>1, <1>0
      <4> QED BY <4>1, <4>2, <4>3
    <3> QED BY <3>1, <3>2
  <2>3. es[n] # NoEdit
    BY <2>1, NoEditIsNone
  <2> HIDE DEF g
  <2> QED BY <2>1, <2>2, <2>3 DEF Apply
<1>3. g[Len(es)] = b
  <2>1. CASE es = <<>>
    BY <2>1, <1>0 DEF Leads
  <2>2. CASE es # <<>>
    <3>1. Len(es) # 0
      BY <2>2, <1>0
    <3> QED BY <2>2, <3>1, <1>0 DEF Leads
  <2> QED BY <2>1, <2>2
<1> HIDE DEF g
<1>4. Run(a, ch, Len(ch), g)
  BY <1>1, <1>2 DEF Run
<1>5. ApplyAll(a, ch) = g[Len(ch)]
  BY <1>0, <1>4, ApplyAllIs
<1> QED BY <1>3, <1>5

----------------------------------------------------------------------------
(* Walks through the undo tree.                                            *)

LEMMA NodeFacts ==
    ASSUME TreeInv
    PROVE  /\ count \in Nat \ {0} /\ H!Nodes = Nodes /\ Root \in Nodes /\ current \in Nodes
           /\ \A n \in Nodes : n \in Nat /\ n < count
           /\ \A n \in Nodes : ancestry[n] \subseteq Nodes
           /\ \A n \in Nodes : n # Root => parent[n] \in Nodes /\ parent[n] < n
<1>1. count \in Nat \ {0}
  BY BoundsAssumption DEF TreeInv, H!TypeOK
<1>2. H!Nodes = Nodes /\ current \in Nodes
  BY DEF TreeInv, H!TypeOK, H!Nodes, Nodes
<1>3. \A n \in Nodes : ancestry[n] \subseteq Nodes
  BY <1>2 DEF TreeInv, H!TypeOK
<1>4. \A n \in Nodes : n \in Nat /\ n < count
  BY <1>1 DEF Nodes
<1>5. Root \in Nodes
  BY <1>1 DEF Nodes, Root
<1>6. ASSUME NEW n \in Nodes, n # Root PROVE parent[n] \in Nodes /\ parent[n] < n
  <2>1. parent[n] \in 0 .. n - 1
    BY <1>6 DEF TreeInv
  <2> QED BY <2>1, <1>1, <1>4 DEF Nodes
<1> QED BY <1>1, <1>2, <1>3, <1>4, <1>5, <1>6

\* What walking up from each of the nodes gives.
LEMMA PathExists ==
    ASSUME TreeInv, NEW above, Root \in above
    PROVE  \E g : g = [m \in Nodes |-> IF m \in above THEN <<>> ELSE Append(g[parent[m]], m)]
<1> DEFINE Good(k, g) == g = [m \in 0 .. k |-> IF m \in above THEN <<>> ELSE Append(g[parent[m]], m)]
           P == {k \in Nat : k < count => \E g : Good(k, g)}
<1>0. count \in Nat \ {0} /\ \A n \in Nodes : n # Root => parent[n] \in 0 .. n - 1
  BY NodeFacts DEF TreeInv
<1>1. 0 \in P
  <2> DEFINE g == [m \in 0 .. 0 |-> <<>>]
  <2>1. \A m \in 0 .. 0 : m \in above
    BY DEF Root
  <2>2. Good(0, g)
    BY <2>1
  <2> QED BY <2>2
<1>2. ASSUME NEW k \in P PROVE k + 1 \in P
  <2> SUFFICES ASSUME k + 1 < count PROVE \E g : Good(k + 1, g)
    OBVIOUS
  <2>1. k \in Nat /\ k < count
    BY <1>0
  <2>2. PICK g : Good(k, g)
    BY <2>1
  <2> DEFINE last == IF k + 1 \in above THEN <<>> ELSE Append(g[parent[k + 1]], k + 1)
             h == [m \in 0 .. k + 1 |-> IF m = k + 1 THEN last ELSE g[m]]
  <2>3. ASSUME NEW m \in 0 .. k + 1
        PROVE  h[m] = IF m \in above THEN <<>> ELSE Append(h[parent[m]], m)
    <3>1. CASE m \in above
      <4>1. CASE m = k + 1
        BY <3>1, <4>1
      <4>2. CASE m # k + 1
        <5>1. m \in 0 .. k /\ h[m] = g[m]
          BY <4>2, <2>1
        <5> QED BY <3>1, <5>1, <2>2
      <4> QED BY <4>1, <4>2
    <3>2. CASE m \notin above
      <4>1. m \in Nodes /\ m # Root
        BY <3>2, <2>1, <1>0 DEF Nodes
      <4>2. parent[m] \in 0 .. m - 1
        BY <4>1, <1>0
      <4>3. parent[m] \in 0 .. k /\ h[parent[m]] = g[parent[m]]
        BY <4>2, <2>1
      <4>4. CASE m = k + 1
        BY <3>2, <4>3, <4>4
      <4>5. CASE m # k + 1
        <5>1. m \in 0 .. k /\ h[m] = g[m]
          BY <4>5, <2>1
        <5>2. g[m] = Append(g[parent[m]], m)
          BY <3>2, <5>1, <2>2
        <5> QED BY <3>2, <4>3, <5>1, <5>2
      <4> QED BY <4>4, <4>5
    <3> QED BY <3>1, <3>2
  <2>4. h = [m \in 0 .. k + 1 |-> h[m]]
    OBVIOUS
  <2> HIDE DEF h
  <2>5. Good(k + 1, h)
    BY <2>3, <2>4
  <2> QED BY <2>5
<1> HIDE DEF P
<1>3. P = Nat
  <2>1. P \in SUBSET Nat
    BY DEF P
  <2> QED BY <1>1, <1>2, <2>1, Induct
<1>4. count - 1 \in Nat /\ count - 1 < count
  BY <1>0
<1>5. \E g : Good(count - 1, g)
  BY <1>3, <1>4 DEF P
<1> QED BY <1>5 DEF Nodes

\* s names the nodes below a down to n, each the child of the one before.
Descends(s, a, n) ==
    /\ s \in Seq(Nodes \ {Root})
    /\ IF s = <<>> THEN a = n ELSE parent[s[1]] = a /\ s[Len(s)] = n
    /\ \A i \in 1 .. Len(s) - 1 : parent[s[i + 1]] = s[i]

\* The nearest ancestor of n among those above.
Nearest(a, n, above) ==
    /\ a \in ancestry[n] /\ a \in above
    /\ \A k \in ancestry[n] : k \in above => k <= a

LEMMA PathFacts ==
    ASSUME TreeInv, NEW n \in Nodes, NEW above, Root \in above
    PROVE  \E a \in Nodes : Descends(Path(n, above), a, n) /\ Nearest(a, n, above)
<1>0. /\ count \in Nat \ {0} /\ H!Nodes = Nodes
      /\ \A m \in Nodes : m \in Nat /\ m < count
      /\ \A m \in Nodes : ancestry[m] \subseteq Nodes
      /\ \A m \in Nodes : m # Root => parent[m] \in Nodes /\ parent[m] < m
  BY NodeFacts
<1> DEFINE R == CHOOSE g : g = [m \in Nodes |-> IF m \in above THEN <<>> ELSE Append(g[parent[m]], m)]
<1>1. Path(n, above) = R[n]
  BY <1>0 DEF Path
<1>2. R = [m \in Nodes |-> IF m \in above THEN <<>> ELSE Append(R[parent[m]], m)]
  BY PathExists
<1> HIDE DEF R
<1> DEFINE Good(m) == \E a \in Nodes : Descends(R[m], a, m) /\ Nearest(a, m, above)
           P == {k \in Nat : \A m \in Nodes : m <= k => Good(m)}
<1>3. ASSUME NEW m \in Nodes, m \in above PROVE Good(m)
  <2>1. R[m] = <<>>
    BY <1>2, <1>3
  <2>2. Descends(R[m], m, m)
    BY <2>1 DEF Descends
  <2>3. Nearest(m, m, above)
    BY <1>3 DEF TreeInv, Nearest
  <2> QED BY <2>2, <2>3
<1>4. ASSUME NEW m \in Nodes, m \notin above, Good(parent[m]) PROVE Good(m)
  <2>1. m # Root /\ parent[m] \in Nodes
    BY <1>0, <1>4
  <2>2. PICK a \in Nodes : Descends(R[parent[m]], a, parent[m]) /\ Nearest(a, parent[m], above)
    BY <1>4
  <2>3. PICK s : s = R[parent[m]]
    OBVIOUS
  <2>4. s \in Seq(Nodes \ {Root}) /\ R[m] = Append(s, m)
    BY <2>2, <2>3, <1>2, <1>4 DEF Descends
  <2>5. PICK r : r = Append(s, m)
    OBVIOUS
  <2>6. /\ r \in Seq(Nodes \ {Root}) /\ Len(s) \in Nat /\ Len(r) = Len(s) + 1 /\ r # <<>>
        /\ r[Len(r)] = m /\ \A i \in 1 .. Len(s) : r[i] = s[i]
    BY <2>1, <2>4, <2>5
  <2>7. parent[r[1]] = a
    <3>1. CASE s = <<>>
      <4>1. r[1] = m /\ a = parent[m]
        BY <3>1, <2>2, <2>3, <2>6 DEF Descends
      <4> QED BY <4>1
    <3>2. CASE s # <<>>
      <4>1. r[1] = s[1]
        BY <3>2, <2>4, <2>6
      <4> QED BY <3>2, <4>1, <2>2, <2>3 DEF Descends
    <3> QED BY <3>1, <3>2
  <2>8. ASSUME NEW i \in 1 .. Len(r) - 1 PROVE parent[r[i + 1]] = r[i]
    <3>1. CASE i = Len(s)
      <4>1. r[i + 1] = m /\ r[i] = s[Len(s)] /\ s # <<>>
        BY <3>1, <2>4, <2>6
      <4> QED BY <4>1, <2>2, <2>3 DEF Descends
    <3>2. CASE i # Len(s)
      <4>1. i \in 1 .. Len(s) - 1 /\ r[i] = s[i] /\ r[i + 1] = s[i + 1]
        BY <3>2, <2>6
      <4> QED BY <4>1, <2>2, <2>3 DEF Descends
    <3> QED BY <3>1, <3>2
  <2>9. Descends(r, a, m)
    BY <2>6, <2>7, <2>8 DEF Descends
  <2>10. ancestry[m] = ancestry[parent[m]] \cup {m}
    BY <2>1 DEF TreeInv
  <2>11. Nearest(a, m, above)
    BY <2>2, <2>10, <1>4 DEF Nearest
  <2> QED BY <2>4, <2>5, <2>9, <2>11
<1>5. 0 \in P
  <2> SUFFICES ASSUME NEW m \in Nodes, m <= 0 PROVE Good(m)
    OBVIOUS
  <2>1. m = Root
    BY <1>0 DEF Root
  <2> QED BY <2>1, <1>3
<1>6. ASSUME NEW k \in P PROVE k + 1 \in P
  <2> SUFFICES ASSUME NEW m \in Nodes, m <= k + 1 PROVE Good(m)
    OBVIOUS
  <2>1. CASE m \in above
    BY <2>1, <1>3
  <2>2. CASE m \notin above
    <3>1. parent[m] \in Nodes /\ parent[m] <= k /\ k \in Nat
      BY <2>2, <1>0
    <3>2. Good(parent[m])
      BY <3>1
    <3> QED BY <2>2, <3>2, <1>4
  <2> QED BY <2>1, <2>2
<1> HIDE DEF P
<1>7. P = Nat
  <2>1. P \in SUBSET Nat
    BY DEF P
  <2> QED BY <1>5, <1>6, <2>1, Induct
<1>8. n \in P /\ n <= n
  BY <1>0, <1>7
<1>9. Good(n)
  BY <1>8 DEF P
<1> QED BY <1>1, <1>9

\* The edits of a walk lead from the text of `current` to that of its target.
LEMMA StepEditsLead ==
    ASSUME IInv, NEW t \in Nodes
    PROVE  Leads(StepEdits(t), text, NodeText(t))
<1>0. /\ TreeInv /\ EdgeInv /\ forward \in [1 .. count - 1 -> Edits]
      /\ text = NodeText(current) /\ current \in Nodes /\ count \in Nat \ {0}
      /\ \A n \in Nodes : Root \in ancestry[n]
  BY NodeFacts DEF IInv, TextTyped, TextIsCurrentNodes, TreeInv
<1>1. \A n \in Nodes : n # Root => /\ forward[n] \in Edits /\ forward[n].to = NodeText(n)
                                   /\ forward[n].from = NodeText(parent[n])
  <2> SUFFICES ASSUME NEW n \in Nodes, n # Root
               PROVE  /\ forward[n] \in Edits /\ forward[n].to = NodeText(n)
                      /\ forward[n].from = NodeText(parent[n])
    OBVIOUS
  <2>1. n \in 1 .. count - 1
    BY <1>0 DEF Nodes, Root
  <2> QED BY <2>1, <1>0 DEF EdgeInv, NodeText, Root, H!Root
<1>2. PICK up : up = Path(current, ancestry[t])
  OBVIOUS
<1>3. PICK down : down = Path(t, ancestry[current])
  OBVIOUS
<1>4. PICK a \in Nodes : Descends(up, a, current) /\ Nearest(a, current, ancestry[t])
  BY <1>0, <1>2, PathFacts
<1>5. PICK b \in Nodes : Descends(down, b, t) /\ Nearest(b, t, ancestry[current])
  BY <1>0, <1>3, PathFacts
<1>6. a = b
  <2>1. a \in Nat /\ b \in Nat
    BY <1>0, NodeFacts
  <2>2. b <= a /\ a <= b
    BY <1>4, <1>5 DEF Nearest
  <2> QED BY <2>1, <2>2
<1>7. /\ up \in Seq(Nodes \ {Root}) /\ Len(up) \in Nat
      /\ \A i \in 1 .. Len(up) : up[i] \in Nodes /\ up[i] # Root
      /\ down \in Seq(Nodes \ {Root}) /\ Len(down) \in Nat
      /\ \A i \in 1 .. Len(down) : down[i] \in Nodes /\ down[i] # Root
  BY <1>4, <1>5 DEF Descends
<1>8. PICK inv : inv = [i \in 1 .. Len(up) |-> InverseEdit(forward[up[Len(up) + 1 - i]])]
  OBVIOUS
<1>9. PICK fwd : fwd = [i \in 1 .. Len(down) |-> forward[down[i]]]
  OBVIOUS
<1>10. StepEdits(t) = inv \o fwd
  BY <1>2, <1>3, <1>8, <1>9 DEF StepEdits
<1>11. Leads(fwd, NodeText(b), NodeText(t))
  <2>1. \A i \in 1 .. Len(down) : fwd[i] = forward[down[i]] /\ fwd[i] \in Edits
    BY <1>1, <1>7, <1>9
  <2>2. fwd \in Seq(Edits) /\ Len(fwd) = Len(down)
    BY <2>1, <1>7, <1>9
  <2>3. CASE down = <<>>
    <3>1. fwd = <<>> /\ b = t /\ Len(fwd) = 0
      BY <2>2, <2>3, <1>5 DEF Descends
    <3> QED BY <3>1, <2>2 DEF Leads
  <2>4. CASE down # <<>>
    <3>1. Len(down) # 0 /\ 1 \in 1 .. Len(down) /\ Len(down) \in 1 .. Len(down)
      BY <2>4, <1>7
    <3>2. fwd # <<>>
      BY <3>1, <2>2
    <3>3. parent[down[1]] = b /\ down[Len(down)] = t
      BY <2>4, <1>5 DEF Descends
    <3>4. fwd[1].from = NodeText(b) /\ fwd[Len(fwd)].to = NodeText(t)
      BY <3>1, <3>3, <2>1, <2>2, <1>1, <1>7
    <3>5. ASSUME NEW i \in 1 .. Len(fwd) - 1 PROVE fwd[i].to = fwd[i + 1].from
      <4>1. i \in 1 .. Len(down) /\ i + 1 \in 1 .. Len(down) /\ i \in 1 .. Len(down) - 1
        BY <2>2, <1>7
      <4>2. parent[down[i + 1]] = down[i]
        BY <4>1, <1>5 DEF Descends
      <4>3. fwd[i].to = NodeText(down[i]) /\ fwd[i + 1].from = NodeText(parent[down[i + 1]])
        BY <4>1, <2>1, <1>1, <1>7
      <4> QED BY <4>2, <4>3
    <3> QED BY <3>2, <3>4, <3>5, <2>2 DEF Leads
  <2> QED BY <2>3, <2>4
<1>12. Leads(inv, NodeText(current), NodeText(a))
  <2>0. \A i \in 1 .. Len(up) : Len(up) + 1 - i \in 1 .. Len(up)
    BY <1>7
  <2>1. ASSUME NEW i \in 1 .. Len(up)
        PROVE  /\ inv[i] \in Edits
               /\ inv[i].from = NodeText(up[Len(up) + 1 - i])
               /\ inv[i].to = NodeText(parent[up[Len(up) + 1 - i]])
    <3>1. PICK u : u = up[Len(up) + 1 - i]
      OBVIOUS
    <3>2. u \in Nodes /\ u # Root
      BY <3>1, <2>0, <1>7
    <3>3. inv[i] = InverseEdit(forward[u])
      BY <3>1, <1>8
    <3>4. /\ forward[u] \in Edits /\ forward[u].to = NodeText(u)
          /\ forward[u].from = NodeText(parent[u])
      BY <3>2, <1>1
    <3>5. inv[i] \in Edits /\ inv[i].from = forward[u].to /\ inv[i].to = forward[u].from
      BY <3>3, <3>4 DEF InverseEdit, Edits
    <3> QED BY <3>1, <3>4, <3>5
  <2>2. inv \in Seq(Edits) /\ Len(inv) = Len(up)
    BY <2>1, <1>7, <1>8
  <2>3. CASE up = <<>>
    <3>1. inv = <<>> /\ a = current /\ Len(inv) = 0
      BY <2>2, <2>3, <1>4 DEF Descends
    <3> QED BY <3>1, <2>2 DEF Leads
  <2>4. CASE up # <<>>
    <3>1. /\ Len(up) # 0 /\ 1 \in 1 .. Len(up) /\ Len(up) \in 1 .. Len(up)
          /\ Len(up) + 1 - 1 = Len(up) /\ Len(up) + 1 - Len(up) = 1
      BY <2>4, <1>7
    <3>2. inv # <<>>
      BY <3>1, <2>2
    <3>3. parent[up[1]] = a /\ up[Len(up)] = current
      BY <2>4, <1>4 DEF Descends
    <3>4. inv[1].from = NodeText(current)
      BY <3>1, <3>3, <2>1
    <3>5. inv[Len(inv)].to = NodeText(a)
      BY <3>1, <3>3, <2>1, <2>2
    <3>6. ASSUME NEW i \in 1 .. Len(inv) - 1 PROVE inv[i].to = inv[i + 1].from
      <4>1. i \in 1 .. Len(up) /\ i + 1 \in 1 .. Len(up)
        BY <2>2, <1>7
      <4>2. PICK k : k = Len(up) - i
        OBVIOUS
      <4>3. k \in 1 .. Len(up) - 1 /\ Len(up) + 1 - i = k + 1 /\ Len(up) + 1 - (i + 1) = k
        BY <4>2, <2>2, <1>7
      <4>4. parent[up[k + 1]] = up[k]
        BY <4>3, <1>4 DEF Descends
      <4>5. inv[i].to = NodeText(parent[up[k + 1]]) /\ inv[i + 1].from = NodeText(up[k])
        BY <4>1, <4>3, <2>1
      <4> QED BY <4>4, <4>5
    <3> QED BY <3>2, <3>4, <3>5, <3>6, <2>2 DEF Leads
  <2> QED BY <2>3, <2>4
<1>13. PICK x : x = NodeText(current)
  OBVIOUS
<1>14. PICK y : y = NodeText(a)
  OBVIOUS
<1>15. PICK z : z = NodeText(t)
  OBVIOUS
<1>16. Leads(inv, x, y) /\ Leads(fwd, y, z)
  BY <1>6, <1>11, <1>12, <1>13, <1>14, <1>15
<1>17. Leads(inv \o fwd, x, z)
  BY <1>16, LeadsOn
<1> QED BY <1>0, <1>10, <1>13, <1>15, <1>17

----------------------------------------------------------------------------
(* The change log.                                                         *)

LEMMA ChainedFacts ==
    ASSUME revision \in 0 .. MaxRevision, NEW es \in Seq(Edits \cup {NoEdit}),
           revision + Len(es) <= MaxRevision
    PROVE  /\ Chained(es) \in Seq(Entries) /\ Len(Chained(es)) = Len(es)
           /\ \A i \in 1 .. Len(es) : /\ Chained(es)[i].edit = es[i]
                                      /\ Chained(es)[i].base = revision + i - 1
                                      /\ Chained(es)[i].result = revision + i
<1>0. Len(es) \in Nat /\ revision \in Nat /\ MaxRevision \in Nat
  BY BoundsAssumption
<1>1. PICK ch : ch = Chained(es)
  OBVIOUS
<1>2. ch = [i \in 1 .. Len(es) |->
              [base |-> revision + i - 1, result |-> revision + i, edit |-> es[i]]]
  BY <1>1 DEF Chained
<1>3. ASSUME NEW i \in 1 .. Len(es)
      PROVE  /\ ch[i] \in Entries /\ ch[i].edit = es[i]
             /\ ch[i].base = revision + i - 1 /\ ch[i].result = revision + i
  <2>1. PICK e : e = es[i]
    OBVIOUS
  <2>2. e \in Edits \cup {NoEdit}
    BY <2>1
  <2>3. revision + i - 1 \in 0 .. MaxRevision /\ revision + i \in 0 .. MaxRevision
    BY <1>0
  <2>4. ch[i] = [base |-> revision + i - 1, result |-> revision + i, edit |-> e]
    BY <2>1, <1>2
  <2> HIDE DEF Edits
  <2> QED BY <2>1, <2>2, <2>3, <2>4 DEF Entries
<1>4. ch \in Seq(Entries) /\ Len(ch) = Len(es)
  BY <1>0, <1>2, <1>3
<1> QED BY <1>1, <1>3, <1>4

LEMMA ConcatFacts ==
    ASSUME NEW S, NEW s \in Seq(S), NEW t \in Seq(S)
    PROVE  /\ s \o t \in Seq(S) /\ Len(s \o t) = Len(s) + Len(t)
           /\ \A i \in 1 .. Len(s) + Len(t) :
                 (s \o t)[i] = IF i <= Len(s) THEN s[i] ELSE t[i - Len(s)]
OBVIOUS

\* One entry per revision is pushed.
LEMMA PushKeeps ==
    ASSUME LogTyped, TextTyped, LogReplaysToText,
           NEW es \in Seq(Edits \cup {NoEdit}), NEW big \in BOOLEAN,
           revision + Len(es) <= MaxRevision,
           Push(Chained(es), big),
           text' = ApplyAll(text, Chained(es)), revision' = revision + Len(es),
           drained' = drained
    PROVE  LogTyped' /\ LogReplaysToText'
<1>0. /\ revision \in 0 .. MaxRevision /\ revision \in Nat /\ Len(es) \in Nat
      /\ entries \in Seq(Entries) /\ Len(entries) \in Nat
      /\ drained.revision \in Nat /\ LogCap \in Nat
  BY BoundsAssumption, LogCapAssumption DEF TextTyped, LogTyped
<1>1. PICK ch : ch = Chained(es)
  OBVIOUS
<1>2. /\ ch \in Seq(Entries) /\ Len(ch) = Len(es)
      /\ \A i \in 1 .. Len(es) : /\ ch[i].base = revision + i - 1
                                 /\ ch[i].result = revision + i
  BY <1>0, <1>1, ChainedFacts
<1>3. CASE ~Wants
  <2>1. UNCHANGED <<recording, entries, lost>>
    BY <1>3 DEF Push
  <2> QED BY <2>1, <1>3 DEF LogTyped, LogReplaysToText, Wants
<1>4. CASE Wants /\ (Len(entries) + Len(ch) > LogCap \/ big)
  <2>1. recording' = recording /\ entries' = <<>> /\ lost' = "Overflow"
    BY <1>1, <1>4 DEF Push
  <2>2. ~Wants'
    BY <2>1 DEF Wants, None
  <2>3. LogReplaysToText'
    BY <2>2 DEF LogReplaysToText
  <2>4. <<>> \in Seq(Entries) /\ Len(<<>>) = 0
    OBVIOUS
  <2> QED BY <2>1, <2>3, <2>4, <1>0 DEF LogTyped
<1>5. CASE Wants /\ ~(Len(entries) + Len(ch) > LogCap \/ big)
  <2>1. recording' = recording /\ entries' = entries \o ch /\ lost' = lost
    BY <1>1, <1>5 DEF Push
  <2>2. PICK old \in Seq(Entries) : old = entries
    BY <1>0
  <2>3. PICK all : all = old \o ch
    OBVIOUS
  <2> DEFINE n == Len(old)
             k0 == Len(ch)
  <2>a. n \in Nat /\ k0 \in Nat /\ k0 = Len(es) /\ n = Len(entries)
    BY <2>2, <1>0, <1>2
  <2>4. /\ all \in Seq(Entries) /\ Len(all) = Len(old) + Len(ch)
        /\ \A i \in 1 .. Len(old) + Len(ch) :
              all[i] = IF i <= Len(old) THEN old[i] ELSE ch[i - Len(old)]
    <3>1. ch \in Seq(Entries)
      BY <1>2
    <3>2. /\ old \o ch \in Seq(Entries) /\ Len(old \o ch) = Len(old) + Len(ch)
          /\ \A i \in 1 .. Len(old) + Len(ch) :
                (old \o ch)[i] = IF i <= Len(old) THEN old[i] ELSE ch[i - Len(old)]
      BY <3>1, ConcatFacts
    <3> QED BY <3>2, <2>3
  <2>5. entries' = all
    BY <2>1, <2>2, <2>3
  <2>6. LogTyped'
    <3>1. Len(all) <= LogCap
      BY <2>4, <2>a, <1>0, <1>5
    <3> QED BY <3>1, <2>1, <2>4, <2>5 DEF LogTyped
  <2>7. /\ ApplyAll(drained.text, old) = text
        /\ \A i \in 1 .. Len(old) : /\ old[i].base = drained.revision + i - 1
                                    /\ old[i].result = drained.revision + i
        /\ drained.revision + Len(old) = revision
    BY <2>2, <1>5 DEF LogReplaysToText
  <2>8. ApplyAll(drained'.text, all) = text'
    <3>1. PICK d : d = drained.text
      OBVIOUS
    <3>2. ApplyAll(d, old \o ch) = ApplyAll(ApplyAll(d, old), ch)
      BY <2>2, <1>0, <1>2, ApplyAllConcat
    <3> QED BY <3>1, <3>2, <2>3, <2>7, <1>1
  <2>9. ASSUME NEW i \in 1 .. Len(all)
        PROVE  all[i].base = drained'.revision + i - 1 /\ all[i].result = drained'.revision + i
    <3>1. CASE i <= Len(old)
      <4>1. i \in 1 .. Len(old) /\ all[i] = old[i]
        BY <3>1, <2>4, <2>a
      <4> QED BY <4>1, <2>7
    <3>2. CASE i > Len(old)
      <4>1. PICK k \in 1 .. Len(ch) : i = Len(old) + k
        <5>1. i - Len(old) \in 1 .. Len(ch) /\ i = Len(old) + (i - Len(old))
          BY <3>2, <2>4, <2>a
        <5> QED BY <5>1
      <4>2. all[i] = ch[k]
        <5>1. i \in 1 .. n + k0 /\ ~(i <= n) /\ i - n = k
          BY <4>1, <2>4, <2>a
        <5> QED BY <5>1, <2>4
      <4>3. ch[k].base = revision + k - 1 /\ ch[k].result = revision + k
        BY <2>a, <1>2
      <4>4. revision + k - 1 = drained.revision + i - 1 /\ revision + k = drained.revision + i
        <5>1. k \in Nat /\ n \in Nat /\ i = n + k
          BY <4>1, <2>a
        <5>2. PICK d \in Nat : d = drained.revision
          BY <1>0
        <5>3. d + n = revision
          BY <5>2, <2>7
        <5> HIDE DEF n
        <5> QED BY <5>1, <5>2, <5>3
      <4> QED BY <4>2, <4>3, <4>4
    <3> QED BY <3>1, <3>2, <2>4, <2>a
  <2>10. drained'.revision + Len(all) = revision'
    BY <2>4, <2>7, <2>a, <1>0
  <2>11. LogReplaysToText'
    BY <2>5, <2>8, <2>9, <2>10 DEF LogReplaysToText
  <2> QED BY <2>6, <2>11
<1> QED BY <1>3, <1>4, <1>5

\* One edit is pushed.
LEMMA PushOne ==
    ASSUME LogTyped, TextTyped, LogReplaysToText,
           NEW e \in Edits \cup {NoEdit}, NEW big \in BOOLEAN,
           revision < MaxRevision, Push(Chained(<<e>>), big),
           text' = Apply(e, text), revision' = revision + 1, drained' = drained
    PROVE  LogTyped' /\ LogReplaysToText'
<1>1. PICK es : es = <<e>>
  OBVIOUS
<1>2. /\ es \in Seq(Edits \cup {NoEdit}) /\ Len(es) = 1 /\ es[1] = e
  BY <1>1
<1>3. revision \in 0 .. MaxRevision /\ revision + 1 <= MaxRevision
  BY BoundsAssumption DEF TextTyped
<1>4. PICK ch : ch = Chained(es)
  OBVIOUS
<1>5. ch \in Seq(Entries) /\ Len(ch) = 1 /\ ch[1].edit = e
  <2>1. revision + Len(es) <= MaxRevision
    BY <1>2, <1>3
  <2>2. /\ ch \in Seq(Entries) /\ Len(ch) = Len(es)
        /\ \A i \in 1 .. Len(es) : ch[i].edit = es[i]
    BY <2>1, <1>2, <1>3, <1>4, ChainedFacts
  <2>3. 1 \in 1 .. Len(es)
    BY <1>2
  <2> QED BY <2>2, <2>3, <1>2
<1>6. ch = <<ch[1]>>
  BY <1>5
<1>7. PICK c : c = ch[1]
  OBVIOUS
<1>8. PICK x : x = text
  OBVIOUS
<1>9. ApplyAll(x, <<c>>) = Apply(c.edit, x)
  BY ApplyAllOne
<1>10. text' = ApplyAll(text, Chained(es))
  BY <1>4, <1>5, <1>6, <1>7, <1>8, <1>9
<1>11. Push(Chained(es), big)
  BY <1>1
<1> QED BY <1>2, <1>3, <1>10, <1>11, PushKeeps

----------------------------------------------------------------------------
(* The undo tree under the steps of its history.                           *)

LEMMA SameTree ==
    ASSUME TreeInv, UNCHANGED history
    PROVE  TreeInv'
BY DEF TreeInv, history, H!TypeOK, H!Nodes, Nodes

LEMMA AddNodeTree ==
    ASSUME TreeInv, NEW o \in Origins, NEW joins \in BOOLEAN, H!AddNode(o, joins),
           synced' \in BOOLEAN
    PROVE  TreeInv'
<1>0. /\ count \in Nat \ {0} /\ H!Nodes = Nodes /\ Root \in Nodes /\ current \in Nodes
      /\ \A n \in Nodes : n \in Nat /\ n < count
      /\ \A n \in Nodes : ancestry[n] \subseteq Nodes
      /\ \A n \in Nodes : n # Root => parent[n] \in Nodes /\ parent[n] < n
  BY NodeFacts
<1>1. /\ count < MaxNodes /\ count' = count + 1
      /\ parent' = [n \in 0 .. count |-> IF n = count THEN current ELSE parent[n]]
      /\ group' = [n \in 0 .. count |->
                     IF n # count THEN group[n]
                     ELSE IF joins THEN group[current] ELSE next_group]
      /\ origin' = [n \in 0 .. count |-> IF n = count THEN o ELSE origin[n]]
      /\ ancestry' = [n \in 0 .. count |->
                        IF n = count THEN ancestry[current] \cup {count} ELSE ancestry[n]]
      /\ redo_child' = [n \in 0 .. count |->
                          IF n = count THEN H!NoNode
                          ELSE IF n = current THEN count ELSE redo_child[n]]
      /\ next_group' = IF joins THEN next_group ELSE next_group + 1
      /\ current' = count /\ last_was_nav' = FALSE
  BY DEF H!AddNode
<1>2. /\ count \in 1 .. MaxNodes /\ parent \in [Nodes -> Nodes \cup {H!NoNode}]
      /\ group \in [Nodes -> Nat] /\ origin \in [Nodes -> Origins \cup {H!NoOrigin}]
      /\ ancestry \in [Nodes -> SUBSET Nodes]
      /\ redo_child \in [Nodes -> Nodes \cup {H!NoNode}]
      /\ next_group \in Nat \ {0}
  BY <1>0 DEF TreeInv, H!TypeOK
<1>3. /\ Nodes' = 0 .. count /\ H!Nodes' = 0 .. count /\ count \notin Nodes
      /\ \A n \in 0 .. count : n = count \/ n \in Nodes
      /\ Nodes \subseteq 0 .. count /\ count \in 0 .. count
  BY <1>0, <1>1 DEF Nodes, H!Nodes
<1>4. count' \in 1 .. MaxNodes /\ current' \in H!Nodes'
  BY <1>0, <1>1, <1>3, BoundsAssumption
<1>5. parent' \in [0 .. count -> 0 .. count \cup {H!NoNode}]
  BY <1>0, <1>1, <1>2, <1>3
<1>6. group' \in [0 .. count -> Nat] /\ next_group' \in Nat \ {0}
  BY <1>0, <1>1, <1>2, <1>3
<1>7. origin' \in [0 .. count -> Origins \cup {H!NoOrigin}]
  BY <1>1, <1>2, <1>3
<1>8. ancestry' \in [0 .. count -> SUBSET (0 .. count)]
  BY <1>0, <1>1, <1>2, <1>3
<1>9. redo_child' \in [0 .. count -> 0 .. count \cup {H!NoNode}]
  BY <1>0, <1>1, <1>2, <1>3
<1>10. H!TypeOK'
  BY <1>1, <1>3, <1>4, <1>5, <1>6, <1>7, <1>8, <1>9 DEF H!TypeOK
<1>11. \A n \in Nodes : parent'[n] = parent[n] /\ ancestry'[n] = ancestry[n]
  BY <1>1, <1>3
<1>12. parent'[count] = current /\ ancestry'[count] = ancestry[current] \cup {count} /\ count # Root
  BY <1>0, <1>1, <1>3 DEF Root
<1>13. /\ \A n \in Nodes : n # Root => parent[n] \in 0 .. n - 1
       /\ \A n \in Nodes : n \in ancestry[n] /\ Root \in ancestry[n]
       /\ \A n \in Nodes : \A a \in ancestry[n] : a <= n
       /\ \A n \in Nodes : n # Root => ancestry[n] = ancestry[parent[n]] \cup {n}
  BY DEF TreeInv
<1>14. ASSUME NEW n \in 0 .. count
       PROVE  /\ n # Root => parent'[n] \in 0 .. n - 1
              /\ n \in ancestry'[n] /\ Root \in ancestry'[n]
              /\ \A a \in ancestry'[n] : a <= n
              /\ n # Root => ancestry'[n] = ancestry'[parent'[n]] \cup {n}
  <2>1. CASE n = count
    <3>1. current \in 0 .. count - 1 /\ current < count
      BY <1>0 DEF Nodes
    <3>2. \A a \in ancestry[current] \cup {count} : a <= count
      BY <1>0
    <3> QED BY <2>1, <3>1, <3>2, <1>0, <1>11, <1>12, <1>13
  <2>2. CASE n \in Nodes
    <3>1. n # Root => parent[n] \in Nodes
      BY <2>2, <1>0
    <3> QED BY <2>2, <3>1, <1>11, <1>13
  <2> QED BY <2>1, <2>2, <1>3
<1> QED BY <1>3, <1>10, <1>14 DEF TreeInv

\* Navigation moves `current` to a node of the tree.
LEMMA NavTree ==
    ASSUME TreeInv, H!Undo \/ H!Redo \/ \E older \in BOOLEAN : H!ToChronological(older)
    PROVE  /\ TreeInv' /\ current' \in Nodes /\ last_was_nav' = TRUE
           /\ UNCHANGED <<count, parent, ancestry>>
<1>0. H!Nodes = Nodes /\ \A n \in Nodes : ancestry[n] \subseteq Nodes
  BY NodeFacts
<1> DEFINE Moved(t) ==
               /\ current' = t /\ last_was_nav' = TRUE
               /\ UNCHANGED <<count, parent, group, origin, ancestry, next_group, synced>>
               /\ redo_child' = redo_child \/ redo_child' = H!RedoChildAfter(t)
<1>a. \E t \in Nodes : Moved(t)
  <2>1. CASE H!Undo
    BY <2>1, <1>0 DEF H!Undo, H!NavigateTo, H!tree
  <2>2. CASE H!Redo
    BY <2>2, <1>0 DEF H!Redo, H!tree
  <2>3. ASSUME NEW older \in BOOLEAN, H!ToChronological(older)
        PROVE  \E t \in Nodes : Moved(t)
    BY <2>3, <1>0 DEF H!ToChronological, H!NavigateTo, H!tree
  <2> HIDE DEF Moved
  <2> QED BY <2>1, <2>2, <2>3
<1>1. PICK t \in Nodes : Moved(t)
  BY <1>a
<1>2. Nodes' = Nodes /\ H!Nodes' = Nodes
  BY <1>0, <1>1 DEF Nodes, H!Nodes
<1>3. redo_child \in [Nodes -> Nodes \cup {H!NoNode}] /\ current \in Nodes
  BY <1>0 DEF TreeInv, H!TypeOK
<1>4. redo_child' \in [Nodes -> Nodes \cup {H!NoNode}]
  <2>1. H!Down(t) \subseteq Nodes /\ H!Up(t) \subseteq Nodes
    BY <1>0, <1>3 DEF H!Down, H!Up
  <2>2. H!RedoChildAfter(t) \in [Nodes -> Nodes \cup {H!NoNode}]
    BY <2>1, <1>0, <1>3 DEF H!RedoChildAfter
  <2> QED BY <2>2, <1>1, <1>3
<1>5. H!TypeOK'
  BY <1>0, <1>1, <1>2, <1>4 DEF TreeInv, H!TypeOK
<1>6. TreeInv'
  BY <1>1, <1>2, <1>5 DEF TreeInv
<1> QED BY <1>1, <1>6

----------------------------------------------------------------------------
(* The steps of the document.                                              *)

LEMMA Parts ==
    ASSUME IInv
    PROVE  /\ TreeInv /\ LogTyped /\ TextTyped /\ EdgeInv /\ TextIsCurrentNodes /\ SavedInv
           /\ PlanInv /\ LogReplaysToText /\ BlockInv
           /\ text \in Texts /\ revision \in Nat /\ revision <= MaxRevision /\ MaxRevision \in Nat
           /\ forward \in [1 .. count - 1 -> Edits]
           /\ undo_block \in {None, "open", "joining"}
BY BoundsAssumption DEF IInv, TextTyped

\* Nothing but the change log, the plan and the saved state may have changed.
LEMMA SameTexts ==
    ASSUME IInv, UNCHANGED <<text, base_text, forward>>, UNCHANGED <<count, current, parent>>
    PROVE  /\ EdgeInv' /\ TextIsCurrentNodes' /\ Nodes' = Nodes
           /\ \A n \in Nodes : NodeText(n)' = NodeText(n)
<1>1. Nodes' = Nodes
  BY DEF Nodes
<1>2. \A n : NodeText(n)' = NodeText(n)
  BY DEF NodeText
<1>3. TextIsCurrentNodes'
  BY <1>2, Parts DEF TextIsCurrentNodes
<1>4. EdgeInv'
  BY <1>2, Parts DEF EdgeInv
<1> QED BY <1>1, <1>2, <1>3, <1>4

\* A change is committed: a node is added, and nothing of the others' texts
\* changes.
LEMMA CommitKeeps ==
    ASSUME IInv, NEW e \in Edits, e.from = text, NEW o \in Origins, NEW joins \in BOOLEAN,
           NEW big \in BOOLEAN, Commit(e, o, joins, big), synced' \in BOOLEAN,
           UNCHANGED <<base_text, drained>>
    PROVE  /\ TreeInv' /\ LogTyped' /\ LogReplaysToText' /\ EdgeInv' /\ TextIsCurrentNodes'
           /\ BlockInv'
           /\ text' = e.to /\ text' \in Texts /\ forward' \in [1 .. count' - 1 -> Edits]
           /\ revision' = revision + 1 /\ revision' \in 0 .. MaxRevision
           /\ undo_block' \in {None, "open", "joining"}
           /\ Nodes \subseteq Nodes' /\ current' \in Nodes'
           /\ \A n \in Nodes : NodeText(n)' = NodeText(n)
           /\ joins => group'[current'] = group[current]
<1>0. /\ TreeInv /\ LogTyped /\ TextTyped /\ EdgeInv /\ LogReplaysToText
      /\ text = NodeText(current) /\ text \in Texts
      /\ forward \in [1 .. count - 1 -> Edits] /\ revision \in Nat
      /\ undo_block \in {None, "open", "joining"} /\ MaxRevision \in Nat
  BY Parts DEF TextIsCurrentNodes
<1>1. /\ revision < MaxRevision /\ H!AddNode(o, joins) /\ text' = Apply(e, text)
      /\ revision' = revision + 1
      /\ forward' = [n \in 1 .. count |-> IF n = count THEN e ELSE forward[n]]
      /\ undo_block' = IF undo_block = "open" THEN "joining" ELSE undo_block
      /\ Push(Chained(<<e>>), big)
  BY DEF Commit
<1>2. TreeInv'
  BY <1>0, <1>1, AddNodeTree
<1>3. /\ count \in Nat \ {0} /\ current \in Nodes /\ \A n \in Nodes : n \in Nat /\ n < count
      /\ \A n \in Nodes : n # Root => parent[n] \in Nodes
  BY <1>0, NodeFacts
<1>4. /\ count' = count + 1 /\ current' = count
      /\ parent' = [n \in 0 .. count |-> IF n = count THEN current ELSE parent[n]]
      /\ group' = [n \in 0 .. count |->
                     IF n # count THEN group[n]
                     ELSE IF joins THEN group[current] ELSE next_group]
  BY <1>1 DEF H!AddNode
<1>5. text' = e.to /\ text' \in Texts
  BY <1>1, NoEditIsNone DEF Apply, Edits
<1>6. LogTyped' /\ LogReplaysToText'
  BY <1>0, <1>1, PushOne
<1>7. forward' \in [1 .. count' - 1 -> Edits]
  <2>1. \A n \in 1 .. count : n # count => n \in 1 .. count - 1
    BY <1>3
  <2>2. 1 .. count' - 1 = 1 .. count
    BY <1>3, <1>4
  <2> HIDE DEF Edits
  <2> QED BY <2>1, <2>2, <1>0, <1>1
<1>8. revision' \in 0 .. MaxRevision
  BY <1>0, <1>1
<1>9. Nodes \subseteq Nodes' /\ current' \in Nodes' /\ Nodes' = 0 .. count
  BY <1>3, <1>4 DEF Nodes
<1>10. ASSUME NEW n \in Nodes PROVE NodeText(n)' = NodeText(n)
  <2>1. n # count /\ (n # Root => n \in 1 .. count)
    BY <1>3 DEF Nodes, Root
  <2>2. n # Root => forward'[n] = forward[n]
    BY <2>1, <1>1
  <2> QED BY <2>2 DEF NodeText, H!Root, Root
<1>11. PICK c : c = count
  OBVIOUS
<1>12. TextIsCurrentNodes'
  <2>1. c # H!Root /\ forward'[c] = e /\ current' = c
    BY <1>1, <1>3, <1>4, <1>11 DEF H!Root
  <2>2. NodeText(c)' = e.to
    BY <2>1 DEF NodeText, H!Root
  <2>3. NodeText(current)' = NodeText(c)'
    BY <2>1 DEF NodeText
  <2> QED BY <2>2, <2>3, <1>5 DEF TextIsCurrentNodes
<1>13. EdgeInv'
  <2> SUFFICES ASSUME NEW n \in 1 .. count' - 1 PROVE forward'[n].from = NodeText(parent[n])'
    BY DEF EdgeInv
  <2>1. CASE n = count
    <3>1. forward'[n] = e /\ parent'[n] = current
      BY <2>1, <1>1, <1>3, <1>4
    <3>2. PICK p \in Nodes : p = current
      BY <1>3
    <3>3. NodeText(p)' = NodeText(p)
      BY <1>10
    <3>4. NodeText(parent[n])' = NodeText(p)'
      BY <3>1, <3>2 DEF NodeText
    <3>5. NodeText(p) = text
      BY <3>2, <1>0
    <3> QED BY <3>1, <3>3, <3>4, <3>5
  <2>2. CASE n # count
    <3>1. n \in 1 .. count - 1 /\ n \in Nodes /\ n # Root
      BY <2>2, <1>3, <1>4 DEF Nodes, Root
    <3>2. forward'[n] = forward[n] /\ parent'[n] = parent[n]
      BY <2>2, <3>1, <1>1, <1>3, <1>4
    <3>3. PICK p \in Nodes : p = parent[n]
      BY <3>1, <1>3
    <3>4. NodeText(p)' = NodeText(p)
      BY <1>10
    <3>5. forward[n].from = NodeText(p)
      BY <3>1, <3>3, <1>0 DEF EdgeInv
    <3>6. NodeText(parent[n])' = NodeText(p)'
      BY <3>2, <3>3 DEF NodeText
    <3> QED BY <3>2, <3>4, <3>5, <3>6
  <2> QED BY <2>1, <2>2
<1>14. BlockInv'
  BY <1>3, <1>4 DEF BlockInv, Root
<1>15. undo_block' \in {None, "open", "joining"}
  BY <1>0, <1>1
<1>16. joins => group'[current'] = group[current]
  BY <1>3, <1>4
<1> QED BY <1>1, <1>2, <1>5, <1>6, <1>7, <1>8, <1>9, <1>10, <1>12, <1>13, <1>14, <1>15, <1>16

\* The text typed by ApplyNow and its like.
LEMMA EditTo ==
    ASSUME IInv, NEW t \in Texts
    PROVE  /\ [from |-> text, to |-> t] \in Edits
           /\ [from |-> text, to |-> t].from = text
           /\ [from |-> text, to |-> t].to = t
BY Parts DEF Edits

\* A plan grows stale with the revision.
LEMMA PlanKept ==
    ASSUME IInv, plan' = plan, revision' \in Nat,
           revision' > revision \/ (revision' = revision /\ text' = text)
    PROVE  PlanInv'
<1>0. PlanInv /\ revision \in Nat
  BY Parts
<1>1. CASE plan = NoPlan
  BY <1>1 DEF PlanInv
<1>2. CASE plan # NoPlan
  <2>1. /\ plan \in [base : 0 .. MaxRevision, edit : Edits] /\ plan.base <= revision
        /\ plan.base = revision => plan.edit.from = text
    BY <1>0, <1>2 DEF PlanInv
  <2>2. plan.base \in Nat
    BY <2>1, BoundsAssumption
  <2>3. plan'.base <= revision'
    BY <2>1, <2>2, <1>0
  <2>4. plan'.base = revision' => plan'.edit.from = text'
    BY <2>1, <2>2, <1>0
  <2> QED BY <2>1, <2>3, <2>4 DEF PlanInv
<1> QED BY <1>1, <1>2

LEMMA SavedKept ==
    ASSUME IInv, \A n \in Nodes : NodeText(n)' = NodeText(n), UNCHANGED <<saved_node, disk>>
    PROVE  SavedInv'
<1>1. saved_node \in Nodes \cup {-1} /\ SavedInv
  BY Parts DEF TextTyped
<1>2. PICK s : s = saved_node
  OBVIOUS
<1>3. s # -1 => NodeText(s)' = NodeText(s)
  BY <1>1, <1>2
<1> QED BY <1>1, <1>2, <1>3 DEF SavedInv

\* A commit that leaves the saved state alone.
LEMMA CommitsKeep ==
    ASSUME IInv, NEW e \in Edits, e.from = text, NEW o \in Origins, NEW joins \in BOOLEAN,
           NEW big \in BOOLEAN, Commit(e, o, joins, big), synced' \in BOOLEAN,
           UNCHANGED <<base_text, saved_node, disk, drained>>, plan' = plan \/ plan' = NoPlan
    PROVE  IInv'
<1>0. TextTyped /\ revision \in Nat
  BY Parts
<1>1. /\ TreeInv' /\ LogTyped' /\ LogReplaysToText' /\ EdgeInv' /\ TextIsCurrentNodes'
      /\ BlockInv'
      /\ text' \in Texts /\ forward' \in [1 .. count' - 1 -> Edits]
      /\ revision' = revision + 1 /\ revision' \in 0 .. MaxRevision
      /\ undo_block' \in {None, "open", "joining"} /\ Nodes \subseteq Nodes'
      /\ \A n \in Nodes : NodeText(n)' = NodeText(n)
  BY CommitKeeps
<1>2. TextTyped'
  BY <1>0, <1>1 DEF TextTyped
<1>3. SavedInv'
  BY <1>1, SavedKept
<1>4. PlanInv'
  <2>1. CASE plan' = NoPlan
    BY <2>1 DEF PlanInv
  <2>2. CASE plan' = plan
    BY <2>2, <1>0, <1>1, PlanKept
  <2> QED BY <2>1, <2>2
<1> QED BY <1>1, <1>2, <1>3, <1>4 DEF IInv

LEMMA ApplyNowKeeps ==
    ASSUME IInv, NEW t \in Texts, NEW o \in Origins, NEW h \in Hints, NEW big \in BOOLEAN,
           ApplyNow(t, o, h, big)
    PROVE  IInv'
<1>1. PICK e : e = [from |-> text, to |-> t]
  OBVIOUS
<1>2. e \in Edits /\ e.from = text
  BY <1>1, EditTo
<1>3. H!Joins(o, EffectiveHint(h)) \in BOOLEAN
  BY DEF H!Joins, H!Mergeable
<1>4. PICK joins \in BOOLEAN : joins = H!Joins(o, EffectiveHint(h))
  BY <1>3
<1>5. Commit(e, o, joins, big)
  BY <1>1, <1>4 DEF ApplyNow
<1>6. synced' \in BOOLEAN /\ UNCHANGED <<base_text, saved_node, disk, drained>> /\ plan' = plan
  BY DEF ApplyNow
<1> QED BY <1>2, <1>5, <1>6, CommitsKeep

LEMMA ApplyPlanKeeps ==
    ASSUME IInv, NEW o \in Origins, NEW h \in Hints, NEW big \in BOOLEAN, ApplyPlan(o, h, big)
    PROVE  IInv'
<1>0. /\ plan # NoPlan /\ plan' = NoPlan /\ UNCHANGED <<base_text, saved_node, disk, drained>>
  BY DEF ApplyPlan
<1>1. CASE Stale /\ UNCHANGED <<history, text, revision, forward, undo_block, log>>
  <2>1. UNCHANGED history /\ UNCHANGED <<text, revision, forward, undo_block>> /\ UNCHANGED log
    BY <1>1
  <2>2. TreeInv'
    BY <2>1, SameTree, Parts
  <2>3. UNCHANGED <<count, current, parent, last_was_nav>> /\ UNCHANGED <<recording, entries, lost>>
    BY <2>1 DEF history, log
  <2>4. /\ EdgeInv' /\ TextIsCurrentNodes' /\ Nodes' = Nodes
        /\ \A n \in Nodes : NodeText(n)' = NodeText(n)
    BY <2>1, <2>3, <1>0, SameTexts
  <2>5. SavedInv'
    BY <2>4, <1>0, SavedKept
  <2>6. TextTyped' /\ LogTyped'
    BY <2>1, <2>3, <2>4, <1>0, Parts DEF TextTyped, LogTyped
  <2>7. LogReplaysToText'
    BY <2>1, <2>3, <1>0, Parts DEF LogReplaysToText, Wants
  <2>8. PlanInv' /\ BlockInv'
    BY <2>1, <2>3, <1>0, Parts DEF PlanInv, BlockInv
  <2> QED BY <2>2, <2>4, <2>5, <2>6, <2>7, <2>8 DEF IInv
<1>2. CASE ~Stale /\ Commit(plan.edit, o, H!Joins(o, EffectiveHint(h)), big) /\ synced' = FALSE
  <2>1. PICK e : e = plan.edit
    OBVIOUS
  <2>2. e \in Edits /\ e.from = text
    <3>1. PlanInv
      BY Parts
    <3>2. plan \in [base : 0 .. MaxRevision, edit : Edits] /\ (plan.base = revision => plan.edit.from = text)
      BY <3>1, <1>0 DEF PlanInv
    <3>3. plan.base = revision
      BY <1>2 DEF Stale
    <3> QED BY <2>1, <3>2, <3>3
  <2>3. H!Joins(o, EffectiveHint(h)) \in BOOLEAN
    BY DEF H!Joins, H!Mergeable
  <2>4. PICK joins \in BOOLEAN : joins = H!Joins(o, EffectiveHint(h))
    BY <2>3
  <2>5. Commit(e, o, joins, big)
    BY <2>1, <2>4, <1>2
  <2> QED BY <2>2, <2>5, <1>0, <1>2, CommitsKeep
<1> QED BY <1>1, <1>2 DEF ApplyPlan

\* The steps that leave text, revision and undo tree as they are.
LEMMA QuietKeeps ==
    ASSUME IInv, UNCHANGED <<text, revision, forward, base_text>>, TreeInv',
           UNCHANGED <<count, current, parent>>,
           SavedInv', saved_node' \in Nodes \cup {-1}, disk' \in Texts,
           undo_block' \in {None, "open", "joining"}, BlockInv', PlanInv',
           LogTyped', LogReplaysToText', drained' \in [text : Texts, revision : 0 .. MaxRevision]
    PROVE  IInv'
<1>1. EdgeInv' /\ TextIsCurrentNodes' /\ Nodes' = Nodes
  BY SameTexts
<1>2. TextTyped'
  BY <1>1, Parts DEF TextTyped
<1> QED BY <1>1, <1>2 DEF IInv

LEMMA LogUnchanged ==
    ASSUME IInv, UNCHANGED log, UNCHANGED <<text, revision, drained>>
    PROVE  LogTyped' /\ LogReplaysToText'
BY Parts DEF LogTyped, LogReplaysToText, Wants, log

LEMMA PrepareKeeps ==
    ASSUME IInv, NEW t \in Texts, Prepare(t)
    PROVE  IInv'
<1>1. /\ UNCHANGED history /\ UNCHANGED <<text, revision, forward, base_text, saved_node, undo_block>>
      /\ UNCHANGED log /\ UNCHANGED <<disk, drained>>
      /\ plan' = [base |-> revision, edit |-> [from |-> text, to |-> t]]
  BY DEF Prepare
<1>2. UNCHANGED <<count, current, parent, last_was_nav>>
  BY <1>1 DEF history
<1>3. TreeInv'
  BY <1>1, SameTree, Parts
<1>4. LogTyped' /\ LogReplaysToText'
  BY <1>1, LogUnchanged
<1>5. \A n \in Nodes : NodeText(n)' = NodeText(n)
  BY <1>1, <1>2, SameTexts
<1>6. SavedInv'
  BY <1>1, <1>5, SavedKept
<1>7. PlanInv'
  <2>1. PICK e : e = [from |-> text, to |-> t]
    OBVIOUS
  <2>2. e \in Edits /\ e.from = text
    BY <2>1, EditTo
  <2>3. revision \in 0 .. MaxRevision /\ revision \in Nat
    BY Parts DEF TextTyped
  <2>4. plan' = [base |-> revision, edit |-> e]
    BY <2>1, <1>1
  <2>5. plan' \in [base : 0 .. MaxRevision, edit : Edits] /\ plan'.base = revision /\ plan'.edit = e
    BY <2>2, <2>3, <2>4
  <2>6. plan'.base <= revision' /\ plan'.edit.from = text'
    BY <2>2, <2>3, <2>5, <1>1
  <2> QED BY <2>5, <2>6 DEF PlanInv
<1>8. BlockInv'
  BY <1>1, <1>2, Parts DEF BlockInv
<1> QED BY <1>1, <1>2, <1>3, <1>4, <1>6, <1>7, <1>8, QuietKeeps, Parts DEF TextTyped

LEMMA ApplyEmptyKeeps ==
    ASSUME IInv, ApplyEmpty
    PROVE  IInv'
<1>1. /\ UNCHANGED history /\ UNCHANGED <<text, forward, base_text, saved_node, undo_block>>
      /\ UNCHANGED <<plan, disk, drained>>
      /\ revision < MaxRevision /\ revision' = revision + 1 /\ Push(Chained(<<NoEdit>>), FALSE)
  BY DEF ApplyEmpty
<1>2. UNCHANGED <<count, current, parent, last_was_nav>>
  BY <1>1 DEF history
<1>3. TreeInv'
  BY <1>1, SameTree, Parts
<1>4. LogTyped' /\ LogReplaysToText'
  <2>1. text' = Apply(NoEdit, text)
    BY <1>1 DEF Apply
  <2>2. NoEdit \in Edits \cup {NoEdit} /\ FALSE \in BOOLEAN
    OBVIOUS
  <2>3. PICK e : e = NoEdit
    OBVIOUS
  <2> QED BY <2>1, <2>2, <2>3, <1>1, PushOne, Parts
<1>5. /\ EdgeInv' /\ TextIsCurrentNodes' /\ Nodes' = Nodes
      /\ \A n \in Nodes : NodeText(n)' = NodeText(n)
  BY <1>1, <1>2, SameTexts
<1>6. SavedInv'
  BY <1>1, <1>5, SavedKept
<1>7. revision' \in Nat /\ revision' > revision /\ revision' \in 0 .. MaxRevision
  BY <1>1, Parts
<1>8. PlanInv'
  BY <1>1, <1>7, PlanKept
<1>9. BlockInv'
  BY <1>1, <1>2, Parts DEF BlockInv
<1>10. TextTyped'
  BY <1>1, <1>2, <1>5, <1>7, Parts DEF TextTyped
<1> QED BY <1>3, <1>4, <1>5, <1>6, <1>8, <1>9, <1>10 DEF IInv

LEMMA BlockKeeps ==
    ASSUME IInv, BeginUndoBlock \/ EndUndoBlock
    PROVE  IInv'
<1>1. /\ UNCHANGED history /\ UNCHANGED <<text, revision, forward, base_text, saved_node>>
      /\ UNCHANGED log /\ UNCHANGED <<plan, disk, drained>>
      /\ undo_block' \in {None, "open"}
  BY DEF BeginUndoBlock, EndUndoBlock
<1>2. UNCHANGED <<count, current, parent, last_was_nav>>
  BY <1>1 DEF history
<1>3. TreeInv'
  BY <1>1, SameTree, Parts
<1>4. LogTyped' /\ LogReplaysToText'
  BY <1>1, LogUnchanged
<1>5. \A n \in Nodes : NodeText(n)' = NodeText(n)
  BY <1>1, <1>2, SameTexts
<1>6. SavedInv'
  BY <1>1, <1>5, SavedKept
<1>7. PlanInv'
  BY <1>1, PlanKept, Parts
<1>8. BlockInv'
  BY <1>1 DEF BlockInv, None
<1> QED BY <1>1, <1>2, <1>3, <1>4, <1>6, <1>7, <1>8, QuietKeeps, Parts DEF TextTyped

\* Navigation replays the edits on the way, and they lead to the target's text.
LEMMA ReplayKeeps ==
    ASSUME IInv, NEW c \in Nodes, NEW big \in BOOLEAN, Replay(c, big),
           TreeInv', current' = c, last_was_nav' = TRUE, UNCHANGED <<count, parent>>
    PROVE  /\ IInv' /\ revision' >= revision /\ (text' # text => revision' > revision)
<1>0. /\ LogTyped /\ TextTyped /\ LogReplaysToText /\ revision \in 0 .. MaxRevision
      /\ revision \in Nat /\ EdgeInv
  BY Parts DEF TextTyped
<1>1. PICK es : es = StepEdits(c)
  OBVIOUS
<1>2. /\ revision + Len(es) <= MaxRevision /\ text' = ApplyAll(text, Chained(es))
      /\ revision' = revision + Len(es) /\ Push(Chained(es), big)
      /\ UNCHANGED <<forward, base_text, saved_node, undo_block, plan, disk, drained>>
  BY <1>1 DEF Replay
<1>3. Leads(es, text, NodeText(c))
  BY <1>1, StepEditsLead
<1>4. es \in Seq(Edits) /\ Len(es) \in Nat /\ es \in Seq(Edits \cup {NoEdit})
  BY <1>3 DEF Leads
<1>5. /\ Len(Chained(es)) = Len(es)
      /\ \A i \in 1 .. Len(es) : Chained(es)[i].edit = es[i]
  BY <1>0, <1>2, <1>4, ChainedFacts
<1>6. text' = NodeText(c)
  <2>1. PICK ch : ch = Chained(es)
    OBVIOUS
  <2>2. Len(ch) = Len(es) /\ \A i \in 1 .. Len(es) : ch[i].edit = es[i]
    BY <2>1, <1>5
  <2>3. PICK a, b : a = text /\ b = NodeText(c)
    OBVIOUS
  <2>4. ApplyAll(a, ch) = b
    BY <2>2, <2>3, <1>3, ApplyAllLeads
  <2> QED BY <2>1, <2>3, <2>4, <1>2
<1>7. LogTyped' /\ LogReplaysToText'
  BY <1>0, <1>2, <1>4, PushKeeps
<1>8. Nodes' = Nodes /\ \A n : NodeText(n)' = NodeText(n)
  BY <1>2 DEF Nodes, NodeText
<1>9. TextIsCurrentNodes'
  <2>1. NodeText(current)' = NodeText(c)'
    BY DEF NodeText
  <2>2. NodeText(c)' = NodeText(c)
    BY <1>8
  <2> QED BY <2>1, <2>2, <1>6 DEF TextIsCurrentNodes
<1>10. EdgeInv'
  <2> SUFFICES ASSUME NEW n \in 1 .. count - 1 PROVE forward'[n].from = NodeText(parent[n])'
    BY DEF EdgeInv
  <2>1. NodeText(parent[n])' = NodeText(parent[n])
    BY <1>2 DEF NodeText
  <2> QED BY <2>1, <1>0, <1>2 DEF EdgeInv
<1>11. SavedInv'
  BY <1>2, <1>8, SavedKept
<1>12. revision' \in 0 .. MaxRevision /\ revision' \in Nat /\ revision' >= revision
  BY <1>0, <1>2, <1>4
<1>13. text' # text => revision' > revision
  <2>1. CASE es = <<>>
    <3>1. text = NodeText(c)
      BY <2>1, <1>3 DEF Leads
    <3> QED BY <3>1, <1>6
  <2>2. CASE es # <<>>
    <3>1. Len(es) > 0
      BY <2>2, <1>4
    <3> QED BY <3>1, <1>0, <1>2, <1>4
  <2> QED BY <2>1, <2>2
<1>14. PlanInv'
  <2>1. revision' > revision \/ (revision' = revision /\ text' = text)
    BY <1>0, <1>12, <1>13
  <2> QED BY <2>1, <1>2, <1>12, PlanKept
<1>15. BlockInv'
  BY DEF BlockInv
<1>16. text' \in Texts
  <2>1. CASE c = Root
    BY <2>1, <1>0, <1>6 DEF NodeText, H!Root, Root, TextTyped
  <2>2. CASE c # Root
    <3>1. c \in 1 .. count - 1
      BY <2>2, Parts, NodeFacts DEF Nodes, Root
    <3>2. forward[c] \in Edits
      BY <3>1, Parts
    <3>3. forward[c].to \in Texts
      BY <3>2 DEF Edits
    <3> QED BY <2>2, <3>3, <1>6 DEF NodeText, H!Root, Root
  <2> QED BY <2>1, <2>2
<1>17. TextTyped'
  BY <1>0, <1>2, <1>8, <1>12, <1>16 DEF TextTyped
<1> QED BY <1>7, <1>9, <1>10, <1>11, <1>12, <1>13, <1>14, <1>15, <1>17 DEF IInv

LEMMA NavKeeps ==
    ASSUME IInv, NEW big \in BOOLEAN,
           Undo(big) \/ Redo(big) \/ \E older \in BOOLEAN : Chronological(older, big)
    PROVE  /\ IInv' /\ revision' >= revision /\ (text' # text => revision' > revision)
           /\ count' = count
<1>1. /\ H!Undo \/ H!Redo \/ \E older \in BOOLEAN : H!ToChronological(older)
      /\ Replay(current', big)
  BY DEF Undo, Redo, Chronological
<1>2. /\ TreeInv' /\ current' \in Nodes /\ last_was_nav' = TRUE
      /\ UNCHANGED <<count, parent, ancestry>>
  BY <1>1, Parts, NavTree
<1>3. PICK c \in Nodes : c = current'
  BY <1>2
<1>4. Replay(c, big)
  BY <1>1, <1>3
<1> QED BY <1>2, <1>3, <1>4, ReplayKeeps

\* An undo sync touches only the flag.
LEMMA SyncTree ==
    ASSUME IInv, H!Sync
    PROVE  TreeInv' /\ UNCHANGED <<count, current, parent, last_was_nav>>
<1>1. /\ synced' = TRUE
      /\ UNCHANGED <<count, parent, group, origin, ancestry, next_group, redo_child, current, last_was_nav>>
  BY DEF H!Sync, H!tree
<1>2. TreeInv
  BY Parts
<1> QED BY <1>1, <1>2 DEF TreeInv, H!TypeOK, H!Nodes, Nodes

LEMMA SyncUndoKeeps ==
    ASSUME IInv, SyncUndo
    PROVE  IInv'
<1>1. /\ H!Sync /\ UNCHANGED <<text, revision, forward, base_text, saved_node, undo_block>>
      /\ UNCHANGED log /\ UNCHANGED <<plan, disk, drained>>
  BY DEF SyncUndo
<1>2. TreeInv' /\ UNCHANGED <<count, current, parent, last_was_nav>>
  BY <1>1, SyncTree
<1>3. LogTyped' /\ LogReplaysToText'
  BY <1>1, LogUnchanged
<1>4. \A n \in Nodes : NodeText(n)' = NodeText(n)
  BY <1>1, <1>2, SameTexts
<1>5. SavedInv'
  BY <1>1, <1>4, SavedKept
<1>6. PlanInv'
  BY <1>1, PlanKept, Parts
<1>7. BlockInv'
  BY <1>1, <1>2, Parts DEF BlockInv
<1> QED BY <1>1, <1>2, <1>3, <1>5, <1>6, <1>7, QuietKeeps, Parts DEF TextTyped

LEMMA MarkSavedKeeps ==
    ASSUME IInv, MarkSaved
    PROVE  IInv'
<1>1. /\ H!Sync /\ UNCHANGED <<text, revision, forward, base_text, undo_block>>
      /\ UNCHANGED log /\ UNCHANGED <<plan, drained>>
      /\ saved_node' = current /\ disk' = text
  BY DEF MarkSaved
<1>2. TreeInv' /\ UNCHANGED <<count, current, parent, last_was_nav>>
  BY <1>1, SyncTree
<1>3. LogTyped' /\ LogReplaysToText'
  BY <1>1, LogUnchanged
<1>4. TextIsCurrentNodes'
  BY <1>1, <1>2, SameTexts
<1>5. SavedInv'
  <2>1. NodeText(saved_node)' = NodeText(current)'
    BY <1>1, <1>2 DEF NodeText
  <2> QED BY <2>1, <1>1, <1>4 DEF SavedInv, TextIsCurrentNodes
<1>6. PlanInv'
  BY <1>1, PlanKept, Parts
<1>7. BlockInv'
  BY <1>1, <1>2, Parts DEF BlockInv
<1>8. saved_node' \in Nodes \cup {-1}
  BY <1>1, NodeFacts, Parts
<1> QED BY <1>1, <1>2, <1>3, <1>5, <1>6, <1>7, <1>8, QuietKeeps, Parts DEF TextTyped

LEMMA MarkUnsavedKeeps ==
    ASSUME IInv, MarkUnsaved
    PROVE  IInv'
<1>1. /\ UNCHANGED history /\ UNCHANGED <<text, revision, forward, base_text, undo_block>>
      /\ UNCHANGED log /\ UNCHANGED <<plan, disk, drained>>
      /\ saved_node' = -1
  BY DEF MarkUnsaved, H!NoNode
<1>2. UNCHANGED <<count, current, parent, last_was_nav>>
  BY <1>1 DEF history
<1>3. TreeInv'
  BY <1>1, SameTree, Parts
<1>4. LogTyped' /\ LogReplaysToText'
  BY <1>1, LogUnchanged
<1>5. SavedInv'
  BY <1>1 DEF SavedInv
<1>6. PlanInv'
  BY <1>1, PlanKept, Parts
<1>7. BlockInv'
  BY <1>1, <1>2, Parts DEF BlockInv
<1> QED BY <1>1, <1>2, <1>3, <1>4, <1>5, <1>6, <1>7, QuietKeeps, Parts DEF TextTyped

\* What the file holds is read back in and counts as saved.
LEMMA ReloadKeeps ==
    ASSUME IInv, NEW t \in Texts, NEW big \in BOOLEAN, Reload(t, big)
    PROVE  /\ IInv' /\ revision' > revision
<1>0. /\ disk' = t /\ saved_node' = current' /\ UNCHANGED <<base_text, plan, drained>>
      /\ TextTyped /\ revision \in Nat
  BY Parts DEF Reload
<1>1. CASE /\ t = text /\ revision < MaxRevision /\ revision' = revision + 1
           /\ Push(Chained(<<NoEdit>>), FALSE) /\ H!Sync
           /\ UNCHANGED <<text, forward, undo_block>>
  <2>1. TreeInv' /\ UNCHANGED <<count, current, parent, last_was_nav>>
    BY <1>1, SyncTree
  <2>2. LogTyped' /\ LogReplaysToText'
    <3>1. text' = Apply(NoEdit, text)
      BY <1>1 DEF Apply
    <3>2. NoEdit \in Edits \cup {NoEdit} /\ FALSE \in BOOLEAN
      OBVIOUS
    <3>3. PICK e : e = NoEdit
      OBVIOUS
    <3> QED BY <3>1, <3>2, <3>3, <1>0, <1>1, PushOne, Parts
  <2>3. EdgeInv' /\ TextIsCurrentNodes' /\ Nodes' = Nodes
    BY <1>0, <1>1, <2>1, SameTexts
  <2>4. SavedInv'
    <3>1. NodeText(saved_node)' = NodeText(current)'
      BY <1>0 DEF NodeText
    <3> QED BY <3>1, <1>0, <1>1, <2>3 DEF SavedInv, TextIsCurrentNodes
  <2>5. revision' \in Nat /\ revision' > revision /\ revision' \in 0 .. MaxRevision
    BY <1>0, <1>1, Parts
  <2>6. PlanInv'
    BY <1>0, <2>5, PlanKept
  <2>7. BlockInv'
    BY <1>1, <2>1, Parts DEF BlockInv
  <2>8. current \in Nodes
    BY NodeFacts, Parts
  <2>9. TextTyped'
    BY <1>0, <1>1, <2>1, <2>3, <2>5, <2>8 DEF TextTyped
  <2> QED BY <2>1, <2>2, <2>3, <2>4, <2>5, <2>6, <2>7, <2>9 DEF IInv
<1>2. CASE /\ t # text /\ synced' = TRUE
           /\ Commit([from |-> text, to |-> t], UserInput, undo_block = "joining" /\ H!Mergeable, big)
  <2>1. PICK e : e = [from |-> text, to |-> t]
    OBVIOUS
  <2>2. e \in Edits /\ e.from = text /\ e.to = t
    BY <2>1, EditTo
  <2>3. PICK joins \in BOOLEAN : joins = (undo_block = "joining" /\ H!Mergeable)
    BY DEF H!Mergeable
  <2>4. PICK o \in Origins : o = UserInput
    BY OriginsAssumption
  <2>5. Commit(e, o, joins, big) /\ synced' \in BOOLEAN /\ UNCHANGED <<base_text, drained>>
    BY <1>0, <1>2, <2>1, <2>3, <2>4
  <2>6. /\ TreeInv' /\ LogTyped' /\ LogReplaysToText' /\ EdgeInv' /\ TextIsCurrentNodes'
        /\ BlockInv'
        /\ text' = e.to /\ text' \in Texts /\ forward' \in [1 .. count' - 1 -> Edits]
        /\ revision' = revision + 1 /\ revision' \in 0 .. MaxRevision
        /\ undo_block' \in {None, "open", "joining"} /\ current' \in Nodes'
    BY <2>2, <2>5, CommitKeeps
  <2>7. revision' \in Nat /\ revision' > revision
    BY <1>0, <2>6
  <2>8. SavedInv'
    <3>1. NodeText(saved_node)' = NodeText(current)'
      BY <1>0 DEF NodeText
    <3> QED BY <3>1, <1>0, <2>2, <2>6 DEF SavedInv, TextIsCurrentNodes
  <2>9. PlanInv'
    BY <1>0, <2>7, PlanKept
  <2>10. TextTyped'
    BY <1>0, <2>6 DEF TextTyped
  <2> QED BY <2>6, <2>7, <2>8, <2>9, <2>10 DEF IInv
<1> QED BY <1>1, <1>2 DEF Reload

\* The undo tree of a fresh document.
LEMMA FreshTree ==
    ASSUME count = 1, parent = [n \in {0} |-> -1], group = [n \in {0} |-> 0],
           origin = [n \in {0} |-> H!NoOrigin], ancestry = [n \in {0} |-> {0}],
           redo_child = [n \in {0} |-> -1], current = 0, next_group = 1,
           last_was_nav = FALSE, synced \in BOOLEAN
    PROVE  TreeInv /\ Nodes = {0}
<1>1. H!Nodes = {0} /\ Nodes = {0}
  BY DEF H!Nodes, Nodes
<1>2. H!TypeOK
  <2>1. count \in 1 .. MaxNodes
    BY BoundsAssumption
  <2>2. last_was_nav \in BOOLEAN
    OBVIOUS
  <2>3. ancestry \in [{0} -> SUBSET {0}]
    OBVIOUS
  <2>4. /\ parent \in [{0} -> {0} \cup {-1}] /\ redo_child \in [{0} -> {0} \cup {-1}]
        /\ group \in [{0} -> Nat] /\ next_group \in Nat \ {0}
    OBVIOUS
  <2>5. origin \in [{0} -> Origins \cup {H!NoOrigin}]
    OBVIOUS
  <2> QED BY <1>1, <2>1, <2>2, <2>3, <2>4, <2>5 DEF H!TypeOK, H!NoNode
<1> QED BY <1>1, <1>2 DEF TreeInv, Root

LEMMA Initially ==
    ASSUME Init
    PROVE  IInv
<1>1. TreeInv /\ Nodes = {0}
  BY FreshTree DEF Init, H!Init, H!Root, H!NoNode
<1>2. /\ text \in Texts /\ revision = 0 /\ forward = <<>> /\ base_text = text /\ saved_node = 0
      /\ undo_block = None /\ recording = FALSE /\ entries = <<>> /\ lost = None /\ plan = NoPlan
      /\ disk = text /\ drained = [text |-> text, revision |-> 0] /\ count = 1 /\ current = 0
  BY DEF Init, H!Init, H!Root
<1>3. LogTyped
  <2>1. entries \in Seq(Entries) /\ Len(entries) = 0
    BY <1>2
  <2>2. recording \in BOOLEAN
    BY <1>2
  <2> QED BY <1>2, <2>1, <2>2, LogCapAssumption DEF LogTyped
<1>4. TextTyped
  <2>1. 0 \in 0 .. MaxRevision
    BY BoundsAssumption
  <2>2. 1 .. count - 1 = {}
    BY <1>2
  <2>3. forward \in [1 .. count - 1 -> Edits]
    BY <1>2, <2>2
  <2>4. drained \in [text : Texts, revision : 0 .. MaxRevision]
    BY <1>2, <2>1
  <2> QED BY <1>1, <1>2, <2>1, <2>3, <2>4 DEF TextTyped
<1>5. EdgeInv
  BY <1>2 DEF EdgeInv
<1>6. TextIsCurrentNodes /\ SavedInv
  BY <1>2 DEF TextIsCurrentNodes, SavedInv, NodeText, H!Root
<1>7. PlanInv /\ LogReplaysToText /\ BlockInv
  BY <1>2 DEF PlanInv, LogReplaysToText, Wants, BlockInv, None
<1> QED BY <1>1, <1>3, <1>4, <1>5, <1>6, <1>7 DEF IInv

LEMMA ReplaceKeeps ==
    ASSUME IInv, NEW t \in Texts, Replace(t)
    PROVE  /\ IInv' /\ revision' > revision /\ count' = 1
<1>0. revision \in Nat /\ MaxRevision \in Nat /\ TextTyped
  BY Parts
<1>1. /\ revision < MaxRevision /\ revision' = revision + 1
      /\ text' = t /\ base_text' = t /\ disk' = t /\ forward' = <<>> /\ saved_node' = 0
      /\ undo_block' = None /\ recording' = FALSE /\ entries' = <<>> /\ lost' = None
      /\ UNCHANGED <<plan, drained>> /\ count' = 1 /\ current' = 0
  BY DEF Replace, FirstRevision, H!Root
<1>2. TreeInv' /\ Nodes' = {0}
  <2>1. H!Nodes' = {0} /\ Nodes' = {0}
    BY <1>1 DEF H!Nodes, Nodes
  <2>2. /\ parent' = [n \in {0} |-> -1] /\ group' = [n \in {0} |-> 0]
        /\ origin' = [n \in {0} |-> H!NoOrigin] /\ ancestry' = [n \in {0} |-> {0}]
        /\ redo_child' = [n \in {0} |-> -1] /\ next_group' = 1
        /\ last_was_nav' = FALSE /\ synced' = TRUE
    BY DEF Replace, H!Root, H!NoNode
  <2>3. H!TypeOK'
    BY <1>1, <2>1, <2>2, BoundsAssumption DEF H!TypeOK, H!NoNode
  <2> QED BY <2>1, <2>2, <2>3 DEF TreeInv, Root
<1>3. LogTyped'
  <2>1. <<>> \in Seq(Entries) /\ Len(<<>>) = 0
    OBVIOUS
  <2>2. recording' \in BOOLEAN
    BY <1>1
  <2> QED BY <1>1, <2>1, <2>2, LogCapAssumption DEF LogTyped
<1>4. revision' \in 0 .. MaxRevision /\ revision' \in Nat /\ revision' > revision
  BY <1>0, <1>1
<1>5. TextTyped'
  <2>1. 1 .. count' - 1 = {}
    BY <1>1
  <2>2. forward' \in [1 .. count' - 1 -> Edits]
    BY <1>1, <2>1
  <2> QED BY <1>0, <1>1, <1>2, <1>4, <2>2 DEF TextTyped
<1>6. EdgeInv'
  BY <1>1 DEF EdgeInv
<1>7. TextIsCurrentNodes' /\ SavedInv'
  BY <1>1 DEF TextIsCurrentNodes, SavedInv, NodeText, H!Root
<1>8. PlanInv'
  BY <1>1, <1>4, PlanKept
<1>9. LogReplaysToText' /\ BlockInv'
  BY <1>1 DEF LogReplaysToText, Wants, BlockInv, None
<1> QED BY <1>1, <1>2, <1>3, <1>4, <1>5, <1>6, <1>7, <1>8, <1>9 DEF IInv

LEMMA SetRecordingKeeps ==
    ASSUME IInv, NEW on \in BOOLEAN, SetRecording(on)
    PROVE  IInv'
<1>1. /\ UNCHANGED history
      /\ UNCHANGED <<text, revision, forward, base_text, saved_node, undo_block>>
      /\ UNCHANGED <<plan, disk, drained>> /\ recording' = on /\ entries' = <<>>
      /\ lost' = IF on THEN "Started" ELSE None
  BY DEF SetRecording
<1>2. UNCHANGED <<count, current, parent, last_was_nav>>
  BY <1>1 DEF history
<1>3. TreeInv'
  BY <1>1, SameTree, Parts
<1>4. LogTyped'
  <2>1. <<>> \in Seq(Entries) /\ Len(<<>>) = 0
    OBVIOUS
  <2> QED BY <1>1, <2>1, LogCapAssumption DEF LogTyped
<1>5. LogReplaysToText'
  BY <1>1 DEF LogReplaysToText, Wants, None
<1>6. \A n \in Nodes : NodeText(n)' = NodeText(n)
  BY <1>1, <1>2, SameTexts
<1>7. SavedInv'
  BY <1>1, <1>6, SavedKept
<1>8. PlanInv'
  BY <1>1, PlanKept, Parts
<1>9. BlockInv'
  BY <1>1, <1>2, Parts DEF BlockInv
<1> QED BY <1>1, <1>2, <1>3, <1>4, <1>5, <1>7, <1>8, <1>9, QuietKeeps, Parts DEF TextTyped

\* A drain hands over exactly what leads to the text and revision of now.
LEMMA DrainKeeps ==
    ASSUME IInv, Drain
    PROVE  IInv'
<1>0. /\ LogTyped /\ LogReplaysToText /\ TextTyped /\ text \in Texts
      /\ revision \in 0 .. MaxRevision /\ revision \in Nat /\ drained.revision \in Nat
      /\ drained = [text |-> drained.text, revision |-> drained.revision]
      /\ drained \in [text : Texts, revision : 0 .. MaxRevision]
  BY Parts, BoundsAssumption DEF TextTyped
<1>1. /\ UNCHANGED history
      /\ UNCHANGED <<text, revision, forward, base_text, saved_node, undo_block>>
      /\ UNCHANGED <<recording, plan, disk>> /\ entries' = <<>> /\ lost' = None
      /\ drained' = IF ~Wants THEN [text |-> text, revision |-> revision]
                    ELSE IF entries = <<>> THEN drained
                    ELSE [text |-> ApplyAll(drained.text, entries),
                          revision |-> entries[Len(entries)].result]
  BY DEF Drain
<1>2. UNCHANGED <<count, current, parent, last_was_nav>>
  BY <1>1 DEF history
<1>3. TreeInv'
  BY <1>1, SameTree, Parts
<1>4. drained' = [text |-> text, revision |-> revision]
  <2>1. CASE ~Wants
    BY <2>1, <1>1
  <2>2. CASE Wants /\ entries = <<>>
    <3>1. /\ ApplyAll(drained.text, entries) = text
          /\ drained.revision + Len(entries) = revision
      BY <2>2, <1>0 DEF LogReplaysToText
    <3>2. ApplyAll(drained.text, <<>>) = drained.text
      BY ApplyAllNone
    <3>3. Len(entries) = 0
      BY <2>2
    <3>4. drained.text = text /\ drained.revision = revision
      BY <2>2, <3>1, <3>2, <3>3, <1>0
    <3>5. drained' = drained
      BY <2>2, <1>1
    <3> QED BY <3>4, <3>5, <1>0
  <2>3. CASE Wants /\ entries # <<>>
    <3>1. /\ ApplyAll(drained.text, entries) = text
          /\ \A i \in 1 .. Len(entries) : entries[i].result = drained.revision + i
          /\ drained.revision + Len(entries) = revision
      BY <2>3, <1>0 DEF LogReplaysToText
    <3>2. Len(entries) \in 1 .. Len(entries)
      <4>1. entries \in Seq(Entries)
        BY <1>0 DEF LogTyped
      <4> QED BY <2>3, <4>1
    <3>3. entries[Len(entries)].result = revision
      BY <3>1, <3>2
    <3> QED BY <2>3, <3>1, <3>3, <1>1
  <2> QED BY <2>1, <2>2, <2>3
<1>5. LogTyped'
  <2>1. <<>> \in Seq(Entries) /\ Len(<<>>) = 0
    OBVIOUS
  <2> QED BY <1>0, <1>1, <2>1, LogCapAssumption DEF LogTyped
<1>6. LogReplaysToText'
  <2>1. drained'.text = text' /\ drained'.revision = revision'
    BY <1>1, <1>4
  <2>2. ApplyAll(drained'.text, entries') = text'
    <3>1. PICK d : d = drained'.text
      OBVIOUS
    <3>2. ApplyAll(d, <<>>) = d
      BY ApplyAllNone
    <3> QED BY <3>1, <3>2, <2>1, <1>1
  <2>3. Len(entries') = 0
    BY <1>1
  <2>4. revision' \in Nat
    BY <1>0, <1>1
  <2>5. drained'.revision + Len(entries') = revision'
    <3>1. PICK r \in Nat : r = revision'
      BY <2>4
    <3>2. drained'.revision = r
      BY <2>1, <3>1
    <3>3. r + 0 = r
      OBVIOUS
    <3> QED BY <2>3, <3>1, <3>2, <3>3
  <2>6. 1 .. Len(entries') = {}
    BY <2>3
  <2> QED BY <2>2, <2>5, <2>6 DEF LogReplaysToText
<1>7. \A n \in Nodes : NodeText(n)' = NodeText(n)
  BY <1>1, <1>2, SameTexts
<1>8. SavedInv'
  BY <1>1, <1>7, SavedKept
<1>9. PlanInv'
  BY <1>1, PlanKept, Parts
<1>10. BlockInv'
  BY <1>1, <1>2, Parts DEF BlockInv
<1>11. drained' \in [text : Texts, revision : 0 .. MaxRevision]
  BY <1>0, <1>4
<1> QED BY <1>1, <1>2, <1>3, <1>5, <1>6, <1>8, <1>9, <1>10, <1>11, QuietKeeps, Parts DEF TextTyped

----------------------------------------------------------------------------
(* Every step.                                                             *)

LEMMA StepKeeps ==
    ASSUME IInv, Next
    PROVE  IInv'
<1>1. ASSUME NEW t \in Texts, NEW o \in Origins, NEW h \in Hints, NEW big \in BOOLEAN,
             ApplyNow(t, o, h, big)
      PROVE  IInv'
  BY <1>1, ApplyNowKeeps
<1>2. CASE ApplyEmpty
  BY <1>2, ApplyEmptyKeeps
<1>3. ASSUME NEW t \in Texts, Prepare(t) PROVE IInv'
  BY <1>3, PrepareKeeps
<1>4. ASSUME NEW o \in Origins, NEW h \in Hints, NEW big \in BOOLEAN, ApplyPlan(o, h, big)
      PROVE  IInv'
  BY <1>4, ApplyPlanKeeps
<1>5. CASE BeginUndoBlock \/ EndUndoBlock
  BY <1>5, BlockKeeps
<1>6. ASSUME NEW big \in BOOLEAN, Undo(big) \/ Redo(big) PROVE IInv'
  BY <1>6, NavKeeps
<1>7. ASSUME NEW older \in BOOLEAN, NEW big \in BOOLEAN, Chronological(older, big) PROVE IInv'
  BY <1>7, NavKeeps
<1>8. CASE SyncUndo
  BY <1>8, SyncUndoKeeps
<1>9. CASE MarkSaved \/ MarkUnsaved
  BY <1>9, MarkSavedKeeps, MarkUnsavedKeeps
<1>10. ASSUME NEW t \in Texts, NEW big \in BOOLEAN, Reload(t, big) PROVE IInv'
  BY <1>10, ReloadKeeps
<1>11. ASSUME NEW t \in Texts, Replace(t) PROVE IInv'
  BY <1>11, ReplaceKeeps
<1>12. ASSUME NEW on \in BOOLEAN, SetRecording(on) PROVE IInv'
  BY <1>12, SetRecordingKeeps
<1>13. CASE Drain
  BY <1>13, DrainKeeps
<1> QED BY <1>1, <1>2, <1>3, <1>4, <1>5, <1>6, <1>7, <1>8, <1>9, <1>10, <1>11, <1>12, <1>13
        DEF Next

LEMMA StutterKeeps ==
    ASSUME IInv, UNCHANGED vars
    PROVE  IInv'
<1>1. /\ UNCHANGED history
      /\ UNCHANGED <<text, revision, forward, base_text, saved_node, undo_block>>
      /\ UNCHANGED log /\ UNCHANGED <<plan, disk, drained>>
  BY DEF vars
<1>2. UNCHANGED <<count, current, parent, last_was_nav>>
  BY <1>1 DEF history
<1>3. TreeInv'
  BY <1>1, SameTree, Parts
<1>4. LogTyped' /\ LogReplaysToText'
  BY <1>1, LogUnchanged
<1>5. \A n \in Nodes : NodeText(n)' = NodeText(n)
  BY <1>1, <1>2, SameTexts
<1>6. SavedInv'
  BY <1>1, <1>5, SavedKept
<1>7. PlanInv'
  BY <1>1, PlanKept, Parts
<1>8. BlockInv'
  BY <1>1, <1>2, Parts DEF BlockInv
<1> QED BY <1>1, <1>2, <1>3, <1>4, <1>6, <1>7, <1>8, QuietKeeps, Parts DEF TextTyped

(* The inductive invariant of the document (apply_inner, replay,           *)
(* mark_saved, reload_tracked and Document::replacing over one undo tree   *)
(* and one change log) holds in every reachable state.                     *)
THEOREM Inductive == Spec => []IInv
<1>1. Init => IInv
  BY Initially
<1>2. IInv /\ [Next]_vars => IInv'
  BY StepKeeps, StutterKeeps
<1> QED BY <1>1, <1>2, PTL DEF Spec

(* Every variable of the document keeps its type: no replay lands on a     *)
(* text that is no text, and the change log stays within its cap.          *)
THEOREM Types == Spec => []TypeOK
<1>1. IInv => TypeOK
  <2> SUFFICES ASSUME IInv PROVE TypeOK
    OBVIOUS
  <2>1. TreeInv /\ LogTyped /\ TextTyped /\ PlanInv
    BY Parts
  <2>2. H!TypeOK /\ H!Nodes = Nodes
    BY <2>1, NodeFacts DEF TreeInv
  <2>3. plan = NoPlan \/ plan \in [base : 0 .. MaxRevision, edit : Edits]
    BY <2>1 DEF PlanInv
  <2> QED BY <2>1, <2>2, <2>3 DEF TypeOK, LogTyped, TextTyped, H!NoNode
<1> QED BY <1>1, Inductive, PTL

(* The text is the one the current undo node was made with, whatever way   *)
(* replay took through the branches and whatever transaction arrived late. *)
THEOREM TextIsTheNodes == Spec => []TextIsCurrentNodes
<1>1. IInv => TextIsCurrentNodes
  BY DEF IInv
<1> QED BY <1>1, Inductive, PTL

(* A buffer whose is_modified says no holds what the file holds.           *)
THEOREM CleanIsOnDisk == Spec => []CleanMeansOnDisk
<1>1. IInv => CleanMeansOnDisk
  <2> SUFFICES ASSUME IInv, ~IsModified PROVE text = disk
    BY DEF CleanMeansOnDisk
  <2>1. SavedInv /\ text = NodeText(current) /\ current \in Nodes
    BY Parts, NodeFacts DEF TextIsCurrentNodes
  <2>2. saved_node = current
    BY DEF IsModified
  <2>3. current # -1
    BY <2>1, Parts, NodeFacts
  <2> QED BY <2>1, <2>2, <2>3 DEF SavedInv
<1> QED BY <1>1, Inductive, PTL

(* The change log's entries lead, one revision each, from what was drained *)
(* to the text and revision of now, or the log says that they are lost.    *)
THEOREM LogIsComplete == Spec => []LogReplaysToText
<1>1. IInv => LogReplaysToText
  BY DEF IInv
<1> QED BY <1>1, Inductive, PTL

\* A committed change takes a fresh revision.
LEMMA ChangeIsRevised ==
    ASSUME IInv, [Next]_vars
    PROVE  revision' >= revision /\ (text' # text => revision' > revision)
<1>0. revision \in Nat
  BY Parts
<1>1. ASSUME revision' = revision, text' = text
      PROVE  revision' >= revision /\ (text' # text => revision' > revision)
  BY <1>0, <1>1
<1>2. ASSUME revision' = revision + 1
      PROVE  revision' >= revision /\ (text' # text => revision' > revision)
  BY <1>0, <1>2
<1>3. CASE UNCHANGED vars
  BY <1>1, <1>3 DEF vars
<1>4. ASSUME NEW t \in Texts, NEW o \in Origins, NEW h \in Hints, NEW big \in BOOLEAN,
             ApplyNow(t, o, h, big)
      PROVE  revision' = revision + 1
  BY <1>4 DEF ApplyNow, Commit
<1>5. CASE ApplyEmpty
  BY <1>2, <1>5 DEF ApplyEmpty
<1>6. ASSUME NEW t \in Texts, Prepare(t) PROVE revision' = revision /\ text' = text
  BY <1>6 DEF Prepare
<1>7. ASSUME NEW o \in Origins, NEW h \in Hints, NEW big \in BOOLEAN, ApplyPlan(o, h, big)
      PROVE  revision' = revision + 1 \/ (revision' = revision /\ text' = text)
  BY <1>7 DEF ApplyPlan, Commit
<1>8. CASE BeginUndoBlock \/ EndUndoBlock \/ SyncUndo \/ MarkSaved \/ MarkUnsaved \/ Drain
  BY <1>1, <1>8 DEF BeginUndoBlock, EndUndoBlock, SyncUndo, MarkSaved, MarkUnsaved, Drain
<1>9. ASSUME NEW big \in BOOLEAN,
             Undo(big) \/ Redo(big) \/ \E older \in BOOLEAN : Chronological(older, big)
      PROVE  revision' >= revision /\ (text' # text => revision' > revision)
  BY <1>9, NavKeeps
<1>10. ASSUME NEW t \in Texts, NEW big \in BOOLEAN, Reload(t, big) PROVE revision' = revision + 1
  BY <1>10 DEF Reload, Commit
<1>11. ASSUME NEW t \in Texts, Replace(t) PROVE revision' = revision + 1
  BY <1>11 DEF Replace, FirstRevision
<1>12. ASSUME NEW on \in BOOLEAN, SetRecording(on) PROVE revision' = revision /\ text' = text
  BY <1>12 DEF SetRecording
<1> QED BY <1>1, <1>2, <1>3, <1>4, <1>5, <1>6, <1>7, <1>8, <1>9, <1>10, <1>11, <1>12 DEF Next

(* The pair (id, revision) names one text: apply_inner, replay, reload and *)
(* `:e!` take a new revision whenever the text changes, and never go back. *)
THEOREM RevisionIsAName == Spec => RevisionNamesText
<1>1. IInv /\ [Next]_vars => [revision' >= revision /\ (text' # text => revision' > revision)]_vars
  BY ChangeIsRevised
<1> QED BY <1>1, Inductive, PTL DEF Spec, RevisionNamesText

\* Inside a block that has not navigated, the change joins its group.
LEMMA BlockMerges ==
    ASSUME IInv, undo_block = "joining", ~last_was_nav
    PROVE  H!Mergeable
<1>1. BlockInv /\ TreeInv /\ current \in Nodes
  BY Parts, NodeFacts
<1>2. current # Root
  BY <1>1 DEF BlockInv
<1>3. parent[current] \in Nodes /\ \A n \in Nodes : n \in Nat
  BY <1>1, <1>2, NodeFacts
<1>4. parent[current] # -1
  BY <1>3
<1> QED BY <1>4 DEF H!Mergeable, H!NoNode

LEMMA BlockStep ==
    ASSUME IInv, [Next]_vars, count' = count + 1, undo_block = "joining", ~last_was_nav
    PROVE  group'[current'] = group[current]
<1>0. count \in Nat \ {0} /\ count' # count /\ count' # 1
  BY Parts, NodeFacts
<1>1. H!Mergeable
  BY BlockMerges
<1>2. ASSUME NEW e, NEW o, NEW joins \in BOOLEAN, NEW big, joins, Commit(e, o, joins, big)
      PROVE  group'[current'] = group[current]
  <2>1. H!AddNode(o, joins)
    BY <1>2 DEF Commit
  <2>2. current' = count /\ group'[count] = group[current]
    BY <1>0, <1>2, <2>1 DEF H!AddNode
  <2> QED BY <2>2
<1>3. \A o, h : H!Joins(o, EffectiveHint(h)) = TRUE
  BY <1>1 DEF H!Joins, EffectiveHint, H!JoinPrev
<1>4. ASSUME NEW t \in Texts, NEW o \in Origins, NEW h \in Hints, NEW big \in BOOLEAN,
             ApplyNow(t, o, h, big)
      PROVE  group'[current'] = group[current]
  <2>1. Commit([from |-> text, to |-> t], o, TRUE, big)
    BY <1>3, <1>4 DEF ApplyNow
  <2>2. PICK e : e = [from |-> text, to |-> t]
    OBVIOUS
  <2> QED BY <1>2, <2>1, <2>2
<1>5. ASSUME NEW o \in Origins, NEW h \in Hints, NEW big \in BOOLEAN, ApplyPlan(o, h, big)
      PROVE  group'[current'] = group[current]
  <2>1. CASE UNCHANGED history
    BY <2>1, <1>0 DEF history
  <2>2. CASE Commit(plan.edit, o, H!Joins(o, EffectiveHint(h)), big)
    <3>1. Commit(plan.edit, o, TRUE, big)
      BY <1>3, <2>2
    <3>2. PICK e : e = plan.edit
      OBVIOUS
    <3> QED BY <1>2, <3>1, <3>2
  <2> QED BY <1>5, <2>1, <2>2 DEF ApplyPlan
<1>6. ASSUME NEW t \in Texts, NEW big \in BOOLEAN, Reload(t, big)
      PROVE  group'[current'] = group[current]
  <2>1. CASE H!Sync
    BY <2>1, <1>0 DEF H!Sync, H!tree
  <2>2. CASE Commit([from |-> text, to |-> t], UserInput, undo_block = "joining" /\ H!Mergeable, big)
    <3>1. (undo_block = "joining" /\ H!Mergeable) = TRUE
      BY <1>1
    <3>2. Commit([from |-> text, to |-> t], UserInput, TRUE, big)
      BY <2>2, <3>1
    <3>3. PICK e : e = [from |-> text, to |-> t]
      OBVIOUS
    <3> QED BY <1>2, <3>2, <3>3
  <2> QED BY <1>6, <2>1, <2>2 DEF Reload
<1>7. ASSUME NEW big \in BOOLEAN,
             Undo(big) \/ Redo(big) \/ \E older \in BOOLEAN : Chronological(older, big)
      PROVE  FALSE
  BY <1>0, <1>7, NavKeeps
<1>8. ASSUME UNCHANGED history PROVE FALSE
  BY <1>0, <1>8 DEF history
<1>9. CASE UNCHANGED vars
  BY <1>8, <1>9 DEF vars
<1>10. CASE ApplyEmpty \/ BeginUndoBlock \/ EndUndoBlock \/ MarkUnsaved \/ Drain
  BY <1>8, <1>10 DEF ApplyEmpty, BeginUndoBlock, EndUndoBlock, MarkUnsaved, Drain
<1>11. CASE SyncUndo \/ MarkSaved
  BY <1>0, <1>11 DEF SyncUndo, MarkSaved, H!Sync, H!tree
<1>12. ASSUME NEW t \in Texts, Prepare(t) PROVE FALSE
  BY <1>8, <1>12 DEF Prepare
<1>13. ASSUME NEW on \in BOOLEAN, SetRecording(on) PROVE FALSE
  BY <1>8, <1>13 DEF SetRecording
<1>14. ASSUME NEW t \in Texts, Replace(t) PROVE FALSE
  BY <1>0, <1>14 DEF Replace
<1> QED BY <1>4, <1>5, <1>6, <1>7, <1>9, <1>10, <1>11, <1>12, <1>13, <1>14 DEF Next

(* The changes of an open undo block that does not navigate are one undo   *)
(* step: effective_hint makes the second and later ones join the first.    *)
THEOREM BlockIsOne == Spec => BlockIsOneStep
<1>1. IInv /\ [Next]_vars
        => [count' = count + 1 /\ undo_block = "joining" /\ ~last_was_nav
              => group'[current'] = group[current]]_vars
  BY BlockStep
<1> QED BY <1>1, Inductive, PTL DEF Spec, BlockIsOneStep
=============================================================================
