------------------------ MODULE LspCoordinatorProofs ------------------------
(***************************************************************************)
(* What is on its way to the server brings its copies to the texts the     *)
(* coordinator believes it has, and a closed completion menu stays closed. *)
(***************************************************************************)
EXTENDS LspCoordinator, TLAPS

(* What the pipes carry.                                                   *)
Rid == 2 .. MaxId
Rev == 0 .. MaxRev
Copy == [version : Nat, rev : Rev]
Asks == [op : {"request"}, rid : Rid, kind : Kinds, rev : Rev, idx : Item, buf : Buffer,
         version : Nat]
Starts == [op : {"request"}, rid : {1}, kind : {"initialize"}, rev : Rev, idx : Item,
           buf : Buffer, version : Nat]
Tells == [op : {"open", "change", "reply"}, rid : {0}, kind : {"open", "change", "reply"},
          rev : Rev, idx : Item, buf : Buffer, version : Nat]
Message == Asks \cup Starts \cup Tells
Awaited == [rid : Rid, kind : Kinds, rev : Rev, idx : Item]
Filled == Nat \X Item
Answers == [op : {"answer"}, rid : Rid, edit : SUBSET Text, item : Filled]
Wishes == [op : {"apply_edit"}, edit : SUBSET Text]
Incoming == Answers \cup Wishes \cup [op : {"ready", "error"}]
Menu == [rid : Rid, rev : Rev, sel : Item, extra : [Item -> Filled \cup {<<>>}]]

(* The types, by owner.                                                    *)
EditorTyped ==
    /\ focus \in Buffer /\ rev \in [Buffer -> Rev] /\ picker \subseteq Text
    /\ phase \in {"sync", "poll", "ingest", "apply", "key"} /\ frame \in Rev
ServerTyped ==
    server \in [alive : BOOLEAN, copy : [Buffer -> Copy], jobs : SUBSET Asks, asking : BOOLEAN]
ClientTyped ==
    client \in [life : {"none", "missing", "starting", "ready"}, next_id : 1 .. MaxId + 1,
                held : Seq(Message)]
PendingTyped ==
    /\ pending \subseteq Awaited
    /\ \A p, q \in pending : p.rid = q.rid => p = q
WireTyped ==
    /\ docs \in [Buffer -> Copy] /\ out \in Seq(Message) /\ in \in Seq(Incoming)
    /\ ServerTyped /\ ClientTyped /\ PendingTyped
StashTyped ==
    stash \in [goto : SUBSET Text, format : SUBSET Text, rename : SUBSET Text,
               asked : Seq(SUBSET Text), completions : SUBSET Awaited,
               resolves : SUBSET [p : Awaited, item : Filled]]
PopupTyped ==
    /\ menu = NoMenu \/ menu \in Menu
    /\ req \in [completion : Rid \cup {None}, resolve : Rid \cup {None},
                want : Item \cup {None}, refilter : BOOLEAN]
    /\ closed \in 0 .. MaxId + 1
(* An id that is given out is new.                                         *)
IdsInv ==
    /\ \A p \in pending : p.rid < client.next_id
    /\ client.life \in {"starting", "ready"} => client.next_id >= 2
    /\ client.life = "none" => client.next_id = 1

(* Notifications are held back only before the handshake, and nothing is   *)
(* under way before the server is started.                                 *)
LifeInv ==
    /\ client.life = "ready" => client.held = <<>>
    /\ server.alive => client.life \in {"starting", "ready"}
    /\ client.life \in {"none", "missing"} =>
          /\ out = <<>> /\ client.held = <<>>
          /\ docs = server.copy

FollowInv ==
    server.alive =>
        \A b \in Buffer : Follows(out \o client.held, b, server.copy[b], docs[b])

(* While the menu is closed, the request whose answer would open it is     *)
(* younger than the closing.                                               *)
MenuInv ==
    /\ closed <= client.next_id
    /\ menu = NoMenu => (req.completion = None \/ req.completion >= closed)

WireInv == WireTyped /\ IdsInv /\ LifeInv /\ FollowInv

IInv == EditorTyped /\ StashTyped /\ PopupTyped /\ WireInv /\ MenuInv

----------------------------------------------------------------------------
(* What messages make of a copy.                                           *)

TellsOf(m, b) == m.op \in {"open", "change"} /\ m.buf = b

\* Two runs of messages that tell the same of a buffer in the same order.
LEMMA FollowsSame ==
    ASSUME NEW ms, NEW ns, NEW b, NEW had, NEW doc,
           NEW f \in [Notifies(ns, b) -> Notifies(ms, b)],
           \A i \in Notifies(ms, b) : \E k \in Notifies(ns, b) : f[k] = i,
           \A i, k \in Notifies(ns, b) : i < k => f[i] < f[k],
           \A k \in Notifies(ns, b) : ns[k] = ms[f[k]],
           Follows(ms, b, had, doc)
    PROVE  Follows(ns, b, had, doc)
<1> DEFINE A == Notifies(ms, b)
           B == Notifies(ns, b)
<1>1. \A k \in B : f[k] \in A
  OBVIOUS
<1>2. {ns[i].version : i \in B} = {ms[i].version : i \in A}
  <2>1. ASSUME NEW i \in B PROVE ns[i].version \in {ms[k].version : k \in A}
    BY <1>1
  <2>2. ASSUME NEW i \in A PROVE ms[i].version \in {ns[k].version : k \in B}
    <3>1. PICK k \in B : f[k] = i
      OBVIOUS
    <3>2. ns[k] = ms[i]
      BY <3>1
    <3> QED BY <3>2
  <2> QED BY <2>1, <2>2
<1>3. \A i, k \in B : i < k => ns[i].version < ns[k].version
  <2> SUFFICES ASSUME NEW i \in B, NEW k \in B, i < k PROVE ns[i].version < ns[k].version
    OBVIOUS
  <2>1. f[i] \in A /\ f[k] \in A /\ f[i] < f[k]
    BY <1>1
  <2>2. ms[f[i]].version < ms[f[k]].version
    BY <2>1 DEF Follows
  <2>3. ns[i] = ms[f[i]] /\ ns[k] = ms[f[k]]
    OBVIOUS
  <2> QED BY <2>2, <2>3
<1>4. \A i \in B : (ns[i].op = "open") = (ns[i].version = 1)
  <2> SUFFICES ASSUME NEW i \in B PROVE (ns[i].op = "open") = (ns[i].version = 1)
    OBVIOUS
  <2>1. (ms[f[i]].op = "open") = (ms[f[i]].version = 1)
    BY <1>1 DEF Follows
  <2> QED BY <2>1
<1>5. ASSUME had.version # doc.version
      PROVE  \E i \in B : ns[i].version = doc.version /\ ns[i].rev = doc.rev
  <2>1. PICK i \in A : ms[i].version = doc.version /\ ms[i].rev = doc.rev
    BY <1>5 DEF Follows
  <2>2. PICK k \in B : f[k] = i
    OBVIOUS
  <2>3. ns[k] = ms[i]
    BY <2>2
  <2> QED BY <2>1, <2>3
<1>6. had.version <= doc.version
  BY DEF Follows
<1>7. {ns[i].version : i \in B} = had.version + 1 .. doc.version
  BY <1>2 DEF Follows
<1>8. IF had.version = doc.version THEN had.rev = doc.rev
      ELSE \E i \in B : ns[i].version = doc.version /\ ns[i].rev = doc.rev
  BY <1>5 DEF Follows
<1> QED BY <1>3, <1>4, <1>6, <1>7, <1>8 DEF Follows

\* Messages of something else put between two others.
LEMMA FollowsInsert ==
    ASSUME NEW S, NEW a \in Seq(S), NEW r \in Seq(S), NEW z \in Seq(S), NEW b, NEW had, NEW doc,
           \A i \in DOMAIN r : ~TellsOf(r[i], b),
           Follows(a \o z, b, had, doc)
    PROVE  Follows((a \o r) \o z, b, had, doc)
<1> DEFINE ms == a \o z
           ns == (a \o r) \o z
           A == Notifies(ms, b)
           B == Notifies(ns, b)
           f == [k \in B |-> IF k <= Len(a) THEN k ELSE k - Len(r)]
<1>0. /\ Len(a) \in Nat /\ Len(r) \in Nat /\ Len(z) \in Nat
      /\ ms \in Seq(S) /\ ns \in Seq(S)
      /\ Len(ms) = Len(a) + Len(z) /\ Len(ns) = Len(a) + Len(r) + Len(z)
      /\ DOMAIN ms = 1 .. Len(a) + Len(z)
      /\ DOMAIN ns = 1 .. Len(a) + Len(r) + Len(z)
  OBVIOUS
<1>1. ASSUME NEW i \in 1 .. Len(a) PROVE ms[i] = a[i] /\ ns[i] = a[i]
  OBVIOUS
<1>2. ASSUME NEW i \in 1 .. Len(r) PROVE ns[Len(a) + i] = r[i]
  OBVIOUS
<1>3. ASSUME NEW i \in 1 .. Len(z)
      PROVE  ms[Len(a) + i] = z[i] /\ ns[Len(a) + Len(r) + i] = z[i]
  OBVIOUS
<1>4. ASSUME NEW k \in B PROVE f[k] \in A /\ ns[k] = ms[f[k]] /\ (k <= Len(a) \/ k > Len(a) + Len(r))
  <2>0. k \in DOMAIN ns /\ TellsOf(ns[k], b)
    BY <1>4 DEF Notifies, TellsOf
  <2>1. CASE k <= Len(a)
    <3>1. k \in 1 .. Len(a)
      BY <2>0, <2>1, <1>0
    <3>2. ns[k] = ms[k] /\ f[k] = k /\ k \in DOMAIN ms
      BY <3>1, <1>0, <1>1
    <3> QED BY <2>0, <2>1, <3>2 DEF Notifies, TellsOf
  <2>2. CASE k > Len(a) /\ k <= Len(a) + Len(r)
    <3>1. k - Len(a) \in 1 .. Len(r) /\ Len(a) + (k - Len(a)) = k
      BY <2>0, <2>2, <1>0
    <3>2. ns[k] = r[k - Len(a)]
      BY <3>1, <1>2
    <3>3. k - Len(a) \in DOMAIN r
      BY <3>1
    <3> QED BY <2>0, <3>2, <3>3
  <2>3. CASE k > Len(a) + Len(r)
    <3>1. PICK i \in 1 .. Len(z) : k = Len(a) + Len(r) + i
      <4>1. k - (Len(a) + Len(r)) \in 1 .. Len(z) /\ k = Len(a) + Len(r) + (k - (Len(a) + Len(r)))
        BY <2>0, <2>3, <1>0
      <4> QED BY <4>1
    <3>2. f[k] = Len(a) + i /\ Len(a) + i \in DOMAIN ms
      BY <3>1, <2>3, <1>0, <1>4
    <3>3. ns[k] = ms[Len(a) + i]
      BY <3>1, <1>3
    <3> QED BY <2>0, <2>3, <3>2, <3>3 DEF Notifies, TellsOf
  <2> QED BY <2>0, <2>1, <2>2, <2>3, <1>0
<1>5. ASSUME NEW i \in A PROVE \E k \in B : f[k] = i
  <2>0. i \in DOMAIN ms /\ TellsOf(ms[i], b)
    BY <1>5 DEF Notifies, TellsOf
  <2>1. CASE i <= Len(a)
    <3>1. i \in 1 .. Len(a)
      BY <2>0, <2>1, <1>0
    <3>2. ns[i] = ms[i] /\ i \in DOMAIN ns
      BY <3>1, <1>0, <1>1
    <3>3. i \in B
      BY <2>0, <3>2 DEF Notifies, TellsOf
    <3> QED BY <3>3, <2>1
  <2>2. CASE i > Len(a)
    <3>1. PICK j \in 1 .. Len(z) : i = Len(a) + j
      <4>1. i - Len(a) \in 1 .. Len(z) /\ i = Len(a) + (i - Len(a))
        BY <2>0, <2>2, <1>0
      <4> QED BY <4>1
    <3>2. ns[Len(a) + Len(r) + j] = ms[i] /\ Len(a) + Len(r) + j \in DOMAIN ns
      BY <3>1, <1>0, <1>3
    <3>3. Len(a) + Len(r) + j \in B
      BY <2>0, <3>2 DEF Notifies, TellsOf
    <3>4. f[Len(a) + Len(r) + j] = i
      BY <3>1, <3>3, <1>0
    <3> QED BY <3>3, <3>4
  <2> QED BY <2>0, <2>1, <2>2, <1>0
<1>6. ASSUME NEW i \in B, NEW k \in B, i < k PROVE f[i] < f[k]
  <2>1. /\ i \in Nat /\ k \in Nat
        /\ (i <= Len(a) \/ i > Len(a) + Len(r)) /\ (k <= Len(a) \/ k > Len(a) + Len(r))
    <3>1. i \in DOMAIN ns /\ k \in DOMAIN ns
      BY DEF Notifies
    <3>2. i \in Nat /\ k \in Nat
      BY <3>1, <1>0
    <3> HIDE DEF B, ns
    <3> QED BY <3>2, <1>4
  <2> QED BY <2>1, <1>0, <1>6
<1>7. f \in [B -> A]
  BY <1>4
<1> HIDE DEF f
<1>8. \A k \in B : ns[k] = ms[f[k]]
  BY <1>4
<1> HIDE DEF ms, ns, A, B
<1>9. Follows(ms, b, had, doc)
  BY DEF ms
<1>10. Follows(ns, b, had, doc)
  BY <1>5, <1>6, <1>7, <1>8, <1>9, FollowsSame DEF A, B
<1> QED BY <1>10 DEF ns

\* A message of something else is added.
LEMMA FollowsAppendOther ==
    ASSUME NEW S, NEW ms \in Seq(S), NEW m \in S, NEW b, NEW had, NEW doc,
           ~TellsOf(m, b),
           Follows(ms, b, had, doc)
    PROVE  Follows(Append(ms, m), b, had, doc)
<1>1. ms \o <<>> = ms /\ <<m>> \in Seq(S) /\ <<>> \in Seq(S)
  OBVIOUS
<1>2. (ms \o <<m>>) \o <<>> = Append(ms, m)
  OBVIOUS
<1>3. \A i \in DOMAIN <<m>> : ~TellsOf(<<m>>[i], b)
  <2>1. DOMAIN <<m>> = {1} /\ <<m>>[1] = m
    OBVIOUS
  <2> QED BY <2>1
<1>4. Follows(ms \o <<>>, b, had, doc)
  BY <1>1
<1>5. Follows((ms \o <<m>>) \o <<>>, b, had, doc)
  BY <1>1, <1>3, <1>4, FollowsInsert
<1> QED BY <1>2, <1>5

\* A message of something else is taken.
LEMMA FollowsDrop ==
    ASSUME NEW S, NEW ms \in Seq(S), ms # <<>>, NEW b, NEW had, NEW doc,
           ~TellsOf(Head(ms), b),
           Follows(ms, b, had, doc)
    PROVE  Follows(Tail(ms), b, had, doc)
<1> DEFINE ns == Tail(ms)
           A == Notifies(ms, b)
           B == Notifies(ns, b)
           f == [k \in B |-> k + 1]
<1>0. /\ Len(ms) \in Nat \ {0} /\ ns \in Seq(S) /\ Len(ns) = Len(ms) - 1
      /\ DOMAIN ms = 1 .. Len(ms) /\ DOMAIN ns = 1 .. Len(ms) - 1
      /\ ms[1] = Head(ms)
  OBVIOUS
<1>1. ASSUME NEW k \in 1 .. Len(ms) - 1 PROVE ns[k] = ms[k + 1]
  OBVIOUS
<1>2. ASSUME NEW k \in B PROVE f[k] \in A /\ ns[k] = ms[f[k]]
  <2>1. k \in 1 .. Len(ms) - 1 /\ TellsOf(ns[k], b) /\ f[k] = k + 1
    BY <1>0 DEF Notifies, TellsOf
  <2>2. ns[k] = ms[k + 1] /\ k + 1 \in DOMAIN ms
    BY <2>1, <1>0, <1>1
  <2> QED BY <2>1, <2>2 DEF Notifies, TellsOf
<1>3. ASSUME NEW i \in A PROVE \E k \in B : f[k] = i
  <2>1. i \in 1 .. Len(ms) /\ TellsOf(ms[i], b)
    BY <1>0 DEF Notifies, TellsOf
  <2>2. i # 1
    BY <2>1, <1>0
  <2>3. i - 1 \in 1 .. Len(ms) - 1 /\ (i - 1) + 1 = i
    BY <2>1, <2>2, <1>0
  <2>4. ns[i - 1] = ms[i]
    BY <2>3, <1>1
  <2>5. i - 1 \in B
    BY <2>1, <2>3, <2>4, <1>0 DEF Notifies, TellsOf
  <2> QED BY <2>3, <2>5
<1>4. ASSUME NEW i \in B, NEW k \in B, i < k PROVE f[i] < f[k]
  <2>1. i \in Nat /\ k \in Nat
    BY <1>0 DEF Notifies
  <2> QED BY <2>1, <1>4
<1>5. f \in [B -> A]
  BY <1>2
<1> HIDE DEF f
<1>6. \A k \in B : ns[k] = ms[f[k]]
  BY <1>2
<1> HIDE DEF ns, A, B
<1>7. Follows(ns, b, had, doc)
  BY <1>3, <1>4, <1>5, <1>6, FollowsSame DEF A, B
<1> QED BY <1>7 DEF ns

\* The next notification is taken: it is one version on.
LEMMA FollowsTake ==
    ASSUME NEW ms \in Seq(Message), ms # <<>>, NEW b, NEW had \in Copy, NEW doc \in Copy,
           NEW m \in Message, m = Head(ms), TellsOf(m, b),
           Follows(ms, b, had, doc)
    PROVE  Follows(Tail(ms), b, [version |-> m.version, rev |-> m.rev], doc)
<1> DEFINE ns == Tail(ms)
           A == Notifies(ms, b)
           B == Notifies(ns, b)
           h == had.version
           d == doc.version
<1>0. /\ Len(ms) \in Nat \ {0} /\ ns \in Seq(Message) /\ Len(ns) = Len(ms) - 1
      /\ DOMAIN ms = 1 .. Len(ms) /\ DOMAIN ns = 1 .. Len(ms) - 1
      /\ ms[1] = m
  OBVIOUS
<1>1. ASSUME NEW k \in 1 .. Len(ms) - 1 PROVE ns[k] = ms[k + 1]
  OBVIOUS
<1>2. h \in Nat /\ d \in Nat
  BY DEF Copy
<1>3. \A i \in A : i \in 1 .. Len(ms) /\ TellsOf(ms[i], b)
  BY <1>0 DEF Notifies, TellsOf
<1>4. 1 \in A
  BY <1>0 DEF Notifies, TellsOf
<1>5. \A i \in A : i # 1 => m.version < ms[i].version
  <2> SUFFICES ASSUME NEW i \in A, i # 1 PROVE m.version < ms[i].version
    OBVIOUS
  <2>1. 1 < i
    BY <1>3, <1>0
  <2>2. ms[1].version < ms[i].version
    BY <2>1, <1>4 DEF Follows
  <2> QED BY <2>2, <1>0
<1>6. \A i \in A : ms[i].version \in h + 1 .. d
  BY DEF Follows
<1>7. \A v \in h + 1 .. d : \E i \in A : ms[i].version = v
  BY DEF Follows
<1> HIDE DEF A, B, ns, h, d
<1>8. m.version = h + 1
  <2>1. m.version \in h + 1 .. d
    BY <1>0, <1>4, <1>6
  <2>2. h + 1 \in h + 1 .. d
    BY <2>1, <1>2
  <2>3. PICK i \in A : ms[i].version = h + 1
    BY <2>2, <1>7
  <2> QED BY <2>1, <2>3, <1>0, <1>2, <1>5
<1>9. h + 1 <= d
  <2>1. m.version \in h + 1 .. d
    BY <1>0, <1>4, <1>6
  <2> QED BY <2>1, <1>2
<1>10. \A k \in B : k \in 1 .. Len(ms) - 1 /\ k + 1 \in A /\ ns[k] = ms[k + 1]
  <2> SUFFICES ASSUME NEW k \in B
               PROVE  k \in 1 .. Len(ms) - 1 /\ k + 1 \in A /\ ns[k] = ms[k + 1]
    OBVIOUS
  <2>1. k \in 1 .. Len(ms) - 1 /\ TellsOf(ns[k], b)
    BY <1>0 DEF Notifies, TellsOf, B
  <2>2. ns[k] = ms[k + 1] /\ k + 1 \in DOMAIN ms
    BY <2>1, <1>0, <1>1
  <2> QED BY <2>1, <2>2 DEF Notifies, TellsOf, A
<1>11. \A i \in A : i # 1 => i - 1 \in B /\ ns[i - 1] = ms[i]
  <2> SUFFICES ASSUME NEW i \in A, i # 1 PROVE i - 1 \in B /\ ns[i - 1] = ms[i]
    OBVIOUS
  <2>1. i \in 1 .. Len(ms) /\ TellsOf(ms[i], b)
    BY <1>3
  <2>2. i - 1 \in 1 .. Len(ms) - 1 /\ (i - 1) + 1 = i
    BY <2>1, <1>0
  <2>3. ns[i - 1] = ms[i]
    BY <2>2, <1>1
  <2> QED BY <2>1, <2>2, <2>3, <1>0 DEF Notifies, TellsOf, B
<1>12. {ns[k].version : k \in B} = m.version + 1 .. d
  <2>1. ASSUME NEW k \in B PROVE ns[k].version \in m.version + 1 .. d
    <3>1. k + 1 \in A /\ k + 1 # 1 /\ ns[k] = ms[k + 1]
      BY <1>10
    <3>2. ms[k + 1].version \in h + 1 .. d /\ m.version < ms[k + 1].version
      BY <3>1, <1>5, <1>6
    <3> QED BY <3>1, <3>2, <1>2, <1>8
  <2>2. ASSUME NEW v \in m.version + 1 .. d PROVE \E k \in B : ns[k].version = v
    <3>1. v \in h + 1 .. d /\ v # m.version
      BY <1>2, <1>8
    <3>2. PICK i \in A : ms[i].version = v
      BY <3>1, <1>7
    <3>3. i # 1
      BY <3>1, <3>2, <1>0
    <3> QED BY <3>2, <3>3, <1>11
  <2> QED BY <2>1, <2>2
<1>13. \A i, k \in B : i < k => ns[i].version < ns[k].version
  <2> SUFFICES ASSUME NEW i \in B, NEW k \in B, i < k PROVE ns[i].version < ns[k].version
    OBVIOUS
  <2>1. /\ i + 1 \in A /\ k + 1 \in A /\ i + 1 < k + 1
        /\ ns[i] = ms[i + 1] /\ ns[k] = ms[k + 1]
    BY <1>10
  <2>2. ms[i + 1].version < ms[k + 1].version
    BY <2>1 DEF Follows, A
  <2> QED BY <2>1, <2>2
<1>14. \A i \in B : (ns[i].op = "open") = (ns[i].version = 1)
  <2> SUFFICES ASSUME NEW i \in B PROVE (ns[i].op = "open") = (ns[i].version = 1)
    OBVIOUS
  <2>1. i + 1 \in A /\ ns[i] = ms[i + 1]
    BY <1>10
  <2>2. (ms[i + 1].op = "open") = (ms[i + 1].version = 1)
    BY <2>1 DEF Follows, A
  <2> QED BY <2>1, <2>2
<1>15. PICK i \in A : ms[i].version = d /\ ms[i].rev = doc.rev
  <2>1. h # d
    BY <1>2, <1>9
  <2> QED BY <2>1 DEF Follows, A, h, d
<1>16. IF m.version = d THEN m.rev = doc.rev
       ELSE \E k \in B : ns[k].version = d /\ ns[k].rev = doc.rev
  <2>1. CASE m.version = d
    <3>1. i = 1
      BY <2>1, <1>15, <1>5, <1>2
    <3> QED BY <3>1, <2>1, <1>15, <1>0
  <2>2. CASE m.version # d
    <3>1. i # 1
      BY <2>2, <1>15, <1>0
    <3> QED BY <3>1, <2>2, <1>15, <1>11
  <2> QED BY <2>1, <2>2
<1> DEFINE c == [version |-> m.version, rev |-> m.rev]
<1>17. c.version = m.version /\ c.rev = m.rev /\ c.version <= d
  BY <1>8, <1>9
<1> HIDE DEF c
<1>18. Follows(ns, b, c, doc)
  BY <1>12, <1>13, <1>14, <1>16, <1>17 DEF Follows, B, d
<1> QED BY <1>18 DEF c, ns

\* A new version is sent.
LEMMA FollowsAppend ==
    ASSUME NEW ms \in Seq(Message), NEW b, NEW had \in Copy, NEW doc \in Copy, NEW new \in Copy,
           NEW m \in Message, TellsOf(m, b),
           m.version = doc.version + 1, (m.op = "open") = (m.version = 1),
           new.version = m.version, new.rev = m.rev,
           Follows(ms, b, had, doc)
    PROVE  Follows(Append(ms, m), b, had, new)
<1> DEFINE ns == Append(ms, m)
           A == Notifies(ms, b)
           B == Notifies(ns, b)
           h == had.version
           d == doc.version
           n == Len(ms) + 1
<1>0. /\ Len(ms) \in Nat /\ ns \in Seq(Message) /\ Len(ns) = n
      /\ DOMAIN ms = 1 .. Len(ms) /\ DOMAIN ns = 1 .. n
      /\ ns[n] = m
  OBVIOUS
<1>1. ASSUME NEW k \in 1 .. Len(ms) PROVE ns[k] = ms[k]
  OBVIOUS
<1>2. h \in Nat /\ d \in Nat /\ n \in Nat /\ new.version = d + 1 /\ h <= d
  BY <1>0 DEF Copy, Follows
<1>3. n \in B
  BY <1>0 DEF Notifies, TellsOf
<1>4. ASSUME NEW i \in A PROVE i \in B /\ i < n /\ ns[i] = ms[i]
  <2>1. i \in 1 .. Len(ms) /\ TellsOf(ms[i], b)
    BY <1>0 DEF Notifies, TellsOf
  <2>2. ns[i] = ms[i] /\ i \in DOMAIN ns
    BY <2>1, <1>0, <1>1
  <2> QED BY <2>1, <2>2, <1>0 DEF Notifies, TellsOf
<1>5. ASSUME NEW i \in B PROVE i \in Nat /\ i <= n /\ (i = n \/ (i \in A /\ ns[i] = ms[i]))
  <2>1. i \in 1 .. n /\ TellsOf(ns[i], b)
    BY <1>0 DEF Notifies, TellsOf
  <2>2. CASE i = n
    BY <2>1, <2>2, <1>0
  <2>3. CASE i # n
    <3>1. i \in 1 .. Len(ms)
      BY <2>1, <2>3, <1>0
    <3>2. ns[i] = ms[i]
      BY <3>1, <1>1
    <3> QED BY <2>1, <3>1, <3>2, <1>0 DEF Notifies, TellsOf
  <2> QED BY <2>2, <2>3
<1>6. \A i \in A : ms[i].version \in h + 1 .. d
  BY DEF Follows
<1>7. \A v \in h + 1 .. d : \E i \in A : ms[i].version = v
  BY DEF Follows
<1> HIDE DEF A, B, ns, h, d, n
<1>8. {ns[k].version : k \in B} = h + 1 .. d + 1
  <2>1. ASSUME NEW k \in B PROVE ns[k].version \in h + 1 .. d + 1
    BY <1>0, <1>2, <1>5, <1>6 DEF d
  <2>2. ASSUME NEW v \in h + 1 .. d + 1 PROVE \E k \in B : ns[k].version = v
    <3>1. CASE v = d + 1
      BY <3>1, <1>0, <1>3 DEF d
    <3>2. CASE v # d + 1
      <4>1. v \in h + 1 .. d
        BY <3>2, <1>2
      <4>2. PICK i \in A : ms[i].version = v
        BY <4>1, <1>7
      <4> QED BY <4>2, <1>4
    <3> QED BY <3>1, <3>2
  <2> QED BY <2>1, <2>2
<1>9. \A i, k \in B : i < k => ns[i].version < ns[k].version
  <2> SUFFICES ASSUME NEW i \in B, NEW k \in B, i < k PROVE ns[i].version < ns[k].version
    OBVIOUS
  <2>1. i \in A /\ ns[i] = ms[i]
    BY <1>2, <1>5
  <2>2. CASE k = n
    <3>1. ns[k].version = d + 1
      BY <2>2, <1>0 DEF d
    <3> QED BY <3>1, <2>1, <1>2, <1>6
  <2>3. CASE k \in A /\ ns[k] = ms[k]
    <3>1. ms[i].version < ms[k].version
      BY <2>1, <2>3 DEF Follows, A
    <3> QED BY <3>1, <2>1, <2>3
  <2> QED BY <2>2, <2>3, <1>5
<1>10. \A i \in B : (ns[i].op = "open") = (ns[i].version = 1)
  <2> SUFFICES ASSUME NEW i \in B PROVE (ns[i].op = "open") = (ns[i].version = 1)
    OBVIOUS
  <2>1. CASE i = n
    BY <2>1, <1>0
  <2>2. CASE i \in A /\ ns[i] = ms[i]
    <3>1. (ms[i].op = "open") = (ms[i].version = 1)
      BY <2>2 DEF Follows, A
    <3> QED BY <3>1, <2>2
  <2> QED BY <2>1, <2>2, <1>5
<1>11. h # new.version /\ h <= new.version
  BY <1>2
<1>12. \E i \in B : ns[i].version = new.version /\ ns[i].rev = new.rev
  BY <1>0, <1>3
<1>13. {ns[k].version : k \in B} = h + 1 .. new.version
  BY <1>2, <1>8
<1>14. Follows(ns, b, had, new)
  BY <1>9, <1>10, <1>11, <1>12, <1>13 DEF Follows, B, h
<1> QED BY <1>14 DEF ns

\* Nothing is under way.
LEMMA FollowsNothing ==
    ASSUME NEW ms, NEW b, NEW had \in Copy,
           \A i \in DOMAIN ms : ~TellsOf(ms[i], b)
    PROVE  Follows(ms, b, had, had)
<1>1. Notifies(ms, b) = {}
  BY DEF Notifies, TellsOf
<1>2. had.version \in Nat
  BY DEF Copy
<1>3. had.version + 1 .. had.version = {}
  BY <1>2
<1> QED BY <1>1, <1>2, <1>3 DEF Follows

----------------------------------------------------------------------------
(* What the actions are made of.                                           *)

LEMMA TypesHold == IInv => TypeOK
<1> SUFFICES ASSUME IInv PROVE TypeOK
  OBVIOUS
<1>1. focus \in Buffer /\ rev \in [Buffer -> 0 .. MaxRev] /\ picker \subseteq Text
  BY DEF IInv, EditorTyped, Rev
<1>2. phase \in {"sync", "poll", "ingest", "apply", "key"} /\ frame \in 0 .. MaxRev
  BY DEF IInv, EditorTyped, Rev
<1>3. docs \in [Buffer -> [version : Nat, rev : 0 .. MaxRev]]
  BY DEF IInv, WireInv, WireTyped, Copy, Rev
<1>4. /\ client.life \in {"none", "missing", "starting", "ready"}
      /\ client.next_id \in 1 .. MaxId + 1
  BY DEF IInv, WireInv, WireTyped, ClientTyped
<1>5. /\ pending \subseteq [rid : 2 .. MaxId, kind : Kinds, rev : 0 .. MaxRev, idx : Item]
      /\ \A p, q \in pending : p.rid = q.rid => p = q
  BY DEF IInv, WireInv, WireTyped, PendingTyped, Awaited, Rid, Rev
<1>6. menu = NoMenu \/ (menu.rid \in 2 .. MaxId /\ menu.sel \in Item)
  BY DEF IInv, PopupTyped, Menu, Rid
<1>7. closed \in 0 .. MaxId + 1
  BY DEF IInv, PopupTyped
<1> QED BY <1>1, <1>2, <1>3, <1>4, <1>5, <1>6, <1>7 DEF TypeOK

LEMMA Bounds ==
    /\ MaxRev \in Nat /\ MaxId \in Nat \ {0} /\ 0 \in Rev /\ 0 \in Item /\ Item \subseteq Nat
    /\ \A i \in Rid : i \in Nat /\ 2 <= i /\ i <= MaxId
    /\ \A r \in Rev : r \in Nat /\ r <= MaxRev
BY ConstantsAssumption DEF Rev, Rid

LEMMA EditedTyped ==
    ASSUME rev \in [Buffer -> Rev], NEW bs, \A b \in Buffer : b \in bs => rev[b] < MaxRev
    PROVE  Edited(bs) \in [Buffer -> Rev]
<1>1. ASSUME NEW b \in Buffer PROVE (IF b \in bs THEN rev[b] + 1 ELSE rev[b]) \in Rev
  <2>1. rev[b] \in Rev /\ MaxRev \in Nat
    BY Bounds
  <2> QED BY <2>1 DEF Rev
<1> QED BY <1>1 DEF Edited

LEMMA FitTyped ==
    ASSUME NEW edit, NEW bs \in SUBSET Fit(edit)
    PROVE  \A b \in Buffer : b \in bs => rev[b] < MaxRev
BY DEF Fit

\* Nothing of the connection is touched.
LEMMA WireUnchanged ==
    ASSUME WireInv, UNCHANGED <<docs, client, out, in, server, pending>>
    PROVE  WireInv'
<1>1. WireTyped'
  BY DEF WireInv, WireTyped, ServerTyped, ClientTyped, PendingTyped
<1>2. IdsInv' /\ LifeInv'
  BY DEF WireInv, IdsInv, LifeInv
<1>3. FollowInv'
  BY DEF WireInv, FollowInv
<1> QED BY <1>1, <1>2, <1>3 DEF WireInv

\* Nothing of the popup is touched, and no id is taken back.
LEMMA PopupUnchanged ==
    ASSUME WireTyped, PopupTyped, MenuInv, UNCHANGED popup,
           client'.next_id \in Nat, client.next_id <= client'.next_id
    PROVE  PopupTyped' /\ MenuInv'
<1>1. PopupTyped'
  BY DEF PopupTyped, popup
<1>2. client.next_id \in Nat /\ closed \in Nat /\ closed <= client.next_id /\ closed' = closed
  BY Bounds DEF WireTyped, ClientTyped, PopupTyped, MenuInv, popup
<1>3. closed' <= client'.next_id
  BY <1>2
<1>4. menu' = NoMenu => (req'.completion = None \/ req'.completion >= closed')
  BY DEF MenuInv, popup
<1> QED BY <1>1, <1>3, <1>4 DEF MenuInv

\* Messages that tell nothing of a text are written.
LEMMA WrittenFollows ==
    ASSUME WireTyped, FollowInv, NEW r \in Seq(Message),
           \A i \in DOMAIN r : r[i].op \notin {"open", "change"},
           out' = Written(r), client'.held = client.held, UNCHANGED <<docs, server>>
    PROVE  FollowInv'
<1> SUFFICES ASSUME server.alive, NEW b \in Buffer
             PROVE  Follows(out' \o client'.held, b, server'.copy[b], docs'[b])
  BY DEF FollowInv
<1>1. PICK o : o = out
  OBVIOUS
<1>2. PICK z : z = client.held
  OBVIOUS
<1>3. PICK c : c = server.copy[b]
  OBVIOUS
<1>4. PICK d : d = docs[b]
  OBVIOUS
<1>5. o \in Seq(Message) /\ z \in Seq(Message)
  BY <1>1, <1>2 DEF WireTyped, ClientTyped
<1>6. \A i \in DOMAIN r : ~TellsOf(r[i], b)
  BY DEF TellsOf
<1>7. Follows(o \o z, b, c, d)
  BY <1>1, <1>2, <1>3, <1>4 DEF FollowInv
<1>8. Follows((o \o r) \o z, b, c, d)
  BY <1>5, <1>6, <1>7, FollowsInsert
<1>9. out' \o client'.held = (o \o r) \o z /\ server'.copy[b] = c /\ docs'[b] = d
  BY <1>1, <1>2, <1>3, <1>4 DEF Written
<1> QED BY <1>8, <1>9

LEMMA WrittenTyped ==
    ASSUME out \in Seq(Message), NEW r \in Seq(Message)
    PROVE  Written(r) \in Seq(Message)
BY DEF Written

\* Requests with new ids are sent.
LEMMA SendKeeps ==
    ASSUME WireInv, NEW rs \in Seq(Asks),
           \A k \in DOMAIN rs : rs[k].rid = client.next_id + k - 1,
           client.next_id + Len(rs) <= MaxId + 1,
           client.life = "none" => rs = <<>>,
           Send(rs), UNCHANGED <<docs, in, server>>
    PROVE  /\ WireInv'
           /\ client'.next_id \in Nat /\ client.next_id <= client'.next_id
<1>0. /\ WireTyped /\ IdsInv /\ LifeInv /\ FollowInv /\ ClientTyped /\ PendingTyped
      /\ out \in Seq(Message) /\ Len(rs) \in Nat /\ DOMAIN rs = 1 .. Len(rs)
  BY DEF WireInv, WireTyped
<1>1. PICK n : n = client.next_id
  OBVIOUS
<1>2. n \in Nat /\ n >= 1 /\ n + Len(rs) <= MaxId + 1 /\ MaxId \in Nat
  BY <1>0, <1>1, Bounds DEF ClientTyped
<1>3. rs \in Seq(Message) /\ \A i \in DOMAIN rs : rs[i] \in Asks
  <2>1. \A i \in 1 .. Len(rs) : rs[i] \in Asks
    BY <1>0
  <2>2. Asks \subseteq Message
    BY DEF Message
  <2>3. rs \in Seq(Message)
    BY <2>2
  <2> QED BY <2>1, <2>3, <1>0
<1>4. /\ client'.next_id = n + Len(rs) /\ client'.life = client.life
      /\ client'.held = client.held
  BY <1>0, <1>1 DEF Send, ClientTyped
<1>5. ClientTyped'
  <2>1. n + Len(rs) \in 1 .. MaxId + 1
    BY <1>0, <1>2
  <2> QED BY <2>1, <1>0, <1>1 DEF Send, ClientTyped
<1>6. out' \in Seq(Message)
  BY <1>0, <1>3, WrittenTyped DEF Send
<1>7. \A k \in DOMAIN rs : /\ Awaits(rs[k]) \in Awaited
                           /\ Awaits(rs[k]).rid = n + k - 1
  BY <1>1, <1>3 DEF Awaits, Awaited, Asks
<1>8. \A p \in pending' : p \in pending \/ \E k \in DOMAIN rs : p = Awaits(rs[k])
  BY DEF Send
<1>9. \A p \in pending : p \in Awaited /\ p.rid \in Nat /\ p.rid < n
  BY <1>0, <1>1, Bounds DEF PendingTyped, IdsInv, Awaited
<1>10. pending' \subseteq Awaited
  BY <1>7, <1>8, <1>9
<1>11. ASSUME NEW p \in pending', NEW q \in pending', p.rid = q.rid PROVE p = q
  <2>1. CASE p \in pending /\ q \in pending
    BY <2>1, <1>0, <1>11 DEF PendingTyped
  <2>2. ASSUME NEW k \in DOMAIN rs, p = Awaits(rs[k]), q \in pending PROVE FALSE
    BY <2>2, <1>0, <1>2, <1>7, <1>9, <1>11
  <2>3. ASSUME NEW k \in DOMAIN rs, q = Awaits(rs[k]), p \in pending PROVE FALSE
    BY <2>3, <1>0, <1>2, <1>7, <1>9, <1>11
  <2>4. ASSUME NEW k \in DOMAIN rs, NEW i \in DOMAIN rs, p = Awaits(rs[k]), q = Awaits(rs[i])
        PROVE  p = q
    <3>1. k \in Nat /\ i \in Nat /\ n + k - 1 = n + i - 1
      BY <2>4, <1>0, <1>7, <1>11
    <3>2. k = i
      BY <3>1, <1>2
    <3> QED BY <2>4, <3>2
  <2> QED BY <2>1, <2>2, <2>3, <2>4, <1>8
<1>12. PendingTyped'
  BY <1>10, <1>11 DEF PendingTyped
<1>13. WireTyped'
  BY <1>0, <1>5, <1>6, <1>12 DEF WireTyped, ServerTyped
<1>14. \A p \in pending' : p.rid < client'.next_id
  <2> SUFFICES ASSUME NEW p \in pending' PROVE p.rid < n + Len(rs)
    BY <1>4
  <2>1. CASE p \in pending
    BY <2>1, <1>0, <1>2, <1>9
  <2>2. ASSUME NEW k \in DOMAIN rs, p = Awaits(rs[k]) PROVE p.rid < n + Len(rs)
    BY <2>2, <1>0, <1>2, <1>7
  <2> QED BY <2>1, <2>2, <1>8
<1>15. IdsInv'
  <2>1. client'.life \in {"starting", "ready"} => client'.next_id >= 2
    BY <1>0, <1>1, <1>2, <1>4 DEF IdsInv
  <2>2. client'.life = "none" => client'.next_id = 1
    <3>1. rs = <<>> => Len(rs) = 0
      OBVIOUS
    <3> QED BY <3>1, <1>0, <1>1, <1>2, <1>4 DEF IdsInv
  <2> QED BY <1>14, <2>1, <2>2 DEF IdsInv
<1>16. LifeInv'
  <2>1. client.life \in {"none", "missing"} => out' = out
    BY <1>0 DEF Send, Written, LifeInv
  <2> QED BY <1>0, <1>4, <2>1 DEF LifeInv
<1>17. FollowInv'
  <2>1. \A i \in DOMAIN rs : rs[i].op \notin {"open", "change"}
    BY <1>3 DEF Asks
  <2>2. out' = Written(rs)
    BY DEF Send
  <2> QED BY <2>1, <2>2, <1>0, <1>3, <1>4, WrittenFollows
<1> QED BY <1>0, <1>1, <1>2, <1>4, <1>13, <1>15, <1>16, <1>17 DEF WireInv

\* One request is sent.
LEMMA SendOne ==
    ASSUME EditorTyped, WireInv, NEW kind \in Kinds, Served, CanSend,
           Send(<<Request(kind, 0)>>), UNCHANGED <<docs, in, server>>
    PROVE  /\ WireInv' /\ client.next_id \in Rid
           /\ client'.next_id \in Nat /\ client.next_id <= client'.next_id
<1>1. PICK m : m = Request(kind, 0)
  OBVIOUS
<1>2. client.next_id \in Rid
  <2>1. client.next_id \in 1 .. MaxId + 1 /\ client.next_id >= 2 /\ client.next_id <= MaxId
    BY DEF WireInv, WireTyped, ClientTyped, IdsInv, Served, CanSend
  <2> QED BY <2>1, Bounds DEF Rid
<1>3. m \in Asks /\ m.rid = client.next_id
  BY <1>1, <1>2, Bounds DEF Request, Asks, EditorTyped
<1>4. <<m>> \in Seq(Asks) /\ Len(<<m>>) = 1 /\ DOMAIN <<m>> = {1} /\ <<m>>[1] = m
  BY <1>3
<1>5. client.next_id + Len(<<m>>) <= MaxId + 1
  BY <1>2, <1>4, Bounds
<1>6. \A k \in DOMAIN <<m>> : <<m>>[k].rid = client.next_id + k - 1
  BY <1>2, <1>3, <1>4, Bounds
<1>7. Send(<<m>>)
  BY <1>1
<1>8. /\ WireInv'
      /\ client'.next_id \in Nat /\ client.next_id <= client'.next_id
  <2>1. client.life # "none"
    BY DEF Served
  <2> QED BY <2>1, <1>4, <1>5, <1>6, <1>7, SendKeeps
<1> QED BY <1>2, <1>8

----------------------------------------------------------------------------
(* The frame.                                                              *)

LEMMA SpawnKeeps ==
    ASSUME IInv, Spawn
    PROVE  IInv'
<1>0. /\ EditorTyped /\ StashTyped /\ PopupTyped /\ WireInv /\ MenuInv
      /\ WireTyped /\ IdsInv /\ LifeInv /\ FollowInv /\ ClientTyped /\ ServerTyped
  BY DEF IInv, WireInv, WireTyped
<1>1. EditorTyped' /\ StashTyped'
  BY <1>0 DEF Spawn, EditorTyped, StashTyped, editor
<1>2. UNCHANGED popup /\ UNCHANGED <<docs, in, pending>>
  BY DEF Spawn
<1>3. out = <<>> /\ client.held = <<>> /\ docs = server.copy /\ client.life = "none"
  BY <1>0 DEF Spawn, LifeInv
<1>4. ~server.alive
  BY <1>0, <1>3 DEF LifeInv
<1>5. client.next_id \in 1 .. MaxId + 1 /\ MaxId \in Nat /\ MaxId >= 1
  BY <1>0, Bounds DEF ClientTyped
<1>6. CASE client'.life = "starting"
  <2>1. PICK m : m = [op |-> "request", rid |-> 1, kind |-> "initialize", rev |-> 0,
                      idx |-> 0, buf |-> focus, version |-> 0]
    OBVIOUS
  <2>2. m \in Message /\ m.op = "request"
    BY <2>1, <1>0, Bounds DEF EditorTyped, Message, Starts
  <2>3. /\ client' = [client EXCEPT !.life = "starting", !.next_id = 2]
        /\ out' = Append(out, m)
        /\ server' = [server EXCEPT !.alive = TRUE]
    BY <2>1, <1>0, <1>6 DEF Spawn, ClientTyped
  <2>4. out' = <<m>> /\ out' \in Seq(Message)
    BY <2>2, <2>3, <1>3
  <2>5. client'.next_id = 2 /\ client'.held = <<>>
    BY <2>3, <1>0, <1>3 DEF ClientTyped
  <2>6. ClientTyped'
    <3>1. 2 \in 1 .. MaxId + 1
      BY <1>5
    <3> QED BY <3>1, <2>3, <1>0 DEF ClientTyped
  <2>7. ServerTyped' /\ server'.copy = server.copy
    BY <2>3, <1>0 DEF ServerTyped
  <2>8. PendingTyped' /\ docs' \in [Buffer -> Copy] /\ in' \in Seq(Incoming)
    BY <1>0, <1>2 DEF WireTyped, PendingTyped
  <2>9. WireTyped'
    BY <2>4, <2>6, <2>7, <2>8 DEF WireTyped
  <2>10. IdsInv'
    <3>1. ASSUME NEW p \in pending PROVE p.rid < 2
      <4>1. p.rid \in Rid /\ p.rid < client.next_id
        BY <1>0 DEF WireTyped, PendingTyped, Awaited, IdsInv
      <4>2. client.next_id = 1
        BY <1>0, <1>3 DEF IdsInv
      <4> QED BY <4>1, <4>2, Bounds
    <3> QED BY <3>1, <2>5, <1>2, <1>6 DEF IdsInv
  <2>11. LifeInv'
    BY <2>5, <1>6 DEF LifeInv
  <2>12. FollowInv'
    <3> SUFFICES ASSUME NEW b \in Buffer
                 PROVE  Follows(out' \o client'.held, b, server'.copy[b], docs'[b])
      BY DEF FollowInv
    <3>1. PICK c : c = docs[b]
      OBVIOUS
    <3>2. c \in Copy /\ server'.copy[b] = c /\ docs'[b] = c
      BY <3>1, <2>7, <1>0, <1>2, <1>3 DEF WireTyped
    <3>3. out' \o client'.held = <<m>>
      BY <2>2, <2>4, <2>5
    <3>4. DOMAIN <<m>> = {1} /\ <<m>>[1] = m
      OBVIOUS
    <3>5. \A i \in DOMAIN <<m>> : ~TellsOf(<<m>>[i], b)
      BY <3>4, <2>2 DEF TellsOf
    <3>6. Follows(<<m>>, b, c, c)
      BY <3>2, <3>5, FollowsNothing
    <3> QED BY <3>2, <3>3, <3>6
  <2>13. WireInv'
    BY <2>9, <2>10, <2>11, <2>12 DEF WireInv
  <2>14. client'.next_id \in Nat /\ client.next_id <= client'.next_id
    BY <2>5, <1>0, <1>3 DEF IdsInv
  <2>15. PopupTyped' /\ MenuInv'
    BY <2>14, <1>0, <1>2, PopupUnchanged
  <2> QED BY <2>13, <2>15, <1>1 DEF IInv
<1>7. CASE client'.life # "starting"
  <2>1. client' = [client EXCEPT !.life = "missing"] /\ UNCHANGED <<out, server>>
    BY <1>7, <1>0 DEF Spawn, ClientTyped
  <2>2. /\ client'.life = "missing" /\ client'.next_id = client.next_id
        /\ client'.held = client.held /\ ClientTyped'
    BY <2>1, <1>0 DEF ClientTyped
  <2>3. WireTyped'
    BY <2>1, <2>2, <1>0, <1>2 DEF WireTyped, ServerTyped, PendingTyped
  <2>4. IdsInv' /\ LifeInv'
    BY <2>1, <2>2, <1>0, <1>2, <1>3, <1>4 DEF IdsInv, LifeInv
  <2>5. FollowInv'
    BY <2>1, <1>4 DEF FollowInv
  <2>6. client'.next_id \in Nat /\ client.next_id <= client'.next_id
    BY <2>2, <1>5
  <2>7. PopupTyped' /\ MenuInv'
    BY <2>6, <1>0, <1>2, PopupUnchanged
  <2> QED BY <2>3, <2>4, <2>5, <2>7, <1>1 DEF IInv, WireInv
<1> QED BY <1>6, <1>7

LEMMA SyncKeeps ==
    ASSUME IInv, Sync
    PROVE  IInv'
<1>0. /\ EditorTyped /\ StashTyped /\ PopupTyped /\ WireInv /\ MenuInv
      /\ WireTyped /\ IdsInv /\ LifeInv /\ FollowInv /\ ClientTyped /\ ServerTyped
      /\ docs \in [Buffer -> Copy] /\ out \in Seq(Message)
      /\ focus \in Buffer /\ rev[focus] \in Rev
  BY DEF IInv, WireInv, WireTyped, EditorTyped
<1>1. EditorTyped' /\ StashTyped'
  BY <1>0 DEF Sync, EditorTyped, StashTyped, editor
<1>2. UNCHANGED popup /\ UNCHANGED <<in, server, pending>>
  BY DEF Sync
<1>3. client.next_id \in Nat
  BY <1>0, Bounds DEF ClientTyped
<1>4. CASE client.life \notin {"starting", "ready"} \/ Sent(focus)
  <2>1. UNCHANGED <<docs, client, out>>
    BY <1>4 DEF Sync
  <2>2. WireInv'
    BY <2>1, <1>0, <1>2, WireUnchanged
  <2>3. PopupTyped' /\ MenuInv'
    BY <2>1, <1>0, <1>2, <1>3, PopupUnchanged
  <2> QED BY <2>2, <2>3, <1>1 DEF IInv
<1>5. CASE client.life \in {"starting", "ready"} /\ ~Sent(focus)
  <2>1. PICK v : v = docs[focus].version + 1
    OBVIOUS
  <2>2. PICK m : m = Notification(IF v = 1 THEN "open" ELSE "change", focus, v)
    OBVIOUS
  <2>3. PICK new : new = [version |-> v, rev |-> rev[focus]]
    OBVIOUS
  <2>4. docs' = [docs EXCEPT ![focus] = new] /\ Notify(m)
    BY <2>1, <2>2, <2>3, <1>5 DEF Sync
  <2>5. docs[focus].version \in Nat /\ v \in Nat
    BY <2>1, <1>0 DEF Copy
  <2>6. new \in Copy /\ new.version = v /\ new.rev = rev[focus]
    BY <2>3, <2>5, <1>0 DEF Copy
  <2>7. m \in Message
    BY <2>2, <2>5, <1>0, Bounds DEF Notification, Message, Tells
  <2>8. /\ m.version = v /\ m.rev = rev[focus] /\ m.buf = focus
        /\ m.op = IF v = 1 THEN "open" ELSE "change"
    BY <2>2 DEF Notification
  <2>9. (m.op = "open") = (m.version = 1)
    BY <2>8
  <2>10. TellsOf(m, focus)
    BY <2>8 DEF TellsOf
  <2>11. /\ client'.life = client.life /\ client'.next_id = client.next_id
         /\ ClientTyped' /\ out' \in Seq(Message)
    <3>1. CASE client.life = "ready"
      <4>1. out' = Written(<<m>>) /\ client' = client
        BY <3>1, <2>4 DEF Notify
      <4>2. <<m>> \in Seq(Message)
        BY <2>7
      <4>3. out' \in Seq(Message)
        BY <4>1, <4>2, <1>0, WrittenTyped
      <4> QED BY <4>1, <4>3, <1>0 DEF ClientTyped
    <3>2. CASE client.life # "ready"
      <4>1. Append(client.held, m) \in Seq(Message)
        BY <2>7, <1>0 DEF ClientTyped
      <4>2. client' = [client EXCEPT !.held = Append(client.held, m)] /\ out' = out
        BY <3>2, <2>4, <1>0 DEF Notify, ClientTyped
      <4>3. PICK h : h = Append(client.held, m)
        OBVIOUS
      <4> QED BY <4>1, <4>2, <4>3, <1>0 DEF ClientTyped
    <3> QED BY <3>1, <3>2
  <2>12. docs' \in [Buffer -> Copy]
    BY <2>4, <2>6, <1>0
  <2>13. WireTyped'
    BY <2>11, <2>12, <1>0, <1>2 DEF WireTyped, ServerTyped, PendingTyped
  <2>14. IdsInv'
    BY <2>11, <1>0, <1>2 DEF IdsInv
  <2>15. client.life = "ready" => client'.held = <<>>
    BY <2>4, <1>0 DEF Notify, LifeInv
  <2>16. LifeInv'
    BY <2>11, <2>15, <1>0, <1>2, <1>5 DEF LifeInv
  <2>17. FollowInv'
    <3> SUFFICES ASSUME server.alive, NEW b \in Buffer
                 PROVE  Follows(out' \o client'.held, b, server'.copy[b], docs'[b])
      BY <1>2 DEF FollowInv
    <3>1. PICK ms : ms = out \o client.held
      OBVIOUS
    <3>2. PICK c : c = server.copy[b]
      OBVIOUS
    <3>3. PICK d : d = docs[b]
      OBVIOUS
    <3>4. ms \in Seq(Message) /\ c \in Copy /\ d \in Copy
      <4>1. client.held \in Seq(Message) /\ server.copy \in [Buffer -> Copy]
        BY <1>0 DEF ClientTyped, ServerTyped
      <4> QED BY <4>1, <3>1, <3>2, <3>3, <1>0
    <3>5. Follows(ms, b, c, d)
      BY <3>1, <3>2, <3>3, <1>0 DEF FollowInv
    <3>6. out' \o client'.held = Append(ms, m)
      <4>1. client.held \in Seq(Message)
        BY <1>0 DEF ClientTyped
      <4>2. CASE client.life = "ready"
        <5>1. client.held = <<>> /\ out' = out \o <<m>> /\ client'.held = <<>>
          BY <4>2, <2>4, <1>0 DEF Notify, Written, LifeInv
        <5>2. ms = out
          BY <5>1, <3>1, <1>0
        <5>3. out' \o client'.held = out \o <<m>>
          BY <5>1, <2>7, <1>0
        <5> QED BY <5>2, <5>3, <2>7, <1>0
      <4>3. CASE client.life # "ready"
        <5>1. client'.held = Append(client.held, m) /\ out' = out
          BY <4>3, <2>4, <1>0 DEF Notify, ClientTyped
        <5>2. PICK h \in Seq(Message) : h = client.held
          BY <4>1
        <5>3. PICK o \in Seq(Message) : o = out
          BY <1>0
        <5>4. o \o Append(h, m) = Append(o \o h, m)
          BY <2>7
        <5> QED BY <5>1, <5>2, <5>3, <5>4, <3>1
      <4> QED BY <4>2, <4>3
    <3>7. CASE b = focus
      <4>1. docs'[b] = new /\ server'.copy[b] = c /\ TellsOf(m, b)
        BY <3>7, <3>2, <2>4, <2>10, <1>0, <1>2
      <4>2. m.version = d.version + 1 /\ new.version = m.version /\ new.rev = m.rev
        BY <3>3, <3>7, <2>1, <2>6, <2>8
      <4>3. Follows(Append(ms, m), b, c, new)
        BY <4>1, <4>2, <3>4, <3>5, <2>6, <2>7, <2>9, FollowsAppend
      <4> QED BY <3>6, <4>1, <4>3
    <3>8. CASE b # focus
      <4>1. docs'[b] = d /\ server'.copy[b] = c /\ ~TellsOf(m, b)
        BY <3>8, <3>2, <3>3, <2>4, <2>8, <1>0, <1>2 DEF TellsOf
      <4>2. Follows(Append(ms, m), b, c, d)
        BY <4>1, <3>4, <3>5, <2>7, FollowsAppendOther
      <4> QED BY <3>6, <4>1, <4>2
    <3> QED BY <3>7, <3>8
  <2>18. client'.next_id \in Nat /\ client.next_id <= client'.next_id
    BY <2>11, <1>3
  <2>19. PopupTyped' /\ MenuInv'
    BY <2>18, <1>0, <1>2, PopupUnchanged
  <2> QED BY <2>13, <2>14, <2>16, <2>17, <2>19, <1>1 DEF IInv, WireInv
<1> QED BY <1>4, <1>5

\* What an answer stashes is typed.
LEMMA StashedTyped ==
    ASSUME StashTyped, NEW p \in Awaited, NEW m \in Answers, stash' = Stashed(p, m)
    PROVE  StashTyped'
<1>0. m.edit \in SUBSET Text /\ m.item \in Filled
  BY DEF Answers
<1>1. CASE p.kind = "goto"
  <2>1. stash' = [stash EXCEPT !.goto = m.edit]
    BY <1>1 DEF Stashed
  <2> QED BY <2>1, <1>0 DEF StashTyped
<1>2. CASE p.kind = "format"
  <2>1. stash' = [stash EXCEPT !.format = m.edit]
    BY <1>2 DEF Stashed
  <2> QED BY <2>1, <1>0 DEF StashTyped
<1>3. CASE p.kind = "rename"
  <2>1. stash' = [stash EXCEPT !.rename = m.edit]
    BY <1>3 DEF Stashed
  <2> QED BY <2>1, <1>0 DEF StashTyped
<1>4. CASE p.kind = "completion"
  <2>1. stash' = [stash EXCEPT !.completions = @ \cup {p}]
    BY <1>4 DEF Stashed
  <2> QED BY <2>1, <1>0 DEF StashTyped
<1>5. CASE p.kind = "resolve"
  <2>1. stash' = [stash EXCEPT !.resolves = @ \cup {[p |-> p, item |-> m.item]}]
    BY <1>5 DEF Stashed
  <2>2. [p |-> p, item |-> m.item] \in [p : Awaited, item : Filled]
    BY <1>0
  <2> QED BY <2>1, <2>2 DEF StashTyped
<1>6. CASE p.kind \notin {"goto", "format", "rename", "completion", "resolve"}
  <2>1. stash' = stash
    BY <1>6 DEF Stashed
  <2> QED BY <2>1 DEF StashTyped
<1> QED BY <1>1, <1>2, <1>3, <1>4, <1>5, <1>6

LEMMA PollKeeps ==
    ASSUME IInv, Poll
    PROVE  IInv'
<1>0. /\ EditorTyped /\ StashTyped /\ PopupTyped /\ WireInv /\ MenuInv
      /\ WireTyped /\ IdsInv /\ LifeInv /\ FollowInv /\ ClientTyped /\ ServerTyped
      /\ out \in Seq(Message) /\ in \in Seq(Incoming) /\ PendingTyped
  BY DEF IInv, WireInv, WireTyped
<1>1. PICK m : m = Head(in)
  OBVIOUS
<1>2. in # <<>> /\ in' = Tail(in) /\ UNCHANGED <<focus, rev, docs, server, popup, phase, frame>>
  BY DEF Poll
<1>3. m \in Incoming /\ in' \in Seq(Incoming)
  BY <1>0, <1>1, <1>2
<1>4. client.next_id \in Nat
  BY <1>0, Bounds DEF ClientTyped
<1>5. docs' \in [Buffer -> Copy] /\ ServerTyped'
  BY <1>0, <1>2 DEF WireTyped, ServerTyped
<1>6. CASE m.op = "ready" /\ client.life = "starting"
  <2>1. BecomeReady /\ UNCHANGED <<pending, stash, picker>>
    BY <1>1, <1>6 DEF Poll
  <2>2. /\ client'.life = "ready" /\ client'.held = <<>> /\ client'.next_id = client.next_id
        /\ ClientTyped'
    <3>1. <<>> \in Seq(Message)
      OBVIOUS
    <3>2. client' = [client EXCEPT !.life = "ready", !.held = <<>>]
      BY <2>1 DEF BecomeReady
    <3> QED BY <3>1, <3>2, <1>0 DEF ClientTyped
  <2>3. client.held \in Seq(Message)
    BY <1>0 DEF ClientTyped
  <2>4. out' = Written(client.held)
    BY <2>1 DEF BecomeReady
  <2>5. out' \in Seq(Message)
    BY <2>3, <2>4, <1>0 DEF Written
  <2>6. WireTyped'
    BY <2>1, <2>2, <2>5, <1>0, <1>3, <1>5 DEF WireTyped, PendingTyped
  <2>7. IdsInv' /\ LifeInv'
    BY <2>1, <2>2, <1>0, <1>2, <1>6 DEF IdsInv, LifeInv
  <2>8. FollowInv'
    <3> SUFFICES ASSUME server.alive, NEW b \in Buffer
                 PROVE  Follows(out' \o client'.held, b, server'.copy[b], docs'[b])
      BY <1>2 DEF FollowInv
    <3>1. out' = out \o client.held
      BY <2>4 DEF Written
    <3>2. PICK ms : ms = out \o client.held
      OBVIOUS
    <3>3. ms \in Seq(Message)
      BY <3>2, <2>3, <1>0
    <3>4. ms \o <<>> = ms
      BY <3>3
    <3>5. out' \o client'.held = ms
      BY <3>1, <3>2, <3>4, <2>2
    <3>6. Follows(ms, b, server.copy[b], docs[b])
      BY <3>2, <1>0 DEF FollowInv
    <3> QED BY <3>5, <3>6, <1>2
  <2>9. EditorTyped' /\ StashTyped'
    BY <2>1, <1>0, <1>2 DEF EditorTyped, StashTyped
  <2>10. client'.next_id \in Nat /\ client.next_id <= client'.next_id
    BY <2>2, <1>4
  <2>11. PopupTyped' /\ MenuInv'
    BY <2>10, <1>0, <1>2, PopupUnchanged
  <2> QED BY <2>6, <2>7, <2>8, <2>9, <2>11 DEF IInv, WireInv
<1>7. CASE ~(m.op = "ready" /\ client.life = "starting")
  <2>1. /\ UNCHANGED <<client, out>>
        /\ pending' \subseteq pending /\ StashTyped' /\ picker' \subseteq Text
    <3>0. picker \subseteq Text
      BY <1>0 DEF EditorTyped
    <3>1. CASE m.op = "ready"
      <4>1. UNCHANGED <<client, out, pending, stash, picker>>
        BY <3>1, <1>1, <1>7 DEF Poll
      <4> QED BY <4>1, <3>0, <1>0 DEF StashTyped
    <3>2. CASE m.op = "answer"
      <4>1. UNCHANGED <<client, out>>
        BY <3>2, <1>1 DEF Poll
      <4>2. PICK p \in pending :
              /\ pending' = pending \ {p}
              /\ stash' = Stashed(p, m)
              /\ picker' = IF p.kind = "action" THEN m.edit ELSE picker
        BY <3>2, <1>1 DEF Poll
      <4>3. p \in Awaited
        BY <1>0 DEF PendingTyped
      <4>4. m \in Answers
        BY <3>2, <1>3 DEF Incoming, Wishes
      <4>5. StashTyped'
        BY <4>2, <4>3, <4>4, <1>0, StashedTyped
      <4>6. m.edit \subseteq Text
        BY <4>4 DEF Answers
      <4> QED BY <4>1, <4>2, <4>5, <4>6, <3>0
    <3>3. CASE m.op = "apply_edit"
      <4>1. /\ stash' = [stash EXCEPT !.asked = Append(@, m.edit)]
            /\ UNCHANGED <<client, out, pending, picker>>
        BY <3>3, <1>1 DEF Poll
      <4>2. m.edit \in SUBSET Text
        BY <3>3, <1>3 DEF Incoming, Wishes, Answers
      <4>3. Append(stash.asked, m.edit) \in Seq(SUBSET Text)
        BY <4>2, <1>0 DEF StashTyped
      <4>4. PICK a : a = Append(stash.asked, m.edit)
        OBVIOUS
      <4>5. stash' = [stash EXCEPT !.asked = a]
        BY <4>1, <4>4, <1>0 DEF StashTyped
      <4> QED BY <4>1, <4>3, <4>4, <4>5, <3>0, <1>0 DEF StashTyped
    <3>4. CASE m.op \notin {"ready", "answer", "apply_edit"}
      <4>1. UNCHANGED <<client, out, pending, stash, picker>>
        BY <3>4, <1>1 DEF Poll
      <4> QED BY <4>1, <3>0, <1>0 DEF StashTyped
    <3> QED BY <3>1, <3>2, <3>3, <3>4
  <2>2. EditorTyped'
    BY <2>1, <1>0, <1>2 DEF EditorTyped
  <2>3. ClientTyped' /\ PendingTyped'
    BY <2>1, <1>0 DEF ClientTyped, PendingTyped
  <2>4. WireTyped'
    BY <2>1, <2>3, <1>0, <1>3, <1>5 DEF WireTyped
  <2>5. IdsInv'
    BY <2>1, <1>0 DEF IdsInv
  <2>6. LifeInv'
    BY <2>1, <1>0, <1>2 DEF LifeInv
  <2>7. FollowInv'
    BY <2>1, <1>0, <1>2 DEF FollowInv
  <2>8. PopupTyped' /\ MenuInv'
    BY <2>1, <1>0, <1>2, <1>4, PopupUnchanged
  <2> QED BY <2>1, <2>2, <2>4, <2>5, <2>6, <2>7, <2>8 DEF IInv, WireInv
<1> QED BY <1>6, <1>7

\* The steps that leave the connection alone.
LEMMA QuietKeeps ==
    ASSUME IInv, UNCHANGED <<docs, client, out, in, server, pending>>,
           EditorTyped', StashTyped', PopupTyped', MenuInv'
    PROVE  IInv'
BY WireUnchanged DEF IInv

LEMMA PollEndsKeeps ==
    ASSUME IInv, PollEnds \/ Tick
    PROVE  IInv'
<1>0. /\ EditorTyped /\ StashTyped /\ PopupTyped /\ WireInv /\ MenuInv /\ WireTyped
      /\ ClientTyped
  BY DEF IInv, WireInv, WireTyped
<1>1. /\ UNCHANGED <<docs, client, out, in, server, pending>> /\ UNCHANGED popup
      /\ UNCHANGED editor /\ UNCHANGED <<stash, frame>> /\ phase' \in {"ingest", "sync"}
  BY DEF PollEnds, Tick
<1>2. EditorTyped' /\ StashTyped'
  BY <1>0, <1>1 DEF EditorTyped, StashTyped, editor
<1>3. client'.next_id \in Nat /\ client.next_id <= client'.next_id
  BY <1>0, <1>1, Bounds DEF ClientTyped
<1>4. PopupTyped' /\ MenuInv'
  BY <1>0, <1>1, <1>3, PopupUnchanged
<1> QED BY <1>1, <1>2, <1>4, QuietKeeps

LEMMA IngestKeeps ==
    ASSUME IInv, Ingest
    PROVE  IInv' /\ (menu = NoMenu /\ menu' # NoMenu => menu'.rid >= closed)
<1>0. /\ EditorTyped /\ StashTyped /\ PopupTyped /\ WireInv /\ MenuInv /\ WireTyped
      /\ ClientTyped
  BY DEF IInv, WireInv, WireTyped
<1>1. UNCHANGED <<docs, client, out, in, server, pending>> /\ UNCHANGED editor
      /\ UNCHANGED <<phase, frame>>
  BY DEF Ingest
<1>2. PICK p \in stash.completions :
         /\ stash' = [stash EXCEPT !.completions = @ \ {p}]
         /\ IF ~Accepts(p)
            THEN UNCHANGED <<menu, req, closed>>
            ELSE \/ \E sel \in IF menu = NoMenu THEN {0} ELSE {0, menu.sel} :
                      /\ menu' = [rid |-> p.rid, rev |-> p.rev, sel |-> sel,
                                  extra |-> [i \in Item |-> <<>>]]
                      /\ req' = [req EXCEPT !.want = sel]
                      /\ closed' = closed
                 \/ /\ menu' = NoMenu
                    /\ req' = [req EXCEPT !.completion = None]
                    /\ closed' = client.next_id
  BY DEF Ingest
<1>3. EditorTyped'
  BY <1>0, <1>1 DEF EditorTyped, editor
<1>4. StashTyped'
  BY <1>0, <1>2 DEF StashTyped
<1>5. p \in Awaited /\ p.rid \in Rid /\ p.rev \in Rev
  BY <1>0 DEF StashTyped, Awaited
<1>6. client.next_id \in 1 .. MaxId + 1 /\ client.next_id \in Nat /\ client'.next_id = client.next_id
  BY <1>0, <1>1, Bounds DEF ClientTyped
<1>7. CASE ~Accepts(p)
  <2>1. UNCHANGED popup
    BY <1>2, <1>7 DEF popup
  <2>2. PopupTyped' /\ MenuInv'
    BY <2>1, <1>0, <1>6, PopupUnchanged
  <2>3. IInv'
    BY <2>2, <1>1, <1>3, <1>4, QuietKeeps
  <2> QED BY <2>1, <2>3 DEF popup
<1>8. CASE Accepts(p) /\ menu' = NoMenu
  <2>1. req' = [req EXCEPT !.completion = None] /\ closed' = client.next_id
    <3>1. ASSUME NEW sel, menu' = [rid |-> p.rid, rev |-> p.rev, sel |-> sel,
                                   extra |-> [i \in Item |-> <<>>]]
          PROVE  FALSE
      <4>1. menu'.rid = p.rid /\ menu'.rid = 0
        BY <3>1, <1>8 DEF NoMenu
      <4> QED BY <4>1, <1>5, Bounds
    <3> QED BY <3>1, <1>2, <1>8
  <2>2. /\ req' \in [completion : Rid \cup {None}, resolve : Rid \cup {None},
                     want : Item \cup {None}, refilter : BOOLEAN]
        /\ req'.completion = None
    BY <2>1, <1>0 DEF PopupTyped
  <2>3. closed' \in 0 .. MaxId + 1
    BY <2>1, <1>6, Bounds
  <2>4. PopupTyped'
    BY <2>2, <2>3, <1>8 DEF PopupTyped
  <2>5. MenuInv'
    BY <2>1, <2>2, <1>6 DEF MenuInv
  <2>6. IInv'
    BY <2>4, <2>5, <1>1, <1>3, <1>4, QuietKeeps
  <2> QED BY <2>6, <1>8
<1>9. CASE Accepts(p) /\ menu' # NoMenu
  <2>1. PICK sel \in IF menu = NoMenu THEN {0} ELSE {0, menu.sel} :
           /\ menu' = [rid |-> p.rid, rev |-> p.rev, sel |-> sel,
                       extra |-> [i \in Item |-> <<>>]]
           /\ req' = [req EXCEPT !.want = sel]
           /\ closed' = closed
    BY <1>2, <1>9
  <2>2. sel \in Item
    BY <1>0, Bounds DEF PopupTyped, Menu
  <2>3. [i \in Item |-> <<>>] \in [Item -> Filled \cup {<<>>}]
    OBVIOUS
  <2>4. menu' \in Menu /\ menu'.rid = p.rid
    BY <2>1, <2>2, <2>3, <1>5 DEF Menu
  <2>5. /\ req' \in [completion : Rid \cup {None}, resolve : Rid \cup {None},
                     want : Item \cup {None}, refilter : BOOLEAN]
        /\ req'.completion = req.completion
    BY <2>1, <2>2, <1>0 DEF PopupTyped
  <2>6. PopupTyped'
    BY <2>1, <2>4, <2>5, <1>0 DEF PopupTyped
  <2>7. MenuInv'
    BY <2>1, <1>0, <1>1, <1>9 DEF MenuInv
  <2>8. IInv'
    BY <2>6, <2>7, <1>1, <1>3, <1>4, QuietKeeps
  <2>9. p.rid = req.completion /\ p.rid # None
    BY <1>5, <1>9, Bounds DEF Accepts, None
  <2>10. menu = NoMenu => p.rid >= closed
    BY <2>9, <1>0 DEF MenuInv
  <2> QED BY <2>4, <2>8, <2>10
<1> QED BY <1>7, <1>8, <1>9

\* The menu that is open keeps its answer while its items are filled.
LEMMA ResolvedTyped ==
    ASSUME PopupTyped, StashTyped
    PROVE  /\ menu = NoMenu => Resolved = NoMenu
           /\ menu # NoMenu => Resolved \in Menu
<1> DEFINE rs == {r \in stash.resolves : Resolves(r)}
           x == [i \in Item |-> IF \E r \in rs : r.p.idx = i
                                THEN (CHOOSE r \in rs : r.p.idx = i).item ELSE menu.extra[i]]
<1>1. menu = NoMenu => rs = {}
  BY DEF Resolves
<1>2. rs = {} => Resolved = menu
  BY DEF Resolved
<1>3. ASSUME rs # {} PROVE menu \in Menu /\ Resolved \in Menu
  <2>1. menu \in Menu
    BY <1>1, <1>3 DEF PopupTyped
  <2>2. Resolved = [menu EXCEPT !.extra = x]
    BY <2>1, <1>3 DEF Resolved, Menu
  <2>3. ASSUME NEW i \in Item
        PROVE  (IF \E r \in rs : r.p.idx = i
                THEN (CHOOSE r \in rs : r.p.idx = i).item ELSE menu.extra[i]) \in Filled \cup {<<>>}
    <3>1. CASE \E r \in rs : r.p.idx = i
      <4>1. (CHOOSE r \in rs : r.p.idx = i) \in rs
        BY <3>1
      <4>2. \A r \in rs : r.item \in Filled
        BY DEF StashTyped
      <4> QED BY <3>1, <4>1, <4>2
    <3>2. CASE ~\E r \in rs : r.p.idx = i
      BY <3>2, <2>1 DEF Menu
    <3> QED BY <3>1, <3>2
  <2>4. x \in [Item -> Filled \cup {<<>>}]
    BY <2>3
  <2> HIDE DEF x
  <2> QED BY <2>1, <2>2, <2>4 DEF Menu
<1>4. menu # NoMenu => menu \in Menu
  BY DEF PopupTyped
<1> QED BY <1>1, <1>2, <1>3, <1>4

LEMMA RequestsKeeps ==
    ASSUME IInv, Requests
    PROVE  IInv' /\ (menu = NoMenu => menu' = NoMenu)
<1>0. /\ EditorTyped /\ StashTyped /\ PopupTyped /\ WireInv /\ MenuInv /\ WireTyped
      /\ ClientTyped /\ IdsInv
  BY DEF IInv, WireInv, WireTyped
<1> DEFINE Refilter == req.refilter /\ menu # NoMenu /\ Served /\ CanSend
           first == client.next_id
           wanted == req.want # None /\ menu # NoMenu /\ Served
                     /\ first + (IF Refilter THEN 1 ELSE 0) <= MaxId
                     /\ Resolved.extra[req.want] = <<>>
           rs == (IF Refilter THEN <<Request("completion", 0)>> ELSE <<>>)
           n == first + Len(rs)
           last == [Request("resolve", req.want) EXCEPT !.rid = n, !.version = menu.rid]
<1>1. PICK resolve \in IF wanted THEN BOOLEAN ELSE {FALSE} :
         /\ Send(IF resolve THEN Append(rs, last) ELSE rs)
         /\ menu' = Resolved
         /\ req' = [req EXCEPT !.refilter = FALSE, !.want = None,
                               !.completion = IF Refilter THEN first ELSE @,
                               !.resolve = IF resolve THEN n ELSE @]
  BY DEF Requests
<1>2. /\ stash' = [stash EXCEPT !.resolves = {}] /\ phase' = "apply"
      /\ UNCHANGED editor /\ UNCHANGED <<docs, in, server, closed, frame>>
  BY DEF Requests
<1>3. resolve \in BOOLEAN /\ (resolve => wanted)
  OBVIOUS
<1>4. first \in Nat /\ first <= MaxId + 1 /\ MaxId \in Nat
  BY <1>0, Bounds DEF ClientTyped
<1>5. Served => first >= 2
  BY <1>0 DEF Served, IdsInv
<1>6. EditorTyped'
  BY <1>0, <1>2 DEF EditorTyped, editor
<1>7. StashTyped'
  BY <1>0, <1>2 DEF StashTyped
<1> DEFINE ask == Request("completion", 0)
<1>8. ASSUME Refilter PROVE ask \in Asks /\ ask.rid = first /\ first \in Rid
  <2>1. first \in Rid
    BY <1>4, <1>5, <1>8 DEF CanSend, Rid
  <2> QED BY <2>1, <1>0, Bounds DEF Request, Asks, EditorTyped, Kinds
<1>9. /\ rs \in Seq(Asks) /\ Len(rs) = IF Refilter THEN 1 ELSE 0
      /\ \A k \in DOMAIN rs : k = 1 /\ Refilter /\ rs[k] = ask
  <2>1. CASE Refilter
    <3>1. rs = <<ask>> /\ ask \in Asks
      BY <2>1, <1>8
    <3> HIDE DEF rs, ask, Refilter
    <3> QED BY <2>1, <3>1
  <2>2. CASE ~Refilter
    <3>1. rs = <<>>
      BY <2>2
    <3> HIDE DEF rs, ask, Refilter
    <3>2. DOMAIN <<>> = {} /\ <<>> \in Seq(Asks) /\ Len(<<>>) = 0
      OBVIOUS
    <3> QED BY <2>2, <3>1, <3>2
  <2> QED BY <2>1, <2>2
<1>10. ASSUME wanted PROVE last \in Asks /\ last.rid = n /\ n \in Rid
  <2>0. n = first + (IF Refilter THEN 1 ELSE 0)
    BY <1>9
  <2>1. n \in Rid
    <3>1. n <= MaxId /\ n >= 2 /\ n \in Nat
      <4>1. first >= 2 /\ first + (IF Refilter THEN 1 ELSE 0) <= MaxId
        BY <1>5, <1>10
      <4> HIDE DEF first, n, Refilter
      <4> QED BY <4>1, <2>0, <1>4
    <3> QED BY <3>1, <1>4 DEF Rid
  <2>2. req.want \in Item
    BY <1>0, <1>10 DEF PopupTyped
  <2>3. menu.rid \in Nat
    <3>1. menu \in Menu
      BY <1>0, <1>10 DEF PopupTyped
    <3> QED BY <3>1, Bounds DEF Menu
  <2> HIDE DEF n
  <2> QED BY <2>1, <2>2, <2>3, <1>0, Bounds DEF Request, Asks, EditorTyped, Kinds
<1>11. PICK sent : sent = IF resolve THEN Append(rs, last) ELSE rs
  OBVIOUS
<1> HIDE DEF rs, last, Refilter, wanted, ask
<1>12. n \in Nat /\ Len(rs) \in Nat
  BY <1>4, <1>9
<1>13. /\ sent \in Seq(Asks) /\ first + Len(sent) <= MaxId + 1
       /\ \A k \in DOMAIN sent : sent[k].rid = first + k - 1
       /\ sent # <<>> => Served
  <2>1. CASE ~resolve
    <3>1. sent = rs
      BY <2>1, <1>11
    <3>2. Refilter => Served /\ first <= MaxId
      BY DEF Refilter, CanSend
    <3>3. first + Len(rs) <= MaxId + 1
      BY <3>2, <1>4, <1>9
    <3>4. \A k \in DOMAIN rs : rs[k].rid = first + k - 1
      BY <1>4, <1>8, <1>9
    <3>5. rs # <<>> => Refilter
      BY <1>9
    <3> QED BY <3>1, <3>2, <3>3, <3>4, <3>5, <1>9
  <2>2. CASE resolve
    <3>1. sent = Append(rs, last) /\ last \in Asks /\ last.rid = n /\ n \in Rid
      BY <2>2, <1>3, <1>10, <1>11
    <3>2. sent \in Seq(Asks) /\ Len(sent) = Len(rs) + 1 /\ DOMAIN sent = 1 .. Len(rs) + 1
      BY <3>1, <1>9
    <3>3. n <= MaxId
      BY <3>1, Bounds
    <3>4. first + Len(sent) <= MaxId + 1
      BY <3>2, <3>3, <1>4, <1>12
    <3>5. ASSUME NEW k \in DOMAIN sent PROVE sent[k].rid = first + k - 1
      <4>1. CASE k = Len(rs) + 1
        <5>1. sent[k] = last
          BY <4>1, <3>1, <1>9
        <5> QED BY <5>1, <4>1, <3>1, <1>4, <1>12
      <4>2. CASE k # Len(rs) + 1
        <5>1. k \in 1 .. Len(rs)
          BY <4>2, <3>2, <1>12
        <5>2. sent[k] = rs[k] /\ k \in DOMAIN rs
          BY <5>1, <3>1, <1>9
        <5>3. k = 1 /\ rs[k].rid = first
          BY <5>2, <1>8, <1>9
        <5> QED BY <5>2, <5>3, <1>4
      <4> QED BY <4>1, <4>2
    <3>6. Served
      BY <2>2, <1>3 DEF wanted
    <3> QED BY <3>2, <3>4, <3>5, <3>6
  <2> QED BY <2>1, <2>2, <1>3
<1>14. Send(sent)
  BY <1>1, <1>11
<1>15. client.life = "none" => sent = <<>>
  BY <1>13 DEF Served
<1>16. WireInv' /\ client'.next_id \in Nat /\ client.next_id <= client'.next_id
  BY <1>0, <1>2, <1>13, <1>14, <1>15, SendKeeps
<1>17. /\ menu = NoMenu => menu' = NoMenu
       /\ menu # NoMenu => menu' \in Menu /\ menu' # NoMenu
  <2>1. \A x \in Menu : x # NoMenu
    <3> SUFFICES ASSUME NEW x \in Menu, x = NoMenu PROVE FALSE
      OBVIOUS
    <3>1. x.rid \in Rid /\ x.rid = 0
      BY DEF Menu, NoMenu
    <3> QED BY <3>1, Bounds
  <2> QED BY <2>1, <1>0, <1>1, ResolvedTyped
<1>18. PICK c : c = IF Refilter THEN first ELSE req.completion
  OBVIOUS
<1>19. PICK v : v = IF resolve THEN n ELSE req.resolve
  OBVIOUS
<1>20. c \in Rid \cup {None} /\ v \in Rid \cup {None}
  BY <1>0, <1>3, <1>8, <1>10, <1>18, <1>19 DEF PopupTyped
<1>21. req' = [req EXCEPT !.refilter = FALSE, !.want = None, !.completion = c, !.resolve = v]
  BY <1>0, <1>1, <1>18, <1>19 DEF PopupTyped
<1>22. /\ req' \in [completion : Rid \cup {None}, resolve : Rid \cup {None},
                    want : Item \cup {None}, refilter : BOOLEAN]
       /\ req'.completion = c
  BY <1>0, <1>20, <1>21 DEF PopupTyped
<1>23. PopupTyped'
  BY <1>0, <1>2, <1>17, <1>22 DEF PopupTyped
<1>24. closed' = closed /\ closed \in Nat /\ closed <= first
  BY <1>0, <1>2, Bounds DEF PopupTyped, MenuInv
<1>25. closed' <= client'.next_id
  BY <1>4, <1>16, <1>24
<1>26. menu' = NoMenu => (req'.completion = None \/ req'.completion >= closed')
  <2>1. ASSUME menu' = NoMenu PROVE menu = NoMenu /\ c = req.completion
    BY <2>1, <1>17, <1>18 DEF Refilter
  <2> QED BY <2>1, <1>0, <1>22, <1>24 DEF MenuInv
<1>27. MenuInv'
  BY <1>25, <1>26 DEF MenuInv
<1> QED BY <1>6, <1>7, <1>16, <1>17, <1>23, <1>27 DEF IInv

LEMMA ApplyPendingKeeps ==
    ASSUME IInv, ApplyPending
    PROVE  IInv'
<1>0. /\ EditorTyped /\ StashTyped /\ PopupTyped /\ WireInv /\ MenuInv /\ WireTyped
      /\ ClientTyped /\ IdsInv /\ LifeInv /\ FollowInv
      /\ focus \in Buffer /\ rev \in [Buffer -> Rev] /\ out \in Seq(Message)
      /\ stash.goto \subseteq Text
  BY DEF IInv, WireInv, WireTyped, EditorTyped, StashTyped
<1>1. /\ UNCHANGED <<docs, client, in, server, pending>> /\ UNCHANGED popup
      /\ UNCHANGED <<picker, frame>> /\ phase' = "key" /\ stash' = NoStash
  BY DEF ApplyPending
<1>2. focus' \in Buffer
  <2>1. focus' \in IF stash.goto = {} THEN {focus} ELSE {t.buf : t \in stash.goto}
    BY DEF ApplyPending
  <2>2. \A t \in stash.goto : t.buf \in Buffer
    BY <1>0 DEF Text
  <2> QED BY <2>1, <2>2, <1>0
<1>3. rev' \in [Buffer -> Rev]
  <2>1. PICK all : all = stash.rename \cup UNION {stash.asked[k] : k \in DOMAIN stash.asked}
    OBVIOUS
  <2>2. PICK formatted \in SUBSET (IF stash.format = {} THEN {} ELSE {b \in {focus'} : rev[b] < MaxRev}) :
          \E r \in SUBSET Fit(all) : rev' = Edited(formatted \cup r)
    BY <2>1 DEF ApplyPending
  <2>3. PICK r \in SUBSET Fit(all) : rev' = Edited(formatted \cup r)
    BY <2>2
  <2>4. \A b \in Buffer : b \in r => rev[b] < MaxRev
    BY FitTyped
  <2>5. \A b \in formatted : rev[b] < MaxRev
    OBVIOUS
  <2>6. PICK bs : bs = formatted \cup r
    OBVIOUS
  <2>7. \A b \in Buffer : b \in bs => rev[b] < MaxRev
    BY <2>4, <2>5, <2>6
  <2>8. Edited(bs) \in [Buffer -> Rev]
    BY <2>7, <1>0, EditedTyped
  <2> QED BY <2>3, <2>6, <2>8
<1>4. EditorTyped'
  BY <1>0, <1>1, <1>2, <1>3 DEF EditorTyped
<1>5. StashTyped'
  <2>1. <<>> \in Seq(SUBSET Text)
    OBVIOUS
  <2> QED BY <2>1, <1>1 DEF StashTyped, NoStash
<1>6. PICK m : m = Notification("reply", focus, 0)
  OBVIOUS
<1>7. m \in Message /\ m.op = "reply"
  BY <1>0, <1>6, Bounds DEF Notification, Message, Tells
<1>8. PICK len : len = Len(Replies(stash.asked))
  OBVIOUS
<1>9. len \in Nat
  BY <1>0, <1>8 DEF Replies, StashTyped
<1>10. PICK r : r = [k \in 1 .. len |-> m]
  OBVIOUS
<1>11. r \in Seq(Message) /\ \A i \in DOMAIN r : r[i].op \notin {"open", "change"}
  BY <1>7, <1>9, <1>10
<1>12. out' = Written(r)
  BY <1>6, <1>8, <1>10 DEF ApplyPending
<1>13. out' \in Seq(Message)
  BY <1>0, <1>11, <1>12, WrittenTyped
<1>14. WireTyped'
  BY <1>0, <1>1, <1>13 DEF WireTyped, ServerTyped, ClientTyped, PendingTyped
<1>15. IdsInv'
  BY <1>0, <1>1 DEF IdsInv
<1>16. LifeInv'
  BY <1>0, <1>1, <1>12 DEF LifeInv, Written
<1>17. FollowInv'
  BY <1>0, <1>1, <1>11, <1>12, WrittenFollows
<1>18. client'.next_id \in Nat /\ client.next_id <= client'.next_id
  BY <1>0, <1>1, Bounds DEF ClientTyped
<1>19. PopupTyped' /\ MenuInv'
  BY <1>0, <1>1, <1>18, PopupUnchanged
<1> QED BY <1>4, <1>5, <1>14, <1>15, <1>16, <1>17, <1>19 DEF IInv, WireInv

----------------------------------------------------------------------------
(* The keys.                                                               *)

LEMMA ClosesMenu ==
    ASSUME PopupTyped, WireTyped, CloseCompletion, client' = client
    PROVE  PopupTyped' /\ MenuInv'
<1>1. client.next_id \in 1 .. MaxId + 1 /\ MaxId \in Nat
  BY Bounds DEF WireTyped, ClientTyped
<1>2. closed' = client.next_id /\ closed' \in 0 .. MaxId + 1 /\ menu' = NoMenu
  BY <1>1 DEF CloseCompletion
<1>3. req.refilter \in BOOLEAN
  BY DEF PopupTyped
<1>4. /\ req' \in [completion : Rid \cup {None}, resolve : Rid \cup {None},
                   want : Item \cup {None}, refilter : BOOLEAN]
      /\ req'.completion = None
  BY <1>3 DEF CloseCompletion, NoReq
<1>5. closed' <= client'.next_id
  BY <1>1, <1>2
<1> QED BY <1>2, <1>4, <1>5 DEF PopupTyped, MenuInv

LEMMA ChangedTyped ==
    ASSUME EditorTyped, Changed
    PROVE  rev' \in [Buffer -> Rev]
<1>1. \A b \in Buffer : b \in {focus} => rev[b] < MaxRev
  BY DEF Changed
<1>2. PICK bs : bs = {focus}
  OBVIOUS
<1>3. Edited(bs) \in [Buffer -> Rev]
  BY <1>1, <1>2, EditedTyped DEF EditorTyped
<1> QED BY <1>2, <1>3 DEF Changed

LEMMA TypeKeeps ==
    ASSUME IInv, NEW word \in BOOLEAN, Type(word)
    PROVE  IInv' /\ (menu = NoMenu => menu' = NoMenu)
<1>0. /\ EditorTyped /\ StashTyped /\ PopupTyped /\ WireInv /\ MenuInv /\ WireTyped
      /\ ClientTyped
  BY DEF IInv, WireInv, WireTyped
<1>1. /\ UNCHANGED <<docs, client, out, in, server, pending>>
      /\ UNCHANGED <<focus, picker, stash, frame>> /\ phase' = "sync"
  BY DEF Type
<1>2. rev' \in [Buffer -> Rev]
  BY <1>0, ChangedTyped DEF Type
<1>3. EditorTyped' /\ StashTyped'
  BY <1>0, <1>1, <1>2 DEF EditorTyped, StashTyped
<1>4. client'.next_id \in Nat /\ client.next_id <= client'.next_id
  BY <1>0, <1>1, Bounds DEF ClientTyped
<1>5. PopupTyped' /\ MenuInv' /\ (menu = NoMenu => menu' = NoMenu)
  <2>1. CASE menu = NoMenu
    <3>1. UNCHANGED popup
      BY <2>1 DEF Type
    <3>2. PopupTyped' /\ MenuInv'
      BY <3>1, <1>0, <1>4, PopupUnchanged
    <3> QED BY <3>1, <3>2 DEF popup
  <2>2. CASE menu # NoMenu /\ word
    <3>1. req' = [req EXCEPT !.refilter = TRUE] /\ UNCHANGED <<menu, closed>>
      BY <2>2 DEF Type
    <3>2. /\ req' \in [completion : Rid \cup {None}, resolve : Rid \cup {None},
                       want : Item \cup {None}, refilter : BOOLEAN]
      BY <3>1, <1>0 DEF PopupTyped
    <3>3. PopupTyped'
      BY <3>1, <3>2, <1>0 DEF PopupTyped
    <3>4. MenuInv'
      BY <3>1, <2>2, <1>0, <1>1 DEF MenuInv
    <3> QED BY <3>3, <3>4, <2>2
  <2>3. CASE menu # NoMenu /\ ~word
    <3>1. CloseCompletion
      BY <2>3 DEF Type
    <3> QED BY <3>1, <2>3, <1>0, <1>1, ClosesMenu
  <2> QED BY <2>1, <2>2, <2>3
<1>6. IInv'
  BY <1>1, <1>3, <1>5, QuietKeeps
<1> QED BY <1>5, <1>6

LEMMA SelectKeeps ==
    ASSUME IInv, Select
    PROVE  IInv'
<1>0. /\ EditorTyped /\ StashTyped /\ PopupTyped /\ WireInv /\ MenuInv /\ WireTyped
      /\ ClientTyped
  BY DEF IInv, WireInv, WireTyped
<1>1. /\ UNCHANGED <<docs, client, out, in, server, pending>> /\ UNCHANGED editor
      /\ UNCHANGED <<closed, stash, frame>> /\ phase' = "sync" /\ menu # NoMenu
  BY DEF Select
<1>2. EditorTyped' /\ StashTyped'
  BY <1>0, <1>1 DEF EditorTyped, StashTyped, editor
<1>3. PICK i \in Item : menu' = [menu EXCEPT !.sel = i] /\ req' = [req EXCEPT !.want = i]
  BY DEF Select
<1>4. menu' \in Menu
  BY <1>0, <1>1, <1>3 DEF PopupTyped, Menu
<1>5. menu' # NoMenu
  <2> SUFFICES ASSUME menu' = NoMenu PROVE FALSE
    OBVIOUS
  <2>1. menu'.rid \in Rid /\ menu'.rid = 0
    BY <1>4 DEF Menu, NoMenu
  <2> QED BY <2>1, Bounds
<1>6. req' \in [completion : Rid \cup {None}, resolve : Rid \cup {None},
                want : Item \cup {None}, refilter : BOOLEAN]
  BY <1>0, <1>3 DEF PopupTyped
<1>7. PopupTyped'
  BY <1>0, <1>1, <1>4, <1>6 DEF PopupTyped
<1>8. MenuInv'
  BY <1>0, <1>1, <1>5 DEF MenuInv
<1> QED BY <1>1, <1>2, <1>7, <1>8, QuietKeeps

LEMMA LeaveMenuKeeps ==
    ASSUME IInv, NEW accept \in BOOLEAN, LeaveMenu(accept)
    PROVE  IInv'
<1>0. EditorTyped /\ StashTyped /\ PopupTyped /\ WireInv /\ WireTyped
  BY DEF IInv, WireInv
<1>1. /\ UNCHANGED <<docs, client, out, in, server, pending>>
      /\ UNCHANGED <<focus, picker, stash, frame>> /\ phase' = "sync" /\ CloseCompletion
  BY DEF LeaveMenu
<1>2. rev' \in [Buffer -> Rev]
  <2>1. CASE accept
    BY <2>1, <1>0, ChangedTyped DEF LeaveMenu
  <2>2. CASE ~accept
    BY <2>2, <1>0 DEF LeaveMenu, EditorTyped
  <2> QED BY <2>1, <2>2
<1>3. EditorTyped' /\ StashTyped'
  BY <1>0, <1>1, <1>2 DEF EditorTyped, StashTyped
<1>4. PopupTyped' /\ MenuInv'
  BY <1>0, <1>1, ClosesMenu
<1> QED BY <1>1, <1>3, <1>4, QuietKeeps

LEMMA OmniKeeps ==
    ASSUME IInv, Omni
    PROVE  IInv'
<1>0. /\ EditorTyped /\ StashTyped /\ PopupTyped /\ WireInv /\ MenuInv /\ WireTyped
      /\ ClientTyped
  BY DEF IInv, WireInv, WireTyped
<1>1. /\ UNCHANGED editor /\ UNCHANGED <<docs, in, server>>
      /\ UNCHANGED <<menu, closed, stash, frame>> /\ phase' = "sync"
      /\ menu = NoMenu /\ Served /\ CanSend
      /\ Send(<<Request("completion", 0)>>)
      /\ req' = [req EXCEPT !.completion = client.next_id]
  BY DEF Omni
<1>2. EditorTyped' /\ StashTyped'
  BY <1>0, <1>1 DEF EditorTyped, StashTyped, editor
<1>3. "completion" \in Kinds
  BY DEF Kinds
<1>4. /\ WireInv' /\ client.next_id \in Rid
      /\ client'.next_id \in Nat /\ client.next_id <= client'.next_id
  BY <1>0, <1>1, <1>3, SendOne
<1>5. /\ req' \in [completion : Rid \cup {None}, resolve : Rid \cup {None},
                   want : Item \cup {None}, refilter : BOOLEAN]
      /\ req'.completion = client.next_id
  BY <1>0, <1>1, <1>4 DEF PopupTyped
<1>6. PopupTyped'
  BY <1>0, <1>1, <1>5 DEF PopupTyped
<1>7. closed \in Nat /\ closed <= client.next_id /\ client.next_id \in Nat
  BY <1>0, <1>4, Bounds DEF PopupTyped, MenuInv
<1>8. closed' <= client'.next_id /\ req'.completion >= closed'
  BY <1>1, <1>4, <1>5, <1>7
<1>9. MenuInv'
  BY <1>8 DEF MenuInv
<1> QED BY <1>2, <1>4, <1>6, <1>9 DEF IInv

LEMMA AskKeeps ==
    ASSUME IInv, NEW kind \in Asked, Ask(kind)
    PROVE  IInv'
<1>0. /\ EditorTyped /\ StashTyped /\ PopupTyped /\ WireInv /\ MenuInv /\ WireTyped
  BY DEF IInv, WireInv
<1>1. /\ UNCHANGED editor /\ UNCHANGED <<docs, in, server>> /\ UNCHANGED popup
      /\ UNCHANGED <<stash, frame>> /\ phase' = "sync"
      /\ Served /\ CanSend /\ Send(<<Request(kind, 0)>>)
  BY DEF Ask
<1>2. EditorTyped' /\ StashTyped'
  BY <1>0, <1>1 DEF EditorTyped, StashTyped, editor
<1>3. kind \in Kinds
  BY ConstantsAssumption DEF Kinds
<1>4. /\ WireInv'
      /\ client'.next_id \in Nat /\ client.next_id <= client'.next_id
  BY <1>0, <1>1, <1>3, SendOne
<1>5. PopupTyped' /\ MenuInv'
  BY <1>0, <1>1, <1>4, PopupUnchanged
<1> QED BY <1>2, <1>4, <1>5 DEF IInv

LEMMA AcceptActionKeeps ==
    ASSUME IInv, AcceptAction
    PROVE  IInv'
<1>0. /\ EditorTyped /\ StashTyped /\ PopupTyped /\ WireInv /\ MenuInv /\ WireTyped
      /\ ClientTyped /\ rev \in [Buffer -> Rev]
  BY DEF IInv, WireInv, WireTyped, EditorTyped
<1>1. /\ UNCHANGED <<docs, in, server>> /\ UNCHANGED popup /\ picker' = {}
      /\ UNCHANGED <<focus, stash, frame>> /\ phase' = "sync"
  BY DEF AcceptAction
<1>2. PICK edit : edit = picker
  OBVIOUS
<1>3. PICK bs \in SUBSET Fit(edit) : rev' = Edited(bs)
  BY <1>2 DEF AcceptAction
<1>4. rev' \in [Buffer -> Rev]
  <2>1. \A b \in Buffer : b \in bs => rev[b] < MaxRev
    BY FitTyped
  <2> QED BY <2>1, <1>0, <1>3, EditedTyped
<1>5. EditorTyped' /\ StashTyped'
  BY <1>0, <1>1, <1>4 DEF EditorTyped, StashTyped
<1>6. /\ WireInv'
      /\ client'.next_id \in Nat /\ client.next_id <= client'.next_id
  <2>1. CASE Served /\ CanSend /\ Send(<<Request("command", 0)>>)
    <3>1. "command" \in Kinds
      BY DEF Kinds
    <3> QED BY <2>1, <3>1, <1>0, <1>1, SendOne
  <2>2. CASE UNCHANGED <<client, out, pending>>
    <3>1. WireInv'
      BY <2>2, <1>0, <1>1, WireUnchanged
    <3> QED BY <3>1, <2>2, <1>0, Bounds DEF ClientTyped
  <2> QED BY <2>1, <2>2 DEF AcceptAction
<1>7. PopupTyped' /\ MenuInv'
  BY <1>0, <1>1, <1>6, PopupUnchanged
<1> QED BY <1>5, <1>6, <1>7 DEF IInv

LEMMA FocusKeeps ==
    ASSUME IInv, NEW b \in Buffer, Focus(b)
    PROVE  IInv'
<1>0. /\ EditorTyped /\ StashTyped /\ PopupTyped /\ WireInv /\ MenuInv /\ WireTyped
      /\ ClientTyped
  BY DEF IInv, WireInv, WireTyped
<1>1. /\ UNCHANGED <<docs, client, out, in, server, pending>> /\ UNCHANGED popup
      /\ UNCHANGED <<rev, picker, stash, frame>> /\ phase' = "sync" /\ focus' = b
  BY DEF Focus
<1>2. EditorTyped' /\ StashTyped'
  BY <1>0, <1>1 DEF EditorTyped, StashTyped
<1>3. client'.next_id \in Nat /\ client.next_id <= client'.next_id
  BY <1>0, <1>1, Bounds DEF ClientTyped
<1>4. PopupTyped' /\ MenuInv'
  BY <1>0, <1>1, <1>3, PopupUnchanged
<1> QED BY <1>1, <1>2, <1>4, QuietKeeps

----------------------------------------------------------------------------
(* The server.                                                             *)

\* The server's steps leave the session alone.
LEMMA ServerSteps ==
    ASSUME IInv, UNCHANGED editor, UNCHANGED <<docs, client, pending>>, UNCHANGED popup,
           UNCHANGED <<stash, phase, frame>>,
           ServerTyped', out' \in Seq(Message), in' \in Seq(Incoming), LifeInv', FollowInv'
    PROVE  IInv'
<1>0. /\ EditorTyped /\ StashTyped /\ PopupTyped /\ WireInv /\ MenuInv /\ WireTyped
      /\ ClientTyped
  BY DEF IInv, WireInv, WireTyped
<1>1. EditorTyped' /\ StashTyped'
  BY <1>0 DEF EditorTyped, StashTyped, editor
<1>2. client'.next_id \in Nat /\ client.next_id <= client'.next_id
  BY <1>0, Bounds DEF ClientTyped
<1>3. PopupTyped' /\ MenuInv'
  BY <1>0, <1>2, PopupUnchanged
<1>4. WireTyped'
  BY <1>0 DEF WireTyped, ClientTyped, PendingTyped
<1>5. IdsInv'
  BY <1>0 DEF WireInv, IdsInv
<1> QED BY <1>1, <1>3, <1>4, <1>5 DEF IInv, WireInv

\* Only what the server works on and waits for changes.
LEMMA ServerWorks ==
    ASSUME IInv, UNCHANGED editor, UNCHANGED <<docs, client, out, pending>>, UNCHANGED popup,
           UNCHANGED <<stash, phase, frame>>,
           ServerTyped', server'.copy = server.copy, server'.alive = server.alive,
           in' \in Seq(Incoming)
    PROVE  IInv'
<1>1. LifeInv'
  BY DEF IInv, WireInv, LifeInv
<1>2. FollowInv'
  BY DEF IInv, WireInv, FollowInv
<1>3. out' \in Seq(Message)
  BY DEF IInv, WireInv, WireTyped
<1> QED BY <1>1, <1>2, <1>3, ServerSteps

LEMMA TakesKeeps ==
    ASSUME IInv, Takes
    PROVE  IInv'
<1>0. /\ WireTyped /\ IdsInv /\ LifeInv /\ FollowInv /\ ClientTyped /\ ServerTyped
      /\ out \in Seq(Message) /\ in \in Seq(Incoming) /\ docs \in [Buffer -> Copy]
      /\ server.copy \in [Buffer -> Copy] /\ client.held \in Seq(Message)
  BY DEF IInv, WireInv, WireTyped, ServerTyped, ClientTyped
<1>1. PICK m : m = Head(out)
  OBVIOUS
<1>2. /\ out # <<>> /\ out' = Tail(out) /\ server.alive
      /\ UNCHANGED editor /\ UNCHANGED <<docs, client, pending>> /\ UNCHANGED popup
      /\ UNCHANGED <<stash, phase, frame>>
  BY DEF Takes, Runs
<1>3. m \in Message /\ out' \in Seq(Message)
  BY <1>0, <1>1, <1>2
<1>4. in' \in Seq(Incoming)
  <2>1. [op |-> "ready"] \in Incoming
    BY DEF Incoming
  <2>2. in' = in \/ in' = Append(in, [op |-> "ready"])
    BY DEF Takes
  <2>3. PICK x : x = [op |-> "ready"]
    OBVIOUS
  <2> QED BY <2>1, <2>2, <2>3, <1>0
<1>5. m.rev \in Rev /\ m.version \in Nat /\ m.buf \in Buffer
  BY <1>3 DEF Message, Asks, Starts, Tells
<1>6. PICK new : new = [version |-> m.version, rev |-> m.rev]
  OBVIOUS
<1>7. new \in Copy
  BY <1>5, <1>6 DEF Copy
<1>8. /\ ServerTyped' /\ server'.alive = server.alive
      /\ server'.copy = IF m.op \in {"open", "change"} THEN [server.copy EXCEPT ![m.buf] = new]
                        ELSE server.copy
  <2>1. CASE m.op \in {"open", "change"}
    <3>1. server' = [server EXCEPT !.copy[m.buf] = new]
      BY <2>1, <1>1, <1>6 DEF Takes
    <3>2. PICK c : c = [server.copy EXCEPT ![m.buf] = new]
      OBVIOUS
    <3>3. c \in [Buffer -> Copy]
      BY <3>2, <1>0, <1>5, <1>7
    <3>4. server' = [server EXCEPT !.copy = c]
      BY <3>1, <3>2, <1>0 DEF ServerTyped
    <3> QED BY <2>1, <3>2, <3>3, <3>4, <1>0 DEF ServerTyped
  <2>2. CASE m.op = "request" /\ m.kind # "initialize"
    <3>1. server' = [server EXCEPT !.jobs = @ \cup {m}]
      BY <2>2, <1>1 DEF Takes
    <3>2. m \in Asks
      BY <2>2, <1>3 DEF Message, Starts, Tells
    <3> QED BY <2>2, <3>1, <3>2, <1>0 DEF ServerTyped
  <2>3. CASE m.op = "reply"
    <3>1. server' = [server EXCEPT !.asking = FALSE]
      BY <2>3, <1>1 DEF Takes
    <3> QED BY <2>3, <3>1, <1>0 DEF ServerTyped
  <2>4. CASE m.op = "request" /\ m.kind = "initialize"
    <3>1. server' = server
      BY <2>4, <1>1 DEF Takes
    <3> QED BY <2>4, <3>1, <1>0 DEF ServerTyped
  <2>5. m.op \in {"open", "change", "reply", "request"}
    BY <1>3 DEF Message, Asks, Starts, Tells
  <2> QED BY <2>1, <2>2, <2>3, <2>4, <2>5
<1>9. LifeInv'
  BY <1>0, <1>2, <1>8 DEF LifeInv
<1>10. FollowInv'
  <2> SUFFICES ASSUME NEW b \in Buffer
               PROVE  Follows(out' \o client'.held, b, server'.copy[b], docs'[b])
    BY DEF FollowInv
  <2>1. PICK o \in Seq(Message) : o = out
    BY <1>0
  <2>2. PICK h \in Seq(Message) : h = client.held
    BY <1>0
  <2>3. PICK ms \in Seq(Message) : ms = o \o h
    <3>1. o \o h \in Seq(Message)
      OBVIOUS
    <3> QED BY <3>1
  <2>4. ms # <<>> /\ Head(ms) = m /\ Tail(o) \o h = Tail(ms)
    <3>0. o # <<>>
      BY <2>1, <1>2
    <3>1. ms # <<>> /\ Head(ms) = Head(o)
      BY <2>3, <3>0
    <3>2. Tail(o) \o h = Tail(ms)
      BY <2>3, <3>0
    <3> QED BY <3>1, <3>2, <2>1, <1>1
  <2>5. PICK c \in Copy : c = server.copy[b]
    BY <1>0
  <2>6. PICK d \in Copy : d = docs[b]
    BY <1>0
  <2>7. Follows(ms, b, c, d)
    BY <2>1, <2>2, <2>3, <2>5, <2>6, <1>0, <1>2 DEF FollowInv
  <2>8. out' \o client'.held = Tail(ms) /\ docs'[b] = d
    BY <2>1, <2>2, <2>4, <2>6, <1>2
  <2>9. CASE TellsOf(m, b)
    <3>1. server'.copy[b] = new
      BY <2>9, <1>0, <1>8 DEF TellsOf
    <3>2. Follows(Tail(ms), b, [version |-> m.version, rev |-> m.rev], d)
      BY <2>4, <2>7, <2>9, <1>3, FollowsTake
    <3> QED BY <3>1, <3>2, <2>8, <1>6
  <2>10. CASE ~TellsOf(m, b)
    <3>1. server'.copy[b] = c
      BY <2>5, <2>10, <1>0, <1>5, <1>8 DEF TellsOf
    <3>2. Follows(Tail(ms), b, c, d)
      BY <2>4, <2>7, <2>10, FollowsDrop
    <3> QED BY <3>1, <3>2, <2>8
  <2> QED BY <2>9, <2>10
<1> QED BY <1>2, <1>3, <1>4, <1>8, <1>9, <1>10, ServerSteps

LEMMA CopiesTyped ==
    ASSUME ServerTyped
    PROVE  Copies \subseteq Text /\ \A b \in Buffer : server.copy[b].rev \in Rev
<1>1. \A b \in Buffer : server.copy[b].rev \in Rev
  BY DEF ServerTyped, Copy
<1> QED BY <1>1 DEF Copies, Text, Rev

LEMMA AnswerKeeps ==
    ASSUME IInv, NEW j \in server.jobs, Answer(j)
    PROVE  IInv'
<1>0. ServerTyped /\ in \in Seq(Incoming) /\ server.jobs \subseteq Asks
  BY DEF IInv, WireInv, WireTyped, ServerTyped
<1>1. /\ UNCHANGED editor /\ UNCHANGED <<docs, client, out, pending>> /\ UNCHANGED popup
      /\ UNCHANGED <<stash, phase, frame>>
      /\ server' = [server EXCEPT !.jobs = @ \ {j}]
  BY DEF Answer
<1>2. ServerTyped' /\ server'.copy = server.copy /\ server'.alive = server.alive
  BY <1>0, <1>1 DEF ServerTyped
<1>3. /\ j \in Asks /\ j.rid \in Rid /\ j.buf \in Buffer
      /\ j.version \in Nat /\ j.idx \in Item
  BY <1>0 DEF Asks
<1>4. PICK edit : /\ edit \in CASE j.kind = "format" -> {{[buf |-> j.buf, rev |-> server.copy[j.buf].rev]}, {}}
                                [] j.kind = "goto" -> {{c} : c \in Copies}
                                [] j.kind \in {"rename", "action"} -> {Copies}
                                [] OTHER -> {{}}
                  /\ in' = Append(in, [op |-> "answer", rid |-> j.rid, edit |-> edit,
                                       item |-> <<j.version, j.idx>>])
  BY DEF Answer
<1>5. edit \in SUBSET Text
  <2>0. Copies \subseteq Text /\ server.copy[j.buf].rev \in Rev
    BY <1>0, <1>3, CopiesTyped
  <2>1. CASE j.kind = "format"
    <3>1. [buf |-> j.buf, rev |-> server.copy[j.buf].rev] \in Text
      BY <2>0, <1>3 DEF Text, Rev
    <3>2. edit \in {{[buf |-> j.buf, rev |-> server.copy[j.buf].rev]}, {}}
      BY <2>1, <1>4
    <3> QED BY <3>1, <3>2
  <2>2. CASE j.kind = "goto"
    <3>1. edit \in {{c} : c \in Copies}
      BY <2>2, <1>4
    <3> QED BY <3>1, <2>0
  <2>3. CASE j.kind \in {"rename", "action"}
    <3>1. edit \in {Copies}
      BY <2>3, <1>4
    <3> QED BY <3>1, <2>0
  <2>4. CASE j.kind \notin {"format", "goto", "rename", "action"}
    <3>1. edit \in {{}}
      BY <2>4, <1>4
    <3> QED BY <3>1
  <2> QED BY <2>1, <2>2, <2>3, <2>4
<1>6. PICK x : x = [op |-> "answer", rid |-> j.rid, edit |-> edit, item |-> <<j.version, j.idx>>]
  OBVIOUS
<1>7. <<j.version, j.idx>> \in Filled
  BY <1>3 DEF Filled
<1>8. x \in Incoming
  BY <1>3, <1>5, <1>6, <1>7 DEF Incoming, Answers
<1>9. in' \in Seq(Incoming)
  BY <1>0, <1>4, <1>6, <1>8
<1> QED BY <1>1, <1>2, <1>9, ServerWorks

LEMMA RefusesKeeps ==
    ASSUME IInv, NEW j \in server.jobs, Refuses(j)
    PROVE  IInv'
<1>0. ServerTyped /\ in \in Seq(Incoming)
  BY DEF IInv, WireInv, WireTyped
<1>1. /\ UNCHANGED editor /\ UNCHANGED <<docs, client, out, pending>> /\ UNCHANGED popup
      /\ UNCHANGED <<stash, phase, frame>>
      /\ server' = [server EXCEPT !.jobs = @ \ {j}]
      /\ in' = Append(in, [op |-> "error"])
  BY DEF Refuses
<1>2. ServerTyped' /\ server'.copy = server.copy /\ server'.alive = server.alive
  BY <1>0, <1>1 DEF ServerTyped
<1>3. [op |-> "error"] \in Incoming
  BY DEF Incoming
<1>4. PICK x : x = [op |-> "error"]
  OBVIOUS
<1>5. in' \in Seq(Incoming)
  BY <1>0, <1>1, <1>3, <1>4
<1> QED BY <1>1, <1>2, <1>5, ServerWorks

LEMMA AsksEditKeeps ==
    ASSUME IInv, NEW j \in server.jobs, AsksEdit(j)
    PROVE  IInv'
<1>0. ServerTyped /\ in \in Seq(Incoming)
  BY DEF IInv, WireInv, WireTyped
<1>1. /\ UNCHANGED editor /\ UNCHANGED <<docs, client, out, pending>> /\ UNCHANGED popup
      /\ UNCHANGED <<stash, phase, frame>>
      /\ server' = [server EXCEPT !.asking = TRUE]
  BY DEF AsksEdit
<1>2. ServerTyped' /\ server'.copy = server.copy /\ server'.alive = server.alive
  BY <1>0, <1>1 DEF ServerTyped
<1>3. PICK edit \in {Copies, {}} : in' = Append(in, [op |-> "apply_edit", edit |-> edit])
  BY DEF AsksEdit
<1>4. edit \in SUBSET Text
  BY <1>0, CopiesTyped
<1>5. PICK x : x = [op |-> "apply_edit", edit |-> edit]
  OBVIOUS
<1>6. x \in Incoming
  BY <1>4, <1>5 DEF Incoming, Wishes
<1>7. in' \in Seq(Incoming)
  BY <1>0, <1>3, <1>5, <1>6
<1> QED BY <1>1, <1>2, <1>7, ServerWorks

LEMMA ServerDiesKeeps ==
    ASSUME IInv, ServerDies
    PROVE  IInv'
<1>0. ServerTyped /\ in \in Seq(Incoming) /\ LifeInv
  BY DEF IInv, WireInv, WireTyped
<1>1. /\ UNCHANGED editor /\ UNCHANGED <<docs, client, in, pending>> /\ UNCHANGED popup
      /\ UNCHANGED <<stash, phase, frame>>
      /\ server' = [server EXCEPT !.alive = FALSE, !.jobs = {}, !.asking = FALSE]
      /\ out' = <<>>
  BY DEF ServerDies
<1>2. ServerTyped' /\ server'.copy = server.copy /\ server'.alive = FALSE
  BY <1>0, <1>1 DEF ServerTyped
<1>3. LifeInv'
  BY <1>0, <1>1, <1>2 DEF LifeInv
<1>4. FollowInv'
  BY <1>2 DEF FollowInv
<1>5. out' \in Seq(Message) /\ in' \in Seq(Incoming)
  BY <1>0, <1>1
<1> QED BY <1>1, <1>2, <1>3, <1>4, <1>5, ServerSteps

----------------------------------------------------------------------------
(* The theorems.                                                           *)

LEMMA Initially == Init => IInv
<1> SUFFICES ASSUME Init PROVE IInv
  OBVIOUS
<1>1. EditorTyped
  BY Bounds DEF Init, EditorTyped
<1>2. StashTyped
  <2>1. <<>> \in Seq(SUBSET Text)
    OBVIOUS
  <2> QED BY <2>1 DEF Init, StashTyped, NoStash
<1>3. closed = 0 /\ 0 \in 0 .. MaxId + 1 /\ client.next_id = 1 /\ req.completion = None
  BY Bounds DEF Init, NoReq
<1>4. PopupTyped
  BY <1>3 DEF Init, PopupTyped, NoReq
<1>5. [version |-> 0, rev |-> 0] \in Copy
  BY Bounds DEF Copy
<1>6. docs \in [Buffer -> Copy] /\ docs = server.copy /\ server.copy \in [Buffer -> Copy]
  BY <1>5 DEF Init
<1>7. <<>> \in Seq(Message) /\ <<>> \in Seq(Incoming) /\ 1 \in 1 .. MaxId + 1
  BY Bounds
<1>8. ServerTyped
  <2>1. PICK c : c = [b \in Buffer |-> [version |-> 0, rev |-> 0]]
    OBVIOUS
  <2>2. c \in [Buffer -> Copy]
    BY <2>1, <1>5
  <2>3. server = [alive |-> FALSE, copy |-> c, jobs |-> {}, asking |-> FALSE]
    BY <2>1 DEF Init
  <2> QED BY <2>2, <2>3 DEF ServerTyped
<1>9. ClientTyped
  BY <1>7 DEF Init, ClientTyped
<1>10. WireTyped
  BY <1>6, <1>7, <1>8, <1>9 DEF Init, WireTyped, PendingTyped
<1>11. IdsInv
  BY DEF Init, IdsInv
<1>12. LifeInv
  BY <1>6 DEF Init, LifeInv
<1>13. FollowInv
  BY DEF Init, FollowInv
<1>14. MenuInv
  BY <1>3 DEF MenuInv
<1> QED BY <1>1, <1>2, <1>4, <1>10, <1>11, <1>12, <1>13, <1>14 DEF IInv, WireInv

LEMMA StepPreserves == IInv /\ [Next]_vars => IInv'
<1> SUFFICES ASSUME IInv, [Next]_vars PROVE IInv'
  OBVIOUS
<1>1. CASE UNCHANGED vars
  <2>1. /\ UNCHANGED <<docs, client, out, in, server, pending>> /\ UNCHANGED editor
        /\ UNCHANGED popup /\ UNCHANGED <<stash, phase, frame>>
    BY <1>1 DEF vars
  <2>2. EditorTyped' /\ StashTyped' /\ PopupTyped' /\ MenuInv'
    BY <2>1 DEF IInv, EditorTyped, StashTyped, PopupTyped, MenuInv, editor, popup
  <2> QED BY <2>1, <2>2, QuietKeeps
<1>2. CASE Spawn
  BY <1>2, SpawnKeeps
<1>3. CASE Sync
  BY <1>3, SyncKeeps
<1>4. CASE Poll
  BY <1>4, PollKeeps
<1>5. CASE PollEnds \/ Tick
  BY <1>5, PollEndsKeeps
<1>6. CASE Ingest
  BY <1>6, IngestKeeps
<1>7. CASE Requests
  BY <1>7, RequestsKeeps
<1>8. CASE ApplyPending
  BY <1>8, ApplyPendingKeeps
<1>9. ASSUME NEW word \in BOOLEAN, Type(word) PROVE IInv'
  BY <1>9, TypeKeeps
<1>10. CASE Select
  BY <1>10, SelectKeeps
<1>11. ASSUME NEW accept \in BOOLEAN, LeaveMenu(accept) PROVE IInv'
  BY <1>11, LeaveMenuKeeps
<1>12. CASE Omni
  BY <1>12, OmniKeeps
<1>13. ASSUME NEW kind \in Asked, Ask(kind) PROVE IInv'
  BY <1>13, AskKeeps
<1>14. CASE AcceptAction
  BY <1>14, AcceptActionKeeps
<1>15. ASSUME NEW b \in Buffer, Focus(b) PROVE IInv'
  BY <1>15, FocusKeeps
<1>16. CASE Takes
  BY <1>16, TakesKeeps
<1>17. ASSUME NEW j \in server.jobs, Answer(j) \/ Refuses(j) \/ AsksEdit(j) PROVE IInv'
  BY <1>17, AnswerKeeps, RefusesKeeps, AsksEditKeeps
<1>18. CASE ServerDies
  BY <1>18, ServerDiesKeeps
<1> QED BY <1>1, <1>2, <1>3, <1>4, <1>5, <1>6, <1>7, <1>8, <1>9, <1>10, <1>11, <1>12, <1>13,
           <1>14, <1>15, <1>16, <1>17, <1>18 DEF Next, Frame

\* The inductive invariant: the types of what the coordinator, the pipes and
\* the server hold; ids given out once; notifications held back only before
\* the handshake; what is under way makes the server's copies the texts that
\* are believed to be there; and while the popup is closed the latest
\* completion request is younger than its closing.
THEOREM Inductive == Spec => []IInv
<1>1. IInv /\ [Next]_vars => IInv'
  BY StepPreserves
<1> QED BY <1>1, Initially, PTL DEF Spec

\* lsp_docs is right: the didOpen and didChange notifications that sync wrote,
\* or that notify held back until become_ready, take the server's copy of every
\* buffer, version by version and opened first, to the version and text last
\* sent, however requests overtake the held back notifications and whatever
\* the server does.
THEOREM DocsAreFollowed == Spec => []ServerFollows
<1>1. IInv => ServerFollows
  BY TypesHold DEF IInv, WireInv, FollowInv, ServerFollows
<1> QED BY <1>1, Inductive, PTL

\* A popup that close_completion, or an answer with nothing to show, closed is
\* opened again only by the answer to a completion request sent afterwards.
THEOREM ClosedIsClosed == Spec => ClosedStaysClosed
<1> DEFINE Opens == menu = NoMenu /\ menu' # NoMenu => menu'.rid >= closed
<1>1. IInv /\ Next => Opens
  <2> SUFFICES ASSUME IInv, Next, menu = NoMenu, menu' # NoMenu PROVE menu'.rid >= closed
    OBVIOUS
  <2>1. CASE Ingest
    BY <2>1, IngestKeeps
  <2>2. CASE Requests
    BY <2>2, RequestsKeeps
  <2>3. ASSUME NEW word \in BOOLEAN, Type(word) PROVE FALSE
    BY <2>3, TypeKeeps
  <2>4. CASE Spawn \/ Sync \/ Poll \/ PollEnds \/ ApplyPending \/ Tick
    BY <2>4 DEF Spawn, Sync, Poll, PollEnds, ApplyPending, Tick, popup
  <2>5. ASSUME NEW kind \in Asked, Ask(kind) PROVE FALSE
    BY <2>5 DEF Ask, popup
  <2>6. CASE Select \/ Omni \/ AcceptAction
    BY <2>6 DEF Select, Omni, AcceptAction, popup
  <2>7. ASSUME NEW accept \in BOOLEAN, LeaveMenu(accept) PROVE FALSE
    BY <2>7 DEF LeaveMenu
  <2>8. ASSUME NEW b \in Buffer, Focus(b) PROVE FALSE
    BY <2>8 DEF Focus, popup
  <2>9. CASE Takes \/ ServerDies
    BY <2>9 DEF Takes, ServerDies, popup
  <2>10. ASSUME NEW j \in server.jobs, Answer(j) \/ Refuses(j) \/ AsksEdit(j) PROVE FALSE
    BY <2>10 DEF Answer, Refuses, AsksEdit, popup
  <2> QED BY <2>1, <2>2, <2>3, <2>4, <2>5, <2>6, <2>7, <2>8, <2>9, <2>10 DEF Next, Frame
<1>2. IInv /\ [Next]_vars => [Opens]_vars
  BY <1>1
<1>3. Spec => [][Opens]_vars
  BY <1>2, Inductive, PTL DEF Spec
<1> QED BY <1>3 DEF ClosedStaysClosed
=============================================================================
