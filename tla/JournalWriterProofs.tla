------------------------- MODULE JournalWriterProofs -------------------------
(***************************************************************************)
(* The recovery journal for all texts, caps and lengths: replay never      *)
(* mixes texts, what a sync made durable survives every failure, and the   *)
(* crash path restores the last frame.                                     *)
(***************************************************************************)
EXTENDS JournalWriter, WellFoundedInduction, TLAPS

(* The text a record leaves.                                               *)
Carries(r) ==
    IF r.kind = "Header" THEN r.base
    ELSE IF r.kind = "Checkpoint" THEN r.text
    ELSE IF r.kind = "Edit" THEN r.to ELSE None

(* The first m records: a Header, then Checkpoints, and Edits made from    *)
(* the text the record before them leaves.                                 *)
SoundTo(j, m) ==
    /\ m \in 1 .. Len(j) /\ j[1].kind = "Header"
    /\ \A n \in 2 .. m :
          \/ j[n].kind = "Checkpoint"
          \/ j[n].kind = "Edit" /\ j[n].from = Carries(j[n - 1])

Sound(j) == j \in Seq(Records) /\ SoundTo(j, Len(j))

Tip(j) == Carries(j[Len(j)])

(* A journal without the record that a write tore.                         *)
Intact(j) == IF j # <<>> /\ j[Len(j)] = Torn THEN SubSeq(j, 1, Len(j) - 1) ELSE j

(* Edits that lead from text t, one by one, and the text they end in.      *)
Chain(es, t) ==
    \A n \in DOMAIN es :
        es[n].kind = "Edit" /\ es[n].from = IF n = 1 THEN t ELSE es[n - 1].to
End(es, t) == IF es = <<>> THEN t ELSE es[Len(es)].to

(* The text of the last drain of the change log, as far as it is known.    *)
Base == IF log.entries = <<>> THEN text ELSE log.entries[1].from

(* A journal is missing, just created, or sound up to a torn end.          *)
Readable(j) == j = Missing \/ j = <<>> \/ Sound(Intact(j))

JournalInv == Readable(journal)

LogInv ==
    /\ log.lost => log.entries = <<>>
    /\ Chain(log.entries, Base) /\ End(log.entries, Base) = text
    /\ phase \in {"sync", "risky"} => log = Drained

(* Where the writer's next records go, the edits before them end.          *)
WriterInv ==
    /\ state = "Idle" =>
          /\ ~rewrite /\ held = NotHeld /\ pending = <<>>
          /\ base # None /\ ~log.lost => base = Base
    /\ state = "Live" => held = NotHeld
    /\ state = "Fresh" /\ ~rewrite /\ held = NotHeld =>
          /\ Sound(pending) /\ pending[1].owner = "self"
          /\ ~log.lost => Tip(pending) = Base
    /\ state = "Fresh" /\ ~rewrite /\ held # NotHeld =>
          /\ Chain(pending, held.base)
          /\ ~log.lost => End(pending, held.base) = Base
    /\ state = "Live" /\ ~rewrite /\ AsLeft =>
          /\ Sound(journal) /\ Owned(journal) /\ Chain(pending, Tip(journal))
          /\ ~log.lost => End(pending, Tip(journal)) = Base

SessionInv ==
    /\ ~alive => /\ phase = "frame" /\ journaling /\ ~attached /\ log = Lost
                 /\ state = "Idle" /\ base = None
    /\ alive => rescued = "No"
    /\ phase = "sync" /\ ~modified => state = "Idle" /\ ~Owned(journal)
    /\ alive /\ state = "Idle" /\ Owned(journal) =>
          phase = "frame" /\ modified /\ journaling /\ log.lost
    /\ published.modified => published.text # None

(* While something is at stake, all the journal can come to hold is a text *)
(* the buffer has held since the last sync.                                *)
SafeInv ==
    safe # None =>
      /\ text \in recent
      /\ \A n \in DOMAIN pending : pending[n].kind = "Edit" /\ pending[n].to \in recent
      /\ \A n \in DOMAIN log.entries : log.entries[n].to \in recent
      /\ state = "Live" \/ rewrite \/ (state = "Idle" /\ base = None)
      /\ ~tampered =>
            /\ Sound(Intact(journal))
            /\ \/ Tip(Intact(journal)) \in recent
               \/ rescued # "No" /\ Tip(Intact(journal)) = published.text

RescuedInv ==
    rescued = "Yes" =>
        Sound(journal) /\ journal[Len(journal)] = Checkpoint(published.text)

IInv ==
    /\ TypeOK
    /\ JournalInv
    /\ LogInv
    /\ WriterInv
    /\ SessionInv
    /\ SafeInv
    /\ RescuedInv

----------------------------------------------------------------------------
(* Induction, and that replay is the run of its records.                   *)

LEMMA Induct ==
    ASSUME NEW P \in SUBSET Nat, 0 \in P, \A n \in P : n + 1 \in P
    PROVE  P = Nat
<1> DEFINE R == {ss \in Nat \X Nat : ss[1] < ss[2]}
           T == Nat \ P
<1>1. IsWellFoundedOn(R, Nat)
  BY NatLessThanWellFounded DEF OpToRel
<1> HIDE DEF R
<1>2. SUFFICES ASSUME T # {}
               PROVE  FALSE
  OBVIOUS
<1>3. PICK x \in T : \A y \in T : ~(<<y, x>> \in R)
  BY <1>1, <1>2, WFMin
<1>4. x # 0 /\ x - 1 \in Nat /\ (x - 1) + 1 = x
  OBVIOUS
<1>5. x - 1 \in T
  BY <1>4
<1>6. PICK p : p = <<x - 1, x>>
  OBVIOUS
<1>7. p \in Nat \X Nat /\ p[1] < p[2]
  BY <1>4, <1>6
<1>8. p \in R
  BY <1>7 DEF R
<1> QED
  BY <1>3, <1>5, <1>6, <1>8

(* g holds what replay has after each of the first m records.              *)
Run(j, d, m, g) ==
    /\ g = [n \in 0 .. m |-> g[n]]
    /\ g[0] = Unread
    /\ \A n \in 1 .. m : g[n] = ReplayRecord(g[n - 1], j[n], d)

LEMMA RunExists ==
    ASSUME NEW j, NEW d
    PROVE  \A m \in Nat : \E g : Run(j, d, m, g)
<1> DEFINE P == {m \in Nat : \E g : Run(j, d, m, g)}
<1>1. 0 \in P
  <2> DEFINE g == [n \in 0 .. 0 |-> Unread]
  <2>1. Run(j, d, 0, g)
    BY DEF Run
  <2> QED
    BY <2>1
<1>2. ASSUME NEW m \in P
      PROVE  m + 1 \in P
  <2>1. PICK g : Run(j, d, m, g)
    OBVIOUS
  <2> DEFINE h == [n \in 0 .. m + 1 |->
                      IF n = m + 1 THEN ReplayRecord(g[m], j[m + 1], d) ELSE g[n]]
  <2>2. h = [n \in 0 .. m + 1 |-> h[n]]
    OBVIOUS
  <2>3. h[0] = Unread
    BY <2>1 DEF Run
  <2>4. ASSUME NEW n \in 1 .. m + 1
        PROVE  h[n] = ReplayRecord(h[n - 1], j[n], d)
    <3>1. CASE n = m + 1
      BY <3>1
    <3>2. CASE n # m + 1
      <4>1. n \in 1 .. m /\ h[n] = g[n] /\ h[n - 1] = g[n - 1]
        BY <3>2
      <4> HIDE DEF h
      <4> QED
        BY <2>1, <4>1 DEF Run
    <3> QED
      BY <3>1, <3>2
  <2> HIDE DEF h
  <2>5. Run(j, d, m + 1, h)
    BY <2>2, <2>3, <2>4 DEF Run
  <2> QED
    BY <2>5
<1> HIDE DEF P
<1>3. P = Nat
  <2>1. P \in SUBSET Nat
    BY DEF P
  <2> QED
    BY <1>1, <1>2, <2>1, Induct
<1> QED
  BY <1>3 DEF P

LEMMA ReplayRuns ==
    ASSUME NEW j, NEW d, Len(j) \in Nat
    PROVE  \E g : Run(j, d, Len(j), g) /\ ReplayAll(j, d) = g[Len(j)]
<1> DEFINE R == CHOOSE g : g = [n \in 0 .. Len(j) |->
                                   IF n = 0 THEN Unread ELSE ReplayRecord(g[n - 1], j[n], d)]
<1>1. ReplayAll(j, d) = R[Len(j)]
  BY DEF ReplayAll
<1>2. PICK g : Run(j, d, Len(j), g)
  BY RunExists
<1>3. g = [n \in 0 .. Len(j) |-> IF n = 0 THEN Unread ELSE ReplayRecord(g[n - 1], j[n], d)]
  BY <1>2 DEF Run
<1>4. R = [n \in 0 .. Len(j) |-> IF n = 0 THEN Unread ELSE ReplayRecord(R[n - 1], j[n], d)]
  BY <1>3
<1> HIDE DEF R
<1>5. Run(j, d, Len(j), R)
  BY <1>4 DEF Run
<1> QED
  BY <1>1, <1>5

----------------------------------------------------------------------------
(* Sequences.                                                              *)
LEMMA AppendFacts ==
    ASSUME NEW S, NEW s \in Seq(S), NEW e \in S
    PROVE  /\ Append(s, e) \in Seq(S) /\ Len(Append(s, e)) = Len(s) + 1
           /\ \A i \in 1 .. Len(s) : Append(s, e)[i] = s[i]
           /\ Append(s, e)[Len(s) + 1] = e
           /\ Append(s, e) = s \o <<e>>
OBVIOUS

LEMMA ConcatFacts ==
    ASSUME NEW S, NEW s \in Seq(S), NEW t \in Seq(S)
    PROVE  /\ s \o t \in Seq(S) /\ Len(s \o t) = Len(s) + Len(t)
           /\ \A i \in 1 .. Len(s) + Len(t) :
                 (s \o t)[i] = IF i <= Len(s) THEN s[i] ELSE t[i - Len(s)]
           /\ t = <<>> => s \o t = s
           /\ s = <<>> => s \o t = t
OBVIOUS

LEMMA PrefixFacts ==
    ASSUME NEW S, NEW s \in Seq(S), NEW k \in 0 .. Len(s)
    PROVE  /\ SubSeq(s, 1, k) \in Seq(S) /\ Len(SubSeq(s, 1, k)) = k
           /\ \A i \in 1 .. k : SubSeq(s, 1, k)[i] = s[i]
           /\ k = 0 => SubSeq(s, 1, k) = <<>>
           /\ k = Len(s) => SubSeq(s, 1, k) = s
OBVIOUS

LEMMA SeqFacts ==
    ASSUME NEW S, NEW s \in Seq(S)
    PROVE  /\ Len(s) \in Nat /\ DOMAIN s = 1 .. Len(s)
           /\ \A i \in 1 .. Len(s) : s[i] \in S
           /\ s = <<>> <=> Len(s) = 0
           /\ s # <<>> => Head(s) = s[1]
OBVIOUS

----------------------------------------------------------------------------
(* What the records are, and what replay makes of one.                     *)

LEMMA Names ==
    None \notin Texts /\ Garbage \notin Texts /\ None # Garbage /\ None \in MaybeTexts
    /\ Texts \subseteq MaybeTexts /\ \A t \in MaybeTexts : t # None => t \in Texts
BY NamesAssumption DEF None, Garbage, MaybeTexts

LEMMA RecordFacts ==
    /\ \A b \in MaybeTexts, o \in {"self", "gone"} :
          /\ Header(b, o) \in Records /\ Header(b, o).kind = "Header"
          /\ Header(b, o).base = b /\ Header(b, o).owner = o
    /\ \A t \in Texts :
          Checkpoint(t) \in Records /\ Checkpoint(t).kind = "Checkpoint" /\ Checkpoint(t).text = t
    /\ \A f, t \in Texts :
          /\ Edit(f, t) \in Records /\ Edit(f, t).kind = "Edit"
          /\ Edit(f, t).from = f /\ Edit(f, t).to = t
    /\ Torn \in Records /\ Torn.kind = "Torn"
    /\ Missing \in Seq(Records) /\ Len(Missing) = 1 /\ Missing[1].kind = "Missing"
BY DEF Records, Header, Checkpoint, Edit, Torn, Missing

LEMMA RecordKinds ==
    ASSUME NEW r \in Records
    PROVE  /\ r.kind \in {"Header", "Checkpoint", "Edit", "Torn", "Missing"}
           /\ r.kind = "Header" => r.base \in MaybeTexts /\ r.owner \in {"self", "gone"}
           /\ r.kind = "Checkpoint" => r.text \in Texts
           /\ r.kind = "Edit" => r.from \in Texts /\ r.to \in Texts
           /\ r.kind = "Torn" => r = Torn
BY DEF Records, Torn, Missing

LEMMA CarriesFacts ==
    ASSUME NEW r \in Records
    PROVE  /\ Carries(r) \in MaybeTexts
           /\ r.kind = "Header" => Carries(r) = r.base
           /\ r.kind = "Checkpoint" => Carries(r) = r.text
           /\ r.kind = "Edit" => Carries(r) = r.to
BY RecordKinds, Names DEF Carries

Fields == {"header", "text", "disk_changed", "last_good", "lost_tail"}

LEMMA UnreadFacts ==
    /\ DOMAIN Unread = Fields /\ Unread.header = FALSE /\ Unread.text = None
    /\ Unread.disk_changed = FALSE /\ Unread.last_good = 0 /\ Unread.lost_tail = FALSE
BY DEF Unread, Fields

LEMMA HeaderStep ==
    ASSUME NEW r, DOMAIN r = Fields, r.lost_tail = FALSE, r.header = FALSE,
           NEW rec \in Records, rec.kind = "Header", NEW d
    PROVE  /\ DOMAIN ReplayRecord(r, rec, d) = Fields
           /\ ReplayRecord(r, rec, d).lost_tail = FALSE
           /\ ReplayRecord(r, rec, d).header = TRUE
           /\ ReplayRecord(r, rec, d).last_good = r.last_good + 1
           /\ ReplayRecord(r, rec, d).text = IF rec.base = d THEN d ELSE None
           /\ ReplayRecord(r, rec, d).disk_changed = IF rec.base \in {None, d} THEN FALSE ELSE TRUE
BY DEF ReplayRecord, Fields

LEMMA CheckpointStep ==
    ASSUME NEW r, DOMAIN r = Fields, r.lost_tail = FALSE, r.header = TRUE,
           NEW rec \in Records, rec.kind = "Checkpoint", NEW d
    PROVE  /\ DOMAIN ReplayRecord(r, rec, d) = Fields
           /\ ReplayRecord(r, rec, d).lost_tail = FALSE
           /\ ReplayRecord(r, rec, d).header = TRUE
           /\ ReplayRecord(r, rec, d).last_good = r.last_good + 1
           /\ ReplayRecord(r, rec, d).text = rec.text
           /\ ReplayRecord(r, rec, d).disk_changed = FALSE
BY DEF ReplayRecord, Fields

LEMMA EditStep ==
    ASSUME NEW r, DOMAIN r = Fields, r.lost_tail = FALSE, r.header = TRUE,
           r.disk_changed \in BOOLEAN, NEW rec \in Records, rec.kind = "Edit", NEW d,
           ~r.disk_changed => r.text = rec.from
    PROVE  /\ DOMAIN ReplayRecord(r, rec, d) = Fields
           /\ ReplayRecord(r, rec, d).lost_tail = FALSE
           /\ ReplayRecord(r, rec, d).header = TRUE
           /\ ReplayRecord(r, rec, d).last_good = r.last_good + 1
           /\ ~r.disk_changed => ReplayRecord(r, rec, d).text = rec.to
           /\ ReplayRecord(r, rec, d).disk_changed = r.disk_changed
<1>1. rec.from # None
  BY RecordKinds, Names
<1> QED
  BY <1>1 DEF ReplayRecord, Fields

LEMMA TornStep ==
    ASSUME NEW r, DOMAIN r = Fields, NEW d
    PROVE  /\ DOMAIN ReplayRecord(r, Torn, d) = Fields
           /\ ReplayRecord(r, Torn, d).last_good = r.last_good
           /\ ReplayRecord(r, Torn, d).text = r.text
           /\ ReplayRecord(r, Torn, d).disk_changed = r.disk_changed
BY RecordFacts DEF ReplayRecord, Fields

(* What replay has read after n sound records.                             *)
ReadTo(j, d, n, r) ==
    /\ DOMAIN r = Fields /\ r.lost_tail = FALSE /\ r.header = TRUE
    /\ r.last_good = n /\ r.disk_changed \in BOOLEAN
    /\ ~r.disk_changed => r.text = Carries(j[n])
    /\ j[1].base \in {None, d} => ~r.disk_changed
    /\ j[n].kind = "Checkpoint" => ~r.disk_changed

LEMMA RunOfSound ==
    ASSUME NEW j \in Seq(Records), NEW d \in MaybeTexts, NEW g, NEW m, NEW l \in Nat,
           SoundTo(j, m), m <= l, Run(j, d, l, g)
    PROVE  ReadTo(j, d, m, g[m])
<1> DEFINE P == {n \in Nat : n + 1 \in 1 .. m => ReadTo(j, d, n + 1, g[n + 1])}
<1>1. m \in 1 .. Len(j) /\ Len(j) \in Nat /\ m \in Nat /\ DOMAIN j = 1 .. Len(j)
  BY DEF SoundTo
<1>2. ASSUME NEW n \in 1 .. m
      PROVE  j[n] \in Records /\ g[n] = ReplayRecord(g[n - 1], j[n], d)
  <2>1. n \in 1 .. Len(j) /\ n \in 1 .. l
    BY <1>1
  <2>2. j[n] \in Records
    BY ONLY <2>1, j \in Seq(Records), SeqFacts
  <2> QED
    BY <2>1, <2>2 DEF Run
<1>3. 0 \in P
  <2>1. j[1] \in Records /\ j[1].kind = "Header" /\ j[1].base \in MaybeTexts
    BY <1>1, <1>2, RecordKinds DEF SoundTo
  <2>2. g[1] = ReplayRecord(Unread, j[1], d)
    <3>1. g[1] = ReplayRecord(g[1 - 1], j[1], d)
      BY <1>1, <1>2
    <3> QED
      BY <3>1 DEF Run
  <2>3. /\ DOMAIN g[1] = Fields /\ g[1].lost_tail = FALSE /\ g[1].header = TRUE
        /\ g[1].last_good = 0 + 1
        /\ g[1].text = IF j[1].base = d THEN d ELSE None
        /\ g[1].disk_changed = IF j[1].base \in {None, d} THEN FALSE ELSE TRUE
    <3>1. PICK r : r = Unread
      OBVIOUS
    <3>2. PICK rec \in Records : rec = j[1] /\ rec.kind = "Header"
      BY <2>1
    <3>3. DOMAIN r = Fields /\ r.lost_tail = FALSE /\ r.header = FALSE /\ r.last_good = 0
      BY <3>1, UnreadFacts
    <3>4. PICK q : q = g[1] /\ q = ReplayRecord(r, rec, d)
      BY <2>2, <3>1, <3>2
    <3>5. /\ DOMAIN q = Fields /\ q.lost_tail = FALSE /\ q.header = TRUE
          /\ q.last_good = r.last_good + 1
          /\ q.text = IF rec.base = d THEN d ELSE None
          /\ q.disk_changed = IF rec.base \in {None, d} THEN FALSE ELSE TRUE
      <4>1. rec \in Records /\ rec.kind = "Header"
        BY <3>2
      <4>2. /\ DOMAIN ReplayRecord(r, rec, d) = Fields
            /\ ReplayRecord(r, rec, d).lost_tail = FALSE
            /\ ReplayRecord(r, rec, d).header = TRUE
            /\ ReplayRecord(r, rec, d).last_good = r.last_good + 1
            /\ ReplayRecord(r, rec, d).text = IF rec.base = d THEN d ELSE None
            /\ ReplayRecord(r, rec, d).disk_changed = IF rec.base \in {None, d} THEN FALSE ELSE TRUE
        BY ONLY <4>1, <3>3, HeaderStep
      <4> QED
        BY ONLY <4>2, <3>4
    <3> QED
      BY ONLY <3>2, <3>3, <3>4, <3>5
  <2>4. Carries(j[1]) = j[1].base
    BY <2>1, CarriesFacts
  <2>5. g[1].disk_changed \in BOOLEAN /\ (j[1].base \in {None, d} => ~g[1].disk_changed)
    BY <2>3
  <2>6. ~g[1].disk_changed => g[1].text = Carries(j[1])
    BY <2>3, <2>4
  <2>7. ReadTo(j, d, 1, g[1])
    BY <2>1, <2>3, <2>5, <2>6 DEF ReadTo
  <2> QED
    BY <2>7
<1>4. ASSUME NEW n \in P
      PROVE  n + 1 \in P
  <2>1. SUFFICES ASSUME n + 2 \in 1 .. m
                 PROVE  ReadTo(j, d, n + 2, g[n + 2])
    OBVIOUS
  <2>2. PICK k \in 2 .. m : k = n + 2 /\ k - 1 = n + 1 /\ k \in Nat /\ k - 1 \in 1 .. m
    BY <1>1, <2>1
  <2>3. ReadTo(j, d, k - 1, g[k - 1])
    BY <2>2
  <2>a. k \in 1 .. m /\ j[k] \in Records /\ g[k] = ReplayRecord(g[k - 1], j[k], d)
    BY <1>1, <1>2, <2>2
  <2>b. PICK rec \in Records : rec = j[k]
    BY <2>a
  <2>c. PICK r : r = g[k - 1]
    OBVIOUS
  <2>d. PICK q : q = g[k]
    OBVIOUS
  <2>4. q = g[k] /\ r = g[k - 1] /\ rec = j[k]
    BY <2>b, <2>c, <2>d
  <2>5. q = ReplayRecord(r, rec, d)
    BY <2>a, <2>4
  <2>6. /\ DOMAIN r = Fields /\ r.lost_tail = FALSE /\ r.header = TRUE
        /\ r.last_good = k - 1 /\ r.disk_changed \in BOOLEAN
        /\ ~r.disk_changed => r.text = Carries(j[k - 1])
        /\ j[1].base \in {None, d} => ~r.disk_changed
    BY <2>3, <2>4 DEF ReadTo
  <2>7. CASE rec.kind = "Checkpoint"
    <3>1. /\ DOMAIN q = Fields /\ q.lost_tail = FALSE /\ q.header = TRUE
          /\ q.last_good = (k - 1) + 1 /\ q.text = rec.text /\ q.disk_changed = FALSE
      <4>1. rec \in Records
        OBVIOUS
      <4>2. /\ DOMAIN ReplayRecord(r, rec, d) = Fields
            /\ ReplayRecord(r, rec, d).lost_tail = FALSE
            /\ ReplayRecord(r, rec, d).header = TRUE
            /\ ReplayRecord(r, rec, d).last_good = r.last_good + 1
            /\ ReplayRecord(r, rec, d).text = rec.text
            /\ ReplayRecord(r, rec, d).disk_changed = FALSE
        BY ONLY <2>6, <2>7, <4>1, CheckpointStep
      <4> QED
        BY ONLY <2>5, <2>6, <4>2
    <3>2. Carries(j[k]) = rec.text
      BY <2>4, <2>7, CarriesFacts
    <3>3. ReadTo(j, d, k, q)
      <4>1. (k - 1) + 1 = k
        BY <2>2
      <4> QED
        BY <2>6, <4>1, <3>1, <3>2 DEF ReadTo
    <3> QED
      BY <2>2, <2>4, <3>3
  <2>8. CASE rec.kind = "Edit"
    <3>1. rec.from = Carries(j[k - 1])
      BY <2>2, <2>4, <2>8 DEF SoundTo
    <3>2. /\ DOMAIN q = Fields /\ q.lost_tail = FALSE /\ q.header = TRUE
          /\ q.last_good = (k - 1) + 1 /\ q.disk_changed = r.disk_changed
          /\ ~r.disk_changed => q.text = rec.to
      <4>1. rec \in Records /\ (~r.disk_changed => r.text = rec.from)
        BY <2>6, <3>1
      <4>2. /\ DOMAIN ReplayRecord(r, rec, d) = Fields
            /\ ReplayRecord(r, rec, d).lost_tail = FALSE
            /\ ReplayRecord(r, rec, d).header = TRUE
            /\ ReplayRecord(r, rec, d).last_good = r.last_good + 1
            /\ ~r.disk_changed => ReplayRecord(r, rec, d).text = rec.to
            /\ ReplayRecord(r, rec, d).disk_changed = r.disk_changed
        BY ONLY <2>6, <2>8, <4>1, EditStep
      <4> QED
        BY ONLY <2>5, <2>6, <4>2
    <3>3. Carries(j[k]) = rec.to
      BY <2>4, <2>8, CarriesFacts
    <3>4. ReadTo(j, d, k, q)
      <4>1. (k - 1) + 1 = k /\ j[k].kind # "Checkpoint"
        BY <2>2, <2>4, <2>8
      <4> QED
        BY <2>6, <4>1, <3>2, <3>3 DEF ReadTo
    <3> QED
      BY <2>2, <2>4, <3>4
  <2> QED
    BY <2>2, <2>4, <2>7, <2>8 DEF SoundTo
<1> HIDE DEF P
<1>5. P = Nat
  <2>1. P \in SUBSET Nat
    BY DEF P
  <2> QED
    BY <1>3, <1>4, <2>1, Induct
<1>6. m - 1 \in P /\ (m - 1) + 1 = m
  BY <1>1, <1>5
<1> QED
  BY <1>1, <1>6 DEF P

----------------------------------------------------------------------------
(* Sound journals.                                                         *)
LEMMA SoundFacts ==
    ASSUME NEW j, Sound(j)
    PROVE  /\ j \in Seq(Records) /\ Len(j) \in Nat \ {0} /\ j # <<>> /\ j # Missing
           /\ j[1] \in Records /\ j[1].kind = "Header" /\ Head(j) = j[1]
           /\ j[Len(j)] \in Records /\ j[Len(j)].kind \in {"Header", "Checkpoint", "Edit"}
           /\ j[Len(j)] # Torn /\ Tip(j) \in MaybeTexts /\ HasHeader(j) /\ Intact(j) = j
<1>1. /\ j \in Seq(Records) /\ Len(j) \in Nat \ {0} /\ j # <<>> /\ Head(j) = j[1]
      /\ j[1] \in Records /\ j[Len(j)] \in Records
  BY SeqFacts DEF Sound, SoundTo
<1>2. j[1].kind = "Header"
  BY DEF Sound, SoundTo
<1>3. j # Missing
  BY <1>2, RecordFacts
<1>4. j[Len(j)].kind \in {"Header", "Checkpoint", "Edit"}
  <2>1. CASE Len(j) = 1
    BY <1>2, <2>1
  <2>2. CASE Len(j) # 1
    BY <1>1, <2>2 DEF Sound, SoundTo
  <2> QED
    BY <2>1, <2>2
<1>5. j[Len(j)] # Torn
  BY <1>4, RecordFacts
<1> QED
  BY <1>1, <1>2, <1>3, <1>4, <1>5, CarriesFacts DEF Tip, HasHeader, Exists, Intact

LEMMA TornIsCut ==
    ASSUME NEW j, Sound(j)
    PROVE  /\ Intact(j \o <<Torn>>) = j /\ j \o <<Torn>> \in Seq(Records)
           /\ j \o <<Torn>> # Missing /\ Head(j \o <<Torn>>) = j[1]
           /\ j \o <<Torn>> # <<>>
<1>1. j \in Seq(Records) /\ Len(j) \in Nat \ {0} /\ Torn \in Records
  BY SoundFacts, RecordFacts
<1> DEFINE a == j \o <<Torn>>
<1>2. /\ a \in Seq(Records) /\ Len(a) = Len(j) + 1
      /\ \A i \in 1 .. Len(j) : a[i] = j[i]
      /\ a[Len(j) + 1] = Torn
  <2>1. a = Append(j, Torn)
    BY ONLY <1>1, AppendFacts
  <2> QED
    BY ONLY <1>1, <2>1, AppendFacts
<1> HIDE DEF a
<1>3. SubSeq(a, 1, Len(j)) = j
  <2>1. /\ SubSeq(a, 1, Len(j)) \in Seq(Records) /\ Len(SubSeq(a, 1, Len(j))) = Len(j)
        /\ \A i \in 1 .. Len(j) : SubSeq(a, 1, Len(j))[i] = a[i]
    <3>1. Len(j) \in 0 .. Len(a)
      BY <1>1, <1>2
    <3> QED
      BY ONLY <1>2, <3>1, PrefixFacts
  <2> QED
    BY ONLY <1>1, <1>2, <2>1
<1>4. a # <<>> /\ a[Len(a)] = Torn /\ Len(a) - 1 = Len(j) /\ Head(a) = a[1] /\ Len(a) # 1
  BY <1>1, <1>2, SeqFacts
<1>5. Intact(a) = j
  BY <1>3, <1>4 DEF Intact
<1>6. a # Missing
  BY <1>4, RecordFacts
<1> QED
  BY <1>1, <1>2, <1>4, <1>5, <1>6 DEF a

LEMMA IntactFacts ==
    ASSUME NEW j \in Seq(Records), Sound(Intact(j))
    PROVE  /\ Len(j) \in Nat \ {0} /\ j # Missing /\ HasHeader(j) /\ Head(j) = Intact(j)[1]
           /\ \/ Intact(j) = j /\ Sound(j)
              \/ /\ j[Len(j)] = Torn /\ Len(Intact(j)) = Len(j) - 1
                 /\ Intact(j) = SubSeq(j, 1, Len(j) - 1) /\ SoundTo(j, Len(j) - 1)
                 /\ \A n \in 1 .. Len(j) - 1 : Intact(j)[n] = j[n]
                 /\ Len(j) - 1 \in Nat \ {0}
<1>1. Len(j) \in Nat /\ j # <<>>
  <2>1. Len(j) \in Nat
    BY SeqFacts
  <2>2. CASE j = <<>>
    BY <2>2, SoundFacts DEF Intact
  <2> QED
    BY <2>1, <2>2
<1>2. CASE j[Len(j)] # Torn
  <2>1. Intact(j) = j
    BY <1>2 DEF Intact
  <2> QED
    BY <2>1, SoundFacts
<1>3. CASE j[Len(j)] = Torn
  <2>1. Intact(j) = SubSeq(j, 1, Len(j) - 1)
    BY <1>1, <1>3 DEF Intact
  <2>2. Len(j) - 1 \in 0 .. Len(j) /\ Len(j) # 0
    BY <1>1, SeqFacts
  <2>3. PICK i \in Seq(Records), k \in 0 .. Len(j) : i = Intact(j) /\ k = Len(j) - 1
    BY <2>2, SoundFacts
  <2>4. Len(i) = k /\ \A n \in 1 .. k : i[n] = j[n]
    BY <2>1, <2>3, PrefixFacts
  <2>5. Len(i) \in Nat \ {0} /\ i[1].kind = "Header" /\ Sound(i)
    BY <2>3, SoundFacts
  <2>6. j[1] = i[1] /\ Head(j) = j[1] /\ k + 1 = Len(j) /\ k \in Nat \ {0}
    BY <1>1, <2>3, <2>4, <2>5, SeqFacts
  <2>7. SoundTo(j, k)
    <3>1. k \in 1 .. Len(j) /\ j[1].kind = "Header"
      BY <2>5, <2>6, <1>1
    <3>2. ASSUME NEW n \in 2 .. k
          PROVE  \/ j[n].kind = "Checkpoint"
                 \/ j[n].kind = "Edit" /\ j[n].from = Carries(j[n - 1])
      <4>1. i[n] = j[n] /\ i[n - 1] = j[n - 1] /\ n \in 2 .. Len(i)
        BY <2>4, <2>6
      <4> QED
        BY <2>5, <4>1 DEF Sound, SoundTo
    <3> QED
      BY <3>1, <3>2 DEF SoundTo
  <2>8. j # Missing
    BY <2>5, <2>6, RecordFacts
  <2> QED
    BY <1>1, <1>3, <2>1, <2>3, <2>4, <2>5, <2>6, <2>7, <2>8 DEF HasHeader, Exists
<1> QED
  BY <1>2, <1>3

(* Replay of a journal that is sound up to what a write tore: all of it is *)
(* read, and unless the file changed under it the text is that of its last *)
(* record.                                                                 *)
LEMMA ReplayFacts ==
    ASSUME NEW j \in Seq(Records), Sound(Intact(j)), NEW d \in MaybeTexts
    PROVE  /\ Replay(j, d).last_good = Len(Intact(j))
           /\ Replay(j, d).disk_changed \in BOOLEAN
           /\ Head(j).base \in {None, d} => ~Replay(j, d).disk_changed
           /\ Intact(j)[Len(Intact(j))].kind = "Checkpoint" => ~Replay(j, d).disk_changed
           /\ ~Replay(j, d).disk_changed => Replay(j, d).text = Tip(Intact(j))
<1>1. Len(j) \in Nat \ {0} /\ Replay(j, d) = ReplayAll(j, d)
  BY IntactFacts DEF Replay, Exists
<1>2. PICK g : Run(j, d, Len(j), g) /\ Replay(j, d) = g[Len(j)]
  BY <1>1, ReplayRuns
<1>3. CASE Intact(j) = j /\ Sound(j)
  <2>1. SoundTo(j, Len(j)) /\ Len(j) <= Len(j)
    BY <1>1, <1>3 DEF Sound
  <2>2. ReadTo(j, d, Len(j), g[Len(j)])
    BY <1>1, <1>2, <2>1, RunOfSound
  <2>3. Head(j) = j[1]
    BY <1>3, SoundFacts
  <2> QED
    BY <1>2, <1>3, <2>2, <2>3 DEF ReadTo, Tip
<1>4. CASE /\ j[Len(j)] = Torn /\ Len(Intact(j)) = Len(j) - 1
           /\ SoundTo(j, Len(j) - 1) /\ \A n \in 1 .. Len(j) - 1 : Intact(j)[n] = j[n]
           /\ Len(j) - 1 \in Nat \ {0}
  <2>1. PICK l \in Nat, m \in Nat \ {0} : l = Len(j) /\ m = Len(j) - 1 /\ m + 1 = l /\ m <= l
    BY <1>1, <1>4
  <2>2. ReadTo(j, d, m, g[m])
    BY <1>2, <1>4, <2>1, RunOfSound
  <2>3. g[l] = ReplayRecord(g[l - 1], j[l], d) /\ l - 1 = m /\ j[l] = Torn
    BY <1>2, <1>4, <2>1 DEF Run
  <2>4. DOMAIN g[m] = Fields
    BY <2>2 DEF ReadTo
  <2>5. /\ g[l].last_good = g[m].last_good /\ g[l].text = g[m].text
        /\ g[l].disk_changed = g[m].disk_changed
    BY <2>3, <2>4, TornStep
  <2>6. Intact(j)[m] = j[m] /\ Intact(j)[1] = j[1] /\ Head(j) = j[1] /\ Len(Intact(j)) = m
    BY <1>4, <2>1, IntactFacts
  <2> QED
    BY <1>2, <2>1, <2>2, <2>5, <2>6 DEF ReadTo, Tip
<1> QED
  BY <1>3, <1>4, IntactFacts

LEMMA EmptyReplay ==
    ASSUME NEW j, j = Missing \/ j = <<>>, NEW d
    PROVE  Replay(j, d).text = None /\ ~Replay(j, d).disk_changed
<1>1. Replay(j, d) = ReplayAll(<<>>, d)
  BY DEF Replay, Exists
<1>2. Len(<<>>) = 0
  OBVIOUS
<1>3. PICK g : Run(<<>>, d, Len(<<>>), g) /\ ReplayAll(<<>>, d) = g[Len(<<>>)]
  BY <1>2, ReplayRuns
<1>4. Replay(j, d) = Unread
  BY <1>1, <1>2, <1>3 DEF Run
<1> QED
  BY <1>4, UnreadFacts

----------------------------------------------------------------------------
(* Chains of edits.                                                        *)
LEMMA ChainFacts ==
    ASSUME NEW es \in Seq(Records), NEW t \in MaybeTexts, Chain(es, t)
    PROVE  /\ End(es, t) \in MaybeTexts
           /\ t \in Texts => End(es, t) \in Texts
           /\ \A n \in 1 .. Len(es) :
                 /\ es[n] \in Records /\ es[n].kind = "Edit" /\ es[n].to \in Texts
                 /\ Carries(es[n]) = es[n].to
                 /\ es[n].from = IF n = 1 THEN t ELSE es[n - 1].to
<1>1. Len(es) \in Nat /\ DOMAIN es = 1 .. Len(es) /\ (es = <<>> <=> Len(es) = 0)
  BY ONLY SeqFacts, es \in Seq(Records)
<1>2. ASSUME NEW n \in 1 .. Len(es)
      PROVE  /\ es[n] \in Records /\ es[n].kind = "Edit" /\ es[n].to \in Texts
             /\ Carries(es[n]) = es[n].to
             /\ es[n].from = IF n = 1 THEN t ELSE es[n - 1].to
  <2>1. es[n] \in Records
    BY ONLY SeqFacts, es \in Seq(Records), n \in 1 .. Len(es)
  <2>2. es[n].kind = "Edit" /\ es[n].from = IF n = 1 THEN t ELSE es[n - 1].to
    BY <1>1 DEF Chain
  <2>3. es[n].to \in Texts /\ Carries(es[n]) = es[n].to
    BY <2>1, <2>2, RecordKinds, CarriesFacts
  <2> QED
    BY <2>1, <2>2, <2>3
<1>3. CASE es = <<>>
  BY <1>2, <1>3 DEF End
<1>4. CASE es # <<>>
  <2>1. Len(es) \in 1 .. Len(es)
    BY <1>1, <1>4
  <2>2. es[Len(es)].to \in Texts
    BY <1>2, <2>1
  <2> QED
    BY <1>2, <1>4, <2>2, Names DEF End
<1> QED
  BY <1>3, <1>4

LEMMA EmptyChain ==
    ASSUME NEW t
    PROVE  Chain(<<>>, t) /\ End(<<>>, t) = t /\ <<>> \in Seq(Records) /\ Len(<<>>) = 0
BY DEF Chain, End

LEMMA ChainConcat ==
    ASSUME NEW es \in Seq(Records), NEW fs \in Seq(Records), NEW t \in MaybeTexts,
           Chain(es, t), Chain(fs, End(es, t))
    PROVE  Chain(es \o fs, t) /\ End(es \o fs, t) = End(fs, End(es, t))
<1>1. /\ Len(es) \in Nat /\ DOMAIN es = 1 .. Len(es) /\ (es = <<>> <=> Len(es) = 0)
      /\ Len(fs) \in Nat /\ DOMAIN fs = 1 .. Len(fs) /\ (fs = <<>> <=> Len(fs) = 0)
  BY ONLY SeqFacts, es \in Seq(Records), fs \in Seq(Records)
<1>2. PICK a \in Seq(Records) : a = es \o fs
  BY ConcatFacts
<1>3. /\ Len(a) = Len(es) + Len(fs)
      /\ \A i \in 1 .. Len(es) + Len(fs) : a[i] = IF i <= Len(es) THEN es[i] ELSE fs[i - Len(es)]
      /\ fs = <<>> => a = es
      /\ es = <<>> => a = fs
  BY ONLY <1>2, ConcatFacts, es \in Seq(Records), fs \in Seq(Records)
<1>4. DOMAIN a = 1 .. Len(a) /\ (a = <<>> <=> Len(a) = 0)
  BY ONLY SeqFacts, a \in Seq(Records)
<1>5. Chain(a, t)
  <2>1. SUFFICES ASSUME NEW n \in 1 .. Len(a)
                 PROVE  a[n].kind = "Edit" /\ a[n].from = IF n = 1 THEN t ELSE a[n - 1].to
    BY <1>4 DEF Chain
  <2>2. CASE n <= Len(es)
    <3>1. n \in 1 .. Len(es) /\ a[n] = es[n] /\ (n # 1 => a[n - 1] = es[n - 1])
      BY <1>1, <1>3, <2>2
    <3> QED
      BY <1>1, <3>1 DEF Chain
  <2>3. CASE n > Len(es)
    <3>1. PICK k \in 1 .. Len(fs) : k = n - Len(es)
      BY <1>1, <1>3, <2>3
    <3>2. a[n] = fs[k]
      BY <1>1, <1>3, <2>3, <3>1
    <3>3. fs[k].kind = "Edit" /\ fs[k].from = IF k = 1 THEN End(es, t) ELSE fs[k - 1].to
      BY <1>1 DEF Chain
    <3>4. CASE k # 1
      <4>1. a[n - 1] = fs[k - 1] /\ n # 1
        <5>1. /\ n # 1 /\ n - 1 \in 1 .. Len(es) + Len(fs) /\ ~(n - 1 <= Len(es))
              /\ (n - 1) - Len(es) = k - 1
          BY <1>1, <1>3, <2>3, <3>1, <3>4
        <5> QED
          BY ONLY <1>3, <5>1
      <4> QED
        BY <3>2, <3>3, <3>4, <4>1
    <3>5. CASE k = 1 /\ es = <<>>
      <4>1. n = 1
        BY <1>1, <3>1, <3>5
      <4> QED
        BY <3>2, <3>3, <3>5, <4>1 DEF End
    <3>6. CASE k = 1 /\ es # <<>>
      <4>1. n # 1 /\ n - 1 = Len(es) /\ a[n - 1] = es[Len(es)]
        BY <1>1, <1>3, <3>1, <3>6
      <4> QED
        BY <3>2, <3>3, <3>6, <4>1 DEF End
    <3> QED
      BY <3>4, <3>5, <3>6
  <2> QED
    BY <1>1, <1>3, <2>2, <2>3
<1>6. End(a, t) = End(fs, End(es, t))
  <2>1. CASE fs = <<>>
    BY <1>3, <2>1 DEF End
  <2>2. CASE fs # <<>>
    <3>1. a # <<>> /\ a[Len(a)] = fs[Len(fs)]
      BY <1>1, <1>3, <1>4, <2>2
    <3> QED
      BY <2>2, <3>1 DEF End
  <2> QED
    BY <2>1, <2>2
<1> QED
  BY <1>2, <1>5, <1>6

LEMMA ChainPrefix ==
    ASSUME NEW es \in Seq(Records), NEW t \in MaybeTexts, Chain(es, t), NEW k \in 0 .. Len(es)
    PROVE  /\ SubSeq(es, 1, k) \in Seq(Records) /\ Chain(SubSeq(es, 1, k), t)
           /\ Len(SubSeq(es, 1, k)) = k
           /\ End(SubSeq(es, 1, k), t) = t
              \/ \E n \in 1 .. Len(es) : End(SubSeq(es, 1, k), t) = es[n].to
<1>1. Len(es) \in Nat /\ DOMAIN es = 1 .. Len(es) /\ k \in Nat /\ k <= Len(es)
  BY SeqFacts
<1>2. PICK p \in Seq(Records) : p = SubSeq(es, 1, k)
  BY PrefixFacts
<1>3. Len(p) = k /\ \A i \in 1 .. k : p[i] = es[i]
  BY ONLY <1>2, PrefixFacts, es \in Seq(Records), k \in 0 .. Len(es)
<1>4. DOMAIN p = 1 .. k /\ (p = <<>> <=> k = 0)
  BY ONLY <1>3, SeqFacts, p \in Seq(Records)
<1>5. Chain(p, t)
  <2>1. SUFFICES ASSUME NEW n \in 1 .. k
                 PROVE  p[n].kind = "Edit" /\ p[n].from = IF n = 1 THEN t ELSE p[n - 1].to
    BY <1>4 DEF Chain
  <2>2. n \in 1 .. Len(es) /\ p[n] = es[n] /\ (n # 1 => p[n - 1] = es[n - 1])
    BY <1>1, <1>3
  <2> QED
    BY <1>1, <2>2 DEF Chain
<1>6. CASE k = 0
  BY <1>2, <1>3, <1>4, <1>5, <1>6 DEF End
<1>7. CASE k # 0
  <2>1. k \in 1 .. Len(es) /\ p[k] = es[k] /\ p # <<>>
    BY <1>1, <1>3, <1>4, <1>7
  <2>2. End(p, t) = es[k].to
    BY <1>3, <2>1 DEF End
  <2> QED
    BY <1>2, <1>3, <1>5, <2>1, <2>2
<1> QED
  BY <1>6, <1>7

----------------------------------------------------------------------------
(* Sound journals, extended.                                               *)
LEMMA SoundExtend ==
    ASSUME NEW j, Sound(j), NEW es \in Seq(Records), Chain(es, Tip(j))
    PROVE  /\ Sound(j \o es) /\ Tip(j \o es) = End(es, Tip(j)) /\ (j \o es)[1] = j[1]
           /\ Len(j \o es) = Len(j) + Len(es)
<1>1. /\ j \in Seq(Records) /\ Len(j) \in Nat \ {0} /\ j[1].kind = "Header"
      /\ Tip(j) \in MaybeTexts
  BY SoundFacts
<1>2. Len(es) \in Nat /\ DOMAIN es = 1 .. Len(es) /\ (es = <<>> <=> Len(es) = 0)
  BY ONLY SeqFacts, es \in Seq(Records)
<1>3. PICK a \in Seq(Records) : a = j \o es
  BY <1>1, ConcatFacts
<1>4. /\ Len(a) = Len(j) + Len(es)
      /\ \A i \in 1 .. Len(j) + Len(es) : a[i] = IF i <= Len(j) THEN j[i] ELSE es[i - Len(j)]
      /\ es = <<>> => a = j
  BY ONLY <1>1, <1>3, ConcatFacts, es \in Seq(Records)
<1>5. \A n \in 1 .. Len(es) :
          /\ es[n].kind = "Edit" /\ Carries(es[n]) = es[n].to
          /\ es[n].from = IF n = 1 THEN Tip(j) ELSE es[n - 1].to
  <2>1. PICK t \in MaybeTexts : t = Tip(j)
    BY <1>1
  <2> QED
    BY <2>1, ChainFacts
<1>6. a[1] = j[1] /\ Len(a) \in 1 .. Len(a)
  BY <1>1, <1>2, <1>4
<1>7. ASSUME NEW n \in 2 .. Len(a)
      PROVE  \/ a[n].kind = "Checkpoint"
             \/ a[n].kind = "Edit" /\ a[n].from = Carries(a[n - 1])
  <2>1. CASE n <= Len(j)
    <3>1. n \in 2 .. Len(j) /\ a[n] = j[n] /\ a[n - 1] = j[n - 1]
      BY <1>1, <1>2, <1>4, <2>1
    <3> QED
      BY <3>1 DEF Sound, SoundTo
  <2>2. CASE n > Len(j)
    <3>1. PICK k \in 1 .. Len(es) : k = n - Len(j)
      BY <1>1, <1>2, <1>4, <2>2
    <3>2. a[n] = es[k]
      BY <1>1, <1>2, <1>4, <2>2, <3>1
    <3>3. CASE k = 1
      <4>1. a[n - 1] = j[Len(j)]
        BY <1>1, <1>2, <1>4, <3>1, <3>3
      <4> QED
        BY <1>5, <3>2, <3>3, <4>1 DEF Tip
    <3>4. CASE k # 1
      <4>1. a[n - 1] = es[k - 1] /\ k - 1 \in 1 .. Len(es)
        BY <1>1, <1>2, <1>4, <3>1, <3>4
      <4> QED
        BY <1>5, <3>2, <3>4, <4>1
    <3> QED
      BY <3>3, <3>4
  <2> QED
    BY <1>1, <1>2, <1>4, <2>1, <2>2
<1>8. Sound(a)
  BY <1>1, <1>6, <1>7 DEF Sound, SoundTo
<1>9. Tip(a) = End(es, Tip(j))
  <2>1. CASE es = <<>>
    BY <1>4, <2>1 DEF End
  <2>2. CASE es # <<>>
    <3>1. a[Len(a)] = es[Len(es)] /\ Len(es) \in 1 .. Len(es)
      BY <1>1, <1>2, <1>4, <2>2
    <3> QED
      BY <1>5, <2>2, <3>1 DEF Tip, End
  <2> QED
    BY <2>1, <2>2
<1> QED
  BY <1>3, <1>4, <1>6, <1>8, <1>9

LEMMA SoundCheckpoint ==
    ASSUME NEW j, Sound(j), NEW t \in Texts
    PROVE  /\ Sound(Append(j, Checkpoint(t))) /\ Tip(Append(j, Checkpoint(t))) = t
           /\ Append(j, Checkpoint(t))[1] = j[1]
           /\ Append(j, Checkpoint(t))[Len(Append(j, Checkpoint(t)))] = Checkpoint(t)
           /\ Append(j, Checkpoint(t)) = j \o <<Checkpoint(t)>>
<1>1. /\ j \in Seq(Records) /\ Len(j) \in Nat \ {0} /\ j[1].kind = "Header"
  BY SoundFacts
<1>2. PICK c \in Records : c = Checkpoint(t) /\ c.kind = "Checkpoint" /\ Carries(c) = t
  BY RecordFacts, CarriesFacts
<1>3. PICK a \in Seq(Records) : a = Append(j, c)
  BY <1>1, AppendFacts
<1>4. /\ Len(a) = Len(j) + 1 /\ (\A i \in 1 .. Len(j) : a[i] = j[i]) /\ a[Len(j) + 1] = c
      /\ a = j \o <<c>>
  BY ONLY <1>1, <1>3, c \in Records, AppendFacts
<1>5. a[1] = j[1] /\ Len(a) \in 1 .. Len(a) /\ a[Len(a)] = c
  BY <1>1, <1>4
<1>6. ASSUME NEW n \in 2 .. Len(a)
      PROVE  \/ a[n].kind = "Checkpoint"
             \/ a[n].kind = "Edit" /\ a[n].from = Carries(a[n - 1])
  <2>1. CASE n = Len(a)
    BY <1>2, <1>5, <2>1
  <2>2. CASE n # Len(a)
    <3>1. n \in 2 .. Len(j) /\ a[n] = j[n] /\ a[n - 1] = j[n - 1]
      BY <1>1, <1>4, <2>2
    <3> QED
      BY <3>1 DEF Sound, SoundTo
  <2> QED
    BY <2>1, <2>2
<1>7. Sound(a) /\ Tip(a) = t
  BY <1>1, <1>2, <1>5, <1>6 DEF Sound, SoundTo, Tip
<1> QED
  BY <1>2, <1>3, <1>4, <1>5, <1>7

LEMMA SoundHeader ==
    ASSUME NEW b \in MaybeTexts
    PROVE  /\ Sound(<<Header(b, "self")>>) /\ Tip(<<Header(b, "self")>>) = b
           /\ <<Header(b, "self")>>[1].owner = "self"
<1>1. PICK h \in Records : h = Header(b, "self") /\ h.kind = "Header" /\ h.owner = "self"
                           /\ Carries(h) = b
  BY RecordFacts, CarriesFacts
<1>2. PICK a : a = <<h>>
  OBVIOUS
<1>a. a \in Seq(Records) /\ Len(a) = 1 /\ a[1] = h
  BY <1>2
<1>3. Sound(a) /\ Tip(a) = b /\ a[1].owner = "self"
  BY <1>1, <1>a DEF Sound, SoundTo, Tip
<1> QED
  BY <1>1, <1>2, <1>3

OwnSound(j) == Sound(j) /\ j[1].owner = "self"

LEMMA OwnFacts ==
    ASSUME NEW j, OwnSound(j)
    PROVE  Owned(j) /\ Exists(j) /\ Intact(j) = j /\ j \in Seq(Records) /\ Len(j) \in Nat
BY SoundFacts DEF OwnSound, Owned, HasHeader, Exists

LEMMA WholeFacts ==
    ASSUME NEW t \in Texts
    PROVE  /\ OwnSound(Whole(t)) /\ Tip(Whole(t)) = t
           /\ Whole(t)[Len(Whole(t))] = Checkpoint(t)
<1>1. PICK j : j = <<Header(None, "self")>>
  OBVIOUS
<1>2. Sound(j) /\ j[1].owner = "self"
  BY <1>1, Names, SoundHeader
<1>3. Whole(t) = Append(j, Checkpoint(t))
  BY <1>1 DEF Whole
<1> QED
  BY <1>2, <1>3, SoundCheckpoint DEF OwnSound

----------------------------------------------------------------------------
(* What the operations leave in the journal file.                          *)
LEMMA RecoveredFacts ==
    ASSUME NEW j \in Seq(Records), Readable(j), NEW d \in MaybeTexts
    PROVE  /\ Recovered(j, d) \in MaybeTexts
           /\ Sound(Intact(j)) /\ Head(j).base \in {None, d} => Recovered(j, d) = Tip(Intact(j))
           /\ Sound(Intact(j)) /\ Intact(j)[Len(Intact(j))].kind = "Checkpoint" =>
                 Recovered(j, d) = Tip(Intact(j))
<1>1. CASE Sound(Intact(j))
  <2>1. Tip(Intact(j)) \in MaybeTexts
    BY <1>1, SoundFacts
  <2> QED
    BY <1>1, <2>1, ReplayFacts, Names DEF Recovered
<1>2. CASE ~Sound(Intact(j)) /\ (j = Missing \/ j = <<>>)
  BY <1>2, EmptyReplay, Names DEF Recovered
<1> QED
  BY <1>1, <1>2 DEF Readable

LEMMA MissingFacts ==
    /\ Missing \in Seq(Records) /\ Readable(Missing) /\ ~Owned(Missing) /\ ~HasHeader(Missing)
    /\ <<>> \in Seq(Records) /\ Readable(<<>>) /\ ~Owned(<<>>) /\ ~HasHeader(<<>>)
<1>1. Missing \in Seq(Records) /\ <<>> \in Seq(Records)
  BY RecordFacts
<1> QED
  BY <1>1 DEF Readable, Owned, HasHeader, Exists

LEMMA OwnedIsSound ==
    ASSUME NEW j, Readable(j), HasHeader(j)
    PROVE  Sound(Intact(j))
BY DEF Readable, HasHeader, Exists

LEMMA DiscardedFacts ==
    ASSUME NEW j \in Seq(Records), Readable(j)
    PROVE  /\ Discarded(j) \in Seq(Records) /\ Readable(Discarded(j)) /\ ~Owned(Discarded(j))
           /\ Discarded(j) \in {j, Missing}
BY MissingFacts DEF Discarded

LEMMA OrphanedFacts ==
    ASSUME NEW j \in Seq(Records), Readable(j)
    PROVE  Orphaned(j) \in Seq(Records) /\ Readable(Orphaned(j)) /\ ~Owned(Orphaned(j))
<1>1. CASE ~Owned(j)
  BY <1>1 DEF Orphaned
<1>2. CASE Owned(j)
  <2>1. Sound(Intact(j))
    BY <1>2, OwnedIsSound DEF Owned
  <2>2. PICK i \in Seq(Records) : i = Intact(j)
    BY <2>1, SoundFacts
  <2>3. Len(j) \in Nat \ {0} /\ DOMAIN j = 1 .. Len(j) /\ j[1] \in Records /\ j[1].kind = "Header"
        /\ \A n \in 1 .. Len(j) : j[n] \in Records
    <3>1. Len(j) \in Nat \ {0} /\ Head(j) = i[1] /\ i[1].kind = "Header" /\ j # <<>>
      BY <2>1, <2>2, IntactFacts, SoundFacts, SeqFacts
    <3>2. Head(j) = j[1] /\ DOMAIN j = 1 .. Len(j) /\ \A n \in 1 .. Len(j) : j[n] \in Records
      BY ONLY <3>1, SeqFacts, j \in Seq(Records)
    <3> QED
      BY <3>1, <3>2
  <2>4. PICK h : h = [j[1] EXCEPT !.owner = "gone"]
    OBVIOUS
  <2>5. /\ h \in Records /\ h.kind = "Header" /\ h.owner = "gone" /\ h.base = j[1].base
        /\ Carries(h) = Carries(j[1])
    <3>1. PICK r \in [kind : {"Header"}, base : MaybeTexts, owner : {"self", "gone"}] : r = j[1]
      BY <2>3, RecordFacts DEF Records, Checkpoint, Edit, Torn, Missing
    <3>2. /\ h \in [kind : {"Header"}, base : MaybeTexts, owner : {"self", "gone"}]
          /\ h.kind = "Header" /\ h.owner = "gone" /\ h.base = j[1].base
      BY <2>4, <3>1
    <3>3. h \in Records
      BY <3>2 DEF Records
    <3> QED
      BY <2>3, <3>2, <3>3, CarriesFacts
  <2>6. PICK o : o = [j EXCEPT ![1] = h]
    OBVIOUS
  <2>7. Orphaned(j) = o
    BY <1>2, <2>4, <2>6 DEF Orphaned
  <2>8. /\ o \in Seq(Records) /\ Len(o) = Len(j) /\ o[1] = h
        /\ \A n \in 1 .. Len(j) : n # 1 => o[n] = j[n]
    BY ONLY <2>3, <2>5, <2>6, j \in Seq(Records)
  <2>9. \A n \in 1 .. Len(j) : Carries(o[n]) = Carries(j[n])
    BY <2>5, <2>8
  <2>10. o # Missing /\ o # <<>> /\ Head(o) = h
    BY <2>3, <2>5, <2>8, RecordFacts, SeqFacts
  <2>11. ~Owned(o)
    BY <2>5, <2>10 DEF Owned
  <2>12. ASSUME NEW m, SoundTo(j, m)
         PROVE  SoundTo(o, m)
    <3>1. m \in 1 .. Len(o) /\ o[1].kind = "Header"
      BY <2>5, <2>8, <2>12 DEF SoundTo
    <3>2. ASSUME NEW n \in 2 .. m
          PROVE  \/ o[n].kind = "Checkpoint"
                 \/ o[n].kind = "Edit" /\ o[n].from = Carries(o[n - 1])
      <4>1. n \in 1 .. Len(j) /\ n # 1 /\ n - 1 \in 1 .. Len(j)
        BY <2>3, <2>8, <3>1
      <4>2. o[n] = j[n] /\ Carries(o[n - 1]) = Carries(j[n - 1])
        BY <2>8, <2>9, <4>1
      <4> QED
        BY <2>12, <4>2 DEF SoundTo
    <3> QED
      BY <3>1, <3>2 DEF SoundTo
  <2>13. CASE Intact(j) = j /\ Sound(j)
    <3>1. Sound(o)
      BY <2>8, <2>12, <2>13 DEF Sound
    <3> QED
      BY <2>7, <2>8, <2>11, <3>1, SoundFacts DEF Readable
  <2>14. CASE j[Len(j)] = Torn /\ SoundTo(j, Len(j) - 1) /\ Len(j) - 1 \in Nat \ {0}
    <3>1. Len(j) # 1 /\ o[Len(o)] = Torn /\ Len(j) \in 1 .. Len(j)
      BY <2>3, <2>8, <2>14
    <3>2. PICK k \in 0 .. Len(o) : k = Len(j) - 1 /\ k \in Nat \ {0}
      BY <2>8, <2>14
    <3>3. PICK p \in Seq(Records) : p = SubSeq(o, 1, k)
      BY <2>8, PrefixFacts
    <3>4. Len(p) = k /\ \A n \in 1 .. k : p[n] = o[n]
      BY ONLY <3>3, <2>8, k \in 0 .. Len(o), PrefixFacts
    <3>5. SoundTo(o, k)
      BY <2>12, <2>14, <3>2
    <3>6. Sound(p)
      <4>1. Len(p) \in 1 .. Len(p) /\ p[1].kind = "Header"
        BY <3>2, <3>4, <3>5 DEF SoundTo
      <4>2. ASSUME NEW n \in 2 .. k
            PROVE  \/ p[n].kind = "Checkpoint"
                   \/ p[n].kind = "Edit" /\ p[n].from = Carries(p[n - 1])
        <5>1. p[n] = o[n] /\ p[n - 1] = o[n - 1]
          BY <3>2, <3>4
        <5> QED
          BY <3>5, <5>1 DEF SoundTo
      <4> QED
        BY <3>4, <4>1, <4>2 DEF Sound, SoundTo
    <3>7. Intact(o) = p
      BY <2>8, <2>10, <3>1, <3>2, <3>3 DEF Intact
    <3> QED
      BY <2>7, <2>8, <2>11, <3>6, <3>7 DEF Readable
  <2> QED
    BY <2>1, <2>13, <2>14, IntactFacts
<1> QED
  BY <1>1, <1>2

(* What an interrupted append leaves.                                      *)
LEMMA PartFacts ==
    ASSUME NEW j, Sound(j), NEW es \in Seq(Records), Chain(es, Tip(j)),
           NEW a \in PartAppended(j, es)
    PROVE  /\ a \in Seq(Records) /\ Readable(a) /\ Sound(Intact(a)) /\ Head(a) = j[1]
           /\ Len(a) = Len(j) => a = j
           /\ \/ Tip(Intact(a)) = Tip(j)
              \/ \E n \in 1 .. Len(es) : Tip(Intact(a)) = es[n].to
<1>1. /\ j \in Seq(Records) /\ Len(j) \in Nat \ {0} /\ Tip(j) \in MaybeTexts
  BY SoundFacts
<1>2. Len(es) \in Nat
  BY SeqFacts
<1>3. PICK k \in 0 .. Len(es) :
          a = j \o SubSeq(es, 1, k) \/ a = (j \o SubSeq(es, 1, k)) \o <<Torn>>
  <2>1. CASE a \in {j \o SubSeq(es, 1, k) : k \in 0 .. Len(es)}
    BY <2>1
  <2>2. CASE a \in {(j \o SubSeq(es, 1, k)) \o <<Torn>> : k \in 0 .. Len(es) - 1}
    <3>1. PICK k \in 0 .. Len(es) - 1 : a = (j \o SubSeq(es, 1, k)) \o <<Torn>>
      BY <2>2
    <3>2. k \in 0 .. Len(es)
      BY <1>2
    <3> QED
      BY <3>1, <3>2
  <2> QED
    BY <2>1, <2>2 DEF PartAppended
<1>4. PICK t \in MaybeTexts : t = Tip(j)
  BY <1>1
<1>5. PICK p \in Seq(Records) : p = SubSeq(es, 1, k)
  BY PrefixFacts
<1>6. Chain(p, t) /\ Len(p) = k /\ (End(p, t) = t \/ \E n \in 1 .. Len(es) : End(p, t) = es[n].to)
  BY ONLY <1>4, <1>5, ChainPrefix, Chain(es, Tip(j)), es \in Seq(Records), k \in 0 .. Len(es),
          t \in MaybeTexts
<1>7. PICK b : b = j \o p
  OBVIOUS
<1>8. Sound(b) /\ Tip(b) = End(p, t) /\ b[1] = j[1] /\ Len(b) = Len(j) + k
  BY <1>4, <1>6, <1>7, SoundExtend
<1>9. k \in Nat /\ (k = 0 => b = j)
  BY <1>1, <1>2, <1>5, <1>7, PrefixFacts, ConcatFacts
<1>10. CASE a = b
  <2>1. a \in Seq(Records) /\ Intact(a) = a /\ Head(a) = a[1]
    BY <1>8, <1>10, SoundFacts
  <2>2. Len(a) = Len(j) => a = j
    BY <1>1, <1>8, <1>9, <1>10
  <2> QED
    BY <1>4, <1>6, <1>8, <1>10, <2>1, <2>2 DEF Readable
<1>11. CASE a = b \o <<Torn>>
  <2>1. a \in Seq(Records) /\ Intact(a) = b /\ Head(a) = b[1]
    BY <1>8, <1>11, TornIsCut
  <2>2. Len(a) # Len(j)
    <3>1. b \in Seq(Records) /\ Len(a) = Len(b) + 1
      <4>1. b \in Seq(Records) /\ Torn \in Records
        BY <1>8, SoundFacts, RecordFacts
      <4>2. a = Append(b, Torn)
        BY ONLY <1>11, <4>1, AppendFacts
      <4> QED
        BY ONLY <4>1, <4>2, AppendFacts
    <3> QED
      BY <1>1, <1>8, <1>9, <3>1
  <2> QED
    BY <1>4, <1>6, <1>8, <2>1, <2>2 DEF Readable
<1> QED
  BY <1>3, <1>5, <1>7, <1>10, <1>11

----------------------------------------------------------------------------
(* Every step keeps the invariant.  First the steps of the document.       *)
LEMMA Typed ==
    ASSUME TypeOK
    PROVE  /\ text \in Texts /\ disk \in Texts /\ saved \in Texts /\ modified \in BOOLEAN
           /\ log \in [lost : BOOLEAN, entries : Seq(Records)]
           /\ log.lost \in BOOLEAN /\ log.entries \in Seq(Records) /\ Len(log.entries) <= LogCap
           /\ base \in MaybeTexts /\ safe \in MaybeTexts
           /\ published.text \in MaybeTexts /\ published.modified \in BOOLEAN
           /\ pending \in Seq(Records) /\ journal \in Seq(Records)
           /\ rewrite \in BOOLEAN
BY DEF TypeOK

LEMMA LogFacts ==
    /\ Drained \in [lost : BOOLEAN, entries : Seq(Records)] /\ Drained.entries = <<>>
    /\ Drained.lost = FALSE
    /\ Lost \in [lost : BOOLEAN, entries : Seq(Records)] /\ Lost.entries = <<>>
    /\ Lost.lost = TRUE
    /\ Len(<<>>) = 0 /\ 0 <= LogCap /\ 0 <= PendingCap
BY ConstantsAssumption DEF Drained, Lost

LEMMA NotHeldFacts ==
    NotHeld.base = None /\ NotHeld.ready = FALSE
BY DEF NotHeld

(* A change is one more edit in the log, unless the log is lost.           *)
LEMMA LoggedFacts ==
    ASSUME IInv, NEW t \in Texts, NEW fits \in BOOLEAN
    PROVE  LET l == Logged(Edit(text, t), fits)
           IN  /\ l \in [lost : BOOLEAN, entries : Seq(Records)] /\ Len(l.entries) <= LogCap
               /\ l.lost => l.entries = <<>>
               /\ ~l.lost =>
                     /\ ~log.lost /\ l.entries # <<>> /\ l.entries[1].from = Base
                     /\ Chain(l.entries, Base) /\ End(l.entries, Base) = t
                     /\ \A n \in DOMAIN l.entries :
                           l.entries[n].to = t \/ (n \in DOMAIN log.entries /\ l.entries[n] = log.entries[n])
<1> USE DEF IInv
<1>1. /\ text \in Texts /\ log.entries \in Seq(Records) /\ Len(log.entries) <= LogCap
      /\ Chain(log.entries, Base) /\ End(log.entries, Base) = text
      /\ log \in [lost : BOOLEAN, entries : Seq(Records)]
  BY Typed DEF LogInv
<1>2. CASE log.lost \/ ~fits \/ Len(log.entries) = LogCap
  BY <1>2, LogFacts DEF Logged
<1>3. CASE ~(log.lost \/ ~fits \/ Len(log.entries) = LogCap)
  <2>1. PICK e \in Records : e = Edit(text, t) /\ e.kind = "Edit" /\ e.from = text /\ e.to = t
    BY <1>1, RecordFacts
  <2>2. PICK es \in Seq(Records) : es = log.entries
    BY <1>1
  <2>3. PICK a \in Seq(Records) : a = Append(es, e)
    BY AppendFacts
  <2>4. PICK l : l = Logged(Edit(text, t), fits)
    OBVIOUS
  <2>5. /\ l \in [lost : BOOLEAN, entries : Seq(Records)] /\ l.entries = a
        /\ l.lost = log.lost
    BY <1>1, <1>3, <2>1, <2>2, <2>3, <2>4 DEF Logged
  <2>6. /\ Len(a) = Len(es) + 1 /\ (\A i \in 1 .. Len(es) : a[i] = es[i]) /\ a[Len(es) + 1] = e
        /\ a = es \o <<e>>
    BY ONLY <2>3, AppendFacts, es \in Seq(Records), e \in Records
  <2>7. /\ Len(es) \in Nat /\ DOMAIN es = 1 .. Len(es) /\ (es = <<>> <=> Len(es) = 0)
        /\ DOMAIN a = 1 .. Len(a)
    BY ONLY SeqFacts, es \in Seq(Records), a \in Seq(Records)
  <2>8. a # <<>> /\ Len(a) <= LogCap
    BY <1>1, <1>3, <2>2, <2>6, <2>7, ConstantsAssumption
  <2>9. Base \in MaybeTexts /\ a[1].from = Base
    <3>1. CASE es = <<>>
      BY <1>1, <2>1, <2>2, <2>6, <2>7, <3>1, Names DEF Base
    <3>2. CASE es # <<>>
      <4>1. a[1] = es[1] /\ 1 \in DOMAIN es /\ es[1] \in Records
        BY <2>6, <2>7, <3>2, SeqFacts
      <4>2. es[1].kind = "Edit"
        BY <1>1, <2>2, <4>1 DEF Chain
      <4> QED
        BY <2>2, <3>2, <4>1, <4>2, RecordKinds, Names DEF Base
    <3> QED
      BY <3>1, <3>2
  <2>10. Chain(<<e>>, text) /\ End(<<e>>, text) = t /\ <<e>> \in Seq(Records)
    BY <2>1 DEF Chain, End
  <2>11. Chain(a, Base) /\ End(a, Base) = t
    <3>1. PICK b \in MaybeTexts, f \in Seq(Records) : b = Base /\ f = <<e>>
      BY <2>9, <2>10
    <3>2. Chain(es, b) /\ End(es, b) = text /\ Chain(f, text) /\ End(f, text) = t
      BY <1>1, <2>2, <2>10, <3>1
    <3> QED
      <4>1. Chain(f, End(es, b))
        BY ONLY <3>2
      <4>2. Chain(es \o f, b) /\ End(es \o f, b) = End(f, End(es, b))
        BY ONLY <3>2, <4>1, ChainConcat, es \in Seq(Records), f \in Seq(Records), b \in MaybeTexts
      <4> QED
        BY ONLY <2>6, <3>1, <3>2, <4>2
  <2>12. ASSUME NEW n \in DOMAIN a
         PROVE  a[n].to = t \/ (n \in DOMAIN es /\ a[n] = es[n])
    <3>1. n = Len(es) + 1 \/ n \in 1 .. Len(es)
      BY ONLY <2>6, <2>7, n \in DOMAIN a
    <3>2. CASE n = Len(es) + 1
      <4>1. a[n] = e
        BY <2>6, <3>2
      <4> QED
        BY <2>1, <4>1
    <3>3. CASE n \in 1 .. Len(es)
      BY ONLY <2>6, <2>7, <3>3
    <3> QED
      BY <3>1, <3>2, <3>3
  <2> QED
    BY <1>3, <2>2, <2>4, <2>5, <2>8, <2>9, <2>11, <2>12
<1> QED
  BY <1>2, <1>3

LEMMA ChangeStep ==
    ASSUME IInv, NEW t \in Texts, NEW fits \in BOOLEAN, Change(t, fits)
    PROVE  IInv'
<1> USE DEF IInv
<1>1. /\ alive /\ phase = "input" /\ text' = t /\ phase' \in {"input", "frame"}
      /\ modified' \in BOOLEAN
      /\ UNCHANGED <<disk, saved, alive, journaling, attached, published, writerVars,
                     journal, safe, tampered, rescued>>
      /\ recent' = IF safe = None THEN {} ELSE recent \cup {t}
  BY DEF Change, EndCommand
<1>2. UNCHANGED <<state, rewrite, base, pending, pending_changes, last_change, on_disk,
                  since_checkpoint, large, held>>
  BY <1>1 DEF writerVars
<1>3. /\ log' \in [lost : BOOLEAN, entries : Seq(Records)] /\ Len(log'.entries) <= LogCap
      /\ log'.lost => log'.entries = <<>>
      /\ ~log'.lost =>
            /\ ~log.lost /\ log'.entries # <<>> /\ log'.entries[1].from = Base
            /\ Chain(log'.entries, Base) /\ End(log'.entries, Base) = t
            /\ \A n \in DOMAIN log'.entries :
                  log'.entries[n].to = t \/ (n \in DOMAIN log.entries /\ log'.entries[n] = log.entries[n])
  BY LoggedFacts DEF Change
<1>4. ~log'.lost => Base' = Base /\ ~log.lost
  BY <1>3 DEF Base
<1>5. TypeOK'
  BY <1>1, <1>2, <1>3 DEF TypeOK
<1>6. JournalInv'
  BY <1>1 DEF JournalInv
<1>7. LogInv'
  <2>1. CASE log'.lost
    BY <1>1, <1>3, <2>1, EmptyChain DEF LogInv, Base
  <2>2. CASE ~log'.lost
    BY <1>1, <1>3, <1>4, <2>2 DEF LogInv
  <2> QED
    BY <2>1, <2>2
<1>8. WriterInv'
  BY <1>1, <1>2, <1>4 DEF WriterInv, AsLeft
<1>9. SessionInv'
  BY <1>1, <1>2 DEF SessionInv
<1>10. SafeInv'
  <2>1. SUFFICES ASSUME safe # None
                 PROVE  SafeInv'
    BY <1>1 DEF SafeInv
  <2>2. recent' = recent \cup {t}
    BY <1>1, <2>1
  <2>3. \A n \in DOMAIN log'.entries : log'.entries[n].to \in recent'
    BY <1>3, <2>1, <2>2 DEF SafeInv
  <2> QED
    BY <1>1, <1>2, <2>1, <2>2, <2>3 DEF SafeInv
<1>11. RescuedInv'
  BY <1>1 DEF SessionInv, RescuedInv
<1> QED
  BY <1>5, <1>6, <1>7, <1>8, <1>9, <1>10, <1>11

(* What a save, a reload and a quit do to the journal.                     *)
LEMMA WriterKept ==
    ASSUME IInv, UNCHANGED <<state, rewrite, base, pending, on_disk, held>>,
           journal' \in {journal, Missing},
           ~log'.lost => ~log.lost /\ Base' = Base
    PROVE  WriterInv'
<1>1. WriterInv
  BY DEF IInv
<1>2. AsLeft' => AsLeft /\ journal' = journal
  BY DEF AsLeft, Exists
<1> QED
  BY <1>1, <1>2 DEF WriterInv

LEMMA SaveStep ==
    ASSUME IInv, Save
    PROVE  IInv'
<1> USE DEF IInv
<1>1. /\ alive /\ phase = "input" /\ phase' \in {"input", "frame"}
      /\ disk' = text /\ saved' = text /\ modified' = FALSE
      /\ UNCHANGED <<text, log, alive, journaling, attached, published, writerVars, rescued>>
      /\ safe' = None /\ recent' = {} /\ tampered' = FALSE
  BY DEF Save, EndCommand, NothingAtStake
<1>2. UNCHANGED <<state, rewrite, base, pending, pending_changes, last_change, on_disk,
                  since_checkpoint, large, held>>
  BY <1>1 DEF writerVars
<1>3. /\ journal' \in Seq(Records) /\ Readable(journal') /\ ~Owned(journal')
      /\ journal' \in {journal, Missing}
  BY Typed, DiscardedFacts DEF Save, JournalInv
<1>4. Base' = Base
  BY <1>1 DEF Base
<1>5. TypeOK'
  BY <1>1, <1>2, <1>3, Names DEF TypeOK
<1>6. JournalInv'
  BY <1>3 DEF JournalInv
<1>7. LogInv'
  BY <1>1, <1>4 DEF LogInv
<1>8. WriterInv'
  BY <1>1, <1>2, <1>3, <1>4, WriterKept
<1>9. SessionInv'
  BY <1>1, <1>2, <1>3 DEF SessionInv
<1>10. SafeInv' /\ RescuedInv'
  BY <1>1 DEF SafeInv, SessionInv, RescuedInv
<1> QED
  BY <1>5, <1>6, <1>7, <1>8, <1>9, <1>10

LEMMA SaveUnprovenStep ==
    ASSUME IInv, SaveUnproven
    PROVE  IInv'
<1> USE DEF IInv
<1>1. /\ alive /\ phase = "input" /\ phase' \in {"input", "frame"} /\ disk' = text
      /\ UNCHANGED <<text, modified, log, saved, alive, journaling, attached, published,
                     writerVars, journal, ghostVars>>
  BY DEF SaveUnproven, EndCommand
<1>2. UNCHANGED <<state, rewrite, base, pending, pending_changes, last_change, on_disk,
                  since_checkpoint, large, held, safe, recent, tampered, rescued>>
  BY <1>1 DEF writerVars, ghostVars
<1>4. Base' = Base
  BY <1>1 DEF Base
<1>5. TypeOK'
  BY <1>1, <1>2 DEF TypeOK
<1>6. JournalInv'
  BY <1>1 DEF JournalInv
<1>7. LogInv'
  BY <1>1, <1>4 DEF LogInv
<1>8. WriterInv'
  BY <1>1, <1>2, <1>4, WriterKept, Typed
<1>9. SessionInv'
  BY <1>1, <1>2 DEF SessionInv
<1>10. SafeInv'
  BY <1>1, <1>2 DEF SafeInv
<1>11. RescuedInv'
  BY <1>1, <1>2 DEF SessionInv, RescuedInv
<1> QED
  BY <1>5, <1>6, <1>7, <1>8, <1>9, <1>10, <1>11

LEMMA ReloadStep ==
    ASSUME IInv, Reload
    PROVE  IInv'
<1> USE DEF IInv
<1>1. /\ alive /\ phase = "input" /\ phase' \in {"input", "frame"}
      /\ text' = disk /\ saved' = disk /\ modified' = FALSE /\ log' = Lost
      /\ UNCHANGED <<disk, alive, journaling, attached, published, writerVars, rescued>>
      /\ safe' = None /\ recent' = {} /\ tampered' = FALSE
  BY DEF Reload, EndCommand, NothingAtStake
<1>2. UNCHANGED <<state, rewrite, base, pending, pending_changes, last_change, on_disk,
                  since_checkpoint, large, held>>
  BY <1>1 DEF writerVars
<1>3. /\ journal' \in Seq(Records) /\ Readable(journal') /\ ~Owned(journal')
      /\ journal' \in {journal, Missing}
  BY Typed, DiscardedFacts DEF Reload, JournalInv
<1>4. /\ log'.entries = <<>> /\ log'.lost = TRUE
      /\ log' \in [lost : BOOLEAN, entries : Seq(Records)] /\ Len(log'.entries) <= LogCap
  BY <1>1, LogFacts
<1>5. TypeOK'
  BY <1>1, <1>2, <1>3, <1>4, Names DEF TypeOK
<1>6. JournalInv'
  BY <1>3 DEF JournalInv
<1>7. LogInv'
  BY <1>1, <1>4, EmptyChain DEF LogInv, Base
<1>8. WriterInv'
  <2>1. ~log'.lost => ~log.lost /\ Base' = Base
    BY <1>4
  <2>2. UNCHANGED <<state, rewrite, base, pending, on_disk, held>>
    BY <1>2
  <2> QED
    BY ONLY <1>3, <2>1, <2>2, IInv, WriterKept
<1>9. SessionInv'
  BY <1>1, <1>2, <1>3 DEF SessionInv
<1>10. SafeInv' /\ RescuedInv'
  BY <1>1 DEF SafeInv, SessionInv, RescuedInv
<1> QED
  BY <1>5, <1>6, <1>7, <1>8, <1>9, <1>10

LEMMA SetSwapFileStep ==
    ASSUME IInv, SetSwapFile
    PROVE  IInv'
<1> USE DEF IInv
<1>1. /\ alive /\ phase = "input" /\ phase' \in {"input", "frame"} /\ journaling' = ~journaling
      /\ UNCHANGED <<docVars, alive, attached, published, writerVars, journal, ghostVars>>
  BY DEF SetSwapFile, EndCommand
<1>2. UNCHANGED <<text, modified, log, disk, saved, state, rewrite, base, pending,
                  pending_changes, last_change, on_disk, since_checkpoint, large, held,
                  safe, recent, tampered, rescued>>
  BY <1>1 DEF docVars, writerVars, ghostVars
<1>4. Base' = Base
  BY <1>2 DEF Base
<1>5. TypeOK'
  BY <1>1, <1>2 DEF TypeOK
<1>6. JournalInv'
  BY <1>1 DEF JournalInv
<1>7. LogInv'
  BY <1>1, <1>2, <1>4 DEF LogInv
<1>8. WriterInv'
  BY <1>1, <1>2, <1>4, WriterKept, Typed
<1>9. SessionInv'
  BY <1>1, <1>2 DEF SessionInv
<1>10. SafeInv'
  BY <1>1, <1>2 DEF SafeInv
<1>11. RescuedInv'
  BY <1>1, <1>2 DEF SessionInv, RescuedInv
<1> QED
  BY <1>5, <1>6, <1>7, <1>8, <1>9, <1>10, <1>11

LEMMA TamperStep ==
    ASSUME IInv, Tamper
    PROVE  IInv'
<1> USE DEF IInv
<1>1. /\ alive /\ phase = "input" /\ journal' = Missing /\ tampered' = TRUE
      /\ UNCHANGED <<docVars, sessionVars, writerVars, safe, recent, rescued>>
  BY DEF Tamper
<1>2. UNCHANGED <<text, modified, log, disk, saved, state, rewrite, base, pending,
                  pending_changes, last_change, on_disk, since_checkpoint, large, held,
                  safe, recent, rescued, alive, phase, journaling, attached, published>>
  BY <1>1 DEF docVars, writerVars, sessionVars
<1>4. Base' = Base
  BY <1>2 DEF Base
<1>5. TypeOK'
  BY <1>1, <1>2, MissingFacts DEF TypeOK
<1>6. JournalInv'
  BY <1>1, MissingFacts DEF JournalInv
<1>7. LogInv'
  BY <1>1, <1>2, <1>4 DEF LogInv
<1>8. WriterInv'
  BY <1>1, <1>2, <1>4, WriterKept, Typed
<1>9. SessionInv'
  BY <1>1, <1>2, MissingFacts DEF SessionInv
<1>10. SafeInv'
  BY <1>1, <1>2 DEF SafeInv
<1>11. RescuedInv'
  BY <1>1, <1>2 DEF SessionInv, RescuedInv
<1> QED
  BY <1>5, <1>6, <1>7, <1>8, <1>9, <1>10, <1>11

LEMMA IdleElapsesStep ==
    ASSUME IInv, IdleElapses
    PROVE  IInv'
<1> USE DEF IInv
<1>1. /\ alive /\ last_change' = "Elapsed"
      /\ UNCHANGED <<docVars, sessionVars, state, rewrite, base, pending, pending_changes,
                     on_disk, since_checkpoint, large, held, journal, ghostVars>>
  BY DEF IdleElapses
<1>2. UNCHANGED <<text, modified, log, disk, saved, safe, recent, tampered, rescued,
                  alive, phase, journaling, attached, published>>
  BY <1>1 DEF docVars, sessionVars, ghostVars
<1>4. Base' = Base
  BY <1>2 DEF Base
<1>5. TypeOK'
  BY <1>1, <1>2 DEF TypeOK
<1>6. JournalInv'
  BY <1>1 DEF JournalInv
<1>7. LogInv'
  BY <1>1, <1>2, <1>4 DEF LogInv
<1>8. WriterInv'
  BY <1>1, <1>2, <1>4, WriterKept, Typed
<1>9. SessionInv'
  BY <1>1, <1>2 DEF SessionInv
<1>10. SafeInv'
  BY <1>1, <1>2 DEF SafeInv
<1>11. RescuedInv'
  BY <1>1, <1>2 DEF SessionInv, RescuedInv
<1> QED
  BY <1>5, <1>6, <1>7, <1>8, <1>9, <1>10, <1>11

LEMMA HashFinishesStep ==
    ASSUME IInv, HashFinishes
    PROVE  IInv'
<1> USE DEF IInv
<1>1. /\ alive /\ held # NotHeld /\ held' = [held EXCEPT !.ready = TRUE]
      /\ UNCHANGED <<docVars, sessionVars, state, rewrite, base, pending, pending_changes,
                     last_change, on_disk, since_checkpoint, large, journal, ghostVars>>
  BY DEF HashFinishes
<1>2. UNCHANGED <<text, modified, log, disk, saved, safe, recent, tampered, rescued,
                  alive, phase, journaling, attached, published>>
  BY <1>1 DEF docVars, sessionVars, ghostVars
<1>3. /\ held' \in [base : LargeTexts, ready : BOOLEAN] /\ held'.base = held.base
      /\ held' # NotHeld
  <2>1. held \in [base : LargeTexts, ready : BOOLEAN]
    BY <1>1 DEF TypeOK
  <2>2. held' \in [base : LargeTexts, ready : BOOLEAN] /\ held'.base = held.base /\ held'.ready = TRUE
    BY <1>1, <2>1
  <2> QED
    BY <2>2, NotHeldFacts
<1>4. Base' = Base
  BY <1>2 DEF Base
<1>5. TypeOK'
  BY <1>1, <1>2, <1>3 DEF TypeOK
<1>6. JournalInv'
  BY <1>1 DEF JournalInv
<1>7. LogInv'
  BY <1>1, <1>2, <1>4 DEF LogInv
<1>8. WriterInv'
  BY <1>1, <1>2, <1>3, <1>4 DEF WriterInv, AsLeft
<1>9. SessionInv'
  BY <1>1, <1>2 DEF SessionInv
<1>10. SafeInv'
  BY <1>1, <1>2 DEF SafeInv
<1>11. RescuedInv'
  BY <1>1, <1>2 DEF SessionInv, RescuedInv
<1> QED
  BY <1>5, <1>6, <1>7, <1>8, <1>9, <1>10, <1>11

----------------------------------------------------------------------------
(* The ends of a session: all but the journal is as a start would find it. *)
LEMMA Ended ==
    ASSUME IInv, Dies, journal' \in Seq(Records), Readable(journal'),
           rescued' \in {"No", "Part", "Yes"}, SafeInv', RescuedInv',
           safe' \in MaybeTexts, recent' \subseteq Texts, tampered' \in BOOLEAN
    PROVE  IInv'
<1> USE DEF IInv
<1>1. /\ alive' = FALSE /\ phase' = "frame" /\ journaling' = TRUE /\ attached' = FALSE
      /\ log' = Lost /\ base' = None /\ large' = FALSE
      /\ state' = "Idle" /\ rewrite' = FALSE /\ held' = NotHeld /\ pending' = <<>>
      /\ pending_changes' = 0 /\ last_change' = None /\ on_disk' = 0 /\ since_checkpoint' = 0
      /\ UNCHANGED <<text, modified, disk, saved, published>>
  BY DEF Dies, NewWriter, ForgetJournal
<1>2. /\ log'.entries = <<>> /\ log'.lost = TRUE
      /\ log' \in [lost : BOOLEAN, entries : Seq(Records)] /\ Len(log'.entries) <= LogCap
      /\ Len(pending') <= PendingCap /\ pending' \in Seq(Records)
  BY <1>1, LogFacts, EmptyChain
<1>3. TypeOK'
  <2>1. 0 \in 0 .. SyncEvery /\ 0 \in 0 .. CompactAfter + 1
    BY ConstantsAssumption
  <2>2. /\ {text, disk, saved} \subseteq Texts /\ modified \in BOOLEAN
        /\ published \in [text : MaybeTexts, modified : BOOLEAN]
    BY DEF TypeOK
  <2>3. {base, safe}' \subseteq MaybeTexts
    BY <1>1, Names
  <2> QED
    BY <1>1, <1>2, <2>1, <2>2, <2>3 DEF TypeOK
<1>4. JournalInv'
  BY DEF JournalInv
<1>5. LogInv'
  BY <1>1, <1>2, EmptyChain DEF LogInv, Base
<1>6. WriterInv'
  BY <1>1, <1>2 DEF WriterInv
<1>7. SessionInv'
  BY <1>1 DEF SessionInv
<1> QED
  BY <1>3, <1>4, <1>5, <1>6, <1>7

(* What is at stake when a session ends is at stake in the journal alone.  *)
LEMMA StakeEnds ==
    ASSUME IInv, Dies, UNCHANGED <<safe, recent, tampered>>,
           safe # None /\ ~tampered =>
              /\ Sound(Intact(journal'))
              /\ \/ Tip(Intact(journal')) \in recent
                 \/ rescued' # "No" /\ Tip(Intact(journal')) = published.text
    PROVE  SafeInv'
<1>1. /\ text' = text /\ published' = published /\ state' = "Idle" /\ base' = None
      /\ pending' = <<>> /\ log'.entries = <<>>
  BY LogFacts DEF Dies, NewWriter, ForgetJournal
<1> QED
  BY <1>1 DEF IInv, SafeInv

LEMMA CrashStep ==
    ASSUME IInv, Crash
    PROVE  IInv'
<1>1. Dies /\ UNCHANGED <<journal, safe, recent, tampered, rescued>> /\ alive /\ rescued = "No"
  BY DEF Crash, ghostVars, Dies, IInv, SessionInv
<1>2. SafeInv'
  BY <1>1, StakeEnds DEF IInv, SafeInv
<1>3. RescuedInv'
  BY <1>1 DEF RescuedInv
<1> QED
  BY <1>1, <1>2, <1>3, Ended DEF IInv, TypeOK, JournalInv

LEMMA QuitStep ==
    ASSUME IInv, Quit
    PROVE  IInv'
<1>1. /\ Dies /\ safe' = None /\ recent' = {} /\ tampered' = FALSE
      /\ rescued' = rescued /\ rescued = "No"
  BY DEF Quit, NothingAtStake, Dies, IInv, SessionInv
<1>2. journal' \in Seq(Records) /\ Readable(journal')
  BY Typed, DiscardedFacts DEF Quit, IInv, JournalInv
<1>3. SafeInv' /\ RescuedInv'
  BY <1>1 DEF SafeInv, RescuedInv
<1> QED
  BY <1>1, <1>2, <1>3, Names, Ended

(* A journal of this process is rescued in place.                          *)
LEMMA RescueFacts ==
    ASSUME IInv, RescueAppends
    PROVE  /\ RescueKeeps = Intact(journal) /\ Sound(Intact(journal))
<1>1. journal \in Seq(Records) /\ Readable(journal) /\ HasHeader(journal)
  BY Typed DEF IInv, JournalInv, RescueAppends, Owned
<1>2. Sound(Intact(journal))
  BY <1>1, OwnedIsSound
<1>3. RescueReplay.last_good = Len(Intact(journal))
  BY <1>1, <1>2, Names, ReplayFacts DEF RescueReplay
<1>4. Intact(journal) = SubSeq(journal, 1, Len(Intact(journal)))
  <2>1. CASE Intact(journal) = journal
    BY <1>1, <2>1, PrefixFacts, SeqFacts
  <2>2. CASE Intact(journal) # journal
    BY <1>1, <1>2, <2>2, IntactFacts
  <2> QED
    BY <2>1, <2>2
<1> QED
  BY <1>2, <1>3, <1>4 DEF RescueKeeps

LEMMA RescueStep ==
    ASSUME IInv, Rescue
    PROVE  IInv'
<1>1. /\ Dies /\ UNCHANGED <<safe, recent, tampered>> /\ rescued = "No"
      /\ published' = published
  BY DEF Rescue, Dies, IInv, SessionInv
<1>2. CASE ~published.modified
  <2>1. UNCHANGED <<journal, rescued>>
    BY <1>2 DEF Rescue
  <2>2. SafeInv'
    BY <1>1, <2>1, StakeEnds DEF IInv, SafeInv
  <2>3. RescuedInv'
    BY <1>1, <2>1 DEF RescuedInv
  <2> QED
    BY <1>1, <2>1, <2>2, <2>3, Ended DEF IInv, TypeOK, JournalInv
<1>3. CASE published.modified
  <2>1. PICK t \in Texts : t = published.text
    BY <1>3, Typed, Names DEF IInv, SessionInv
  <2>2. rescued' = "Yes"
    BY <1>3 DEF Rescue
  <2>3. Sound(journal') /\ Tip(journal') = t /\ journal'[Len(journal')] = Checkpoint(t)
    <3>1. CASE RescueAppends
      <4>1. journal' = Append(Intact(journal), Checkpoint(t)) /\ Sound(Intact(journal))
        BY <1>3, <2>1, <3>1, RescueFacts DEF Rescue
      <4>2. PICK i : i = Intact(journal)
        OBVIOUS
      <4> QED
        BY <4>1, <4>2, SoundCheckpoint
    <3>2. CASE ~RescueAppends
      <4>1. journal' = Whole(t)
        BY <1>3, <2>1, <3>2 DEF Rescue
      <4> QED
        BY <4>1, WholeFacts DEF OwnSound
    <3> QED
      BY <3>1, <3>2
  <2>4. journal' \in Seq(Records) /\ Readable(journal') /\ Intact(journal') = journal'
    BY <2>3, SoundFacts DEF Readable
  <2>5. SafeInv'
    BY <1>1, <2>1, <2>2, <2>3, <2>4, StakeEnds
  <2>6. RescuedInv'
    BY <1>1, <2>1, <2>3 DEF RescuedInv
  <2> QED
    BY <1>1, <2>2, <2>4, <2>5, <2>6, Ended DEF IInv, TypeOK
<1> QED
  BY <1>2, <1>3

LEMMA RescueFailsStep ==
    ASSUME IInv, RescueFails
    PROVE  IInv'
<1>1. /\ Dies /\ UNCHANGED <<safe, recent, tampered>> /\ rescued = "No" /\ rescued' = "Part"
      /\ published' = published
  BY DEF RescueFails, Dies, IInv, SessionInv
<1>2. PICK t \in Texts : t = published.text
  BY Typed, Names DEF IInv, SessionInv, RescueFails
<1>3. journal \in Seq(Records) /\ Readable(journal)
  BY Typed DEF IInv, JournalInv
<1>4. /\ journal' \in Seq(Records) /\ Readable(journal')
      /\ \/ journal' = journal
         \/ journal' = <<>> /\ journal = Missing
         \/ Sound(Intact(journal')) /\ Tip(Intact(journal')) = t
         \/ /\ Sound(Intact(journal')) /\ Sound(Intact(journal))
            /\ Tip(Intact(journal')) = Tip(Intact(journal))
  <2>1. CASE RescueAppends
    <3>1. PICK i : i = Intact(journal) /\ i = RescueKeeps /\ Sound(i)
      BY <2>1, RescueFacts
    <3>2. PICK c \in Records : c = Checkpoint(t)
      BY RecordFacts
    <3>3. \/ journal' = journal
          \/ journal' \in PartAppended(i, <<c>>)
      BY <1>2, <2>1, <3>1, <3>2 DEF RescueFails
    <3>4. CASE journal' \in PartAppended(i, <<c>>)
      <4>1. /\ Len(<<c>>) = 1 /\ 0 .. 1 = {0, 1} /\ 0 .. 1 - 1 = {0}
            /\ SubSeq(<<c>>, 1, 0) = <<>> /\ SubSeq(<<c>>, 1, 1) = <<c>> /\ <<>> \in Seq(Records)
        <5>1. PICK s : s = <<c>>
          OBVIOUS
        <5>2. s \in Seq(Records) /\ Len(s) = 1
          BY <5>1
        <5>3. 0 \in 0 .. Len(s) /\ 1 \in 0 .. Len(s) /\ 0 .. 1 = {0, 1} /\ 0 .. 1 - 1 = {0}
          BY <5>2
        <5>4. SubSeq(s, 1, 0) = <<>> /\ SubSeq(s, 1, 1) = s
          BY ONLY <5>2, <5>3, PrefixFacts
        <5> QED
          BY <5>1, <5>2, <5>3, <5>4
      <4>2. i \in Seq(Records) /\ i \o <<>> = i
        BY <3>1, SoundFacts, ConcatFacts
      <4>3. journal' \in {i, i \o <<c>>, i \o <<Torn>>}
        BY <3>4, <4>1, <4>2 DEF PartAppended
      <4>4. /\ Sound(i \o <<c>>) /\ Tip(i \o <<c>>) = t /\ Intact(i \o <<c>>) = i \o <<c>>
            /\ i \o <<c>> \in Seq(Records)
        <5>1. PICK a : a = Append(i, Checkpoint(t))
          OBVIOUS
        <5>2. Sound(a) /\ Tip(a) = t /\ a = i \o <<Checkpoint(t)>>
          BY ONLY <3>1, <5>1, t \in Texts, SoundCheckpoint
        <5>3. Intact(a) = a /\ a \in Seq(Records)
          BY ONLY <5>2, SoundFacts
        <5> QED
          BY ONLY <3>2, <5>2, <5>3
      <4>5. Intact(i \o <<Torn>>) = i /\ i \o <<Torn>> \in Seq(Records) /\ Intact(i) = i
        BY <3>1, TornIsCut, SoundFacts
      <4> QED
        BY <3>1, <4>2, <4>3, <4>4, <4>5 DEF Readable
    <3> QED
      BY <1>3, <3>3, <3>4
  <2>2. CASE ~RescueAppends
    <3>1. journal' \in {journal, Whole(t)} \cup (IF journal # Missing THEN {} ELSE {<<>>})
      BY <1>2, <2>2 DEF RescueFails, PartReplaced, Exists
    <3>2. /\ Whole(t) \in Seq(Records) /\ Readable(Whole(t)) /\ Sound(Intact(Whole(t)))
          /\ Tip(Intact(Whole(t))) = t
      BY WholeFacts, SoundFacts DEF OwnSound, Readable
    <3> QED
      BY <1>3, <3>1, <3>2, MissingFacts
  <2> QED
    BY <2>1, <2>2
<1>5. SafeInv'
  <2>1. ASSUME safe # None /\ ~tampered
        PROVE  /\ Sound(Intact(journal'))
               /\ \/ Tip(Intact(journal')) \in recent
                  \/ rescued' # "No" /\ Tip(Intact(journal')) = published.text
    <3>1. Sound(Intact(journal)) /\ Tip(Intact(journal)) \in recent
      BY <1>1, <2>1 DEF IInv, SafeInv
    <3>2. journal # Missing
      BY <1>3, <3>1, IntactFacts
    <3> QED
      BY <1>1, <1>2, <1>4, <3>1, <3>2
  <2> QED
    BY <1>1, <2>1, StakeEnds
<1>6. RescuedInv'
  BY <1>1 DEF RescuedInv
<1> QED
  BY <1>1, <1>4, <1>5, <1>6, Ended DEF IInv, TypeOK

(* The next start finds what the end of the last session left.             *)
LEMMA Opened ==
    ASSUME IInv, NEW t \in Texts, NEW kept \in {t, None}, NEW j \in Seq(Records), Readable(j),
           Open(t, j, kept),
           kept # None => OwnSound(j) /\ Tip(j) = t,
           t # disk \/ ~Owned(j)
    PROVE  IInv'
<1> USE DEF IInv
<1>1. /\ ~alive /\ alive' = TRUE /\ text' = t /\ saved' = disk /\ journal' = j
      /\ modified' \in BOOLEAN /\ (t # disk => modified')
      /\ published' = [text |-> None, modified |-> FALSE]
      /\ safe' = kept /\ recent' = {kept} \ {None} /\ tampered' = FALSE /\ rescued' = "No"
      /\ UNCHANGED <<disk, log, phase, journaling, attached, writerVars>>
  BY DEF Open
<1>2. UNCHANGED <<state, rewrite, base, pending, pending_changes, last_change, on_disk,
                  since_checkpoint, large, held>>
  BY <1>1 DEF writerVars
<1>3. /\ phase = "frame" /\ journaling /\ log = Lost /\ state = "Idle" /\ base = None
      /\ log.entries = <<>> /\ log.lost = TRUE
  BY <1>1, LogFacts DEF SessionInv
<1>4. /\ published'.text = None /\ published'.modified = FALSE
      /\ published' \in [text : MaybeTexts, modified : BOOLEAN]
  BY <1>1, Names
<1>5. kept \in MaybeTexts /\ recent' \subseteq Texts
  BY <1>1, Names
<1>6. TypeOK'
  BY <1>1, <1>2, <1>4, <1>5 DEF TypeOK
<1>7. JournalInv'
  BY <1>1 DEF JournalInv
<1>8. LogInv'
  BY <1>1, <1>3, EmptyChain DEF LogInv, Base
<1>9. WriterInv'
  BY <1>1, <1>2, <1>3 DEF WriterInv
<1>10. SessionInv'
  BY <1>1, <1>2, <1>3, <1>4 DEF SessionInv
<1>11. SafeInv'
  <2>1. SUFFICES ASSUME kept # None
                 PROVE  SafeInv'
    BY <1>1 DEF SafeInv
  <2>2. t \in recent' /\ Sound(Intact(j)) /\ Tip(Intact(j)) = t
    BY <1>1, <2>1, SoundFacts DEF OwnSound
  <2>3. pending = <<>>
    BY <1>3 DEF WriterInv
  <2> QED
    BY <1>1, <1>2, <1>3, <2>2, <2>3 DEF SafeInv
<1>12. RescuedInv'
  BY <1>1 DEF RescuedInv
<1> QED
  BY <1>6, <1>7, <1>8, <1>9, <1>10, <1>11, <1>12

LEMMA NextStartStep ==
    ASSUME IInv, NextStart
    PROVE  IInv'
<1>1. disk \in Texts /\ disk \in MaybeTexts /\ journal \in Seq(Records) /\ Readable(journal)
  BY Typed, Names DEF IInv, JournalInv
<1>2. /\ Orphaned(journal) \in Seq(Records) /\ Readable(Orphaned(journal)) /\ ~Owned(Orphaned(journal))
      /\ Missing \in Seq(Records) /\ Readable(Missing) /\ ~Owned(Missing)
  BY <1>1, OrphanedFacts, MissingFacts
<1>3. Offered => Offer \in Texts /\ Offer # disk
  BY <1>1, RecoveredFacts, Names DEF Offered, Offer
<1>4. PICK d \in Texts : d = disk
  BY <1>1
<1>5. ASSUME NEW j \in {Missing, Orphaned(journal)}, Open(disk, j, None)
      PROVE  IInv'
  <2>1. PICK i \in Seq(Records) : i = j /\ Readable(i) /\ ~Owned(i)
    BY <1>2
  <2>2. Open(d, i, None)
    BY <1>4, <1>5, <2>1
  <2> QED
    BY <2>1, <2>2, Opened
<1>6. CASE OpenUnprompted
  BY <1>5, <1>6 DEF OpenUnprompted
<1>7. CASE OpenUnreplayable
  BY <1>5, <1>7 DEF OpenUnreplayable
<1>8. CASE OpenDiskFile
  BY <1>5, <1>8 DEF OpenDiskFile
<1>9. CASE OpenRecovered
  <2>1. PICK t \in Texts : t = Offer /\ t # disk
    BY <1>3, <1>9 DEF OpenRecovered
  <2>2. CASE Open(Offer, Whole(Offer), Offer)
    <3>1. PICK w : w = Whole(t) /\ OwnSound(w) /\ Tip(w) = t /\ w \in Seq(Records) /\ Readable(w)
      BY WholeFacts, OwnFacts DEF Readable, OwnSound
    <3>2. Open(t, w, t)
      BY <2>1, <2>2, <3>1
    <3> QED
      BY <2>1, <3>1, <3>2, Opened
  <2>3. CASE Open(Offer, Orphaned(journal), None)
    <3>1. PICK o \in Seq(Records) : o = Orphaned(journal) /\ Readable(o) /\ ~Owned(o)
      BY <1>2
    <3>2. Open(t, o, None)
      BY <2>1, <2>3, <3>1
    <3> QED
      BY <2>1, <3>1, <3>2, Opened
  <2> QED
    BY <1>9, <2>2, <2>3 DEF OpenRecovered
<1> QED
  BY <1>6, <1>7, <1>8, <1>9 DEF NextStart

----------------------------------------------------------------------------
(* The drains of the change log.                                           *)
LEMMA Absorbed ==
    ASSUME IInv, NEW next \in {"sync", "risky"}, AbsorbAt(next)
    PROVE  /\ alive /\ phase \in {"input", "frame"} /\ phase' = next
           /\ phase = "input" \/ journaling
           /\ attached' = TRUE /\ log' = Drained /\ log'.entries = <<>> /\ log'.lost = FALSE
           /\ log' \in [lost : BOOLEAN, entries : Seq(Records)] /\ Len(log'.entries) <= LogCap
           /\ Base' = text
           /\ UNCHANGED <<text, modified, disk, saved, alive, journaling, published>>
           /\ LogInv'
<1>1. /\ log' = Drained /\ log'.entries = <<>> /\ log'.lost = FALSE
      /\ log' \in [lost : BOOLEAN, entries : Seq(Records)] /\ Len(log'.entries) <= LogCap
  BY LogFacts DEF AbsorbAt
<1>2. text' = text
  BY DEF AbsorbAt
<1>3. Base' = text
  BY <1>1, <1>2 DEF Base
<1>4. LogInv'
  BY <1>1, <1>2, <1>3, EmptyChain DEF LogInv
<1> QED
  BY <1>1, <1>3, <1>4 DEF AbsorbAt

(* A journal that goes with its writer.                                    *)
LEMMA DroppedFacts ==
    ASSUME IInv, alive, DropsJournal,
           phase # "frame" \/ ~modified \/ ~journaling \/ ~log.lost
    PROVE  journal' \in Seq(Records) /\ Readable(journal') /\ ~Owned(journal')
<1>1. journal \in Seq(Records) /\ Readable(journal)
  BY Typed DEF IInv, JournalInv
<1>2. CASE state = "Idle"
  BY <1>1, <1>2 DEF DropsJournal, IInv, SessionInv
<1>3. CASE state # "Idle"
  BY <1>1, <1>3, DiscardedFacts DEF DropsJournal
<1> QED
  BY <1>2, <1>3

LEMMA AbsorbCleanStep ==
    ASSUME IInv, NEW next \in {"sync", "risky"}, AbsorbClean(next)
    PROVE  IInv'
<1> USE DEF IInv
<1>1. /\ ~modified /\ AbsorbAt(next) /\ base' = text /\ large' = large /\ rescued' = rescued
      /\ state' = "Idle" /\ rewrite' = FALSE /\ held' = NotHeld /\ pending' = <<>>
      /\ pending_changes' = 0 /\ last_change' = None /\ on_disk' = 0 /\ since_checkpoint' = 0
      /\ safe' = None /\ recent' = {} /\ tampered' = FALSE
  BY DEF AbsorbClean, ForgetJournal, NothingAtStake
<1>2. /\ alive /\ phase' = next /\ attached' = TRUE /\ log'.entries = <<>> /\ log'.lost = FALSE
      /\ log' \in [lost : BOOLEAN, entries : Seq(Records)] /\ Len(log'.entries) <= LogCap
      /\ Base' = text /\ LogInv'
      /\ UNCHANGED <<text, modified, disk, saved, alive, journaling, published>>
  BY <1>1, Absorbed
<1>3. journal' \in Seq(Records) /\ Readable(journal') /\ ~Owned(journal')
  BY <1>1, <1>2, DroppedFacts DEF AbsorbClean
<1>4. TypeOK'
  <2>1. /\ 0 \in 0 .. SyncEvery /\ 0 \in 0 .. CompactAfter + 1
        /\ pending' \in Seq(Records) /\ Len(pending') <= PendingCap
    BY <1>1, ConstantsAssumption, LogFacts, EmptyChain
  <2>2. {base, safe}' \subseteq MaybeTexts
    BY <1>1, Names, Typed
  <2>3. /\ {text, disk, saved}' \subseteq Texts /\ modified' \in BOOLEAN
        /\ published' \in [text : MaybeTexts, modified : BOOLEAN]
    BY <1>2 DEF TypeOK
  <2> QED
    BY <1>1, <1>2, <1>3, <2>1, <2>2, <2>3 DEF TypeOK
<1>5. JournalInv'
  BY <1>3 DEF JournalInv
<1>6. WriterInv'
  BY <1>1, <1>2 DEF WriterInv
<1>7. SessionInv'
  BY <1>1, <1>2, <1>3 DEF SessionInv
<1>8. SafeInv' /\ RescuedInv'
  BY <1>1, <1>2 DEF SafeInv, SessionInv, RescuedInv
<1> QED
  BY <1>2, <1>4, <1>5, <1>6, <1>7, <1>8

LEMMA FrameWithoutJournalStep ==
    ASSUME IInv, FrameWithoutJournal
    PROVE  IInv'
<1> USE DEF IInv
<1>1. /\ alive /\ phase \in {"input", "frame"} /\ ~journaling /\ DropsJournal
      /\ phase' = "input" /\ attached' = FALSE
      /\ published' = [text |-> None, modified |-> FALSE]
      /\ base' = None /\ large' = FALSE /\ rescued' = rescued
      /\ state' = "Idle" /\ rewrite' = FALSE /\ held' = NotHeld /\ pending' = <<>>
      /\ pending_changes' = 0 /\ last_change' = None /\ on_disk' = 0 /\ since_checkpoint' = 0
      /\ safe' = None /\ recent' = {} /\ tampered' = FALSE
      /\ UNCHANGED <<text, modified, log, disk, saved, alive, journaling>>
  BY DEF FrameWithoutJournal, NewWriter, ForgetJournal, NothingAtStake, docVars
<1>2. Base' = Base
  BY <1>1 DEF Base
<1>3. journal' \in Seq(Records) /\ Readable(journal') /\ ~Owned(journal')
  BY <1>1, DroppedFacts
<1>a. /\ published'.text = None /\ published'.modified = FALSE
      /\ published' \in [text : MaybeTexts, modified : BOOLEAN]
  BY <1>1, Names
<1>4. TypeOK'
  <2>1. /\ 0 \in 0 .. SyncEvery /\ 0 \in 0 .. CompactAfter + 1
        /\ pending' \in Seq(Records) /\ Len(pending') <= PendingCap
    BY <1>1, ConstantsAssumption, LogFacts, EmptyChain
  <2>2. {base, safe}' \subseteq MaybeTexts
    BY <1>1, Names
  <2>3. /\ {text, disk, saved}' \subseteq Texts /\ modified' \in BOOLEAN
        /\ log' \in [lost : BOOLEAN, entries : Seq(Records)] /\ Len(log'.entries) <= LogCap
    BY <1>1 DEF TypeOK
  <2> QED
    BY <1>1, <1>a, <1>3, <2>1, <2>2, <2>3 DEF TypeOK
<1>5. JournalInv'
  BY <1>3 DEF JournalInv
<1>b. LogInv'
  BY <1>1, <1>2 DEF LogInv
<1>6. WriterInv'
  BY <1>1 DEF WriterInv
<1>7. SessionInv'
  BY <1>1, <1>a, <1>3 DEF SessionInv
<1>8. SafeInv' /\ RescuedInv'
  BY <1>1 DEF SafeInv, SessionInv, RescuedInv
<1> QED
  BY <1>4, <1>5, <1>b, <1>6, <1>7, <1>8

LEMMA TouchFacts ==
    ASSUME IInv, NEW n \in Nat, Touch(n)
    PROVE  pending_changes' \in 0 .. SyncEvery /\ last_change' = "Recent"
<1>1. pending_changes \in 0 .. SyncEvery /\ SyncEvery \in Nat \ {0}
  BY ConstantsAssumption DEF IInv, TypeOK
<1>2. pending_changes' = Cap(pending_changes + n, SyncEvery)
  BY DEF Touch
<1> QED
  BY <1>1, <1>2 DEF Touch, Cap

LEMMA AbsorbCheckpointStep ==
    ASSUME IInv, NEW next \in {"sync", "risky"}, AbsorbCheckpoint(next)
    PROVE  IInv'
<1> USE DEF IInv
<1>1. /\ modified /\ AbsorbAt(next) /\ Touch(1) /\ rewrite' = TRUE /\ pending' = <<>>
      /\ state' = IF state = "Idle" THEN "Fresh" ELSE state
      /\ UNCHANGED <<base, on_disk, since_checkpoint, large, held, journal, safe, recent,
                     tampered, rescued>>
  BY DEF AbsorbCheckpoint, ghostVars
<1>2. /\ alive /\ phase' = next /\ attached' = TRUE /\ log'.entries = <<>> /\ log'.lost = FALSE
      /\ log' \in [lost : BOOLEAN, entries : Seq(Records)] /\ Len(log'.entries) <= LogCap
      /\ Base' = text /\ LogInv'
      /\ UNCHANGED <<text, modified, disk, saved, alive, journaling, published>>
  BY <1>1, Absorbed
<1>3. state' \in {"Fresh", "Live"} /\ (state' = "Live" => state = "Live")
  BY <1>1 DEF TypeOK
<1>4. TypeOK'
  <2>1. /\ pending' \in Seq(Records) /\ Len(pending') <= PendingCap
        /\ pending_changes' \in 0 .. SyncEvery /\ last_change' = "Recent"
    BY <1>1, LogFacts, EmptyChain, TouchFacts
  <2>2. {base, safe}' \subseteq MaybeTexts
    BY <1>1, Names DEF TypeOK
  <2>3. /\ {text, disk, saved}' \subseteq Texts /\ modified' \in BOOLEAN
        /\ published' \in [text : MaybeTexts, modified : BOOLEAN]
    BY <1>2 DEF TypeOK
  <2> QED
    BY <1>1, <1>2, <1>3, <2>1, <2>2, <2>3 DEF TypeOK
<1>5. JournalInv'
  BY <1>1 DEF JournalInv
<1>6. WriterInv'
  BY <1>1, <1>3 DEF WriterInv
<1>7. SessionInv'
  BY <1>1, <1>2, <1>3 DEF SessionInv
<1>8. SafeInv'
  BY <1>1, <1>2 DEF SafeInv
<1>9. RescuedInv'
  BY <1>1, <1>2 DEF SessionInv, RescuedInv
<1> QED
  BY <1>2, <1>4, <1>5, <1>6, <1>7, <1>8, <1>9

LEMMA AbsorbNothingStep ==
    ASSUME IInv, NEW next \in {"sync", "risky"}, AbsorbNothing(next)
    PROVE  IInv'
<1> USE DEF IInv
<1>1. /\ modified /\ log = Drained /\ AbsorbAt(next)
      /\ pending' = IF rewrite THEN <<>> ELSE pending
      /\ UNCHANGED <<state, rewrite, base, pending_changes, last_change, on_disk,
                     since_checkpoint, large, held, journal, safe, recent, tampered, rescued>>
  BY DEF AbsorbNothing, ghostVars
<1>2. /\ alive /\ phase' = next /\ attached' = TRUE /\ log'.entries = <<>> /\ log'.lost = FALSE
      /\ log' \in [lost : BOOLEAN, entries : Seq(Records)] /\ Len(log'.entries) <= LogCap
      /\ Base' = text /\ LogInv'
      /\ UNCHANGED <<text, modified, disk, saved, alive, journaling, published>>
  BY <1>1, Absorbed
<1>3. Base' = Base /\ ~log.lost
  BY <1>1, <1>2, LogFacts DEF Base
<1>4. TypeOK'
  <2>1. pending' \in Seq(Records) /\ Len(pending') <= PendingCap
    BY <1>1, LogFacts, EmptyChain DEF TypeOK
  <2>2. {base, safe}' \subseteq MaybeTexts
    BY <1>1, Names DEF TypeOK
  <2>3. /\ {text, disk, saved}' \subseteq Texts /\ modified' \in BOOLEAN
        /\ published' \in [text : MaybeTexts, modified : BOOLEAN]
    BY <1>2 DEF TypeOK
  <2> QED
    BY <1>1, <1>2, <2>1, <2>2, <2>3 DEF TypeOK
<1>5. JournalInv'
  BY <1>1 DEF JournalInv
<1>6. WriterInv'
  BY <1>1, <1>3 DEF WriterInv, AsLeft
<1>7. SessionInv'
  BY <1>1, <1>2, <1>3 DEF SessionInv
<1>8. SafeInv'
  BY <1>1, <1>2 DEF SafeInv
<1>9. RescuedInv'
  BY <1>1, <1>2 DEF SessionInv, RescuedInv
<1> QED
  BY <1>2, <1>4, <1>5, <1>6, <1>7, <1>8, <1>9

LEMMA AbsorbChangesStep ==
    ASSUME IInv, NEW next \in {"sync", "risky"}, NEW hashed \in BOOLEAN, NEW encodes \in BOOLEAN,
           AbsorbChanges(next, hashed, encodes)
    PROVE  IInv'
<1> USE DEF IInv
<1> DEFINE fresh == state = "Idle"
           queued == IF fresh THEN StartRecords ELSE pending
           whole == rewrite \/ (fresh /\ base = None)
           records == queued \o log.entries
           dropped == whole \/ ~encodes \/ OverCap(records)
           counted == (IF fresh THEN 0 ELSE since_checkpoint)
                          + (IF whole THEN 0 ELSE Len(log.entries))
<1>1. /\ modified /\ ~log.lost /\ AbsorbAt(next) /\ Touch(Len(log.entries))
      /\ IF fresh THEN Start(hashed) ELSE UNCHANGED <<state, base, large, held>>
      /\ rewrite' = dropped
      /\ pending' = IF dropped THEN <<>> ELSE records
      /\ since_checkpoint' = Cap(counted, CompactAfter + 1)
      /\ UNCHANGED <<on_disk, journal, safe, recent, tampered, rescued>>
  BY DEF AbsorbChanges, ghostVars
<1>2. /\ alive /\ phase' = next /\ attached' = TRUE /\ log'.entries = <<>> /\ log'.lost = FALSE
      /\ log' \in [lost : BOOLEAN, entries : Seq(Records)] /\ Len(log'.entries) <= LogCap
      /\ Base' = text /\ LogInv'
      /\ UNCHANGED <<text, modified, disk, saved, alive, journaling, published>>
  BY <1>1, Absorbed
<1>3. PICK es \in Seq(Records) : es = log.entries
  BY Typed
<1>4. PICK b : b = Base
  OBVIOUS
<1>5. Chain(es, b) /\ End(es, b) = text /\ Len(es) \in Nat
  BY <1>3, <1>4, SeqFacts DEF LogInv
<1>6. fresh => /\ ~rewrite /\ held = NotHeld /\ pending = <<>>
               /\ base # None => base = b
  BY <1>1, <1>4 DEF WriterInv
<1>7. state' = (IF fresh THEN "Fresh" ELSE state) /\ state' \in {"Fresh", "Live"}
      /\ (state' = "Live" => state = "Live" /\ ~fresh)
  BY <1>1 DEF Start, TypeOK
<1>8. /\ base' \in MaybeTexts /\ large' \in BOOLEAN
      /\ held' \in [base : LargeTexts, ready : BOOLEAN] \cup {NotHeld}
  <2>1. CASE ~fresh
    BY <1>1, <2>1 DEF TypeOK
  <2>2. CASE fresh /\ base = None
    BY <1>1, <2>2, Names DEF TypeOK, Start
  <2>3. CASE fresh /\ base # None
    BY <1>1, <1>6, <2>3, Names DEF Start
  <2> QED
    BY <2>1, <2>2, <2>3
<1>9. queued \in Seq(Records)
  <2>1. CASE ~fresh
    BY <2>1, Typed
  <2>2. CASE fresh /\ (base = None \/ base \in LargeTexts)
    BY <2>2, EmptyChain DEF StartRecords
  <2>3. CASE fresh /\ ~(base = None \/ base \in LargeTexts)
    <3>1. queued = Whole(base) /\ base \in Texts
      BY <2>3, Typed, Names DEF StartRecords, Whole
    <3> QED
      BY <3>1, WholeFacts, OwnFacts
  <2> QED
    BY <2>1, <2>2, <2>3
<1>10. PICK q \in Seq(Records), rs \in Seq(Records) : q = queued /\ rs = records /\ rs = q \o es
  <2>1. PICK q \in Seq(Records) : q = queued
    BY <1>9
  <2>2. records = q \o es
    BY <1>3, <2>1
  <2>3. q \o es \in Seq(Records)
    BY ONLY q \in Seq(Records), es \in Seq(Records), ConcatFacts
  <2> QED
    BY <2>1, <2>2, <2>3
<1>11. /\ pending' \in Seq(Records) /\ Len(pending') <= PendingCap
       /\ ~rewrite' => pending' = rs /\ ~rewrite /\ ~(fresh /\ base = None)
       /\ rewrite' => pending' = <<>>
       /\ rewrite' \in BOOLEAN
  <2>1. CASE dropped
    BY <1>1, <2>1, LogFacts, EmptyChain
  <2>2. CASE ~dropped
    <3>1. Len(rs) \in Nat /\ ~(Len(rs) > PendingCap) /\ PendingCap \in Nat
      BY <2>2, <1>10, SeqFacts, ConstantsAssumption DEF OverCap
    <3>2. pending' = rs /\ Len(rs) <= PendingCap
      <4>1. pending' = records
        BY <1>1, <2>2
      <4>2. pending' = rs
        BY ONLY <1>10, <4>1
      <4>3. Len(rs) <= PendingCap
        BY ONLY <3>1
      <4> QED
        BY ONLY <4>2, <4>3
    <3>3. rewrite' = FALSE
      BY <1>1, <2>2
    <3>4. ~rewrite /\ ~(fresh /\ base = None)
      BY <2>2
    <3> QED
      BY ONLY <1>10, <3>2, <3>3, <3>4
  <2> QED
    BY <2>1, <2>2
<1>12. since_checkpoint' \in 0 .. CompactAfter + 1
  <2>1. counted \in Nat /\ CompactAfter \in Nat
    <3>1. CompactAfter \in Nat
      BY ConstantsAssumption
    <3>2. since_checkpoint \in Nat
      BY <3>1 DEF TypeOK
    <3>3. Len(log.entries) \in Nat
      BY <1>3, <1>5
    <3>4. PICK x \in Nat, y \in Nat : x = since_checkpoint /\ y = Len(log.entries)
      BY <3>2, <3>3
    <3>5. counted \in {x + y, x + 0, 0 + y, 0 + 0}
      BY <3>4
    <3> QED
      BY ONLY <3>1, <3>5, x \in Nat, y \in Nat
  <2> HIDE DEF counted
  <2> QED
    BY <1>1, <2>1 DEF Cap
<1>13. pending_changes' \in 0 .. SyncEvery /\ last_change' = "Recent"
  BY <1>1, <1>3, <1>5, TouchFacts
<1> HIDE DEF dropped, records, counted, queued, whole
<1>14. TypeOK'
  <2>2. {base, safe}' \subseteq MaybeTexts
    BY <1>1, <1>8 DEF TypeOK
  <2>3. /\ {text, disk, saved}' \subseteq Texts /\ modified' \in BOOLEAN
        /\ published' \in [text : MaybeTexts, modified : BOOLEAN]
    BY <1>2 DEF TypeOK
  <2>4. /\ journal' \in Seq(Records) /\ on_disk' \in Nat /\ recent' \subseteq Texts
        /\ rescued' \in {"No", "Part", "Yes"}
        /\ {alive, journaling, attached, rewrite, large, tampered}' \subseteq BOOLEAN
    BY <1>1, <1>2, <1>8, <1>11 DEF TypeOK
  <2> QED
    BY <1>2, <1>7, <1>8, <1>11, <1>12, <1>13, <2>2, <2>3, <2>4 DEF TypeOK
<1>15. JournalInv'
  BY <1>1 DEF JournalInv
<1>16. b \in MaybeTexts
  <2>1. CASE log.entries = <<>>
    BY <1>4, <2>1, Typed, Names DEF Base
  <2>2. CASE log.entries # <<>>
    <3>1. es[1] \in Records /\ es[1].kind = "Edit"
      BY <1>3, <1>5, <2>2, SeqFacts DEF Chain
    <3> QED
      BY <1>3, <1>4, <2>2, <3>1, RecordKinds, Names DEF Base
  <2> QED
    BY <2>1, <2>2
<1>17. WriterInv'
  <2>1. CASE rewrite'
    <3>1. state' = "Live" => held' = NotHeld
      BY <1>1, <1>7 DEF WriterInv
    <3> QED
      BY <1>7, <2>1, <3>1 DEF WriterInv
  <2>2. CASE ~rewrite' /\ fresh
    <3>1. base \in Texts /\ base = b /\ pending' = rs /\ state' = "Fresh"
      BY <1>6, <1>7, <1>11, <2>2, Typed, Names
    <3>2. CASE base \in LargeTexts
      <4>1. q = <<>>
        BY <1>10, <2>2, <3>2 DEF queued, StartRecords
      <4>2. rs = es
        BY ONLY <1>10, <4>1, es \in Seq(Records), ConcatFacts
      <4>3. held' = [base |-> base, ready |-> hashed]
        BY <1>1, <2>2, <3>1, <3>2, Names DEF Start
      <4>4. held'.base = b /\ held' # NotHeld
        BY <3>1, <4>3, NotHeldFacts, Names
      <4> QED
        BY <1>2, <1>5, <1>7, <3>1, <4>2, <4>4 DEF WriterInv
    <3>3. CASE base \notin LargeTexts
      <4>1. q = Whole(base)
        BY <1>10, <2>2, <3>1, <3>3, Names DEF queued, StartRecords, Whole
      <4>2. Sound(q) /\ q[1].owner = "self" /\ Tip(q) = b
        BY <3>1, <4>1, WholeFacts DEF OwnSound
      <4>3. Sound(rs) /\ Tip(rs) = text /\ rs[1].owner = "self"
        BY <1>5, <1>10, <4>2, SoundExtend
      <4>4. held' = NotHeld
        BY <1>1, <1>6, <2>2, <3>1, <3>3, Names DEF Start
      <4> QED
        BY <1>2, <1>7, <3>1, <4>3, <4>4 DEF WriterInv
    <3> QED
      BY <3>2, <3>3
  <2>3. CASE ~rewrite' /\ ~fresh /\ state = "Fresh"
    <3>1. /\ q = pending /\ pending' = rs /\ state' = "Fresh" /\ held' = held /\ ~rewrite
      BY <1>1, <1>7, <1>10, <1>11, <2>3 DEF queued
    <3>2. CASE held = NotHeld
      <4>1. Sound(q) /\ q[1].owner = "self" /\ Tip(q) = b
        BY <1>1, <1>4, <2>3, <3>1, <3>2 DEF WriterInv
      <4>2. Sound(rs) /\ Tip(rs) = text /\ rs[1].owner = "self"
        BY <1>5, <1>10, <4>1, SoundExtend
      <4> QED
        BY <1>2, <3>1, <3>2, <4>2 DEF WriterInv
    <3>3. CASE held # NotHeld
      <4>1. PICK h \in MaybeTexts : h = held.base
        BY <3>3, Names, ConstantsAssumption DEF TypeOK
      <4>2. Chain(q, h) /\ End(q, h) = b
        BY <1>1, <1>4, <2>3, <3>1, <3>3, <4>1 DEF WriterInv
      <4>3. Chain(rs, h) /\ End(rs, h) = text
        BY <1>5, <1>10, <4>2, ChainConcat
      <4> QED
        BY <1>2, <3>1, <3>3, <4>1, <4>3 DEF WriterInv
    <3> QED
      BY <3>2, <3>3
  <2>4. CASE ~rewrite' /\ ~fresh /\ state = "Live"
    <3>1. /\ q = pending /\ pending' = rs /\ state' = "Live" /\ held' = held /\ ~rewrite
          /\ held = NotHeld /\ journal' = journal /\ on_disk' = on_disk
      BY <1>1, <1>7, <1>10, <1>11, <2>4 DEF queued, WriterInv
    <3>2. SUFFICES ASSUME AsLeft
                   PROVE  WriterInv'
      BY <3>1 DEF WriterInv, AsLeft
    <3>3. Sound(journal) /\ Owned(journal)
      BY <2>4, <3>1, <3>2 DEF WriterInv
    <3>4. PICK h \in MaybeTexts : h = Tip(journal)
      BY <3>3, SoundFacts
    <3>5. Chain(q, h) /\ End(q, h) = b
      BY <1>1, <1>4, <2>4, <3>1, <3>2, <3>4 DEF WriterInv
    <3>6. Chain(rs, h) /\ End(rs, h) = text
      BY <1>5, <1>10, <3>5, ChainConcat
    <3> QED
      BY <1>2, <3>1, <3>3, <3>4, <3>6 DEF WriterInv
  <2> QED
    BY <1>7, <2>1, <2>2, <2>3, <2>4 DEF TypeOK
<1>18. SessionInv'
  BY <1>1, <1>2, <1>7 DEF SessionInv
<1>19. SafeInv'
  <2>1. SUFFICES ASSUME safe # None
                 PROVE  SafeInv'
    BY <1>1 DEF SafeInv
  <2>2. state' = "Live" \/ rewrite'
    <3>1. CASE fresh
      BY <1>11, <2>1, <3>1 DEF SafeInv
    <3>2. CASE ~fresh
      BY <1>1, <1>7, <1>11, <2>1, <3>2 DEF SafeInv
    <3> QED
      BY <3>1, <3>2
  <2>3. \A n \in DOMAIN pending' : pending'[n].kind = "Edit" /\ pending'[n].to \in recent
    <3>1. CASE rewrite'
      BY <1>11, <3>1
    <3>2. CASE ~rewrite'
      <4>1. q = pending /\ pending' = rs
        BY <1>7, <1>10, <1>11, <2>2, <3>2 DEF queued
      <4>2. \A n \in DOMAIN q : q[n].kind = "Edit" /\ q[n].to \in recent
        BY <2>1, <4>1 DEF SafeInv
      <4>3. \A n \in DOMAIN es : es[n].kind = "Edit" /\ es[n].to \in recent
        BY <1>3, <1>5, <2>1 DEF SafeInv, Chain
      <4>4. /\ DOMAIN q = 1 .. Len(q) /\ DOMAIN es = 1 .. Len(es) /\ DOMAIN rs = 1 .. Len(rs)
            /\ Len(q) \in Nat /\ Len(es) \in Nat
        BY ONLY SeqFacts, q \in Seq(Records), es \in Seq(Records), rs \in Seq(Records)
      <4>5. /\ Len(rs) = Len(q) + Len(es)
            /\ \A i \in 1 .. Len(q) + Len(es) : rs[i] = IF i <= Len(q) THEN q[i] ELSE es[i - Len(q)]
        BY ONLY <1>10, ConcatFacts, q \in Seq(Records), es \in Seq(Records)
      <4>6. ASSUME NEW n \in DOMAIN rs
            PROVE  rs[n].kind = "Edit" /\ rs[n].to \in recent
        <5>1. CASE n <= Len(q)
          <6>1. n \in DOMAIN q /\ rs[n] = q[n]
            BY ONLY <4>4, <4>5, <5>1, n \in DOMAIN rs
          <6> QED
            BY <4>2, <6>1
        <5>2. CASE n > Len(q)
          <6>1. n - Len(q) \in DOMAIN es /\ rs[n] = es[n - Len(q)]
            BY ONLY <4>4, <4>5, <5>2, n \in DOMAIN rs
          <6> QED
            BY <4>3, <6>1
        <5> QED
          BY ONLY <4>4, <4>5, <5>1, <5>2, n \in DOMAIN rs
      <4> QED
        BY <4>1, <4>6
    <3> QED
      BY <3>1, <3>2
  <2> QED
    BY <1>1, <1>2, <2>1, <2>2, <2>3 DEF SafeInv
<1>20. RescuedInv'
  BY <1>1, <1>2 DEF SessionInv, RescuedInv
<1> QED
  BY <1>2, <1>14, <1>15, <1>17, <1>18, <1>19, <1>20

----------------------------------------------------------------------------
(* The flushes.                                                            *)
LEMMA Settled ==
    ASSUME IInv, phase \in {"sync", "risky"}
    PROVE  /\ log = Drained /\ log.entries = <<>> /\ log.lost = FALSE /\ Base = text
           /\ alive /\ rescued = "No" /\ text \in Texts
           /\ state = "Idle" => ~Owned(journal)
           /\ phase = "sync" /\ ~modified => state = "Idle" /\ ~Owned(journal)
<1>1. log = Drained /\ log.entries = <<>> /\ log.lost = FALSE
  BY LogFacts DEF IInv, LogInv
<1>2. Base = text
  BY <1>1 DEF Base
<1>3. text \in Texts
  BY Typed DEF IInv
<1> QED
  BY <1>1, <1>2, <1>3 DEF IInv, SessionInv

LEMMA EndedSync ==
    ASSUME IInv, phase \in {"sync", "risky"}, EndSync
    PROVE  /\ phase' = "input" /\ UNCHANGED <<text, modified, log, disk, saved, alive,
                                              journaling, attached>>
           /\ published' \in [text : MaybeTexts, modified : BOOLEAN]
           /\ published'.modified => published'.text # None
           /\ Base' = Base /\ LogInv'
<1>1. /\ phase' = "input"
      /\ UNCHANGED <<text, modified, log, disk, saved, alive, journaling, attached>>
      /\ published' = IF phase = "sync" THEN [text |-> text, modified |-> modified]
                      ELSE published
  BY DEF EndSync, docVars
<1>2. /\ published' \in [text : MaybeTexts, modified : BOOLEAN]
      /\ published'.modified => published'.text # None
  BY <1>1, Names DEF IInv, TypeOK, SessionInv
<1>3. Base' = Base
  BY <1>1 DEF Base
<1>4. LogInv'
  BY <1>1, <1>3 DEF IInv, LogInv
<1> QED
  BY <1>1, <1>2, <1>3, <1>4

LEMMA NoFlushStep ==
    ASSUME IInv, NoFlush
    PROVE  IInv'
<1> USE DEF IInv
<1>1. /\ phase \in {"sync", "risky"} /\ EndSync
      /\ UNCHANGED <<state, rewrite, base, pending, pending_changes, last_change, on_disk,
                     since_checkpoint, large, held, journal, safe, recent, tampered, rescued>>
  BY DEF NoFlush, writerVars, ghostVars
<1>2. /\ alive /\ rescued = "No" /\ (state = "Idle" => ~Owned(journal))
  BY <1>1, Settled
<1>3. /\ phase' = "input"
      /\ UNCHANGED <<text, modified, log, disk, saved, alive, journaling, attached>>
      /\ published' \in [text : MaybeTexts, modified : BOOLEAN]
      /\ published'.modified => published'.text # None
      /\ Base' = Base /\ LogInv'
  BY <1>1, EndedSync
<1>4. TypeOK'
  BY <1>1, <1>3 DEF TypeOK
<1>5. JournalInv'
  BY <1>1 DEF JournalInv
<1>6. WriterInv'
  BY <1>1, <1>3, WriterKept, Typed
<1>7. SessionInv'
  BY <1>1, <1>2, <1>3 DEF SessionInv
<1>8. SafeInv'
  BY <1>1, <1>2, <1>3 DEF SafeInv
<1>9. RescuedInv'
  BY <1>1, <1>2 DEF RescuedInv
<1> QED
  BY <1>3, <1>4, <1>5, <1>6, <1>7, <1>8, <1>9

(* What a flush writes: the journal whole, or the records that begin it.   *)
LEMMA WholeJournalFacts ==
    ASSUME IInv, Flushing, ~(Appends /\ AsLeft)
    PROVE  /\ OwnSound(WholeJournal) /\ Tip(WholeJournal) = text
           /\ WholeJournal \in Seq(Records)
<1>1. /\ phase \in {"sync", "risky"} /\ state # "Idle"
  BY DEF Flushing, Due, Unsynced
<1>2. log.lost = FALSE /\ Base = text /\ text \in Texts
  BY <1>1, Settled
<1>3. CASE Rewrites
  BY <1>2, <1>3, WholeFacts, OwnFacts DEF WholeJournal
<1>4. CASE ~Rewrites
  <2>1. state = "Fresh" /\ ~rewrite
    BY <1>1, <1>4 DEF Rewrites, Appends, IInv, TypeOK
  <2>2. CASE held = NotHeld
    <3>1. WholeJournal = pending
      BY <1>4, <2>2 DEF WholeJournal
    <3>2. Sound(pending) /\ pending[1].owner = "self" /\ Tip(pending) = text
      BY <1>2, <2>1, <2>2 DEF IInv, WriterInv
    <3> QED
      BY <3>1, <3>2, SoundFacts DEF OwnSound
  <2>3. CASE held # NotHeld
    <3>1. WholeJournal = <<Header(held.base, "self")>> \o pending
      BY <1>4, <2>3 DEF WholeJournal
    <3>2. PICK h \in MaybeTexts, es \in Seq(Records) : h = held.base /\ es = pending
      BY <2>3, Names, ConstantsAssumption DEF IInv, TypeOK
    <3>3. Chain(es, h) /\ End(es, h) = text
      BY <1>2, <2>1, <2>3, <3>2 DEF IInv, WriterInv
    <3>4. PICK j : /\ j = <<Header(h, "self")>> /\ Sound(j) /\ Tip(j) = h
                   /\ j[1].owner = "self"
      BY SoundHeader
    <3>5. Sound(j \o es) /\ Tip(j \o es) = text /\ (j \o es)[1] = j[1]
      BY <3>3, <3>4, SoundExtend
    <3> QED
      BY <3>1, <3>2, <3>4, <3>5, SoundFacts DEF OwnSound
  <2> QED
    BY <2>2, <2>3
<1> QED
  BY <1>3, <1>4

(* After a sync the journal is what the writer left, and ends in the text. *)
LEMMA SyncedStep ==
    ASSUME IInv, Flushing, EndSync, NEW c, OwnSound(c), Tip(c) = text, Synced(c),
           since_checkpoint' \in {since_checkpoint, 0}, large' \in BOOLEAN, held' = NotHeld
    PROVE  IInv'
<1> USE DEF IInv
<1>1. phase \in {"sync", "risky"} /\ state # "Idle"
  BY DEF Flushing, Due, Unsynced
<1>2. /\ log.entries = <<>> /\ log.lost = FALSE /\ Base = text /\ alive /\ rescued = "No"
      /\ text \in Texts
  BY <1>1, Settled
<1>3. /\ phase' = "input"
      /\ UNCHANGED <<text, modified, log, disk, saved, alive, journaling, attached>>
      /\ published' \in [text : MaybeTexts, modified : BOOLEAN]
      /\ published'.modified => published'.text # None
      /\ Base' = Base /\ LogInv'
  BY <1>1, EndedSync
<1>4. /\ journal' = c /\ on_disk' = Len(c) /\ state' = "Live" /\ rewrite' = FALSE
      /\ pending' = <<>> /\ pending_changes' = 0 /\ safe' = text /\ recent' = {text}
      /\ tampered' = FALSE /\ UNCHANGED <<base, last_change, rescued>>
  BY DEF Synced
<1>5. /\ c \in Seq(Records) /\ Len(c) \in Nat /\ Sound(c) /\ Owned(c) /\ Intact(c) = c
  BY OwnFacts DEF OwnSound
<1>6. TypeOK'
  <2>1. /\ 0 \in 0 .. SyncEvery /\ 0 \in 0 .. CompactAfter + 1
        /\ pending' \in Seq(Records) /\ Len(pending') <= PendingCap
    BY <1>4, ConstantsAssumption, LogFacts, EmptyChain
  <2>2. {base, safe}' \subseteq MaybeTexts
    BY <1>2, <1>4, Names, Typed
  <2>3. /\ {text, disk, saved}' \subseteq Texts /\ modified' \in BOOLEAN
        /\ log' \in [lost : BOOLEAN, entries : Seq(Records)] /\ Len(log'.entries) <= LogCap
    BY <1>3 DEF TypeOK
  <2>4. /\ {alive, journaling, attached, rewrite, large, tampered}' \subseteq BOOLEAN
        /\ last_change' \in {None, "Recent", "Elapsed"}
        /\ since_checkpoint' \in 0 .. CompactAfter + 1
        /\ recent' \subseteq Texts /\ rescued' \in {"No", "Part", "Yes"}
    BY <1>2, <1>3, <1>4, <2>1 DEF TypeOK
  <2> QED
    BY <1>3, <1>4, <1>5, <2>1, <2>2, <2>3, <2>4 DEF TypeOK
<1>7. JournalInv'
  BY <1>4, <1>5 DEF JournalInv, Readable
<1>8. WriterInv'
  <2>1. Chain(pending', Tip(journal')) /\ End(pending', Tip(journal')) = Base'
    BY <1>2, <1>3, <1>4, EmptyChain
  <2> QED
    BY <1>4, <1>5, <2>1 DEF WriterInv
<1>9. SessionInv'
  BY <1>2, <1>3, <1>4 DEF SessionInv
<1>10. SafeInv'
  BY <1>2, <1>3, <1>4, <1>5 DEF SafeInv
<1>11. RescuedInv'
  BY <1>2, <1>4 DEF RescuedInv
<1> QED
  BY <1>3, <1>6, <1>7, <1>8, <1>9, <1>10, <1>11

(* What a Live writer appends to.                                          *)
LEMMA AppendsFacts ==
    ASSUME IInv, Flushing, Appends, AsLeft
    PROVE  /\ Sound(journal) /\ Owned(journal) /\ journal[1].owner = "self"
           /\ Chain(pending, Tip(journal)) /\ End(pending, Tip(journal)) = text
           /\ held = NotHeld /\ state = "Live" /\ pending \in Seq(Records)
<1>1. phase \in {"sync", "risky"} /\ state = "Live" /\ ~rewrite
  BY DEF Flushing, Appends
<1>2. log.lost = FALSE /\ Base = text
  BY <1>1, Settled
<1>3. /\ Sound(journal) /\ Owned(journal) /\ held = NotHeld
      /\ Chain(pending, Tip(journal)) /\ End(pending, Tip(journal)) = text
  BY <1>1, <1>2 DEF IInv, WriterInv
<1>4. journal[1].owner = "self"
  BY <1>3, SoundFacts DEF Owned
<1> QED
  BY <1>1, <1>3, <1>4, Typed DEF IInv

LEMMA FlushAppendsStep ==
    ASSUME IInv, FlushAppends
    PROVE  IInv'
<1>1. /\ Flushing /\ Appends /\ AsLeft /\ EndSync /\ Synced(journal \o pending)
      /\ UNCHANGED <<since_checkpoint, large, held>>
  BY DEF FlushAppends
<1>2. PICK j, es \in Seq(Records) : j = journal /\ es = pending
  BY <1>1, AppendsFacts, Typed DEF IInv
<1>3. /\ Sound(j) /\ j[1].owner = "self" /\ Chain(es, Tip(j)) /\ End(es, Tip(j)) = text
      /\ held = NotHeld
  BY <1>1, <1>2, AppendsFacts
<1>4. PICK c : c = j \o es
  OBVIOUS
<1>5. OwnSound(c) /\ Tip(c) = text
  BY <1>3, <1>4, SoundExtend DEF OwnSound
<1>6. Synced(c)
  BY <1>1, <1>2, <1>4
<1>7. large' \in BOOLEAN
  BY <1>1 DEF IInv, TypeOK
<1> QED
  BY <1>1, <1>3, <1>5, <1>6, <1>7, SyncedStep

LEMMA FlushReplacesStep ==
    ASSUME IInv, FlushReplaces
    PROVE  IInv'
<1>1. /\ Flushing /\ ~(Appends /\ AsLeft) /\ EndSync /\ Synced(WholeJournal) /\ held' = NotHeld
      /\ since_checkpoint' \in {since_checkpoint, 0} /\ large' \in BOOLEAN
  BY DEF FlushReplaces
<1>2. PICK c : c = WholeJournal
  OBVIOUS
<1>3. OwnSound(c) /\ Tip(c) = text
  BY <1>1, <1>2, WholeJournalFacts
<1>4. Synced(c)
  BY <1>1, <1>2
<1> QED
  BY <1>1, <1>3, <1>4, SyncedStep

LEMMA FlushFailsStep ==
    ASSUME IInv, FlushFails
    PROVE  IInv'
<1> USE DEF IInv
<1>1. /\ Flushing /\ EndSync /\ journal' \in PartWritten /\ rewrite' = Rewrites
      /\ pending' = IF Compacts THEN <<>> ELSE pending
      /\ pending_changes' = 0 /\ last_change' = "Recent"
      /\ UNCHANGED <<state, base, on_disk, since_checkpoint, large, held, safe, recent,
                     tampered, rescued>>
  BY DEF FlushFails, ghostVars
<1>2. phase \in {"sync", "risky"} /\ state # "Idle"
  BY <1>1 DEF Flushing, Due, Unsynced
<1>3. /\ log.entries = <<>> /\ log.lost = FALSE /\ Base = text /\ alive /\ rescued = "No"
      /\ text \in Texts
  BY <1>2, Settled
<1>4. /\ phase' = "input"
      /\ UNCHANGED <<text, modified, log, disk, saved, alive, journaling, attached>>
      /\ published' \in [text : MaybeTexts, modified : BOOLEAN]
      /\ published'.modified => published'.text # None
      /\ Base' = Base /\ LogInv'
  BY <1>1, <1>2, EndedSync
<1>5. journal \in Seq(Records) /\ Readable(journal) /\ pending \in Seq(Records)
  BY Typed DEF JournalInv
<1>6. CASE Appends /\ AsLeft
  <2>1. /\ Sound(journal) /\ Owned(journal) /\ held = NotHeld /\ state = "Live"
        /\ Chain(pending, Tip(journal)) /\ End(pending, Tip(journal)) = text
    BY <1>1, <1>6, AppendsFacts
  <2>2. ~rewrite /\ ~Compacts /\ ~Rewrites /\ pending' = pending /\ ~rewrite'
    BY <1>1, <1>6 DEF Appends, Rewrites
  <2>c. rewrite' = FALSE
    BY <1>1, <1>6 DEF Appends, Rewrites, Compacts
  <2>a. PICK j \in Seq(Records), es \in Seq(Records) : j = journal /\ es = pending
    BY <1>5
  <2>b. PICK a : a = journal'
    OBVIOUS
  <2>3. j = journal /\ es = pending /\ a = journal'
    BY <2>a, <2>b
  <2>4. a \in PartAppended(j, es) /\ Sound(j) /\ Chain(es, Tip(j))
    BY <1>1, <1>6, <2>1, <2>3 DEF PartWritten
  <2>5. /\ a \in Seq(Records) /\ Readable(a) /\ Sound(Intact(a)) /\ Head(a) = j[1]
        /\ Len(a) = Len(j) => a = j
        /\ \/ Tip(Intact(a)) = Tip(j)
           \/ \E n \in 1 .. Len(es) : Tip(Intact(a)) = es[n].to
    BY <2>4, PartFacts
  <2>6. TypeOK'
    <3>1. 0 \in 0 .. SyncEvery
      BY ConstantsAssumption
    <3>2. rewrite' \in BOOLEAN
      BY <2>c
    <3> QED
      BY <1>1, <1>4, <2>2, <2>3, <2>5, <3>1, <3>2 DEF TypeOK
  <2>7. JournalInv'
    BY <2>3, <2>5 DEF JournalInv
  <2>8. WriterInv'
    <3>1. AsLeft' => journal' = journal
      BY <1>1, <1>6, <2>3, <2>5 DEF AsLeft
    <3> QED
      BY <1>1, <1>3, <1>4, <2>1, <2>2, <3>1 DEF WriterInv
  <2>9. SessionInv'
    BY <1>1, <1>2, <1>3, <1>4 DEF SessionInv
  <2>10. SafeInv'
    <3>1. SUFFICES ASSUME safe # None
                   PROVE  SafeInv'
      BY <1>1 DEF SafeInv
    <3>2. \A n \in DOMAIN pending' : pending'[n].kind = "Edit" /\ pending'[n].to \in recent
      BY <2>2, <3>1 DEF SafeInv
    <3>3. ASSUME ~tampered
          PROVE  Tip(Intact(a)) \in recent
      <4>1. Tip(j) \in recent
        BY <1>3, <2>1, <2>3, <3>1, <3>3, SoundFacts DEF SafeInv
      <4>2. \A n \in 1 .. Len(es) : es[n].to \in recent
        BY <2>2, <2>3, <3>2, SeqFacts
      <4> QED
        BY <2>5, <4>1, <4>2
    <3> QED
      BY <1>1, <1>3, <1>4, <2>1, <2>3, <2>5, <3>1, <3>2, <3>3 DEF SafeInv
  <2>11. RescuedInv'
    BY <1>1, <1>3 DEF RescuedInv
  <2> QED
    BY <1>4, <2>6, <2>7, <2>8, <2>9, <2>10, <2>11
<1>7. CASE ~(Appends /\ AsLeft)
  <2>1. /\ OwnSound(WholeJournal) /\ Tip(WholeJournal) = text /\ WholeJournal \in Seq(Records)
    BY <1>1, <1>7, WholeJournalFacts
  <2>2. journal' \in {journal, WholeJournal} \cup (IF journal # Missing THEN {} ELSE {<<>>})
    BY <1>1, <1>7 DEF PartWritten, PartReplaced, Exists
  <2>3. Sound(WholeJournal) /\ Intact(WholeJournal) = WholeJournal /\ Readable(WholeJournal)
    BY <2>1, OwnFacts DEF OwnSound, Readable
  <2>4. journal' \in Seq(Records) /\ Readable(journal')
    BY <1>5, <2>1, <2>2, <2>3, MissingFacts
  <2>5. /\ pending' \in {pending, <<>>} /\ (Compacts => rewrite')
        /\ (rewrite => rewrite') /\ (state = "Live" => rewrite') /\ rewrite' \in BOOLEAN
    BY <1>1, <1>7 DEF Rewrites, Appends
  <2>6. TypeOK'
    <3>1. 0 \in 0 .. SyncEvery
      BY ConstantsAssumption
    <3>2. pending' \in Seq(Records) /\ Len(pending') <= PendingCap
      BY <2>5, EmptyChain, LogFacts DEF TypeOK
    <3> QED
      BY <1>1, <1>4, <2>4, <2>5, <3>1, <3>2 DEF TypeOK
  <2>7. JournalInv'
    BY <2>4 DEF JournalInv
  <2>8. WriterInv'
    <3>1. CASE rewrite'
      BY <1>1, <1>2, <3>1 DEF WriterInv
    <3>2. CASE ~rewrite'
      <4>1. state = "Fresh" /\ ~rewrite /\ pending' = pending
        BY <1>1, <1>2, <2>5, <3>2 DEF TypeOK
      <4> QED
        BY <1>1, <1>4, <4>1 DEF WriterInv
    <3> QED
      BY <3>1, <3>2
  <2>9. SessionInv'
    BY <1>1, <1>2, <1>3, <1>4 DEF SessionInv
  <2>10. SafeInv'
    <3>1. SUFFICES ASSUME safe # None
                   PROVE  SafeInv'
      BY <1>1 DEF SafeInv
    <3>2. \A n \in DOMAIN pending' : pending'[n].kind = "Edit" /\ pending'[n].to \in recent
      BY <2>5, <3>1 DEF SafeInv
    <3>3. ASSUME ~tampered
          PROVE  Sound(Intact(journal')) /\ Tip(Intact(journal')) \in recent
      <4>1. Sound(Intact(journal)) /\ Tip(Intact(journal)) \in recent /\ text \in recent
        BY <1>3, <3>1, <3>3 DEF SafeInv
      <4>2. journal # Missing
        BY <1>5, <4>1, IntactFacts
      <4> QED
        BY <2>1, <2>2, <2>3, <4>1, <4>2
    <3>4. state' = "Live" \/ rewrite'
      BY <1>1, <1>2, <2>5, <3>1 DEF SafeInv
    <3> QED
      BY <1>1, <1>3, <1>4, <3>1, <3>2, <3>3, <3>4 DEF SafeInv
  <2>11. RescuedInv'
    BY <1>1, <1>3 DEF RescuedInv
  <2> QED
    BY <1>4, <2>6, <2>7, <2>8, <2>9, <2>10, <2>11
<1> QED
  BY <1>6, <1>7

----------------------------------------------------------------------------
(* The invariant, and what it gives.                                       *)
LEMMA Initially ==
    Init => IInv
<1> SUFFICES ASSUME Init
             PROVE  IInv
  OBVIOUS
<1> USE DEF Init
<1>1. FirstText \in Texts /\ 0 \in 0 .. SyncEvery /\ 0 \in 0 .. CompactAfter + 1
  BY ConstantsAssumption
<1>2. log.entries = <<>> /\ log.lost = TRUE /\ log \in [lost : BOOLEAN, entries : Seq(Records)]
  BY LogFacts
<1>3. /\ published.text = None /\ published.modified = FALSE
      /\ published \in [text : MaybeTexts, modified : BOOLEAN]
  BY Names
<1>4. TypeOK
  <2>1. Len(log.entries) <= LogCap /\ pending \in Seq(Records) /\ Len(pending) <= PendingCap
    BY <1>2, LogFacts, EmptyChain
  <2>2. {base, safe} \subseteq MaybeTexts /\ journal \in Seq(Records)
    BY Names, MissingFacts
  <2> QED
    BY <1>1, <1>2, <1>3, <2>1, <2>2 DEF TypeOK
<1>5. JournalInv
  BY MissingFacts DEF JournalInv
<1>6. LogInv
  BY <1>2, EmptyChain DEF LogInv, Base
<1>7. WriterInv
  BY DEF WriterInv
<1>8. SessionInv
  BY <1>3, MissingFacts DEF SessionInv
<1>9. SafeInv /\ RescuedInv
  BY DEF SafeInv, RescuedInv
<1> QED
  BY <1>4, <1>5, <1>6, <1>7, <1>8, <1>9 DEF IInv

LEMMA AbsorbStep ==
    ASSUME IInv, NEW next \in {"sync", "risky"}, Absorb(next)
    PROVE  IInv'
BY AbsorbCleanStep, AbsorbCheckpointStep, AbsorbNothingStep, AbsorbChangesStep DEF Absorb

LEMMA Stuttering ==
    ASSUME IInv, UNCHANGED vars
    PROVE  IInv'
<1>1. /\ UNCHANGED <<text, modified, log, disk, saved, alive, phase, journaling, attached,
                     published, state, rewrite, base, pending, pending_changes, last_change,
                     on_disk, since_checkpoint, large, held, journal, safe, recent, tampered,
                     rescued>>
  BY DEF vars, docVars, sessionVars, writerVars, ghostVars
<1>2. Base' = Base
  BY <1>1 DEF Base
<1>3. TypeOK'
  BY <1>1 DEF IInv, TypeOK
<1>4. JournalInv' /\ RescuedInv'
  BY <1>1 DEF IInv, JournalInv, RescuedInv
<1>5. LogInv'
  BY <1>1, <1>2 DEF IInv, LogInv
<1>6. WriterInv'
  BY <1>1, <1>2 DEF IInv, WriterInv, AsLeft
<1>7. SessionInv' /\ SafeInv'
  BY <1>1 DEF IInv, SessionInv, SafeInv
<1> QED
  BY <1>3, <1>4, <1>5, <1>6, <1>7 DEF IInv

LEMMA StepPreserves ==
    IInv /\ [Next]_vars => IInv'
<1> SUFFICES ASSUME IInv, [Next]_vars
             PROVE  IInv'
  OBVIOUS
<1>1. CASE Command
  BY <1>1, ChangeStep, SaveStep, SaveUnprovenStep, ReloadStep, SetSwapFileStep DEF Command
<1>2. CASE Frame
  BY <1>2, AbsorbStep, FrameWithoutJournalStep DEF Frame
<1>3. CASE Absorb("risky")
  BY <1>3, AbsorbStep
<1>4. CASE NoFlush
  BY <1>4, NoFlushStep
<1>5. CASE Flush
  BY <1>5, FlushAppendsStep, FlushReplacesStep DEF Flush
<1>6. CASE FlushFails
  BY <1>6, FlushFailsStep
<1>7. CASE IdleElapses
  BY <1>7, IdleElapsesStep
<1>8. CASE HashFinishes
  BY <1>8, HashFinishesStep
<1>9. CASE Tamper
  BY <1>9, TamperStep
<1>10. CASE Crash
  BY <1>10, CrashStep
<1>11. CASE Rescue
  BY <1>11, RescueStep
<1>12. CASE RescueFails
  BY <1>12, RescueFailsStep
<1>13. CASE Quit
  BY <1>13, QuitStep
<1>14. CASE NextStart
  BY <1>14, NextStartStep
<1>15. CASE UNCHANGED vars
  BY <1>15, Stuttering
<1> QED
  BY <1>1, <1>2, <1>3, <1>4, <1>5, <1>6, <1>7, <1>8, <1>9, <1>10, <1>11, <1>12, <1>13,
     <1>14, <1>15 DEF Next

(* In every state the journal file, the change log and the writer agree:   *)
(* each buffered record is an edit of the text its predecessor leaves      *)
(* (journal.rs absorb and flush, with every failed and torn write).        *)
THEOREM Inductive ==
    Spec => []IInv
BY Initially, StepPreserves, PTL DEF Spec

(* The writer, the session and the file keep their types, and neither the  *)
(* change log nor the pending records outgrow LogCap and PendingCap, for   *)
(* every value of the two.                                                 *)
THEOREM Types ==
    Spec => []TypeOK
BY Inductive, PTL DEF IInv

(* Replay never applies an edit to a text it was not made from: not after  *)
(* failed, torn, retried and compacted writes, and not after a rescue, a   *)
(* deletion or a start that left the journal where it was.                 *)
THEOREM NothingIsMixed ==
    Spec => []ReplayNeverMixes
<1>1. IInv => ReplayNeverMixes
  <2> SUFFICES ASSUME IInv
               PROVE  ReplayNeverMixes
    OBVIOUS
  <2>1. journal \in Seq(Records) /\ Readable(journal) /\ disk \in MaybeTexts
    BY Typed, Names DEF IInv, JournalInv
  <2>2. Recovered(journal, disk) \in MaybeTexts
    BY <2>1, RecoveredFacts
  <2> QED
    BY <2>2, NamesAssumption DEF ReplayNeverMixes, MaybeTexts, None, Garbage
<1> QED
  BY <1>1, Inductive, PTL

(* What a sync wrote (Writer::flush) stays recoverable, or something later *)
(* than it, until the buffer is saved or its changes are let go.           *)
THEOREM SyncedSurvives ==
    Spec => []SyncedTextSurvives
<1>1. IInv => SyncedTextSurvives
  <2> SUFFICES ASSUME IInv, safe # None, ~tampered, BaseStands
               PROVE  Recovered(journal, disk) \in
                          recent \cup (IF rescued = "No" THEN {} ELSE {published.text})
    BY DEF SyncedTextSurvives
  <2>1. journal \in Seq(Records) /\ Readable(journal) /\ disk \in MaybeTexts
    BY Typed, Names DEF IInv, JournalInv
  <2>2. /\ Sound(Intact(journal))
        /\ \/ Tip(Intact(journal)) \in recent
           \/ rescued # "No" /\ Tip(Intact(journal)) = published.text
    BY DEF IInv, SafeInv
  <2>3. HasHeader(journal)
    BY <2>1, <2>2, IntactFacts
  <2>4. Recovered(journal, disk) = Tip(Intact(journal))
    BY <2>1, <2>2, <2>3, RecoveredFacts DEF BaseStands
  <2> QED
    BY <2>2, <2>4
<1> QED
  BY <1>1, Inductive, PTL

(* Once the crash path (recover.rs rescue) has written the journal, the    *)
(* next start's replay gives the text of the last frame.                   *)
THEOREM RescueRestores ==
    Spec => []RescueRestoresFrame
<1>1. IInv => RescueRestoresFrame
  <2> SUFFICES ASSUME IInv, rescued = "Yes"
               PROVE  Recovered(journal, disk) = published.text
    BY DEF RescueRestoresFrame
  <2>1. /\ journal \in Seq(Records) /\ Readable(journal) /\ disk \in MaybeTexts
        /\ published.text \in MaybeTexts
    BY Typed, Names DEF IInv, JournalInv
  <2>2. Sound(journal) /\ journal[Len(journal)] = Checkpoint(published.text)
    BY DEF IInv, RescuedInv
  <2>3. PICK c : c = Checkpoint(published.text)
    OBVIOUS
  <2>4. c.kind = "Checkpoint" /\ Carries(c) = published.text
    BY <2>3 DEF Checkpoint, Carries
  <2>5. Intact(journal) = journal /\ Tip(journal) = published.text
    BY <2>2, <2>3, <2>4, SoundFacts DEF Tip
  <2> QED
    BY <2>1, <2>2, <2>3, <2>4, <2>5, RecoveredFacts
<1> QED
  BY <1>1, Inductive, PTL

(* A frame that ends with a clean buffer has no journal of this process    *)
(* behind it: pre_frame's absorb discarded it, or there was none.          *)
THEOREM CleanFrames ==
    Spec => CleanFrameLeavesNoJournal
<1> DEFINE A == phase = "sync" /\ phase' = "input" /\ ~modified' => ~Owned(journal')
<1>1. IInv /\ [Next]_vars => [A]_vars
  <2> SUFFICES ASSUME IInv, Next, phase = "sync", phase' = "input", ~modified'
               PROVE  ~Owned(journal')
    OBVIOUS
  <2>1. CASE NoFlush
    <3>1. modified' = modified /\ journal' = journal
      BY <2>1 DEF NoFlush, EndSync, docVars
    <3> QED
      BY <3>1, Settled
  <2>2. CASE FlushAppends \/ FlushReplaces \/ FlushFails
    <3>1. modified' = modified /\ state # "Idle"
      BY <2>2 DEF FlushAppends, FlushReplaces, FlushFails, Flushing, Due, Unsynced, EndSync, docVars
    <3> QED
      BY <3>1, Settled
  <2>3. CASE Command \/ Frame \/ Absorb("risky") \/ Tamper
    BY <2>3 DEF Command, Change, Save, SaveUnproven, Reload, SetSwapFile, Frame, Absorb,
                AbsorbClean, AbsorbCheckpoint, AbsorbNothing, AbsorbChanges, AbsorbAt,
                FrameWithoutJournal, Tamper
  <2>4. CASE IdleElapses \/ HashFinishes
    BY <2>4 DEF IdleElapses, HashFinishes, sessionVars
  <2>5. CASE Crash \/ Rescue \/ RescueFails \/ Quit
    BY <2>5 DEF Crash, Rescue, RescueFails, Quit, Dies
  <2>6. CASE NextStart
    BY <2>6 DEF NextStart, OpenUnprompted, OpenUnreplayable, OpenRecovered, OpenDiskFile, Open
  <2> QED
    BY <2>1, <2>2, <2>3, <2>4, <2>5, <2>6 DEF Next, Flush
<1>2. Spec => [][A]_vars
  BY <1>1, Inductive, PTL DEF Spec
<1> QED
  BY <1>2 DEF CleanFrameLeavesNoJournal

(* A crashed session's journal is not this session's to delete: discard    *)
(* reads the owner first, and a flush or a rescue replaces it by a journal *)
(* that holds this session's text.                                         *)
THEOREM CrashedJournals ==
    Spec => CrashedJournalIsKept
<1> DEFINE A == HasHeader(journal) /\ ~Owned(journal) /\ journal' # journal =>
                    Owned(journal') \/ ~alive
<1>1. IInv /\ [Next]_vars => [A]_vars
  <2> SUFFICES ASSUME IInv, Next, HasHeader(journal), ~Owned(journal), journal' # journal, alive
               PROVE  Owned(journal')
    OBVIOUS
  <2>1. Discarded(journal) = journal /\ journal # Missing /\ ~RescueAppends
    BY DEF Discarded, HasHeader, Exists, RescueAppends
  <2>2. CASE Command
    BY <2>1, <2>2 DEF Command, Change, Save, SaveUnproven, Reload, SetSwapFile
  <2>3. CASE Frame \/ Absorb("risky")
    BY <2>1, <2>3 DEF Frame, Absorb, AbsorbClean, AbsorbCheckpoint, AbsorbNothing,
                      AbsorbChanges, FrameWithoutJournal, DropsJournal
  <2>4. CASE NoFlush \/ IdleElapses \/ HashFinishes \/ Tamper \/ Crash \/ Quit \/ NextStart
    BY <2>1, <2>4 DEF NoFlush, IdleElapses, HashFinishes, Tamper, Crash, Quit, NextStart,
                      OpenUnprompted, OpenUnreplayable, OpenRecovered, OpenDiskFile, Open
  <2>5. ASSUME Flushing
        PROVE  ~(Appends /\ AsLeft) /\ Owned(WholeJournal)
    BY <2>5, AppendsFacts, WholeJournalFacts, OwnFacts
  <2>6. CASE FlushAppends \/ FlushReplaces
    BY <2>5, <2>6 DEF FlushAppends, FlushReplaces, Synced
  <2>7. CASE FlushFails
    BY <2>1, <2>5, <2>7 DEF FlushFails, PartWritten, PartReplaced, Exists
  <2>8. ASSUME published.modified
        PROVE  Owned(Whole(published.text))
    <3>1. PICK t \in Texts : t = published.text
      BY <2>8, Typed, Names DEF IInv, SessionInv
    <3> QED
      BY <3>1, WholeFacts, OwnFacts
  <2>9. CASE Rescue
    BY <2>1, <2>8, <2>9 DEF Rescue
  <2>10. CASE RescueFails
    BY <2>1, <2>8, <2>10 DEF RescueFails, PartReplaced, Exists
  <2> QED
    BY <2>2, <2>3, <2>4, <2>6, <2>7, <2>9, <2>10 DEF Next, Flush
<1>2. Spec => [][A]_vars
  BY <1>1, Inductive, PTL DEF Spec
<1> QED
  BY <1>2 DEF CrashedJournalIsKept
==============================================================================
