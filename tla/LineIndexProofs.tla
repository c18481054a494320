--------------------------- MODULE LineIndexProofs ---------------------------
(***************************************************************************)
(* Edit lists over texts of any length: the inverse of a list restores the *)
(* text, applying a list is splicing its edits, the line starts that are   *)
(* carried through a list are those of the new text, the edit in whole     *)
(* lines is right, and marks stay on their lines through changes in whole  *)
(* lines.                                                                  *)
(***************************************************************************)
EXTENDS LineIndex, FiniteSetTheorems, WellFoundedInduction, TLAPS

Bytes == Byte \cup {NL}
Str == Seq(Bytes)
Edit == [pos : Nat, del : Nat, ins : Str]

(* What EditList::new and check_bounds accept for a text of len bytes.     *)
Canon(list, len) == list \in Seq(Edit) /\ Disjoint(list) /\ InBounds(list, len)

(* The starts that were kept are those of the text before the last change. *)
StartsInv ==
    /\ line_starts # <<>> => line_starts = LineStartsOf(buf)
    /\ before.starts # <<>> => before = [starts |-> LineStartsOf(old), edits |-> last]

IInv ==
    /\ buf \in Strings(MaxLen) /\ old \in Strings(MaxLen)
    /\ Canon(last, Len(old)) /\ Len(last) <= MaxEdits /\ Len(before.edits) <= MaxEdits
    /\ buf = ApplyTo(last, old)
    /\ StartsInv

----------------------------------------------------------------------------
(* Induction and recursion.                                                *)

LEMMA Induct ==
    ASSUME NEW P \in SUBSET Nat, 0 \in P, \A n \in P : n + 1 \in P
    PROVE  P = Nat
<1> DEFINE R == {ss \in Nat \X Nat : ss[1] < ss[2]}
           T == Nat \ P
<1>1. IsWellFoundedOn(R, Nat)
  BY NatLessThanWellFounded DEF OpToRel
<1> HIDE DEF R
<1>2. SUFFICES ASSUME T # {}
               PROVE  FALSE
  OBVIOUS
<1>3. PICK x \in T : \A y \in T : ~(<<y, x>> \in R)
  BY <1>1, <1>2, WFMin
<1>4. x # 0 /\ x - 1 \in Nat /\ (x - 1) + 1 = x
  OBVIOUS
<1>5. x - 1 \in T
  BY <1>4
<1>6. PICK p : p = <<x - 1, x>>
  OBVIOUS
<1>7. p \in Nat \X Nat /\ p[1] < p[2]
  BY <1>4, <1>6
<1>8. p \in R
  BY <1>7 DEF R
<1> QED
  BY <1>3, <1>5, <1>6, <1>8

\* h is the recursive function that starts with d and goes on by F.
IsRec(h, d, F, N) == h = [n \in 0 .. N |-> IF n = 0 THEN d ELSE F[n][h[n - 1]]]

\* What a step leads to from within D stays in D.
LEMMA RecTyped ==
    ASSUME NEW D, NEW d \in D, NEW N \in Nat, NEW F \in [1 .. N -> [D -> D]],
           NEW h, IsRec(h, d, F, N)
    PROVE  h \in [0 .. N -> D]
<1> DEFINE P == {n \in Nat : n <= N => h[n] \in D}
<1>0. h = [n \in 0 .. N |-> IF n = 0 THEN d ELSE F[n][h[n - 1]]]
  BY DEF IsRec
<1>1. 0 \in P
  <2>1. h[0] = d
    BY <1>0
  <2> QED BY <2>1
<1>2. ASSUME NEW n \in P PROVE n + 1 \in P
  <2> SUFFICES ASSUME n + 1 <= N PROVE h[n + 1] \in D
    OBVIOUS
  <2>1. n + 1 \in 1 .. N /\ n + 1 \in 0 .. N /\ n + 1 # 0 /\ (n + 1) - 1 = n /\ n <= N
    OBVIOUS
  <2>2. h[n + 1] = F[n + 1][h[n]]
    BY <2>1, <1>0
  <2>3. h[n] \in D /\ F[n + 1] \in [D -> D]
    BY <2>1
  <2> QED BY <2>2, <2>3
<1> HIDE DEF P
<1>3. P = Nat
  <2>1. P \in SUBSET Nat
    BY DEF P
  <2> QED BY <1>1, <1>2, <2>1, Induct
<1>4. \A n \in 0 .. N : h[n] \in D
  BY <1>3 DEF P
<1> QED BY <1>0, <1>4

LEMMA RecExists ==
    ASSUME NEW d, NEW F
    PROVE  \A N \in Nat : \E h : IsRec(h, d, F, N)
<1> DEFINE P == {m \in Nat : \E h : IsRec(h, d, F, m)}
<1>1. 0 \in P
  <2> DEFINE h == [n \in 0 .. 0 |-> d]
  <2>1. IsRec(h, d, F, 0)
    BY DEF IsRec
  <2> QED BY <2>1
<1>2. ASSUME NEW m \in P PROVE m + 1 \in P
  <2>1. PICK g : IsRec(g, d, F, m)
    OBVIOUS
  <2>2. g = [n \in 0 .. m |-> IF n = 0 THEN d ELSE F[n][g[n - 1]]]
    BY <2>1 DEF IsRec
  <2> DEFINE h == [n \in 0 .. m + 1 |-> IF n = m + 1 THEN F[n][g[m]] ELSE g[n]]
  <2>3. ASSUME NEW n \in 0 .. m + 1
        PROVE  h[n] = IF n = 0 THEN d ELSE F[n][h[n - 1]]
    <3>1. CASE n = 0
      <4>1. h[0] = g[0] /\ g[0] = d
        BY <2>2
      <4> QED BY <3>1, <4>1
    <3>2. CASE n = m + 1
      <4>1. h[n] = F[n][g[m]] /\ h[n - 1] = g[m] /\ n # 0
        BY <3>2
      <4> HIDE DEF h
      <4> QED BY <4>1
    <3>3. CASE n # 0 /\ n # m + 1
      <4>1. h[n] = g[n] /\ h[n - 1] = g[n - 1] /\ n \in 0 .. m
        BY <3>3
      <4> HIDE DEF h
      <4>2. g[n] = F[n][g[n - 1]]
        BY <2>2, <3>3, <4>1
      <4> QED BY <3>3, <4>1, <4>2
    <3> QED BY <3>1, <3>2, <3>3
  <2>4. h = [n \in 0 .. m + 1 |-> h[n]]
    OBVIOUS
  <2> HIDE DEF h
  <2>5. IsRec(h, d, F, m + 1)
    BY <2>3, <2>4 DEF IsRec
  <2> QED BY <2>5
<1> HIDE DEF P
<1>3. P = Nat
  <2>1. P \in SUBSET Nat
    BY DEF P
  <2> QED BY <1>1, <1>2, <2>1, Induct
<1> QED BY <1>3 DEF P

----------------------------------------------------------------------------
(* Slices of strings.                                                      *)

LEMMA SliceFacts ==
    ASSUME NEW S, NEW b \in Seq(S), NEW i \in Nat, NEW j \in Nat, i <= j, j <= Len(b)
    PROVE  /\ Slice(b, i, j) \in Seq(S) /\ Len(Slice(b, i, j)) = j - i
           /\ \A k \in 1 .. j - i : Slice(b, i, j)[k] = b[i + k]
BY DEF Slice

LEMMA SliceJoin ==
    ASSUME NEW S, NEW b \in Seq(S), NEW i \in Nat, NEW j \in Nat, NEW k \in Nat,
           i <= j, j <= k, k <= Len(b)
    PROVE  Slice(b, i, j) \o Slice(b, j, k) = Slice(b, i, k)
BY DEF Slice

LEMMA SliceWhole ==
    ASSUME NEW S, NEW b \in Seq(S)
    PROVE  Slice(b, 0, Len(b)) = b
BY DEF Slice

LEMMA SliceNone ==
    ASSUME NEW S, NEW b \in Seq(S), NEW i \in Nat, i <= Len(b)
    PROVE  Slice(b, i, i) = <<>>
BY DEF Slice

LEMMA SliceLeft ==
    ASSUME NEW S, NEW a \in Seq(S), NEW b \in Seq(S), NEW i \in Nat, NEW j \in Nat,
           i <= j, j <= Len(a)
    PROVE  Slice(a \o b, i, j) = Slice(a, i, j)
BY DEF Slice

LEMMA SliceRight ==
    ASSUME NEW S, NEW a \in Seq(S), NEW b \in Seq(S), NEW i \in Nat, NEW j \in Nat,
           Len(a) <= i, i <= j, j <= Len(a) + Len(b)
    PROVE  Slice(a \o b, i, j) = Slice(b, i - Len(a), j - Len(a))
BY DEF Slice

LEMMA ConcatFacts ==
    ASSUME NEW S, NEW a \in Seq(S), NEW b \in Seq(S)
    PROVE  /\ a \o b \in Seq(S) /\ Len(a \o b) = Len(a) + Len(b) /\ Len(a) \in Nat /\ Len(b) \in Nat
           /\ \A i \in 1 .. Len(a) + Len(b) :
                 (a \o b)[i] = IF i <= Len(a) THEN a[i] ELSE b[i - Len(a)]
OBVIOUS

LEMMA Assoc ==
    ASSUME NEW S, NEW a \in Seq(S), NEW b \in Seq(S), NEW c \in Seq(S)
    PROVE  (a \o b) \o c = a \o (b \o c)
OBVIOUS

LEMMA IntAssoc ==
    ASSUME NEW a \in Seq(Int), NEW b \in Seq(Int), NEW c \in Seq(Int)
    PROVE  (a \o b) \o c = a \o (b \o c)
BY Assoc

LEMMA ConcatAppend ==
    ASSUME NEW S, NEW a \in Seq(S), NEW b \in Seq(S), NEW x \in S
    PROVE  a \o Append(b, x) = Append(a \o b, x)
OBVIOUS

LEMMA NoneFacts ==
    ASSUME NEW S, NEW a \in Seq(S)
    PROVE  /\ <<>> \o a = a /\ a \o <<>> = a /\ <<>> \in Seq(S) /\ Len(<<>>) = 0
OBVIOUS

\* The last element, and what is before it.
LEMMA LastFacts ==
    ASSUME NEW S, NEW l \in Seq(S), Len(l) > 0
    PROVE  \E f \in Seq(S), x \in S : l = Append(f, x) /\ Len(l) = Len(f) + 1 /\ l[Len(l)] = x
<1> DEFINE f == SubSeq(l, 1, Len(l) - 1)
<1>1. f \in Seq(S)
  OBVIOUS
<1>2. l[Len(l)] \in S
  OBVIOUS
<1>3. l = Append(f, l[Len(l)])
  OBVIOUS
<1>4. Len(l) = Len(f) + 1
  OBVIOUS
<1> QED BY <1>1, <1>2, <1>3, <1>4

----------------------------------------------------------------------------
(* The same of texts.                                                      *)

LEMMA StrSlice ==
    ASSUME NEW b \in Str, NEW i \in Nat, NEW j \in Nat, i <= j, j <= Len(b)
    PROVE  Slice(b, i, j) \in Str /\ Len(Slice(b, i, j)) = j - i
BY SliceFacts DEF Str

LEMMA StrJoin ==
    ASSUME NEW b \in Str, NEW i \in Nat, NEW j \in Nat, NEW k \in Nat,
           i <= j, j <= k, k <= Len(b)
    PROVE  Slice(b, i, j) \o Slice(b, j, k) = Slice(b, i, k)
BY SliceJoin DEF Str

LEMMA StrPrefix ==
    ASSUME NEW b \in Str, NEW i \in Nat, NEW j \in Nat, i <= j, j <= Len(b)
    PROVE  Slice(b, 0, i) \o Slice(b, i, j) = Slice(b, 0, j)
<1>1. 0 \in Nat /\ 0 <= i
  OBVIOUS
<1> QED BY <1>1, StrJoin

LEMMA StrWhole ==
    ASSUME NEW b \in Str
    PROVE  Slice(b, 0, Len(b)) = b
BY SliceWhole DEF Str

LEMMA StrLeft ==
    ASSUME NEW a \in Str, NEW b \in Str, NEW i \in Nat, NEW j \in Nat, i <= j, j <= Len(a)
    PROVE  Slice(a \o b, i, j) = Slice(a, i, j)
BY SliceLeft DEF Str

LEMMA StrRight ==
    ASSUME NEW a \in Str, NEW b \in Str, NEW i \in Nat, NEW j \in Nat,
           Len(a) <= i, i <= j, j <= Len(a) + Len(b)
    PROVE  Slice(a \o b, i, j) = Slice(b, i - Len(a), j - Len(a))
BY SliceRight DEF Str

LEMMA StrConcat ==
    ASSUME NEW a \in Str, NEW b \in Str
    PROVE  a \o b \in Str /\ Len(a \o b) = Len(a) + Len(b) /\ Len(a) \in Nat /\ Len(b) \in Nat
BY ConcatFacts DEF Str

LEMMA StrAssoc ==
    ASSUME NEW a \in Str, NEW b \in Str, NEW c \in Str
    PROVE  (a \o b) \o c = a \o (b \o c)
BY Assoc DEF Str

\* Concatenation by a name, so that the provers do not open it.
Cat(a, b) == a \o b

LEMMA CatRegroups ==
    ASSUME NEW a \in Str, NEW b \in Str, NEW c \in Str, NEW d \in Str
    PROVE  Cat(Cat(Cat(a, b), c), d) = Cat(a, Cat(b, Cat(c, d)))
<1>1. \A x \in Str : \A y \in Str : Cat(x, y) \in Str
  BY StrConcat DEF Cat
<1>2. \A x \in Str : \A y \in Str : \A z \in Str : Cat(Cat(x, y), z) = Cat(x, Cat(y, z))
  BY StrAssoc DEF Cat
<1>3. Cat(a, b) \in Str /\ Cat(c, d) \in Str
  BY <1>1
<1>4. Cat(Cat(Cat(a, b), c), d) = Cat(Cat(a, b), Cat(c, d))
  BY <1>2, <1>3
<1>5. Cat(Cat(a, b), Cat(c, d)) = Cat(a, Cat(b, Cat(c, d)))
  BY <1>2, <1>3
<1> QED BY <1>4, <1>5

LEMMA StrNone ==
    ASSUME NEW a \in Str
    PROVE  <<>> \in Str /\ Len(<<>>) = 0 /\ <<>> \o a = a /\ a \o <<>> = a /\ Len(a) \in Nat
BY NoneFacts DEF Str

----------------------------------------------------------------------------
(* Canonical lists.                                                        *)

LEMMA EditFacts ==
    ASSUME NEW len \in Nat, NEW list, Canon(list, len), NEW n \in 1 .. Len(list)
    PROVE  /\ Len(list) \in Nat /\ list[n] \in Edit
           /\ list[n].pos \in Nat /\ list[n].del \in Nat /\ list[n].ins \in Str
           /\ Cursor(list, n) = list[n].pos + list[n].del
           /\ Cursor(list, n) = End(list[n])
           /\ Cursor(list, n - 1) \in Nat /\ Cursor(list, n) \in Nat
           /\ Cursor(list, n - 1) <= list[n].pos
           /\ list[n].pos <= Cursor(list, n) /\ Cursor(list, n) <= len
<1>1. /\ list \in Seq(Edit) /\ Len(list) \in Nat /\ Disjoint(list) /\ InBounds(list, len)
      /\ \A i \in 1 .. Len(list) : list[i] \in Edit
  BY DEF Canon
<1>2. \A i \in 1 .. Len(list) : list[i].pos \in Nat /\ list[i].del \in Nat /\ list[i].ins \in Str
  BY <1>1 DEF Edit
<1>3. n # 0 /\ Cursor(list, n) = list[n].pos + list[n].del
  BY DEF Cursor, End
<1>4. Cursor(list, n) <= len
  BY <1>1, <1>3 DEF InBounds, End
<1>5. Cursor(list, n - 1) \in Nat /\ Cursor(list, n - 1) <= list[n].pos
  <2>1. CASE n = 1
    BY <2>1, <1>2 DEF Cursor
  <2>2. CASE n # 1
    <3>1. n - 1 \in 1 .. Len(list) /\ n - 1 \in 1 .. Len(list) - 1 /\ (n - 1) + 1 = n /\ n - 1 # 0
      BY <2>2
    <3>2. Cursor(list, n - 1) = list[n - 1].pos + list[n - 1].del
      BY <3>1 DEF Cursor, End
    <3>3. list[n].pos >= list[n - 1].pos + list[n - 1].del
      BY <3>1, <1>1 DEF Disjoint, End
    <3>4. list[n - 1].pos \in Nat /\ list[n - 1].del \in Nat /\ list[n].pos \in Nat
      BY <3>1, <1>2
    <3> QED BY <3>2, <3>3, <3>4
  <2> QED BY <2>1, <2>2
<1> QED BY <1>1, <1>2, <1>3, <1>4, <1>5 DEF Cursor

LEMMA CursorFacts ==
    ASSUME NEW len \in Nat, NEW list, Canon(list, len), NEW n \in 0 .. Len(list)
    PROVE  Cursor(list, n) \in Nat /\ Cursor(list, n) <= len
<1>1. CASE n = 0
  BY <1>1 DEF Cursor
<1>2. CASE n # 0
  <2>1. n \in 1 .. Len(list)
    BY <1>2
  <2> QED BY <2>1, EditFacts
<1> QED BY <1>1, <1>2

\* What apply_to has written, edit by edit.
LEMMA CopiedFacts ==
    ASSUME NEW b \in Str, NEW list, Canon(list, Len(b)), NEW c, c = Copied(list, b)
    PROVE  /\ Len(list) \in Nat /\ c \in [0 .. Len(list) -> Str] /\ c[0] = <<>>
           /\ \A n \in 1 .. Len(list) :
                c[n] = c[n - 1] \o Slice(b, Cursor(list, n - 1), list[n].pos) \o list[n].ins
<1>0. Len(list) \in Nat /\ Len(b) \in Nat
  BY DEF Canon, Str
<1> DEFINE N == Len(list)
           step(n, s) == s \o Slice(b, Cursor(list, n - 1), list[n].pos) \o list[n].ins
           F == [n \in 1 .. N |-> [s \in Str |-> step(n, s)]]
<1>1. ASSUME NEW n \in 1 .. N, NEW s \in Str PROVE step(n, s) \in Str
  <2>1. /\ list[n].pos \in Nat /\ list[n].ins \in Str /\ Cursor(list, n - 1) \in Nat
        /\ Cursor(list, n - 1) <= list[n].pos /\ list[n].pos <= Len(b)
    <3>1. list[n].pos \in Nat /\ list[n].pos <= Cursor(list, n) /\ Cursor(list, n) <= Len(b) /\ Cursor(list, n) \in Nat
      BY <1>0, EditFacts
    <3>2. list[n].ins \in Str /\ Cursor(list, n - 1) \in Nat /\ Cursor(list, n - 1) <= list[n].pos
      BY <1>0, EditFacts
    <3> QED BY <3>1, <3>2, <1>0
  <2>2. Slice(b, Cursor(list, n - 1), list[n].pos) \in Str
    BY <2>1, SliceFacts DEF Str
  <2>3. PICK u \in Str, v \in Str : u = Slice(b, Cursor(list, n - 1), list[n].pos) /\ v = list[n].ins
    BY <2>1, <2>2
  <2>4. (s \o u) \o v \in Str
    BY DEF Str
  <2> QED BY <2>3, <2>4
<1> HIDE DEF step
<1>2. F \in [1 .. N -> [Str -> Str]]
  BY <1>1
<1>3. <<>> \in Str
  BY DEF Str
<1>4. PICK h : IsRec(h, <<>>, F, N)
  BY <1>0, RecExists
<1>5. h \in [0 .. N -> Str]
  BY <1>0, <1>2, <1>3, <1>4, RecTyped
<1>6. h = [n \in 0 .. N |-> IF n = 0 THEN <<>> ELSE step(n, h[n - 1])]
  <2>1. h = [n \in 0 .. N |-> IF n = 0 THEN <<>> ELSE F[n][h[n - 1]]]
    BY <1>4 DEF IsRec
  <2>2. ASSUME NEW n \in 0 .. N, n # 0 PROVE F[n][h[n - 1]] = step(n, h[n - 1])
    <3>1. n \in 1 .. N /\ n - 1 \in 0 .. N
      BY <2>2, <1>0
    <3>2. h[n - 1] \in Str
      BY <3>1, <1>5
    <3> QED BY <3>1, <3>2
  <2> HIDE DEF F
  <2> QED BY <2>1, <2>2
<1>7. c = CHOOSE g : g = [n \in 0 .. N |-> IF n = 0 THEN <<>> ELSE step(n, g[n - 1])]
  BY DEF Copied, step
<1>8. c = [n \in 0 .. N |-> IF n = 0 THEN <<>> ELSE step(n, c[n - 1])]
  BY <1>6, <1>7
<1>9. IsRec(c, <<>>, F, N)
  <2> DEFINE P == {n \in Nat : n <= N => c[n] = h[n]}
  <2>1. 0 \in P
    <3>1. c[0] = <<>> /\ h[0] = <<>>
      BY <1>0, <1>6, <1>8
    <3> QED BY <3>1
  <2>2. ASSUME NEW n \in P PROVE n + 1 \in P
    <3> SUFFICES ASSUME n + 1 <= N PROVE c[n + 1] = h[n + 1]
      OBVIOUS
    <3>1. n + 1 \in 0 .. N /\ n + 1 # 0 /\ (n + 1) - 1 = n /\ n <= N
      BY <1>0
    <3>2. c[n + 1] = step(n + 1, c[n]) /\ h[n + 1] = step(n + 1, h[n])
      BY <3>1, <1>6, <1>8
    <3> QED BY <3>1, <3>2
  <2> HIDE DEF P
  <2>3. P = Nat
    <3>1. P \in SUBSET Nat
      BY DEF P
    <3> QED BY <2>1, <2>2, <3>1, Induct
  <2>4. \A n \in 0 .. N : c[n] = h[n]
    BY <1>0, <2>3 DEF P
  <2>5. c = [n \in 0 .. N |-> c[n]] /\ h = [n \in 0 .. N |-> h[n]]
    BY <1>6, <1>8
  <2>6. c = h
    BY <2>4, <2>5
  <2> QED BY <2>6, <1>4
<1>10. c \in [0 .. N -> Str]
  BY <1>0, <1>2, <1>3, <1>9, RecTyped
<1>11. c[0] = <<>>
  BY <1>0, <1>8
<1>12. ASSUME NEW n \in 1 .. N PROVE c[n] = step(n, c[n - 1])
  BY <1>0, <1>8
<1> QED BY <1>0, <1>10, <1>11, <1>12 DEF step

----------------------------------------------------------------------------
(* Lists taken apart at their last edit.                                   *)

Written(list, b) == Copied(list, b)[Len(list)]
Stop(list) == Cursor(list, Len(list))

\* x can follow the edits of f in a text of len bytes.
Follows(f, x, len) ==
    /\ Stop(f) <= x.pos /\ End(x) <= len
    /\ Len(f) > 0 => x.pos # f[Len(f)].pos

LEMMA AppendFacts ==
    ASSUME NEW S, NEW f \in Seq(S), NEW x \in S
    PROVE  /\ Append(f, x) \in Seq(S) /\ Len(Append(f, x)) = Len(f) + 1 /\ Len(f) \in Nat
           /\ Append(f, x)[Len(f) + 1] = x
           /\ \A i \in 1 .. Len(f) : Append(f, x)[i] = f[i]
<1>1. Append(f, x) \in Seq(S)
  OBVIOUS
<1>2. Len(Append(f, x)) = Len(f) + 1 /\ Len(f) \in Nat
  OBVIOUS
<1>3. Append(f, x)[Len(f) + 1] = x
  OBVIOUS
<1>4. ASSUME NEW i \in 1 .. Len(f) PROVE Append(f, x)[i] = f[i]
  OBVIOUS
<1> QED BY <1>1, <1>2, <1>3, <1>4

LEMMA CursorOfAppend ==
    ASSUME NEW f \in Seq(Edit), NEW x \in Edit
    PROVE  /\ \A k \in 0 .. Len(f) : Cursor(Append(f, x), k) = Cursor(f, k)
           /\ Stop(Append(f, x)) = End(x)
<1>1. PICK l : l = Append(f, x)
  OBVIOUS
<1>2. /\ Len(l) = Len(f) + 1 /\ Len(f) \in Nat /\ l[Len(f) + 1] = x
      /\ \A i \in 1 .. Len(f) : l[i] = f[i]
  BY <1>1, AppendFacts
<1>3. ASSUME NEW k \in 0 .. Len(f) PROVE Cursor(l, k) = Cursor(f, k)
  <2>1. CASE k = 0
    BY <2>1 DEF Cursor
  <2>2. CASE k # 0
    <3>1. k \in 1 .. Len(f)
      BY <2>2, <1>2
    <3>2. l[k] = f[k]
      BY <3>1, <1>2
    <3> QED BY <2>2, <3>2 DEF Cursor
  <2> QED BY <2>1, <2>2
<1>4. Stop(l) = End(x)
  <2>1. Len(l) # 0 /\ l[Len(l)] = x
    BY <1>2
  <2> QED BY <2>1 DEF Stop, Cursor
<1> QED BY <1>1, <1>3, <1>4

\* A list that ends in x is canonical when what is before x is and x follows it.
LEMMA CanonOfAppend ==
    ASSUME NEW len \in Nat, NEW f \in Seq(Edit), NEW x \in Edit
    PROVE  Canon(Append(f, x), len) <=> Canon(f, len) /\ Follows(f, x, len)
<1>1. PICK l : l = Append(f, x)
  OBVIOUS
<1>2. /\ Len(l) = Len(f) + 1 /\ Len(f) \in Nat /\ l[Len(f) + 1] = x /\ l \in Seq(Edit)
      /\ \A i \in 1 .. Len(f) : l[i] = f[i]
  BY <1>1, AppendFacts
<1>0. /\ x.pos \in Nat /\ x.del \in Nat
      /\ \A i \in 1 .. Len(f) : f[i].pos \in Nat /\ f[i].del \in Nat
  <2>1. \A i \in 1 .. Len(f) : f[i] \in Edit
    OBVIOUS
  <2> QED BY <2>1 DEF Edit
<1>3. ASSUME Canon(l, len) PROVE Canon(f, len) /\ Follows(f, x, len)
  <2>1. Disjoint(l) /\ InBounds(l, len)
    BY <1>3 DEF Canon
  <2>2. InBounds(f, len)
    <3> SUFFICES ASSUME NEW i \in 1 .. Len(f) PROVE f[i].pos <= len /\ End(f[i]) <= len
      BY DEF InBounds
    <3>1. i \in 1 .. Len(l) /\ l[i] = f[i]
      BY <1>2
    <3> QED BY <3>1, <2>1 DEF InBounds
  <2>3. Disjoint(f)
    <3> SUFFICES ASSUME NEW i \in 1 .. Len(f) - 1
                 PROVE  f[i + 1].pos # f[i].pos /\ f[i + 1].pos >= End(f[i])
      BY DEF Disjoint
    <3>1. i \in 1 .. Len(l) - 1 /\ l[i] = f[i] /\ l[i + 1] = f[i + 1]
      BY <1>2
    <3> QED BY <3>1, <2>1 DEF Disjoint
  <2>4. End(x) <= len
    <3>1. Len(l) \in 1 .. Len(l) /\ l[Len(l)] = x
      BY <1>2
    <3> QED BY <3>1, <2>1 DEF InBounds
  <2>5. CASE Len(f) = 0
    <3>1. Stop(f) = 0
      BY <2>5 DEF Stop, Cursor
    <3>2. Follows(f, x, len)
      BY <3>1, <2>4, <2>5, <1>0 DEF Follows
    <3> QED BY <3>2, <2>2, <2>3 DEF Canon
  <2>6. CASE Len(f) # 0
    <3>1. PICK i : i = Len(f)
      OBVIOUS
    <3>2. i \in 1 .. Len(f) /\ i \in 1 .. Len(l) - 1 /\ i # 0
      BY <3>1, <2>6, <1>2
    <3>3. l[i] = f[i] /\ l[i + 1] = x
      BY <3>1, <3>2, <1>2
    <3>4. x.pos # f[i].pos /\ x.pos >= End(f[i])
      BY <3>2, <3>3, <2>1 DEF Disjoint
    <3>5. Stop(f) = f[i].pos + f[i].del
      BY <3>1, <3>2 DEF Stop, Cursor, End
    <3>6. Stop(f) <= x.pos
      BY <3>2, <3>4, <3>5, <1>0 DEF End
    <3>7. Follows(f, x, len)
      BY <3>1, <3>4, <3>6, <2>4 DEF Follows
    <3> QED BY <3>7, <2>2, <2>3 DEF Canon
  <2> QED BY <2>5, <2>6
<1>4. ASSUME Canon(f, len), Follows(f, x, len) PROVE Canon(l, len)
  <2>1. Disjoint(f) /\ InBounds(f, len) /\ Stop(f) <= x.pos /\ End(x) <= len
    BY <1>4 DEF Canon, Follows
  <2>2. InBounds(l, len)
    <3> SUFFICES ASSUME NEW i \in 1 .. Len(l) PROVE l[i].pos <= len /\ End(l[i]) <= len
      BY DEF InBounds
    <3>1. CASE i \in 1 .. Len(f)
      <4>1. l[i] = f[i]
        BY <3>1, <1>2
      <4> QED BY <4>1, <3>1, <2>1 DEF InBounds
    <3>2. CASE i = Len(f) + 1
      <4>1. l[i] = x
        BY <3>2, <1>2
      <4> QED BY <4>1, <2>1, <1>0 DEF End
    <3> QED BY <3>1, <3>2, <1>2
  <2>3. Disjoint(l)
    <3> SUFFICES ASSUME NEW i \in 1 .. Len(l) - 1
                 PROVE  l[i + 1].pos # l[i].pos /\ l[i + 1].pos >= End(l[i])
      BY DEF Disjoint
    <3>1. i \in 1 .. Len(f) /\ l[i] = f[i]
      BY <1>2
    <3>2. CASE i = Len(f)
      <4>1. l[i + 1] = x
        BY <3>2, <1>2
      <4>2. Stop(f) = End(f[i])
        BY <3>1, <3>2 DEF Stop, Cursor
      <4>3. x.pos # f[i].pos
        BY <3>1, <3>2, <1>4 DEF Follows
      <4>4. x.pos >= End(f[i])
        BY <4>2, <3>1, <2>1, <1>0 DEF End
      <4> QED BY <3>1, <4>1, <4>3, <4>4
    <3>3. CASE i # Len(f)
      <4>1. i \in 1 .. Len(f) - 1 /\ i + 1 \in 1 .. Len(f)
        BY <3>1, <3>3
      <4>2. l[i + 1] = f[i + 1]
        BY <4>1, <1>2
      <4> QED BY <4>1, <4>2, <3>1, <2>1 DEF Disjoint
    <3> QED BY <3>2, <3>3
  <2> QED BY <1>2, <2>2, <2>3 DEF Canon
<1> QED BY <1>1, <1>3, <1>4

LEMMA ListInduct ==
    ASSUME NEW S, NEW Q \in SUBSET Seq(S), <<>> \in Q,
           \A f \in Q : \A x \in S : Append(f, x) \in Q
    PROVE  Q = Seq(S)
<1> DEFINE P == {n \in Nat : \A l \in Seq(S) : Len(l) = n => l \in Q}
<1>1. 0 \in P
  <2>1. \A l \in Seq(S) : Len(l) = 0 => l = <<>>
    OBVIOUS
  <2> QED BY <2>1
<1>2. ASSUME NEW n \in P PROVE n + 1 \in P
  <2> SUFFICES ASSUME NEW l \in Seq(S), Len(l) = n + 1 PROVE l \in Q
    OBVIOUS
  <2>1. Len(l) > 0
    OBVIOUS
  <2>2. PICK f \in Seq(S), x \in S : l = Append(f, x) /\ Len(l) = Len(f) + 1 /\ l[Len(l)] = x
    BY <2>1, LastFacts
  <2>3. Len(f) = n
    BY <2>2
  <2>4. f \in Q
    BY <2>3
  <2> QED BY <2>2, <2>4
<1> HIDE DEF P
<1>3. P = Nat
  <2>1. P \in SUBSET Nat
    BY DEF P
  <2> QED BY <1>1, <1>2, <2>1, Induct
<1>4. ASSUME NEW l \in Seq(S) PROVE l \in Q
  <2>1. Len(l) \in P
    BY <1>3
  <2> QED BY <2>1 DEF P
<1> QED BY <1>4

LEMMA NoEdits ==
    ASSUME NEW b \in Str
    PROVE  /\ Canon(<<>>, Len(b)) /\ Stop(<<>>) = 0 /\ Written(<<>>, b) = <<>>
<1>1. Canon(<<>>, Len(b))
  <2>1. <<>> \in Seq(Edit)
    OBVIOUS
  <2>2. Disjoint(<<>>)
    BY DEF Disjoint
  <2>3. InBounds(<<>>, Len(b))
    BY DEF InBounds
  <2> QED BY <2>1, <2>2, <2>3 DEF Canon
<1>2. Stop(<<>>) = 0
  BY DEF Stop, Cursor
<1>3. PICK l, c : l = <<>> /\ c = Copied(l, b)
  OBVIOUS
<1>4. Canon(l, Len(b))
  BY <1>1, <1>3
<1>5. c[0] = <<>>
  BY <1>3, <1>4, CopiedFacts
<1>6. Len(l) = 0
  BY <1>3
<1> QED BY <1>1, <1>2, <1>3, <1>5, <1>6 DEF Written

LEMMA StopFacts ==
    ASSUME NEW len \in Nat, NEW l, Canon(l, len)
    PROVE  Stop(l) \in Nat /\ Stop(l) <= len
<1>1. PICK n : n = Len(l)
  OBVIOUS
<1>2. n \in 0 .. Len(l)
  BY <1>1 DEF Canon
<1> QED BY <1>1, <1>2, CursorFacts DEF Stop

LEMMA FollowsFacts ==
    ASSUME NEW len \in Nat, NEW f \in Seq(Edit), NEW x \in Edit, Canon(Append(f, x), len)
    PROVE  /\ Canon(f, len) /\ Follows(f, x, len) /\ Stop(Append(f, x)) = End(x)
           /\ Stop(f) \in Nat /\ x.pos \in Nat /\ x.del \in Nat /\ x.ins \in Str
           /\ End(x) \in Nat /\ End(x) = x.pos + x.del /\ Len(x.ins) \in Nat
           /\ Stop(f) <= x.pos /\ x.pos <= End(x) /\ End(x) <= len
<1>1. Canon(f, len) /\ Follows(f, x, len)
  BY CanonOfAppend
<1>2. Stop(Append(f, x)) = End(x)
  BY CursorOfAppend
<1>3. Stop(f) \in Nat
  BY <1>1, StopFacts
<1>4. x.pos \in Nat /\ x.del \in Nat /\ x.ins \in Str
  BY DEF Edit
<1>5. Len(x.ins) \in Nat
  BY <1>4 DEF Str
<1>6. End(x) = x.pos + x.del
  BY DEF End
<1>7. Stop(f) <= x.pos /\ End(x) <= len
  BY <1>1 DEF Follows
<1> QED BY <1>1, <1>2, <1>3, <1>4, <1>5, <1>6, <1>7

LEMMA WrittenAppend ==
    ASSUME NEW b \in Str, NEW f \in Seq(Edit), NEW x \in Edit, Canon(Append(f, x), Len(b))
    PROVE  /\ Written(f, b) \in Str /\ Slice(b, Stop(f), x.pos) \in Str
           /\ Written(Append(f, x), b) = Written(f, b) \o Slice(b, Stop(f), x.pos) \o x.ins
<1>0. Len(b) \in Nat
  BY DEF Str
<1>1. PICK l, c, d, N : l = Append(f, x) /\ c = Copied(l, b) /\ d = Copied(f, b) /\ N = Len(f)
  OBVIOUS
<1>2. /\ Len(l) = N + 1 /\ N \in Nat /\ l[N + 1] = x
      /\ \A i \in 1 .. N : l[i] = f[i]
  BY <1>1, AppendFacts
<1>3. Canon(f, Len(b)) /\ Canon(l, Len(b))
  BY <1>0, <1>1, FollowsFacts
<1>4. /\ c[0] = <<>>
      /\ \A n \in 1 .. N + 1 :
            c[n] = c[n - 1] \o Slice(b, Cursor(l, n - 1), l[n].pos) \o l[n].ins
  <2>1. /\ c[0] = <<>>
        /\ \A n \in 1 .. Len(l) :
             c[n] = c[n - 1] \o Slice(b, Cursor(l, n - 1), l[n].pos) \o l[n].ins
    BY <1>1, <1>3, CopiedFacts
  <2> QED BY <2>1, <1>2
<1>5. /\ d[0] = <<>> /\ d \in [0 .. N -> Str]
      /\ \A n \in 1 .. N :
            d[n] = d[n - 1] \o Slice(b, Cursor(f, n - 1), f[n].pos) \o f[n].ins
  <2>1. /\ d[0] = <<>> /\ d \in [0 .. Len(f) -> Str]
        /\ \A n \in 1 .. Len(f) :
             d[n] = d[n - 1] \o Slice(b, Cursor(f, n - 1), f[n].pos) \o f[n].ins
    BY <1>1, <1>3, CopiedFacts
  <2> QED BY <2>1, <1>1
<1>6. \A k \in 0 .. N : Cursor(l, k) = Cursor(f, k)
  BY <1>1, CursorOfAppend
<1> DEFINE P == {n \in Nat : n <= N => c[n] = d[n]}
<1>7. 0 \in P
  BY <1>4, <1>5
<1>8. ASSUME NEW n \in P PROVE n + 1 \in P
  <2> SUFFICES ASSUME n + 1 <= N PROVE c[n + 1] = d[n + 1]
    OBVIOUS
  <2>1. n + 1 \in 1 .. N + 1 /\ n + 1 \in 1 .. N /\ (n + 1) - 1 = n /\ n \in 0 .. N
    BY <1>2
  <2>2. c[n] = d[n]
    BY <2>1
  <2>3. c[n + 1] = c[n] \o Slice(b, Cursor(l, n), l[n + 1].pos) \o l[n + 1].ins
    BY <2>1, <1>4
  <2>4. d[n + 1] = d[n] \o Slice(b, Cursor(f, n), f[n + 1].pos) \o f[n + 1].ins
    BY <2>1, <1>5
  <2>5. l[n + 1] = f[n + 1] /\ Cursor(l, n) = Cursor(f, n)
    BY <2>1, <1>2, <1>6
  <2> QED BY <2>2, <2>3, <2>4, <2>5
<1> HIDE DEF P
<1>9. P = Nat
  <2>1. P \in SUBSET Nat
    BY DEF P
  <2> QED BY <1>7, <1>8, <2>1, Induct
<1>10. c[N] = d[N]
  BY <1>2, <1>9 DEF P
<1>11. c[N + 1] = c[N] \o Slice(b, Cursor(l, N), l[N + 1].pos) \o l[N + 1].ins
  <2>1. N + 1 \in 1 .. N + 1 /\ (N + 1) - 1 = N
    BY <1>2
  <2> QED BY <2>1, <1>4
<1>12. Cursor(l, N) = Stop(f)
  BY <1>1, <1>2, <1>6 DEF Stop
<1>13. d[N] \in Str
  BY <1>2, <1>5
<1>14. Slice(b, Stop(f), x.pos) \in Str
  <2>1. Stop(f) \in Nat /\ x.pos \in Nat /\ Stop(f) <= x.pos /\ x.pos <= Len(b)
    BY <1>0, FollowsFacts
  <2> QED BY <2>1, SliceFacts DEF Str
<1> QED BY <1>1, <1>2, <1>10, <1>11, <1>12, <1>13, <1>14 DEF Written

LEMMA WrittenTyped ==
    ASSUME NEW b \in Str, NEW l, Canon(l, Len(b))
    PROVE  Written(l, b) \in Str
<1>1. PICK c, n : c = Copied(l, b) /\ n = Len(l)
  OBVIOUS
<1>2. n \in Nat /\ c \in [0 .. n -> Str]
  BY <1>1, CopiedFacts
<1>3. c[n] \in Str
  BY <1>2
<1> QED BY <1>1, <1>3 DEF Written

\* The bounds of a list are where it stops.
LEMMA CanonNarrows ==
    ASSUME NEW l, NEW len \in Nat, NEW m \in Nat, Canon(l, len), Stop(l) <= m
    PROVE  Canon(l, m)
<1> DEFINE Q == {f \in Seq(Edit) : Canon(f, len) => \A k \in Nat : Stop(f) <= k => Canon(f, k)}
<1>1. <<>> \in Q
  <2>1. <<>> \in Seq(Edit)
    OBVIOUS
  <2>2. \A k : Canon(<<>>, k)
    BY DEF Canon, Disjoint, InBounds
  <2> QED BY <2>1, <2>2
<1>2. ASSUME NEW f \in Q, NEW x \in Edit PROVE Append(f, x) \in Q
  <2>0. f \in Seq(Edit) /\ Append(f, x) \in Seq(Edit)
    BY AppendFacts
  <2> SUFFICES ASSUME Canon(Append(f, x), len), NEW k \in Nat, Stop(Append(f, x)) <= k
               PROVE  Canon(Append(f, x), k)
    BY <2>0
  <2>1. /\ Canon(f, len) /\ Follows(f, x, len) /\ Stop(Append(f, x)) = End(x)
        /\ Stop(f) \in Nat /\ x.pos \in Nat /\ End(x) \in Nat
        /\ Stop(f) <= x.pos /\ x.pos <= End(x)
    BY <2>0, FollowsFacts
  <2>2. Stop(f) <= k /\ End(x) <= k
    BY <2>1
  <2>3. Canon(f, k)
    BY <2>1, <2>2
  <2>4. Follows(f, x, k)
    BY <2>1, <2>2 DEF Follows
  <2> QED BY <2>0, <2>3, <2>4, CanonOfAppend
<1> HIDE DEF Q
<1>3. Q = Seq(Edit)
  <2>1. Q \in SUBSET Seq(Edit)
    BY DEF Q
  <2> QED BY <1>1, <1>2, <2>1, ListInduct
<1>4. l \in Q
  BY <1>3 DEF Canon
<1> QED BY <1>4 DEF Q

\* apply_to writes nothing that lies past the end of its edits.
LEMMA WrittenOfPrefix ==
    ASSUME NEW a \in Str, NEW t \in Str, NEW l, Canon(l, Len(a))
    PROVE  Canon(l, Len(a \o t)) /\ Written(l, a \o t) = Written(l, a)
<1>0. /\ Len(a) \in Nat /\ Len(t) \in Nat /\ a \o t \in Str /\ Len(a \o t) \in Nat
      /\ Len(a \o t) = Len(a) + Len(t)
  BY DEF Str
<1>1. PICK b : b = a \o t
  OBVIOUS
<1>2. b \in Str /\ Len(b) \in Nat /\ Len(a) <= Len(b)
  BY <1>0, <1>1
<1>3. ASSUME NEW k, Canon(k, Len(a)) PROVE Canon(k, Len(b))
  <2>1. Stop(k) \in Nat /\ Stop(k) <= Len(b)
    <3>1. Stop(k) \in Nat /\ Stop(k) <= Len(a)
      BY <1>0, <1>3, StopFacts
    <3> QED BY <3>1, <1>0, <1>2
  <2> QED BY <2>1, <1>0, <1>2, <1>3, CanonNarrows
<1> DEFINE Q == {f \in Seq(Edit) : Canon(f, Len(a)) => Written(f, b) = Written(f, a)}
<1>4. <<>> \in Q
  <2>1. <<>> \in Seq(Edit)
    OBVIOUS
  <2>2. Written(<<>>, b) = <<>> /\ Written(<<>>, a) = <<>>
    BY <1>2, NoEdits
  <2> QED BY <2>1, <2>2
<1>5. ASSUME NEW f \in Q, NEW x \in Edit PROVE Append(f, x) \in Q
  <2>0. f \in Seq(Edit) /\ Append(f, x) \in Seq(Edit)
    BY AppendFacts
  <2> SUFFICES ASSUME Canon(Append(f, x), Len(a))
               PROVE  Written(Append(f, x), b) = Written(Append(f, x), a)
    BY <2>0
  <2>1. Canon(f, Len(a)) /\ Canon(Append(f, x), Len(b))
    BY <2>0, <1>0, <1>3, FollowsFacts
  <2>2. Written(f, b) = Written(f, a)
    BY <2>1
  <2>3. Written(Append(f, x), b) = Written(f, b) \o Slice(b, Stop(f), x.pos) \o x.ins
    BY <2>0, <2>1, <1>2, WrittenAppend
  <2>4. Written(Append(f, x), a) = Written(f, a) \o Slice(a, Stop(f), x.pos) \o x.ins
    BY <2>0, WrittenAppend
  <2>5. Slice(b, Stop(f), x.pos) = Slice(a, Stop(f), x.pos)
    <3>1. Stop(f) \in Nat /\ x.pos \in Nat /\ Stop(f) <= x.pos /\ x.pos <= Len(a)
      BY <2>0, <1>0, FollowsFacts
    <3> QED BY <3>1, <1>1, SliceLeft DEF Str
  <2> QED BY <2>2, <2>3, <2>4, <2>5
<1> HIDE DEF Q
<1>6. Q = Seq(Edit)
  <2>1. Q \in SUBSET Seq(Edit)
    BY DEF Q
  <2> QED BY <1>4, <1>5, <2>1, ListInduct
<1>7. l \in Q
  BY <1>6 DEF Canon
<1> QED BY <1>1, <1>3, <1>7 DEF Q

----------------------------------------------------------------------------
(* Applying a list is splicing its edits, the last first.                  *)

\* What apply_to has written is followed by the rest of the text.
LEMMA AppliedFacts ==
    ASSUME NEW b \in Str, NEW l, Canon(l, Len(b))
    PROVE  /\ ApplyTo(l, b) = Written(l, b) \o Slice(b, Stop(l), Len(b))
           /\ Written(l, b) \in Str /\ Slice(b, Stop(l), Len(b)) \in Str /\ ApplyTo(l, b) \in Str
<1>0. Len(b) \in Nat
  BY DEF Str
<1>1. ApplyTo(l, b) = Written(l, b) \o Slice(b, Stop(l), Len(b))
  BY DEF ApplyTo, Written, Stop
<1>2. Written(l, b) \in Str
  BY WrittenTyped
<1>3. Slice(b, Stop(l), Len(b)) \in Str
  <2>1. Stop(l) \in Nat /\ Stop(l) <= Len(b)
    BY <1>0, StopFacts
  <2> QED BY <2>1, <1>0, StrSlice
<1>4. PICK u, v : u = Written(l, b) /\ v = Slice(b, Stop(l), Len(b))
  OBVIOUS
<1>5. u \o v \in Str
  BY <1>2, <1>3, <1>4 DEF Str
<1> QED BY <1>1, <1>2, <1>3, <1>4, <1>5

\* Splicing in the last edit leaves the others where they were.
LEMMA ApplySplices ==
    ASSUME NEW b \in Str, NEW f \in Seq(Edit), NEW x \in Edit, Canon(Append(f, x), Len(b))
    PROVE  /\ Splice(b, x) \in Str /\ Canon(f, Len(Splice(b, x)))
           /\ ApplyTo(Append(f, x), b) = ApplyTo(f, Splice(b, x))
<1>0. Len(b) \in Nat
  BY DEF Str
<1>1. PICK p, q, r, i : p = Stop(f) /\ q = x.pos /\ r = End(x) /\ i = x.ins
  OBVIOUS
<1>2. /\ p \in Nat /\ q \in Nat /\ r \in Nat /\ i \in Str /\ p <= q /\ q <= r /\ r <= Len(b)
      /\ Canon(f, Len(b)) /\ Stop(Append(f, x)) = r
  BY <1>0, <1>1, FollowsFacts
<1>3. PICK a, t : a = Slice(b, 0, q) /\ t = Slice(b, r, Len(b))
  OBVIOUS
<1>4. a \in Str /\ Len(a) = q
  <2>1. 0 \in Nat /\ 0 <= q /\ q <= Len(b)
    BY <1>0, <1>2
  <2> QED BY <2>1, <1>2, <1>3, StrSlice
<1>5. t \in Str
  BY <1>0, <1>2, <1>3, StrSlice
<1>6. PICK s : s = (a \o i) \o t
  OBVIOUS
<1>7. s = Splice(b, x)
  BY <1>1, <1>3, <1>6 DEF Splice
<1>8. s = a \o (i \o t)
  BY <1>2, <1>4, <1>5, <1>6, StrAssoc
<1>9. i \o t \in Str /\ s \in Str /\ Len(s) = Len(a) + Len(i \o t) /\ Len(i \o t) \in Nat
  <2>1. i \o t \in Str
    BY <1>2, <1>5, StrConcat
  <2> QED BY <2>1, <1>4, <1>8, StrConcat
<1>10. Canon(f, Len(a))
  BY <1>0, <1>1, <1>2, <1>4, CanonNarrows
<1>11. Canon(f, Len(s)) /\ Written(f, s) = Written(f, a)
  BY <1>4, <1>8, <1>9, <1>10, WrittenOfPrefix
<1>12. Written(f, b) = Written(f, a)
  <2>1. PICK u : u = Slice(b, q, Len(b))
    OBVIOUS
  <2>2. u \in Str
    <3>1. q <= Len(b) /\ Len(b) <= Len(b)
      BY <1>0, <1>2
    <3> QED BY <3>1, <2>1, <1>0, <1>2, StrSlice
  <2>3. a \o u = b
    <3>1. Slice(b, 0, q) \o Slice(b, q, Len(b)) = Slice(b, 0, Len(b))
      <4>1. q \in Nat /\ Len(b) \in Nat /\ q <= Len(b) /\ Len(b) <= Len(b)
        BY <1>0, <1>2
      <4> QED BY <4>1, StrPrefix
    <3> QED BY <3>1, <2>1, <1>3, StrWhole
  <2> QED BY <2>2, <2>3, <1>4, <1>10, WrittenOfPrefix
<1>13. PICK w, m : w = Written(f, b) /\ m = Slice(b, p, q)
  OBVIOUS
<1>14. w \in Str /\ m \in Str /\ Written(Append(f, x), b) = w \o m \o i
  BY <1>1, <1>13, WrittenAppend
<1>15. ApplyTo(Append(f, x), b) = ((w \o m) \o i) \o t
  <2>1. ApplyTo(Append(f, x), b) = Written(Append(f, x), b) \o Slice(b, Stop(Append(f, x)), Len(b))
    BY AppliedFacts
  <2> QED BY <2>1, <1>2, <1>3, <1>14
<1>16. ApplyTo(f, s) = w \o (m \o (i \o t))
  <2>1. ApplyTo(f, s) = Written(f, s) \o Slice(s, p, Len(s))
    BY <1>1, <1>9, <1>11, AppliedFacts
  <2>2. Slice(s, p, Len(s)) = Slice(s, p, q) \o Slice(s, q, Len(s))
    <3>1. q <= Len(s) /\ Len(s) \in Nat
      BY <1>2, <1>4, <1>9
    <3> QED BY <3>1, <1>2, <1>9, StrJoin
  <2>3. Slice(s, p, q) = m
    <3>1. Slice(s, p, q) = Slice(a, p, q)
      BY <1>2, <1>4, <1>8, <1>9, StrLeft
    <3>2. Slice(a, p, q) = Slice(b, p, q)
      BY <1>0, <1>2, <1>3 DEF Slice, Str
    <3> QED BY <3>1, <3>2, <1>13
  <2>4. Slice(s, q, Len(s)) = i \o t
    <3>1. q <= Len(s) /\ Len(s) \in Nat /\ Len(a) <= q /\ Len(s) <= Len(a) + Len(i \o t)
          /\ Len(s) - Len(a) = Len(i \o t) /\ q - Len(a) = 0
      BY <1>2, <1>4, <1>9
    <3>2. PICK v : v = i \o t
      OBVIOUS
    <3>3. v \in Str /\ s = a \o v /\ Len(s) <= Len(a) + Len(v) /\ Len(s) - Len(a) = Len(v)
      BY <3>1, <3>2, <1>8, <1>9
    <3>4. Slice(a \o v, q, Len(s)) = Slice(v, q - Len(a), Len(s) - Len(a))
      BY <3>1, <3>3, <1>2, <1>4, StrRight
    <3>5. Slice(v, 0, Len(v)) = v
      BY <3>3, StrWhole
    <3> QED BY <3>1, <3>2, <3>3, <3>4, <3>5
  <2> QED BY <2>1, <2>2, <2>3, <2>4, <1>11, <1>12, <1>13
<1>17. ((w \o m) \o i) \o t = w \o (m \o (i \o t))
  <2>1. w \in Str /\ m \in Str /\ i \in Str /\ t \in Str
    BY <1>2, <1>5, <1>14
  <2>2. Cat(Cat(Cat(w, m), i), t) = Cat(w, Cat(m, Cat(i, t)))
    BY <2>1, CatRegroups
  <2> QED BY <2>2 DEF Cat
<1> QED BY <1>7, <1>9, <1>11, <1>15, <1>16, <1>17

\* The texts that splicing goes through.
After(b, l) ==
    CHOOSE g : g = [n \in 0 .. Len(l) |-> IF n = 0 THEN b ELSE Splice(g[n - 1], l[Len(l) + 1 - n])]

LEMMA AfterFacts ==
    ASSUME NEW b, NEW l, Len(l) \in Nat
    PROVE  /\ Spliced(b, l) = After(b, l)[Len(l)] /\ After(b, l)[0] = b
           /\ \A n \in 1 .. Len(l) : After(b, l)[n] = Splice(After(b, l)[n - 1], l[Len(l) + 1 - n])
<1> DEFINE N == Len(l)
           step(n, s) == Splice(s, l[N + 1 - n])
           Rec(g, m) == g = [n \in 0 .. m |-> IF n = 0 THEN b ELSE step(n, g[n - 1])]
           P == {m \in Nat : \E g : Rec(g, m)}
<1> HIDE DEF step
<1>1. 0 \in P
  <2> DEFINE h == [n \in 0 .. 0 |-> b]
  <2>1. Rec(h, 0)
    OBVIOUS
  <2> QED BY <2>1
<1>2. ASSUME NEW m \in P PROVE m + 1 \in P
  <2>1. PICK g : Rec(g, m)
    OBVIOUS
  <2> DEFINE h == [n \in 0 .. m + 1 |-> IF n = m + 1 THEN step(n, g[m]) ELSE g[n]]
  <2>3. ASSUME NEW n \in 0 .. m + 1
        PROVE  h[n] = IF n = 0 THEN b ELSE step(n, h[n - 1])
    <3>1. CASE n = 0
      <4>1. h[0] = g[0] /\ g[0] = b
        BY <2>1
      <4> QED BY <3>1, <4>1
    <3>2. CASE n = m + 1
      <4>1. h[n] = step(n, g[m]) /\ h[n - 1] = g[m] /\ n # 0
        BY <3>2
      <4> HIDE DEF h
      <4> QED BY <4>1
    <3>3. CASE n # 0 /\ n # m + 1
      <4>1. h[n] = g[n] /\ h[n - 1] = g[n - 1] /\ n \in 0 .. m
        BY <3>3
      <4> HIDE DEF h
      <4>2. g[n] = step(n, g[n - 1])
        BY <2>1, <3>3, <4>1
      <4> QED BY <3>3, <4>1, <4>2
    <3> QED BY <3>1, <3>2, <3>3
  <2>4. h = [n \in 0 .. m + 1 |-> h[n]]
    OBVIOUS
  <2> HIDE DEF h
  <2>5. Rec(h, m + 1)
    <3>1. [n \in 0 .. m + 1 |-> h[n]] = [n \in 0 .. m + 1 |-> IF n = 0 THEN b ELSE step(n, h[n - 1])]
      BY <2>3
    <3> QED BY <3>1, <2>4, Zenon
  <2> HIDE DEF Rec
  <2>6. \E k : Rec(k, m + 1)
    BY <2>5
  <2>7. m + 1 \in Nat
    OBVIOUS
  <2> QED BY <2>6, <2>7
<1>3. P = Nat
  <2>1. P \in SUBSET Nat
    OBVIOUS
  <2> HIDE DEF P
  <2> QED BY <1>1, <1>2, <2>1, Induct
<1>4. \E g : Rec(g, N)
  BY <1>3
<1>5. After(b, l) = CHOOSE g : Rec(g, N)
  BY DEF After, step
<1>6. Rec(After(b, l), N)
  BY <1>4, <1>5
<1>7. PICK a : a = After(b, l)
  OBVIOUS
<1>8. a[0] = b
  BY <1>6, <1>7
<1>9. ASSUME NEW n \in 1 .. N PROVE a[n] = step(n, a[n - 1])
  BY <1>6, <1>7
<1>10. Spliced(b, l) = a[N]
  BY <1>7 DEF Spliced, After
<1> QED BY <1>7, <1>8, <1>9, <1>10 DEF step

LEMMA SplicedAppend ==
    ASSUME NEW b, NEW f \in Seq(Edit), NEW x \in Edit
    PROVE  Spliced(b, Append(f, x)) = Spliced(Splice(b, x), f)
<1>1. PICK l, s, N : l = Append(f, x) /\ s = Splice(b, x) /\ N = Len(f)
  OBVIOUS
<1>2. /\ Len(l) = N + 1 /\ N \in Nat /\ l[N + 1] = x
      /\ \A i \in 1 .. N : l[i] = f[i]
  BY <1>1, AppendFacts
<1>3. PICK g, h : g = After(b, l) /\ h = After(s, f)
  OBVIOUS
<1>4. /\ Spliced(b, l) = g[N + 1] /\ g[0] = b
      /\ \A n \in 1 .. N + 1 : g[n] = Splice(g[n - 1], l[(N + 1) + 1 - n])
  <2>1. Len(l) \in Nat
    BY <1>2
  <2>2. /\ Spliced(b, l) = g[Len(l)] /\ g[0] = b
        /\ \A n \in 1 .. Len(l) : g[n] = Splice(g[n - 1], l[Len(l) + 1 - n])
    BY <2>1, <1>3, AfterFacts
  <2> QED BY <2>2, <1>2
<1>5. /\ Spliced(s, f) = h[N] /\ h[0] = s
      /\ \A n \in 1 .. N : h[n] = Splice(h[n - 1], f[N + 1 - n])
  <2>1. Len(f) \in Nat
    BY <1>1, <1>2
  <2>2. /\ Spliced(s, f) = h[Len(f)] /\ h[0] = s
        /\ \A n \in 1 .. Len(f) : h[n] = Splice(h[n - 1], f[Len(f) + 1 - n])
    BY <2>1, <1>3, AfterFacts
  <2> QED BY <2>2, <1>1
<1> DEFINE P == {n \in Nat : n <= N => g[n + 1] = h[n]}
<1>6. 0 \in P
  <2>1. 1 \in 1 .. N + 1 /\ 1 - 1 = 0 /\ (N + 1) + 1 - 1 = N + 1
    BY <1>2
  <2>2. g[1] = Splice(g[0], l[N + 1])
    BY <2>1, <1>4
  <2>3. g[0 + 1] = h[0]
    BY <2>2, <1>1, <1>2, <1>4, <1>5
  <2> QED BY <2>3
<1>7. ASSUME NEW n \in P PROVE n + 1 \in P
  <2> SUFFICES ASSUME n + 1 <= N PROVE g[(n + 1) + 1] = h[n + 1]
    OBVIOUS
  <2>1. /\ (n + 1) + 1 \in 1 .. N + 1 /\ ((n + 1) + 1) - 1 = n + 1 /\ n + 1 \in 1 .. N /\ (n + 1) - 1 = n
        /\ (N + 1) + 1 - ((n + 1) + 1) = N - n /\ N + 1 - (n + 1) = N - n /\ N - n \in 1 .. N
    BY <1>2
  <2>2. g[(n + 1) + 1] = Splice(g[n + 1], l[N - n])
    BY <2>1, <1>4
  <2>3. h[n + 1] = Splice(h[n], f[N - n])
    BY <2>1, <1>5
  <2>4. g[n + 1] = h[n]
    <3>1. n \in P /\ n <= N
      BY <2>1, <1>2
    <3> QED BY <3>1
  <2>5. l[N - n] = f[N - n]
    BY <2>1, <1>2
  <2> QED BY <2>2, <2>3, <2>4, <2>5
<1> HIDE DEF P
<1>8. P = Nat
  <2>1. P \in SUBSET Nat
    BY DEF P
  <2> QED BY <1>6, <1>7, <2>1, Induct
<1>9. g[N + 1] = h[N]
  BY <1>2, <1>8 DEF P
<1> QED BY <1>1, <1>4, <1>5, <1>9

\* apply_to is splicing, whatever the text and the list.
LEMMA AppliedIsSpliced ==
    ASSUME NEW b \in Str, NEW l, Canon(l, Len(b))
    PROVE  ApplyTo(l, b) = Spliced(b, l)
<1> DEFINE Q == {f \in Seq(Edit) : \A a \in Str : Canon(f, Len(a)) => ApplyTo(f, a) = Spliced(a, f)}
<1>1. <<>> \in Q
  <2>1. <<>> \in Seq(Edit)
    OBVIOUS
  <2>2. ASSUME NEW a \in Str PROVE ApplyTo(<<>>, a) = Spliced(a, <<>>)
    <3>1. ApplyTo(<<>>, a) = <<>> \o Slice(a, 0, Len(a))
      BY NoEdits, AppliedFacts
    <3>2. <<>> \o Slice(a, 0, Len(a)) = a
      BY StrWhole, StrNone
    <3>3. PICK e : e = <<>>
      OBVIOUS
    <3>4. Len(e) = 0 /\ Len(e) \in Nat
      BY <3>3
    <3>5. Spliced(a, e) = After(a, e)[Len(e)] /\ After(a, e)[0] = a
      BY <3>4, AfterFacts
    <3> QED BY <3>1, <3>2, <3>3, <3>4, <3>5
  <2> QED BY <2>1, <2>2
<1>2. ASSUME NEW f \in Q, NEW x \in Edit PROVE Append(f, x) \in Q
  <2>0. f \in Seq(Edit) /\ Append(f, x) \in Seq(Edit)
    BY AppendFacts
  <2> SUFFICES ASSUME NEW a \in Str, Canon(Append(f, x), Len(a))
               PROVE  ApplyTo(Append(f, x), a) = Spliced(a, Append(f, x))
    BY <2>0
  <2>1. /\ Splice(a, x) \in Str /\ Canon(f, Len(Splice(a, x)))
        /\ ApplyTo(Append(f, x), a) = ApplyTo(f, Splice(a, x))
    BY <2>0, ApplySplices
  <2>2. ApplyTo(f, Splice(a, x)) = Spliced(Splice(a, x), f)
    BY <2>1
  <2>3. Spliced(a, Append(f, x)) = Spliced(Splice(a, x), f)
    BY <2>0, SplicedAppend
  <2> QED BY <2>1, <2>2, <2>3
<1> HIDE DEF Q
<1>3. Q = Seq(Edit)
  <2>1. Q \in SUBSET Seq(Edit)
    BY DEF Q
  <2> QED BY <1>1, <1>2, <2>1, ListInduct
<1>4. l \in Q
  BY <1>3 DEF Canon
<1> QED BY <1>4 DEF Q

----------------------------------------------------------------------------
(* The inverse of a list.                                                  *)

InverseDone(l, b) == Inverses(l, b)[Len(l)]

LEMMA InversesFacts ==
    ASSUME NEW b, NEW l, Len(l) \in Nat
    PROVE  /\ Inverses(l, b)[0] = [inv |-> <<>>, delta |-> 0]
           /\ \A n \in 1 .. Len(l) : Inverses(l, b)[n] = InverseStep(Inverses(l, b)[n - 1], l[n], b)
<1>0. PICK d : d = [inv |-> <<>>, delta |-> 0]
  OBVIOUS
<1> DEFINE N == Len(l)
           step(n, s) == InverseStep(s, l[n], b)
           Rec(g, m) == g = [n \in 0 .. m |-> IF n = 0 THEN d ELSE step(n, g[n - 1])]
           P == {m \in Nat : \E g : Rec(g, m)}
<1> HIDE DEF step
<1>1. 0 \in P
  <2> DEFINE h == [n \in 0 .. 0 |-> d]
  <2>1. Rec(h, 0)
    OBVIOUS
  <2> QED BY <2>1
<1>2. ASSUME NEW m \in P PROVE m + 1 \in P
  <2>1. PICK g : Rec(g, m)
    OBVIOUS
  <2> DEFINE h == [n \in 0 .. m + 1 |-> IF n = m + 1 THEN step(n, g[m]) ELSE g[n]]
  <2>3. ASSUME NEW n \in 0 .. m + 1
        PROVE  h[n] = IF n = 0 THEN d ELSE step(n, h[n - 1])
    <3>1. CASE n = 0
      <4>1. h[0] = g[0] /\ g[0] = d
        BY <2>1
      <4> QED BY <3>1, <4>1
    <3>2. CASE n = m + 1
      <4>1. h[n] = step(n, g[m]) /\ h[n - 1] = g[m] /\ n # 0
        BY <3>2
      <4> HIDE DEF h
      <4> QED BY <4>1
    <3>3. CASE n # 0 /\ n # m + 1
      <4>1. h[n] = g[n] /\ h[n - 1] = g[n - 1] /\ n \in 0 .. m
        BY <3>3
      <4> HIDE DEF h
      <4>2. g[n] = step(n, g[n - 1])
        BY <2>1, <3>3, <4>1
      <4> QED BY <3>3, <4>1, <4>2
    <3> QED BY <3>1, <3>2, <3>3
  <2>4. h = [n \in 0 .. m + 1 |-> h[n]]
    OBVIOUS
  <2> HIDE DEF h
  <2>5. Rec(h, m + 1)
    <3>1. [n \in 0 .. m + 1 |-> h[n]] = [n \in 0 .. m + 1 |-> IF n = 0 THEN d ELSE step(n, h[n - 1])]
      BY <2>3
    <3> QED BY <3>1, <2>4, Zenon
  <2> HIDE DEF Rec
  <2>6. \E k : Rec(k, m + 1)
    BY <2>5
  <2>7. m + 1 \in Nat
    OBVIOUS
  <2> QED BY <2>6, <2>7
<1>3. P = Nat
  <2>1. P \in SUBSET Nat
    OBVIOUS
  <2> HIDE DEF P
  <2> QED BY <1>1, <1>2, <2>1, Induct
<1>4. \E g : Rec(g, N)
  BY <1>3
<1>5. Inverses(l, b) = CHOOSE g : Rec(g, N)
  BY <1>0 DEF Inverses, step
<1>6. Rec(Inverses(l, b), N)
  BY <1>4, <1>5
<1>7. PICK a : a = Inverses(l, b)
  OBVIOUS
<1>8. a[0] = d
  BY <1>6, <1>7
<1>9. ASSUME NEW n \in 1 .. N PROVE a[n] = step(n, a[n - 1])
  BY <1>6, <1>7
<1> QED BY <1>0, <1>7, <1>8, <1>9 DEF step

LEMMA InverseAppend ==
    ASSUME NEW b, NEW f \in Seq(Edit), NEW x \in Edit
    PROVE  InverseDone(Append(f, x), b) = InverseStep(InverseDone(f, b), x, b)
<1>1. PICK l, N : l = Append(f, x) /\ N = Len(f)
  OBVIOUS
<1>2. /\ Len(l) = N + 1 /\ N \in Nat /\ l[N + 1] = x
      /\ \A i \in 1 .. N : l[i] = f[i]
  BY <1>1, AppendFacts
<1>3. PICK g, h : g = Inverses(l, b) /\ h = Inverses(f, b)
  OBVIOUS
<1>4. /\ g[0] = [inv |-> <<>>, delta |-> 0]
      /\ \A n \in 1 .. N + 1 : g[n] = InverseStep(g[n - 1], l[n], b)
  <2>1. Len(l) \in Nat
    BY <1>2
  <2>2. /\ g[0] = [inv |-> <<>>, delta |-> 0]
        /\ \A n \in 1 .. Len(l) : g[n] = InverseStep(g[n - 1], l[n], b)
    BY <2>1, <1>3, InversesFacts
  <2> QED BY <2>2, <1>2
<1>5. /\ h[0] = [inv |-> <<>>, delta |-> 0]
      /\ \A n \in 1 .. N : h[n] = InverseStep(h[n - 1], f[n], b)
  <2>1. Len(f) \in Nat
    BY <1>1, <1>2
  <2>2. /\ h[0] = [inv |-> <<>>, delta |-> 0]
        /\ \A n \in 1 .. Len(f) : h[n] = InverseStep(h[n - 1], f[n], b)
    BY <2>1, <1>3, InversesFacts
  <2> QED BY <2>2, <1>1
<1> DEFINE P == {n \in Nat : n <= N => g[n] = h[n]}
<1>6. 0 \in P
  BY <1>4, <1>5
<1>7. ASSUME NEW n \in P PROVE n + 1 \in P
  <2> SUFFICES ASSUME n + 1 <= N PROVE g[n + 1] = h[n + 1]
    OBVIOUS
  <2>1. n + 1 \in 1 .. N + 1 /\ n + 1 \in 1 .. N /\ (n + 1) - 1 = n /\ n <= N
    BY <1>2
  <2>2. g[n] = h[n]
    BY <2>1
  <2>3. g[n + 1] = InverseStep(g[n], l[n + 1], b)
    BY <2>1, <1>4
  <2>4. h[n + 1] = InverseStep(h[n], f[n + 1], b)
    BY <2>1, <1>5
  <2>5. l[n + 1] = f[n + 1]
    BY <2>1, <1>2
  <2> QED BY <2>2, <2>3, <2>4, <2>5
<1> HIDE DEF P
<1>8. P = Nat
  <2>1. P \in SUBSET Nat
    BY DEF P
  <2> QED BY <1>6, <1>7, <2>1, Induct
<1>9. g[N] = h[N]
  BY <1>2, <1>8 DEF P
<1>10. g[N + 1] = InverseStep(g[N], l[N + 1], b)
  <2>1. N + 1 \in 1 .. N + 1 /\ (N + 1) - 1 = N
    BY <1>2
  <2> QED BY <2>1, <1>4
<1> QED BY <1>1, <1>2, <1>3, <1>9, <1>10 DEF InverseDone

\* The inverses stand in what was written, end where it ends, and turn it
\* back into the text that was read.
Inverted(l, b) ==
    LET w == Written(l, b)
        D == InverseDone(l, b)
    IN  /\ D.delta = Len(w) - Stop(l)
        /\ Canon(D.inv, Len(w)) /\ Stop(D.inv) = Len(w)
        /\ Written(D.inv, w) = Slice(b, 0, Stop(l))

LEMMA LastReplaced ==
    ASSUME NEW S, NEW g \in Seq(S), NEW z \in S, NEW y \in S
    PROVE  [Append(g, z) EXCEPT ![Len(g) + 1] = y] = Append(g, y)
<1>1. PICK s, t, N : s = [Append(g, z) EXCEPT ![Len(g) + 1] = y] /\ t = Append(g, y) /\ N = Len(g)
  OBVIOUS
<1>2. N \in Nat /\ Append(g, z) \in [1 .. N + 1 -> S] /\ t \in [1 .. N + 1 -> S]
  <2>1. \A c \in Seq(S) : c \in [1 .. Len(c) -> S]
    OBVIOUS
  <2>2. /\ N \in Nat /\ Append(g, z) \in Seq(S) /\ Len(Append(g, z)) = N + 1
        /\ t \in Seq(S) /\ Len(t) = N + 1
    BY <1>1, AppendFacts
  <2> QED BY <2>1, <2>2
<1>3. s \in [1 .. N + 1 -> S]
  BY <1>1, <1>2
<1>4. ASSUME NEW i \in 1 .. N + 1 PROVE s[i] = t[i]
  <2>1. CASE i = N + 1
    BY <2>1, <1>1, <1>2, AppendFacts
  <2>2. CASE i # N + 1
    <3>1. i \in 1 .. Len(g)
      BY <2>2, <1>1, <1>2
    <3>2. Append(g, z)[i] = g[i] /\ t[i] = g[i]
      BY <3>1, <1>1, AppendFacts
    <3>3. s[i] = Append(g, z)[i]
      BY <2>2, <1>1, <1>2
    <3> QED BY <3>2, <3>3
  <2> QED BY <2>1, <2>2
<1>5. s = t
  BY <1>2, <1>3, <1>4
<1> QED BY <1>1, <1>5

LEMMA InvertedAppend ==
    ASSUME NEW b \in Str, NEW f \in Seq(Edit), NEW x \in Edit, Canon(Append(f, x), Len(b)),
           Inverted(f, b)
    PROVE  Inverted(Append(f, x), b)
<1>0. Len(b) \in Nat
  BY StrNone
<1>1. PICK p, q, r, i : p = Stop(f) /\ q = x.pos /\ r = End(x) /\ i = x.ins
  OBVIOUS
<1>2. /\ p \in Nat /\ q \in Nat /\ r \in Nat /\ i \in Str /\ p <= q /\ q <= r /\ r <= Len(b)
      /\ Canon(f, Len(b)) /\ Stop(Append(f, x)) = r /\ x.del = r - q
  BY <1>0, <1>1, FollowsFacts
<1>3. PICK w, m, D, rem : w = Written(f, b) /\ m = Slice(b, p, q) /\ D = InverseDone(f, b) /\ rem = Slice(b, q, r)
  OBVIOUS
<1>4. w \in Str /\ m \in Str /\ Written(Append(f, x), b) = (w \o m) \o i
  BY <1>1, <1>3, WrittenAppend
<1>5. Len(m) = q - p
  <2>1. q <= Len(b)
    BY <1>0, <1>2
  <2> QED BY <2>1, <1>2, <1>3, StrSlice
<1>6. rem \in Str
  BY <1>0, <1>2, <1>3, StrSlice
<1>7. PICK u, v, n : u = m \o i /\ v = w \o u /\ n = Len(w)
  OBVIOUS
<1>8. /\ u \in Str /\ v \in Str /\ n \in Nat /\ Len(u) = (q - p) + Len(i) /\ Len(i) \in Nat
      /\ Len(v) = n + (q - p) + Len(i) /\ Len(v) \in Nat
  <2>1. u \in Str /\ Len(u) = Len(m) + Len(i) /\ Len(i) \in Nat
    BY <1>2, <1>4, <1>7, StrConcat
  <2>2. v \in Str /\ Len(v) = n + Len(u) /\ n \in Nat
    BY <2>1, <1>4, <1>7, StrConcat
  <2> QED BY <2>1, <2>2, <1>2, <1>5
<1>9. Written(Append(f, x), b) = v
  BY ZenonT(40), <1>2, <1>4, <1>7, StrAssoc
<1>10. PICK inv, at, k : inv = D.inv /\ at = q + D.delta /\ k = Len(D.inv)
  OBVIOUS
<1>11. /\ D.delta = n - p /\ Canon(inv, n) /\ Stop(inv) = n /\ Written(inv, w) = Slice(b, 0, p)
  BY <1>1, <1>3, <1>7, <1>10 DEF Inverted
<1>12. at = n + (q - p) /\ at \in Nat /\ n <= at
  BY <1>2, <1>8, <1>10, <1>11
<1>13. /\ Canon(inv, Len(v)) /\ Written(inv, v) = Slice(b, 0, p)
  <2>1. w \in Str /\ u \in Str /\ Canon(inv, Len(w))
    BY <1>4, <1>7, <1>8, <1>11
  <2>2. Canon(inv, Len(w \o u)) /\ Written(inv, w \o u) = Written(inv, w)
    BY <2>1, WrittenOfPrefix
  <2>3. v = w \o u
    BY <1>7
  <2> QED BY <2>2, <2>3, <1>11
<1>14. inv \in Seq(Edit) /\ k \in Nat /\ k = Len(inv)
  BY <1>10, <1>11 DEF Canon
<1>15. PICK E : E = InverseDone(Append(f, x), b)
  OBVIOUS
<1>16. E = [inv |-> IF k > 0 /\ inv[k].pos = at
                    THEN [inv EXCEPT ![k] = Merged(@, x, rem)]
                    ELSE Append(inv, [pos |-> at, del |-> Len(i), ins |-> rem]),
            delta |-> D.delta + Delta(x)]
  <2>1. E = InverseStep(D, x, b)
    BY <1>3, <1>15, InverseAppend
  <2> QED BY <2>1, <1>1, <1>3, <1>10 DEF InverseStep
<1>17. E.delta = Len(v) - r
  <2>1. E.delta = D.delta + Delta(x)
    BY <1>16
  <2>2. Delta(x) = Len(i) - (r - q)
    BY <1>1, <1>2 DEF Delta
  <2> QED BY <2>1, <2>2, <1>2, <1>8, <1>11
<1>18. (Slice(b, 0, p) \o m) \o rem = Slice(b, 0, r)
  <2>1. Slice(b, 0, p) \o m = Slice(b, 0, q)
    <3>1. p \in Nat /\ q \in Nat /\ p <= q /\ q <= Len(b)
      BY <1>0, <1>2
    <3>2. Slice(b, 0, p) \o Slice(b, p, q) = Slice(b, 0, q)
      BY <3>1, StrPrefix
    <3> QED BY <3>2, <1>3
  <2>2. Slice(b, 0, q) \o rem = Slice(b, 0, r)
    <3>1. q \in Nat /\ r \in Nat /\ q <= r /\ r <= Len(b)
      BY <1>2
    <3>2. Slice(b, 0, q) \o Slice(b, q, r) = Slice(b, 0, r)
      BY <3>1, StrPrefix
    <3> QED BY <3>2, <1>3
  <2> QED BY <2>1, <2>2
<1>19. SUFFICES Canon(E.inv, Len(v)) /\ Stop(E.inv) = Len(v) /\ Written(E.inv, v) = Slice(b, 0, r)
  BY <1>2, <1>9, <1>15, <1>17 DEF Inverted
<1>20. CASE ~(k > 0 /\ inv[k].pos = at)
  <2>1. PICK y : y = [pos |-> at, del |-> Len(i), ins |-> rem]
    OBVIOUS
  <2>2. E.inv = Append(inv, y)
    BY <2>1, <1>16, <1>20
  <2>3. y \in Edit /\ y.pos = at /\ y.ins = rem /\ End(y) = at + Len(i)
    BY <2>1, <1>6, <1>8, <1>12 DEF Edit, End
  <2>4. End(y) = Len(v)
    BY <2>3, <1>2, <1>8, <1>12
  <2>5. Follows(inv, y, Len(v))
    <3>1. Stop(inv) <= y.pos /\ End(y) <= Len(v)
      BY <2>3, <2>4, <1>8, <1>11, <1>12
    <3>2. Len(inv) > 0 => y.pos # inv[Len(inv)].pos
      BY <2>3, <1>14, <1>20
    <3> QED BY <3>1, <3>2 DEF Follows
  <2>6. Canon(Append(inv, y), Len(v))
    BY <2>3, <2>5, <1>8, <1>13, <1>14, CanonOfAppend
  <2>7. Stop(Append(inv, y)) = Len(v)
    BY <2>3, <2>4, <1>14, CursorOfAppend
  <2>8. Written(Append(inv, y), v) = (Written(inv, v) \o Slice(v, n, at)) \o rem
    <3>1. Written(Append(inv, y), v) = Written(inv, v) \o Slice(v, Stop(inv), y.pos) \o y.ins
      BY <2>3, <2>6, <1>8, <1>14, WrittenAppend
    <3> QED BY <3>1, <2>3, <1>11
  <2>9. Slice(v, n, at) = m
    <3>1. n <= n /\ at <= n + Len(u) /\ n - n = 0 /\ at - n = q - p
      BY <1>2, <1>8, <1>12
    <3>2. Slice(w \o u, n, at) = Slice(u, n - n, at - n)
      <4>1. /\ w \in Str /\ u \in Str /\ n \in Nat /\ at \in Nat /\ Len(w) = n
            /\ Len(w) <= n /\ n <= at /\ at <= Len(w) + Len(u)
        BY <3>1, <1>4, <1>7, <1>8, <1>12
      <4>2. Slice(w \o u, n, at) = Slice(u, n - Len(w), at - Len(w))
        BY <4>1, StrRight
      <4> QED BY <4>1, <4>2
    <3>3. Slice(u, 0, q - p) = Slice(m, 0, q - p)
      <4>1. 0 \in Nat /\ q - p \in Nat /\ 0 <= q - p /\ q - p <= Len(m)
        BY <1>2, <1>5
      <4> QED BY <4>1, <1>2, <1>4, <1>7, StrLeft
    <3>4. Slice(m, 0, q - p) = m
      BY <1>4, <1>5, StrWhole
    <3> QED BY <3>1, <3>2, <3>3, <3>4, <1>7
  <2> QED BY <2>2, <2>6, <2>7, <2>8, <2>9, <1>13, <1>18
<1>21. CASE k > 0 /\ inv[k].pos = at
  <2>1. PICK g \in Seq(Edit), z \in Edit : inv = Append(g, z) /\ Len(inv) = Len(g) + 1 /\ inv[Len(inv)] = z
    BY <1>14, <1>21, LastFacts
  <2>2. /\ Stop(inv) = End(z) /\ z.pos \in Nat /\ z.del \in Nat /\ z.ins \in Str
        /\ End(z) = z.pos + z.del /\ Canon(g, Len(v)) /\ Follows(g, z, Len(v)) /\ Stop(g) \in Nat
    BY <2>1, <1>8, <1>13, FollowsFacts
  <2>3. z.pos = at /\ z.del = 0 /\ at = n /\ p = q
    <3>1. z.pos = at
      BY <2>1, <1>14, <1>21
    <3>2. z.pos + z.del = n
      BY <2>2, <1>11
    <3>3. n \in Nat /\ p \in Nat /\ q \in Nat /\ p <= q /\ z.del \in Nat /\ at = n + (q - p)
      BY <2>2, <1>2, <1>8, <1>12
    <3> QED BY <3>1, <3>2, <3>3
  <2>4. PICK y : y = Merged(z, x, rem)
    OBVIOUS
  <2>5. /\ y \in Edit /\ y.pos = z.pos /\ y.ins = z.ins \o rem /\ End(y) = z.pos + (z.del + Len(i))
    <3>1. z = [pos |-> z.pos, del |-> z.del, ins |-> z.ins]
      BY DEF Edit
    <3>2. y = [pos |-> z.pos, del |-> z.del + Len(i), ins |-> z.ins \o rem]
      BY <3>1, <2>4, <1>1 DEF Merged
    <3>3. z.ins \o rem \in Str
      BY <2>2, <1>6, StrConcat
    <3>4. z.del + Len(i) \in Nat
      BY <2>2, <1>8
    <3> QED BY <3>2, <3>3, <3>4, <2>2 DEF Edit, End
  <2>6. E.inv = Append(g, y)
    <3>1. E.inv = [inv EXCEPT ![k] = y]
      BY <2>1, <2>4, <1>14, <1>16, <1>21
    <3>2. k = Len(g) + 1
      BY <2>1, <1>14
    <3> QED BY <3>1, <3>2, <2>1, <2>5, LastReplaced
  <2>7. End(y) = Len(v)
    BY <2>2, <2>3, <2>5, <1>2, <1>8
  <2>8. Follows(g, y, Len(v))
    BY <2>2, <2>5, <2>7, <1>8 DEF Follows
  <2>9. Canon(Append(g, y), Len(v))
    BY <2>2, <2>5, <2>8, <1>8, CanonOfAppend
  <2>10. Stop(Append(g, y)) = Len(v)
    BY <2>5, <2>7, CursorOfAppend
  <2>11. PICK c, d : c = Written(g, v) /\ d = Slice(v, Stop(g), z.pos)
    OBVIOUS
  <2>12. c \in Str /\ d \in Str /\ Written(Append(g, y), v) = (c \o d) \o (z.ins \o rem)
    <3>1. /\ c \in Str /\ d \in Str
          /\ Written(Append(g, y), v) = Written(g, v) \o Slice(v, Stop(g), y.pos) \o y.ins
      BY <2>5, <2>9, <2>11, <1>8, WrittenAppend
    <3> QED BY <3>1, <2>5, <2>11
  <2>13. Slice(b, 0, p) = (c \o d) \o z.ins
    <3>1. Written(Append(g, z), v) = Written(g, v) \o Slice(v, Stop(g), z.pos) \o z.ins
      BY <2>1, <1>8, <1>13, WrittenAppend
    <3> QED BY <3>1, <2>1, <2>11, <1>13
  <2>14. (c \o d) \o (z.ins \o rem) = ((c \o d) \o z.ins) \o rem
    <3>1. c \o d \in Str
      BY <2>12, StrConcat
    <3> QED BY <3>1, <2>2, <1>6, StrAssoc
  <2>15. Slice(b, 0, p) \o rem = Slice(b, 0, r)
    <3>1. p \in Nat /\ r \in Nat /\ p <= r /\ r <= Len(b)
      BY <1>2
    <3>2. rem = Slice(b, p, r)
      BY <2>3, <1>3
    <3>3. Slice(b, 0, p) \o Slice(b, p, r) = Slice(b, 0, r)
      BY <3>1, StrPrefix
    <3> QED BY <3>2, <3>3
  <2> QED BY <2>6, <2>9, <2>10, <2>12, <2>13, <2>14, <2>15
<1> QED BY <1>20, <1>21

LEMMA InvertedAll ==
    ASSUME NEW b \in Str, NEW l, Canon(l, Len(b))
    PROVE  Inverted(l, b)
<1>0. Len(b) \in Nat
  BY StrNone
<1> DEFINE Q == {f \in Seq(Edit) : Canon(f, Len(b)) => Inverted(f, b)}
<1>1. <<>> \in Q
  <2>1. <<>> \in Seq(Edit)
    OBVIOUS
  <2>2. PICK e : e = <<>>
    OBVIOUS
  <2>3. Written(e, b) = <<>> /\ Stop(e) = 0 /\ Len(e) = 0
    BY <2>2, NoEdits
  <2>4. InverseDone(e, b) = [inv |-> <<>>, delta |-> 0]
    <3>1. Len(e) \in Nat
      BY <2>3
    <3>2. Inverses(e, b)[0] = [inv |-> <<>>, delta |-> 0]
      BY <3>1, InversesFacts
    <3> QED BY <3>2, <2>3 DEF InverseDone
  <2>5. <<>> \in Str /\ Len(<<>>) = 0
    BY StrNone
  <2>6. Canon(<<>>, Len(<<>>)) /\ Stop(<<>>) = 0 /\ Written(<<>>, <<>>) = <<>>
    BY <2>5, NoEdits
  <2>7. Slice(b, 0, 0) = <<>>
    BY <1>0, SliceNone DEF Str
  <2>8. Inverted(e, b)
    BY <2>3, <2>4, <2>5, <2>6, <2>7 DEF Inverted
  <2> QED BY <2>1, <2>2, <2>8
<1>2. ASSUME NEW f \in Q, NEW x \in Edit PROVE Append(f, x) \in Q
  <2>0. f \in Seq(Edit) /\ Append(f, x) \in Seq(Edit)
    BY AppendFacts
  <2> SUFFICES ASSUME Canon(Append(f, x), Len(b)) PROVE Inverted(Append(f, x), b)
    BY <2>0
  <2>1. Canon(f, Len(b))
    BY <2>0, <1>0, FollowsFacts
  <2>2. Inverted(f, b)
    BY <2>1
  <2> QED BY <2>0, <2>2, InvertedAppend
<1> HIDE DEF Q
<1>3. Q = Seq(Edit)
  <2>1. Q \in SUBSET Seq(Edit)
    BY DEF Q
  <2> QED BY <1>1, <1>2, <2>1, ListInduct
<1>4. l \in Q
  BY <1>3 DEF Canon
<1> QED BY <1>4 DEF Q

\* The inverse of a canonical list is canonical for the new text, and takes
\* it back to the old one.
LEMMA InverseTakesBack ==
    ASSUME NEW b \in Str, NEW l, Canon(l, Len(b))
    PROVE  LET inv == InverseList(l, b)
               new == ApplyTo(l, b)
           IN  Canon(inv, Len(new)) /\ ApplyTo(inv, new) = b
<1>0. Len(b) \in Nat
  BY StrNone
<1>1. PICK w, t, s, inv, new : /\ w = Written(l, b) /\ s = Stop(l) /\ t = Slice(b, s, Len(b))
                               /\ inv = InverseList(l, b) /\ new = ApplyTo(l, b)
  OBVIOUS
<1>2. w \in Str /\ t \in Str /\ new = w \o t /\ s \in Nat /\ s <= Len(b)
  BY <1>0, <1>1, AppliedFacts, StopFacts
<1>3. Canon(inv, Len(w)) /\ Stop(inv) = Len(w) /\ Written(inv, w) = Slice(b, 0, s)
  <2>1. Inverted(l, b)
    BY InvertedAll
  <2> QED BY <2>1, <1>1 DEF Inverted, InverseList, InverseDone
<1>4. new \in Str /\ Len(new) = Len(w) + Len(t) /\ Len(w) \in Nat /\ Len(t) \in Nat
  BY <1>2, StrConcat
<1>5. Canon(inv, Len(new)) /\ Written(inv, new) = Slice(b, 0, s)
  BY <1>2, <1>3, WrittenOfPrefix
<1>6. ApplyTo(inv, new) = Written(inv, new) \o Slice(new, Len(w), Len(new))
  BY <1>3, <1>4, <1>5, AppliedFacts
<1>7. Slice(new, Len(w), Len(new)) = t
  <2>1. /\ Len(w) <= Len(w) /\ Len(w) <= Len(new) /\ Len(new) <= Len(w) + Len(t) /\ Len(new) \in Nat
        /\ Len(w) - Len(w) = 0 /\ Len(new) - Len(w) = Len(t)
    BY <1>4
  <2>2. Slice(w \o t, Len(w), Len(new)) = Slice(t, Len(w) - Len(w), Len(new) - Len(w))
    BY <2>1, <1>2, <1>4, StrRight
  <2>3. Slice(t, 0, Len(t)) = t
    BY <1>2, StrWhole
  <2> QED BY <2>1, <2>2, <2>3, <1>2
<1>8. Slice(b, 0, s) \o t = b
  <2>1. 0 \in Nat /\ 0 <= s /\ Len(b) <= Len(b)
    BY <1>0, <1>2
  <2>2. Slice(b, 0, s) \o Slice(b, s, Len(b)) = Slice(b, 0, Len(b))
    BY <2>1, <1>0, <1>2, StrJoin
  <2>3. Slice(b, 0, Len(b)) = b
    BY StrWhole
  <2> QED BY <2>2, <2>3, <1>1
<1> QED BY <1>1, <1>5, <1>6, <1>7, <1>8

----------------------------------------------------------------------------
(* Where the lines of a text start.                                        *)

\* The newlines found in the first n bytes.
Scan(s) ==
    CHOOSE g : g = [n \in 0 .. Len(s) |->
                      IF n = 0 THEN <<>>
                      ELSE IF s[n] = NL THEN Append(g[n - 1], n) ELSE g[n - 1]]

LEMMA ScanFacts ==
    ASSUME NEW s, Len(s) \in Nat
    PROVE  /\ NewlineEnds(s) = Scan(s)[Len(s)] /\ Scan(s)[0] = <<>>
           /\ \A n \in 1 .. Len(s) :
                Scan(s)[n] = IF s[n] = NL THEN Append(Scan(s)[n - 1], n) ELSE Scan(s)[n - 1]
<1>0. PICK d : d = <<>>
  OBVIOUS
<1> DEFINE N == Len(s)
           step(n, e) == IF s[n] = NL THEN Append(e, n) ELSE e
           Rec(g, m) == g = [n \in 0 .. m |-> IF n = 0 THEN d ELSE step(n, g[n - 1])]
           P == {m \in Nat : \E g : Rec(g, m)}
<1> HIDE DEF step
<1>1. 0 \in P
  <2> DEFINE h == [n \in 0 .. 0 |-> d]
  <2>1. Rec(h, 0)
    OBVIOUS
  <2> QED BY <2>1
<1>2. ASSUME NEW m \in P PROVE m + 1 \in P
  <2>1. PICK g : Rec(g, m)
    OBVIOUS
  <2> DEFINE h == [n \in 0 .. m + 1 |-> IF n = m + 1 THEN step(n, g[m]) ELSE g[n]]
  <2>3. ASSUME NEW n \in 0 .. m + 1
        PROVE  h[n] = IF n = 0 THEN d ELSE step(n, h[n - 1])
    <3>1. CASE n = 0
      <4>1. h[0] = g[0] /\ g[0] = d
        BY <2>1
      <4> QED BY <3>1, <4>1
    <3>2. CASE n = m + 1
      <4>1. h[n] = step(n, g[m]) /\ h[n - 1] = g[m] /\ n # 0
        BY <3>2
      <4> HIDE DEF h
      <4> QED BY <4>1
    <3>3. CASE n # 0 /\ n # m + 1
      <4>1. h[n] = g[n] /\ h[n - 1] = g[n - 1] /\ n \in 0 .. m
        BY <3>3
      <4> HIDE DEF h
      <4>2. g[n] = step(n, g[n - 1])
        BY <2>1, <3>3, <4>1
      <4> QED BY <3>3, <4>1, <4>2
    <3> QED BY <3>1, <3>2, <3>3
  <2>4. h = [n \in 0 .. m + 1 |-> h[n]]
    OBVIOUS
  <2> HIDE DEF h
  <2>5. Rec(h, m + 1)
    <3>1. [n \in 0 .. m + 1 |-> h[n]] = [n \in 0 .. m + 1 |-> IF n = 0 THEN d ELSE step(n, h[n - 1])]
      BY <2>3
    <3> QED BY <3>1, <2>4, Zenon
  <2> HIDE DEF Rec
  <2>6. \E k : Rec(k, m + 1)
    BY <2>5
  <2>7. m + 1 \in Nat
    OBVIOUS
  <2> QED BY <2>6, <2>7
<1>3. P = Nat
  <2>1. P \in SUBSET Nat
    OBVIOUS
  <2> HIDE DEF P
  <2> QED BY <1>1, <1>2, <2>1, Induct
<1>4. \E g : Rec(g, N)
  BY <1>3
<1>5. Scan(s) = CHOOSE g : Rec(g, N)
  BY <1>0 DEF Scan, step
<1>6. Rec(Scan(s), N)
  BY <1>4, <1>5
<1>7. PICK a : a = Scan(s)
  OBVIOUS
<1>8. a[0] = d
  BY <1>6, <1>7
<1>9. ASSUME NEW n \in 1 .. N PROVE a[n] = step(n, a[n - 1])
  BY <1>6, <1>7
<1>10. NewlineEnds(s) = a[N]
  BY <1>7 DEF NewlineEnds, Scan
<1> QED BY <1>10, <1>0, <1>7, <1>8, <1>9 DEF step


LEMMA EndsAppend ==
    ASSUME NEW s \in Str, NEW c \in Bytes
    PROVE  NewlineEnds(Append(s, c))
             = IF c = NL THEN Append(NewlineEnds(s), Len(s) + 1) ELSE NewlineEnds(s)
<1>1. PICK l, N : l = Append(s, c) /\ N = Len(s)
  OBVIOUS
<1>2. /\ Len(l) = N + 1 /\ N \in Nat /\ l[N + 1] = c
      /\ \A i \in 1 .. N : l[i] = s[i]
  BY <1>1, AppendFacts DEF Str
<1>3. PICK g, h : g = Scan(l) /\ h = Scan(s)
  OBVIOUS
<1>4. /\ NewlineEnds(l) = g[N + 1] /\ g[0] = <<>>
      /\ \A n \in 1 .. N + 1 : g[n] = IF l[n] = NL THEN Append(g[n - 1], n) ELSE g[n - 1]
  <2>1. Len(l) \in Nat
    BY <1>2
  <2>2. /\ NewlineEnds(l) = g[Len(l)] /\ g[0] = <<>>
        /\ \A n \in 1 .. Len(l) : g[n] = IF l[n] = NL THEN Append(g[n - 1], n) ELSE g[n - 1]
    BY <2>1, <1>3, ScanFacts
  <2> QED BY <2>2, <1>2
<1>5. /\ NewlineEnds(s) = h[N] /\ h[0] = <<>>
      /\ \A n \in 1 .. N : h[n] = IF s[n] = NL THEN Append(h[n - 1], n) ELSE h[n - 1]
  <2>1. Len(s) \in Nat
    BY <1>1, <1>2
  <2>2. /\ NewlineEnds(s) = h[Len(s)] /\ h[0] = <<>>
        /\ \A n \in 1 .. Len(s) : h[n] = IF s[n] = NL THEN Append(h[n - 1], n) ELSE h[n - 1]
    BY <2>1, <1>3, ScanFacts
  <2> QED BY <2>2, <1>1
<1> DEFINE P == {n \in Nat : n <= N => g[n] = h[n]}
<1>6. 0 \in P
  BY <1>4, <1>5
<1>7. ASSUME NEW n \in P PROVE n + 1 \in P
  <2> SUFFICES ASSUME n + 1 <= N PROVE g[n + 1] = h[n + 1]
    OBVIOUS
  <2>1. n + 1 \in 1 .. N + 1 /\ n + 1 \in 1 .. N /\ (n + 1) - 1 = n /\ n <= N
    BY <1>2
  <2>2. g[n] = h[n]
    BY <2>1
  <2>3. g[n + 1] = IF l[n + 1] = NL THEN Append(g[n], n + 1) ELSE g[n]
    BY <2>1, <1>4
  <2>4. h[n + 1] = IF s[n + 1] = NL THEN Append(h[n], n + 1) ELSE h[n]
    BY <2>1, <1>5
  <2>5. l[n + 1] = s[n + 1]
    BY <2>1, <1>2
  <2> QED BY <2>2, <2>3, <2>4, <2>5
<1> HIDE DEF P
<1>8. P = Nat
  <2>1. P \in SUBSET Nat
    BY DEF P
  <2> QED BY <1>6, <1>7, <2>1, Induct
<1>9. g[N] = h[N]
  BY <1>2, <1>8 DEF P
<1>10. g[N + 1] = IF l[N + 1] = NL THEN Append(g[N], N + 1) ELSE g[N]
  <2>1. N + 1 \in 1 .. N + 1 /\ (N + 1) - 1 = N
    BY <1>2
  <2> QED BY <2>1, <1>4
<1> QED BY <1>1, <1>2, <1>4, <1>5, <1>9, <1>10

CarryDone(st, l) == Carried(st, l)[Len(l)]

LEMMA CarriedFacts ==
    ASSUME NEW st, NEW l, Len(l) \in Nat
    PROVE  /\ Carried(st, l)[0] = [out |-> <<0>>, i |-> 1, delta |-> 0]
           /\ \A n \in 1 .. Len(l) : Carried(st, l)[n] = CarryStep(Carried(st, l)[n - 1], l[n], st)
<1>0. PICK d : d = [out |-> <<0>>, i |-> 1, delta |-> 0]
  OBVIOUS
<1> DEFINE N == Len(l)
           step(n, s) == CarryStep(s, l[n], st)
           Rec(g, m) == g = [n \in 0 .. m |-> IF n = 0 THEN d ELSE step(n, g[n - 1])]
           P == {m \in Nat : \E g : Rec(g, m)}
<1> HIDE DEF step
<1>1. 0 \in P
  <2> DEFINE h == [n \in 0 .. 0 |-> d]
  <2>1. Rec(h, 0)
    OBVIOUS
  <2> QED BY <2>1
<1>2. ASSUME NEW m \in P PROVE m + 1 \in P
  <2>1. PICK g : Rec(g, m)
    OBVIOUS
  <2> DEFINE h == [n \in 0 .. m + 1 |-> IF n = m + 1 THEN step(n, g[m]) ELSE g[n]]
  <2>3. ASSUME NEW n \in 0 .. m + 1
        PROVE  h[n] = IF n = 0 THEN d ELSE step(n, h[n - 1])
    <3>1. CASE n = 0
      <4>1. h[0] = g[0] /\ g[0] = d
        BY <2>1
      <4> QED BY <3>1, <4>1
    <3>2. CASE n = m + 1
      <4>1. h[n] = step(n, g[m]) /\ h[n - 1] = g[m] /\ n # 0
        BY <3>2
      <4> HIDE DEF h
      <4> QED BY <4>1
    <3>3. CASE n # 0 /\ n # m + 1
      <4>1. h[n] = g[n] /\ h[n - 1] = g[n - 1] /\ n \in 0 .. m
        BY <3>3
      <4> HIDE DEF h
      <4>2. g[n] = step(n, g[n - 1])
        BY <2>1, <3>3, <4>1
      <4> QED BY <3>3, <4>1, <4>2
    <3> QED BY <3>1, <3>2, <3>3
  <2>4. h = [n \in 0 .. m + 1 |-> h[n]]
    OBVIOUS
  <2> HIDE DEF h
  <2>5. Rec(h, m + 1)
    <3>1. [n \in 0 .. m + 1 |-> h[n]] = [n \in 0 .. m + 1 |-> IF n = 0 THEN d ELSE step(n, h[n - 1])]
      BY <2>3
    <3> QED BY <3>1, <2>4, Zenon
  <2> HIDE DEF Rec
  <2>6. \E k : Rec(k, m + 1)
    BY <2>5
  <2>7. m + 1 \in Nat
    OBVIOUS
  <2> QED BY <2>6, <2>7
<1>3. P = Nat
  <2>1. P \in SUBSET Nat
    OBVIOUS
  <2> HIDE DEF P
  <2> QED BY <1>1, <1>2, <2>1, Induct
<1>4. \E g : Rec(g, N)
  BY <1>3
<1>5. Carried(st, l) = CHOOSE g : Rec(g, N)
  BY <1>0 DEF Carried, step
<1>6. Rec(Carried(st, l), N)
  BY <1>4, <1>5
<1>7. PICK a : a = Carried(st, l)
  OBVIOUS
<1>8. a[0] = d
  BY <1>6, <1>7
<1>9. ASSUME NEW n \in 1 .. N PROVE a[n] = step(n, a[n - 1])
  BY <1>6, <1>7
<1> QED BY <1>0, <1>7, <1>8, <1>9 DEF step

LEMMA CarryAppend ==
    ASSUME NEW st, NEW f \in Seq(Edit), NEW x \in Edit
    PROVE  CarryDone(st, Append(f, x)) = CarryStep(CarryDone(st, f), x, st)
<1>1. PICK l, N : l = Append(f, x) /\ N = Len(f)
  OBVIOUS
<1>2. /\ Len(l) = N + 1 /\ N \in Nat /\ l[N + 1] = x
      /\ \A i \in 1 .. N : l[i] = f[i]
  BY <1>1, AppendFacts
<1>3. PICK g, h : g = Carried(st, l) /\ h = Carried(st, f)
  OBVIOUS
<1>4. /\ g[0] = [out |-> <<0>>, i |-> 1, delta |-> 0]
      /\ \A n \in 1 .. N + 1 : g[n] = CarryStep(g[n - 1], l[n], st)
  <2>1. Len(l) \in Nat
    BY <1>2
  <2>2. /\ g[0] = [out |-> <<0>>, i |-> 1, delta |-> 0]
        /\ \A n \in 1 .. Len(l) : g[n] = CarryStep(g[n - 1], l[n], st)
    BY <2>1, <1>3, CarriedFacts
  <2> QED BY <2>2, <1>2
<1>5. /\ h[0] = [out |-> <<0>>, i |-> 1, delta |-> 0]
      /\ \A n \in 1 .. N : h[n] = CarryStep(h[n - 1], f[n], st)
  <2>1. Len(f) \in Nat
    BY <1>1, <1>2
  <2>2. /\ h[0] = [out |-> <<0>>, i |-> 1, delta |-> 0]
        /\ \A n \in 1 .. Len(f) : h[n] = CarryStep(h[n - 1], f[n], st)
    BY <2>1, <1>3, CarriedFacts
  <2> QED BY <2>2, <1>1
<1> DEFINE P == {n \in Nat : n <= N => g[n] = h[n]}
<1>6. 0 \in P
  BY <1>4, <1>5
<1>7. ASSUME NEW n \in P PROVE n + 1 \in P
  <2> SUFFICES ASSUME n + 1 <= N PROVE g[n + 1] = h[n + 1]
    OBVIOUS
  <2>1. n + 1 \in 1 .. N + 1 /\ n + 1 \in 1 .. N /\ (n + 1) - 1 = n /\ n <= N
    BY <1>2
  <2>2. g[n] = h[n]
    BY <2>1
  <2>3. g[n + 1] = CarryStep(g[n], l[n + 1], st)
    BY <2>1, <1>4
  <2>4. h[n + 1] = CarryStep(h[n], f[n + 1], st)
    BY <2>1, <1>5
  <2>5. l[n + 1] = f[n + 1]
    BY <2>1, <1>2
  <2> QED BY <2>2, <2>3, <2>4, <2>5
<1> HIDE DEF P
<1>8. P = Nat
  <2>1. P \in SUBSET Nat
    BY DEF P
  <2> QED BY <1>6, <1>7, <2>1, Induct
<1>9. g[N] = h[N]
  BY <1>2, <1>8 DEF P
<1>10. g[N + 1] = CarryStep(g[N], l[N + 1], st)
  <2>1. N + 1 \in 1 .. N + 1 /\ (N + 1) - 1 = N
    BY <1>2
  <2> QED BY <2>1, <1>4
<1> QED BY <1>1, <1>2, <1>3, <1>9, <1>10 DEF CarryDone


LEMMA SeqEq ==
    ASSUME NEW S, NEW s \in Seq(S), NEW t \in Seq(S), Len(s) = Len(t),
           \A i \in 1 .. Len(s) : s[i] = t[i]
    PROVE  s = t
OBVIOUS

LEMMA EndsNone == NewlineEnds(<<>>) = <<>>
<1>1. PICK e : e = <<>>
  OBVIOUS
<1>2. Len(e) = 0 /\ Len(e) \in Nat
  BY <1>1
<1>3. NewlineEnds(e) = Scan(e)[Len(e)] /\ Scan(e)[0] = <<>>
  BY <1>2, ScanFacts
<1> QED BY <1>1, <1>2, <1>3

\* The ends lie in the text.
LEMMA EndsTyped ==
    ASSUME NEW s \in Str
    PROVE  /\ NewlineEnds(s) \in Seq(Int)
           /\ \A k \in 1 .. Len(NewlineEnds(s)) : 1 <= NewlineEnds(s)[k] /\ NewlineEnds(s)[k] <= Len(s)
<1> DEFINE In(e, n) == \A k \in 1 .. Len(e) : 1 <= e[k] /\ e[k] <= n
           Q == {t \in Seq(Bytes) : NewlineEnds(t) \in Seq(Int) /\ In(NewlineEnds(t), Len(t))}
<1>1. <<>> \in Q
  <2>1. <<>> \in Seq(Bytes) /\ <<>> \in Seq(Int)
    OBVIOUS
  <2>2. In(<<>>, Len(<<>>))
    OBVIOUS
  <2> QED BY <2>1, <2>2, EndsNone
<1>2. ASSUME NEW t \in Q, NEW c \in Bytes PROVE Append(t, c) \in Q
  <2>1. PICK e, a, n : e = NewlineEnds(t) /\ a = NewlineEnds(Append(t, c)) /\ n = Len(t)
    OBVIOUS
  <2>2. e \in Seq(Int) /\ In(e, n) /\ t \in Seq(Bytes) /\ n \in Nat
    BY <2>1
  <2>3. Append(t, c) \in Seq(Bytes) /\ Len(Append(t, c)) = n + 1
    BY <2>1, <2>2, AppendFacts
  <2>4. a = IF c = NL THEN Append(e, n + 1) ELSE e
    BY <2>1, <2>2, EndsAppend DEF Str
  <2>5. CASE c = NL
    <3>1. a = Append(e, n + 1) /\ n + 1 \in Int
      BY <2>2, <2>4, <2>5
    <3>2. /\ a \in Seq(Int) /\ Len(a) = Len(e) + 1 /\ a[Len(e) + 1] = n + 1 /\ Len(e) \in Nat
          /\ \A i \in 1 .. Len(e) : a[i] = e[i]
      BY <3>1, <2>2, AppendFacts
    <3>3. ASSUME NEW k \in 1 .. Len(a) PROVE 1 <= a[k] /\ a[k] <= n + 1
      <4>1. CASE k = Len(e) + 1
        BY <4>1, <3>2, <2>2
      <4>2. CASE k \in 1 .. Len(e)
        <5>1. a[k] = e[k] /\ 1 <= e[k] /\ e[k] <= n /\ e[k] \in Int
          BY <4>2, <3>2, <2>2
        <5> QED BY <5>1, <2>2
      <4> QED BY <4>1, <4>2, <3>2
    <3> QED BY <3>2, <3>3, <2>1, <2>3
  <2>6. CASE c # NL
    <3>1. a = e
      BY <2>4, <2>6
    <3>2. ASSUME NEW k \in 1 .. Len(a) PROVE 1 <= a[k] /\ a[k] <= n + 1
      <4>1. 1 <= e[k] /\ e[k] <= n /\ e[k] \in Int
        BY <3>1, <2>2
      <4> QED BY <4>1, <3>1, <2>2
    <3> QED BY <3>1, <3>2, <2>1, <2>2, <2>3
  <2> QED BY <2>5, <2>6
<1> HIDE DEF Q
<1>3. Q = Seq(Bytes)
  <2>1. Q \in SUBSET Seq(Bytes)
    BY DEF Q
  <2> QED BY <1>1, <1>2, <2>1, ListInduct
<1>4. s \in Q
  BY <1>3 DEF Str
<1> QED BY <1>4 DEF Q

LEMMA ShiftFacts ==
    ASSUME NEW s \in Seq(Int), NEW d \in Int
    PROVE  /\ Shifted(s, d) \in Seq(Int) /\ Len(Shifted(s, d)) = Len(s) /\ Len(s) \in Nat
           /\ \A i \in 1 .. Len(s) : Shifted(s, d)[i] = s[i] + d /\ s[i] \in Int
<1>1. PICK t, n : t = Shifted(s, d) /\ n = Len(s)
  OBVIOUS
<1>2. n \in Nat /\ \A i \in 1 .. n : s[i] \in Int
  BY <1>1
<1>3. t = [i \in 1 .. n |-> s[i] + d]
  BY <1>1 DEF Shifted
<1>4. \A i \in 1 .. n : s[i] + d \in Int
  BY <1>2
<1>5. t \in [1 .. n -> Int]
  BY <1>3, <1>4
<1>6. t \in Seq(Int)
  BY <1>2, <1>5
<1>7. Len(t) = n
  BY <1>2, <1>3
<1>8. \A i \in 1 .. n : t[i] = s[i] + d
  BY <1>3
<1> QED BY <1>1, <1>2, <1>6, <1>7, <1>8

LEMMA ShiftTwice ==
    ASSUME NEW s \in Seq(Int), NEW d \in Int, NEW e \in Int
    PROVE  Shifted(Shifted(s, d), e) = Shifted(s, d + e)
<1>1. PICK t, u, v : t = Shifted(s, d) /\ u = Shifted(t, e) /\ v = Shifted(s, d + e)
  OBVIOUS
<1>2. t \in Seq(Int) /\ Len(t) = Len(s) /\ Len(s) \in Nat /\ \A i \in 1 .. Len(s) : t[i] = s[i] + d /\ s[i] \in Int
  BY <1>1, ShiftFacts
<1>3. u \in Seq(Int) /\ Len(u) = Len(t) /\ \A i \in 1 .. Len(t) : u[i] = t[i] + e
  BY <1>1, <1>2, ShiftFacts
<1>4. d + e \in Int
  OBVIOUS
<1>5. v \in Seq(Int) /\ Len(v) = Len(s) /\ \A i \in 1 .. Len(s) : v[i] = s[i] + (d + e)
  BY <1>1, <1>4, ShiftFacts
<1>6. ASSUME NEW i \in 1 .. Len(u) PROVE u[i] = v[i]
  <2>1. i \in 1 .. Len(s)
    BY <1>2, <1>3
  <2>2. u[i] = (s[i] + d) + e /\ v[i] = s[i] + (d + e) /\ s[i] \in Int
    BY <2>1, <1>2, <1>3, <1>5
  <2> QED BY <2>2
<1>7. Len(u) = Len(v)
  BY <1>2, <1>3, <1>5
<1>8. u = v
  BY <1>3, <1>5, <1>6, <1>7, SeqEq
<1> QED BY <1>1, <1>8

LEMMA ShiftAppend ==
    ASSUME NEW s \in Seq(Int), NEW x \in Int, NEW d \in Int
    PROVE  Shifted(Append(s, x), d) = Append(Shifted(s, d), x + d)
<1>1. PICK a, t, u, v : a = Append(s, x) /\ t = Shifted(s, d) /\ u = Shifted(a, d) /\ v = Append(t, x + d)
  OBVIOUS
<1>2. a \in Seq(Int) /\ Len(a) = Len(s) + 1 /\ Len(s) \in Nat /\ a[Len(s) + 1] = x /\ \A i \in 1 .. Len(s) : a[i] = s[i]
  BY <1>1, AppendFacts
<1>3. t \in Seq(Int) /\ Len(t) = Len(s) /\ \A i \in 1 .. Len(s) : t[i] = s[i] + d
  BY <1>1, ShiftFacts
<1>4. u \in Seq(Int) /\ Len(u) = Len(a) /\ \A i \in 1 .. Len(a) : u[i] = a[i] + d
  BY <1>1, <1>2, ShiftFacts
<1>5. x + d \in Int
  OBVIOUS
<1>6. v \in Seq(Int) /\ Len(v) = Len(t) + 1 /\ v[Len(t) + 1] = x + d /\ \A i \in 1 .. Len(t) : v[i] = t[i]
  BY <1>1, <1>3, <1>5, AppendFacts
<1>7. ASSUME NEW i \in 1 .. Len(u) PROVE u[i] = v[i]
  <2>1. u[i] = a[i] + d
    BY <1>4
  <2>2. CASE i = Len(s) + 1
    BY <2>1, <2>2, <1>2, <1>3, <1>6
  <2>3. CASE i \in 1 .. Len(s)
    BY <2>1, <2>3, <1>2, <1>3, <1>6
  <2> QED BY <2>2, <2>3, <1>2, <1>4
<1>8. Len(u) = Len(v)
  BY <1>2, <1>3, <1>4, <1>6
<1>9. u = v
  BY <1>4, <1>6, <1>7, <1>8, SeqEq
<1> QED BY <1>1, <1>9

\* A text's newlines are those of its first part and, moved, of its second.
LEMMA EndsConcat ==
    ASSUME NEW a \in Str, NEW b \in Str
    PROVE  NewlineEnds(a \o b) = NewlineEnds(a) \o Shifted(NewlineEnds(b), Len(a))
<1>0. Len(a) \in Nat /\ NewlineEnds(a) \in Seq(Int)
  BY StrNone, EndsTyped
<1> DEFINE Q == {t \in Seq(Bytes) : NewlineEnds(a \o t) = NewlineEnds(a) \o Shifted(NewlineEnds(t), Len(a))}
<1>1. <<>> \in Q
  <2>1. <<>> \in Seq(Bytes) /\ <<>> \in Seq(Int)
    OBVIOUS
  <2>2. a \o <<>> = a
    BY StrNone
  <2>3. PICK e : e = <<>>
    OBVIOUS
  <2>4. Shifted(e, Len(a)) \in Seq(Int) /\ Len(Shifted(e, Len(a))) = Len(e) /\ Len(e) = 0
    <3>1. e \in Seq(Int) /\ Len(a) \in Int
      BY <2>1, <2>3, <1>0
    <3>2. Len(e) = 0
      BY <2>3
    <3> QED BY <3>1, <3>2, ShiftFacts
  <2>5. Shifted(e, Len(a)) = <<>>
    BY <2>4
  <2>6. NewlineEnds(a) \o <<>> = NewlineEnds(a)
    BY <1>0, NoneFacts
  <2> QED BY <2>1, <2>2, <2>3, <2>5, <2>6, EndsNone
<1>2. ASSUME NEW t \in Q, NEW c \in Bytes PROVE Append(t, c) \in Q
  <2>1. PICK e, d, n, m, u : /\ e = NewlineEnds(t) /\ d = NewlineEnds(a) /\ n = Len(a) /\ m = Len(t)
                             /\ u = Shifted(e, n)
    OBVIOUS
  <2>2. t \in Str /\ t \in Seq(Bytes) /\ NewlineEnds(a \o t) = d \o u
    BY <2>1 DEF Str
  <2>3. e \in Seq(Int) /\ d \in Seq(Int) /\ n \in Nat /\ m \in Nat
    BY <2>1, <2>2, <1>0, EndsTyped, StrNone
  <2>4. u \in Seq(Int)
    BY <2>1, <2>3, ShiftFacts
  <2>5. a \o Append(t, c) = Append(a \o t, c) /\ a \o t \in Str /\ Len(a \o t) = n + m
    <3>1. a \o Append(t, c) = Append(a \o t, c)
      BY <2>2 DEF Str
    <3> QED BY <3>1, <2>1, <2>2, StrConcat
  <2>6. NewlineEnds(Append(a \o t, c)) = IF c = NL THEN Append(d \o u, (n + m) + 1) ELSE d \o u
    BY <2>2, <2>5, EndsAppend
  <2>7. NewlineEnds(Append(t, c)) = IF c = NL THEN Append(e, m + 1) ELSE e
    BY <2>1, <2>2, EndsAppend
  <2>8. Append(t, c) \in Seq(Bytes)
    BY <2>2, AppendFacts
  <2>9. CASE c = NL
    <3>1. Shifted(Append(e, m + 1), n) = Append(u, (m + 1) + n)
      <4>1. m + 1 \in Int /\ n \in Int
        BY <2>3
      <4> QED BY <4>1, <2>1, <2>3, ShiftAppend
    <3>2. (m + 1) + n = (n + m) + 1 /\ (n + m) + 1 \in Int
      BY <2>3
    <3>3. PICK k \in Int : k = (n + m) + 1
      BY <3>2
    <3>4. d \o Append(u, k) = Append(d \o u, k)
      BY <2>3, <2>4, ConcatAppend
    <3> QED BY <3>1, <3>2, <3>3, <3>4, <2>1, <2>5, <2>6, <2>7, <2>8, <2>9
  <2>10. CASE c # NL
    BY <2>10, <2>1, <2>5, <2>6, <2>7, <2>8
  <2> QED BY <2>9, <2>10
<1> HIDE DEF Q
<1>3. Q = Seq(Bytes)
  <2>1. Q \in SUBSET Seq(Bytes)
    BY DEF Q
  <2> QED BY <1>1, <1>2, <2>1, ListInduct
<1>4. b \in Q
  BY <1>3 DEF Str
<1> QED BY <1>4 DEF Q

LEMMA StartsTyped ==
    ASSUME NEW s \in Str
    PROVE  /\ LineStartsOf(s) \in Seq(Int) /\ Len(LineStartsOf(s)) \in Nat /\ Len(LineStartsOf(s)) >= 1
           /\ LineStartsOf(s) # <<>>
           /\ \A k \in 1 .. Len(LineStartsOf(s)) : 0 <= LineStartsOf(s)[k] /\ LineStartsOf(s)[k] <= Len(s)
<1>0. Len(s) \in Nat
  BY StrNone
<1>1. PICK e, t : e = NewlineEnds(s) /\ t = LineStartsOf(s)
  OBVIOUS
<1>2. e \in Seq(Int) /\ \A k \in 1 .. Len(e) : 1 <= e[k] /\ e[k] <= Len(s)
  BY <1>1, EndsTyped
<1>3. PICK z : z = <<0>>
  OBVIOUS
<1>4. z \in Seq(Int) /\ Len(z) = 1 /\ z[1] = 0
  BY <1>3
<1>5. t = z \o e
  BY <1>1, <1>3 DEF LineStartsOf
<1>6. /\ t \in Seq(Int) /\ Len(t) = Len(z) + Len(e) /\ Len(e) \in Nat
      /\ \A i \in 1 .. Len(z) + Len(e) : t[i] = IF i <= Len(z) THEN z[i] ELSE e[i - Len(z)]
  <2>1. z \in Seq(Int) /\ e \in Seq(Int)
    BY <1>2, <1>4
  <2>2. /\ z \o e \in Seq(Int) /\ Len(z \o e) = Len(z) + Len(e) /\ Len(e) \in Nat
        /\ \A i \in 1 .. Len(z) + Len(e) : (z \o e)[i] = IF i <= Len(z) THEN z[i] ELSE e[i - Len(z)]
    BY <2>1, ConcatFacts
  <2> QED BY <2>2, <1>5
<1>7. ASSUME NEW k \in 1 .. Len(t) PROVE 0 <= t[k] /\ t[k] <= Len(s)
  <2>1. CASE k = 1
    <3>1. t[k] = 0
      BY <2>1, <1>4, <1>6
    <3> QED BY <3>1, <1>0
  <2>2. CASE k # 1
    <3>1. t[k] = e[k - 1] /\ k - 1 \in 1 .. Len(e)
      BY <2>2, <1>4, <1>6
    <3>2. 1 <= e[k - 1] /\ e[k - 1] <= Len(s) /\ e[k - 1] \in Int
      BY <3>1, <1>2
    <3> QED BY <3>1, <3>2, <1>0
  <2> QED BY <2>1, <2>2
<1>8. Len(t) >= 1 /\ Len(t) \in Nat
  BY <1>4, <1>6
<1>9. t # <<>>
  BY <1>8
<1> QED BY <1>1, <1>6, <1>7, <1>8, <1>9

LEMMA StartsSplit ==
    ASSUME NEW a \in Str, NEW b \in Str
    PROVE  /\ LineStartsOf(a \o b) = LineStartsOf(a) \o Shifted(NewlineEnds(b), Len(a))
           /\ Shifted(NewlineEnds(b), Len(a)) \in Seq(Int)
           /\ \A k \in 1 .. Len(Shifted(NewlineEnds(b), Len(a))) : Shifted(NewlineEnds(b), Len(a))[k] > Len(a)
<1>1. PICK e, d, n, u, z : /\ e = NewlineEnds(b) /\ d = NewlineEnds(a) /\ n = Len(a)
                           /\ u = Shifted(e, n) /\ z = <<0>>
  OBVIOUS
<1>2. n \in Nat /\ e \in Seq(Int) /\ d \in Seq(Int) /\ \A k \in 1 .. Len(e) : 1 <= e[k]
  BY <1>1, EndsTyped, StrNone
<1>3. u \in Seq(Int) /\ Len(u) = Len(e) /\ \A k \in 1 .. Len(e) : u[k] = e[k] + n /\ e[k] \in Int
  BY <1>1, <1>2, ShiftFacts
<1>4. z \in Seq(Int)
  BY <1>1
<1>5. LineStartsOf(a \o b) = z \o (d \o u)
  BY <1>1, EndsConcat DEF LineStartsOf
<1>6. LineStartsOf(a) = z \o d
  BY <1>1 DEF LineStartsOf
<1>7. z \o (d \o u) = (z \o d) \o u
  <2>1. z \in Seq(Int) /\ d \in Seq(Int) /\ u \in Seq(Int)
    BY <1>2, <1>3, <1>4
  <2> QED BY <2>1, IntAssoc
<1>8. ASSUME NEW k \in 1 .. Len(u) PROVE u[k] > n
  BY <1>2, <1>3
<1> QED BY <1>1, <1>3, <1>5, <1>6, <1>7, <1>8

LEMMA CountUpTo ==
    ASSUME NEW st \in Seq(Int), NEW i \in Nat, NEW m \in Nat, NEW p \in Int, i <= m, m <= Len(st),
           \A k \in 1 .. m : st[k] <= p,
           \A k \in m + 1 .. Len(st) : st[k] > p
    PROVE  UpTo(st, i, p) = m
<1>0. Len(st) \in Nat /\ \A k \in 1 .. Len(st) : st[k] \in Int
  OBVIOUS
<1>1. {k \in i + 1 .. Len(st) : st[k] <= p} = i + 1 .. m
  <2>1. ASSUME NEW k \in i + 1 .. Len(st), st[k] <= p PROVE k \in i + 1 .. m
    <3>1. k \in Int /\ i + 1 <= k /\ k <= Len(st) /\ k \in 1 .. Len(st) /\ st[k] \in Int
      BY <1>0
    <3>2. CASE k > m
      <4>1. k \in m + 1 .. Len(st)
        BY <3>1, <3>2
      <4>2. st[k] > p
        BY <4>1
      <4> QED BY <4>2, <3>1, <2>1
    <3> QED BY <3>1, <3>2
  <2>2. ASSUME NEW k \in i + 1 .. m PROVE k \in i + 1 .. Len(st) /\ st[k] <= p
    <3>1. k \in 1 .. m /\ k \in i + 1 .. Len(st)
      BY <1>0
    <3> QED BY <3>1
  <2> QED BY <2>1, <2>2
<1>2. i + 1 \in Int /\ m \in Int
  OBVIOUS
<1>3. Cardinality(i + 1 .. m) = IF i + 1 > m THEN 0 ELSE m - (i + 1) + 1
  BY <1>2, FS_Interval
<1>4. UpTo(st, i, p) = i + Cardinality(i + 1 .. m)
  BY <1>1 DEF UpTo
<1> QED BY <1>3, <1>4

\* The starts up to a place in the text are those of the text up to there.
LEMMA UpToStarts ==
    ASSUME NEW a \in Str, NEW b \in Str, NEW i \in Nat, i <= Len(LineStartsOf(a))
    PROVE  UpTo(LineStartsOf(a \o b), i, Len(a)) = Len(LineStartsOf(a))
<1>1. PICK s, u, st, m : /\ s = LineStartsOf(a) /\ u = Shifted(NewlineEnds(b), Len(a))
                         /\ st = LineStartsOf(a \o b) /\ m = Len(s)
  OBVIOUS
<1>2. Len(a) \in Nat /\ s \in Seq(Int) /\ m \in Nat /\ \A k \in 1 .. m : s[k] <= Len(a)
  BY <1>1, StartsTyped, StrNone
<1>3. st = s \o u /\ u \in Seq(Int) /\ \A k \in 1 .. Len(u) : u[k] > Len(a)
  BY <1>1, StartsSplit
<1>4. /\ st \in Seq(Int) /\ Len(st) = m + Len(u) /\ Len(u) \in Nat
      /\ \A k \in 1 .. m + Len(u) : st[k] = IF k <= m THEN s[k] ELSE u[k - m]
  <2>1. s \in Seq(Int) /\ u \in Seq(Int)
    BY <1>2, <1>3
  <2>2. /\ s \o u \in Seq(Int) /\ Len(s \o u) = Len(s) + Len(u) /\ Len(u) \in Nat
        /\ \A k \in 1 .. Len(s) + Len(u) : (s \o u)[k] = IF k <= Len(s) THEN s[k] ELSE u[k - Len(s)]
    BY <2>1, ConcatFacts
  <2> QED BY <2>2, <1>1, <1>3
<1>5. m <= Len(st) /\ i <= m /\ Len(a) \in Int
  BY <1>1, <1>2, <1>4
<1>6. ASSUME NEW k \in 1 .. m PROVE st[k] <= Len(a)
  <2>1. k \in 1 .. m + Len(u) /\ k <= m
    BY <1>2, <1>4
  <2> QED BY <2>1, <1>2, <1>4
<1>7. ASSUME NEW k \in m + 1 .. Len(st) PROVE st[k] > Len(a)
  <2>1. k \in 1 .. m + Len(u) /\ ~(k <= m) /\ k - m \in 1 .. Len(u)
    BY <1>2, <1>4
  <2>2. st[k] = u[k - m]
    BY <2>1, <1>4
  <2> QED BY <2>1, <2>2, <1>3
<1>8. UpTo(st, i, Len(a)) = m
  BY <1>2, <1>4, <1>5, <1>6, <1>7, CountUpTo
<1> QED BY <1>1, <1>8

LEMMA SliceMiddle ==
    ASSUME NEW s \in Seq(Int), NEW u \in Seq(Int), NEW v \in Seq(Int)
    PROVE  Slice((s \o u) \o v, Len(s), Len(s \o u)) = u
<1>1. PICK t, n, m : t = s \o u /\ n = Len(s) /\ m = Len(t)
  OBVIOUS
<1>2. t \in Seq(Int) /\ m = n + Len(u) /\ n \in Nat /\ Len(u) \in Nat /\ m \in Nat
  BY <1>1
<1>3. n <= m /\ m <= Len(t) /\ n <= n /\ m <= n + Len(u) /\ n - n = 0 /\ m - n = Len(u)
  BY <1>1, <1>2
<1>4. Slice(t \o v, n, m) = Slice(t, n, m)
  BY <1>2, <1>3, SliceLeft
<1>5. Slice(s \o u, n, m) = Slice(u, n - n, m - n)
  <2>1. Slice(s \o u, n, m) = Slice(u, n - Len(s), m - Len(s))
    <3>1. Len(s) <= n /\ m <= Len(s) + Len(u)
      BY <1>1, <1>3
    <3> QED BY <3>1, <1>2, <1>3, SliceRight
  <2> QED BY <2>1, <1>1
<1>6. Slice(u, 0, Len(u)) = u
  BY SliceWhole
<1> QED BY <1>1, <1>3, <1>4, <1>5, <1>6

\* The starts carried over the first edits are those of what they wrote, and
\* so many of the old ones are used up as the edits have passed.
Kept(l, b) ==
    CarryDone(LineStartsOf(b), l)
      = [out |-> LineStartsOf(Written(l, b)), i |-> Len(LineStartsOf(Slice(b, 0, Stop(l)))),
         delta |-> Len(Written(l, b)) - Stop(l)]

\* A text cut in two at i.
LEMMA StrCut ==
    ASSUME NEW b \in Str, NEW i \in Nat, i <= Len(b)
    PROVE  /\ Slice(b, 0, i) \in Str /\ Len(Slice(b, 0, i)) = i /\ Slice(b, i, Len(b)) \in Str
           /\ Slice(b, 0, i) \o Slice(b, i, Len(b)) = b
<1>1. 0 \in Nat /\ Len(b) \in Nat /\ 0 <= i /\ Len(b) <= Len(b) /\ i - 0 = i
  BY StrNone
<1>2. Slice(b, 0, i) \in Str /\ Len(Slice(b, 0, i)) = i - 0
  BY <1>1, StrSlice
<1>3. Slice(b, i, Len(b)) \in Str
  BY <1>1, StrSlice
<1>4. Slice(b, 0, i) \o Slice(b, i, Len(b)) = Slice(b, 0, Len(b))
  BY <1>1, StrJoin
<1> QED BY <1>1, <1>2, <1>3, <1>4, StrWhole

LEMMA KeptAppend ==
    ASSUME NEW b \in Str, NEW f \in Seq(Edit), NEW x \in Edit, Canon(Append(f, x), Len(b)), Kept(f, b)
    PROVE  Kept(Append(f, x), b)
<1>0. Len(b) \in Nat
  BY StrNone
<1>1. PICK p, q, r, i : p = Stop(f) /\ q = x.pos /\ r = End(x) /\ i = x.ins
  OBVIOUS
<1>2. /\ p \in Nat /\ q \in Nat /\ r \in Nat /\ i \in Str /\ p <= q /\ q <= r /\ r <= Len(b)
      /\ Stop(Append(f, x)) = r /\ x.del = r - q /\ Len(i) \in Nat
  BY <1>0, <1>1, FollowsFacts
<1>3. PICK w, m, st, D, n : /\ w = Written(f, b) /\ m = Slice(b, p, q) /\ st = LineStartsOf(b)
                            /\ D = CarryDone(st, f) /\ n = Len(w)
  OBVIOUS
<1>4. w \in Str /\ m \in Str /\ Written(Append(f, x), b) = (w \o m) \o i /\ n \in Nat
  BY <1>1, <1>3, WrittenAppend, StrNone
<1>5. PICK A, B, R, sq, sr : /\ A = Slice(b, 0, p) /\ B = Slice(b, 0, q) /\ R = Slice(b, 0, r)
                             /\ sq = Slice(b, q, Len(b)) /\ sr = Slice(b, r, Len(b))
  OBVIOUS
<1>6. /\ 0 \in Nat /\ 0 <= p /\ 0 <= q /\ 0 <= r /\ p <= Len(b) /\ q <= Len(b) /\ Len(b) <= Len(b)
  BY <1>0, <1>2
<1>7. A \in Str /\ B \in Str /\ R \in Str /\ Len(A) = p /\ Len(B) = q /\ Len(R) = r
  BY <1>2, <1>5, <1>6, StrCut
<1>8. sq \in Str /\ sr \in Str /\ Len(m) = q - p
  BY <1>0, <1>2, <1>3, <1>5, <1>6, StrSlice
<1>9. A \o m = B
  <2>1. p \in Nat /\ q \in Nat /\ p <= q /\ q <= Len(b)
    BY <1>2, <1>6
  <2>2. Slice(b, 0, p) \o Slice(b, p, q) = Slice(b, 0, q)
    BY <2>1, StrPrefix
  <2> QED BY <2>2, <1>3, <1>5
<1>10. B \o sq = b
  BY <1>2, <1>5, <1>6, StrCut
<1>11. R \o sr = b
  BY <1>2, <1>5, <1>6, StrCut
<1>12. PICK sm \in Str : sm = Slice(b, q, r)
  <2>1. Slice(b, q, r) \in Str
    BY <1>2, StrSlice
  <2> QED BY <2>1
<1>13. B \o sm = R
  <2>1. Slice(b, 0, q) \o Slice(b, q, r) = Slice(b, 0, r)
    <3>1. q \in Nat /\ r \in Nat /\ q <= r /\ r <= Len(b)
      BY <1>2
    <3> QED BY <3>1, StrPrefix
  <2> QED BY <2>1, <1>5, <1>12
<1>14. /\ D.out = LineStartsOf(w) /\ D.i = Len(LineStartsOf(A)) /\ D.delta = n - p
  BY <1>1, <1>3, <1>5 DEF Kept
<1>15. PICK sA, sB, sR, u : /\ sA = LineStartsOf(A) /\ sB = LineStartsOf(B) /\ sR = LineStartsOf(R)
                            /\ u = Shifted(NewlineEnds(m), p)
  OBVIOUS
<1>16. sA \in Seq(Int) /\ sB \in Seq(Int) /\ sR \in Seq(Int) /\ Len(sA) \in Nat /\ Len(sB) \in Nat /\ Len(sR) \in Nat
  BY <1>7, <1>15, StartsTyped
<1>17. sB = sA \o u /\ u \in Seq(Int)
  BY <1>4, <1>7, <1>9, <1>15, StartsSplit
<1>18. Len(sA) <= Len(sB)
  BY <1>16, <1>17, ConcatFacts
<1>19. Len(sB) <= Len(sR)
  <2>1. sR = sB \o Shifted(NewlineEnds(sm), q) /\ Shifted(NewlineEnds(sm), q) \in Seq(Int)
    BY <1>7, <1>13, <1>15, StartsSplit
  <2> QED BY <2>1, <1>16, ConcatFacts
<1>20. UpTo(st, D.i, q) = Len(sB)
  <2>1. D.i \in Nat /\ D.i <= Len(LineStartsOf(B))
    BY <1>14, <1>15, <1>16, <1>18
  <2>2. UpTo(LineStartsOf(B \o sq), D.i, Len(B)) = Len(LineStartsOf(B))
    BY <2>1, <1>7, <1>8, UpToStarts
  <2> QED BY <2>2, <1>3, <1>7, <1>10, <1>15
<1>21. UpTo(st, Len(sB), r) = Len(sR)
  BY <1>3, <1>7, <1>8, <1>11, <1>15, <1>16, <1>19, UpToStarts
<1>22. Slice(st, D.i, Len(sB)) = u
  <2>1. PICK v : v = Shifted(NewlineEnds(sq), q)
    OBVIOUS
  <2>2. st = sB \o v /\ v \in Seq(Int)
    BY <2>1, <1>3, <1>7, <1>8, <1>10, <1>15, StartsSplit
  <2>3. Slice((sA \o u) \o v, Len(sA), Len(sA \o u)) = u
    BY <2>2, <1>16, <1>17, SliceMiddle
  <2> QED BY <2>2, <2>3, <1>14, <1>15, <1>17
<1>23. Shifted(u, n - p) = Shifted(NewlineEnds(m), n)
  <2>1. NewlineEnds(m) \in Seq(Int) /\ p \in Int /\ n - p \in Int /\ p + (n - p) = n
    BY <1>2, <1>4, EndsTyped
  <2>2. Shifted(Shifted(NewlineEnds(m), p), n - p) = Shifted(NewlineEnds(m), p + (n - p))
    BY <2>1, ShiftTwice
  <2> QED BY <2>1, <2>2, <1>15
<1>24. w \o m \in Str /\ Len(w \o m) = n + (q - p)
  BY <1>3, <1>4, <1>8, StrConcat
<1>25. LineStartsOf(w \o m) = LineStartsOf(w) \o Shifted(NewlineEnds(m), n)
  BY <1>3, <1>4, StartsSplit
<1>26. LineStartsOf((w \o m) \o i) = LineStartsOf(w \o m) \o Shifted(NewlineEnds(i), Len(w \o m))
  BY <1>2, <1>24, StartsSplit
<1>27. q + D.delta = n + (q - p)
  BY <1>2, <1>4, <1>14
<1>28. PICK E : E = CarryDone(st, Append(f, x))
  OBVIOUS
<1>29. E = [out |-> D.out \o Shifted(Slice(st, D.i, UpTo(st, D.i, q)), D.delta)
                          \o Shifted(NewlineEnds(i), q + D.delta),
            i |-> UpTo(st, UpTo(st, D.i, q), r),
            delta |-> D.delta + Delta(x)]
  <2>1. E = CarryStep(D, x, st)
    BY <1>3, <1>28, CarryAppend
  <2> QED BY <2>1, <1>1 DEF CarryStep
<1>30. D.delta + Delta(x) = Len((w \o m) \o i) - r
  <2>1. Len((w \o m) \o i) = (n + (q - p)) + Len(i)
    BY <1>2, <1>24, StrConcat
  <2>2. Delta(x) = Len(i) - (r - q)
    BY <1>1, <1>2 DEF Delta
  <2> QED BY <2>1, <2>2, <1>2, <1>4, <1>14
<1>31. E = [out |-> LineStartsOf((w \o m) \o i), i |-> Len(sR), delta |-> Len((w \o m) \o i) - r]
  BY <1>14, <1>20, <1>21, <1>22, <1>23, <1>24, <1>25, <1>26, <1>27, <1>29, <1>30
<1> QED BY <1>2, <1>3, <1>4, <1>5, <1>15, <1>28, <1>31 DEF Kept

LEMMA KeptAll ==
    ASSUME NEW b \in Str, NEW l, Canon(l, Len(b))
    PROVE  Kept(l, b)
<1>0. Len(b) \in Nat
  BY StrNone
<1> DEFINE Q == {f \in Seq(Edit) : Canon(f, Len(b)) => Kept(f, b)}
<1>1. <<>> \in Q
  <2>1. <<>> \in Seq(Edit)
    OBVIOUS
  <2>2. PICK e, st : e = <<>> /\ st = LineStartsOf(b)
    OBVIOUS
  <2>3. Written(e, b) = <<>> /\ Stop(e) = 0 /\ Len(e) = 0
    BY <2>2, NoEdits
  <2>4. CarryDone(st, e) = [out |-> <<0>>, i |-> 1, delta |-> 0]
    <3>1. Len(e) \in Nat
      BY <2>3
    <3>2. Carried(st, e)[0] = [out |-> <<0>>, i |-> 1, delta |-> 0]
      BY <3>1, CarriedFacts
    <3> QED BY <3>2, <2>3 DEF CarryDone
  <2>5. LineStartsOf(<<>>) = <<0>>
    <3>1. <<0>> \in Seq(Int)
      OBVIOUS
    <3>2. LineStartsOf(<<>>) = <<0>> \o <<>>
      BY EndsNone DEF LineStartsOf
    <3> QED BY <3>1, <3>2, NoneFacts
  <2>6. Len(<<0>>) = 1
    OBVIOUS
  <2>7. Slice(b, 0, 0) = <<>>
    BY <1>0, SliceNone DEF Str
  <2>8. Len(<<>>) - 0 = 0
    OBVIOUS
  <2>9. Kept(e, b)
    BY <2>2, <2>3, <2>4, <2>5, <2>6, <2>7, <2>8 DEF Kept
  <2> QED BY <2>1, <2>2, <2>9
<1>2. ASSUME NEW f \in Q, NEW x \in Edit PROVE Append(f, x) \in Q
  <2>0. f \in Seq(Edit) /\ Append(f, x) \in Seq(Edit)
    BY AppendFacts
  <2> SUFFICES ASSUME Canon(Append(f, x), Len(b)) PROVE Kept(Append(f, x), b)
    BY <2>0
  <2>1. Canon(f, Len(b))
    BY <2>0, <1>0, FollowsFacts
  <2>2. Kept(f, b)
    BY <2>1
  <2> QED BY <2>0, <2>2, KeptAppend
<1> HIDE DEF Q
<1>3. Q = Seq(Edit)
  <2>1. Q \in SUBSET Seq(Edit)
    BY DEF Q
  <2> QED BY <1>1, <1>2, <2>1, ListInduct
<1>4. l \in Q
  BY <1>3 DEF Canon
<1> QED BY <1>4 DEF Q

\* carried_line_starts finds what a scan of the new text finds.
LEMMA CarriedIsScanned ==
    ASSUME NEW b \in Str, NEW l, Canon(l, Len(b))
    PROVE  CarriedLineStarts(LineStartsOf(b), l) = LineStartsOf(ApplyTo(l, b))
<1>0. Len(b) \in Nat
  BY StrNone
<1>1. PICK w, t, s, st, A, n : /\ w = Written(l, b) /\ s = Stop(l) /\ t = Slice(b, s, Len(b))
                               /\ st = LineStartsOf(b) /\ A = Slice(b, 0, s) /\ n = Len(w)
  OBVIOUS
<1>2. w \in Str /\ t \in Str /\ ApplyTo(l, b) = w \o t /\ s \in Nat /\ s <= Len(b) /\ n \in Nat
  BY <1>0, <1>1, AppliedFacts, StopFacts, StrNone
<1>3. 0 \in Nat /\ 0 <= s /\ Len(b) <= Len(b)
  BY <1>0, <1>2
<1>4. A \in Str /\ Len(A) = s
  BY <1>1, <1>2, <1>3, StrSlice
<1>5. A \o t = b
  BY <1>1, <1>2, StrCut
<1>6. PICK D : D = Carried(st, l)[Len(l)]
  OBVIOUS
<1>7. D.out = LineStartsOf(w) /\ D.i = Len(LineStartsOf(A)) /\ D.delta = n - s
  <2>1. Kept(l, b)
    BY KeptAll
  <2> QED BY <2>1, <1>1, <1>6 DEF Kept, CarryDone
<1>8. CarriedLineStarts(st, l) = D.out \o Shifted(Slice(st, D.i, Len(st)), D.delta)
  BY <1>6 DEF CarriedLineStarts
<1>9. PICK sA, u : sA = LineStartsOf(A) /\ u = Shifted(NewlineEnds(t), s)
  OBVIOUS
<1>10. st = sA \o u /\ u \in Seq(Int) /\ sA \in Seq(Int)
  <2>1. sA \in Seq(Int)
    BY <1>4, <1>9, StartsTyped
  <2>2. /\ LineStartsOf(A \o t) = LineStartsOf(A) \o Shifted(NewlineEnds(t), Len(A))
        /\ Shifted(NewlineEnds(t), Len(A)) \in Seq(Int)
    BY <1>2, <1>4, StartsSplit
  <2> QED BY <2>1, <2>2, <1>1, <1>4, <1>5, <1>9
<1>11. Slice(st, D.i, Len(st)) = u
  <2>1. <<>> \in Seq(Int)
    OBVIOUS
  <2>2. Slice((sA \o u) \o <<>>, Len(sA), Len(sA \o u)) = u
    BY <2>1, <1>10, SliceMiddle
  <2>3. st \o <<>> = st
    <3>1. st \in Seq(Int)
      BY <1>1, StartsTyped
    <3> QED BY <3>1, NoneFacts
  <2> QED BY <2>2, <2>3, <1>7, <1>9, <1>10
<1>12. Shifted(u, n - s) = Shifted(NewlineEnds(t), n)
  <2>1. NewlineEnds(t) \in Seq(Int) /\ s \in Int /\ n - s \in Int /\ s + (n - s) = n
    BY <1>2, EndsTyped
  <2>2. Shifted(Shifted(NewlineEnds(t), s), n - s) = Shifted(NewlineEnds(t), s + (n - s))
    BY <2>1, ShiftTwice
  <2> QED BY <2>1, <2>2, <1>9
<1>13. LineStartsOf(w \o t) = LineStartsOf(w) \o Shifted(NewlineEnds(t), n)
  BY <1>1, <1>2, StartsSplit
<1> QED BY <1>1, <1>2, <1>7, <1>8, <1>11, <1>12, <1>13

----------------------------------------------------------------------------
(* The states.                                                             *)

LEMMA StringsFacts ==
    ASSUME NEW n \in Nat, NEW s
    PROVE  s \in Strings(n) <=> s \in Str /\ Len(s) <= n
<1>1. ASSUME s \in Strings(n) PROVE s \in Str /\ Len(s) <= n
  <2>1. PICK k \in 0 .. n : s \in [1 .. k -> Bytes]
    BY <1>1 DEF Strings, Bytes
  <2>2. s \in Seq(Bytes) /\ Len(s) = k
    BY SMTT(30), <2>1
  <2> QED BY <2>2 DEF Str
<1>2. ASSUME s \in Str, Len(s) <= n PROVE s \in Strings(n)
  <2>1. s \in [1 .. Len(s) -> Bytes] /\ Len(s) \in 0 .. n
    BY <1>2 DEF Str
  <2> QED BY <2>1 DEF Strings, Bytes
<1> QED BY <1>1, <1>2

LEMMA AcceptedFacts ==
    ASSUME NEW len \in 0 .. MaxLen, NEW list \in Accepted[len]
    PROVE  Canon(list, len) /\ Len(list) <= MaxEdits /\ Len(list) \in Nat
<1>0. MaxLen \in Nat /\ MaxIns \in Nat /\ MaxEdits \in Nat
  BY BoundsAssumption, MaxLenAssumption
<1>1. list \in Lists(len) /\ Disjoint(list) /\ InBounds(list, len)
  BY DEF Accepted
<1>2. PICK n \in 0 .. MaxEdits : list \in [1 .. n -> Edits(len)]
  BY <1>1 DEF Lists
<1>3. ASSUME NEW e \in Edits(len) PROVE e \in Edit
  <2>1. e \in [pos : 0 .. len, del : 0 .. len, ins : Strings(MaxIns)]
    BY DEF Edits
  <2>2. e.ins \in Str
    BY <2>1, <1>0, StringsFacts
  <2>3. e = [pos |-> e.pos, del |-> e.del, ins |-> e.ins] /\ e.pos \in Nat /\ e.del \in Nat
    BY <2>1, <1>0
  <2> QED BY <2>2, <2>3 DEF Edit
<1>4. list \in [1 .. n -> Edit]
  BY <1>2, <1>3
<1>5. list \in Seq(Edit) /\ Len(list) = n
  BY <1>4
<1> QED BY <1>0, <1>1, <1>5 DEF Canon

\* Initially nothing has changed and nothing is cached.
LEMMA InitIInv == Init => IInv
<1> SUFFICES ASSUME Init PROVE IInv
  OBVIOUS
<1>0. MaxLen \in Nat /\ MaxEdits \in Nat
  BY BoundsAssumption, MaxLenAssumption
<1>1. buf \in Strings(MaxLen) /\ line_starts = <<>> /\ before = NoStarts /\ old = buf /\ last = <<>>
  BY DEF Init
<1>2. buf \in Str
  BY <1>0, <1>1, StringsFacts
<1>3. Canon(last, Len(old))
  BY <1>1, <1>2, NoEdits
<1>4. Len(last) <= MaxEdits /\ Len(before.edits) <= MaxEdits
  BY <1>0, <1>1 DEF NoStarts
<1>5. buf = ApplyTo(last, old)
  <2>1. ApplyTo(<<>>, buf) = Written(<<>>, buf) \o Slice(buf, Stop(<<>>), Len(buf))
    BY <1>2, NoEdits, AppliedFacts
  <2>2. Slice(buf, 0, Len(buf)) = buf /\ <<>> \o buf = buf
    BY <1>2, StrWhole, StrNone
  <2> QED BY <2>1, <2>2, <1>1, <1>2, NoEdits
<1>6. StartsInv
  BY <1>1 DEF StartsInv, NoStarts
<1> QED BY <1>1, <1>3, <1>4, <1>5, <1>6 DEF IInv

LEMMA ChangeIInv ==
    ASSUME IInv, NEW list \in Accepted[Len(buf)], Change(list)
    PROVE  IInv'
<1>0. MaxLen \in Nat /\ MaxEdits \in Nat
  BY BoundsAssumption, MaxLenAssumption
<1>1. buf \in Strings(MaxLen) /\ StartsInv
  BY DEF IInv
<1>2. buf \in Str /\ Len(buf) <= MaxLen /\ Len(buf) \in Nat
  BY <1>0, <1>1, StringsFacts, StrNone
<1>3. Canon(list, Len(buf)) /\ Len(list) <= MaxEdits
  <2>1. PICK n : n = Len(buf)
    OBVIOUS
  <2>2. n \in 0 .. MaxLen /\ list \in Accepted[n]
    BY <2>1, <1>0, <1>2
  <2>3. Canon(list, n) /\ Len(list) <= MaxEdits
    BY <2>2, AcceptedFacts
  <2> QED BY <2>1, <2>3
<1>4. /\ buf' = ApplyTo(list, buf) /\ Len(ApplyTo(list, buf)) <= MaxLen /\ list # <<>>
      /\ before' = CarryLineStarts(list) /\ line_starts' = <<>> /\ old' = buf /\ last' = list
  BY DEF Change
<1>5. buf' \in Strings(MaxLen)
  <2>1. ApplyTo(list, buf) \in Str
    BY <1>2, <1>3, AppliedFacts
  <2> QED BY <2>1, <1>0, <1>4, StringsFacts
<1>6. Canon(last, Len(old))'
  BY <1>3, <1>4 DEF Canon, Disjoint, InBounds, End
<1>7. (Len(last) <= MaxEdits)' /\ (Len(before.edits) <= MaxEdits)'
  <2>1. before' = NoStarts \/ before' = [starts |-> line_starts, edits |-> list]
    BY <1>4 DEF CarryLineStarts
  <2>2. Len(NoStarts.edits) <= MaxEdits
    BY <1>0 DEF NoStarts
  <2> QED BY <2>1, <2>2, <1>3, <1>4
<1>8. buf' = ApplyTo(list, buf) /\ last' = list /\ old' = buf
  BY <1>4
<1>9. (buf = ApplyTo(last, old))'
  BY <1>8
<1>10. StartsInv'
  <2>1. (line_starts # <<>> => line_starts = LineStartsOf(buf))'
    BY <1>4
  <2>2. CASE line_starts = <<>>
    <3>1. before'.starts = <<>>
      BY <2>2, <1>4 DEF CarryLineStarts, NoStarts
    <3> QED BY <2>1, <3>1 DEF StartsInv
  <2>3. CASE line_starts # <<>>
    <3>1. before' = [starts |-> line_starts, edits |-> list]
      BY <2>3, <1>4 DEF CarryLineStarts
    <3>2. line_starts = LineStartsOf(buf)
      BY <2>3, <1>1 DEF StartsInv
    <3>3. (before = [starts |-> LineStartsOf(old), edits |-> last])'
      BY <3>1, <3>2, <1>4
    <3> QED BY <2>1, <3>3 DEF StartsInv
  <2> QED BY <2>2, <2>3
<1> QED BY <1>1, <1>4, <1>5, <1>6, <1>7, <1>9, <1>10 DEF IInv

LEMMA LineStartsIInv ==
    ASSUME IInv, LineStarts
    PROVE  IInv'
<1>0. MaxLen \in Nat /\ MaxEdits \in Nat
  BY BoundsAssumption, MaxLenAssumption
<1>1. /\ buf \in Strings(MaxLen) /\ old \in Strings(MaxLen) /\ Canon(last, Len(old))
      /\ Len(last) <= MaxEdits /\ Len(before.edits) <= MaxEdits /\ buf = ApplyTo(last, old) /\ StartsInv
  BY DEF IInv
<1>2. /\ line_starts' = IF before.starts = <<>> THEN LineStartsOf(buf)
                        ELSE CarriedLineStarts(before.starts, before.edits)
      /\ buf' = buf /\ before' = before /\ old' = old /\ last' = last
  BY DEF LineStarts
<1>3. line_starts' = LineStartsOf(buf)
  <2>1. CASE before.starts = <<>>
    BY <2>1, <1>2
  <2>2. CASE before.starts # <<>>
    <3>1. before.starts = LineStartsOf(old) /\ before.edits = last
      BY <2>2, <1>1 DEF StartsInv
    <3>2. old \in Str
      BY <1>0, <1>1, StringsFacts
    <3>3. CarriedLineStarts(LineStartsOf(old), last) = LineStartsOf(ApplyTo(last, old))
      BY <3>2, <1>1, CarriedIsScanned
    <3> QED BY <2>2, <3>1, <3>3, <1>1, <1>2
  <2> QED BY <2>1, <2>2
<1>4. (line_starts # <<>> => line_starts = LineStartsOf(buf))'
  BY <1>2, <1>3
<1>5. (before.starts # <<>> => before = [starts |-> LineStartsOf(old), edits |-> last])'
  BY <1>1, <1>2 DEF StartsInv
<1>6. StartsInv'
  BY <1>4, <1>5 DEF StartsInv
<1>7. Canon(last, Len(old))'
  BY <1>1, <1>2 DEF Canon, Disjoint, InBounds, End
<1>8. (buf = ApplyTo(last, old))'
  BY <1>1, <1>2
<1> QED BY <1>1, <1>2, <1>6, <1>7, <1>8 DEF IInv

\* Nothing else changes what is kept of the last change: the text is what its
\* canonical edits made of the old one, and starts that are cached or set
\* aside are those of their text (Document::replace_range and its callers,
\* carry_line_starts, line_starts).
THEOREM Inductive == Spec => []IInv
<1>1. IInv /\ [Next]_vars => IInv'
  <2> SUFFICES ASSUME IInv, [Next]_vars PROVE IInv'
    OBVIOUS
  <2>1. ASSUME NEW list \in Accepted[Len(buf)], Change(list) PROVE IInv'
    BY <2>1, ChangeIInv
  <2>2. CASE LineStarts
    BY <2>2, LineStartsIInv
  <2>3. CASE UNCHANGED vars
    <3>1. buf' = buf /\ line_starts' = line_starts /\ before' = before /\ old' = old /\ last' = last
      BY <2>3 DEF vars
    <3>2. Canon(last, Len(old))'
      BY <3>1 DEF IInv, Canon, Disjoint, InBounds, End
    <3>3. StartsInv'
      BY <3>1 DEF IInv, StartsInv
    <3>4. (buf = ApplyTo(last, old))'
      BY <3>1 DEF IInv
    <3> QED BY <3>1, <3>2, <3>3, <3>4 DEF IInv
  <2> QED BY <2>1, <2>2, <2>3 DEF Next
<1> QED BY <1>1, InitIInv, PTL DEF Spec

LEMMA HistoryFacts ==
    ASSUME IInv
    PROVE  buf \in Str /\ old \in Str /\ Canon(last, Len(old)) /\ buf = ApplyTo(last, old)
<1>1. MaxLen \in Nat
  BY BoundsAssumption, MaxLenAssumption
<1> QED BY <1>1, StringsFacts DEF IInv

\* The inverse that EditList::inverse stores with any accepted list of edits
\* is canonical and takes the new text back to the old one, for lists and
\* texts of any length.
THEOREM InverseIsRight == Spec => []InverseRestores
<1>1. IInv => InverseRestores
  <2> SUFFICES ASSUME IInv PROVE InverseRestores
    OBVIOUS
  <2>1. buf \in Str /\ old \in Str /\ Canon(last, Len(old)) /\ buf = ApplyTo(last, old)
    BY HistoryFacts
  <2>2. PICK inv, new : inv = InverseList(last, old) /\ new = ApplyTo(last, old)
    OBVIOUS
  <2>3. Canon(inv, Len(new)) /\ ApplyTo(inv, new) = old
    BY <2>1, <2>2, InverseTakesBack
  <2>4. Disjoint(inv) /\ InBounds(inv, Len(buf)) /\ ApplyTo(inv, buf) = old
    BY <2>1, <2>2, <2>3 DEF Canon
  <2> QED BY <2>2, <2>4 DEF InverseRestores
<1> QED BY <1>1, Inductive, PTL

\* EditList::apply_to is splicing the edits in one at a time from the last to
\* the first, for lists and texts of any length.
THEOREM ApplyIsRight == Spec => []ApplyIsSplicing
<1>1. IInv => ApplyIsSplicing
  BY HistoryFacts, AppliedIsSpliced DEF ApplyIsSplicing
<1> QED BY <1>1, Inductive, PTL

\* The line starts a document answers with, scanned by line_starts_of or
\* carried through the last change by carried_line_starts, are those of its
\* text; and every variable has its type.
THEOREM StartsAreRight == Spec => []CachedStartsAreExact
<1>1. IInv => CachedStartsAreExact
  <2> SUFFICES ASSUME IInv PROVE CachedStartsAreExact
    OBVIOUS
  <2>0. MaxLen \in Nat /\ MaxEdits \in Nat
    BY BoundsAssumption, MaxLenAssumption
  <2>1. ASSUME NEW s \in Strings(MaxLen) PROVE LineStartsOf(s) \in Seq(0 .. MaxLen)
    <3>1. s \in Str /\ Len(s) <= MaxLen /\ Len(s) \in Nat
      BY <2>0, StringsFacts, StrNone
    <3>2. PICK t : t = LineStartsOf(s)
      OBVIOUS
    <3>3. t \in Seq(Int) /\ \A k \in 1 .. Len(t) : 0 <= t[k] /\ t[k] <= Len(s)
      BY <3>1, <3>2, StartsTyped
    <3>4. \A k \in 1 .. Len(t) : t[k] \in 0 .. MaxLen
      BY <3>1, <3>3, <2>0
    <3>5. t \in [1 .. Len(t) -> 0 .. MaxLen] /\ Len(t) \in Nat
      BY <3>3, <3>4
    <3>6. t \in Seq(0 .. MaxLen)
      <4>1. PICK n, T : n = Len(t) /\ T = 0 .. MaxLen
        OBVIOUS
      <4>2. t \in [1 .. n -> T] /\ n \in Nat
        BY <4>1, <3>5
      <4>3. t \in Seq(T)
        BY <4>2
      <4> QED BY <4>1, <4>3
    <3> QED BY <3>2, <3>6
  <2>2. <<>> \in Seq(0 .. MaxLen)
    OBVIOUS
  <2>3. buf \in Strings(MaxLen) /\ old \in Strings(MaxLen) /\ Len(last) <= MaxEdits /\ Len(before.edits) <= MaxEdits
    BY DEF IInv
  <2>4. line_starts # <<>> => line_starts = LineStartsOf(buf)
    BY DEF IInv, StartsInv
  <2>5. before.starts # <<>> => before.starts = LineStartsOf(old)
    BY DEF IInv, StartsInv
  <2>6. line_starts \in Seq(0 .. MaxLen)
    BY <2>1, <2>2, <2>3, <2>4
  <2>7. before.starts \in Seq(0 .. MaxLen)
    BY <2>1, <2>2, <2>3, <2>5
  <2> QED BY <2>3, <2>4, <2>6, <2>7 DEF CachedStartsAreExact, TypeOK
<1> QED BY <1>1, Inductive, PTL

----------------------------------------------------------------------------
(* The edit in whole lines.                                                *)

\* The largest of numbers up to a bound.
LEMMA MaxFacts ==
    ASSUME NEW top \in Nat, NEW S, S \subseteq 0 .. top, S # {}
    PROVE  Max(S) \in S /\ \A y \in S : y <= Max(S)
<1> DEFINE P == {m \in Nat : \A T \in SUBSET (0 .. m) : T # {} => \E x \in T : \A y \in T : x >= y}
<1>1. 0 \in P
  <2>1. ASSUME NEW T \in SUBSET (0 .. 0), T # {} PROVE \E x \in T : \A y \in T : x >= y
    <3>1. \A y \in T : y = 0
      OBVIOUS
    <3>2. 0 \in T
      BY <2>1, <3>1
    <3>3. \A y \in T : 0 >= y
      BY <3>1
    <3> QED BY <3>2, <3>3
  <2> QED BY <2>1
<1>2. ASSUME NEW m \in P PROVE m + 1 \in P
  <2>1. m \in Nat /\ \A T \in SUBSET (0 .. m) : T # {} => \E x \in T : \A y \in T : x >= y
    OBVIOUS
  <2> HIDE DEF P
  <2>2. ASSUME NEW T \in SUBSET (0 .. m + 1), T # {} PROVE \E x \in T : \A y \in T : x >= y
    <3>1. CASE m + 1 \in T
      <4>1. \A y \in T : m + 1 >= y
        BY <2>1
      <4> QED BY <3>1, <4>1
    <3>2. CASE m + 1 \notin T
      <4>1. \A y \in T : y \in 0 .. m
        BY <3>2, <2>1
      <4> QED BY <4>1, <2>1, <2>2
    <3> QED BY <3>1, <3>2
  <2> QED BY <2>1, <2>2 DEF P
<1> HIDE DEF P
<1>3. P = Nat
  <2>1. P \in SUBSET Nat
    BY DEF P
  <2> QED BY <1>1, <1>2, <2>1, Induct
<1>4. \E x \in S : \A y \in S : x >= y
  BY <1>3 DEF P
<1>5. Max(S) \in S /\ \A y \in S : Max(S) >= y
  BY <1>4 DEF Max
<1>6. PICK m : m = Max(S)
  OBVIOUS
<1>7. m \in S /\ \A y \in S : m >= y
  BY <1>5, <1>6
<1>8. \A y \in S : m \in Int /\ y \in Int
  BY <1>7
<1>9. \A y \in S : y <= m
  BY <1>7, <1>8
<1> QED BY <1>6, <1>7, <1>9

\* The largest number of a set, or 0 if the set holds none.
LEMMA MaxOrNone ==
    ASSUME NEW top \in Nat, NEW S, S \subseteq 0 .. top
    PROVE  /\ Max({0} \cup S) \in 0 .. top /\ Max({0} \cup S) \in {0} \cup S
           /\ \A y \in S : y <= Max({0} \cup S)
<1>1. PICK T : T = {0} \cup S
  OBVIOUS
<1>2. T \subseteq 0 .. top /\ T # {}
  BY <1>1
<1>3. Max(T) \in T /\ \A y \in T : y <= Max(T)
  BY <1>2, MaxFacts
<1> QED BY <1>1, <1>2, <1>3

\* n bytes of a from offset i on are those of b from offset j on.
Agree(a, i, b, j, n) == \A k \in 1 .. n : a[i + k] = b[j + k]

LEMMA SliceEq ==
    ASSUME NEW a \in Str, NEW b \in Str, NEW i \in Nat, NEW p \in Nat, NEW j \in Nat, NEW q \in Nat,
           NEW n \in Nat, p = i + n, q = j + n, p <= Len(a), q <= Len(b)
    PROVE  Slice(a, i, p) = Slice(b, j, q) <=> Agree(a, i, b, j, n)
<1>1. PICK u, v, S : u = Slice(a, i, p) /\ v = Slice(b, j, q) /\ S = Bytes
  OBVIOUS
<1>2. n = p - i /\ n = q - j /\ i <= p /\ j <= q /\ a \in Seq(S) /\ b \in Seq(S)
  BY <1>1 DEF Str
<1>0. i <= p /\ p <= Len(a) /\ a \in Seq(S) /\ j <= q /\ q <= Len(b) /\ b \in Seq(S)
  BY <1>1, <1>2
<1>3. u \in Seq(S) /\ Len(u) = n /\ \A k \in 1 .. n : u[k] = a[i + k]
  <2>1. /\ Slice(a, i, p) \in Seq(S) /\ Len(Slice(a, i, p)) = p - i
        /\ \A k \in 1 .. p - i : Slice(a, i, p)[k] = a[i + k]
    BY <1>0 DEF Slice
  <2> QED BY <2>1, <1>1, <1>2
<1>4. v \in Seq(S) /\ Len(v) = n /\ \A k \in 1 .. n : v[k] = b[j + k]
  <2>1. /\ Slice(b, j, q) \in Seq(S) /\ Len(Slice(b, j, q)) = q - j
        /\ \A k \in 1 .. q - j : Slice(b, j, q)[k] = b[j + k]
    BY <1>0 DEF Slice
  <2> QED BY <2>1, <1>1, <1>2
<1>5. u = v => \A k \in 1 .. n : a[i + k] = b[j + k]
  BY <1>3, <1>4
<1>6. (\A k \in 1 .. n : u[k] = v[k]) => u = v
  BY <1>3, <1>4
<1>7. (\A k \in 1 .. n : a[i + k] = b[j + k]) => u = v
  BY <1>3, <1>4, <1>6
<1> QED BY <1>1, <1>5, <1>7 DEF Agree

LEMMA MinOfFacts ==
    ASSUME NEW m \in Nat, NEW n \in Nat
    PROVE  /\ MinOf(m, n) \in Nat /\ MinOf(m, n) <= m /\ MinOf(m, n) <= n
           /\ m <= n => MinOf(m, n) = m
           /\ n <= m => MinOf(m, n) = n
BY DEF MinOf

\* The first n bytes of both texts are the same.
SameHead(a, b, n) == Agree(a, 0, b, 0, n)

\* The last n bytes of both texts are the same.
SameTail(a, b, n) == Agree(a, Len(a) - n, b, Len(b) - n, n)

LEMMA SameTailEq ==
    ASSUME NEW a \in Str, NEW b \in Str, NEW n \in Nat, n <= Len(a), n <= Len(b)
    PROVE  Slice(a, Len(a) - n, Len(a)) = Slice(b, Len(b) - n, Len(b)) <=> SameTail(a, b, n)
<1>1. PICK i, j, p, q : i = Len(a) - n /\ j = Len(b) - n /\ p = Len(a) /\ q = Len(b)
  OBVIOUS
<1>2. Len(a) \in Nat /\ Len(b) \in Nat
  BY StrNone
<1>3. /\ i \in Nat /\ j \in Nat /\ p \in Nat /\ q \in Nat /\ p = i + n /\ q = j + n
      /\ p <= Len(a) /\ q <= Len(b)
  BY <1>1, <1>2
<1>4. Slice(a, i, p) = Slice(b, j, q) <=> Agree(a, i, b, j, n)
  BY <1>3, SliceEq
<1> QED BY <1>1, <1>3, <1>4 DEF SameTail

\* What CommonPrefix finds: the longest shared head.
LEMMA PrefixFacts ==
    ASSUME NEW a \in Str, NEW b \in Str, NEW m, m = MinOf(Len(a), Len(b)), NEW c, c = CommonPrefix(a, b)
    PROVE  /\ m \in Nat /\ m <= Len(a) /\ m <= Len(b)
           /\ c \in 0 .. m /\ SameHead(a, b, c) /\ \A n \in 0 .. m : SameHead(a, b, n) => n <= c
<1>0. Len(a) \in Nat /\ Len(b) \in Nat
  BY StrNone
<1>1. m \in Nat /\ m <= Len(a) /\ m <= Len(b)
  BY <1>0, MinOfFacts
<1> DEFINE S == {n \in 0 .. m : SubSeq(a, 1, n) = SubSeq(b, 1, n)}
<1>2. c = Max({0} \cup S)
  BY DEF CommonPrefix, Largest
<1>3. ASSUME NEW n \in 0 .. m PROVE SubSeq(a, 1, n) = SubSeq(b, 1, n) <=> SameHead(a, b, n)
  <2>1. n \in Nat /\ 0 \in Nat /\ n = 0 + n /\ n <= Len(a) /\ n <= Len(b)
    BY <1>0, <1>1
  <2>2. Slice(a, 0, n) = Slice(b, 0, n) <=> Agree(a, 0, b, 0, n)
    BY <2>1, SliceEq
  <2>3. Slice(a, 0, n) = SubSeq(a, 1, n) /\ Slice(b, 0, n) = SubSeq(b, 1, n)
    BY <2>1 DEF Slice
  <2> QED BY <2>1, <2>2, <2>3 DEF SameHead
<1>4. S \subseteq 0 .. m /\ \A n \in 0 .. m : n \in S <=> SameHead(a, b, n)
  BY <1>3
<1> HIDE DEF S
<1>5. c \in 0 .. m /\ c \in {0} \cup S /\ \A y \in S : y <= c
  BY <1>1, <1>2, <1>4, MaxOrNone
<1>6. SameHead(a, b, 0)
  BY DEF SameHead, Agree
<1>7. SameHead(a, b, c)
  BY <1>4, <1>5, <1>6
<1> QED BY <1>1, <1>4, <1>5, <1>7

\* What CommonSuffix finds: the longest shared tail there is room for.
LEMMA SuffixFacts ==
    ASSUME NEW a \in Str, NEW b \in Str, NEW room \in Nat, room <= Len(a), room <= Len(b),
           NEW c, c = CommonSuffix(a, b, room)
    PROVE  c \in 0 .. room /\ SameTail(a, b, c) /\ \A n \in 0 .. room : SameTail(a, b, n) => n <= c
<1>0. Len(a) \in Nat /\ Len(b) \in Nat
  BY StrNone
<1> DEFINE S == {n \in 0 .. room : Slice(a, Len(a) - n, Len(a)) = Slice(b, Len(b) - n, Len(b))}
<1>2. c = Max({0} \cup S)
  BY DEF CommonSuffix, Largest
<1>3. ASSUME NEW n \in 0 .. room
      PROVE  Slice(a, Len(a) - n, Len(a)) = Slice(b, Len(b) - n, Len(b)) <=> SameTail(a, b, n)
  <2>1. n \in Nat /\ n <= Len(a) /\ n <= Len(b)
    BY <1>0
  <2> QED BY <2>1, SameTailEq
<1>4. S \subseteq 0 .. room /\ \A n \in 0 .. room : n \in S <=> SameTail(a, b, n)
  BY <1>3
<1> HIDE DEF S
<1>5. c \in 0 .. room /\ c \in {0} \cup S /\ \A y \in S : y <= c
  BY <1>2, <1>4, MaxOrNone
<1>6. SameTail(a, b, 0)
  BY DEF SameTail, Agree
<1>7. SameTail(a, b, c)
  BY <1>4, <1>5, <1>6
<1> QED BY <1>4, <1>5, <1>7

\* LineHead is 0 or just past a newline.
LEMMA HeadFacts ==
    ASSUME NEW b, NEW c \in Nat, NEW h, h = LineHead(b, c)
    PROVE  h \in 0 .. c /\ (h = 0 \/ b[h] = NL)
<1> DEFINE S == {i \in 1 .. c : b[i] = NL}
<1>1. h = Max({0} \cup S)
  BY DEF LineHead
<1>2. S \subseteq 0 .. c /\ \A i \in S : b[i] = NL
  OBVIOUS
<1> HIDE DEF S
<1>3. h \in 0 .. c /\ h \in {0} \cup S
  BY <1>1, <1>2, MaxOrNone
<1> QED BY <1>2, <1>3

\* LineTail is 0 or starts a line on both sides.
LEMMA TailFacts ==
    ASSUME NEW a, NEW b, NEW head, NEW same \in Nat, NEW t, t = LineTail(a, b, head, same)
    PROVE  /\ t \in 0 .. same
           /\ \/ t = 0
              \/ /\ Len(a) - t = head \/ a[Len(a) - t] = NL
                 /\ Len(b) - t = head \/ b[Len(b) - t] = NL
<1> DEFINE S == {n \in 0 .. same : /\ Len(a) - n = head \/ a[Len(a) - n] = NL
                                   /\ Len(b) - n = head \/ b[Len(b) - n] = NL}
<1>1. t = Max({0} \cup S)
  BY DEF LineTail, Largest
<1>2. S \subseteq 0 .. same
  OBVIOUS
<1>3. t \in 0 .. same /\ t \in {0} \cup S
  <2> HIDE DEF S
  <2> QED BY <1>1, <1>2, MaxOrNone
<1> QED BY <1>3

LEMMA AgreeJoin ==
    ASSUME NEW a, NEW b, NEW i \in Nat, NEW j \in Nat, NEW i2 \in Nat, NEW j2 \in Nat,
           NEW m \in Nat, NEW n \in Nat, NEW r \in Nat, i2 = i + m, j2 = j + m, r = m + n
    PROVE  Agree(a, i, b, j, r) <=> Agree(a, i, b, j, m) /\ Agree(a, i2, b, j2, n)
<1>1. ASSUME Agree(a, i, b, j, r) PROVE Agree(a, i, b, j, m) /\ Agree(a, i2, b, j2, n)
  <2>1. \A k \in 1 .. r : a[i + k] = b[j + k]
    BY <1>1 DEF Agree
  <2>2. Agree(a, i, b, j, m)
    BY <2>1 DEF Agree
  <2>3. ASSUME NEW k \in 1 .. n PROVE a[i2 + k] = b[j2 + k]
    <3>1. m + k \in 1 .. r /\ i2 + k = i + (m + k) /\ j2 + k = j + (m + k)
      OBVIOUS
    <3>2. PICK x : x = m + k
      OBVIOUS
    <3>3. a[i + x] = b[j + x]
      BY <3>1, <3>2, <2>1
    <3> QED BY <3>1, <3>2, <3>3
  <2> QED BY <2>2, <2>3 DEF Agree
<1>2. ASSUME Agree(a, i, b, j, m), Agree(a, i2, b, j2, n) PROVE Agree(a, i, b, j, r)
  <2>1. (\A k \in 1 .. m : a[i + k] = b[j + k]) /\ (\A k \in 1 .. n : a[i2 + k] = b[j2 + k])
    BY <1>2 DEF Agree
  <2>2. ASSUME NEW k \in 1 .. r PROVE a[i + k] = b[j + k]
    <3>1. CASE k <= m
      BY <3>1, <2>1
    <3>2. CASE k > m
      <4>1. PICK x : x = k - m
        OBVIOUS
      <4>2. x \in 1 .. n /\ i2 + x = i + k /\ j2 + x = j + k
        BY <4>1, <3>2
      <4>3. a[i2 + x] = b[j2 + x]
        BY <4>2, <2>1
      <4> QED BY <4>2, <4>3
    <3> QED BY <3>1, <3>2
  <2> QED BY <2>2 DEF Agree
<1> QED BY <1>1, <1>2

\* A shorter head or tail is shared as well.
LEMMA SharedLess ==
    ASSUME NEW a \in Str, NEW b \in Str, NEW m \in Nat, NEW n \in Nat, m <= n, n <= Len(a), n <= Len(b)
    PROVE  /\ SameHead(a, b, n) => SameHead(a, b, m)
           /\ SameTail(a, b, n) => SameTail(a, b, m)
<1>1. PICK d, i, j, i2, j2 : d = n - m /\ i = Len(a) - n /\ j = Len(b) - n /\ i2 = Len(a) - m /\ j2 = Len(b) - m
  OBVIOUS
<1>2. Len(a) \in Nat /\ Len(b) \in Nat
  BY StrNone
<1>3. /\ d \in Nat /\ i \in Nat /\ j \in Nat /\ i2 \in Nat /\ j2 \in Nat
      /\ i2 = i + d /\ j2 = j + d /\ n = d + m /\ n = m + d
  BY <1>1, <1>2
<1>4. Agree(a, i, b, j, n) => Agree(a, i2, b, j2, m)
  BY <1>3, AgreeJoin
<1>5. Agree(a, 0, b, 0, n) => Agree(a, 0, b, 0, m)
  BY DEF Agree
<1> QED BY <1>1, <1>4, <1>5 DEF SameHead, SameTail

LEMMA ApplyOne ==
    ASSUME NEW b \in Str, NEW x \in Edit, End(x) <= Len(b)
    PROVE  ApplyTo(<<x>>, b) = Splice(b, x)
<1>0. Len(b) \in Nat /\ x.pos \in Nat /\ x.del \in Nat /\ End(x) = x.pos + x.del
  BY DEF Str, Edit, End
<1>1. PICK f, l : f = <<>> /\ l = <<x>>
  OBVIOUS
<1>2. f \in Seq(Edit) /\ l = Append(f, x) /\ l \in Seq(Edit) /\ Len(l) = 1 /\ l[1] = x
  BY <1>1
<1>3. Canon(l, Len(b))
  <2>1. Disjoint(l)
    BY <1>2 DEF Disjoint
  <2>2. InBounds(l, Len(b))
    BY <1>0, <1>2 DEF InBounds
  <2> QED BY <1>2, <2>1, <2>2 DEF Canon
<1>4. PICK s : s = Splice(b, x)
  OBVIOUS
<1>5. s \in Str /\ Canon(f, Len(s)) /\ ApplyTo(l, b) = ApplyTo(f, s)
  BY <1>2, <1>3, <1>4, ApplySplices
<1>6. ApplyTo(f, s) = Written(f, s) \o Slice(s, Stop(f), Len(s))
  BY <1>5, AppliedFacts
<1>7. Written(f, s) = <<>> /\ Stop(f) = 0
  BY <1>1, <1>5, NoEdits
<1>8. Slice(s, 0, Len(s)) = s /\ <<>> \o s = s
  BY <1>5, StrWhole, StrNone
<1> QED BY <1>1, <1>4, <1>5, <1>6, <1>7, <1>8

\* An edit between a shared head and a shared tail makes the new text of the
\* old one.
LEMMA EditBetween ==
    ASSUME NEW a \in Str, NEW b \in Str, NEW h \in Nat, NEW t \in Nat,
           h + t <= Len(a), h + t <= Len(b), SameHead(a, b, h), SameTail(a, b, t),
           NEW e, e = [pos |-> h, del |-> Len(a) - t - h, ins |-> Slice(b, h, Len(b) - t)]
    PROVE  ApplyTo(<<e>>, a) = b /\ End(e) = Len(a) - t /\ e.pos + Len(e.ins) = Len(b) - t
<1>0. Len(a) \in Nat /\ Len(b) \in Nat
  BY StrNone
<1>1. PICK p, q : p = Len(a) - t /\ q = Len(b) - t
  OBVIOUS
<1>2. p \in Nat /\ q \in Nat /\ h <= p /\ p <= Len(a) /\ h <= q /\ q <= Len(b) /\ h <= Len(a) /\ h <= Len(b)
  BY <1>0, <1>1
<1>3. PICK i : i = Slice(b, h, q)
  OBVIOUS
<1>4. i \in Str /\ Len(i) = q - h
  BY <1>2, <1>3, StrSlice
<1>5. e.pos = h /\ e.del = p - h /\ e.ins = i /\ e = [pos |-> h, del |-> p - h, ins |-> i]
  BY <1>0, <1>1, <1>3
<1>6. p - h \in Nat
  BY <1>2
<1>7. e \in Edit
  BY <1>4, <1>5, <1>6 DEF Edit
<1>8. End(e) = p /\ e.pos + Len(e.ins) = q
  BY <1>2, <1>4, <1>5 DEF End
<1>9. ApplyTo(<<e>>, a) = Splice(a, e)
  BY <1>2, <1>7, <1>8, ApplyOne
<1>10. Splice(a, e) = Slice(a, 0, h) \o i \o Slice(a, p, Len(a))
  BY <1>5, <1>8 DEF Splice
<1>11. Slice(a, 0, h) = Slice(b, 0, h)
  <2>1. Agree(a, 0, b, 0, h) /\ 0 \in Nat /\ h = 0 + h
    BY DEF SameHead
  <2> QED BY <1>2, <2>1, SliceEq
<1>12. Slice(a, p, Len(a)) = Slice(b, q, Len(b))
  <2>1. t <= Len(a) /\ t <= Len(b)
    BY <1>0
  <2> QED BY <1>1, <2>1, SameTailEq
<1>13. Slice(b, 0, h) \o i = Slice(b, 0, q)
  BY <1>2, <1>3, StrPrefix
<1>14. Slice(b, 0, q) \o Slice(b, q, Len(b)) = b
  <2>1. Slice(b, 0, q) \o Slice(b, q, Len(b)) = Slice(b, 0, Len(b))
    BY SMTT(30), <1>0, <1>2, StrPrefix
  <2> QED BY <2>1, StrWhole
<1> QED BY <1>1, <1>8, <1>9, <1>10, <1>11, <1>12, <1>13, <1>14

\* Where a line of b starts, or b ends.
StartsLineOf(b, p) == p = 0 \/ p = Len(b) \/ b[p] = NL

\* lines_changed: the edit makes the new text and keeps to lines.
LEMMA LinesChangedFacts ==
    ASSUME NEW a \in Str, NEW b \in Str, NEW e, e = LinesChanged(a, b)
    PROVE  /\ ApplyTo(<<e>>, a) = b
           /\ StartsLineOf(a, e.pos) /\ StartsLineOf(a, End(e))
           /\ StartsLineOf(b, e.pos + Len(e.ins))
<1>0. Len(a) \in Nat /\ Len(b) \in Nat
  BY StrNone
<1>1. PICK m, c : m = MinOf(Len(a), Len(b)) /\ c = CommonPrefix(a, b)
  OBVIOUS
<1>2. /\ m \in Nat /\ m <= Len(a) /\ m <= Len(b) /\ c \in 0 .. m /\ SameHead(a, b, c)
  BY <1>1, PrefixFacts
<1>3. PICK h : h = LineHead(a, c)
  OBVIOUS
<1>4. c \in Nat /\ h \in 0 .. c /\ (h = 0 \/ a[h] = NL)
  BY <1>2, <1>3, HeadFacts
<1>5. PICK room : room = m - h
  OBVIOUS
<1>6. room \in Nat /\ room <= Len(a) /\ room <= Len(b) /\ h \in Nat /\ h <= c /\ h <= Len(a) /\ h <= Len(b)
  BY <1>2, <1>4, <1>5, <1>0
<1>7. PICK same : same = CommonSuffix(a, b, room)
  OBVIOUS
<1>8. same \in 0 .. room /\ SameTail(a, b, same)
  BY <1>6, <1>7, SuffixFacts
<1>9. PICK t : t = LineTail(a, b, h, same)
  OBVIOUS
<1>10. same \in Nat
  BY <1>6, <1>8
<1>11. /\ t \in 0 .. same
       /\ \/ t = 0
          \/ /\ Len(a) - t = h \/ a[Len(a) - t] = NL
             /\ Len(b) - t = h \/ b[Len(b) - t] = NL
  BY <1>9, <1>10, TailFacts
<1>12. t \in Nat /\ t <= same /\ same <= Len(a) /\ same <= Len(b) /\ h + t <= Len(a) /\ h + t <= Len(b)
  BY <1>0, <1>2, <1>5, <1>6, <1>8, <1>10, <1>11
<1>13. SameHead(a, b, h)
  <2>1. c <= Len(a) /\ c <= Len(b)
    BY <1>0, <1>2, <1>4
  <2> QED BY <1>2, <1>4, <1>6, <2>1, SharedLess
<1>14. SameTail(a, b, t)
  BY <1>8, <1>10, <1>12, SharedLess
<1>15. e = [pos |-> h, del |-> Len(a) - t - h, ins |-> Slice(b, h, Len(b) - t)]
  BY <1>1, <1>3, <1>5, <1>7, <1>9 DEF LinesChanged
<1>16. ApplyTo(<<e>>, a) = b /\ End(e) = Len(a) - t /\ e.pos + Len(e.ins) = Len(b) - t
  BY <1>6, <1>12, <1>13, <1>14, <1>15, EditBetween
<1>17. e.pos = h
  BY <1>15
<1>18. h = 0 \/ b[h] = NL
  <2>1. h # 0 => a[0 + h] = b[0 + h] /\ 0 + h = h
    BY <1>6, <1>13 DEF SameHead, Agree
  <2> QED BY <2>1, <1>4
<1>19. StartsLineOf(a, h)
  BY <1>4 DEF StartsLineOf
<1>20. StartsLineOf(a, Len(a) - t)
  BY <1>0, <1>4, <1>11 DEF StartsLineOf
<1>21. StartsLineOf(b, Len(b) - t)
  BY <1>0, <1>18, <1>11 DEF StartsLineOf
<1> QED BY <1>16, <1>17, <1>19, <1>20, <1>21

\* The text with s inserted at `at`, and what that leaves alone.
Inserted(a, at, s) == Slice(a, 0, at) \o s \o Slice(a, at, Len(a))

LEMMA InsertedFacts ==
    ASSUME NEW a \in Str, NEW at \in Nat, at <= Len(a), NEW s \in Str,
           NEW b, b = Inserted(a, at, s)
    PROVE  /\ b \in Str /\ Len(b) = Len(a) + Len(s) /\ Len(a) \in Nat /\ Len(s) \in Nat
           /\ SameHead(a, b, at) /\ SameTail(a, b, Len(a) - at)
<1>0. Len(a) \in Nat /\ Len(s) \in Nat /\ 0 \in Nat /\ 0 <= at
  BY StrNone
<1>1. PICK u, v, d : u = Slice(a, 0, at) /\ v = Slice(a, at, Len(a)) /\ d = Len(a) - at
  OBVIOUS
<1>2. u \in Str /\ Len(u) = at
  <2>1. Slice(a, 0, at) \in Str /\ Len(Slice(a, 0, at)) = at - 0
    BY <1>0, StrSlice
  <2> QED BY <1>1, <2>1
<1>3. v \in Str /\ Len(v) = d
  <2>1. PICK p : p = Len(a)
    OBVIOUS
  <2>2. p \in Nat /\ at <= p /\ p <= Len(a)
    BY <2>1, <1>0
  <2>3. Slice(a, at, p) \in Str /\ Len(Slice(a, at, p)) = p - at
    BY <2>2, StrSlice
  <2> QED BY <1>1, <2>1, <2>3
<1>4. u \o s \in Str /\ Len(u \o s) = at + Len(s)
  BY <1>2, StrConcat
<1>5. PICK w : w = u \o s
  OBVIOUS
<1>6. b = w \o v /\ w \in Str /\ Len(w) = at + Len(s)
  BY <1>1, <1>4, <1>5 DEF Inserted
<1>7. b \in Str /\ Len(b) = (at + Len(s)) + d
  BY <1>3, <1>6, StrConcat
<1>8. Len(b) = Len(a) + Len(s) /\ d \in Nat /\ d <= Len(a) /\ d <= Len(b) /\ at <= Len(b) /\ Len(b) - d = Len(w)
  <2>1. PICK l, k, n, o : l = Len(a) /\ k = Len(s) /\ n = Len(b) /\ o = Len(w)
    OBVIOUS
  <2>2. l \in Nat /\ k \in Nat /\ at <= l /\ d = l - at /\ n = (at + k) + d /\ o = at + k
    BY <2>1, <1>0, <1>1, <1>6, <1>7
  <2>3. n = l + k /\ d \in Nat /\ d <= l /\ d <= n /\ at <= n /\ n - d = o
    BY <2>2
  <2> QED BY <2>1, <2>3
<1>9. Slice(a, 0, at) = Slice(b, 0, at)
  <2>1. Slice(w \o v, 0, at) = Slice(w, 0, at)
    BY <1>0, <1>3, <1>6, StrLeft
  <2>2. Slice(u \o s, 0, at) = Slice(u, 0, at)
    BY <1>0, <1>2, StrLeft
  <2>3. Slice(u, 0, at) = u
    BY <1>2, StrWhole
  <2> QED BY <1>1, <1>5, <1>6, <2>1, <2>2, <2>3
<1>10. SameHead(a, b, at)
  <2>1. at = 0 + at /\ b \in Str /\ at <= Len(b) /\ 0 \in Nat
    BY <1>0, <1>7, <1>8
  <2>2. Agree(a, 0, b, 0, at)
    BY <1>9, <2>1, SliceEq
  <2> QED BY <2>2 DEF SameHead
<1>11. Slice(b, Len(b) - d, Len(b)) = v
  <2>1. PICK i, j : i = Len(w) /\ j = Len(w) + Len(v)
    OBVIOUS
  <2>2. i \in Nat /\ j \in Nat /\ Len(w) <= i /\ i <= j /\ j <= Len(w) + Len(v) /\ i - Len(w) = 0 /\ j - Len(w) = Len(v)
    BY <1>0, <1>3, <1>6, <1>8, <2>1
  <2>3. Slice(w \o v, i, j) = Slice(v, i - Len(w), j - Len(w))
    BY <1>3, <1>6, <2>2, StrRight
  <2>4. Slice(v, 0, Len(v)) = v
    BY <1>3, StrWhole
  <2>5. j = Len(b) /\ i = Len(b) - d
    BY <1>3, <1>6, <1>7, <1>8, <2>1
  <2> QED BY <1>6, <2>2, <2>3, <2>4, <2>5
<1>12. Len(a) - d = at
  BY <1>0, <1>1
<1>13. Slice(a, Len(a) - d, Len(a)) = Slice(b, Len(b) - d, Len(b))
  BY <1>1, <1>11, <1>12
<1>14. SameTail(a, b, d)
  BY <1>7, <1>8, <1>13, SameTailEq
<1> QED BY <1>0, <1>1, <1>7, <1>8, <1>10, <1>14

\* The head the shortcut finds is the one the comparison finds.
LEMMA SharedHeadIsPrefix ==
    ASSUME NEW a \in Str, NEW at \in Nat, at <= Len(a), NEW b \in Str, Len(a) <= Len(b), SameHead(a, b, at)
    PROVE  SharedHead(a, b, at) = CommonPrefix(a, b)
<1>0. Len(a) \in Nat /\ Len(b) \in Nat
  BY StrNone
<1>1. PICK top : top = Len(a) - at
  OBVIOUS
<1>2. top \in Nat
  BY <1>0, <1>1
<1> DEFINE S == {n \in 0 .. top : Slice(a, at, at + n) = Slice(b, at, at + n)}
<1>3. SharedHead(a, b, at) = at + Max({0} \cup S)
  BY <1>1 DEF SharedHead, Largest
<1>4. ASSUME NEW n \in 0 .. top PROVE n \in S <=> SameHead(a, b, at + n)
  <2>1. PICK p : p = at + n
    OBVIOUS
  <2>2. p \in Nat /\ n \in Nat /\ p = at + n /\ p <= Len(a) /\ p <= Len(b)
    BY <2>1, <1>0, <1>1
  <2>3. Slice(a, at, p) = Slice(b, at, p) <=> Agree(a, at, b, at, n)
    BY <2>2, SliceEq
  <2>4. 0 \in Nat /\ at = 0 + at
    OBVIOUS
  <2>5. Agree(a, 0, b, 0, p) <=> Agree(a, 0, b, 0, at) /\ Agree(a, at, b, at, n)
    BY <2>2, <2>4, AgreeJoin
  <2>6. n \in S <=> Slice(a, at, p) = Slice(b, at, p)
    BY <2>1
  <2> QED BY <2>1, <2>3, <2>5, <2>6 DEF SameHead
<1>5. S \subseteq 0 .. top
  OBVIOUS
<1>6. PICK x : x = Max({0} \cup S)
  OBVIOUS
<1> HIDE DEF S
<1>7. x \in 0 .. top /\ x \in {0} \cup S /\ \A y \in S : y <= x
  BY <1>2, <1>5, <1>6, MaxOrNone
<1>8. PICK m, c : m = MinOf(Len(a), Len(b)) /\ c = CommonPrefix(a, b)
  OBVIOUS
<1>9. c \in 0 .. m /\ SameHead(a, b, c) /\ \A n \in 0 .. m : SameHead(a, b, n) => n <= c
  BY <1>8, PrefixFacts
<1>10. m = Len(a)
  BY <1>0, <1>8, MinOfFacts
<1>11. at <= c
  BY <1>0, <1>9, <1>10
<1>12. c - at <= x
  <2>1. PICK n : n = c - at
    OBVIOUS
  <2>2. n \in 0 .. top /\ at + n = c
    BY <2>1, <1>0, <1>1, <1>9, <1>10, <1>11
  <2>3. n \in S
    BY <2>2, <1>4, <1>9
  <2> QED BY <2>1, <2>3, <1>7
<1>13. at + x <= c
  <2>1. PICK n : n = at + x
    OBVIOUS
  <2>2. n \in 0 .. m
    BY <2>1, <1>0, <1>1, <1>7, <1>10
  <2>3. SameHead(a, b, n)
    <3>1. CASE x \in S
      BY <3>1, <2>1, <1>4, <1>7
    <3>2. CASE x = 0
      <4>1. n = at
        BY <2>1, <3>2
      <4> QED BY <4>1
    <3> QED BY <3>1, <3>2, <1>7
  <2> QED BY <2>1, <2>2, <2>3, <1>9
<1>14. at + x = c
  BY <1>0, <1>7, <1>9, <1>10, <1>12, <1>13
<1> QED BY <1>3, <1>6, <1>8, <1>14

\* How far the shared tail goes on before the part that is known.
Further(a, b, known, room) ==
    Largest(room - known, LAMBDA n : Slice(a, Len(a) - known - n, Len(a) - known)
                                       = Slice(b, Len(b) - known - n, Len(b) - known))

\* The tail the shortcut finds, known and further, is the one the comparison
\* finds.
LEMMA KnownTailIsSuffix ==
    ASSUME NEW a \in Str, NEW b \in Str, NEW room \in Nat, room <= Len(a), room <= Len(b),
           NEW known \in Nat, known <= room, SameTail(a, b, known),
           NEW x, x = Further(a, b, known, room)
    PROVE  known + x = CommonSuffix(a, b, room)
<1>0. Len(a) \in Nat /\ Len(b) \in Nat
  BY StrNone
<1>1. PICK top : top = room - known
  OBVIOUS
<1>2. top \in Nat
  BY <1>0, <1>1
<1> DEFINE S == {n \in 0 .. top : Slice(a, Len(a) - known - n, Len(a) - known)
                                    = Slice(b, Len(b) - known - n, Len(b) - known)}
<1>3. x = Max({0} \cup S)
  BY <1>1 DEF Further, Largest
<1>4. ASSUME NEW n \in 0 .. top PROVE n \in S <=> SameTail(a, b, known + n)
  <2>1. PICK r, i, p, j, q : /\ r = known + n
                             /\ i = Len(a) - known - n /\ p = Len(a) - known
                             /\ j = Len(b) - known - n /\ q = Len(b) - known
    OBVIOUS
  <2>2. /\ i \in Nat /\ p \in Nat /\ j \in Nat /\ q \in Nat /\ n \in Nat /\ r \in Nat
        /\ p = i + n /\ q = j + n /\ p <= Len(a) /\ q <= Len(b)
        /\ r = n + known
    BY <2>1, <1>0, <1>1
  <2>0. i = Len(a) - r /\ j = Len(b) - r
    BY <2>1, <1>0, <1>1
  <2>3. Slice(a, i, p) = Slice(b, j, q) <=> Agree(a, i, b, j, n)
    BY <2>2, SliceEq
  <2>4. Agree(a, i, b, j, r) <=> Agree(a, i, b, j, n) /\ Agree(a, p, b, q, known)
    BY <2>2, AgreeJoin
  <2>5. Agree(a, p, b, q, known)
    BY <2>1 DEF SameTail
  <2>6. SameTail(a, b, r) <=> Agree(a, i, b, j, r)
    BY <2>0 DEF SameTail
  <2>7. n \in S <=> Slice(a, i, p) = Slice(b, j, q)
    BY <2>1
  <2> QED BY <2>1, <2>3, <2>4, <2>5, <2>6, <2>7
<1>5. S \subseteq 0 .. top
  OBVIOUS
<1> HIDE DEF S
<1>7. x \in 0 .. top /\ x \in {0} \cup S /\ \A y \in S : y <= x
  BY <1>2, <1>3, <1>5, MaxOrNone
<1>8. PICK c : c = CommonSuffix(a, b, room)
  OBVIOUS
<1>9. c \in 0 .. room /\ SameTail(a, b, c) /\ \A n \in 0 .. room : SameTail(a, b, n) => n <= c
  BY <1>8, SuffixFacts
<1>10. known <= c
  BY <1>9
<1>12. c - known <= x
  <2>1. PICK n : n = c - known
    OBVIOUS
  <2>2. n \in 0 .. top /\ known + n = c
    BY <2>1, <1>1, <1>9, <1>10
  <2>3. n \in S
    BY <2>2, <1>4, <1>9
  <2> QED BY <2>1, <2>3, <1>7
<1>13. known + x <= c
  <2>1. PICK n : n = known + x
    OBVIOUS
  <2>2. n \in 0 .. room
    BY <2>1, <1>1, <1>2, <1>7
  <2>3. SameTail(a, b, n)
    <3>1. CASE x \in S
      BY <3>1, <2>1, <1>4, <1>7
    <3>2. CASE x = 0
      <4>1. n = known
        BY <2>1, <3>2
      <4> QED BY <4>1
    <3> QED BY <3>1, <3>2, <1>7
  <2> QED BY <2>1, <2>2, <2>3, <1>9
<1>14. known + x = c
  BY <1>1, <1>2, <1>7, <1>9, <1>12, <1>13
<1> QED BY <1>8, <1>14

\* lines_changed_by_insert finds the edit lines_changed finds.
LEMMA ShortcutIsExact ==
    ASSUME NEW a \in Str, NEW at \in Nat, at <= Len(a), NEW s \in Str
    PROVE  LinesChangedByInsert(a, at, s)
             = LinesChanged(a, Slice(a, 0, at) \o s \o Slice(a, at, Len(a)))
<1>1. PICK b : b = Inserted(a, at, s)
  OBVIOUS
<1>2. /\ b \in Str /\ Len(b) = Len(a) + Len(s) /\ Len(a) \in Nat /\ Len(s) \in Nat
      /\ SameHead(a, b, at) /\ SameTail(a, b, Len(a) - at)
  BY <1>1, InsertedFacts
<1>3. Len(a) <= Len(b) /\ Len(b) \in Nat
  BY <1>2
<1>4. PICK m, c : m = MinOf(Len(a), Len(b)) /\ c = CommonPrefix(a, b)
  OBVIOUS
<1>5. m = Len(a) /\ m \in Nat
  BY <1>2, <1>3, <1>4, MinOfFacts
<1>6. SharedHead(a, b, at) = c
  BY <1>2, <1>3, <1>4, SharedHeadIsPrefix
<1>7. c \in 0 .. m
  BY <1>4, PrefixFacts, <1>2
<1>8. PICK h, room : h = LineHead(a, c) /\ room = Len(a) - h
  OBVIOUS
<1>9. c \in Nat /\ h \in 0 .. c
  <2>1. c \in Nat
    BY <1>5, <1>7
  <2> QED BY <2>1, <1>8, HeadFacts
<1>10. room \in Nat /\ room <= Len(a) /\ room <= Len(b) /\ room = m - h
  BY <1>2, <1>3, <1>5, <1>7, <1>8, <1>9
<1>11. PICK d, known : d = Len(a) - at /\ known = KnownTail(a, at, room)
  OBVIOUS
<1>12. d \in Nat /\ d <= Len(a) /\ d <= Len(b)
  BY <1>2, <1>3, <1>11
<1>13. known = MinOf(d, room)
  BY <1>11 DEF KnownTail
<1>14. known \in Nat /\ known <= d /\ known <= room
  BY <1>10, <1>12, <1>13, MinOfFacts
<1>15. SameTail(a, b, known)
  <2>1. SameTail(a, b, d)
    BY <1>2, <1>11
  <2> QED BY <2>1, <1>2, <1>12, <1>14, SharedLess
<1>16. PICK x : x = Further(a, b, known, room)
  OBVIOUS
<1>17. known + x = CommonSuffix(a, b, room)
  BY <1>2, <1>10, <1>14, <1>15, <1>16, KnownTailIsSuffix
<1>18. PICK same, t : same = CommonSuffix(a, b, room) /\ t = LineTail(a, b, h, same)
  OBVIOUS
<1>19. LinesChanged(a, b) = [pos |-> h, del |-> Len(a) - t - h, ins |-> Slice(b, h, Len(b) - t)]
  BY <1>4, <1>8, <1>10, <1>18 DEF LinesChanged
<1>20. LinesChangedByInsert(a, at, s) = [pos |-> h, del |-> Len(a) - t - h, ins |-> Slice(b, h, Len(b) - t)]
  BY ZenonT(40), <1>1, <1>6, <1>8, <1>11, <1>16, <1>17, <1>18 DEF LinesChangedByInsert, Further, Largest, Inserted
<1> QED BY <1>1, <1>19, <1>20 DEF Inserted

\* The edit in whole lines that a reload or a line command records (lines_changed)
\* makes the new text of the old one and begins and ends where lines do, and
\* lines_changed_by_insert finds the very same, for texts of any length.
THEOREM LineEditsAreRight == Spec => []LineEditIsWhole
<1>1. IInv => LineEditIsWhole
  <2> SUFFICES ASSUME IInv PROVE LineEditIsWhole
    OBVIOUS
  <2>1. buf \in Str /\ old \in Str /\ Len(buf) \in Nat
    BY HistoryFacts, StrNone
  <2>2. PICK a, b, e : a = old /\ b = buf /\ e = LinesChanged(a, b)
    OBVIOUS
  <2>3. a \in Str /\ b \in Str
    BY <2>1, <2>2
  <2>4. /\ ApplyTo(<<e>>, a) = b
        /\ StartsLineOf(a, e.pos) /\ StartsLineOf(a, End(e)) /\ StartsLineOf(b, e.pos + Len(e.ins))
    BY <2>2, <2>3, LinesChangedFacts
  <2>5. ASSUME NEW at \in 0 .. Len(buf), NEW s \in Strings(MaxIns)
        PROVE  LinesChangedByInsert(buf, at, s)
                 = LinesChanged(buf, Slice(buf, 0, at) \o s \o Slice(buf, at, Len(buf)))
    <3>1. MaxIns \in Nat
      BY BoundsAssumption, MaxLenAssumption
    <3>2. s \in Str
      BY <3>1, StringsFacts
    <3>3. at \in Nat /\ at <= Len(b)
      BY <2>1, <2>2
    <3>4. LinesChangedByInsert(b, at, s) = LinesChanged(b, Slice(b, 0, at) \o s \o Slice(b, at, Len(b)))
      BY <2>3, <3>2, <3>3, ShortcutIsExact
    <3> QED BY <2>2, <3>4
  <2> QED BY <2>2, <2>4, <2>5 DEF LineEditIsWhole, StartsLineOf
<1> QED BY <1>1, Inductive, PTL
----------------------------------------------------------------------------
(* Where the edits of a list leave what is between them.                   *)

LEMMA DeltasDef ==
    ASSUME NEW list, Len(list) \in Nat, NEW f, f = Deltas(list)
    PROVE  f[0] = 0 /\ \A n \in 1 .. Len(list) : f[n] = f[n - 1] + Delta(list[n])
<1> DEFINE N == Len(list)
           stp(x, n) == x + Delta(list[n])
           val(g, n) == IF n = 0 THEN 0 ELSE stp(g[n - 1], n)
           Rec(g, m) == g = [n \in 0 .. m |-> val(g, n)]
           P == {m \in Nat : \E g : Rec(g, m)}
<1>0. N \in Nat
  BY DEF N
<1> HIDE DEF N, stp
<1>1. 0 \in P
  <2> DEFINE h == [n \in 0 .. 0 |-> 0]
  <2>1. Rec(h, 0)
    OBVIOUS
  <2> QED BY <2>1
<1>2. ASSUME NEW m \in P PROVE m + 1 \in P
  <2>0. m \in Nat
    OBVIOUS
  <2>1. PICK g : Rec(g, m)
    OBVIOUS
  <2>2. \A n \in 0 .. m : g[n] = val(g, n)
    BY <2>1
  <2> DEFINE h == [n \in 0 .. m + 1 |-> IF n = m + 1 THEN val(g, n) ELSE g[n]]
  <2>3. ASSUME NEW n \in 0 .. m + 1 PROVE h[n] = val(h, n)
    <3>1. h[n] = val(g, n)
      BY <2>2
    <3>2. n # 0 => n - 1 \in 0 .. m
      BY <2>0
    <3>3. \A j \in 0 .. m : h[j] = g[j]
      BY <2>0
    <3> HIDE DEF h
    <3> QED BY <3>1, <3>2, <3>3
  <2>4. h = [n \in 0 .. m + 1 |-> h[n]]
    OBVIOUS
  <2> HIDE DEF h, val
  <2>5. Rec(h, m + 1)
    <3>1. [n \in 0 .. m + 1 |-> h[n]] = [n \in 0 .. m + 1 |-> val(h, n)]
      BY <2>3
    <3> QED BY <3>1, <2>4, Zenon
  <2> HIDE DEF Rec
  <2> QED BY <2>5
<1>3. P = Nat
  <2>1. P \in SUBSET Nat
    OBVIOUS
  <2> HIDE DEF P
  <2> QED BY <1>1, <1>2, <2>1, Induct
<1>4. \E g : Rec(g, N)
  <2>1. N \in P
    BY <1>0, <1>3
  <2> HIDE DEF Rec
  <2> QED BY <2>1
<1>5. f = CHOOSE g : Rec(g, N)
  BY DEF Deltas, N, stp
<1>6. Rec(f, N)
  BY <1>4, <1>5
<1>7. f[0] = 0
  BY <1>6, <1>0
<1>8. \A n \in 1 .. N : f[n] = stp(f[n - 1], n)
  BY <1>6, <1>0
<1> QED BY <1>7, <1>8 DEF N, stp

\* How far the first n edits reach in the new text, and that it only grows.
LEMMA DeltasFacts ==
    ASSUME NEW len \in Nat, NEW list, Canon(list, len), NEW D, D = Deltas(list)
    PROVE  /\ Len(list) \in Nat /\ D[0] = 0 /\ TotalDelta(list) = D[Len(list)]
           /\ \A n \in 0 .. Len(list) : D[n] \in Int /\ Cursor(list, n) + D[n] >= 0
           /\ \A n \in 1 .. Len(list) : D[n] = D[n - 1] + Len(list[n].ins) - list[n].del
<1>0. PICK N \in Nat : N = Len(list)
  BY DEF Canon
<1>1. D[0] = 0 /\ \A n \in 1 .. N : D[n] = D[n - 1] + Delta(list[n])
  BY <1>0, DeltasDef
<1>2. ASSUME NEW n \in 1 .. N
      PROVE  /\ list[n].pos \in Nat /\ list[n].del \in Nat /\ Len(list[n].ins) \in Nat
             /\ Cursor(list, n) = list[n].pos + list[n].del
             /\ Cursor(list, n - 1) \in Nat /\ Cursor(list, n - 1) <= list[n].pos
  BY <1>0, EditFacts DEF Str
<1> DEFINE P == {n \in Nat : n <= N => D[n] \in Int /\ Cursor(list, n) + D[n] >= 0}
<1>3. 0 \in P
  BY <1>1 DEF Cursor
<1>4. ASSUME NEW n \in P PROVE n + 1 \in P
  <2> SUFFICES ASSUME n + 1 <= N PROVE D[n + 1] \in Int /\ Cursor(list, n + 1) + D[n + 1] >= 0
    OBVIOUS
  <2>1. n + 1 \in 1 .. N /\ (n + 1) - 1 = n /\ n <= N
    BY <1>0
  <2>2. D[n] \in Int /\ Cursor(list, n) + D[n] >= 0
    BY <2>1
  <2>3. D[n + 1] = D[n] + (Len(list[n + 1].ins) - list[n + 1].del)
    BY <2>1, <1>1 DEF Delta
  <2>4. PICK e : e = list[n + 1]
    OBVIOUS
  <2>5. /\ e.pos \in Nat /\ e.del \in Nat /\ Len(e.ins) \in Nat /\ Cursor(list, n + 1) = e.pos + e.del
        /\ Cursor(list, n) \in Nat /\ Cursor(list, n) <= e.pos
    BY <2>1, <2>4, <1>2
  <2>6. PICK x, y, u, c, dl, p : x = D[n] /\ y = D[n + 1] /\ u = Len(e.ins) /\ c = Cursor(list, n)
                                 /\ dl = e.del /\ p = e.pos
    OBVIOUS
  <2>7. x \in Int /\ u \in Int /\ c \in Int /\ dl \in Int /\ p \in Int /\ y = x + (u - dl) /\ c + x >= 0 /\ u >= 0 /\ c <= p /\ Cursor(list, n + 1) = p + dl
    BY <2>2, <2>3, <2>4, <2>5, <2>6
  <2>8. y \in Int /\ (p + dl) + y >= 0
    BY <2>7
  <2> QED BY <2>6, <2>7, <2>8
<1>5. P = Nat
  <2>1. P \in SUBSET Nat
    OBVIOUS
  <2> HIDE DEF P
  <2> QED BY <1>3, <1>4, <2>1, Induct
<1>6. \A n \in 0 .. N : D[n] \in Int /\ Cursor(list, n) + D[n] >= 0
  BY <1>5
<1>7. ASSUME NEW n \in 1 .. N PROVE D[n] = D[n - 1] + Len(list[n].ins) - list[n].del
  <2>1. n - 1 \in 0 .. N
    BY <1>0
  <2>2. D[n] = D[n - 1] + (Len(list[n].ins) - list[n].del) /\ D[n - 1] \in Int
    BY <2>1, <1>1, <1>6 DEF Delta
  <2> QED BY <2>2, <1>2
<1> QED BY <1>0, <1>1, <1>6, <1>7 DEF TotalDelta

\* What ends or starts further left stays further left.
LEMMA ReachGrows ==
    ASSUME NEW len \in Nat, NEW list, Canon(list, len), NEW D, D = Deltas(list),
           NEW k \in 0 .. Len(list), NEW m \in k .. Len(list)
    PROVE  /\ Cursor(list, k) + D[k] <= Cursor(list, m) + D[m]
           /\ k < m => list[k + 1].pos + D[k] <= Cursor(list, m) + D[m]
<1>0. PICK N \in Nat : N = Len(list)
  BY DEF Canon
<1>1. ASSUME NEW n \in 1 .. N
      PROVE  /\ list[n].pos \in Nat /\ list[n].del \in Nat /\ Len(list[n].ins) \in Nat
             /\ Cursor(list, n) = list[n].pos + list[n].del
             /\ Cursor(list, n - 1) \in Nat /\ Cursor(list, n - 1) <= list[n].pos
  BY <1>0, EditFacts DEF Str
<1>2. /\ \A n \in 0 .. N : D[n] \in Int
      /\ \A n \in 1 .. N : D[n] = D[n - 1] + Len(list[n].ins) - list[n].del
  BY SMTT(30), <1>0, DeltasFacts
<1>3. ASSUME NEW n \in 1 .. N
      PROVE  /\ list[n].pos + D[n - 1] <= Cursor(list, n) + D[n]
             /\ Cursor(list, n - 1) + D[n - 1] <= list[n].pos + D[n - 1]
             /\ Cursor(list, n - 1) + D[n - 1] \in Int /\ Cursor(list, n) + D[n] \in Int
             /\ list[n].pos + D[n - 1] \in Int
  <2>1. D[n - 1] \in Int /\ D[n] = D[n - 1] + Len(list[n].ins) - list[n].del
    BY <1>2, <1>0
  <2>2. PICK x, y, u, c, dl, p : x = D[n - 1] /\ y = D[n] /\ u = Len(list[n].ins) /\ c = Cursor(list, n - 1)
                                 /\ dl = list[n].del /\ p = list[n].pos
    OBVIOUS
  <2>3. /\ x \in Int /\ u \in Int /\ c \in Int /\ dl \in Int /\ p \in Int
        /\ y = x + u - dl /\ u >= 0 /\ c <= p /\ Cursor(list, n) = p + dl
    <3>1. x \in Int /\ y = x + u - dl
      BY <2>1, <2>2
    <3>2. u \in Nat /\ c \in Nat /\ dl \in Nat /\ p \in Nat
      BY <2>2, <1>1
    <3>3. c <= p /\ Cursor(list, n) = p + dl
      BY <2>2, <1>1
    <3> QED BY <3>1, <3>2, <3>3
  <2>4. p + x <= (p + dl) + y /\ c + x <= p + x /\ c + x \in Int /\ (p + dl) + y \in Int /\ p + x \in Int
    BY <2>3
  <2>5. Cursor(list, n) + D[n] = (p + dl) + y /\ list[n].pos + D[n - 1] = p + x /\ Cursor(list, n - 1) + D[n - 1] = c + x
    BY <2>2, <2>3
  <2> QED BY <2>4, <2>5
<1> DEFINE Good(n) == /\ Cursor(list, k) + D[k] <= Cursor(list, n) + D[n]
                      /\ k < n => list[k + 1].pos + D[k] <= Cursor(list, n) + D[n]
           P == {n \in Nat : k + n <= N => Good(k + n)}
<1>4. 0 \in P
  <2>1. k + 0 = k /\ ~(k < k) /\ k \in 0 .. N
    BY <1>0
  <2>2. Cursor(list, k) \in Nat /\ D[k] \in Int
    BY <2>1, <1>2, CursorFacts
  <2> QED BY <2>1, <2>2
<1>5. ASSUME NEW n \in P PROVE n + 1 \in P
  <2> SUFFICES ASSUME k + (n + 1) <= N PROVE Good(k + (n + 1))
    OBVIOUS
  <2>1. PICK j : j = k + (n + 1)
    OBVIOUS
  <2>2. j \in 1 .. N /\ j - 1 = k + n /\ k + n <= N /\ k < j /\ k \in Nat
    BY <2>1, <1>0
  <2>3. Good(j - 1)
    BY <2>2
  <2>4. /\ list[j].pos + D[j - 1] <= Cursor(list, j) + D[j]
        /\ Cursor(list, j - 1) + D[j - 1] <= list[j].pos + D[j - 1]
        /\ Cursor(list, j - 1) + D[j - 1] \in Int /\ Cursor(list, j) + D[j] \in Int
        /\ list[j].pos + D[j - 1] \in Int
    BY <2>2, <1>3
  <2>5. Cursor(list, k) + D[k] \in Int
    <3>1. Cursor(list, k) \in Nat /\ D[k] \in Int
      BY <1>0, <1>2, CursorFacts
    <3> QED BY <3>1
  <2>6. list[k + 1].pos + D[k] <= Cursor(list, j) + D[j]
    <3>1. CASE k = j - 1
      BY <3>1, <2>2, <2>4
    <3>2. CASE k # j - 1
      <4>1. k < j - 1 /\ k + 1 \in 1 .. N /\ (k + 1) - 1 = k
        BY <3>2, <2>2
      <4>2. list[k + 1].pos + D[k] <= Cursor(list, j - 1) + D[j - 1] /\ list[k + 1].pos + D[k] \in Int
        BY <4>1, <2>3, <1>3
      <4> HIDE DEF Good
      <4> QED BY <4>2, <2>4
    <3> QED BY <3>1, <3>2
  <2>7. Cursor(list, k) + D[k] <= Cursor(list, j) + D[j]
    BY <2>3, <2>4, <2>5
  <2> QED BY <2>1, <2>2, <2>6, <2>7
<1>6. P = Nat
  <2>1. P \in SUBSET Nat
    OBVIOUS
  <2> HIDE DEF P
  <2> QED BY <1>4, <1>5, <2>1, Induct
<1>7. m - k \in Nat /\ k + (m - k) = m /\ m <= N
  BY <1>0
<1>8. m - k \in P
  BY <1>6, <1>7
<1> QED BY <1>7, <1>8

\* x lies after the first k edits and before the others.
Cut(list, x, k) == Cursor(list, k) <= x /\ (k < Len(list) => x <= list[k + 1].pos)

\* What lies between two edits is moved to within the new text.
LEMMA CutStays ==
    ASSUME NEW len \in Nat, NEW list, Canon(list, len), NEW D, D = Deltas(list),
           NEW k \in 0 .. Len(list), NEW x \in 0 .. len, Cut(list, x, k)
    PROVE  x + D[k] \in 0 .. len + D[Len(list)]
<1>0. PICK N \in Nat : N = Len(list)
  BY DEF Canon
<1>1. D[k] \in Int /\ D[N] \in Int /\ Cursor(list, k) + D[k] >= 0
  BY <1>0, DeltasFacts
<1>2. Cursor(list, k) \in Nat /\ Cursor(list, k) <= x /\ Cursor(list, N) \in Nat /\ Cursor(list, N) <= len
  BY <1>0, CursorFacts DEF Cut
<1>3. x + D[k] >= 0
  BY <1>1, <1>2
<1>4. x + D[k] <= len + D[N]
  <2>1. CASE k = N
    BY <2>1, <1>0, <1>1
  <2>2. CASE k # N
    <3>1. k < N /\ N \in k .. N /\ k + 1 \in 1 .. N
      BY <2>2, <1>0
    <3>2. list[k + 1].pos + D[k] <= Cursor(list, N) + D[N]
      BY <3>1, <1>0, ReachGrows
    <3>3. x <= list[k + 1].pos /\ list[k + 1].pos \in Nat
      BY <3>1, <1>0, EditFacts DEF Cut
    <3>4. PICK a, u, v, c, p : a = D[k] /\ u = D[N] /\ c = Cursor(list, N) /\ p = list[k + 1].pos /\ v = x
      OBVIOUS
    <3>5. p + a <= c + u /\ v <= p /\ c <= len
      BY <3>2, <3>3, <3>4, <1>2
    <3>6. a \in Int /\ u \in Int /\ c \in Int /\ p \in Int /\ v \in Int
      <4>1. a \in Int /\ u \in Int
        BY <3>4, <1>1
      <4>2. c \in Int
        BY <3>4, <1>2
      <4>3. p \in Int /\ v \in Int
        BY <3>3, <3>4
      <4> QED BY <4>1, <4>2, <4>3
    <3>7. v + a <= len + u
      BY <3>5, <3>6
    <3> QED BY <3>4, <3>7
  <2> QED BY <2>1, <2>2
<1> QED BY <1>0, <1>1, <1>3, <1>4

\* What is written after n edits, and how long it is.
LEMMA CopiedLen ==
    ASSUME NEW b \in Str, NEW list, Canon(list, Len(b)), NEW c, c = Copied(list, b), NEW D, D = Deltas(list),
           NEW q \in 0 .. Len(list)
    PROVE  c[q] \in Str /\ Len(c[q]) = Cursor(list, q) + D[q]
<1>0. PICK N \in Nat, len \in Nat : N = Len(list) /\ len = Len(b)
  BY DEF Canon, Str
<1>2. /\ c \in [0 .. N -> Str] /\ c[0] = <<>>
      /\ \A n \in 1 .. N : c[n] = c[n - 1] \o Slice(b, Cursor(list, n - 1), list[n].pos) \o list[n].ins
  BY ZenonT(40), <1>0, CopiedFacts
<1>3. /\ D[0] = 0 /\ TotalDelta(list) = D[N] /\ \A n \in 0 .. N : D[n] \in Int
      /\ \A n \in 1 .. N : D[n] = D[n - 1] + Len(list[n].ins) - list[n].del
  BY <1>0, DeltasFacts
<1> DEFINE P == {n \in Nat : n <= N => Len(c[n]) = Cursor(list, n) + D[n]}
<1>4. 0 \in P
  BY <1>2, <1>3 DEF Cursor
<1>5. ASSUME NEW n \in P PROVE n + 1 \in P
  <2> SUFFICES ASSUME n + 1 <= N PROVE Len(c[n + 1]) = Cursor(list, n + 1) + D[n + 1]
    OBVIOUS
  <2>1. n + 1 \in 1 .. N /\ (n + 1) - 1 = n /\ n <= N /\ n \in 0 .. N
    BY <1>0
  <2>2. PICK e, s : e = list[n + 1] /\ s = Slice(b, Cursor(list, n), e.pos)
    OBVIOUS
  <2>3. /\ e.pos \in Nat /\ e.del \in Nat /\ e.ins \in Str /\ Cursor(list, n + 1) = e.pos + e.del
        /\ Cursor(list, n) \in Nat /\ Cursor(list, n) <= e.pos
        /\ e.pos <= Cursor(list, n + 1) /\ Cursor(list, n + 1) <= len
    BY <2>1, <2>2, <1>0, EditFacts
  <2>4. s \in Str /\ Len(s) = e.pos - Cursor(list, n)
    <3>1. e.pos <= len
      BY <2>3
    <3> QED BY <2>2, <2>3, <3>1, <1>0, StrSlice
  <2>5. c[n + 1] = (c[n] \o s) \o e.ins /\ c[n] \in Str
    BY <2>1, <2>2, <1>2
  <2>6. Len(c[n + 1]) = Len(c[n]) + Len(s) + Len(e.ins)
    <3>1. PICK u \in Str, v \in Str : u = c[n] /\ v = e.ins
      BY <2>3, <2>5
    <3>2. u \o s \in Str /\ Len(u \o s) = Len(u) + Len(s)
      BY <2>4, StrConcat
    <3>3. Len((u \o s) \o v) = Len(u \o s) + Len(v)
      BY <3>2, StrConcat
    <3> QED BY <3>1, <3>2, <3>3, <2>5
  <2>7. Len(c[n]) = Cursor(list, n) + D[n] /\ D[n] \in Int /\ Len(e.ins) \in Nat
    <3>1. Len(c[n]) = Cursor(list, n) + D[n]
      BY <2>1
    <3>2. D[n] \in Int
      BY <2>1, <1>3
    <3>3. Len(e.ins) \in Nat
      BY <2>3 DEF Str
    <3> QED BY <3>1, <3>2, <3>3
  <2>8. D[n + 1] = D[n] + Len(e.ins) - e.del
    BY <2>1, <2>2, <1>3
  <2>9. PICK x, y, u, k, dl, p, w :
            /\ x = D[n] /\ y = D[n + 1] /\ u = Len(e.ins) /\ k = Cursor(list, n)
            /\ dl = e.del /\ p = e.pos /\ w = Len(c[n + 1])
    OBVIOUS
  <2>10. x \in Int /\ u \in Int /\ k \in Int /\ dl \in Int /\ p \in Int /\ w = (k + x) + (p - k) + u /\ y = x + u - dl /\ Cursor(list, n + 1) = p + dl
    BY SMTT(30), <2>3, <2>4, <2>6, <2>7, <2>8, <2>9
  <2>11. w = (p + dl) + y
    BY <2>10
  <2> QED BY <2>9, <2>10, <2>11
<1>6. P = Nat
  <2>1. P \in SUBSET Nat
    OBVIOUS
  <2> HIDE DEF P
  <2> QED BY <1>4, <1>5, <2>1, Induct
<1>7. q \in P /\ q <= N
  BY <1>0, <1>6
<1> QED BY <1>0, <1>2, <1>7

\* A change grows the text by what its edits grow it.
LEMMA AppliedLen ==
    ASSUME NEW b \in Str, NEW list, Canon(list, Len(b))
    PROVE  ApplyTo(list, b) \in Str /\ Len(ApplyTo(list, b)) = Len(b) + TotalDelta(list)
<1>0. PICK N \in Nat, len \in Nat : N = Len(list) /\ len = Len(b)
  BY DEF Canon, Str
<1>1. PICK c, D : c = Copied(list, b) /\ D = Deltas(list)
  OBVIOUS
<1>2. N \in 0 .. Len(list) /\ N \in 0 .. N
  BY <1>0
<1>3. TotalDelta(list) = D[N] /\ D[N] \in Int
  BY <1>0, <1>1, <1>2, DeltasFacts
<1>7. Len(c[N]) = Cursor(list, N) + D[N] /\ c[N] \in Str /\ D[N] \in Int
  BY <1>1, <1>2, <1>3, CopiedLen
<1>8. Cursor(list, N) \in Nat /\ Cursor(list, N) <= len
  BY <1>0, CursorFacts
<1>9. PICK s : s = Slice(b, Cursor(list, N), len)
  OBVIOUS
<1>10. s \in Str /\ Len(s) = len - Cursor(list, N)
  <2>1. PICK k \in Nat : k = Cursor(list, N)
    BY <1>8
  <2>2. k <= len /\ len <= Len(b)
    BY <2>1, <1>0, <1>8
  <2> QED BY <2>1, <2>2, <1>9, StrSlice
<1>11. ApplyTo(list, b) = c[N] \o s
  BY <1>0, <1>1, <1>9 DEF ApplyTo
<1>12. c[N] \o s \in Str /\ Len(c[N] \o s) = Len(c[N]) + Len(s)
  <2>1. PICK u \in Str : u = c[N]
    BY <1>7
  <2> QED BY <2>1, <1>10, StrConcat
<1> QED BY <1>0, <1>3, <1>7, <1>8, <1>10, <1>11, <1>12
----------------------------------------------------------------------------
(* Counting from the left.                                                 *)

\* A set of ranks without gaps is known by its size.
LEMMA CountFacts ==
    ASSUME NEW N \in Nat, NEW S \in SUBSET (1 .. N), \A n \in S : \A m \in 1 .. n : m \in S,
           NEW c, c = Cardinality(S)
    PROVE  c \in 0 .. N /\ S = 1 .. c
<1>1. PICK c0 \in 0 .. N : S = 1 .. c0
  <2> DEFINE T == {0} \cup S
  <2>1. T \subseteq 0 .. N
    OBVIOUS
  <2>2. Max({0} \cup S) \in 0 .. N /\ Max({0} \cup S) \in {0} \cup S /\ \A y \in S : y <= Max({0} \cup S)
    <3>1. S \subseteq 0 .. N
      OBVIOUS
    <3> QED BY <3>1, MaxOrNone
  <2>3. PICK t : t = Max({0} \cup S)
    OBVIOUS
  <2>4. t \in 0 .. N /\ (t = 0 \/ t \in S) /\ \A y \in S : y <= t
    BY <2>2, <2>3
  <2>5. \A y \in 1 .. t : y \in S
    BY <2>4
  <2>6. \A y \in S : y \in 1 .. t
    BY <2>4
  <2>7. S = 1 .. t
    BY <2>5, <2>6
  <2> QED BY <2>4, <2>7
<1>2. Cardinality(1 .. c0) = IF 1 > c0 THEN 0 ELSE c0 - 1 + 1
  BY FS_Interval
<1>3. c = c0
  BY <1>1, <1>2
<1> QED BY <1>1, <1>3

LEMMA CursorGrows ==
    ASSUME NEW len \in Nat, NEW list, Canon(list, len), NEW k \in 0 .. Len(list), NEW m \in k .. Len(list)
    PROVE  Cursor(list, k) <= Cursor(list, m)
<1>0. PICK N \in Nat : N = Len(list)
  BY DEF Canon
<1>1. ASSUME NEW n \in 1 .. N
      PROVE  Cursor(list, n - 1) \in Nat /\ Cursor(list, n) \in Nat /\ Cursor(list, n - 1) <= Cursor(list, n)
  <2>1. Cursor(list, n - 1) \in Nat /\ Cursor(list, n) \in Nat /\ list[n].pos \in Nat
    BY <1>0, EditFacts
  <2>2. Cursor(list, n - 1) <= list[n].pos /\ list[n].pos <= Cursor(list, n)
    BY <1>0, EditFacts
  <2> QED BY <2>1, <2>2
<1>2. Cursor(list, k) \in Nat
  BY <1>0, CursorFacts
<1> DEFINE P == {n \in Nat : k + n <= N => Cursor(list, k) <= Cursor(list, k + n)}
<1>3. 0 \in P
  BY <1>2, <1>0
<1>4. ASSUME NEW n \in P PROVE n + 1 \in P
  <2> SUFFICES ASSUME k + (n + 1) <= N PROVE Cursor(list, k) <= Cursor(list, k + (n + 1))
    OBVIOUS
  <2>1. PICK j : j = k + (n + 1)
    OBVIOUS
  <2>2. j \in 1 .. N /\ j - 1 = k + n /\ k + n <= N
    BY <2>1, <1>0
  <2>3. Cursor(list, k) <= Cursor(list, j - 1)
    BY <2>2
  <2> HIDE DEF P
  <2> QED BY SMTT(30), <2>1, <2>2, <2>3, <1>1, <1>2
<1>5. P = Nat
  <2>1. P \in SUBSET Nat
    OBVIOUS
  <2> HIDE DEF P
  <2> QED BY <1>3, <1>4, <2>1, Induct
<1>6. m - k \in Nat /\ k + (m - k) = m /\ m <= N
  BY <1>0
<1>7. m - k \in P
  BY <1>5, <1>6
<1> QED BY <1>6, <1>7

\* The first i edits are the ones that end before x.
Ended(list, x, i) ==
    /\ i \in 0 .. Len(list)
    /\ \A n \in 1 .. Len(list) : End(list[n]) < x <=> n <= i
    /\ x >= 0 => Cursor(list, i) <= x

LEMMA EndedFacts ==
    ASSUME NEW len \in Nat, NEW list, Canon(list, len), NEW x \in Int,
           NEW i, i = Cardinality({n \in 1 .. Len(list) : End(list[n]) < x})
    PROVE  Ended(list, x, i)
<1>0. PICK N \in Nat : N = Len(list)
  BY DEF Canon
<1>1. ASSUME NEW n \in 1 .. N PROVE End(list[n]) = Cursor(list, n) /\ Cursor(list, n) \in Nat
  BY <1>0, EditFacts
<1>2. PICK S : S = {n \in 1 .. N : End(list[n]) < x}
  OBVIOUS
<1>3. S \in SUBSET (1 .. N) /\ i = Cardinality(S)
  BY <1>0, <1>2
<1>4. ASSUME NEW n \in S, NEW m \in 1 .. n PROVE m \in S
  <2>1. n \in 1 .. N /\ m \in 1 .. N /\ m \in 0 .. N /\ n \in m .. N /\ End(list[n]) < x
    BY <1>0, <1>2
  <2>2. Cursor(list, m) <= Cursor(list, n)
    BY <2>1, <1>0, CursorGrows
  <2>3. End(list[m]) < x
    BY <2>1, <2>2, <1>1
  <2> QED BY <2>1, <2>3, <1>2
<1>5. i \in 0 .. N /\ S = 1 .. i
  BY <1>3, <1>4, CountFacts
<1>6. ASSUME NEW n \in 1 .. N PROVE End(list[n]) < x <=> n <= i
  <2>1. n \in S <=> End(list[n]) < x
    BY <1>2
  <2>2. n \in 1 .. i <=> n <= i
    BY <1>5
  <2> QED BY <2>1, <2>2, <1>5
<1>7. ASSUME x >= 0 PROVE Cursor(list, i) <= x
  <2>1. CASE i = 0
    BY <2>1, <1>7 DEF Cursor
  <2>2. CASE i # 0
    <3>1. i \in 1 .. N /\ i <= i
      BY <2>2, <1>5
    <3>2. End(list[i]) < x
      BY <3>1, <1>6
    <3> QED BY <3>1, <3>2, <1>1
  <2> QED BY <2>1, <2>2
<1> QED BY <1>0, <1>5, <1>6, <1>7 DEF Ended

----------------------------------------------------------------------------
(* The byte rule stays within the text.                                    *)

\* f is where the edits after the first i leave the anchor at o.
MetIs(list, i, o, bias, f) ==
    /\ f[i] = [at |-> o + Deltas(list)[i], inside |-> FALSE]
    /\ \A n \in i + 1 .. Len(list) : f[n] = MeetEdit(f[n - 1], list[n], Deltas(list)[n - 1], bias)

LEMMA MetDef ==
    ASSUME NEW list, Len(list) \in Nat, NEW i \in 0 .. Len(list), NEW o, NEW bias, NEW f, f = MetInTurn(list, i, o, bias)
    PROVE  MetIs(list, i, o, bias, f)
<1> DEFINE N == Len(list)
           stp(x, n) == MeetEdit(x, list[n], Deltas(list)[n - 1], bias)
           val(g, n) == IF n = i THEN [at |-> o + Deltas(list)[i], inside |-> FALSE] ELSE stp(g[n - 1], n)
           Rec(g, m) == g = [n \in i .. m |-> val(g, n)]
           P == {m \in Nat : \E g : Rec(g, i + m)}
<1>0. N \in Nat /\ i \in Nat /\ i <= N
  BY DEF N
<1> HIDE DEF N, stp
<1>1. 0 \in P
  <2> DEFINE h == [n \in i .. i |-> [at |-> o + Deltas(list)[i], inside |-> FALSE]]
  <2>1. i + 0 = i
    BY <1>0
  <2>2. \A n \in i .. i : n = i
    BY <1>0
  <2>3. Rec(h, i)
    BY <2>2
  <2> HIDE DEF h, Rec
  <2> QED BY <2>1, <2>3
<1>2. ASSUME NEW q \in P PROVE q + 1 \in P
  <2>0. PICK m : m = i + q
    OBVIOUS
  <2>1. q \in Nat /\ m \in Nat /\ i <= m /\ i + (q + 1) = m + 1
    BY <1>0, <2>0
  <2>2. PICK g : Rec(g, m)
    BY <2>0
  <2>3. \A n \in i .. m : g[n] = val(g, n)
    BY <2>2
  <2> DEFINE h == [n \in i .. m + 1 |-> IF n = m + 1 THEN val(g, n) ELSE g[n]]
  <2>4. ASSUME NEW n \in i .. m + 1 PROVE h[n] = val(h, n)
    <3>0. n = m + 1 \/ (n \in i .. m /\ n # m + 1)
      BY <2>1, <1>0
    <3>1. h[n] = val(g, n)
      BY <3>0, <2>3
    <3>2. n # i => n - 1 \in i .. m
      BY <2>1, <1>0
    <3>3. \A j \in i .. m : h[j] = g[j]
      BY <2>1, <1>0
    <3> HIDE DEF h
    <3> QED BY <3>1, <3>2, <3>3
  <2>5. h = [n \in i .. m + 1 |-> h[n]]
    OBVIOUS
  <2> HIDE DEF h, val
  <2>6. Rec(h, m + 1)
    <3>1. [n \in i .. m + 1 |-> h[n]] = [n \in i .. m + 1 |-> val(h, n)]
      BY <2>4
    <3> QED BY <3>1, <2>5, Zenon
  <2> HIDE DEF Rec
  <2> QED BY <2>1, <2>6
<1>3. P = Nat
  <2>1. P \in SUBSET Nat
    OBVIOUS
  <2> HIDE DEF P
  <2> QED BY <1>1, <1>2, <2>1, Induct
<1>4. \E g : Rec(g, N)
  <2>1. N - i \in Nat /\ i + (N - i) = N
    BY <1>0
  <2>2. N - i \in P
    BY <2>1, <1>3
  <2> HIDE DEF Rec
  <2> QED BY <2>1, <2>2
<1>5. f = CHOOSE g : Rec(g, N)
  BY DEF MetInTurn, N, stp
<1>6. Rec(f, N)
  BY <1>4, <1>5
<1>7. f[i] = [at |-> o + Deltas(list)[i], inside |-> FALSE]
  BY <1>6, <1>0
<1>8. ASSUME NEW n \in i + 1 .. N PROVE f[n] = stp(f[n - 1], n)
  <2>1. n \in i .. N /\ n # i
    BY <1>0
  <2> QED BY <2>1, <1>6
<1> QED BY <1>7, <1>8 DEF N, stp, MetIs

LEMMA MeetFacts ==
    ASSUME NEW a \in Nat, NEW b \in BOOLEAN, NEW e \in Edit, NEW d \in Int, NEW len \in Int, NEW bias,
           e.pos + d >= 0, a <= len + d, End(e) <= len,
           NEW r, r = MeetEdit([at |-> a, inside |-> b], e, d, bias)
    PROVE  \E a2 \in Nat, b2 \in BOOLEAN : /\ r = [at |-> a2, inside |-> b2]
                                           /\ a2 <= len + d + Len(e.ins) - e.del
<1>1. PICK p, w, u : p = e.pos + d /\ w = e.del /\ u = Len(e.ins)
  OBVIOUS
<1>2. p \in Nat /\ w \in Nat /\ u \in Nat /\ p + w <= len + d
  <2>1. e.pos \in Nat /\ e.del \in Nat /\ Len(e.ins) \in Nat /\ e.pos + e.del <= len
    BY DEF Edit, Str, End
  <2>2. PICK q : q = e.pos
    OBVIOUS
  <2> QED BY <2>1, <2>2, <1>1
<1>3. PICK m : m = MapOne(a, p, w, u, bias)
  OBVIOUS
<1>4. r = IF a < p THEN [at |-> a, inside |-> b] ELSE [at |-> m.at, inside |-> b \/ m.inside]
  BY <1>1, <1>3 DEF MeetEdit
<1>5. CASE a < p
  <2>1. a <= len + d + u - w
    BY <1>2, <1>5
  <2>2. r = [at |-> a, inside |-> b]
    BY <1>4, <1>5
  <2> QED BY <2>1, <2>2, <1>1
<1>6. CASE ~(a < p) /\ a > p + w
  <2>1. m = [at |-> a - w + u, inside |-> FALSE]
    BY <1>2, <1>3, <1>6 DEF MapOne
  <2>2. a - w + u \in Nat /\ a - w + u <= len + d + u - w
    BY <1>2, <1>6
  <2>3. r = [at |-> a - w + u, inside |-> b]
    BY <2>1, <1>4, <1>6
  <2> QED BY <2>2, <2>3, <1>1
<1>7. CASE ~(a < p) /\ ~(a > p + w)
  <2>1. m = [at |-> IF bias = "after" THEN p + u ELSE p, inside |-> p < a /\ a < p + w]
    BY <1>2, <1>3, <1>7 DEF MapOne
  <2>2. PICK a2, b2 : a2 = (IF bias = "after" THEN p + u ELSE p) /\ b2 = (b \/ (p < a /\ a < p + w))
    OBVIOUS
  <2>3. a2 \in Nat /\ a2 <= len + d + u - w
    BY <2>2, <1>2
  <2>4. b2 \in BOOLEAN
    BY <2>2
  <2>5. r = [at |-> a2, inside |-> b2]
    BY <2>1, <2>2, <1>4, <1>7
  <2> QED BY <2>3, <2>4, <2>5, <1>1
<1> QED BY <1>5, <1>6, <1>7

LEMMA ByteInText ==
    ASSUME NEW len \in Nat, NEW list, Canon(list, len), NEW o \in 0 .. len, NEW bias
    PROVE  \E a \in 0 .. len + TotalDelta(list), b \in BOOLEAN :
              MapByteInside(list, o, bias) = [at |-> a, inside |-> b]
<1>0. PICK N \in Nat : N = Len(list)
  BY DEF Canon
<1>1. PICK i, D : i = Cardinality({n \in 1 .. N : End(list[n]) < o}) /\ D = Deltas(list)
  OBVIOUS
<1>2. i \in 0 .. N /\ Cursor(list, i) <= o
  <2>1. o \in Int /\ o >= 0
    OBVIOUS
  <2>2. i = Cardinality({n \in 1 .. Len(list) : End(list[n]) < o})
    BY <1>0, <1>1
  <2>3. Ended(list, o, i)
    BY <2>1, <2>2, EndedFacts
  <2> QED BY <2>1, <2>3, <1>0 DEF Ended
<1>3. /\ TotalDelta(list) = D[N]
      /\ \A n \in 0 .. N : D[n] \in Int /\ Cursor(list, n) + D[n] >= 0
      /\ \A n \in 1 .. N : D[n] = D[n - 1] + Len(list[n].ins) - list[n].del
  BY ZenonT(40), <1>0, <1>1, DeltasFacts
<1>4. PICK f : f = MetInTurn(list, i, o, bias)
  OBVIOUS
<1>5. /\ f[i] = [at |-> o + D[i], inside |-> FALSE]
      /\ \A n \in i + 1 .. N : f[n] = MeetEdit(f[n - 1], list[n], D[n - 1], bias)
  <2>1. Len(list) \in Nat /\ i \in 0 .. Len(list)
    BY <1>0, <1>2
  <2>2. MetIs(list, i, o, bias, f)
    BY <2>1, <1>4, MetDef
  <2> QED BY <2>2, <1>0, <1>1 DEF MetIs
<1> DEFINE Good(n) == \E a \in Nat, b \in BOOLEAN : f[n] = [at |-> a, inside |-> b] /\ a <= len + D[n]
           P == {m \in Nat : i + m <= N => Good(i + m)}
<1>6. 0 \in P
  <2>1. D[i] \in Int /\ Cursor(list, i) + D[i] >= 0 /\ Cursor(list, i) \in Nat
    BY <1>0, <1>2, <1>3, CursorFacts
  <2>2. o + D[i] \in Nat /\ o + D[i] <= len + D[i]
    BY <2>1, <1>2
  <2>3. Good(i)
    BY <2>2, <1>5
  <2>4. i + 0 = i
    BY <1>2
  <2> HIDE DEF Good
  <2> QED BY <2>3, <2>4
<1>7. ASSUME NEW m \in P PROVE m + 1 \in P
  <2> SUFFICES ASSUME i + (m + 1) <= N PROVE Good(i + (m + 1))
    OBVIOUS
  <2>1. PICK n : n = i + (m + 1)
    OBVIOUS
  <2>2. n \in i + 1 .. N /\ n \in 1 .. N /\ n - 1 = i + m /\ i + m <= N /\ n - 1 \in 0 .. N
    BY <2>1, <1>2
  <2>3. Good(n - 1)
    BY <2>2
  <2>4. PICK a \in Nat, b \in BOOLEAN : f[n - 1] = [at |-> a, inside |-> b] /\ a <= len + D[n - 1]
    BY <2>3
  <2>5. PICK e, d : e = list[n] /\ d = D[n - 1]
    OBVIOUS
  <2>6. e \in Edit /\ e.pos \in Nat /\ Cursor(list, n - 1) \in Nat /\ Cursor(list, n - 1) <= e.pos
    BY <2>2, <2>5, <1>0, EditFacts
  <2>7. End(e) = Cursor(list, n) /\ Cursor(list, n) <= len /\ Cursor(list, n) \in Nat
    BY <2>2, <2>5, <1>0, EditFacts
  <2>8. d \in Int /\ Cursor(list, n - 1) + d >= 0 /\ D[n] = d + Len(e.ins) - e.del
    BY <2>2, <2>5, <1>3
  <2>9. e.pos + d >= 0
    <3>1. PICK p, c : p = e.pos /\ c = Cursor(list, n - 1)
      OBVIOUS
    <3>2. p \in Nat /\ c \in Nat /\ c <= p /\ c + d >= 0
      BY <3>1, <2>6, <2>8
    <3> QED BY <3>1, <3>2, <2>8
  <2>10. f[n] = MeetEdit([at |-> a, inside |-> b], e, d, bias)
    BY <2>2, <2>4, <2>5, <1>5
  <2>11. a <= len + d /\ End(e) <= len /\ len \in Int
    BY <2>4, <2>5, <2>7
  <2>12. PICK a2 \in Nat, b2 \in BOOLEAN : f[n] = [at |-> a2, inside |-> b2] /\ a2 <= len + d + Len(e.ins) - e.del
    BY <2>6, <2>8, <2>9, <2>10, <2>11, MeetFacts
  <2>13. len + d + Len(e.ins) - e.del = len + D[n]
    <3>1. PICK u, w : u = Len(e.ins) /\ w = e.del
      OBVIOUS
    <3>2. u \in Nat /\ w \in Nat
      BY <3>1, <2>6 DEF Edit, Str
    <3> QED BY <3>1, <3>2, <2>8
  <2>14. Good(n)
    BY <2>12, <2>13
  <2> HIDE DEF Good
  <2> QED BY <2>1, <2>14
<1>8. P = Nat
  <2>1. P \in SUBSET Nat
    OBVIOUS
  <2> HIDE DEF P
  <2> QED BY <1>6, <1>7, <2>1, Induct
<1>9. Good(N)
  <2>1. N - i \in Nat /\ i + (N - i) = N /\ N <= N
    BY <1>2
  <2>2. N - i \in P
    BY <2>1, <1>8
  <2> HIDE DEF Good
  <2> QED BY <2>1, <2>2
<1>10. MapByteInside(list, o, bias) = f[N]
  BY <1>0, <1>1, <1>4 DEF MapByteInside
<1>11. D[N] \in Int
  BY <1>3
<1> QED BY <1>3, <1>9, <1>10, <1>11
----------------------------------------------------------------------------
(* The line rule stays within the text.                                    *)

LEMMA MinFacts ==
    ASSUME NEW S \in SUBSET Nat, S # {}
    PROVE  Min(S) \in S /\ \A y \in S : Min(S) <= y
<1> DEFINE R == {ss \in Nat \X Nat : ss[1] < ss[2]}
<1>1. IsWellFoundedOn(R, Nat)
  BY NatLessThanWellFounded DEF OpToRel
<1> HIDE DEF R
<1>2. PICK x \in S : \A y \in S : ~(<<y, x>> \in R)
  BY <1>1, WFMin
<1>3. ASSUME NEW y \in S PROVE x <= y
  <2>1. PICK p : p = <<y, x>>
    OBVIOUS
  <2>2. CASE y < x
    <3>1. p \in Nat \X Nat /\ p[1] < p[2]
      BY <2>1, <2>2
    <3>2. p \in R
      BY <3>1 DEF R
    <3> QED BY <3>2, <2>1, <1>2
  <2>3. x \in Nat /\ y \in Nat
    OBVIOUS
  <2> QED BY <2>2, <2>3
<1>4. \E m \in S : \A y \in S : m <= y
  BY <1>3
<1> QED BY <1>4 DEF Min

LEMMA LineEndFacts ==
    ASSUME NEW b \in Str, NEW p \in Nat
    PROVE  /\ LineEnd(b, p) \in Nat /\ LineEnd(b, p) <= Len(b)
           /\ MinOf(p, Len(b)) \in Nat /\ MinOf(p, Len(b)) <= Len(b) /\ MinOf(p, Len(b)) <= p
           /\ MinOf(p, Len(b)) <= LineEnd(b, p)
<1>1. PICK n, m : n \in Nat /\ n = Len(b) /\ m = MinOf(p, n)
  BY DEF Str
<1>2. m \in Nat /\ m <= n /\ m <= p
  BY <1>1, MinOfFacts
<1>3. PICK S : S = {n} \cup {i \in m .. n - 1 : b[i + 1] = NL}
  OBVIOUS
<1>4. S \in SUBSET Nat /\ S # {} /\ \A x \in S : m <= x /\ x <= n
  BY <1>1, <1>2, <1>3
<1>5. Min(S) \in S
  BY <1>4, MinFacts
<1>6. LineEnd(b, p) = Min(S)
  BY <1>1, <1>3 DEF LineEnd
<1> QED BY <1>1, <1>2, <1>4, <1>5, <1>6

LEMMA LineStartFacts ==
    ASSUME NEW b \in Str, NEW p \in Nat
    PROVE  LineStart(b, p) \in Nat /\ LineStart(b, p) <= p /\ LineStart(b, p) <= Len(b)
<1>1. PICK n, m : n \in Nat /\ n = Len(b) /\ m = MinOf(p, n)
  BY DEF Str
<1>2. m \in Nat /\ m <= n /\ m <= p
  BY <1>1, MinOfFacts
<1>3. PICK S : S = {i \in 1 .. m : b[i] = NL}
  OBVIOUS
<1>4. S \subseteq 0 .. m
  BY <1>2, <1>3
<1>5. Max({0} \cup S) \in 0 .. m
  BY <1>2, <1>4, MaxOrNone
<1>6. LineStart(b, p) = Max({0} \cup S)
  BY <1>1, <1>3 DEF LineStart, LineHead
<1> QED BY <1>1, <1>2, <1>5, <1>6

LEMMA AtColFacts ==
    ASSUME NEW b \in Str, NEW ls \in Nat, NEW col \in Nat
    PROVE  AtCol(b, ls, col) \in Nat /\ AtCol(b, ls, col) <= Len(b)
<1>1. PICK n, s : n \in Nat /\ n = Len(b) /\ s = MinOf(ls, n)
  BY DEF Str
<1>2. s \in Nat /\ s <= n
  BY <1>1, MinOfFacts
<1>3. PICK le : le = LineEnd(b, s)
  OBVIOUS
<1>4. le \in Nat /\ le <= n /\ MinOf(s, n) <= le
  BY <1>1, <1>2, <1>3, LineEndFacts
<1>5. s <= le
  BY <1>1, <1>2, <1>4, MinOfFacts
<1>6. PICK k \in Nat : k = le - s
  BY <1>2, <1>4, <1>5
<1>7. MinOf(col, k) \in Nat /\ MinOf(col, k) <= k
  BY MinOfFacts
<1>8. AtCol(b, ls, col) = s + MinOf(col, k)
  BY <1>1, <1>3, <1>6 DEF AtCol
<1> QED BY <1>1, <1>2, <1>4, <1>6, <1>7, <1>8

LEMMA NewLineStartFacts ==
    ASSUME NEW b \in Str, NEW p \in Nat
    PROVE  NewLineStart(b, p) \in Nat
<1>1. PICK n, q, g : n \in Nat /\ n = Len(b) /\ q = MinOf(p, n) /\ g = IF q = n /\ EndsInNewline(b) THEN q - 1 ELSE q
  BY DEF Str
<1>2. q \in Nat /\ q <= n
  BY <1>1, MinOfFacts
<1>3. EndsInNewline(b) => n > 0
  BY <1>1 DEF EndsInNewline, Str
<1>4. g \in Nat
  BY <1>1, <1>2, <1>3
<1>5. NewLineStart(b, p) = LineStart(b, g)
  BY <1>1 DEF NewLineStart
<1> QED BY <1>4, <1>5, LineStartFacts

\* Where the lines of a string start.
LEMMA StartsNat ==
    ASSUME NEW s \in Str
    PROVE  LineStartsOf(s) \in Seq(Nat) /\ NewlineEnds(s) \in Seq(Nat)
<1>1. PICK t, e : t = LineStartsOf(s) /\ e = NewlineEnds(s)
  OBVIOUS
<1>2. t \in Seq(Int) /\ \A k \in 1 .. Len(t) : 0 <= t[k]
  BY <1>1, StartsTyped
<1>3. e \in Seq(Int) /\ \A k \in 1 .. Len(e) : 1 <= e[k]
  BY <1>1, EndsTyped
<1>4. Len(t) \in Nat /\ t \in [1 .. Len(t) -> Nat]
  BY <1>2
<1>5. Len(e) \in Nat /\ e \in [1 .. Len(e) -> Nat]
  BY <1>3
<1> QED BY <1>1, <1>4, <1>5

LEMMA LineOfNat ==
    ASSUME NEW s \in Str, NEW j \in Nat
    PROVE  LineOf(s, j) \in Nat
<1>1. PICK t : t = LineStartsOf(s)
  OBVIOUS
<1>2. t \in Seq(Nat) /\ Len(t) \in Nat
  BY <1>1, StartsNat
<1>3. LineOf(s, j) = IF j < Len(t) THEN t[j + 1] ELSE Len(s) + 1
  BY <1>1 DEF LineOf
<1>4. Len(s) + 1 \in Nat
  BY DEF Str
<1>5. j < Len(t) => j + 1 \in 1 .. Len(t)
  BY <1>2
<1> QED BY <1>2, <1>3, <1>4, <1>5

LEMMA BlockFacts ==
    ASSUME NEW a, NEW f \in Edit, InsertedBlock(a, f) # <<>>
    PROVE  InsertedBlock(a, f)[1].body \in Str /\ InsertedBlock(a, f)[1].first \in Nat
<1>1. PICK s : s = f.ins
  OBVIOUS
<1>2. s \in Str /\ Len(s) \in Nat
  BY <1>1 DEF Edit, Str
<1>3. CASE LineStartAt(a, f.pos) /\ EndsInNewline(s)
  <2>1. PICK u : u = SubSeq(s, 1, Len(s) - 1)
    OBVIOUS
  <2>2. s # <<>>
    BY <1>3 DEF EndsInNewline
  <2>3. u \in Str
    BY <2>1, <2>2, <1>2 DEF Str
  <2>4. InsertedBlock(a, f) = <<[body |-> u, first |-> 0]>>
    BY <2>1, <1>1, <1>3 DEF InsertedBlock
  <2> QED BY <2>3, <2>4
<1>4. CASE ~(LineStartAt(a, f.pos) /\ EndsInNewline(s))
  <2>1. PICK u : u = Tail(s)
    OBVIOUS
  <2>2. StartsWithNewline(s) /\ InsertedBlock(a, f) = <<[body |-> u, first |-> 1]>>
    BY <2>1, <1>1, <1>4 DEF InsertedBlock
  <2>3. s # <<>>
    BY <2>2 DEF StartsWithNewline
  <2>4. u \in Str
    BY <2>1, <2>3, <1>2 DEF Str
  <2> QED BY <2>2, <2>4
<1> QED BY <1>3, <1>4

Gravities == {"drop", "keep", "cursor"}

\* A line goes to some place, unless its gravity lets it go.
Goes(to, g) == to \in Nat \/ (to = Lost /\ g # "keep")

LEMMA MovedFacts ==
    ASSUME NEW a, NEW b \in Str, NEW len \in Nat, NEW list, Canon(list, len), NEW e,
           NEW j \in Nat, NEW col \in Nat, NEW lead
    PROVE  Moved(a, b, list, e, j, col, lead) \in Nat \/ Moved(a, b, list, e, j, col, lead) = Lost
<1> DEFINE span == Slice(a, e.pos, End(e))
           gone == IF lead THEN Tail(span) ELSE SubSeq(span, 1, Len(span) - 1)
           Carries(n) == /\ list[n].del = 0 /\ list[n].pos # e.pos
                         /\ InsertedBlock(a, list[n]) # <<>>
                         /\ InsertedBlock(a, list[n])[1].body = gone
           carriers == {n \in 1 .. Len(list) : Carries(n)}
           k == Min(carriers)
           block == InsertedBlock(a, list[k])[1]
           at == list[k].pos + Deltas(list)[k - 1] + block.first
<1>0. PICK N \in Nat : N = Len(list)
  BY DEF Canon
<1>1. Moved(a, b, list, e, j, col, lead) =
        IF e.ins # <<>> \/ carriers = {} THEN Lost ELSE AtCol(b, at + LineOf(block.body, j), col)
  BY DEF Moved
<1> SUFFICES ASSUME carriers # {} PROVE AtCol(b, at + LineOf(block.body, j), col) \in Nat
  BY Zenon, <1>1
<1>2. carriers \in SUBSET Nat
  BY <1>0
<1>3. k \in 1 .. N /\ InsertedBlock(a, list[k]) # <<>>
  <2>1. k \in carriers
    <3> HIDE DEF carriers
    <3> QED BY <1>2, MinFacts
  <2> HIDE DEF k
  <2> QED BY <2>1, <1>0
<1> HIDE DEF carriers, k
<1>4. list[k] \in Edit /\ list[k].pos \in Nat /\ Cursor(list, k - 1) \in Nat /\ Cursor(list, k - 1) <= list[k].pos
  BY <1>0, <1>3, EditFacts
<1>5. block.body \in Str /\ block.first \in Nat
  BY <1>3, <1>4, BlockFacts
<1> HIDE DEF block
<1>6. Deltas(list)[k - 1] \in Int /\ Cursor(list, k - 1) + Deltas(list)[k - 1] >= 0
  <2>1. k - 1 \in 0 .. N
    BY <1>3
  <2> QED BY <2>1, <1>0, DeltasFacts
<1>7. at \in Nat
  <2>1. PICK p, d, c, f : p = list[k].pos /\ d = Deltas(list)[k - 1] /\ c = Cursor(list, k - 1) /\ f = block.first
    OBVIOUS
  <2>2. p \in Nat /\ d \in Int /\ c \in Nat /\ f \in Nat /\ c <= p /\ c + d >= 0
    BY <2>1, <1>4, <1>5, <1>6
  <2>3. p + d + f \in Nat
    BY <2>2
  <2> QED BY <2>1, <2>3
<1> HIDE DEF at
<1>8. LineOf(block.body, j) \in Nat
  BY <1>5, LineOfNat
<1>9. at + LineOf(block.body, j) \in Nat
  BY <1>7, <1>8
<1> QED BY Zenon, <1>9, AtColFacts

LEMMA ReplacedFacts ==
    ASSUME NEW a, NEW b \in Str, NEW e \in Edit, NEW base \in Nat, NEW j \in Nat, NEW col \in Nat,
           NEW g \in Gravities, NEW lead \in BOOLEAN
    PROVE  Goes(Replaced(a, b, e, base, j, col, g, lead), g)
<1> DEFINE starts == IF lead THEN NewlineEnds(e.ins)
                     ELSE IF e.ins = <<>> THEN <<>>
                     ELSE LineStartsOf(Slice(e.ins, 0, Len(e.ins) - 1))
           after == base + Len(e.ins) + IF lead /\ End(e) < Len(a) THEN 1 ELSE 0
           cursor == IF starts # <<>> THEN base + Last(starts)
                     ELSE IF lead THEN LineStart(b, base)
                     ELSE IF base = 0 THEN 0
                     ELSE LineStart(b, base - 1)
           to == Replaced(a, b, e, base, j, col, g, lead)
<1>0. to = IF j < Len(starts) THEN AtCol(b, base + starts[j + 1], col)
           ELSE CASE g = "drop"   -> Lost
                  [] g = "keep"   -> AtCol(b, NewLineStart(b, after), col)
                  [] g = "cursor" -> cursor
  BY DEF Replaced
<1>1. e.ins \in Str /\ Len(e.ins) \in Nat
  BY DEF Edit, Str
<1>2. starts \in Seq(Nat)
  <2>1. CASE lead
    BY <2>1, <1>1, StartsNat
  <2>2. CASE ~lead /\ e.ins = <<>>
    BY <2>2
  <2>3. CASE ~lead /\ e.ins # <<>>
    <3>1. PICK s, k, u : u = e.ins /\ s = Slice(u, 0, k) /\ k = Len(u) - 1
      OBVIOUS
    <3>2. u \in Str /\ k \in Nat /\ 0 <= k /\ k <= Len(u) /\ 0 \in Nat
      BY <3>1, <2>3, <1>1 DEF Str
    <3>3. s \in Str
      BY <3>1, <3>2, StrSlice
    <3>4. starts = LineStartsOf(s)
      BY <3>1, <2>3
    <3> QED BY <3>3, <3>4, StartsNat
  <2> QED BY <2>1, <2>2, <2>3
<1> HIDE DEF starts
<1>3. after \in Nat
  <2>1. PICK x, u : x = (IF lead /\ End(e) < Len(a) THEN 1 ELSE 0) /\ u = Len(e.ins)
    OBVIOUS
  <2>2. x \in Nat /\ u \in Nat
    BY <2>1, <1>1
  <2>3. after = base + u + x
    BY <2>1
  <2> HIDE DEF after
  <2> QED BY <2>2, <2>3
<1> HIDE DEF after
<1>5. CASE j < Len(starts)
  <2>1. j + 1 \in 1 .. Len(starts)
    BY <1>2, <1>5
  <2>2. base + starts[j + 1] \in Nat
    BY <2>1, <1>2
  <2>3. AtCol(b, base + starts[j + 1], col) \in Nat
    BY <2>2, AtColFacts
  <2> QED BY <2>3, <1>0, <1>5 DEF Goes
<1>6. CASE ~(j < Len(starts)) /\ g = "drop"
  BY <1>0, <1>6 DEF Goes
<1>7. CASE ~(j < Len(starts)) /\ g = "keep"
  <2>1. AtCol(b, NewLineStart(b, after), col) \in Nat
    BY <1>3, NewLineStartFacts, AtColFacts
  <2> QED BY <2>1, <1>0, <1>7 DEF Goes
<1>8. CASE ~(j < Len(starts)) /\ g = "cursor"
  <2>1. to = cursor
    BY <1>0, <1>8
  <2>2. LineStart(b, base) \in Nat /\ (base # 0 => LineStart(b, base - 1) \in Nat)
    <3>1. base # 0 => base - 1 \in Nat
      OBVIOUS
    <3> QED BY <3>1, LineStartFacts
  <2>3. starts # <<>> => Last(starts) \in Nat
    BY <1>2 DEF Last
  <2>4. cursor \in Nat
    BY <2>2, <2>3
  <2> HIDE DEF cursor, to
  <2> QED BY <2>1, <2>4 DEF Goes, to
<1> QED BY <1>5, <1>6, <1>7, <1>8 DEF Gravities

LEMMA RunsInFacts ==
    ASSUME NEW a, NEW b \in Str, NEW e \in Edit, NEW base, NEW delta \in Int, base = e.pos + delta, base \in Nat,
           NEW o \in Nat, NEW ls \in Nat, ls <= o, NEW le, NEW g \in Gravities
    PROVE  Goes(RunsIn(a, b, e, base, delta, o, ls, le, g), g)
<1>1. PICK start, u, p, w, to : /\ start = LineStart(b, base) /\ u = Len(e.ins) /\ p = e.pos /\ w = e.del
                                /\ to = RunsIn(a, b, e, base, delta, o, ls, le, g)
  OBVIOUS
<1>2. start \in Nat /\ start <= base
  BY <1>1, LineStartFacts
<1>3. u \in Nat /\ p \in Nat /\ w \in Nat /\ base = p + delta
  BY <1>1 DEF Edit, Str
<1>4. \/ g = "drop" /\ to = Lost
      \/ g = "keep" /\ to = base + u
      \/ g = "cursor" /\ to = start
      \/ to = AtCol(b, start, base - start + o - ls)
      \/ o >= p + w /\ to = o + delta + (u - w)
      \/ to = base + u
  BY <1>1 DEF RunsIn, Gravities, End, Delta
<1>5. AtCol(b, start, base - start + o - ls) \in Nat
  <2>1. PICK c : c = base - start + o - ls
    OBVIOUS
  <2>2. c \in Nat
    BY <2>1, <1>2
  <2> QED BY <2>1, <2>2, <1>2, AtColFacts
<1>6. o >= p + w => o + delta + (u - w) \in Nat
  BY <1>3
<1>7. base + u \in Nat
  BY <1>3
<1>8. to \in Nat \/ (to = Lost /\ g = "drop")
  BY <1>2, <1>4, <1>5, <1>6, <1>7
<1> QED BY <1>1, <1>8 DEF Goes

\* The edits before the deciding one end at or above the line.
LEMMA DecidingFacts ==
    ASSUME NEW a, NEW len \in Nat, NEW list, Canon(list, len), NEW ls \in Nat, NEW n, n = Deciding(a, list, ls)
    PROVE  n \in 1 .. Len(list) + 1 /\ Cursor(list, n - 1) <= ls
<1>0. PICK N \in Nat : N = Len(list)
  BY DEF Canon
<1>1. PICK i : i = Cardinality({k \in 1 .. N : End(list[k]) < ls})
  OBVIOUS
<1>2. i \in 0 .. N /\ Cursor(list, i) <= ls
  <2>1. ls \in Int /\ ls >= 0
    OBVIOUS
  <2>2. i = Cardinality({k \in 1 .. Len(list) : End(list[k]) < ls})
    BY <1>0, <1>1
  <2>3. Ended(list, ls, i)
    BY <2>1, <2>2, EndedFacts
  <2> QED BY <2>1, <2>3, <1>0 DEF Ended
<1>3. PICK S : S = {N + 1} \cup {k \in i + 1 .. N : list[k].pos > ls \/ ~IsAbove(a, list[k], ls)}
  OBVIOUS
<1>4. S \in SUBSET Nat /\ S # {} /\ \A k \in S : k \in i + 1 .. N + 1
  <2>1. N + 1 \in i + 1 .. N + 1 /\ i \in Nat
    BY <1>0, <1>2
  <2> QED BY <2>1, <1>2, <1>3
<1>5. n = Min(S)
  BY <1>0, <1>1, <1>3 DEF Deciding
<1>6. n \in S /\ \A y \in S : n <= y
  BY <1>4, <1>5, MinFacts
<1>7. n \in i + 1 .. N + 1 /\ n \in 1 .. N + 1 /\ n - 1 \in i .. N
  BY <1>2, <1>4, <1>6
<1>8. Cursor(list, n - 1) <= ls
  <2>1. CASE n - 1 = i
    BY <2>1, <1>2
  <2>2. CASE n - 1 # i
    <3>1. PICK m : m = n - 1
      OBVIOUS
    <3>2. m \in i + 1 .. N /\ m \in 1 .. N /\ ~(n <= m)
      BY <2>2, <3>1, <1>2, <1>7
    <3>3. m \notin S
      BY <3>2, <1>6
    <3>4. IsAbove(a, list[m], ls)
      BY <3>2, <3>3, <1>3
    <3>5. PICK e, p, w : e = list[m] /\ p = e.pos /\ w = e.del
      OBVIOUS
    <3>6. p \in Nat /\ w \in Nat /\ Cursor(list, m) = p + w
      BY <3>2, <3>5, <1>0, EditFacts
    <3>7. p + w = ls \/ (w = 0 /\ p = ls)
      BY <3>4, <3>5 DEF IsAbove, End
    <3>8. p + w = ls
      BY <3>6, <3>7
    <3> QED BY <3>1, <3>6, <3>8
  <2> QED BY <2>1, <2>2
<1> QED BY <1>0, <1>7, <1>8

LEMMA MapByFacts ==
    ASSUME NEW a \in Str, NEW b \in Str, NEW list, Canon(list, Len(a)), NEW e \in Edit, NEW delta \in Int,
           e.pos + delta \in Nat, NEW o \in Nat, NEW ls \in Nat, ls <= o, ls <= Len(a), ls + delta \in Nat,
           e.pos <= ls, NEW le, NEW g \in Gravities
    PROVE  Goes(MapBy(a, b, list, e, delta, o, ls, le, g), g)
<1>0. PICK base, p, col : base = p + delta /\ p = e.pos /\ col = o - ls
  OBVIOUS
<1>1. base \in Nat /\ p \in Nat /\ p <= ls /\ col \in Nat /\ Len(a) \in Nat /\ base = e.pos + delta
  BY <1>0 DEF Edit, Str
<1>2. ASSUME NEW j \in Nat, NEW lead \in BOOLEAN
      PROVE  Goes(BlockLine(a, b, list, e, base, j, col, g, lead), g)
  <2>1. PICK to : to = Moved(a, b, list, e, j, col, lead)
    OBVIOUS
  <2>2. to \in Nat \/ to = Lost
    BY <2>1, <1>1, MovedFacts
  <2>3. Goes(Replaced(a, b, e, base, j, col, g, lead), g)
    BY <1>1, ReplacedFacts
  <2>4. BlockLine(a, b, list, e, base, j, col, g, lead) =
           IF to # Lost THEN to ELSE Replaced(a, b, e, base, j, col, g, lead)
    BY <2>1 DEF BlockLine
  <2>5. CASE to # Lost
    BY <2>2, <2>4, <2>5 DEF Goes
  <2>6. CASE to = Lost
    BY <2>3, <2>4, <2>6
  <2> QED BY <2>5, <2>6
<1>3. ASSUME NEW i \in Nat, i <= ls PROVE Newlines(Slice(a, i, ls)) \in Nat
  <2>1. PICK s : s = Slice(a, i, ls)
    OBVIOUS
  <2>2. s \in Str
    BY <2>1, <1>3, StrSlice
  <2>3. NewlineEnds(s) \in Seq(Nat)
    BY <2>2, StartsNat
  <2>4. Len(NewlineEnds(s)) \in Nat
    BY <2>3
  <2> QED BY <2>1, <2>4 DEF Newlines
<1>4. PICK c1, c2, c3, to : /\ c1 = (StartAligned(a, e) /\ ls < End(e)) /\ c2 = (p = ls) /\ c3 = EndAligned(a, e)
                            /\ to = MapBy(a, b, list, e, delta, o, ls, le, g)
  OBVIOUS
<1>5. /\ c1 => to = BlockLine(a, b, list, e, base, Newlines(Slice(a, p, ls)), col, g, FALSE)
      /\ ~c1 /\ c2 => to = AtCol(b, ls + delta, col)
      /\ ~c1 /\ ~c2 /\ c3 => to = BlockLine(a, b, list, e, base, Newlines(Slice(a, p + 1, ls)), col, g, TRUE)
      /\ ~c1 /\ ~c2 /\ ~c3 => to = RunsIn(a, b, e, base, delta, o, ls, le, g)
  BY <1>0, <1>4 DEF MapBy
<1>6. CASE c1
  <2>1. Newlines(Slice(a, p, ls)) \in Nat
    BY <1>1, <1>3
  <2> QED BY <2>1, <1>2, <1>4, <1>5, <1>6
<1>7. CASE ~c1 /\ c2
  <2>1. AtCol(b, ls + delta, col) \in Nat
    BY <1>1, AtColFacts
  <2> QED BY <2>1, <1>4, <1>5, <1>7 DEF Goes
<1>8. CASE ~c1 /\ ~c2 /\ c3
  <2>0. p # ls
    BY <1>4, <1>8
  <2>1. p + 1 \in Nat /\ p + 1 <= ls
    BY <1>1, <2>0
  <2>2. Newlines(Slice(a, p + 1, ls)) \in Nat
    BY <2>1, <1>3
  <2> QED BY <2>2, <1>2, <1>4, <1>5, <1>8
<1>9. CASE ~c1 /\ ~c2 /\ ~c3
  <2>1. Goes(RunsIn(a, b, e, base, delta, o, ls, le, g), g)
    BY <1>1, RunsInFacts
  <2> QED BY <2>1, <1>4, <1>5, <1>9
<1> QED BY <1>6, <1>7, <1>8, <1>9

\* A line goes to a place in the new text; only a line that may be dropped
\* goes nowhere.
LEMMA LineInText ==
    ASSUME NEW a \in Str, NEW b \in Str, NEW list, Canon(list, Len(a)), NEW o0 \in Nat, NEW g \in Gravities,
           NEW to, to = MapOffset(a, b, list, o0, g)
    PROVE  to \in 0 .. Len(b) \/ (to = Lost /\ g # "keep")
<1>0. PICK N, len : N = Len(list) /\ len = Len(a)
  OBVIOUS
<1>1. N \in Nat /\ len \in Nat /\ Len(b) \in Nat
  BY <1>0 DEF Canon, Str
<1>2. PICK o, ls, n, D : o = MinOf(o0, len) /\ ls = LineStart(a, o) /\ n = Deciding(a, list, ls) /\ D = Deltas(list)
  OBVIOUS
<1>3. o \in Nat /\ o <= len
  BY <1>1, <1>2, MinOfFacts
<1>4. ls \in Nat /\ ls <= o /\ ls <= len
  BY <1>0, <1>2, <1>3, LineStartFacts
<1>5. n \in 1 .. N + 1 /\ Cursor(list, n - 1) <= ls
  BY <1>0, <1>1, <1>2, <1>4, DecidingFacts
<1>6. D[n - 1] \in Int /\ Cursor(list, n - 1) + D[n - 1] >= 0 /\ Cursor(list, n - 1) \in Nat
  <2>1. n - 1 \in 0 .. N
    BY <1>1, <1>5
  <2> QED BY <2>1, <1>0, <1>1, <1>2, DeltasFacts, CursorFacts
<1>7. PICK d, c : d = D[n - 1] /\ c = Cursor(list, n - 1)
  OBVIOUS
<1>8. d \in Int /\ c \in Nat /\ c + d >= 0 /\ c <= ls /\ ls + d \in Nat
  BY <1>4, <1>5, <1>6, <1>7
<1>9. PICK x : x = MapFrom(a, b, list, n, o, ls, g)
  OBVIOUS
<1>10. Goes(x, g)
  <2>1. CASE n > N \/ list[n].pos > ls
    <3>1. x = AtCol(b, ls + d, o - ls)
      BY <2>1, <1>0, <1>2, <1>7, <1>9 DEF MapFrom
    <3>2. o - ls \in Nat
      BY <1>3, <1>4
    <3>3. AtCol(b, ls + d, o - ls) \in Nat
      BY <3>2, <1>8, AtColFacts
    <3> QED BY <3>1, <3>3 DEF Goes
  <2>2. CASE ~(n > N) /\ ~(list[n].pos > ls)
    <3>1. x = MapBy(a, b, list, list[n], d, o, ls, LineEnd(a, o), g)
      BY <2>2, <1>0, <1>2, <1>7, <1>9 DEF MapFrom
    <3>2. n \in 1 .. N
      BY <2>2, <1>1, <1>5
    <3>3. list[n] \in Edit /\ list[n].pos \in Nat /\ Cursor(list, n - 1) <= list[n].pos
      BY <3>2, <1>0, <1>1, EditFacts
    <3>4. list[n].pos <= ls /\ list[n].pos + d \in Nat
      <4>1. PICK p : p = list[n].pos
        OBVIOUS
      <4>2. p \in Nat /\ c <= p /\ ~(p > ls)
        BY <4>1, <3>3, <2>2, <1>7
      <4>3. p <= ls /\ p + d \in Nat
        BY <4>2, <1>8, <1>4
      <4> QED BY <4>1, <4>3
    <3>5. PICK e, le : e = list[n] /\ le = LineEnd(a, o)
      OBVIOUS
    <3>6. e \in Edit /\ e.pos <= ls /\ e.pos + d \in Nat /\ ls <= Len(a)
      BY <3>3, <3>4, <3>5, <1>0, <1>4
    <3>7. Goes(MapBy(a, b, list, e, d, o, ls, le, g), g)
      BY <3>6, <1>3, <1>4, <1>8, MapByFacts
    <3> QED BY <3>1, <3>5, <3>7
  <2> QED BY <2>1, <2>2
<1>11. to = IF x = Lost THEN Lost ELSE MinOf(x, Len(b))
  BY <1>0, <1>2, <1>9 DEF MapOffset, Snapped, Snap
<1>12. CASE x \in Nat
  <2>1. x # Lost
    BY <1>12 DEF Lost
  <2>2. MinOf(x, Len(b)) \in 0 .. Len(b)
    <3>1. PICK m, y : m = Len(b) /\ y = MinOf(x, m)
      OBVIOUS
    <3>2. m \in Nat /\ y = (IF x < m THEN x ELSE m)
      BY <3>1, <1>1 DEF MinOf
    <3>3. y \in 0 .. m
      BY <3>2, <1>12
    <3> QED BY <3>1, <3>3
  <2> QED BY <2>1, <2>2, <1>11
<1>13. CASE x = Lost /\ g # "keep"
  BY <1>11, <1>13
<1> QED BY <1>10, <1>12, <1>13 DEF Goes
----------------------------------------------------------------------------
(* What lies between two edits is kept, and an anchor clear of every edit's *)
(* region only shifts.                                                      *)

LEMMA JoinedAt ==
    ASSUME NEW u \in Seq(Bytes), NEW v \in Seq(Bytes), NEW w, w = u \o v
    PROVE  /\ w \in Seq(Bytes) /\ Len(u) \in Nat /\ Len(v) \in Nat /\ Len(w) = Len(u) + Len(v)
           /\ \A i \in 1 .. Len(u) : i \in 1 .. Len(w) /\ w[i] = u[i]
           /\ \A i \in 1 .. Len(v) : Len(u) + i \in 1 .. Len(w) /\ w[Len(u) + i] = v[i]
<1>1. w \in Seq(Bytes) /\ Len(u) \in Nat /\ Len(v) \in Nat /\ Len(w) = Len(u) + Len(v)
  OBVIOUS
<1>2. \A i \in 1 .. Len(u) : w[i] = u[i]
  OBVIOUS
<1>3. \A i \in 1 .. Len(v) : w[Len(u) + i] = v[i]
  OBVIOUS
<1>4. PICK x, y : x = Len(u) /\ y = Len(v)
  OBVIOUS
<1>5. x \in Nat /\ y \in Nat /\ Len(w) = x + y
  BY <1>1, <1>4
<1>6. (\A i \in 1 .. x : i \in 1 .. x + y) /\ (\A i \in 1 .. y : x + i \in 1 .. x + y)
  BY <1>5
<1> QED BY <1>1, <1>2, <1>3, <1>4, <1>5, <1>6

\* What is written stays written.
StaysWritten(c, N) == \A k \in 0 .. N : \A m \in k .. N : \A x \in 1 .. Len(c[k]) : c[m][x] = c[k][x] /\ x \in 1 .. Len(c[m])

LEMMA CopiedStays ==
    ASSUME NEW a \in Str, NEW list, Canon(list, Len(a)), NEW c, c = Copied(list, a)
    PROVE  StaysWritten(c, Len(list))
<1> SUFFICES ASSUME NEW k \in 0 .. Len(list), NEW m \in k .. Len(list), NEW x \in 1 .. Len(c[k])
             PROVE  c[m][x] = c[k][x] /\ x \in 1 .. Len(c[m])
  BY DEF StaysWritten
<1>0. PICK N \in Nat, len \in Nat : N = Len(list) /\ len = Len(a)
  BY DEF Canon, Str
<1>1. /\ c \in [0 .. N -> Str]
      /\ \A n \in 1 .. N : c[n] = c[n - 1] \o Slice(a, Cursor(list, n - 1), list[n].pos) \o list[n].ins
  BY ZenonT(40), <1>0, CopiedFacts
<1>2. ASSUME NEW n \in 1 .. N, NEW y \in 1 .. Len(c[n - 1]) PROVE c[n][y] = c[n - 1][y] /\ y \in 1 .. Len(c[n])
  <2>1. PICK e, s, u, i, j : e = list[n] /\ i = Cursor(list, n - 1) /\ j = e.pos /\ s = Slice(a, i, j) /\ u = c[n - 1]
    OBVIOUS
  <2>2. i \in Nat /\ j \in Nat /\ i <= j /\ j <= len /\ e.ins \in Str
    <3>1. i \in Nat /\ j \in Nat /\ i <= j /\ e.ins \in Str /\ j <= Cursor(list, n) /\ Cursor(list, n) <= len /\ Cursor(list, n) \in Nat
      BY <2>1, <1>0, EditFacts
    <3> QED BY <3>1
  <2>3. s \in Str
    BY <2>1, <2>2, <1>0, StrSlice
  <2>4. u \in Str /\ c[n] = (u \o s) \o e.ins
    <3>1. n - 1 \in 0 .. N
      BY <1>0
    <3> QED BY <3>1, <2>1, <1>1
  <2>5. PICK v : v = e.ins
    OBVIOUS
  <2>6. u \in Seq(Bytes) /\ s \in Seq(Bytes) /\ v \in Seq(Bytes)
    BY <2>2, <2>3, <2>4, <2>5 DEF Str
  <2>7. PICK w, z : w = u \o s /\ z = w \o v
    OBVIOUS
  <2>8. w \in Seq(Bytes) /\ \A q \in 1 .. Len(u) : q \in 1 .. Len(w) /\ w[q] = u[q]
    BY <2>6, <2>7, JoinedAt
  <2>9. \A q \in 1 .. Len(w) : q \in 1 .. Len(z) /\ z[q] = w[q]
    BY <2>6, <2>7, <2>8, JoinedAt
  <2>10. y \in 1 .. Len(u)
    BY <2>1
  <2>11. y \in 1 .. Len(z) /\ z[y] = u[y]
    BY <2>8, <2>9, <2>10
  <2>12. c[n] = z
    BY <2>4, <2>5, <2>7
  <2> QED BY <2>1, <2>11, <2>12
<1> DEFINE P == {n \in Nat : k + n <= N => c[k + n][x] = c[k][x] /\ x \in 1 .. Len(c[k + n])}
<1>3. 0 \in P
  BY <1>0
<1>4. ASSUME NEW n \in P PROVE n + 1 \in P
  <2> SUFFICES ASSUME k + (n + 1) <= N PROVE c[k + (n + 1)][x] = c[k][x] /\ x \in 1 .. Len(c[k + (n + 1)])
    OBVIOUS
  <2>1. PICK j : j = k + (n + 1)
    OBVIOUS
  <2>2. j \in 1 .. N /\ j - 1 = k + n /\ k + n <= N
    BY <2>1, <1>0
  <2>3. c[j - 1][x] = c[k][x] /\ x \in 1 .. Len(c[j - 1])
    BY <2>2
  <2> HIDE DEF P
  <2> QED BY <2>1, <2>2, <2>3, <1>2
<1>5. P = Nat
  <2>1. P \in SUBSET Nat
    OBVIOUS
  <2> HIDE DEF P
  <2> QED BY <1>3, <1>4, <2>1, Induct
<1>6. m - k \in Nat /\ k + (m - k) = m /\ m <= N
  BY <1>0
<1>7. m - k \in P
  BY <1>5, <1>6
<1> QED BY <1>6, <1>7

\* A byte between edit k and the next one is in the new text, shifted by what
\* the first k edits grew it.
LEMMA BetweenKept ==
    ASSUME NEW a \in Str, NEW list, Canon(list, Len(a)), NEW b, b = ApplyTo(list, a), NEW D, D = Deltas(list),
           NEW k \in 0 .. Len(list), NEW p \in Nat, Cursor(list, k) <= p, p < Len(a), k < Len(list) => p < list[k + 1].pos
    PROVE  b[p + D[k] + 1] = a[p + 1]
<1>0. PICK N \in Nat, len \in Nat : N = Len(list) /\ len = Len(a)
  BY DEF Canon, Str
<1>1. PICK c, i, d, x : c = Copied(list, a) /\ i = Cursor(list, k) /\ d = D[k] /\ x = p + d + 1
  OBVIOUS
<1>2. /\ \A n \in 0 .. N : c[n] \in Str /\ Len(c[n]) = Cursor(list, n) + D[n]
      /\ \A n \in 1 .. N : c[n] = c[n - 1] \o Slice(a, Cursor(list, n - 1), list[n].pos) \o list[n].ins
  <2>1. ASSUME NEW n \in 0 .. N PROVE c[n] \in Str /\ Len(c[n]) = Cursor(list, n) + D[n]
    BY <1>0, <1>1, CopiedLen
  <2>2. \A n \in 1 .. N : c[n] = c[n - 1] \o Slice(a, Cursor(list, n - 1), list[n].pos) \o list[n].ins
    BY ZenonT(40), <1>0, <1>1, CopiedFacts
  <2> QED BY <2>1, <2>2
<1>3. i \in Nat /\ i <= p /\ d \in Int /\ i + d >= 0
  BY <1>0, <1>1, CursorFacts, DeltasFacts
<1>4. PICK u : u = c[k]
  OBVIOUS
<1>5. u \in Seq(Bytes) /\ Len(u) = i + d /\ x > Len(u) /\ x - Len(u) = (p - i) + 1
  <2>1. u \in Str /\ Len(u) = i + d
    BY <1>0, <1>1, <1>2, <1>4
  <2> QED BY SMTT(30), <2>1, <1>1, <1>3 DEF Str
<1>6. ASSUME NEW j \in Nat, p < j, j <= len, NEW s, s = Slice(a, i, j)
      PROVE  s \in Seq(Bytes) /\ (u \o s) \in Seq(Bytes) /\ x \in 1 .. Len(u \o s) /\ (u \o s)[x] = a[p + 1]
  <2>1. PICK q : q = (p - i) + 1
    OBVIOUS
  <2>2. q \in 1 .. j - i /\ i + q = p + 1 /\ i <= j
    BY <2>1, <1>3, <1>6
  <2>3. a \in Seq(Bytes)
    BY DEF Str
  <2>0. i \in Nat /\ i <= j /\ j <= Len(a) /\ s = Slice(a, i, j)
    BY <2>2, <1>0, <1>3, <1>6
  <2>4. s \in Seq(Bytes) /\ Len(s) = j - i
    BY <2>0, <2>3, SliceFacts
  <2>5. \A z \in 1 .. j - i : s[z] = a[i + z]
    BY ZenonT(40), <2>0, <2>3, SliceFacts
  <2>6. s[q] = a[p + 1] /\ q \in 1 .. Len(s)
    BY <2>2, <2>4, <2>5
  <2>7. PICK w : w = u \o s
    OBVIOUS
  <2>8. w \in Seq(Bytes) /\ \A z \in 1 .. Len(s) : Len(u) + z \in 1 .. Len(w) /\ w[Len(u) + z] = s[z]
    BY SMTT(30), <2>4, <2>7, <1>5, JoinedAt
  <2>9. Len(u) + q = x
    <3>1. PICK h : h = Len(u)
      OBVIOUS
    <3>2. h = i + d /\ x = p + d + 1
      BY <3>1, <1>1, <1>5
    <3>3. h + q = x
      BY <3>2, <2>1, <1>3
    <3> QED BY <3>1, <3>3
  <2>10. x \in 1 .. Len(w) /\ w[x] = s[q]
    BY <2>6, <2>8, <2>9
  <2> QED BY <2>4, <2>6, <2>7, <2>8, <2>10
<1>7. CASE k = N
  <2>1. PICK s : s = Slice(a, i, len)
    OBVIOUS
  <2>2. (u \o s)[x] = a[p + 1]
    <3>1. PICK h : h = len
      OBVIOUS
    <3>2. h \in Nat /\ p < h /\ h <= len
      BY <3>1, <1>0
    <3>3. s = Slice(a, i, h)
      BY <3>1, <2>1
    <3> QED BY <3>2, <3>3, <1>6
  <2>3. b = u \o s
    BY <2>1, <1>0, <1>1, <1>4, <1>7 DEF ApplyTo
  <2> QED BY <2>2, <2>3, <1>1
<1>8. CASE k # N
  <2>1. k + 1 \in 1 .. N /\ k < N /\ (k + 1) - 1 = k /\ k + 1 \in 0 .. N /\ N \in k + 1 .. N
    BY <1>0, <1>8
  <2>2. PICK e, j, v : e = list[k + 1] /\ j = e.pos /\ v = e.ins
    OBVIOUS
  <2>3. j \in Nat /\ p < j /\ j <= len /\ v \in Seq(Bytes)
    <3>1. e.pos \in Nat /\ e.ins \in Str /\ e.pos <= Cursor(list, k + 1) /\ Cursor(list, k + 1) <= len /\ Cursor(list, k + 1) \in Nat
      BY <2>1, <2>2, <1>0, EditFacts
    <3>2. p < j
      BY <2>1, <2>2, <1>0
    <3>3. j <= len
      BY <3>1, <2>2
    <3> QED BY <3>1, <3>2, <3>3, <2>2 DEF Str
  <2>4. PICK s, w : s = Slice(a, i, j) /\ w = u \o s
    OBVIOUS
  <2>5. w \in Seq(Bytes) /\ x \in 1 .. Len(w) /\ w[x] = a[p + 1]
    BY <2>3, <2>4, <1>6
  <2>6. c[k + 1] = w \o v
    BY <2>1, <2>2, <2>4, <1>1, <1>2, <1>4
  <2>7. PICK z : z = w \o v
    OBVIOUS
  <2>8. x \in 1 .. Len(c[k + 1]) /\ c[k + 1][x] = w[x]
    <3>1. \A h \in 1 .. Len(w) : h \in 1 .. Len(z) /\ z[h] = w[h]
      BY <2>3, <2>5, <2>7, JoinedAt
    <3> QED BY <3>1, <2>5, <2>6, <2>7
  <2>9. c[N][x] = c[k + 1][x] /\ x \in 1 .. Len(c[N])
    <3>1. PICK h : h = k + 1
      OBVIOUS
    <3>2. h \in 0 .. Len(list) /\ N \in h .. Len(list) /\ x \in 1 .. Len(c[h])
      BY <3>1, <2>1, <2>8, <1>0
    <3>3. PICK m : m = N
      OBVIOUS
    <3>4. c = Copied(list, a) /\ m \in h .. Len(list)
      BY <3>2, <3>3, <1>1
    <3>6. StaysWritten(c, Len(list))
      BY <3>4, CopiedStays
    <3>5. c[m][x] = c[h][x] /\ x \in 1 .. Len(c[m])
      BY <3>2, <3>4, <3>6 DEF StaysWritten
    <3> QED BY <3>1, <3>3, <3>5
  <2>10. PICK t, y : t = Slice(a, Cursor(list, N), len) /\ y = c[N]
    OBVIOUS
  <2>11. t \in Seq(Bytes) /\ y \in Seq(Bytes)
    <3>1. PICK h : h = Cursor(list, N)
      OBVIOUS
    <3>2. h \in Nat /\ h <= len
      BY <3>1, <1>0, CursorFacts
    <3>3. t \in Str
      BY <3>1, <3>2, <2>10, <1>0, StrSlice
    <3>4. y \in Str
      BY <2>10, <1>0, <1>2
    <3> QED BY <3>3, <3>4 DEF Str
  <2>12. b = y \o t
    BY <2>10, <1>0, <1>1 DEF ApplyTo
  <2>13. \A z2 \in 1 .. Len(y) : b[z2] = y[z2]
    BY <2>11, <2>12, JoinedAt
  <2>14. b[x] = y[x]
    BY <2>9, <2>10, <2>13
  <2> QED BY <2>5, <2>8, <2>9, <2>10, <2>14, <1>1
<1> QED BY <1>7, <1>8

LEMMA EntryOf ==
    ASSUME NEW S, NEW s \in Seq(S)
    PROVE  Len(s) \in Nat /\ \A i \in 1 .. Len(s) : s[i] \in S
OBVIOUS

\* The line that holds x starts after edit k ends, and the next edit starts
\* past x.
Clear(list, ls, x, k) ==
    /\ k > 0 => Cursor(list, k) < ls
    /\ k < Len(list) => x < list[k + 1].pos

\* Edit k is the last one to end before the line.
LEMMA ClearEnds ==
    ASSUME NEW len \in Nat, NEW list, Canon(list, len), NEW k \in 0 .. Len(list), NEW y \in Nat, NEW x \in Nat,
           y <= x, Clear(list, y, x, k), NEW i, i = Cardinality({n \in 1 .. Len(list) : End(list[n]) < y})
    PROVE  i = k
<1>0. PICK N \in Nat : N = Len(list)
  BY DEF Canon
<1>1. y \in Int
  OBVIOUS
<1>2. i \in 0 .. N /\ \A n \in 1 .. N : End(list[n]) < y <=> n <= i
  <2>1. Ended(list, y, i)
    BY <1>1, EndedFacts
  <2> QED BY <2>1, <1>0 DEF Ended
<1>3. k <= i
  <2>1. CASE k = 0
    BY <2>1, <1>2
  <2>2. CASE k # 0
    <3>1. k \in 1 .. N /\ k > 0
      BY <2>2, <1>0
    <3>2. End(list[k]) < y
      BY <3>1, <1>0, EditFacts DEF Clear
    <3> QED BY <3>1, <3>2, <1>2
  <2> QED BY <2>1, <2>2
<1>4. i <= k
  <2>1. CASE k = N
    BY <2>1, <1>2, <1>0
  <2>2. CASE k # N
    <3>1. k + 1 \in 1 .. N /\ k < N
      BY <2>2, <1>0
    <3>2. PICK p, h : p = list[k + 1].pos /\ h = End(list[k + 1])
      OBVIOUS
    <3>3. p \in Nat /\ h \in Nat /\ p <= h
      BY <3>1, <3>2, <1>0, EditFacts
    <3>4. x < p
      BY <3>1, <3>2, <1>0 DEF Clear
    <3>5. ~(h < y)
      BY <3>3, <3>4
    <3>6. ~(k + 1 <= i)
      BY <3>1, <3>2, <3>5, <1>2
    <3> QED BY <3>6, <1>0, <1>2
  <2> QED BY <2>1, <2>2
<1> QED BY <1>0, <1>2, <1>3, <1>4

\* A byte anchor that no edit reaches only shifts.
LEMMA ByteClear ==
    ASSUME NEW len \in Nat, NEW list, Canon(list, len), NEW D, D = Deltas(list),
           NEW k \in 0 .. Len(list), NEW x \in Nat, Clear(list, x, x, k), NEW bias
    PROVE  MapByteInside(list, x, bias) = [at |-> x + D[k], inside |-> FALSE]
<1>0. PICK N \in Nat : N = Len(list)
  BY DEF Canon
<1>1. k = Cardinality({n \in 1 .. Len(list) : End(list[n]) < x})
  <2>1. PICK i : i = Cardinality({n \in 1 .. Len(list) : End(list[n]) < x})
    OBVIOUS
  <2>2. x <= x
    OBVIOUS
  <2>3. i = k
    BY <2>1, <2>2, ClearEnds
  <2> QED BY <2>1, <2>3
<1>2. PICK f, r : f = MetInTurn(list, k, x, bias) /\ r = [at |-> x + D[k], inside |-> FALSE]
  OBVIOUS
<1>3. /\ f[k] = r
      /\ \A n \in k + 1 .. N : f[n] = MeetEdit(f[n - 1], list[n], D[n - 1], bias)
  <2>1. MetIs(list, k, x, bias, f)
    BY <1>0, <1>2, MetDef
  <2> QED BY <2>1, <1>0, <1>2 DEF MetIs
<1>4. ASSUME NEW n \in k + 1 .. N PROVE r.at < list[n].pos + D[n - 1]
  <2>1. n \in 1 .. N /\ n - 1 \in k .. N /\ n - 1 \in 0 .. N /\ k < N /\ k + 1 \in 1 .. N
    BY <1>0
  <2>2. PICK c, p, q, d, dk : c = Cursor(list, n - 1) /\ p = list[n].pos /\ q = list[k + 1].pos /\ d = D[n - 1] /\ dk = D[k]
    OBVIOUS
  <2>3. c \in Nat /\ p \in Nat /\ c <= p
    BY <2>1, <2>2, <1>0, EditFacts
  <2>4. q \in Nat
    BY <2>1, <2>2, <1>0, EditFacts
  <2>5. d \in Int /\ dk \in Int
    BY <2>1, <2>2, <1>0, DeltasFacts
  <2>6. x < q
    BY <2>1, <2>2, <1>0 DEF Clear
  <2>7. r.at = x + dk
    BY <1>2, <2>2
  <2>8. CASE n - 1 = k
    <3>1. p = q /\ d = dk
      <4>1. n = k + 1
        BY <2>8, <2>1
      <4> QED BY <4>1, <2>2, <2>8
    <3>2. x + dk < p + d
      BY <3>1, <2>4, <2>5, <2>6
    <3> QED BY <3>2, <2>2, <2>7
  <2>9. CASE n - 1 # k
    <3>1. k < n - 1
      BY <2>1, <2>9, <1>0
    <3>2. q + dk <= c + d
      BY <3>1, <2>1, <2>2, <1>0, ReachGrows
    <3>3. x + dk < p + d
      BY <3>2, <2>3, <2>4, <2>5, <2>6
    <3> QED BY <3>3, <2>2, <2>7
  <2> QED BY <2>8, <2>9
<1> DEFINE P == {n \in Nat : k + n <= N => f[k + n] = r}
<1>5. 0 \in P
  BY <1>3, <1>0
<1>6. ASSUME NEW n \in P PROVE n + 1 \in P
  <2> SUFFICES ASSUME k + (n + 1) <= N PROVE f[k + (n + 1)] = r
    OBVIOUS
  <2>1. PICK j : j = k + (n + 1)
    OBVIOUS
  <2>2. j \in k + 1 .. N /\ j - 1 = k + n /\ k + n <= N
    BY <2>1, <1>0
  <2>3. f[j - 1] = r
    BY <2>2
  <2>4. f[j] = MeetEdit(r, list[j], D[j - 1], bias) /\ r.at < list[j].pos + D[j - 1]
    BY <2>2, <2>3, <1>3, <1>4
  <2>5. f[j] = r
    BY <2>4 DEF MeetEdit
  <2> QED BY <2>1, <2>5
<1>7. P = Nat
  <2>1. P \in SUBSET Nat
    OBVIOUS
  <2> HIDE DEF P
  <2> QED BY <1>5, <1>6, <2>1, Induct
<1>8. f[N] = r
  <2>1. N - k \in Nat /\ k + (N - k) = N /\ N <= N
    BY <1>0
  <2>2. N - k \in P
    BY <2>1, <1>7
  <2> QED BY <2>1, <2>2
<1>9. MapByteInside(list, x, bias) = f[N]
  BY <1>0, <1>1, <1>2 DEF MapByteInside
<1> QED BY <1>2, <1>8, <1>9

\* No newline before the end of the run: the line reaches as far.
LEMMA LineReaches ==
    ASSUME NEW b \in Str, NEW s \in Nat, NEW t \in Nat, s <= t, t <= Len(b), \A i \in s .. t - 1 : b[i + 1] # NL
    PROVE  LineEnd(b, s) \in Nat /\ t <= LineEnd(b, s)
<1>1. PICK n \in Nat : n = Len(b)
  BY DEF Str
<1>2. MinOf(s, n) = s
  BY <1>1, MinOfFacts
<1>3. PICK S : S = {n} \cup {i \in s .. n - 1 : b[i + 1] = NL}
  OBVIOUS
<1>4. S \in SUBSET Nat /\ S # {}
  BY <1>1, <1>3
<1>5. Min(S) \in S
  BY <1>4, MinFacts
<1>6. LineEnd(b, s) = Min(S)
  BY <1>1, <1>2, <1>3 DEF LineEnd
<1>7. ASSUME NEW y \in S PROVE t <= y
  <2>1. CASE y = n
    BY <2>1, <1>1
  <2>2. CASE y # n
    <3>1. y \in s .. n - 1 /\ b[y + 1] = NL
      BY <2>2, <1>3
    <3>2. ~(y \in s .. t - 1)
      BY <3>1
    <3> QED BY <3>1, <3>2, <1>1
  <2> QED BY <2>1, <2>2
<1> QED BY <1>4, <1>5, <1>6, <1>7

\* From the start of its line to p there is no newline.
LEMMA LineIsWhole ==
    ASSUME NEW a \in Str, NEW p \in Nat, p <= Len(a), NEW i \in LineStart(a, p) .. p - 1
    PROVE  a[i + 1] # NL
<1>1. PICK n \in Nat : n = Len(a)
  BY DEF Str
<1>2. MinOf(p, n) = p
  BY <1>1, MinOfFacts
<1>3. PICK S : S = {j \in 1 .. p : a[j] = NL}
  OBVIOUS
<1>4. S \subseteq 0 .. p
  BY <1>3
<1>5. PICK m : m = Max({0} \cup S)
  OBVIOUS
<1>6. m \in 0 .. p /\ \A y \in S : y <= m
  BY <1>4, <1>5, MaxOrNone
<1>7. LineStart(a, p) = m
  BY <1>1, <1>2, <1>3, <1>5 DEF LineStart, LineHead
<1>8. i + 1 \in 1 .. p /\ ~(i + 1 <= m)
  BY <1>6, <1>7
<1> QED BY <1>3, <1>6, <1>8

\* A line that no edit reaches only shifts, and what is on it with it.
LEMMA LineClear ==
    ASSUME NEW a \in Str, NEW list, Canon(list, Len(a)), NEW b, b = ApplyTo(list, a), NEW D, D = Deltas(list),
           NEW k \in 0 .. Len(list), NEW x \in Nat, x <= Len(a), Clear(list, LineStart(a, x), x, k), NEW g
    PROVE  MapOffset(a, b, list, x, g) = x + D[k] /\ x + D[k] \in Nat
<1>0. PICK N \in Nat, len \in Nat : N = Len(list) /\ len = Len(a)
  BY DEF Canon, Str
<1>1. PICK ls, d, n : ls = LineStart(a, x) /\ d = D[k] /\ n = Deciding(a, list, ls)
  OBVIOUS
<1>2. ls \in Nat /\ ls <= x /\ ls <= len
  BY <1>0, <1>1, LineStartFacts
<1>3. k < N => k + 1 \in 1 .. N /\ x < list[k + 1].pos /\ list[k + 1].pos \in Nat
  <2>1. k < N => k + 1 \in 1 .. N
    BY <1>0
  <2> QED BY <2>1, <1>0, EditFacts DEF Clear
<1>4. n = k + 1
  <2>1. PICK i : i = Cardinality({j \in 1 .. Len(list) : End(list[j]) < ls})
    OBVIOUS
  <2>2. i = k
    BY <2>1, <1>0, <1>1, <1>2, ClearEnds
  <2>3. PICK S : S = {N + 1} \cup {j \in k + 1 .. N : list[j].pos > ls \/ ~IsAbove(a, list[j], ls)}
    OBVIOUS
  <2>4. n = Min(S)
    BY <2>1, <2>2, <2>3, <1>0, <1>1 DEF Deciding
  <2>5. S \in SUBSET Nat /\ S # {} /\ \A j \in S : k + 1 <= j
    BY <2>3, <1>0
  <2>6. k + 1 \in S
    <3>1. CASE k = N
      BY <3>1, <2>3
    <3>2. CASE k # N
      <4>1. k < N
        BY <3>2, <1>0
      <4>2. list[k + 1].pos > ls /\ k + 1 \in k + 1 .. N
        BY <4>1, <1>0, <1>2, <1>3
      <4> QED BY <4>2, <2>3
    <3> QED BY <3>1, <3>2
  <2>7. Min(S) \in S /\ \A y \in S : Min(S) <= y
    BY <2>5, MinFacts
  <2>8. Min(S) \in Nat /\ Min(S) <= k + 1 /\ k + 1 <= Min(S)
    BY <2>5, <2>6, <2>7
  <2> QED BY <2>4, <2>8, <1>0
<1>5. MapFrom(a, b, list, n, x, ls, g) = AtCol(b, ls + d, x - ls)
  <2>1. n > Len(list) \/ list[n].pos > ls
    BY <1>0, <1>2, <1>3, <1>4
  <2>2. n - 1 = k
    BY <1>0, <1>4
  <2>3. Deltas(list)[n - 1] = d
    BY <2>2, <1>1
  <2> QED BY <2>1, <2>3 DEF MapFrom
<1>6. b \in Str /\ Len(b) \in Nat /\ Len(b) = len + D[N] /\ d \in Int /\ D[N] \in Int
  <2>1. b \in Str /\ Len(b) = len + TotalDelta(list)
    BY <1>0, AppliedLen
  <2>2. TotalDelta(list) = D[N] /\ d \in Int /\ D[N] \in Int
    BY <1>0, <1>1, DeltasFacts
  <2>3. b \in Seq(Bytes)
    BY <2>1 DEF Str
  <2> QED BY <2>1, <2>2, <2>3, EntryOf
<1>7. PICK c : c = Cursor(list, k)
  OBVIOUS
<1>8. c \in Nat /\ c <= ls
  <2>1. c \in Nat
    BY <1>0, <1>7, CursorFacts
  <2>2. CASE k = 0
    BY <2>2, <1>2, <1>7 DEF Cursor
  <2>3. CASE k # 0
    <3>1. k > 0
      BY <2>3, <1>0
    <3>2. c < ls
      BY <3>1, <1>1, <1>7 DEF Clear
    <3> QED BY <3>2, <2>1, <1>2
  <2> QED BY <2>1, <2>2, <2>3
<1>9. PICK s, t : s = ls + d /\ t = x + d
  OBVIOUS
<1>10. t \in Nat /\ t <= Len(b)
  <2>1. Cut(list, x, k)
    <3>1. c <= x
      BY <1>2, <1>8
    <3>2. k < N => x <= list[k + 1].pos
      BY <1>3
    <3> QED BY <3>1, <3>2, <1>0, <1>7 DEF Cut
  <2>2. x \in 0 .. len
    BY <1>0
  <2>3. x + D[k] \in 0 .. len + D[N]
    BY <2>1, <2>2, <1>0, CutStays
  <2> QED BY <2>3, <1>1, <1>6, <1>9
<1>11. s \in Nat /\ s <= t
  <2>1. c + d >= 0
    BY <1>0, <1>1, <1>7, DeltasFacts
  <2> QED BY <2>1, <1>2, <1>6, <1>8, <1>9
<1>12. ASSUME NEW i \in s .. t - 1 PROVE b[i + 1] # NL
  <2>1. PICK p : p = i - d
    OBVIOUS
  <2>2. p \in Nat /\ p \in ls .. x - 1 /\ p + d + 1 = i + 1 /\ c <= p /\ p < len /\ p < x
    BY <2>1, <1>0, <1>2, <1>6, <1>8, <1>9, <1>11
  <2>3. k < N => p < list[k + 1].pos
    BY <2>2, <1>3
  <2>4. b[p + D[k] + 1] = a[p + 1]
    BY <2>2, <2>3, <1>0, <1>7, BetweenKept
  <2>5. a[p + 1] # NL
    BY <2>2, <1>1, LineIsWhole
  <2> QED BY <2>2, <2>4, <2>5, <1>1
<1>13. PICK le : le = LineEnd(b, s)
  OBVIOUS
<1>14. le \in Nat /\ t <= le
  BY <1>6, <1>10, <1>11, <1>12, <1>13, LineReaches
<1>15. AtCol(b, ls + d, x - ls) = t
  <2>0. PICK h : h = Len(b)
    OBVIOUS
  <2>9. h \in Nat /\ s <= h
    BY <2>0, <1>6, <1>10, <1>11
  <2>1. MinOf(s, Len(b)) = s
    BY <2>0, <2>9, <1>11, MinOfFacts
  <2>2. AtCol(b, ls + d, x - ls) = s + MinOf(x - ls, le - s)
    BY <2>1, <1>9, <1>13 DEF AtCol
  <2>3. PICK u, v : u = x - ls /\ v = le - s
    OBVIOUS
  <2>4. u \in Nat /\ v \in Nat /\ u <= v /\ s + u = t
    BY <2>3, <1>2, <1>6, <1>9, <1>11, <1>14
  <2>5. MinOf(u, v) = u
    BY <2>4, MinOfFacts
  <2> QED BY <2>2, <2>3, <2>4, <2>5
<1>16. MapOffset(a, b, list, x, g) = IF t = Lost THEN Lost ELSE MinOf(t, Len(b))
  <2>1. MinOf(x, Len(a)) = x
    BY <1>0, MinOfFacts
  <2> QED BY <2>1, <1>1, <1>5, <1>15 DEF MapOffset, Snapped, Snap
<1>17. t # Lost /\ MinOf(t, Len(b)) = t
  <2>1. PICK h : h = Len(b)
    OBVIOUS
  <2>2. h \in Nat /\ t <= h
    BY <2>1, <1>6, <1>10
  <2>3. MinOf(t, h) = t
    BY <2>2, <1>10, MinOfFacts
  <2>4. t # Lost
    BY <1>10 DEF Lost
  <2> QED BY <2>1, <2>3, <2>4
<1> QED BY <1>1, <1>9, <1>10, <1>16, <1>17

\* u is where a line ends.
AtEnd(a, u) == u = Len(a) \/ (u < Len(a) /\ a[u + 1] = NL)

LEMMA LineEndIs ==
    ASSUME NEW b \in Str, NEW p \in Nat
    PROVE  AtEnd(b, LineEnd(b, p))
<1>1. PICK n \in Nat : n = Len(b)
  BY DEF Str
<1>2. PICK q : q = MinOf(p, n)
  OBVIOUS
<1>3. q \in Nat
  BY <1>2, MinOfFacts
<1>4. PICK S : S = {n} \cup {i \in q .. n - 1 : b[i + 1] = NL}
  OBVIOUS
<1>5. S \in SUBSET Nat /\ S # {}
  BY <1>1, <1>3, <1>4
<1>6. PICK m : m = Min(S)
  OBVIOUS
<1>7. m \in S
  BY <1>5, <1>6, MinFacts
<1>8. LineEnd(b, p) = m
  BY <1>1, <1>2, <1>4, <1>6 DEF LineEnd
<1>9. m = n \/ (m < n /\ b[m + 1] = NL)
  BY <1>1, <1>3, <1>4, <1>7
<1> QED BY <1>1, <1>8, <1>9 DEF AtEnd
----------------------------------------------------------------------------
(* Lines, and the edges of edits in whole lines.                           *)

\* A line that is not empty, from p to le.
IsLine(b, p, le) ==
    /\ p \in Nat /\ le \in Nat /\ p < le /\ le <= Len(b)
    /\ LineStartAt(b, p) /\ AtEnd(b, le)
    /\ \A i \in p .. le - 1 : b[i + 1] # NL

LEMMA LinesAre ==
    ASSUME NEW b \in Str, NEW p \in LinesOf(b), NEW le, le = LineEnd(b, p)
    PROVE  IsLine(b, p, le)
<1>1. PICK n \in Nat : n = Len(b)
  BY DEF Str
<1>2. p \in Nat /\ p <= n /\ LineStartAt(b, p) /\ le > p
  BY <1>1 DEF LinesOf
<1>3. le \in Nat /\ le <= n /\ AtEnd(b, le)
  BY <1>1, <1>2, LineEndFacts, LineEndIs
<1>4. MinOf(p, n) = p
  BY <1>1, <1>2, MinOfFacts
<1>5. PICK S : S = {n} \cup {i \in p .. n - 1 : b[i + 1] = NL}
  OBVIOUS
<1>6. S \in SUBSET Nat /\ S # {}
  BY <1>1, <1>2, <1>5
<1>7. le = Min(S)
  BY <1>1, <1>4, <1>5 DEF LineEnd
<1>8. \A y \in S : le <= y
  BY <1>6, <1>7, MinFacts
<1>9. ASSUME NEW i \in p .. le - 1 PROVE b[i + 1] # NL
  <2>1. i \in p .. n - 1 /\ ~(le <= i)
    BY <1>1, <1>2, <1>3
  <2> QED BY <2>1, <1>5, <1>8
<1> QED BY <1>1, <1>2, <1>3, <1>9 DEF IsLine

LEMMA LineFacts ==
    ASSUME NEW b \in Str, NEW p, NEW le, IsLine(b, p, le)
    PROVE  p \in LinesOf(b) /\ LineEnd(b, p) = le
<1>1. PICK n \in Nat : n = Len(b)
  BY DEF Str
<1>2. p \in Nat /\ le \in Nat /\ p < le /\ le <= n /\ LineStartAt(b, p) /\ AtEnd(b, le)
  BY <1>1 DEF IsLine
<1>3. MinOf(p, n) = p
  BY <1>1, <1>2, MinOfFacts
<1>4. PICK S : S = {n} \cup {i \in p .. n - 1 : b[i + 1] = NL}
  OBVIOUS
<1>5. S \in SUBSET Nat /\ S # {}
  BY <1>1, <1>2, <1>4
<1>6. PICK m : m = Min(S)
  OBVIOUS
<1>7. m \in S /\ \A y \in S : m <= y
  BY <1>5, <1>6, MinFacts
<1>8. LineEnd(b, p) = m
  BY <1>1, <1>3, <1>4, <1>6 DEF LineEnd
<1>9. le \in S
  <2>1. CASE le = n
    BY <2>1, <1>4
  <2>2. CASE le # n
    <3>1. le \in p .. n - 1 /\ b[le + 1] = NL
      BY <2>2, <1>1, <1>2 DEF AtEnd
    <3> QED BY <3>1, <1>4
  <2> QED BY <2>1, <2>2
<1>10. m \in Nat /\ m <= le
  BY <1>5, <1>7, <1>9
<1>11. LineEnd(b, p) >= le
  <2>1. \A i \in p .. le - 1 : b[i + 1] # NL
    BY DEF IsLine
  <2> QED BY <2>1, <1>1, <1>2, LineReaches
<1>12. m = le
  BY <1>2, <1>8, <1>10, <1>11
<1>13. p \in 0 .. Len(b) /\ LineEnd(b, p) > p
  BY <1>1, <1>2, <1>8, <1>12
<1> QED BY <1>2, <1>8, <1>12, <1>13 DEF LinesOf

\* Every position on a line is of that line.
LEMMA LineFrom ==
    ASSUME NEW b \in Str, NEW p, NEW le, IsLine(b, p, le), NEW o \in p .. le
    PROVE  LineStart(b, o) = p
<1>1. PICK n \in Nat : n = Len(b)
  BY DEF Str
<1>2. p \in Nat /\ le \in Nat /\ p < le /\ le <= n /\ LineStartAt(b, p)
  BY <1>1 DEF IsLine
<1>3. o \in Nat /\ o <= n /\ p <= o /\ o <= le
  BY <1>2
<1>4. MinOf(o, n) = o
  BY <1>1, <1>3, MinOfFacts
<1>5. PICK S : S = {j \in 1 .. o : b[j] = NL}
  OBVIOUS
<1>6. S \subseteq 0 .. o
  BY <1>5
<1>7. PICK m : m = Max({0} \cup S)
  OBVIOUS
<1>8. m \in 0 .. o /\ m \in {0} \cup S /\ \A y \in S : y <= m
  BY <1>3, <1>6, <1>7, MaxOrNone
<1>9. LineStart(b, o) = m
  BY <1>1, <1>4, <1>5, <1>7 DEF LineStart, LineHead
<1>10. p <= m
  <2>1. CASE p = 0
    BY <2>1, <1>8
  <2>2. CASE p # 0
    <3>1. p \in 1 .. o /\ b[p] = NL
      BY <2>2, <1>2, <1>3 DEF LineStartAt
    <3> QED BY <3>1, <1>5, <1>8
  <2> QED BY <2>1, <2>2
<1>11. m <= p
  <2>1. SUFFICES ASSUME p < m PROVE FALSE
    BY <1>2, <1>8
  <2>2. b[m] = NL /\ m \in 1 .. o
    BY <2>1, <1>2, <1>5, <1>8
  <2>3. PICK i : i = m - 1
    OBVIOUS
  <2>4. i \in p .. le - 1 /\ i + 1 = m
    BY <2>1, <2>2, <2>3, <1>2, <1>3
  <2>5. b[i + 1] # NL
    BY <2>4 DEF IsLine
  <2> QED BY <2>2, <2>4, <2>5
<1> QED BY <1>2, <1>8, <1>9, <1>10, <1>11

\* A column of a line is at its place.
LEMMA ColumnOfLine ==
    ASSUME NEW b \in Str, NEW s, NEW t, IsLine(b, s, t), NEW c \in Nat, s + c <= t
    PROVE  AtCol(b, s, c) = s + c /\ AtCol(b, s, c) # Lost /\ Snapped(b, AtCol(b, s, c)) = s + c
<1>1. PICK n \in Nat : n = Len(b)
  BY DEF Str
<1>2. s \in Nat /\ t \in Nat /\ s < t /\ t <= n /\ LineEnd(b, s) = t
  BY <1>1, LineFacts DEF IsLine
<1>3. MinOf(s, n) = s
  BY <1>1, <1>2, MinOfFacts
<1>4. AtCol(b, s, c) = s + MinOf(c, t - s)
  BY <1>1, <1>2, <1>3 DEF AtCol
<1>5. t - s \in Nat /\ c <= t - s
  BY <1>2
<1>6. MinOf(c, t - s) = c
  BY <1>5, MinOfFacts
<1>7. PICK u : u = s + c
  OBVIOUS
<1>8. u \in Nat /\ u <= n /\ u # Lost
  BY <1>2, <1>7 DEF Lost
<1>9. MinOf(u, n) = u
  BY <1>1, <1>8, MinOfFacts
<1>10. Snapped(b, u) = u
  BY <1>1, <1>8, <1>9 DEF Snapped, Snap
<1> QED BY <1>4, <1>6, <1>7, <1>8, <1>10

\* A line found again at s.
LEMMA SameLine ==
    ASSUME NEW a \in Str, NEW b \in Str, NEW p, NEW le, IsLine(a, p, le), NEW s \in Nat, NEW t, t = s + (le - p),
           LineStartAt(b, s), AtEnd(b, t), t <= Len(b), \A i \in p .. le - 1 : b[(i - p) + s + 1] = a[i + 1]
    PROVE  IsLine(b, s, t) /\ LineText(b, s) = LineText(a, p)
<1>1. PICK m \in Nat, n \in Nat : m = Len(a) /\ n = Len(b)
  BY DEF Str
<1>2. p \in Nat /\ le \in Nat /\ p < le /\ le <= m
  BY <1>1 DEF IsLine
<1>3. t \in Nat /\ s < t /\ t <= n /\ t - s = le - p
  BY <1>1, <1>2
<1>4. ASSUME NEW i \in s .. t - 1 PROVE b[i + 1] # NL
  <2>1. PICK j : j = (i - s) + p
    OBVIOUS
  <2>2. j \in p .. le - 1 /\ (j - p) + s + 1 = i + 1
    BY <2>1, <1>2, <1>3
  <2>3. a[j + 1] # NL
    BY <2>2 DEF IsLine
  <2>4. b[(j - p) + s + 1] = a[j + 1]
    BY <2>2
  <2> QED BY <2>2, <2>3, <2>4
<1>5. IsLine(b, s, t)
  BY <1>1, <1>3, <1>4 DEF IsLine
<1>6. LineEnd(b, s) = t /\ LineEnd(a, p) = le
  BY <1>5, LineFacts
<1>7. PICK w : w = le - p
  OBVIOUS
<1>8. w \in Nat /\ le = p + w /\ t = s + w
  BY <1>2, <1>3, <1>7
<1>9. Agree(b, s, a, p, w)
  <2>1. SUFFICES ASSUME NEW k \in 1 .. w PROVE b[s + k] = a[p + k]
    BY DEF Agree
  <2>2. PICK j : j = p + k - 1
    OBVIOUS
  <2>3. j \in p .. le - 1 /\ (j - p) + s + 1 = s + k /\ j + 1 = p + k
    BY <2>2, <1>2, <1>8
  <2>4. b[(j - p) + s + 1] = a[j + 1]
    BY <2>3
  <2> QED BY <2>3, <2>4
<1>10. Slice(b, s, t) = Slice(a, p, le)
  BY <1>1, <1>2, <1>3, <1>8, <1>9, SliceEq
<1> QED BY <1>5, <1>6, <1>10 DEF LineText

\* No line starts or ends within another.
LEMMA StartsApart ==
    ASSUME NEW a, NEW p, NEW le, IsLine(a, p, le), NEW x \in Nat, LineStartAt(a, x)
    PROVE  x <= p \/ x > le
<1>1. p \in Nat /\ le \in Nat
  BY DEF IsLine
<1>2. SUFFICES ASSUME p < x, x <= le PROVE FALSE
  BY <1>1
<1>3. PICK i : i = x - 1
  OBVIOUS
<1>4. i \in p .. le - 1 /\ i + 1 = x /\ x # 0
  BY <1>1, <1>2, <1>3
<1>5. a[i + 1] # NL
  BY <1>4 DEF IsLine
<1> QED BY <1>4, <1>5 DEF LineStartAt

LEMMA NewlinesApart ==
    ASSUME NEW a, NEW p, NEW le, IsLine(a, p, le), NEW x \in Nat, x = Len(a) \/ IsNewline(a, x)
    PROVE  x < p \/ x >= le
<1>1. p \in Nat /\ le \in Nat /\ le <= Len(a)
  BY DEF IsLine
<1>2. SUFFICES ASSUME p <= x, x < le PROVE FALSE
  BY <1>1
<1>3. x \in p .. le - 1
  BY <1>1, <1>2
<1>4. a[x + 1] # NL
  BY <1>3 DEF IsLine
<1>5. x # Len(a)
  BY <1>1, <1>2
<1> QED BY <1>4, <1>5 DEF IsNewline

\* How an edit in whole lines may lie about a line.
Beside(a, e, p, le) ==
    /\ e.pos <= p \/ e.pos >= le
    /\ End(e) <= p \/ End(e) >= le
    /\ End(e) = p => StartAligned(a, e) /\ ~EndAligned(a, e)
    /\ e.pos = p => StartAligned(a, e) /\ ~EndAligned(a, e)
    /\ e.pos = le => EndAligned(a, e) /\ ~StartAligned(a, e)
    /\ StartAligned(a, e) /\ End(e) > p => End(e) > le

LEMMA WholeBeside ==
    ASSUME NEW a, NEW p, NEW le, IsLine(a, p, le), NEW e \in Edit, WholeLines(a, e)
    PROVE  Beside(a, e, p, le)
<1>1. PICK x, y : x = e.pos /\ y = End(e)
  OBVIOUS
<1>2. x \in Nat /\ y \in Nat /\ x <= y
  <2>1. e.pos \in Nat /\ e.del \in Nat
    BY DEF Edit
  <2> QED BY <2>1, <1>1 DEF End
<1>3. p \in Nat /\ le \in Nat /\ p < le
  BY DEF IsLine
<1>4. StartAligned(a, e) => (x <= p \/ x > le) /\ (y <= p \/ y > le)
  <2>1. SUFFICES ASSUME StartAligned(a, e) PROVE (x <= p \/ x > le) /\ (y <= p \/ y > le)
    OBVIOUS
  <2>2. LineStartAt(a, x) /\ LineStartAt(a, y)
    BY <2>1, <1>1 DEF StartAligned
  <2> QED BY <2>2, <1>2, StartsApart
<1>5. EndAligned(a, e) => (x < p \/ x >= le) /\ (y < p \/ y >= le)
  <2>1. SUFFICES ASSUME EndAligned(a, e) PROVE (x < p \/ x >= le) /\ (y < p \/ y >= le)
    OBVIOUS
  <2>2. IsNewline(a, x) /\ (y = Len(a) \/ IsNewline(a, y))
    BY <2>1, <1>1 DEF EndAligned
  <2> QED BY <2>2, <1>2, NewlinesApart
<1>6. StartAligned(a, e) \/ EndAligned(a, e)
  BY DEF WholeLines
<1>7. (x <= p \/ x >= le) /\ (y <= p \/ y >= le)
  BY <1>2, <1>3, <1>4, <1>5, <1>6
<1>8. y = p => ~EndAligned(a, e)
  BY <1>2, <1>3, <1>5
<1>9. x = p => ~EndAligned(a, e)
  BY <1>2, <1>3, <1>5
<1>10. x = le => ~StartAligned(a, e)
  BY <1>2, <1>3, <1>4
<1>11. StartAligned(a, e) /\ y > p => y > le
  BY <1>2, <1>3, <1>4
<1> QED BY <1>1, <1>6, <1>7, <1>8, <1>9, <1>10, <1>11 DEF Beside

\* What edit k inserts is in the new text, shifted by what the edits before it
\* grew it.
LEMMA InsertKept ==
    ASSUME NEW a \in Str, NEW list, Canon(list, Len(a)), NEW b, b = ApplyTo(list, a), NEW D, D = Deltas(list),
           NEW k \in 1 .. Len(list), NEW y \in 1 .. Len(list[k].ins), NEW x, x = list[k].pos + D[k - 1] + y
    PROVE  x \in 1 .. Len(b) /\ b[x] = list[k].ins[y]
<1>0. PICK N \in Nat, len \in Nat : N = Len(list) /\ len = Len(a)
  BY DEF Canon, Str
<1>1. PICK c, i, d, j, v : c = Copied(list, a) /\ i = Cursor(list, k - 1) /\ d = D[k - 1] /\ j = list[k].pos /\ v = list[k].ins
  OBVIOUS
<1>2. k - 1 \in 0 .. N /\ k \in 0 .. N /\ N \in k .. N
  BY <1>0
<1>3. /\ \A n \in 0 .. N : c[n] \in Str /\ Len(c[n]) = Cursor(list, n) + D[n]
      /\ \A n \in 1 .. N : c[n] = c[n - 1] \o Slice(a, Cursor(list, n - 1), list[n].pos) \o list[n].ins
  <2>1. ASSUME NEW n \in 0 .. N PROVE c[n] \in Str /\ Len(c[n]) = Cursor(list, n) + D[n]
    BY <1>0, <1>1, CopiedLen
  <2>2. \A n \in 1 .. N : c[n] = c[n - 1] \o Slice(a, Cursor(list, n - 1), list[n].pos) \o list[n].ins
    BY ZenonT(40), <1>0, <1>1, CopiedFacts
  <2> QED BY <2>1, <2>2
<1>4. i \in Nat /\ j \in Nat /\ i <= j /\ j <= len /\ v \in Str
  <2>1. i \in Nat /\ j \in Nat /\ i <= j /\ v \in Str /\ j <= Cursor(list, k) /\ Cursor(list, k) <= len /\ Cursor(list, k) \in Nat
    BY <1>0, <1>1, EditFacts
  <2> QED BY <2>1
<1>5. d \in Int
  BY <1>0, <1>1, <1>2, DeltasFacts
<1>6. PICK u, s : u = c[k - 1] /\ s = Slice(a, i, j)
  OBVIOUS
<1>7. u \in Seq(Bytes) /\ Len(u) = i + d
  BY <1>1, <1>2, <1>3, <1>6 DEF Str
<1>8. s \in Seq(Bytes) /\ Len(s) = j - i
  BY <1>0, <1>4, <1>6, StrSlice DEF Str
<1>9. v \in Seq(Bytes)
  BY <1>4 DEF Str
<1>10. PICK w, z : w = u \o s /\ z = w \o v
  OBVIOUS
<1>11. w \in Seq(Bytes) /\ Len(w) = Len(u) + Len(s)
  BY <1>7, <1>8, <1>10, JoinedAt
<1>12. Len(w) = j + d
  BY <1>4, <1>5, <1>7, <1>8, <1>11
<1>13. \A t \in 1 .. Len(v) : Len(w) + t \in 1 .. Len(z) /\ z[Len(w) + t] = v[t]
  BY <1>9, <1>10, <1>11, JoinedAt
<1>14. c[k] = z
  BY <1>0, <1>1, <1>3, <1>6, <1>10
<1>15. Len(w) + y = x
  BY <1>1, <1>12
<1>16. x \in 1 .. Len(c[k]) /\ c[k][x] = v[y]
  BY <1>1, <1>13, <1>14, <1>15
<1>17. c[N][x] = c[k][x] /\ x \in 1 .. Len(c[N])
  <2>1. StaysWritten(c, Len(list))
    BY <1>1, CopiedStays
  <2>2. PICK m : m = N
    OBVIOUS
  <2>3. k \in 0 .. Len(list) /\ m \in k .. Len(list)
    BY <2>2, <1>0, <1>2
  <2>4. c[m][x] = c[k][x] /\ x \in 1 .. Len(c[m])
    BY <2>1, <2>3, <1>16 DEF StaysWritten
  <2> QED BY <2>2, <2>4
<1>18. PICK t, h : t = Slice(a, Cursor(list, N), len) /\ h = c[N]
  OBVIOUS
<1>19. t \in Seq(Bytes) /\ h \in Seq(Bytes)
  <2>1. PICK g : g = Cursor(list, N)
    OBVIOUS
  <2>2. g \in Nat /\ g <= len
    BY <2>1, <1>0, CursorFacts
  <2>3. t \in Str
    BY <2>1, <2>2, <1>0, <1>18, StrSlice
  <2>4. h \in Str
    BY <1>0, <1>3, <1>18
  <2> QED BY <2>3, <2>4 DEF Str
<1>20. b = h \o t
  BY <1>0, <1>1, <1>18 DEF ApplyTo
<1>21. \A q \in 1 .. Len(h) : q \in 1 .. Len(b) /\ b[q] = h[q]
  BY <1>19, <1>20, JoinedAt
<1> QED BY <1>1, <1>16, <1>17, <1>18, <1>21

\* The new text, its length and how far each edit moves what follows it.
LEMMA AppliedTypes ==
    ASSUME NEW a \in Str, NEW list, Canon(list, Len(a)), NEW b, b = ApplyTo(list, a), NEW D, D = Deltas(list)
    PROVE  /\ Len(list) \in Nat /\ Len(a) \in Nat /\ b \in Str /\ Len(b) \in Nat
           /\ Len(b) = Len(a) + D[Len(list)]
           /\ \A n \in 0 .. Len(list) : D[n] \in Int
<1>0. Len(list) \in Nat /\ Len(a) \in Nat
  BY DEF Canon, Str
<1>1. b \in Str /\ Len(b) = Len(a) + TotalDelta(list)
  BY AppliedLen
<1>2. TotalDelta(list) = D[Len(list)] /\ \A n \in 0 .. Len(list) : D[n] \in Int
  BY <1>0, DeltasFacts
<1>3. Len(b) \in Nat
  BY <1>1 DEF Str
<1> QED BY <1>0, <1>1, <1>2, <1>3

\* A line start between two edits, or at the next one, is one of the new text.
LEMMA KeptStart ==
    ASSUME NEW a \in Str, NEW list, Canon(list, Len(a)), NEW b, b = ApplyTo(list, a), NEW D, D = Deltas(list),
           NEW k \in 0 .. Len(list), NEW x \in Nat, x <= Len(a), LineStartAt(a, x),
           k = 0 \/ Cursor(list, k) < x, k < Len(list) => x <= list[k + 1].pos
    PROVE  LineStartAt(b, x + D[k])
<1>0. Len(list) \in Nat /\ Len(a) \in Nat /\ D[k] \in Int
  BY AppliedTypes
<1>1. Cursor(list, k) \in Nat /\ (k = 0 => Cursor(list, k) = 0 /\ D[k] = 0)
  BY <1>0, CursorFacts, DeltasFacts DEF Cursor
<1>2. CASE x = 0
  <2>1. k = 0
    BY <1>1, <1>2
  <2> QED BY <2>1, <1>1, <1>2 DEF LineStartAt
<1>3. CASE x # 0
  <2>1. PICK p : p = x - 1
    OBVIOUS
  <2>2. p \in Nat /\ p + 1 = x /\ p < Len(a) /\ p < x /\ Cursor(list, k) <= p
    BY <2>1, <1>0, <1>1, <1>3
  <2>3. k < Len(list) => p < list[k + 1].pos
    <3>1. SUFFICES ASSUME k < Len(list) PROVE p < list[k + 1].pos
      OBVIOUS
    <3>2. k + 1 \in 1 .. Len(list)
      BY <3>1, <1>0
    <3>3. list[k + 1].pos \in Nat
      BY <3>2, <1>0, EditFacts
    <3> QED BY <3>1, <3>3, <2>2
  <2>4. b[p + D[k] + 1] = a[p + 1]
    BY <2>2, <2>3, BetweenKept
  <2>5. p + D[k] + 1 = x + D[k]
    BY <2>2, <1>0
  <2>6. a[x] = NL
    BY <1>3 DEF LineStartAt
  <2> QED BY <2>2, <2>4, <2>5, <2>6 DEF LineStartAt
<1> QED BY <1>2, <1>3

\* A line end after an edit and before the next one is one of the new text.
LEMMA KeptEnd ==
    ASSUME NEW a \in Str, NEW list, Canon(list, Len(a)), NEW b, b = ApplyTo(list, a), NEW D, D = Deltas(list),
           NEW k \in 0 .. Len(list), NEW x \in Nat, AtEnd(a, x),
           Cursor(list, k) <= x, k < Len(list) => x < list[k + 1].pos
    PROVE  AtEnd(b, x + D[k])
<1>0. Len(list) \in Nat /\ Len(a) \in Nat /\ D[k] \in Int /\ Len(b) \in Nat /\ Len(b) = Len(a) + D[Len(list)]
  BY AppliedTypes
<1>1. k < Len(list) => x < Len(a) /\ x + 1 <= list[k + 1].pos
  <2>1. SUFFICES ASSUME k < Len(list) PROVE x < Len(a) /\ x + 1 <= list[k + 1].pos
    OBVIOUS
  <2>2. k + 1 \in 1 .. Len(list)
    BY <2>1, <1>0
  <2>3. PICK j, h : j = list[k + 1].pos /\ h = Cursor(list, k + 1)
    OBVIOUS
  <2>4. j \in Nat /\ h \in Nat /\ j <= h /\ h <= Len(a)
    BY <2>2, <2>3, <1>0, EditFacts
  <2> QED BY <2>1, <2>3, <2>4, <1>0
<1>2. CASE x = Len(a)
  <2>1. k = Len(list)
    BY <1>0, <1>1, <1>2
  <2> QED BY <2>1, <1>0, <1>2 DEF AtEnd
<1>3. CASE x # Len(a)
  <2>1. x < Len(a) /\ a[x + 1] = NL
    BY <1>3 DEF AtEnd
  <2>2. b[x + D[k] + 1] = a[x + 1]
    BY <2>1, BetweenKept
  <2>3. PICK y : y = x + 1
    OBVIOUS
  <2>4. y \in 0 .. Len(a)
    BY <2>1, <2>3, <1>0
  <2>5. Cut(list, y, k)
    <3>1. Cursor(list, k) \in Nat
      BY <1>0, CursorFacts
    <3>2. Cursor(list, k) <= y
      BY <3>1, <2>3
    <3> QED BY <3>2, <2>3, <1>1 DEF Cut
  <2>6. y + D[k] \in 0 .. Len(a) + D[Len(list)]
    BY <2>4, <2>5, <1>0, CutStays
  <2>7. x + D[k] < Len(b)
    BY <2>3, <2>6, <1>0
  <2> QED BY <2>1, <2>2, <2>7 DEF AtEnd
<1> QED BY <1>2, <1>3

\* An edit starts after the one before it.
LEMMA StrictlyAfter ==
    ASSUME NEW len \in Nat, NEW list, Canon(list, len), NEW k \in 1 .. Len(list) - 1
    PROVE  /\ list[k].pos \in Nat /\ list[k + 1].pos \in Nat /\ list[k].pos < list[k + 1].pos
           /\ End(list[k]) \in Nat /\ list[k].pos <= End(list[k]) /\ End(list[k]) <= list[k + 1].pos
<1>0. Len(list) \in Nat
  BY DEF Canon
<1>1. k \in 1 .. Len(list) /\ k + 1 \in 1 .. Len(list)
  BY <1>0
<1>2. list[k].pos \in Nat /\ list[k].pos <= Cursor(list, k) /\ Cursor(list, k) = End(list[k]) /\ Cursor(list, k) \in Nat
  BY <1>1, EditFacts
<1>3. list[k + 1].pos \in Nat
  BY <1>1, EditFacts
<1>4. list[k + 1].pos # list[k].pos /\ list[k + 1].pos >= End(list[k])
  BY DEF Canon, Disjoint
<1> QED BY <1>2, <1>3, <1>4

\* Edit m, and those that touch it from the left, begin and end where lines
\* start.
OnlyStarts(a, list, m) ==
    /\ StartAligned(a, list[m])
    /\ \A i \in 1 .. m - 1 : Touching(list, i, m) => StartAligned(a, list[i])

\* What follows such an edit starts a line of the new text.
LEMMA StartChain ==
    ASSUME NEW a \in Str, NEW list, Canon(list, Len(a)), NEW b, b = ApplyTo(list, a), NEW D, D = Deltas(list),
           NEW m \in 1 .. Len(list), OnlyStarts(a, list, m)
    PROVE  LineStartAt(b, End(list[m]) + D[m])
<1>0. Len(list) \in Nat /\ Len(a) \in Nat /\ \A n \in 0 .. Len(list) : D[n] \in Int
  BY AppliedTypes
<1> DEFINE G(n) == n \in 1 .. Len(list) /\ OnlyStarts(a, list, n) => LineStartAt(b, End(list[n]) + D[n])
<1>1. ASSUME NEW n \in 1 .. Len(list), OnlyStarts(a, list, n), G(n - 1)
      PROVE  LineStartAt(b, End(list[n]) + D[n])
  <2>1. PICK e, x, d, y, v, w : e = list[n] /\ x = e.pos /\ d = D[n - 1] /\ y = e.del /\ v = e.ins /\ w = Len(v)
    OBVIOUS
  <2>2. n - 1 \in 0 .. Len(list) /\ n \in 0 .. Len(list) /\ (n - 1) + 1 = n /\ n - 1 < Len(list)
    BY <1>0
  <2>3. x \in Nat /\ y \in Nat /\ v \in Str /\ Cursor(list, n - 1) \in Nat /\ Cursor(list, n - 1) <= x /\ x <= Len(a)
    <3>1. e.pos \in Nat /\ e.del \in Nat /\ e.ins \in Str /\ Cursor(list, n - 1) \in Nat /\ Cursor(list, n - 1) <= e.pos
          /\ e.pos <= Cursor(list, n) /\ Cursor(list, n) <= Len(a) /\ Cursor(list, n) \in Nat
      BY <2>1, <1>0, EditFacts
    <3> QED BY <3>1, <2>1, <1>0
  <2>4. w \in Nat /\ d \in Int
    BY <2>1, <2>2, <2>3, <1>0 DEF Str
  <2>5. D[n] = d + w - y
    BY <2>1, <1>0, DeltasFacts
  <2>6. End(e) + D[n] = x + d + w
    <3>1. End(e) = x + y
      BY <2>1 DEF End
    <3>2. (x + y) + (d + w - y) = x + d + w
      BY <2>3, <2>4
    <3> QED BY <3>1, <3>2, <2>5
  <2>7. LineStartAt(a, x) /\ (v = <<>> \/ EndsInNewline(v))
    BY <2>1, <1>1 DEF OnlyStarts, StartAligned
  <2>8. CASE v # <<>>
    <3>1. v[w] = NL
      BY <2>1, <2>7, <2>8 DEF EndsInNewline, Last
    <3>2. w \in 1 .. Len(v)
      BY <2>1, <2>3, <2>4, <2>8 DEF Str
    <3>3. w \in 1 .. Len(list[n].ins)
      BY <3>2, <2>1
    <3>4. b[list[n].pos + D[n - 1] + w] = list[n].ins[w]
      BY <3>3, InsertKept
    <3> QED BY <3>1, <3>4, <2>1, <2>6 DEF LineStartAt
  <2>9. CASE v = <<>> /\ (n - 1 = 0 \/ Cursor(list, n - 1) < x)
    <3>0. w = 0
      BY <2>1, <2>9
    <3>1. PICK k : k = n - 1
      OBVIOUS
    <3>2. k \in 0 .. Len(list) /\ (k = 0 \/ Cursor(list, k) < x) /\ (k < Len(list) => x <= list[k + 1].pos)
      BY <3>1, <2>1, <2>2, <2>3, <2>9
    <3>3. LineStartAt(b, x + D[k])
      BY <3>2, <2>3, <2>7, KeptStart
    <3>4. End(e) + D[n] = x + D[k]
      BY <3>0, <3>1, <2>1, <2>3, <2>4, <2>6
    <3> QED BY <3>3, <3>4, <2>1
  <2>10. CASE v = <<>> /\ n - 1 # 0 /\ ~(Cursor(list, n - 1) < x)
    <3>0. w = 0
      BY <2>1, <2>10
    <3>1. PICK k : k = n - 1
      OBVIOUS
    <3>2. k \in 1 .. Len(list) /\ Cursor(list, k) = x /\ k # 0
      BY <3>1, <2>2, <2>3, <2>10, <1>0
    <3>3. End(list[k]) = x
      BY <3>2 DEF Cursor
    <3>4. Touching(list, k, n)
      <4>1. SUFFICES ASSUME NEW h \in k .. n - 1 PROVE End(list[h]) = list[h + 1].pos
        BY DEF Touching
      <4>2. h = k /\ h + 1 = n
        BY <3>1, <3>2, <1>0
      <4> QED BY <4>2, <3>3, <2>1
    <3>5. ASSUME NEW i \in 1 .. k - 1, Touching(list, i, k) PROVE Touching(list, i, n)
      <4>1. SUFFICES ASSUME NEW h \in i .. n - 1 PROVE End(list[h]) = list[h + 1].pos
        BY DEF Touching
      <4>2. CASE h = k
        <5>1. h + 1 = n
          BY <4>2, <3>1, <2>2
        <5> QED BY <5>1, <4>2, <3>3, <2>1
      <4>3. CASE h # k
        <5>1. h \in i .. k - 1
          BY <4>3, <3>1, <3>2, <1>0
        <5> QED BY <5>1, <3>5 DEF Touching
      <4> QED BY <4>2, <4>3
    <3>6. OnlyStarts(a, list, k)
      <4>1. k \in 1 .. n - 1 /\ \A i \in 1 .. k - 1 : i \in 1 .. n - 1
        BY <3>1, <3>2, <1>0
      <4> QED BY <4>1, <3>4, <3>5, <1>1 DEF OnlyStarts
    <3>7. LineStartAt(b, End(list[k]) + D[k])
      BY <3>1, <3>2, <3>6, <1>1
    <3>8. End(e) + D[n] = End(list[k]) + D[k]
      BY <3>0, <3>1, <3>3, <2>1, <2>3, <2>4, <2>6
    <3> QED BY <3>7, <3>8, <2>1
  <2> QED BY <2>8, <2>9, <2>10
<1> DEFINE P == {n \in Nat : G(n)}
<1>2. 0 \in P
  OBVIOUS
<1>3. ASSUME NEW n \in P PROVE n + 1 \in P
  <2>1. n \in Nat /\ G(n)
    OBVIOUS
  <2>2. (n + 1) - 1 = n
    BY <2>1
  <2>3. G((n + 1) - 1)
    BY <2>1, <2>2
  <2>4. ASSUME n + 1 \in 1 .. Len(list), OnlyStarts(a, list, n + 1)
        PROVE  LineStartAt(b, End(list[n + 1]) + D[n + 1])
    <3> HIDE DEF G
    <3>1. PICK h : h = n + 1
      OBVIOUS
    <3>2. h \in 1 .. Len(list) /\ OnlyStarts(a, list, h) /\ G(h - 1)
      BY <3>1, <2>3, <2>4
    <3> QED BY <3>1, <3>2, <1>1
  <2> QED BY <2>1, <2>4
<1>4. P = Nat
  <2>1. P \in SUBSET Nat
    OBVIOUS
  <2> HIDE DEF P
  <2> QED BY <2>1, <1>2, <1>3, Induct
<1>5. m \in P
  BY <1>4
<1> QED BY <1>5

\* Edit m, and those that touch it from the right, begin and end where lines
\* end.
OnlyEnds(a, list, m) ==
    /\ EndAligned(a, list[m])
    /\ \A i \in m + 1 .. Len(list) : Touching(list, m, i) => EndAligned(a, list[i])

\* What precedes such an edit ends a line of the new text.
LEMMA EndChain ==
    ASSUME NEW a \in Str, NEW list, Canon(list, Len(a)), NEW b, b = ApplyTo(list, a), NEW D, D = Deltas(list),
           NEW m \in 1 .. Len(list), OnlyEnds(a, list, m)
    PROVE  AtEnd(b, list[m].pos + D[m - 1])
<1>0. /\ Len(list) \in Nat /\ Len(a) \in Nat /\ Len(b) \in Nat
      /\ \A n \in 0 .. Len(list) : D[n] \in Int
  BY AppliedTypes
<1> DEFINE G(n) == n \in 1 .. Len(list) /\ OnlyEnds(a, list, n) => AtEnd(b, list[n].pos + D[n - 1])
<1>1. ASSUME NEW n \in 1 .. Len(list), OnlyEnds(a, list, n), G(n + 1)
      PROVE  AtEnd(b, list[n].pos + D[n - 1])
  <2>1. PICK e, x, d, y, v, w : e = list[n] /\ x = e.pos /\ d = D[n - 1] /\ y = End(e) /\ v = e.ins /\ w = Len(v)
    OBVIOUS
  <2>2. n - 1 \in 0 .. Len(list) /\ n \in 0 .. Len(list)
    BY <1>0
  <2>3. x \in Nat /\ y \in Nat /\ e.del \in Nat /\ y = x + e.del /\ v \in Str /\ Cursor(list, n) = y /\ y <= Len(a)
    <3>1. e.pos \in Nat /\ e.del \in Nat /\ e.ins \in Str /\ Cursor(list, n) = End(e) /\ Cursor(list, n) = e.pos + e.del
          /\ Cursor(list, n) <= Len(a) /\ Cursor(list, n) \in Nat
      BY <2>1, <1>0, EditFacts
    <3> QED BY <3>1, <2>1
  <2>4. w \in Nat /\ d \in Int
    BY <2>1, <2>2, <2>3, <1>0 DEF Str
  <2>5. D[n] = d + w - e.del
    BY <2>1, <1>0, DeltasFacts
  <2>7. AtEnd(a, y) /\ (v = <<>> \/ StartsWithNewline(v))
    BY <2>1, <1>1 DEF OnlyEnds, EndAligned, IsNewline, AtEnd
  <2>8. CASE v # <<>>
    <3>1. v[1] = NL
      BY <2>1, <2>3, <2>7, <2>8 DEF StartsWithNewline, Str
    <3>2. 1 \in 1 .. Len(v)
      BY <2>1, <2>3, <2>4, <2>8 DEF Str
    <3>3. 1 \in 1 .. Len(list[n].ins)
      BY <3>2, <2>1
    <3>4. PICK z : z = list[n].pos + D[n - 1] + 1
      OBVIOUS
    <3>5. z \in 1 .. Len(b) /\ b[z] = list[n].ins[1]
      BY <3>3, <3>4, InsertKept
    <3>6. z = x + d + 1 /\ b[z] = NL
      BY <3>1, <3>4, <3>5, <2>1
    <3>7. x + d < Len(b)
      BY <3>5, <3>6, <2>3, <2>4, <1>0
    <3> QED BY <3>6, <3>7, <2>1 DEF AtEnd
  <2>9. CASE v = <<>> /\ (n < Len(list) => y < list[n + 1].pos)
    <3>0. w = 0
      BY <2>1, <2>9
    <3>1. Cursor(list, n) <= y
      BY <2>3
    <3>2. AtEnd(b, y + D[n])
      BY <3>1, <2>2, <2>3, <2>7, <2>9, KeptEnd
    <3>3. y + D[n] = x + d
      BY <3>0, <2>3, <2>4, <2>5
    <3> QED BY <3>2, <3>3, <2>1
  <2>10. CASE v = <<>> /\ n < Len(list) /\ ~(y < list[n + 1].pos)
    <3>0. w = 0
      BY <2>1, <2>10
    <3>1. PICK k : k = n + 1
      OBVIOUS
    <3>2. k \in 1 .. Len(list) /\ k - 1 = n /\ n \in 1 .. Len(list) - 1
      BY <3>1, <2>10, <1>0
    <3>3. list[k].pos = y
      <4>1. list[n + 1].pos \in Nat /\ End(list[n]) <= list[n + 1].pos
        BY <3>2, <1>0, StrictlyAfter
      <4> QED BY <4>1, <3>1, <2>1, <2>3, <2>10
    <3>4. Touching(list, n, k)
      <4>1. SUFFICES ASSUME NEW h \in n .. k - 1 PROVE End(list[h]) = list[h + 1].pos
        BY DEF Touching
      <4>2. h = n /\ h + 1 = k
        BY <3>1, <3>2, <1>0
      <4> QED BY <4>2, <3>3, <2>1
    <3>5. ASSUME NEW i \in k + 1 .. Len(list), Touching(list, k, i) PROVE Touching(list, n, i)
      <4>1. SUFFICES ASSUME NEW h \in n .. i - 1 PROVE End(list[h]) = list[h + 1].pos
        BY DEF Touching
      <4>2. CASE h = n
        <5>1. h + 1 = k
          BY <4>2, <3>1
        <5> QED BY <5>1, <4>2, <3>3, <2>1
      <4>3. CASE h # n
        <5>1. h \in k .. i - 1
          BY <4>3, <3>1, <3>2, <1>0
        <5> QED BY <5>1, <3>5 DEF Touching
      <4> QED BY <4>2, <4>3
    <3>6. OnlyEnds(a, list, k)
      <4>1. k \in n + 1 .. Len(list) /\ \A i \in k + 1 .. Len(list) : i \in n + 1 .. Len(list)
        BY <3>1, <3>2, <1>0
      <4> QED BY <4>1, <3>4, <3>5, <1>1 DEF OnlyEnds
    <3>7. AtEnd(b, list[k].pos + D[k - 1])
      BY <3>1, <3>2, <3>6, <1>1
    <3>8. y + D[n] = x + d
      BY <3>0, <2>3, <2>4, <2>5
    <3> QED BY <3>2, <3>3, <3>7, <3>8, <2>1
  <2> QED BY <2>8, <2>9, <2>10
<1> DEFINE P == {n \in Nat : G(Len(list) + 1 - n)}
<1>2. 0 \in P
  <2>1. Len(list) + 1 - 0 \notin 1 .. Len(list)
    BY <1>0
  <2> QED BY <2>1
<1>3. ASSUME NEW n \in P PROVE n + 1 \in P
  <2>1. n \in Nat /\ G(Len(list) + 1 - n)
    OBVIOUS
  <2>2. PICK h : h = Len(list) + 1 - (n + 1)
    OBVIOUS
  <2>3. h + 1 = Len(list) + 1 - n
    BY <2>1, <2>2, <1>0
  <2>4. G(h + 1)
    BY <2>1, <2>3
  <2>5. G(h)
    <3>1. SUFFICES ASSUME h \in 1 .. Len(list), OnlyEnds(a, list, h) PROVE AtEnd(b, list[h].pos + D[h - 1])
      OBVIOUS
    <3> HIDE DEF G
    <3> QED BY <3>1, <2>4, <1>1
  <2> QED BY <2>1, <2>2, <2>5
<1>4. P = Nat
  <2>1. P \in SUBSET Nat
    OBVIOUS
  <2> HIDE DEF P
  <2> QED BY <2>1, <1>2, <1>3, Induct
<1>5. PICK n : n = Len(list) + 1 - m
  OBVIOUS
<1>6. n \in Nat /\ Len(list) + 1 - n = m
  BY <1>0, <1>5
<1>7. n \in P
  BY <1>4, <1>6
<1>8. G(m)
  BY <1>6, <1>7
<1> QED BY <1>8
----------------------------------------------------------------------------
(* A line that no edit takes.                                              *)

\* A change in whole lines that joins none.
WholeChange(a, list) ==
    NoneJoins(a, list) /\ \A n \in 1 .. Len(list) : WholeLines(a, list[n])

\* The line at p lies between edit k and the next one.
Untouched(list, p, k) ==
    k \in 0 .. Len(list) /\ Cursor(list, k) <= p /\ (k < Len(list) => list[k + 1].pos > p)

\* An edit that does nothing.
Idle(e) == e.del = 0 /\ e.ins = <<>>

\* The next edit decides, unless the last one is at the line and does nothing.
LEMMA UntouchedDecides ==
    ASSUME NEW a \in Str, NEW list, Canon(list, Len(a)), WholeChange(a, list),
           NEW p, NEW le, IsLine(a, p, le), NEW k, Untouched(list, p, k),
           NEW n, n = Deciding(a, list, p)
    PROVE  n = k + 1 \/ (n = k /\ k \in 1 .. Len(list) /\ list[k].pos = p /\ Idle(list[k]))
<1>0. PICK N \in Nat, len \in Nat : N = Len(list) /\ len = Len(a)
  BY DEF Canon, Str
<1>1. p \in Nat /\ k \in 0 .. N /\ Cursor(list, k) <= p /\ (k < N => list[k + 1].pos > p)
  BY <1>0 DEF IsLine, Untouched
<1>2. PICK i : i = Cardinality({j \in 1 .. Len(list) : End(list[j]) < p})
  OBVIOUS
<1>3. Ended(list, p, i)
  <2>1. p \in Int
    BY <1>1
  <2> QED BY <2>1, <1>0, <1>2, EndedFacts
<1>4. i \in 0 .. N /\ \A j \in 1 .. N : End(list[j]) < p <=> j <= i
  BY <1>0, <1>3 DEF Ended
<1>5. PICK S : S = {N + 1} \cup {j \in i + 1 .. N : list[j].pos > p \/ ~IsAbove(a, list[j], p)}
  OBVIOUS
<1>6. n = Min(S)
  BY <1>0, <1>2, <1>5 DEF Deciding
<1>7. S \in SUBSET Nat /\ S # {}
  BY <1>0, <1>4, <1>5
<1>8. n \in S /\ \A y \in S : n <= y
  BY <1>6, <1>7, MinFacts
<1>9. n \in Nat
  BY <1>7, <1>8
<1>10. k + 1 \in S
  <2>1. CASE k = N
    BY <2>1, <1>5
  <2>2. CASE k # N
    <3>1. k < N /\ k + 1 \in 1 .. N
      BY <2>2, <1>0, <1>1
    <3>2. PICK j, h : j = list[k + 1].pos /\ h = End(list[k + 1])
      OBVIOUS
    <3>3. j \in Nat /\ h \in Nat /\ j <= h
      BY <3>1, <3>2, <1>0, EditFacts
    <3>4. ~(h < p)
      BY <3>1, <3>2, <3>3, <1>1
    <3>5. k + 1 \in i + 1 .. N
      BY <3>1, <3>2, <3>4, <1>0, <1>1, <1>4
    <3> QED BY <3>1, <3>5, <1>1, <1>5
  <2> QED BY <2>1, <2>2
<1>11. n <= k + 1
  BY <1>8, <1>10
<1>12. CASE n = k + 1
  BY <1>12
<1>13. CASE n # k + 1
  <2>1. n <= k /\ n <= N /\ n # N + 1
    BY <1>0, <1>1, <1>9, <1>11, <1>13
  <2>2. n \in i + 1 .. N /\ (list[n].pos > p \/ ~IsAbove(a, list[n], p))
    BY <2>1, <1>5, <1>8
  <2>3. n \in 1 .. N /\ ~(n <= i) /\ k \in n .. N
    BY <2>1, <2>2, <1>0, <1>1, <1>4, <1>9
  <2>4. PICK e, x, y : e = list[n] /\ x = e.pos /\ y = End(e)
    OBVIOUS
  <2>5. x \in Nat /\ y \in Nat /\ e.del \in Nat /\ y = x + e.del /\ Cursor(list, n) = y /\ e \in Edit
    <3>1. e \in Edit /\ e.pos \in Nat /\ e.del \in Nat /\ Cursor(list, n) = End(e) /\ Cursor(list, n) = e.pos + e.del
          /\ Cursor(list, n) \in Nat
      BY <2>3, <2>4, <1>0, EditFacts
    <3> QED BY <3>1, <2>4
  <2>6. y = p
    <3>1. ~(y < p)
      BY <2>3, <2>4, <1>4
    <3>2. Cursor(list, n) <= Cursor(list, k)
      <4>1. n \in 0 .. Len(list) /\ k \in n .. Len(list)
        BY <2>3, <1>0
      <4> QED BY <4>1, <1>0, CursorGrows
    <3>3. Cursor(list, k) \in Nat
      BY <1>0, <1>1, CursorFacts
    <3> QED BY <3>1, <3>2, <3>3, <2>5, <1>1
  <2>7. StartAligned(a, e) /\ ~EndAligned(a, e)
    <3>1. WholeLines(a, e)
      BY <2>3, <2>4, <1>0 DEF WholeChange
    <3>2. Beside(a, e, p, le)
      BY <3>1, <2>5, WholeBeside
    <3> QED BY <3>2, <2>4, <2>6 DEF Beside
  <2>8. ~IsAbove(a, e, p)
    BY <2>2, <2>4, <2>5, <2>6, <1>1
  <2>9. ~(x < p)
    BY <2>4, <2>6, <2>7, <2>8 DEF IsAbove
  <2>10. x = p /\ e.del = 0
    BY <2>5, <2>6, <2>9, <1>1
  <2>11. e.ins = <<>>
    BY <2>4, <2>7, <2>8, <2>10 DEF IsAbove, StartAligned
  <2>12. n = k
    <3>1. SUFFICES ASSUME n # k PROVE FALSE
      OBVIOUS
    <3>2. n \in 1 .. Len(list) - 1 /\ n + 1 \in 1 .. N /\ k \in n + 1 .. N /\ n + 1 \in 0 .. Len(list)
      BY <3>1, <2>3, <1>0
    <3>3. list[n].pos < list[n + 1].pos
      BY <3>2, <1>0, StrictlyAfter
    <3>4. PICK h, u : h = list[n + 1].pos /\ u = Cursor(list, n + 1)
      OBVIOUS
    <3>5. h \in Nat /\ u \in Nat /\ h <= u
      BY <3>2, <3>4, <1>0, EditFacts
    <3>6. u <= Cursor(list, k)
      BY <3>2, <3>4, <1>0, CursorGrows
    <3>7. Cursor(list, k) \in Nat
      BY <1>0, <1>1, CursorFacts
    <3> QED BY <3>3, <3>4, <3>5, <3>6, <3>7, <2>4, <2>10, <1>1
  <2>13. k \in 1 .. Len(list)
    BY <2>3, <2>12, <1>0
  <2> QED BY <2>4, <2>10, <2>11, <2>12, <2>13 DEF Idle
<1> QED BY <1>12, <1>13

\* Such a line is one of the new text, shifted.
LEMMA UntouchedStays ==
    ASSUME NEW a \in Str, NEW list, Canon(list, Len(a)), WholeChange(a, list),
           NEW b, b = ApplyTo(list, a), NEW D, D = Deltas(list),
           NEW p, NEW le, IsLine(a, p, le), NEW k, Untouched(list, p, k)
    PROVE  IsLine(b, p + D[k], le + D[k]) /\ LineText(b, p + D[k]) = LineText(a, p)
<1>0. PICK N \in Nat, len \in Nat : N = Len(list) /\ len = Len(a)
  BY DEF Canon, Str
<1>1. p \in Nat /\ le \in Nat /\ p < le /\ le <= len /\ LineStartAt(a, p) /\ AtEnd(a, le)
  BY <1>0 DEF IsLine
<1>2. k \in 0 .. N /\ Cursor(list, k) <= p /\ (k < N => list[k + 1].pos > p)
  BY <1>0 DEF Untouched
<1>3. PICK d, c : d = D[k] /\ c = Cursor(list, k)
  OBVIOUS
<1>4. d \in Int /\ c \in Nat /\ c <= p /\ c + d >= 0 /\ (k = 0 => c = 0)
  <2>1. d \in Int /\ c + d >= 0
    BY <1>0, <1>2, <1>3, DeltasFacts
  <2>2. c \in Nat
    BY <1>0, <1>2, <1>3, CursorFacts
  <2> QED BY <2>1, <2>2, <1>2, <1>3 DEF Cursor
<1>5. k < N => k + 1 \in 1 .. N /\ list[k + 1].pos \in Nat /\ list[k + 1].pos >= le /\ Beside(a, list[k + 1], p, le)
  <2>1. SUFFICES ASSUME k < N
                 PROVE  k + 1 \in 1 .. N /\ list[k + 1].pos \in Nat /\ list[k + 1].pos >= le /\ Beside(a, list[k + 1], p, le)
    OBVIOUS
  <2>2. k + 1 \in 1 .. N
    BY <2>1, <1>0, <1>2
  <2>3. list[k + 1].pos \in Nat /\ list[k + 1] \in Edit
    BY <2>2, <1>0, EditFacts
  <2>4. WholeLines(a, list[k + 1])
    BY <2>2, <1>0 DEF WholeChange
  <2>5. Beside(a, list[k + 1], p, le)
    BY <2>3, <2>4, WholeBeside
  <2>6. list[k + 1].pos >= le
    BY <2>1, <2>3, <2>5, <1>1, <1>2 DEF Beside
  <2> QED BY <2>2, <2>3, <2>5, <2>6
<1>6. b \in Str /\ Len(b) \in Nat /\ Len(b) = len + D[N] /\ D[N] \in Int
  <2>1. b \in Str /\ Len(b) \in Nat /\ Len(b) = len + D[N]
    BY <1>0, AppliedTypes
  <2>2. N \in 0 .. N
    BY <1>0
  <2> QED BY <2>1, <2>2, <1>0, AppliedTypes
<1>7. PICK s, t : s = p + d /\ t = le + d
  OBVIOUS
<1>8. s \in Nat /\ t \in Nat /\ t = s + (le - p)
  BY <1>1, <1>4, <1>7
<1>9. t <= Len(b)
  <2>1. Cut(list, le, k)
    <3>1. c <= le
      BY <1>1, <1>4
    <3>2. k < N => le <= list[k + 1].pos
      BY <1>1, <1>5
    <3> QED BY <3>1, <3>2, <1>0, <1>3 DEF Cut
  <2>2. le \in 0 .. len
    BY <1>0, <1>1
  <2>3. le + D[k] \in 0 .. len + D[N]
    BY <2>1, <2>2, <1>0, <1>2, CutStays
  <2> QED BY <2>3, <1>0, <1>3, <1>6, <1>7
<1>10. ASSUME NEW i \in p .. le - 1 PROVE b[(i - p) + s + 1] = a[i + 1]
  <2>1. i \in Nat /\ c <= i /\ i < len /\ i < le /\ i + d + 1 = (i - p) + s + 1
    BY <1>0, <1>1, <1>4, <1>7
  <2>2. k < N => i < list[k + 1].pos
    BY <2>1, <1>1, <1>5
  <2>3. b[i + D[k] + 1] = a[i + 1]
    BY <2>1, <2>2, <1>0, <1>2, <1>3, BetweenKept
  <2> QED BY <2>1, <2>3, <1>3
<1>11. LineStartAt(b, s)
  <2>1. CASE k = 0 \/ c < p
    <3>1. k < Len(list) => p <= list[k + 1].pos
      BY <1>0, <1>1, <1>5
    <3>2. p <= Len(a) /\ k \in 0 .. Len(list) /\ (k = 0 \/ Cursor(list, k) < p)
      BY <2>1, <1>0, <1>1, <1>2, <1>3
    <3>3. LineStartAt(b, p + D[k])
      BY <3>1, <3>2, <1>1, KeptStart
    <3> QED BY <3>3, <1>3, <1>7
  <2>2. CASE ~(k = 0 \/ c < p)
    <3>1. k \in 1 .. N /\ c = p
      BY <2>2, <1>0, <1>1, <1>2, <1>4
    <3>2. End(list[k]) = p /\ list[k] \in Edit
      BY <3>1, <1>0, <1>3, EditFacts
    <3>3. WholeLines(a, list[k])
      BY <3>1, <1>0 DEF WholeChange
    <3>4. StartAligned(a, list[k]) /\ ~EndAligned(a, list[k])
      BY <3>2, <3>3, WholeBeside DEF Beside
    <3>5. ASSUME NEW i \in 1 .. k - 1, Touching(list, i, k) PROVE StartAligned(a, list[i])
      <4>1. i \in 1 .. Len(list) /\ k \in 1 .. Len(list) /\ i < k
        BY <3>1, <1>0
      <4> QED BY <4>1, <3>4, <3>5 DEF WholeChange, NoneJoins
    <3>6. OnlyStarts(a, list, k)
      BY <3>4, <3>5 DEF OnlyStarts
    <3>7. LineStartAt(b, End(list[k]) + D[k])
      BY <3>1, <3>6, <1>0, StartChain
    <3> QED BY <3>2, <3>7, <1>3, <1>7
  <2> QED BY <2>1, <2>2
<1>12. AtEnd(b, t)
  <2>1. CASE k < N => le < list[k + 1].pos
    <3>1. Cursor(list, k) <= le /\ k \in 0 .. Len(list) /\ (k < Len(list) => le < list[k + 1].pos)
      BY <2>1, <1>0, <1>1, <1>2, <1>3, <1>4
    <3>2. AtEnd(b, le + D[k])
      BY <3>1, <1>1, KeptEnd
    <3> QED BY <3>2, <1>3, <1>7
  <2>2. CASE ~(k < N => le < list[k + 1].pos)
    <3>1. k < N /\ ~(le < list[k + 1].pos)
      BY <2>2
    <3>2. PICK h : h = k + 1
      OBVIOUS
    <3>3. h \in 1 .. Len(list) /\ h - 1 = k /\ list[h].pos = le /\ Beside(a, list[h], p, le)
      BY <3>1, <3>2, <1>0, <1>1, <1>2, <1>5
    <3>4. EndAligned(a, list[h]) /\ ~StartAligned(a, list[h])
      BY <3>3 DEF Beside
    <3>5. ASSUME NEW i \in h + 1 .. Len(list), Touching(list, h, i) PROVE EndAligned(a, list[i])
      <4>1. i \in 1 .. Len(list) /\ h < i
        BY <3>3, <1>0
      <4> QED BY <4>1, <3>3, <3>4, <3>5 DEF WholeChange, NoneJoins
    <3>6. OnlyEnds(a, list, h)
      BY <3>4, <3>5 DEF OnlyEnds
    <3>7. AtEnd(b, list[h].pos + D[h - 1])
      BY <3>3, <3>6, EndChain
    <3> QED BY <3>3, <3>7, <1>3, <1>7
  <2> QED BY <2>1, <2>2
<1>13. IsLine(b, s, t) /\ LineText(b, s) = LineText(a, p)
  BY <1>6, <1>8, <1>9, <1>10, <1>11, <1>12, SameLine
<1> QED BY <1>3, <1>7, <1>13

\* And what is on it goes with it.
LEMMA UntouchedMaps ==
    ASSUME NEW a \in Str, NEW list, Canon(list, Len(a)), WholeChange(a, list),
           NEW b, b = ApplyTo(list, a), NEW D, D = Deltas(list),
           NEW p, NEW le, IsLine(a, p, le), NEW k, Untouched(list, p, k),
           NEW o \in p .. le, NEW g
    PROVE  MapOffset(a, b, list, o, g) = p + D[k] + (o - p)
<1>0. PICK N \in Nat, len \in Nat : N = Len(list) /\ len = Len(a)
  BY DEF Canon, Str
<1>1. p \in Nat /\ le \in Nat /\ p < le /\ le <= len /\ o \in Nat /\ o <= len /\ o - p \in Nat
  BY <1>0 DEF IsLine
<1>2. k \in 0 .. N /\ (k < N => list[k + 1].pos > p)
  BY <1>0 DEF Untouched
<1>3. PICK d, n, s, t, c : d = D[k] /\ n = Deciding(a, list, p) /\ s = p + d /\ t = le + d /\ c = o - p
  OBVIOUS
<1>4. d \in Int /\ b \in Str
  BY <1>0, <1>2, <1>3, AppliedTypes
<1>5. IsLine(b, s, t)
  BY <1>3, UntouchedStays
<1>6. c \in Nat /\ s + c <= t
  BY <1>1, <1>3, <1>4
<1>7. AtCol(b, s, c) = s + c /\ Snapped(b, AtCol(b, s, c)) = s + c
  BY <1>4, <1>5, <1>6, ColumnOfLine
<1>8. MapFrom(a, b, list, n, o, p, g) = AtCol(b, s, c)
  <2>1. CASE n = k + 1
    <3>1. n > Len(list) \/ list[n].pos > p
      BY <2>1, <1>0, <1>2
    <3>2. n - 1 = k
      BY <2>1, <1>0, <1>2
    <3>3. Deltas(list)[n - 1] = d
      BY <3>2, <1>3
    <3> QED BY <3>1, <3>3, <1>3 DEF MapFrom
  <2>2. CASE n # k + 1
    <3>1. n = k /\ k \in 1 .. N /\ list[k].pos = p /\ Idle(list[k])
      BY <2>2, <1>0, <1>3, UntouchedDecides
    <3>2. list[k].del = 0 /\ Len(list[k].ins) = 0
      BY <3>1 DEF Idle
    <3>3. D[k] = D[k - 1] + Len(list[k].ins) - list[k].del /\ D[k - 1] \in Int
      <4>1. k - 1 \in 0 .. N
        BY <3>1, <1>0
      <4> QED BY <3>1, <4>1, <1>0, DeltasFacts
    <3>4. Deltas(list)[n - 1] = d
      BY <3>1, <3>2, <3>3, <1>3
    <3>5. ~(n > Len(list) \/ list[n].pos > p)
      BY <3>1, <1>0, <1>1
    <3>6. ~(p < End(list[k]))
      BY <3>1, <3>2, <1>1 DEF End
    <3>7. MapBy(a, b, list, list[n], d, o, p, LineEnd(a, o), g) = AtCol(b, s, c)
      BY <3>1, <3>6, <1>3 DEF MapBy
    <3> QED BY <3>4, <3>5, <3>7 DEF MapFrom
  <2> QED BY <2>1, <2>2
<1>9. MinOf(o, Len(a)) = o
  BY <1>0, <1>1, MinOfFacts
<1>10. LineStart(a, o) = p
  BY LineFrom
<1>11. MapOffset(a, b, list, o, g) = Snapped(b, MapFrom(a, b, list, n, o, p, g))
  BY <1>3, <1>9, <1>10 DEF MapOffset
<1> QED BY <1>3, <1>7, <1>8, <1>11
----------------------------------------------------------------------------
(* Changes that only insert, or only delete, whole lines.                  *)

\* A line is between two edits, or one of them takes it.
LEMMA UntouchedOrTaken ==
    ASSUME NEW len \in Nat, NEW list, Canon(list, len), NEW p \in Nat
    PROVE  \/ \E k \in 0 .. Len(list) : Untouched(list, p, k)
           \/ \E n \in 1 .. Len(list) : list[n].pos <= p /\ p < End(list[n])
<1>0. PICK N \in Nat : N = Len(list)
  BY DEF Canon
<1>1. PICK x, k : x = p + 1 /\ k = Cardinality({j \in 1 .. Len(list) : End(list[j]) < x})
  OBVIOUS
<1>2. Ended(list, x, k)
  <2>1. x \in Int
    BY <1>1
  <2> QED BY <2>1, <1>1, EndedFacts
<1>3. k \in 0 .. N /\ \A j \in 1 .. N : End(list[j]) < x <=> j <= k
  BY <1>0, <1>2 DEF Ended
<1>4. Cursor(list, k) <= p
  <2>1. CASE k = 0
    BY <2>1 DEF Cursor
  <2>2. CASE k # 0
    <3>1. k \in 1 .. N /\ k <= k
      BY <2>2, <1>0, <1>3
    <3>2. End(list[k]) < x /\ Cursor(list, k) = End(list[k]) /\ Cursor(list, k) \in Nat
      BY <3>1, <1>0, <1>3, EditFacts
    <3> QED BY <3>2, <1>1
  <2> QED BY <2>1, <2>2
<1>5. CASE k < N => list[k + 1].pos > p
  BY <1>0, <1>3, <1>4, <1>5 DEF Untouched
<1>6. CASE ~(k < N => list[k + 1].pos > p)
  <2>1. PICK n : n = k + 1
    OBVIOUS
  <2>2. n \in 1 .. N /\ ~(n <= k) /\ ~(list[n].pos > p)
    BY <2>1, <1>0, <1>3, <1>6
  <2>3. ~(End(list[n]) < x)
    BY <2>2, <1>3
  <2>4. PICK j, h : j = list[n].pos /\ h = End(list[n])
    OBVIOUS
  <2>5. j \in Nat /\ h \in Nat
    BY <2>2, <2>4, <1>0, EditFacts
  <2>6. j <= p /\ p < h
    BY <2>2, <2>3, <2>4, <2>5, <1>1
  <2> QED BY <2>2, <2>4, <2>6, <1>0
<1> QED BY <1>5, <1>6

\* q is the line of the new text that line p is to be found at.
SameText(a, b, p, q) ==
    /\ p \in LinesOf(a) /\ q \in LinesOf(b)
    /\ LineText(a, p) = LineText(b, q) /\ Unique(a, p) /\ Unique(b, q)

\* A line that no edit takes is where it is to be found.
LEMMA UntouchedIsFound ==
    ASSUME NEW a \in Str, NEW list, Canon(list, Len(a)), WholeChange(a, list), NEW b, b = ApplyTo(list, a),
           NEW p, NEW q, SameText(a, b, p, q), NEW k, Untouched(list, p, k),
           NEW o \in p .. LineEnd(a, p), NEW g
    PROVE  MapOffset(a, b, list, o, g) = q + (o - p)
<1>1. PICK D, le : D = Deltas(list) /\ le = LineEnd(a, p)
  OBVIOUS
<1>2. IsLine(a, p, le)
  BY <1>1, LinesAre DEF SameText
<1>3. b \in Str
  BY <1>1, AppliedTypes
<1>4. IsLine(b, p + D[k], le + D[k]) /\ LineText(b, p + D[k]) = LineText(a, p)
  BY <1>1, <1>2, UntouchedStays
<1>5. p + D[k] \in LinesOf(b)
  BY <1>3, <1>4, LineFacts
<1>6. q = p + D[k]
  BY <1>4, <1>5 DEF SameText, Unique
<1>7. MapOffset(a, b, list, o, g) = p + D[k] + (o - p)
  BY <1>1, <1>2, UntouchedMaps
<1> QED BY <1>6, <1>7

LEMMA InsertsKeep ==
    ASSUME NEW a \in Str, NEW list, Canon(list, Len(a)), NoneJoins(a, list), InsertsLines(a, list),
           NEW b, b = ApplyTo(list, a), NEW p, NEW q, SameText(a, b, p, q),
           NEW o \in p .. LineEnd(a, p), NEW g
    PROVE  MapOffset(a, b, list, o, g) = q + (o - p)
<1>0. Len(a) \in Nat /\ p \in Nat
  BY DEF Str, SameText, LinesOf
<1>1. WholeChange(a, list)
  BY DEF WholeChange, InsertsLines
<1>2. ASSUME NEW n \in 1 .. Len(list), list[n].pos <= p, p < End(list[n]) PROVE FALSE
  <2>1. list[n].del = 0
    BY DEF InsertsLines
  <2>2. list[n].pos \in Nat
    BY <1>0, EditFacts
  <2> QED BY <2>1, <2>2, <1>0, <1>2 DEF End
<1>3. PICK k \in 0 .. Len(list) : Untouched(list, p, k)
  BY <1>0, <1>2, UntouchedOrTaken
<1> QED BY <1>1, <1>3, UntouchedIsFound

\* Every line left by deletions of whole lines was one before, between them.
LEMMA DeletesLeave ==
    ASSUME NEW a \in Str, NEW list, Canon(list, Len(a)), NoneJoins(a, list), DeletesLines(a, list),
           NEW b, b = ApplyTo(list, a), NEW D, D = Deltas(list), NEW q \in LinesOf(b)
    PROVE  \E k \in 0 .. Len(list) : \E x \in LinesOf(a) : q = x + D[k] /\ Untouched(list, x, k)
<1>0. PICK N \in Nat, len \in Nat : N = Len(list) /\ len = Len(a)
  BY DEF Canon, Str
<1>1. /\ b \in Str /\ Len(b) \in Nat /\ Len(b) = len + D[N] /\ D[N] \in Int
  <2>1. N \in 0 .. N
    BY <1>0
  <2> QED BY <2>1, <1>0, AppliedTypes
<1>2. PICK t : t = LineEnd(b, q)
  OBVIOUS
<1>3. IsLine(b, q, t)
  BY <1>1, <1>2, LinesAre
<1>4. q \in Nat /\ q < Len(b) /\ LineStartAt(b, q) /\ b[q + 1] # NL
  <2>1. q \in Nat /\ t \in Nat /\ q < t /\ t <= Len(b) /\ LineStartAt(b, q)
    BY <1>3 DEF IsLine
  <2>2. q \in q .. t - 1
    BY <2>1
  <2>3. b[q + 1] # NL
    BY <2>2, <1>3 DEF IsLine
  <2> QED BY <2>1, <2>3, <1>1
<1>5. PICK T : T = {n \in 0 .. N : Cursor(list, n) + D[n] <= q}
  OBVIOUS
<1>6. T \subseteq 0 .. N /\ 0 \in T
  <2>1. Cursor(list, 0) = 0 /\ D[0] = 0
    BY <1>0, DeltasFacts DEF Cursor
  <2> QED BY <2>1, <1>0, <1>4, <1>5
<1>7. PICK k : k = Max(T)
  OBVIOUS
<1>8. k \in T /\ \A y \in T : y <= k
  BY <1>0, <1>6, <1>7, MaxFacts
<1>9. PICK d, c, x : d = D[k] /\ c = Cursor(list, k) /\ x = q - d
  OBVIOUS
<1>10. k \in 0 .. N /\ c + d <= q
  BY <1>5, <1>8, <1>9
<1>11. d \in Int /\ c \in Nat /\ c + d >= 0 /\ (k = 0 => c = 0 /\ d = 0)
  BY <1>0, <1>9, <1>10, DeltasFacts, CursorFacts DEF Cursor
<1>12. x \in Nat /\ c <= x /\ q = x + d
  <2>1. PICK r : r = q
    OBVIOUS
  <2>2. r \in Nat /\ d \in Int /\ c \in Nat /\ c + d <= r /\ x = r - d
    BY <2>1, <1>4, <1>9, <1>10, <1>11
  <2>3. x \in Int /\ r = x + d
    BY <2>2
  <2>4. c <= x
    BY <2>2, <2>3
  <2> QED BY <2>1, <2>2, <2>3, <2>4
<1>13. k < N => k + 1 \in 1 .. N /\ list[k + 1].pos \in Nat /\ x < list[k + 1].pos /\ list[k + 1].pos <= len
  <2>1. SUFFICES ASSUME k < N PROVE k + 1 \in 1 .. N /\ list[k + 1].pos \in Nat /\ x < list[k + 1].pos /\ list[k + 1].pos <= len
    OBVIOUS
  <2>2. PICK h : h = k + 1
    OBVIOUS
  <2>3. h \in 1 .. N /\ h \in 0 .. N /\ h - 1 = k /\ ~(h <= k)
    BY <2>1, <2>2, <1>0, <1>10
  <2>4. PICK j, m, u : j = list[h].pos /\ m = list[h].del /\ u = Cursor(list, h)
    OBVIOUS
  <2>5. j \in Nat /\ m \in Nat /\ u = j + m /\ u <= len
    BY <2>3, <2>4, <1>0, EditFacts
  <2>6. Len(list[h].ins) = 0
    <3>1. list[h].ins = <<>>
      BY <2>3, <1>0 DEF DeletesLines
    <3> QED BY <3>1
  <2>7. D[h] = D[h - 1] + Len(list[h].ins) - list[h].del
    BY <2>3, <1>0, DeltasFacts
  <2>8. D[h] = d - m
    BY SMTT(30), <2>3, <2>4, <2>5, <2>6, <2>7, <1>9, <1>11
  <2>9. ~(u + D[h] <= q)
    BY <2>3, <2>4, <1>5, <1>8
  <2>10. x < j /\ j <= len
    BY <2>5, <2>8, <2>9, <1>0, <1>4, <1>11, <1>12
  <2> QED BY <2>2, <2>3, <2>4, <2>5, <2>10
<1>14. x < len
  <2>1. CASE k < N
    BY <2>1, <1>0, <1>12, <1>13
  <2>2. CASE ~(k < N)
    <3>1. k = N
      BY <2>2, <1>0, <1>10
    <3> QED BY <3>1, <1>0, <1>1, <1>4, <1>9, <1>12
  <2> QED BY <2>1, <2>2
<1>15. a[x + 1] # NL
  <2>1. b[x + D[k] + 1] = a[x + 1]
    BY <1>0, <1>9, <1>10, <1>12, <1>13, <1>14, BetweenKept
  <2> QED BY <2>1, <1>4, <1>9, <1>12
<1>16. LineStartAt(a, x)
  <2>1. CASE c < x
    <3>1. PICK y : y = x - 1
      OBVIOUS
    <3>2. y \in Nat /\ c <= y /\ y < x /\ y < len /\ y + 1 = x
      BY <3>1, <2>1, <1>0, <1>11, <1>12, <1>14
    <3>3. k < N => y < list[k + 1].pos
      BY <3>2, <1>12, <1>13
    <3>4. b[y + D[k] + 1] = a[y + 1]
      BY <3>2, <3>3, <1>0, <1>9, <1>10, BetweenKept
    <3>7. y + d + 1 = q /\ q # 0
      BY <3>2, <2>1, <1>11, <1>12
    <3>5. y + D[k] + 1 = q /\ q # 0
      BY <3>7, <1>9
    <3>6. b[q] = NL
      BY <3>5, <1>4 DEF LineStartAt
    <3> QED BY <3>2, <3>4, <3>5, <3>6 DEF LineStartAt
  <2>2. CASE ~(c < x) /\ k = 0
    <3>1. x = 0
      BY <2>2, <1>11, <1>12
    <3> QED BY <3>1 DEF LineStartAt
  <2>3. CASE ~(c < x) /\ k # 0
    <3>1. k \in 1 .. N /\ c = x
      BY <2>3, <1>0, <1>10, <1>11, <1>12
    <3>2. End(list[k]) = x
      BY <3>1, <1>0, <1>9, EditFacts
    <3>3. WholeLines(a, list[k])
      BY <3>1, <1>0 DEF DeletesLines
    <3>4. ~EndAligned(a, list[k])
      BY <3>2, <1>0, <1>14, <1>15 DEF EndAligned, IsNewline
    <3> QED BY <3>2, <3>3, <3>4 DEF WholeLines, StartAligned
  <2> QED BY <2>1, <2>2, <2>3
<1>17. x \in LinesOf(a)
  <2>1. PICK y : y = x + 1
    OBVIOUS
  <2>2. y \in Nat /\ x <= y /\ y <= Len(a) /\ x < y
    BY <2>1, <1>0, <1>12, <1>14
  <2>3. ASSUME NEW i \in x .. y - 1 PROVE a[i + 1] # NL
    <3>1. i = x
      BY <2>1, <1>12
    <3> QED BY <3>1, <1>15
  <2>4. LineEnd(a, x) \in Nat /\ y <= LineEnd(a, x)
    BY <2>2, <2>3, <1>12, LineReaches
  <2>5. LineEnd(a, x) > x /\ x \in 0 .. Len(a)
    BY <2>2, <2>4, <1>0, <1>12, <1>14
  <2> QED BY <2>5, <1>16 DEF LinesOf
<1>18. Untouched(list, x, k)
  BY <1>0, <1>9, <1>10, <1>12, <1>13 DEF Untouched
<1> QED BY <1>0, <1>9, <1>10, <1>12, <1>17, <1>18

LEMMA DeletesKeep ==
    ASSUME NEW a \in Str, NEW list, Canon(list, Len(a)), NoneJoins(a, list), DeletesLines(a, list),
           NEW b, b = ApplyTo(list, a), NEW p, NEW q, SameText(a, b, p, q),
           NEW o \in p .. LineEnd(a, p), NEW g
    PROVE  MapOffset(a, b, list, o, g) = q + (o - p)
<1>1. WholeChange(a, list)
  BY DEF WholeChange, DeletesLines
<1>2. PICK D : D = Deltas(list)
  OBVIOUS
<1>3. q \in LinesOf(b)
  BY DEF SameText
<1>4. PICK k \in 0 .. Len(list) : \E x \in LinesOf(a) : q = x + D[k] /\ Untouched(list, x, k)
  BY <1>2, <1>3, DeletesLeave
<1>5. PICK x \in LinesOf(a) : q = x + D[k] /\ Untouched(list, x, k)
  BY <1>4
<1>6. PICK t : t = LineEnd(a, x)
  OBVIOUS
<1>7. IsLine(a, x, t)
  BY <1>6, LinesAre
<1>8. LineText(b, q) = LineText(a, x)
  BY <1>1, <1>2, <1>5, <1>7, UntouchedStays
<1>9. x = p
  BY <1>8 DEF SameText, Unique
<1> QED BY <1>1, <1>5, <1>9, UntouchedIsFound
----------------------------------------------------------------------------
(* A block of lines moved.                                                 *)

\* The line that starts after the newlines of a first part.
LEMMA LineOfStart ==
    ASSUME NEW x \in Str, NEW y \in Str, x = <<>> \/ x[Len(x)] = NL, NEW w, w = x \o y
    PROVE  LineOf(w, Newlines(x)) = Len(x)
<1>1. PICK u, v, J, s : u = NewlineEnds(x) /\ v = Shifted(NewlineEnds(y), Len(x)) /\ J = Len(u) /\ s = NewlineEnds(w)
  OBVIOUS
<1>2. u \in Seq(Int) /\ J \in Nat
  BY <1>1, EndsTyped
<1>3. v \in Seq(Int)
  <2>1. NewlineEnds(y) \in Seq(Int) /\ Len(x) \in Int
    BY EndsTyped DEF Str
  <2> QED BY <2>1, <1>1, ShiftFacts
<1>4. s = u \o v
  BY <1>1, EndsConcat
<1>5. s \in Seq(Int) /\ Len(s) = J + Len(v) /\ Len(v) \in Nat /\ \A i \in 1 .. J : s[i] = u[i]
  BY <1>1, <1>2, <1>3, <1>4
<1>6. PICK t : t = <<0>> \o s
  OBVIOUS
<1>7. Len(t) = 1 + Len(s) /\ t[1] = 0 /\ \A i \in 1 .. Len(s) : t[i + 1] = s[i]
  BY <1>5, <1>6
<1>8. J < Len(t)
  BY <1>2, <1>5, <1>7
<1>9. LineOf(w, Newlines(x)) = t[J + 1]
  BY <1>1, <1>6, <1>8 DEF LineOf, LineStartsOf, Newlines
<1>10. CASE x = <<>>
  <2>1. u = <<>>
    BY <1>1, <1>10, EndsNone
  <2>2. J = 0 /\ Len(x) = 0
    BY <2>1, <1>1, <1>10
  <2> QED BY <2>2, <1>7, <1>9
<1>11. CASE x # <<>>
  <2>1. x \in Seq(Bytes) /\ Len(x) > 0
    BY <1>11 DEF Str
  <2>2. PICK f \in Seq(Bytes), c \in Bytes : x = Append(f, c) /\ Len(x) = Len(f) + 1 /\ x[Len(x)] = c
    BY <2>1, LastFacts
  <2>3. c = NL /\ f \in Str
    BY <2>2, <1>11 DEF Str
  <2>4. u = Append(NewlineEnds(f), Len(f) + 1)
    BY <2>2, <2>3, <1>1, EndsAppend
  <2>5. NewlineEnds(f) \in Seq(Int) /\ Len(f) + 1 \in Int
    BY <2>3, EndsTyped DEF Str
  <2>6. J = Len(NewlineEnds(f)) + 1 /\ Len(NewlineEnds(f)) \in Nat /\ u[J] = Len(f) + 1
    BY <2>4, <2>5, <1>1, AppendFacts
  <2>7. J \in 1 .. J /\ J \in 1 .. Len(s)
    BY SMTT(30), <2>6, <1>2, <1>5
  <2> QED BY <2>2, <2>6, <2>7, <1>5, <1>7, <1>9
<1> QED BY <1>10, <1>11

\* Where the bare lines of an edit begin in it.
First(a, e) == IF StartAligned(a, e) THEN 0 ELSE 1

LEMMA BareFacts ==
    ASSUME NEW a, NEW e, NEW s \in Str, s # <<>>, NEW w, w = Bare(a, e, s)
    PROVE  /\ w \in Str /\ Len(s) \in Nat /\ Len(w) = Len(s) - 1 /\ Len(w) \in Nat
           /\ \A t \in 1 .. Len(w) : w[t] = s[First(a, e) + t]
<1>1. s \in Seq(Bytes) /\ Len(s) \in Nat /\ Len(s) > 0
  BY DEF Str
<1>2. CASE StartAligned(a, e)
  <2>1. w = SubSeq(s, 1, Len(s) - 1) /\ First(a, e) = 0
    BY <1>2 DEF Bare, First
  <2>4. PICK n : n = Len(s) - 1
    OBVIOUS
  <2>5. n \in Nat /\ n <= Len(s) /\ 0 \in Nat /\ 0 <= n /\ 0 + 1 = 1 /\ n - 0 = n
    BY <2>4, <1>1
  <2>6. w = Slice(s, 0, n)
    BY <2>1, <2>4, <2>5 DEF Slice
  <2>7. w \in Seq(Bytes) /\ Len(w) = n
    BY <2>5, <2>6, <1>1, SliceFacts
  <2>8. \A t \in 1 .. n - 0 : w[t] = s[0 + t]
    <3>1. PICK z : z = 0
      OBVIOUS
    <3>2. z \in Nat /\ n \in Nat /\ z <= n /\ n <= Len(s)
      BY <3>1, <2>5
    <3>3. \A t \in 1 .. n - z : Slice(s, z, n)[t] = s[z + t]
      BY <3>2, <1>1, SliceFacts
    <3> QED BY <3>1, <3>3, <2>6
  <2>9. \A t \in 1 .. n : 0 + t = t
    BY <2>5
  <2>2. w \in Seq(Bytes) /\ Len(w) = Len(s) - 1 /\ \A t \in 1 .. Len(w) : w[t] = s[t]
    BY <2>4, <2>5, <2>7, <2>8, <2>9
  <2>3. \A t \in 1 .. Len(w) : First(a, e) + t = t
    BY <2>1
  <2> QED BY <2>2, <2>3, <1>1 DEF Str
<1>3. CASE ~StartAligned(a, e)
  <2>1. w = Tail(s) /\ First(a, e) = 1
    BY <1>3 DEF Bare, First
  <2>2. w \in Seq(Bytes) /\ Len(w) = Len(s) - 1 /\ \A t \in 1 .. Len(w) : w[t] = s[t + 1]
    BY <2>1, <1>1
  <2>3. \A t \in 1 .. Len(w) : First(a, e) + t = t + 1
    BY <2>1
  <2> QED BY <2>2, <2>3, <1>1 DEF Str
<1> QED BY <1>2, <1>3

\* An edit that only inserts whole lines inserts a block.
LEMMA InsertsBlock ==
    ASSUME NEW a \in Str, NEW e \in Edit, WholeLines(a, e), e.del = 0, e.ins # <<>>
    PROVE  /\ InsertedBlock(a, e) = <<[body |-> Bare(a, e, e.ins), first |-> First(a, e)]>>
           /\ First(a, e) = 0 => LineStartAt(a, e.pos) /\ e.ins[Len(e.ins)] = NL
           /\ First(a, e) = 1 => IsNewline(a, e.pos) /\ e.ins[1] = NL
<1>1. PICK s : s = e.ins
  OBVIOUS
<1>2. s \in Seq(Bytes) /\ s # <<>> /\ End(e) = e.pos
  BY <1>1 DEF Edit, Str, End
<1>3. CASE StartAligned(a, e)
  <2>1. LineStartAt(a, e.pos) /\ EndsInNewline(s)
    BY <1>1, <1>2, <1>3 DEF StartAligned
  <2>2. s[Len(s)] = NL
    BY <2>1 DEF EndsInNewline, Last
  <2>3. First(a, e) = 0 /\ Bare(a, e, s) = SubSeq(s, 1, Len(s) - 1)
    BY <1>3 DEF First, Bare
  <2>4. InsertedBlock(a, e) = <<[body |-> SubSeq(s, 1, Len(s) - 1), first |-> 0]>>
    BY <2>1, <1>1 DEF InsertedBlock
  <2>5. InsertedBlock(a, e) = <<[body |-> Bare(a, e, e.ins), first |-> First(a, e)]>>
    BY <2>3, <2>4, <1>1
  <2>6. e.ins[Len(e.ins)] = NL /\ First(a, e) # 1
    BY <2>2, <2>3, <1>1
  <2> QED BY <2>1, <2>5, <2>6
<1>4. CASE ~StartAligned(a, e)
  <2>1. IsNewline(a, e.pos) /\ StartsWithNewline(s)
    BY <1>1, <1>2, <1>4 DEF WholeLines, EndAligned
  <2>2. s[1] = NL
    BY <2>1, <1>2 DEF StartsWithNewline
  <2>3. First(a, e) = 1 /\ Bare(a, e, s) = Tail(s)
    BY <1>4 DEF First, Bare
  <2>4. ~(LineStartAt(a, e.pos) /\ EndsInNewline(s))
    BY <1>1, <1>2, <1>4 DEF StartAligned
  <2>5. InsertedBlock(a, e) = <<[body |-> Tail(s), first |-> 1]>>
    BY <2>1, <2>4, <1>1 DEF InsertedBlock
  <2>6. InsertedBlock(a, e) = <<[body |-> Bare(a, e, e.ins), first |-> First(a, e)]>>
    BY <2>3, <2>5, <1>1
  <2>7. e.ins[1] = NL /\ First(a, e) # 0
    BY <2>2, <2>3, <1>1
  <2> QED BY <2>1, <2>6, <2>7
<1> QED BY <1>3, <1>4

\* Edit i deletes the block that edit j inserts.
Moving(a, list, i, j) ==
    /\ Len(list) = 2 /\ i \in 1 .. 2 /\ j \in 1 .. 2 /\ i # j
    /\ WholeLines(a, list[i]) /\ list[i].ins = <<>>
    /\ WholeLines(a, list[j]) /\ list[j].del = 0 /\ list[j].ins # <<>>
    /\ Bare(a, list[i], Slice(a, list[i].pos, End(list[i]))) = Bare(a, list[j], list[j].ins)

\* The block is of[from .. from + n], and line p of the text is in it.
Holds(a, p, le, from, n) ==
    from \in Nat /\ n \in Nat /\ from <= p /\ le <= from + n /\ from + n <= Len(a)

\* What is deleted: the block, from which the line p starts at p - from.
LEMMA DeletedBlock ==
    ASSUME NEW a \in Str, NEW e \in Edit, WholeLines(a, e), End(e) <= Len(a),
           NEW p, NEW le, IsLine(a, p, le), e.pos <= p, p < End(e),
           NEW from, from = e.pos + First(a, e), NEW n, n = e.del - 1,
           NEW w, w = Bare(a, e, Slice(a, e.pos, End(e)))
    PROVE  Holds(a, p, le, from, n) /\ w = Slice(a, from, from + n) /\ e.del > 0 /\ w \in Str /\ Len(w) = n
<1>0. p \in Nat /\ le \in Nat /\ p < le /\ Len(a) \in Nat
  BY DEF IsLine, Str
<1>1. PICK x, y, m, f, s : x = e.pos /\ y = End(e) /\ m = e.del /\ f = First(a, e) /\ s = Slice(a, x, y)
  OBVIOUS
<1>2. x \in Nat /\ m \in Nat /\ y = x + m /\ y <= Len(a) /\ x <= p /\ p < y
  BY <1>1 DEF Edit, End
<1>3. y \in Nat /\ x <= y /\ m > 0 /\ n \in Nat /\ n = m - 1
  BY SMTT(30), <1>0, <1>1, <1>2
<1>4. s \in Str /\ Len(s) = m
  <2>1. s \in Str /\ Len(s) = y - x
    BY <1>1, <1>2, <1>3, StrSlice
  <2> QED BY <2>1, <1>2
<1>5. \A k \in 1 .. m : s[k] = a[x + k]
  <2>1. a \in Seq(Bytes) /\ y - x = m
    BY <1>2 DEF Str
  <2>2. \A k \in 1 .. y - x : s[k] = a[x + k]
    <3>1. \A k \in 1 .. y - x : Slice(a, x, y)[k] = a[x + k]
      BY <2>1, <1>2, <1>3, SliceFacts
    <3> QED BY <3>1, <1>1
  <2> QED BY <2>1, <2>2
<1>6. s # <<>>
  BY <1>3, <1>4
<1>7. w \in Str /\ Len(w) = n /\ \A t \in 1 .. n : w[t] = s[f + t]
  <2>1. w = Bare(a, e, s)
    BY <1>1
  <2>2. w \in Str /\ Len(w) = Len(s) - 1 /\ \A t \in 1 .. Len(w) : w[t] = s[First(a, e) + t]
    BY <2>1, <1>4, <1>6, BareFacts
  <2>3. Len(w) = n
    BY <2>2, <1>3, <1>4
  <2> QED BY <2>2, <2>3, <1>1
<1>8. Beside(a, e, p, le)
  BY WholeBeside
<1>9. f \in 0 .. 1 /\ x + f <= p /\ le <= x + f + n
  <2>1. CASE StartAligned(a, e)
    <3>1. f = 0
      BY <2>1, <1>1 DEF First
    <3>2. y > le
      BY <2>1, <1>1, <1>2, <1>8 DEF Beside
    <3> QED BY <3>1, <3>2, <1>0, <1>2, <1>3
  <2>2. CASE ~StartAligned(a, e)
    <3>1. f = 1
      BY <2>2, <1>1 DEF First
    <3>2. x # p /\ y >= le
      BY <2>2, <1>0, <1>1, <1>2, <1>3, <1>8 DEF Beside
    <3> QED BY <3>1, <3>2, <1>0, <1>2, <1>3
  <2> QED BY <2>1, <2>2
<1>10. from = x + f /\ from \in Nat /\ from + n <= Len(a) /\ f \in Nat
  <2>1. from = x + f
    BY <1>1
  <2>2. x + f \in Nat /\ (x + f) + n <= y /\ f \in Nat
    BY <1>2, <1>3, <1>9
  <2>3. (x + f) + n \in Nat
    BY <2>2, <1>3
  <2> QED BY <2>1, <2>2, <2>3, <1>0, <1>2, <1>3
<1>11. Holds(a, p, le, from, n)
  BY <1>3, <1>9, <1>10 DEF Holds
<1>12. w = Slice(a, from, from + n)
  <2>1. PICK v, h : v = Slice(a, from, from + n) /\ h = from + n
    OBVIOUS
  <2>2. h \in Nat /\ from <= h /\ h <= Len(a) /\ h - from = n /\ v = Slice(a, from, h)
    BY <2>1, <1>3, <1>10
  <2>3. v \in Str /\ Len(v) = h - from
    BY <2>2, <1>10, StrSlice
  <2>4. \A t \in 1 .. h - from : v[t] = a[from + t]
    <3>1. a \in Seq(Bytes)
      BY DEF Str
    <3>2. \A t \in 1 .. h - from : Slice(a, from, h)[t] = a[from + t]
      <4>1. PICK z : z = from
        OBVIOUS
      <4>2. z \in Nat /\ h \in Nat /\ z <= h /\ h <= Len(a)
        BY <4>1, <2>2, <1>10
      <4>3. \A t \in 1 .. h - z : Slice(a, z, h)[t] = a[z + t]
        BY <3>1, <4>2, SliceFacts
      <4> QED BY <4>1, <4>3
    <3> QED BY <3>2, <2>2
  <2>5. ASSUME NEW t \in 1 .. n PROVE w[t] = v[t]
    <3>1. f + t \in 1 .. m /\ x + (f + t) = from + t
      BY <1>2, <1>3, <1>9, <1>10
    <3>2. s[f + t] = a[x + (f + t)]
      BY <3>1, <1>5
    <3>3. v[t] = a[from + t]
      BY <2>2, <2>4
    <3>4. w[t] = s[f + t]
      BY <1>7
    <3> QED BY <3>1, <3>2, <3>3, <3>4
  <2>6. w \in Seq(Bytes) /\ v \in Seq(Bytes) /\ Len(w) = Len(v)
    BY <2>2, <2>3, <1>7 DEF Str
  <2>7. \A t \in 1 .. Len(w) : w[t] = v[t]
    BY <2>5, <1>7
  <2>8. w = v
    BY <2>6, <2>7, SeqEq
  <2> QED BY <2>1, <2>8
<1> QED BY <1>1, <1>3, <1>7, <1>11, <1>12

\* What the two edits of a move are.
MoveEdits(a, list, i, j, n) ==
    /\ list[i] \in Edit /\ list[i].pos \in Nat /\ list[i].del \in Nat /\ End(list[i]) <= Len(a)
    /\ list[j] \in Edit /\ list[j].pos \in Nat /\ list[j].ins \in Str
    /\ End(list[j]) = list[j].pos /\ list[j].pos <= Len(a)
    /\ n = list[i].del - 1 /\ list[i].del > 0 /\ n \in Nat /\ Len(list[j].ins) = n + 1

\* The lines a move deletes are those it inserts.
LEMMA MoveFacts ==
    ASSUME NEW a \in Str, NEW list, Canon(list, Len(a)), NEW i, NEW j, Moving(a, list, i, j),
           NEW p, NEW le, IsLine(a, p, le), list[i].pos <= p, p < End(list[i]),
           NEW from, from = list[i].pos + First(a, list[i]), NEW n, n = list[i].del - 1
    PROVE  /\ MoveEdits(a, list, i, j, n) /\ Holds(a, p, le, from, n)
           /\ Bare(a, list[j], list[j].ins) = Slice(a, from, from + n)
           /\ \A t \in 1 .. n : list[j].ins[First(a, list[j]) + t] = a[from + t]
<1>0. Len(a) \in Nat /\ Len(list) \in Nat
  BY DEF Str, Canon
<1>1. i \in 1 .. Len(list) /\ j \in 1 .. Len(list)
  BY DEF Moving
<1>2. /\ list[i] \in Edit /\ list[i].pos \in Nat /\ list[i].del \in Nat /\ Cursor(list, i) = End(list[i])
      /\ Cursor(list, i) <= Len(a)
  BY <1>0, <1>1, EditFacts
<1>3. /\ list[j] \in Edit /\ list[j].pos \in Nat /\ list[j].ins \in Str /\ list[j].del \in Nat
      /\ list[j].pos <= Cursor(list, j) /\ Cursor(list, j) <= Len(a) /\ Cursor(list, j) \in Nat
  BY <1>0, <1>1, EditFacts
<1>4. list[j].pos <= Len(a) /\ End(list[j]) = list[j].pos
  <2>1. list[j].del = 0
    BY DEF Moving
  <2> QED BY <2>1, <1>0, <1>3 DEF End
<1>5. PICK w : w = Bare(a, list[i], Slice(a, list[i].pos, End(list[i])))
  OBVIOUS
<1>6. Holds(a, p, le, from, n) /\ w = Slice(a, from, from + n) /\ list[i].del > 0 /\ w \in Str /\ Len(w) = n
  <2>1. WholeLines(a, list[i]) /\ End(list[i]) <= Len(a)
    BY <1>2 DEF Moving
  <2> QED BY <2>1, <1>2, <1>5, DeletedBlock
<1>7. w = Bare(a, list[j], list[j].ins) /\ list[j].ins # <<>>
  BY <1>5 DEF Moving
<1>8. /\ Len(list[j].ins) \in Nat /\ Len(w) = Len(list[j].ins) - 1
      /\ \A t \in 1 .. Len(w) : w[t] = list[j].ins[First(a, list[j]) + t]
  BY SMTT(30), <1>3, <1>7, BareFacts
<1>9. n \in Nat /\ Len(list[j].ins) = n + 1
  BY SMTT(30), <1>2, <1>6, <1>8
<1>10. MoveEdits(a, list, i, j, n)
  BY <1>2, <1>3, <1>4, <1>6, <1>9 DEF MoveEdits
<1>11. ASSUME NEW t \in 1 .. n PROVE list[j].ins[First(a, list[j]) + t] = a[from + t]
  <2>1. PICK y, z : y = from + n /\ z = from
    OBVIOUS
  <2>2. z \in Nat /\ y \in Nat /\ z <= y /\ y <= Len(a) /\ y - z = n
    BY <2>1, <1>6, <1>9 DEF Holds
  <2>3. a \in Seq(Bytes)
    BY DEF Str
  <2>4. \A k \in 1 .. y - z : Slice(a, z, y)[k] = a[z + k]
    BY ZenonT(40), <2>2, <2>3, SliceFacts
  <2>5. w[t] = a[from + t]
    BY <2>1, <2>2, <2>4, <1>6
  <2>6. w[t] = list[j].ins[First(a, list[j]) + t]
    BY <1>6, <1>8
  <2> QED BY <2>5, <2>6
<1> QED BY <1>6, <1>7, <1>10, <1>11

\* A line of the block is found again where the block is inserted.
LEMMA MovedLine ==
    ASSUME NEW a \in Str, NEW list, Canon(list, Len(a)), NoneJoins(a, list),
           NEW b, b = ApplyTo(list, a), NEW D, D = Deltas(list), NEW i, NEW j, Moving(a, list, i, j),
           NEW p, NEW le, IsLine(a, p, le), list[i].pos <= p, p < End(list[i]),
           NEW from, from = list[i].pos + First(a, list[i]),
           NEW s, s = list[j].pos + D[j - 1] + First(a, list[j]) + (p - from)
    PROVE  IsLine(b, s, s + (le - p)) /\ LineText(b, s) = LineText(a, p)
<1>0. Len(a) \in Nat /\ Len(list) = 2 /\ i \in 1 .. 2 /\ j \in 1 .. 2 /\ i # j
  BY DEF Str, Moving
<1>1. PICK n, x, d, f, v, m : /\ n = list[i].del - 1 /\ x = list[j].pos /\ d = D[j - 1]
                             /\ f = First(a, list[j]) /\ v = list[j].ins /\ m = Len(v)
  OBVIOUS
<1>20. PICK r, u : r = from /\ u = s
  OBVIOUS
<1>21. MoveEdits(a, list, i, j, n) /\ Holds(a, p, le, from, n)
  BY <1>1, MoveFacts
<1>22. \A t \in 1 .. n : list[j].ins[First(a, list[j]) + t] = a[from + t]
  BY <1>1, MoveFacts
<1>2. MoveEdits(a, list, i, j, n) /\ Holds(a, p, le, r, n)
  BY <1>20, <1>21
<1>3. \A t \in 1 .. n : v[f + t] = a[r + t]
  BY <1>1, <1>20, <1>22
<1>4. /\ n \in Nat /\ x \in Nat /\ x <= Len(a) /\ m = n + 1 /\ r \in Nat
      /\ r <= p /\ le <= r + n /\ r + n <= Len(a)
  BY <1>1, <1>2 DEF MoveEdits, Holds
<1>5. p \in Nat /\ le \in Nat /\ p < le /\ le <= Len(a) /\ LineStartAt(a, p) /\ AtEnd(a, le)
  BY DEF IsLine
<1>6. f \in Nat /\ f \in {0, 1}
  BY <1>1 DEF First
<1>7. d \in Int /\ x + d \in Nat
  <2>1. j - 1 \in 0 .. Len(list) /\ j \in 1 .. Len(list)
    BY <1>0
  <2>2. PICK c : c = Cursor(list, j - 1)
    OBVIOUS
  <2>3. d \in Int /\ c + d >= 0
    BY <2>1, <2>2, <1>0, <1>1, DeltasFacts
  <2>4. c \in Nat /\ c <= x
    BY <2>1, <2>2, <1>0, <1>1, EditFacts
  <2> QED BY <2>3, <2>4, <1>4
<1>8. b \in Str /\ Len(b) \in Nat
  BY AppliedTypes
<1>9. ASSUME NEW y \in 1 .. m PROVE x + d + y \in 1 .. Len(b) /\ b[x + d + y] = v[y]
  <2>1. j \in 1 .. Len(list) /\ y \in 1 .. Len(list[j].ins)
    BY <1>0, <1>1
  <2>2. PICK z : z = list[j].pos + D[j - 1] + y
    OBVIOUS
  <2>3. z \in 1 .. Len(b) /\ b[z] = list[j].ins[y]
    BY <2>1, <2>2, InsertKept
  <2> QED BY <2>2, <2>3, <1>1
<1>10. PICK at : at = x + d + f
  OBVIOUS
<1>11. at \in Nat /\ u = at + (p - r) /\ u \in Nat
  <2>1. u = at + (p - r)
    BY <1>1, <1>10, <1>20
  <2>2. at \in Nat
    BY <1>6, <1>7, <1>10
  <2>3. at + (p - r) \in Nat
    BY <2>2, <1>4, <1>5
  <2> QED BY <2>1, <2>2, <2>3
<1>12. ASSUME NEW t \in 1 .. n PROVE b[at + t] = a[r + t]
  <2>1. f + t \in 1 .. m /\ x + d + (f + t) = at + t
    BY <1>4, <1>6, <1>7, <1>10
  <2>2. b[x + d + (f + t)] = v[f + t]
    BY <2>1, <1>9
  <2> QED BY <2>1, <2>2, <1>3
<1>13. at + n <= Len(b) /\ (f = 0 => at + n < Len(b))
  <2>1. m \in 1 .. m
    BY <1>4
  <2>2. x + d + m \in 1 .. Len(b)
    BY <2>1, <1>9
  <2> QED BY <2>2, <1>4, <1>6, <1>7, <1>8, <1>10
<1>14. PICK z : z = u + (le - p)
  OBVIOUS
<1>15. z \in Nat /\ z = at + (le - r) /\ z <= at + n /\ z <= Len(b)
  <2>1. z \in Nat /\ z = at + (le - r)
    <3>1. r \in Nat /\ p \in Nat /\ le \in Nat /\ at \in Nat /\ r <= p /\ p < le
      BY <1>4, <1>5, <1>11
    <3>2. z = at + (p - r) + (le - p)
      BY <1>11, <1>14
    <3>3. at + (p - r) + (le - p) = at + (le - r) /\ at + (le - r) \in Nat
      BY <3>1
    <3> QED BY <3>2, <3>3
  <2>2. z <= at + n
    BY <2>1, <1>4, <1>5, <1>11
  <2> QED BY <2>1, <2>2, <1>4, <1>8, <1>11, <1>13
<1>16. ASSUME NEW k \in p .. le - 1 PROVE b[(k - p) + u + 1] = a[k + 1]
  <2>1. PICK t : t = k + 1 - r
    OBVIOUS
  <2>2. t \in 1 .. n /\ at + t = (k - p) + u + 1 /\ r + t = k + 1
    <3>1. k \in Nat /\ p <= k /\ k < le
      BY <1>5
    <3>2. t \in 1 .. n
      <4>1. r \in Nat /\ n \in Nat /\ p \in Nat /\ le \in Nat /\ r <= p /\ le <= r + n
        BY <1>4, <1>5
      <4> QED BY <4>1, <3>1, <2>1
    <3>3. at + t = (k - p) + u + 1
      BY <3>1, <2>1, <1>4, <1>5, <1>11
    <3>4. r + t = k + 1
      BY <3>1, <2>1, <1>4
    <3> QED BY <3>2, <3>3, <3>4
  <2> QED BY <2>2, <1>12
<1>17. LineStartAt(b, u)
  <2>1. CASE r < p
    <3>1. PICK t : t = p - r
      OBVIOUS
    <3>2. t \in 1 .. n /\ at + t = u /\ r + t = p /\ p # 0
      BY <3>1, <2>1, <1>4, <1>5, <1>11
    <3>3. b[u] = a[p]
      BY <3>2, <1>12
    <3> QED BY <3>2, <3>3, <1>5 DEF LineStartAt
  <2>2. CASE ~(r < p) /\ f = 1
    <3>1. u = x + d + 1 /\ 1 \in 1 .. m
      BY <2>2, <1>4, <1>5, <1>7, <1>10, <1>11
    <3>2. b[u] = v[1]
      BY <3>1, <1>9
    <3>3. v[1] = NL
      BY <2>2, <1>1, <1>2, InsertsBlock DEF MoveEdits, Moving
    <3> QED BY <3>2, <3>3 DEF LineStartAt
  <2>3. CASE ~(r < p) /\ f = 0
    <3>1. u = x + d /\ p = r
      BY <2>3, <1>4, <1>5, <1>7, <1>10, <1>11
    <3>2. LineStartAt(a, x)
      BY <2>3, <1>1, <1>2, InsertsBlock DEF MoveEdits, Moving
    <3>3. PICK k : k = j - 1
      OBVIOUS
    <3>4. k \in 0 .. Len(list) /\ k + 1 = j /\ k < Len(list)
      BY <3>3, <1>0
    <3>5. CASE k = 0 \/ Cursor(list, k) < x
      <4>1. k < Len(list) => x <= list[k + 1].pos
        BY <3>4, <1>1, <1>4
      <4>2. LineStartAt(b, x + D[k])
        BY <3>2, <3>4, <3>5, <4>1, <1>4, KeptStart
      <4> QED BY <4>2, <3>1, <3>3, <1>1
    <3>6. CASE ~(k = 0 \/ Cursor(list, k) < x)
      <4>1. k = 1 /\ j = 2 /\ i = 1 /\ 1 \in 1 .. Len(list) - 1 /\ 1 \in 1 .. Len(list) /\ 2 \in 1 .. Len(list) /\ 1 + 1 = 2
        BY <3>3, <3>6, <1>0
      <4>2. Cursor(list, 1) = End(list[1]) /\ Cursor(list, 1) \in Nat
        BY <4>1, <1>0, EditFacts
      <4>3. End(list[1]) <= list[1 + 1].pos
        BY <4>1, <1>0, StrictlyAfter
      <4>4. End(list[1]) = x /\ list[2].pos = x
        BY <4>1, <4>2, <4>3, <3>6, <1>1, <1>4
      <4>5. Touching(list, 1, 2)
        <5>1. SUFFICES ASSUME NEW h \in 1 .. 2 - 1 PROVE End(list[h]) = list[h + 1].pos
          BY DEF Touching
        <5>2. h = 1 /\ h + 1 = 2
          OBVIOUS
        <5> QED BY <5>2, <4>4
      <4>6. StartAligned(a, list[1]) \/ EndAligned(a, list[2])
        <5>1. 1 < 2
          OBVIOUS
        <5> QED BY <5>1, <4>1, <4>5 DEF NoneJoins
      <4>7. ~EndAligned(a, list[2])
        <5>1. SUFFICES ASSUME EndAligned(a, list[2]) PROVE FALSE
          OBVIOUS
        <5>2. v # <<>> /\ v \in Seq(Bytes)
          BY <4>1, <1>1, <1>2 DEF Moving, MoveEdits, Str
        <5>3. v[1] = NL
          BY <5>1, <5>2, <4>1, <1>1 DEF EndAligned, StartsWithNewline
        <5>4. 1 \in 1 .. n /\ f + 1 = 1 /\ r + 1 = p + 1 /\ p \in p .. le - 1
          BY <2>3, <3>1, <1>4, <1>5
        <5>5. v[1] = a[p + 1]
          BY <5>4, <1>3
        <5>6. a[p + 1] # NL
          BY <5>4 DEF IsLine
        <5> QED BY <5>3, <5>5, <5>6
      <4>8. OnlyStarts(a, list, 1)
        <5>1. 1 .. 1 - 1 = {}
          OBVIOUS
        <5> QED BY <5>1, <4>6, <4>7 DEF OnlyStarts
      <4>9. LineStartAt(b, End(list[1]) + D[1])
        BY <4>1, <4>8, StartChain
      <4> QED BY <4>1, <4>4, <4>9, <3>1, <3>3, <1>1
    <3> QED BY <3>5, <3>6
  <2> QED BY <2>1, <2>2, <2>3, <1>6
<1>18. AtEnd(b, z)
  <2>1. CASE le < r + n
    <3>1. PICK t : t = (le - r) + 1
      OBVIOUS
    <3>2. t \in 1 .. n /\ at + t = z + 1 /\ r + t = le + 1 /\ le < Len(a) /\ z < Len(b)
      <4>1. t \in 1 .. n /\ r + t = le + 1 /\ le < Len(a)
        BY SMTT(30), <3>1, <2>1, <1>0, <1>4, <1>5
      <4>2. at + t = z + 1
        BY <3>1, <1>4, <1>5, <1>11, <1>15
      <4>3. at + t <= at + n
        BY <4>1, <1>4, <1>11
      <4> QED BY <4>1, <4>2, <4>3, <1>4, <1>8, <1>11, <1>13, <1>15
    <3>3. b[z + 1] = a[le + 1]
      BY <3>2, <1>12
    <3>4. a[le + 1] = NL
      BY <3>2, <1>0, <1>5 DEF AtEnd
    <3> QED BY <3>2, <3>3, <3>4 DEF AtEnd
  <2>2. CASE ~(le < r + n) /\ f = 0
    <3>1. z + 1 = x + d + m /\ m \in 1 .. m /\ z < Len(b)
      <4>1. le = r + n
        BY <2>2, <1>4, <1>5
      <4>2. z = at + n /\ at = x + d
        BY <4>1, <2>2, <1>4, <1>7, <1>10, <1>11, <1>15
      <4>3. z + 1 = x + d + m
        BY <4>2, <1>4, <1>7
      <4> QED BY <4>2, <4>3, <2>2, <1>4, <1>13
    <3>2. b[z + 1] = v[m]
      BY <3>1, <1>9
    <3>3. v[m] = NL
      BY <2>2, <1>1, <1>2, InsertsBlock DEF MoveEdits, Moving
    <3> QED BY <3>1, <3>2, <3>3 DEF AtEnd
  <2>3. CASE ~(le < r + n) /\ f = 1
    <3>1. z = x + d + m
      <4>1. le = r + n
        BY <2>3, <1>4, <1>5
      <4>2. z = at + n /\ at = x + d + 1
        BY <4>1, <2>3, <1>4, <1>7, <1>10, <1>11, <1>15
      <4> QED BY <4>2, <1>4, <1>7
    <3>2. IsNewline(a, x)
      BY <2>3, <1>1, <1>2, InsertsBlock DEF MoveEdits, Moving
    <3>3. AtEnd(a, x)
      BY <3>2 DEF IsNewline, AtEnd
    <3>4. j \in 0 .. Len(list) /\ j \in 1 .. Len(list)
      BY <1>0
    <3>5. Cursor(list, j) = End(list[j]) /\ End(list[j]) = list[j].pos
      BY <3>4, <1>0, <1>2, EditFacts DEF MoveEdits
    <3>6. Cursor(list, j) <= x
      BY <3>5, <1>1, <1>4
    <3>7. j < Len(list) => x < list[j + 1].pos
      <4>1. SUFFICES ASSUME j < Len(list) PROVE x < list[j + 1].pos
        OBVIOUS
      <4>2. j \in 1 .. Len(list) - 1
        BY <4>1, <1>0
      <4>3. list[j].pos < list[j + 1].pos
        BY <4>2, <1>0, StrictlyAfter
      <4> QED BY <4>3, <1>1
    <3>8. AtEnd(b, x + D[j])
      BY <3>3, <3>4, <3>6, <3>7, <1>4, KeptEnd
    <3>9. D[j] = D[j - 1] + Len(list[j].ins) - list[j].del
      BY <3>4, <1>0, DeltasFacts
    <3>10. list[j].del = 0
      BY DEF Moving
    <3>11. x + D[j] = z
      <4>1. D[j] = d + m - 0
        BY <3>9, <3>10, <1>1
      <4>2. x + (d + m - 0) = x + d + m
        BY <1>4, <1>7
      <4> QED BY <4>1, <4>2, <3>1
    <3> QED BY <3>8, <3>11
  <2> QED BY <2>1, <2>2, <2>3, <1>6
<1>19. IsLine(b, u, z) /\ LineText(b, u) = LineText(a, p)
  BY <1>8, <1>11, <1>14, <1>15, <1>16, <1>17, <1>18, SameLine
<1> QED BY <1>14, <1>19, <1>20

\* The edit that takes the line decides.
LEMMA TakenDecides ==
    ASSUME NEW a \in Str, NEW list, Canon(list, Len(a)), NEW i, NEW j, Moving(a, list, i, j),
           NEW p \in Nat, list[i].pos <= p, p < End(list[i])
    PROVE  Deciding(a, list, p) = i
<1>0. Len(a) \in Nat /\ Len(list) = 2 /\ i \in 1 .. 2 /\ j \in 1 .. 2 /\ i # j /\ list[j].del = 0
  BY DEF Str, Moving
<1>1. PICK h : h = Cardinality({k \in 1 .. Len(list) : End(list[k]) < p})
  OBVIOUS
<1>2. Ended(list, p, h)
  <2>1. p \in Int
    OBVIOUS
  <2> QED BY <2>1, <1>0, <1>1, EndedFacts
<1>3. h \in 0 .. 2 /\ \A k \in 1 .. 2 : End(list[k]) < p <=> k <= h
  BY <1>0, <1>2 DEF Ended
<1>4. PICK x, m, y : x = list[i].pos /\ m = list[i].del /\ y = End(list[i])
  OBVIOUS
<1>5. x \in Nat /\ m \in Nat /\ y = x + m /\ x <= p /\ p < y
  <2>1. i \in 1 .. Len(list)
    BY <1>0
  <2>2. x \in Nat /\ m \in Nat
    BY <2>1, <1>0, <1>4, EditFacts
  <2> QED BY <2>2, <1>4 DEF End
<1>6. y \in Nat /\ m # 0 /\ ~(y < p) /\ y # p
  BY <1>5
<1>7. PICK S : S = {2 + 1} \cup {k \in h + 1 .. 2 : list[k].pos > p \/ ~IsAbove(a, list[k], p)}
  OBVIOUS
<1>8. Deciding(a, list, p) = Min(S)
  BY <1>0, <1>1, <1>7 DEF Deciding
<1>9. i \in S
  <2>1. ~(i <= h)
    BY <1>0, <1>3, <1>4, <1>6
  <2>2. i \in h + 1 .. 2
    BY <2>1, <1>0, <1>3
  <2>3. ~IsAbove(a, list[i], p)
    BY <1>4, <1>6 DEF IsAbove
  <2> QED BY <2>2, <2>3, <1>7
<1>10. ASSUME NEW k \in S PROVE i <= k
  <2>1. CASE k = 2 + 1
    BY <2>1, <1>0
  <2>2. CASE k # 2 + 1
    <3>1. k \in h + 1 .. 2
      BY <2>2, <1>7
    <3>2. SUFFICES ASSUME k < i PROVE FALSE
      BY <3>1, <1>0, <1>3
    <3>3. k = 1 /\ i = 2 /\ j = 1 /\ ~(1 <= h)
      BY <3>1, <3>2, <1>0, <1>3
    <3>4. 1 \in 1 .. Len(list) - 1 /\ 1 + 1 = 2 /\ 1 \in 1 .. 2
      BY <1>0
    <3>5. list[1].pos \in Nat /\ list[1].pos < list[1 + 1].pos
      BY <3>4, <1>0, StrictlyAfter
    <3>6. End(list[1]) = list[1].pos
      BY <3>3, <3>5, <1>0 DEF End
    <3>7. End(list[1]) < p
      BY <3>3, <3>4, <3>5, <3>6, <1>4, <1>5
    <3> QED BY <3>3, <3>4, <3>7, <1>3
  <2> QED BY <2>1, <2>2
<1>11. S \in SUBSET Nat /\ S # {}
  BY <1>3, <1>7
<1>12. Min(S) \in S /\ \A k \in S : Min(S) <= k
  BY <1>11, MinFacts
<1>13. PICK q : q = Min(S)
  OBVIOUS
<1>14. q \in Nat /\ i <= q /\ q <= i
  BY <1>9, <1>10, <1>11, <1>12, <1>13
<1> QED BY <1>0, <1>8, <1>13, <1>14

\* Edit i takes the line [p, le) along, and edit j puts it down at s.
Taking(a, list, i, j, p, le, from, s) ==
    /\ a \in Str /\ Canon(list, Len(a)) /\ Moving(a, list, i, j)
    /\ IsLine(a, p, le) /\ list[i].pos <= p /\ p < End(list[i])
    /\ from = list[i].pos + First(a, list[i])
    /\ s = list[j].pos + Deltas(list)[j - 1] + First(a, list[j]) + (p - from)

\* The block is found by what it says, and the line by its number.
LEMMA MovedGoes ==
    ASSUME NEW a, NEW b, NEW list, NEW i, NEW j, NEW p, NEW le, NEW from, NEW s, Taking(a, list, i, j, p, le, from, s),
           NEW c, NEW lead \in BOOLEAN, lead <=> ~StartAligned(a, list[i])
    PROVE  Moved(a, b, list, list[i], Newlines(Slice(a, from, p)), c, lead) = AtCol(b, s, c)
<1> USE DEF Taking
<1> DEFINE e == list[i]
           span == Slice(a, e.pos, End(e))
           gone == IF lead THEN Tail(span) ELSE SubSeq(span, 1, Len(span) - 1)
           Carries(n) == /\ list[n].del = 0 /\ list[n].pos # e.pos
                         /\ InsertedBlock(a, list[n]) # <<>>
                         /\ InsertedBlock(a, list[n])[1].body = gone
           carriers == {n \in 1 .. Len(list) : Carries(n)}
           k == Min(carriers)
           block == InsertedBlock(a, list[k])[1]
           at == list[k].pos + Deltas(list)[k - 1] + block.first
<1>0. Len(a) \in Nat /\ Len(list) = 2 /\ i \in 1 .. 2 /\ j \in 1 .. 2 /\ i # j /\ list[j].del = 0 /\ e.ins = <<>>
  BY DEF Str, Moving
<1>1. PICK J, n, w : J = Newlines(Slice(a, from, p)) /\ n = list[i].del - 1 /\ w = Bare(a, list[j], list[j].ins)
  OBVIOUS
<1>2. Moved(a, b, list, e, J, c, lead) =
        IF e.ins # <<>> \/ carriers = {} THEN Lost ELSE AtCol(b, at + LineOf(block.body, J), c)
  BY DEF Moved
<1>3. MoveEdits(a, list, i, j, n) /\ Holds(a, p, le, from, n) /\ w = Slice(a, from, from + n)
  BY <1>1, MoveFacts
<1>4. gone = w
  <2>1. gone = Bare(a, list[i], span)
    BY DEF Bare
  <2> QED BY <2>1, <1>1 DEF Moving
<1>5. InsertedBlock(a, list[j]) = <<[body |-> w, first |-> First(a, list[j])]>>
  BY <1>1, <1>3, InsertsBlock DEF MoveEdits, Moving
<1>6. list[j].pos # e.pos
  <2>1. 1 \in 1 .. Len(list) - 1 /\ 1 + 1 = 2
    BY <1>0
  <2>2. list[1].pos \in Nat /\ list[1 + 1].pos \in Nat /\ list[1].pos < list[1 + 1].pos
    BY <2>1, <1>0, StrictlyAfter
  <2>3. (i = 1 /\ j = 2) \/ (i = 2 /\ j = 1)
    BY <1>0
  <2>4. list[1].pos # list[2].pos
    BY <2>1, <2>2
  <2>5. CASE i = 1 /\ j = 2
    BY <2>4, <2>5
  <2>6. CASE i = 2 /\ j = 1
    BY <2>4, <2>6
  <2> QED BY <2>3, <2>5, <2>6
<1> HIDE DEF gone, span
<1>7. carriers = {j}
  <2>1. Carries(j)
    BY <1>0, <1>4, <1>5, <1>6
  <2>2. ~Carries(i)
    <3>1. list[i].del # 0
      BY <1>3 DEF MoveEdits
    <3> QED BY <3>1
  <2>3. 1 .. Len(list) = {i, j}
    BY <1>0
  <2> HIDE DEF Carries
  <2> QED BY <2>1, <2>2, <2>3
<1> HIDE DEF carriers
<1>8. k = j
  <2>1. {j} \in SUBSET Nat /\ {j} # {}
    BY <1>0
  <2>2. Min({j}) \in {j}
    BY <2>1, MinFacts
  <2> QED BY <2>2, <1>7
<1> HIDE DEF k
<1>9. block.body = w /\ block.first = First(a, list[j])
  BY <1>5, <1>8
<1> HIDE DEF block
<1>10. LineOf(w, J) = p - from
  <2>1. PICK r, t, x, y : r = from /\ t = from + n /\ x = Slice(a, r, p) /\ y = Slice(a, p, t)
    OBVIOUS
  <2>2. p \in Nat /\ le \in Nat /\ p < le /\ LineStartAt(a, p)
    BY DEF IsLine
  <2>3. r \in Nat /\ t \in Nat /\ r <= p /\ p <= t /\ t <= Len(a) /\ p <= Len(a)
    BY SMTT(30), <2>1, <2>2, <1>0, <1>3 DEF Holds
  <2>4. x \in Str /\ Len(x) = p - r
    BY <2>1, <2>2, <2>3, StrSlice
  <2>5. y \in Str
    BY <2>1, <2>2, <2>3, StrSlice
  <2>6. w = x \o y
    <3>1. Slice(a, r, p) \o Slice(a, p, t) = Slice(a, r, t)
      BY <2>2, <2>3, StrJoin
    <3> QED BY <3>1, <2>1, <1>3
  <2>7. x = <<>> \/ x[Len(x)] = NL
    <3>1. CASE p = r
      BY <3>1, <2>2, <2>3, <2>4 DEF Str
    <3>2. CASE p # r
      <4>1. PICK m : m = p - r
        OBVIOUS
      <4>2. m \in 1 .. m /\ r + m = p /\ p # 0
        BY <4>1, <3>2, <2>2, <2>3
      <4>3. \A z \in 1 .. p - r : Slice(a, r, p)[z] = a[r + z]
        <5>1. a \in Seq(Bytes)
          BY DEF Str
        <5> QED BY <5>1, <2>2, <2>3, SliceFacts
      <4>4. x[m] = a[p]
        BY <4>1, <4>2, <4>3, <2>1
      <4> QED BY <4>1, <4>2, <4>4, <2>2, <2>4 DEF LineStartAt
    <3> QED BY <3>1, <3>2
  <2>8. LineOf(w, Newlines(x)) = Len(x)
    BY <2>4, <2>5, <2>6, <2>7, LineOfStart
  <2> QED BY <2>1, <2>4, <2>8, <1>1
<1>11. at + LineOf(block.body, J) = s
  BY <1>8, <1>9, <1>10
<1> HIDE DEF at
<1>12. carriers # {}
  BY <1>7
<1>13. Moved(a, b, list, e, J, c, lead) = AtCol(b, s, c)
  BY <1>0, <1>2, <1>11, <1>12
<1> QED BY <1>1, <1>13

LEMMA TakenMaps ==
    ASSUME NEW a \in Str, NEW list, Canon(list, Len(a)), NoneJoins(a, list),
           NEW b, b = ApplyTo(list, a), NEW D, D = Deltas(list), NEW i, NEW j, Moving(a, list, i, j),
           NEW p, NEW le, IsLine(a, p, le), list[i].pos <= p, p < End(list[i]),
           NEW from, from = list[i].pos + First(a, list[i]),
           NEW s, s = list[j].pos + D[j - 1] + First(a, list[j]) + (p - from),
           NEW o \in p .. le, NEW g
    PROVE  MapOffset(a, b, list, o, g) = s + (o - p)
<1>0. Len(a) \in Nat /\ Len(list) = 2 /\ i \in 1 .. 2
  BY DEF Str, Moving
<1>1. p \in Nat /\ le \in Nat /\ p < le /\ le <= Len(a) /\ o \in Nat /\ o <= Len(a) /\ p <= o /\ o <= le
  BY <1>0 DEF IsLine
<1>2. PICK e, d, c, u, lead, to : /\ e = list[i] /\ d = D[i - 1] /\ c = o - p /\ u = s
                                 /\ lead = ~StartAligned(a, list[i]) /\ to = AtCol(b, u, c)
  OBVIOUS
<1>3. lead \in BOOLEAN /\ (lead <=> ~StartAligned(a, list[i]))
  BY <1>2
<1>4. b \in Str
  BY AppliedTypes
<1>5. IsLine(b, u, u + (le - p))
  BY <1>2, MovedLine
<1>6. to = u + c /\ to # Lost /\ Snapped(b, to) = u + c
  <2>1. PICK t : t = u + (le - p)
    OBVIOUS
  <2>2. u \in Nat
    BY <1>5 DEF IsLine
  <2>3. c \in Nat /\ u + c <= t
    BY <2>1, <2>2, <1>1, <1>2
  <2> QED BY <2>1, <2>3, <1>2, <1>4, <1>5, ColumnOfLine
<1>7. Moved(a, b, list, e, Newlines(Slice(a, from, p)), c, lead) = to
  <2>1. Taking(a, list, i, j, p, le, from, s)
    BY DEF Taking
  <2>2. Moved(a, b, list, list[i], Newlines(Slice(a, from, p)), c, lead) = AtCol(b, s, c)
    BY <2>1, <1>3, MovedGoes
  <2> QED BY <2>2, <1>2
<1>8. BlockLine(a, b, list, e, e.pos + d, Newlines(Slice(a, from, p)), c, g, lead) = to
  BY <1>6, <1>7 DEF BlockLine
<1>9. MapBy(a, b, list, e, d, o, p, LineEnd(a, o), g) = to
  <2>1. CASE StartAligned(a, e)
    <3>1. e.pos \in Nat
      <4>1. i \in 1 .. Len(list)
        BY <1>0
      <4> QED BY <4>1, <1>0, <1>2, EditFacts
    <3>2. from = e.pos /\ lead = FALSE
      <4>1. First(a, list[i]) = 0
        BY <2>1, <1>2 DEF First
      <4>2. from = e.pos + 0
        BY <4>1, <1>2
      <4>3. from = e.pos
        BY <4>2, <3>1
      <4> QED BY <4>3, <2>1, <1>2, <1>3
    <3> QED BY <3>2, <2>1, <1>2, <1>8 DEF MapBy
  <2>2. CASE ~StartAligned(a, e)
    <3>1. from = e.pos + 1 /\ lead = TRUE
      BY <2>2, <1>2 DEF First
    <3>2. e \in Edit /\ WholeLines(a, e)
      <4>1. i \in 1 .. Len(list)
        BY <1>0
      <4> QED BY <4>1, <1>0, <1>2, EditFacts DEF Moving
    <3>3. e.pos # p
      BY <3>2, <2>2, WholeBeside DEF Beside
    <3>4. EndAligned(a, e)
      BY <3>2, <2>2 DEF WholeLines
    <3> QED BY <3>1, <3>3, <3>4, <2>2, <1>2, <1>8 DEF MapBy
  <2> QED BY <2>1, <2>2
<1>10. Deciding(a, list, p) = i
  BY <1>1, TakenDecides
<1>11. MapFrom(a, b, list, i, o, p, g) = to
  <2>1. ~(i > Len(list) \/ list[i].pos > p)
    <3>1. i \in 1 .. Len(list)
      BY <1>0
    <3>2. list[i].pos \in Nat
      BY <3>1, <1>0, EditFacts
    <3> QED BY <3>2, <1>0, <1>1
  <2> QED BY <2>1, <1>2, <1>9 DEF MapFrom
<1>12. MinOf(o, Len(a)) = o
  BY <1>0, <1>1, MinOfFacts
<1>13. LineStart(a, o) = p
  BY LineFrom
<1>14. MapOffset(a, b, list, o, g) = Snapped(b, to)
  BY <1>10, <1>11, <1>12, <1>13 DEF MapOffset
<1> QED BY <1>2, <1>6, <1>14

LEMMA MovesKeep ==
    ASSUME NEW a \in Str, NEW list, Canon(list, Len(a)), NoneJoins(a, list), MovesLines(a, list),
           NEW b, b = ApplyTo(list, a), NEW p, NEW q, SameText(a, b, p, q),
           NEW o \in p .. LineEnd(a, p), NEW g
    PROVE  MapOffset(a, b, list, o, g) = q + (o - p)
<1>0. Len(a) \in Nat /\ p \in Nat
  BY DEF Str, SameText, LinesOf
<1>1. \E i, j \in 1 .. Len(list) : Moving(a, list, i, j)
  BY DEF MovesLines, Moving
<1>2. PICK i \in 1 .. Len(list), j \in 1 .. Len(list) : Moving(a, list, i, j)
  BY <1>1
<1>3. Len(list) = 2 /\ i \in 1 .. 2 /\ j \in 1 .. 2 /\ i # j
  BY <1>2 DEF Moving
<1>4. WholeChange(a, list)
  <2>1. 1 .. Len(list) = {i, j}
    BY <1>3
  <2>2. WholeLines(a, list[i]) /\ WholeLines(a, list[j])
    BY <1>2 DEF Moving
  <2> QED BY <2>1, <2>2 DEF WholeChange
<1>5. CASE \E k \in 0 .. Len(list) : Untouched(list, p, k)
  BY <1>4, <1>5, UntouchedIsFound
<1>6. CASE \E n \in 1 .. Len(list) : list[n].pos <= p /\ p < End(list[n])
  <2>1. PICK n \in 1 .. Len(list) : list[n].pos <= p /\ p < End(list[n])
    BY <1>6
  <2>2. n # j
    <3>1. SUFFICES ASSUME n = j PROVE FALSE
      OBVIOUS
    <3>2. list[j].del = 0
      BY <1>2 DEF Moving
    <3>3. list[j].pos \in Nat
      BY <1>0, EditFacts
    <3> QED BY <3>1, <3>2, <3>3, <2>1, <1>0 DEF End
  <2>3. n = i
    BY <2>2, <1>3
  <2>4. PICK D, le : D = Deltas(list) /\ le = LineEnd(a, p)
    OBVIOUS
  <2>5. PICK from : from = list[i].pos + First(a, list[i])
    OBVIOUS
  <2>6. PICK s : s = list[j].pos + D[j - 1] + First(a, list[j]) + (p - from)
    OBVIOUS
  <2>7. IsLine(a, p, le)
    BY <2>4, LinesAre DEF SameText
  <2>8. b \in Str
    BY <2>4, AppliedTypes
  <2>9. IsLine(b, s, s + (le - p)) /\ LineText(b, s) = LineText(a, p)
    BY <2>1, <2>3, <2>4, <2>5, <2>6, <2>7, <1>2, MovedLine
  <2>10. s \in LinesOf(b)
    BY <2>8, <2>9, LineFacts
  <2>11. s = q
    BY <2>9, <2>10 DEF SameText, Unique
  <2>12. MapOffset(a, b, list, o, g) = s + (o - p)
    BY <2>1, <2>3, <2>4, <2>5, <2>6, <2>7, <1>2, TakenMaps
  <2> QED BY <2>11, <2>12
<1> QED BY <1>0, <1>5, <1>6, UntouchedOrTaken

\* A line position (a mark, a jump, a cursor of another window) stays on its
\* line and in its column through any change that only inserts, only deletes
\* or only moves whole lines (LineMap::map_offset), for texts and lists of any
\* length, when the line can be told from the others and no edits that touch
\* join two lines.
THEOREM MarksStay == Spec => []MarksStayOnTheirLine
<1>1. IInv => MarksStayOnTheirLine
  <2> SUFFICES ASSUME IInv, NoneJoins(old, last),
                      InsertsLines(old, last) \/ DeletesLines(old, last) \/ MovesLines(old, last),
                      NEW p \in LinesOf(old), NEW q \in LinesOf(buf), NEW g \in {"drop", "keep", "cursor"},
                      LineText(old, p) = LineText(buf, q), Unique(old, p), Unique(buf, q),
                      NEW o \in p .. LineEnd(old, p)
               PROVE  MapOffset(old, buf, last, o, g) = q + (o - p)
    BY DEF MarksStayOnTheirLine
  <2>1. buf \in Str /\ old \in Str /\ Canon(last, Len(old)) /\ buf = ApplyTo(last, old)
    BY HistoryFacts
  <2>2. SameText(old, buf, p, q)
    BY DEF SameText
  <2>3. CASE InsertsLines(old, last)
    BY <2>1, <2>2, <2>3, InsertsKeep
  <2>4. CASE DeletesLines(old, last)
    BY <2>1, <2>2, <2>4, DeletesKeep
  <2>5. CASE MovesLines(old, last)
    BY <2>1, <2>2, <2>5, MovesKeep
  <2> QED BY <2>3, <2>4, <2>5
<1> QED BY <1>1, Inductive, PTL
=============================================================================
