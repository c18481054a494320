-------------------------- MODULE AnchorStoreProofs -------------------------
(***************************************************************************)
(* Anchor stores of any size, over texts and edit lists of any length: the *)
(* store stays in order, removed ids stay dead, the tree of shifts reads   *)
(* what it should, and the batched sweep leaves every anchor where its     *)
(* rule alone puts it.                                                     *)
(***************************************************************************)
EXTENDS LineIndexProofs, AnchorStore
----------------------------------------------------------------------------
(* Sorting by counting what goes before.                                   *)

\* lt[x] is what goes before x: a strict total order.
IsOrder(S, lt) ==
    /\ lt \in [S -> SUBSET S]
    /\ \A x \in S : x \notin lt[x]
    /\ \A x, y \in S : y \in lt[x] => lt[y] \subseteq lt[x]
    /\ \A x, y \in S : x # y => y \in lt[x] \/ x \in lt[y]

\* f[i] has i - 1 elements before it, when one has.
IsListing(S, lt, f) ==
    /\ DOMAIN f = 1 .. Cardinality(S) /\ f = [i \in DOMAIN f |-> f[i]]
    /\ \A i \in 1 .. Cardinality(S), x \in S :
          Cardinality(lt[x]) = i - 1 => f[i] \in S /\ Cardinality(lt[f[i]]) = i - 1

\* Every element is listed once, in order.
Listed(S, lt, f, N) ==
    /\ N \in Nat /\ f \in [1 .. N -> S]
    /\ \A x \in S : \E i \in 1 .. N : f[i] = x
    /\ \A i, j \in 1 .. N : f[i] = f[j] => i = j
    /\ \A i, j \in 1 .. N : i < j => f[i] \in lt[f[j]]

LEMMA CountsAreUnique ==
    ASSUME NEW S, IsFiniteSet(S), NEW lt, IsOrder(S, lt), NEW c, c = [x \in S |-> Cardinality(lt[x])]
    PROVE  /\ c \in Bijection(S, 0 .. Cardinality(S) - 1)
           /\ \A x, y \in S : y \in lt[x] => c[y] < c[x]
<1>0. Cardinality(S) \in Nat
  BY FS_CardinalityType
<1>1. ASSUME NEW x \in S
      PROVE  /\ IsFiniteSet(lt[x]) /\ Cardinality(lt[x]) \in Nat /\ Cardinality(lt[x]) <= Cardinality(S) - 1
             /\ c[x] = Cardinality(lt[x])
  <2>1. lt[x] \in SUBSET (S \ {x})
    BY DEF IsOrder
  <2>2. IsFiniteSet(S \ {x}) /\ Cardinality(S \ {x}) = Cardinality(S) - 1
    BY FS_RemoveElement
  <2>3. IsFiniteSet(lt[x]) /\ Cardinality(lt[x]) <= Cardinality(S \ {x})
    BY <2>1, <2>2, FS_Subset
  <2>4. Cardinality(lt[x]) \in Nat
    BY <2>3, FS_CardinalityType
  <2> QED BY <2>2, <2>3, <2>4
<1>2. ASSUME NEW x \in S, NEW y \in S, y \in lt[x] PROVE c[y] < c[x]
  <2>1. lt[y] \in SUBSET lt[x] /\ y \in lt[x] /\ y \notin lt[y] /\ lt[x] # lt[y]
    BY <1>2 DEF IsOrder
  <2>2. /\ Cardinality(lt[y]) <= Cardinality(lt[x])
        /\ Cardinality(lt[x]) = Cardinality(lt[y]) => lt[x] = lt[y]
    BY <2>1, <1>1, FS_Subset
  <2> QED BY <2>1, <2>2, <1>1
<1>3. c \in [S -> 0 .. Cardinality(S) - 1]
  BY <1>0, <1>1
<1>4. ASSUME NEW x \in S, NEW y \in S, c[x] = c[y] PROVE x = y
  <2>1. c[x] \in Nat /\ c[y] \in Nat
    BY <1>1
  <2> QED BY <2>1, <1>2, <1>4 DEF IsOrder
<1>5. c \in Injection(S, 0 .. Cardinality(S) - 1)
  BY <1>3, <1>4 DEF Injection, IsInjective
<1>6. IsFiniteSet(0 .. Cardinality(S) - 1) /\ Cardinality(0 .. Cardinality(S) - 1) = Cardinality(S)
  <2>1. PICK k \in Nat : k = Cardinality(S)
    BY <1>0
  <2>2. IsFiniteSet(0 .. k - 1) /\ Cardinality(0 .. k - 1) = IF 0 > k - 1 THEN 0 ELSE k - 1 - 0 + 1
    BY FS_Interval
  <2> QED BY <2>1, <2>2
<1>7. c \in Surjection(S, 0 .. Cardinality(S) - 1)
  BY <1>5, <1>6, FS_Injection
<1> QED BY <1>2, <1>5, <1>7 DEF Bijection

LEMMA ListingFacts ==
    ASSUME NEW S, IsFiniteSet(S), NEW lt, IsOrder(S, lt), NEW f, IsListing(S, lt, f)
    PROVE  Listed(S, lt, f, Cardinality(S))
<1>1. PICK c : c = [x \in S |-> Cardinality(lt[x])]
  OBVIOUS
<1>2. PICK N \in Nat : N = Cardinality(S)
  BY FS_CardinalityType
<1>3. c \in Bijection(S, 0 .. N - 1) /\ \A x, y \in S : y \in lt[x] => c[y] < c[x]
  BY <1>1, <1>2, CountsAreUnique
<1>4. /\ \A x \in S : c[x] \in 0 .. N - 1
      /\ \A x, y \in S : c[x] = c[y] => x = y
      /\ \A v \in 0 .. N - 1 : \E x \in S : c[x] = v
  BY <1>3 DEF Bijection, Injection, IsInjective, Surjection
<1>5. \A i \in 1 .. N, x \in S : c[x] = i - 1 => f[i] \in S /\ c[f[i]] = i - 1
  BY <1>1, <1>2 DEF IsListing
<1>6. ASSUME NEW i \in 1 .. N PROVE f[i] \in S /\ c[f[i]] = i - 1
  <2>1. PICK x \in S : c[x] = i - 1
    BY <1>4
  <2> QED BY <2>1, <1>5
<1>7. f \in [1 .. N -> S]
  BY <1>2, <1>6 DEF IsListing
<1>8. ASSUME NEW x \in S PROVE \E i \in 1 .. N : f[i] = x
  <2>1. c[x] + 1 \in 1 .. N /\ (c[x] + 1) - 1 = c[x]
    BY <1>4
  <2>2. f[c[x] + 1] = x
    BY <2>1, <1>4, <1>6
  <2> QED BY <2>1, <2>2
<1>9. ASSUME NEW i \in 1 .. N, NEW j \in 1 .. N, f[i] = f[j] PROVE i = j
  BY <1>6, <1>9
<1>10. ASSUME NEW i \in 1 .. N, NEW j \in 1 .. N, i < j PROVE f[i] \in lt[f[j]]
  <2>1. f[i] # f[j] /\ ~(c[f[j]] < c[f[i]])
    BY <1>6, <1>10
  <2> QED BY <2>1, <1>3, <1>6 DEF IsOrder
<1>11. Listed(S, lt, f, N)
  BY <1>2, <1>7, <1>8, <1>9, <1>10 DEF Listed
<1> QED BY <1>2, <1>11
----------------------------------------------------------------------------
(* The tree of pending shifts, for any number of ranks.                    *)

K == 2 * MaxIds

LEMMA KFacts == K \in Nat /\ MaxIds \in Nat /\ K = MaxIds + MaxIds
BY StoreAssumption DEF K

\* Strong induction.
LEMMA StrongInduct ==
    ASSUME NEW P \in SUBSET Nat, \A n \in Nat : (\A m \in 0 .. n - 1 : m \in P) => n \in P
    PROVE  P = Nat
<1> DEFINE Q == {n \in Nat : \A m \in 0 .. n - 1 : m \in P}
<1>1. 0 \in Q
  OBVIOUS
<1>2. ASSUME NEW n \in Q PROVE n + 1 \in Q
  <2>1. n \in Nat /\ n \in P
    OBVIOUS
  <2>2. ASSUME NEW m \in 0 .. (n + 1) - 1 PROVE m \in P
    <3>1. m = n \/ m \in 0 .. n - 1
      BY <2>1
    <3> QED BY <2>1, <3>1
  <2> QED BY <2>1, <2>2
<1>3. Q = Nat
  <2>1. Q \in SUBSET Nat
    OBVIOUS
  <2> HIDE DEF Q
  <2> QED BY <1>1, <1>2, <2>1, Induct
<1>4. ASSUME NEW n \in Nat PROVE n \in P
  <2>1. n + 1 \in Q /\ n \in 0 .. (n + 1) - 1
    BY <1>3
  <2> QED BY <2>1
<1> QED BY <1>4

LEMMA HalfFacts ==
    ASSUME NEW i \in Nat, i > 0
    PROVE  /\ i % 2 = 1 => \E c \in Nat : i = 2 * c + 1
           /\ i % 2 # 1 => i \div 2 \in Nat /\ i \div 2 > 0 /\ i \div 2 < i /\ i = 2 * (i \div 2)
<1>1. i = 2 * (i \div 2) + (i % 2) /\ i \div 2 \in Nat /\ i % 2 \in 0 .. 1
  OBVIOUS
<1> QED BY <1>1

\* The recursion of LowestOne is well founded.
LEMMA LowestDef ==
    \A i \in 1 .. K : LowestOne[i] = IF i % 2 = 1 THEN 1 ELSE 2 * LowestOne[i \div 2]
<1> DEFINE val(g, i) == IF i % 2 = 1 THEN 1 ELSE 2 * g[i \div 2]
           Rec(g, m) == g = [i \in 1 .. m |-> val(g, i)]
           P == {m \in Nat : \E g : Rec(g, m)}
<1>1. 0 \in P
  <2> DEFINE h == [i \in 1 .. 0 |-> 0]
  <2>1. Rec(h, 0)
    OBVIOUS
  <2> QED BY <2>1
<1>2. ASSUME NEW m \in P PROVE m + 1 \in P
  <2>0. m \in Nat
    OBVIOUS
  <2>1. PICK g : Rec(g, m)
    OBVIOUS
  <2>2. \A i \in 1 .. m : g[i] = val(g, i)
    BY <2>1
  <2> DEFINE h == [i \in 1 .. m + 1 |-> IF i = m + 1 THEN val(g, i) ELSE g[i]]
  <2>3. ASSUME NEW i \in 1 .. m + 1 PROVE h[i] = val(h, i)
    <3>1. h[i] = val(g, i)
      BY <2>2
    <3>2. i % 2 # 1 => i \div 2 \in 1 .. m
      <4>1. i \in Nat /\ i > 0
        BY <2>0
      <4>2. i % 2 # 1 => i \div 2 \in Nat /\ i \div 2 > 0 /\ i \div 2 < i
        BY <4>1, HalfFacts
      <4> QED BY <4>2, <2>0
    <3>3. \A j \in 1 .. m : h[j] = g[j]
      BY <2>0
    <3> HIDE DEF h
    <3> QED BY <3>1, <3>2, <3>3
  <2>4. h = [i \in 1 .. m + 1 |-> h[i]]
    OBVIOUS
  <2> HIDE DEF h, val
  <2>5. Rec(h, m + 1)
    <3>1. [i \in 1 .. m + 1 |-> h[i]] = [i \in 1 .. m + 1 |-> val(h, i)]
      BY <2>3
    <3> QED BY <3>1, <2>4, Zenon
  <2> HIDE DEF Rec
  <2>6. \E k : Rec(k, m + 1)
    BY <2>5
  <2>7. m + 1 \in Nat
    OBVIOUS
  <2> QED BY <2>6, <2>7
<1>3. P = Nat
  <2>1. P \in SUBSET Nat
    OBVIOUS
  <2> HIDE DEF P
  <2> QED BY <1>1, <1>2, <2>1, Induct
<1>4. \E g : Rec(g, K)
  BY <1>3, KFacts
<1>5. LowestOne = CHOOSE g : Rec(g, K)
  BY DEF LowestOne, K
<1>6. Rec(LowestOne, K)
  BY <1>4, <1>5
<1>7. PICK f : f = LowestOne
  OBVIOUS
<1>8. \A i \in 1 .. K : f[i] = val(f, i)
  BY <1>6, <1>7
<1> QED BY <1>7, <1>8

\* The lowest one divides the number, with an odd quotient.
LEMMA LowestDivides ==
    \A i \in 1 .. K : /\ LowestOne[i] \in Nat /\ LowestOne[i] > 0 /\ LowestOne[i] <= i
                      /\ \E c \in Nat : i = LowestOne[i] * (2 * c + 1)
<1> DEFINE Good(i) == /\ LowestOne[i] \in Nat /\ LowestOne[i] > 0 /\ LowestOne[i] <= i
                      /\ \E c \in Nat : i = LowestOne[i] * (2 * c + 1)
           P == {i \in Nat : i \in 1 .. K => Good(i)}
<1>1. ASSUME NEW i \in Nat, \A m \in 0 .. i - 1 : m \in P PROVE i \in P
  <2> SUFFICES ASSUME i \in 1 .. K PROVE Good(i)
    OBVIOUS
  <2>0. i > 0
    BY KFacts
  <2>1. CASE i % 2 = 1
    <3>1. PICK c \in Nat : i = 2 * c + 1
      BY <2>0, <2>1, HalfFacts
    <3>2. LowestOne[i] = 1
      BY <2>1, LowestDef
    <3>3. i = 1 * (2 * c + 1)
      BY <3>1
    <3> QED BY <3>1, <3>2, <3>3, <2>0
  <2>2. CASE i % 2 # 1
    <3>1. PICK j, l : j = i \div 2 /\ l = LowestOne[j]
      OBVIOUS
    <3>2. j \in Nat /\ j > 0 /\ j < i /\ i = 2 * j
      BY <2>0, <2>2, <3>1, HalfFacts
    <3>3. j \in 0 .. i - 1 /\ j \in 1 .. K
      BY <3>2, KFacts
    <3>4. Good(j)
      BY <3>3, <1>1
    <3>5. PICK c \in Nat : j = l * (2 * c + 1)
      BY <3>1, <3>4
    <3>6. LowestOne[i] = 2 * l
      BY <2>2, <3>1, LowestDef
    <3>7. l \in Nat /\ l > 0 /\ l <= j
      BY <3>1, <3>4
    <3>8. i = (2 * l) * (2 * c + 1)
      BY <3>2, <3>5, <3>7
    <3>9. 2 * l \in Nat /\ 2 * l > 0 /\ 2 * l <= i
      BY <3>2, <3>7
    <3> HIDE DEF P
    <3> QED BY <3>6, <3>8, <3>9
  <2> QED BY <2>1, <2>2
<1>2. P = Nat
  <2>1. P \in SUBSET Nat
    OBVIOUS
  <2> HIDE DEF P
  <2> QED BY <1>1, <2>1, StrongInduct
<1> QED BY <1>2, KFacts

\* Of two of them the smaller divides the larger, and twice if it is smaller.
LEMMA LowestNested ==
    \A i \in 1 .. K : \A j \in 1 .. K :
        /\ LowestOne[i] = LowestOne[j] \/ LowestOne[i] < LowestOne[j] \/ LowestOne[j] < LowestOne[i]
        /\ LowestOne[i] < LowestOne[j] => \E e \in Nat : LowestOne[j] = 2 * (LowestOne[i] * e)
<1> DEFINE Good(i) == \A j \in 1 .. K :
                        LowestOne[i] < LowestOne[j] => \E e \in Nat : LowestOne[j] = 2 * (LowestOne[i] * e)
           P == {i \in Nat : i \in 1 .. K => Good(i)}
<1>1. ASSUME NEW i \in Nat, \A m \in 0 .. i - 1 : m \in P PROVE i \in P
  <2> SUFFICES ASSUME i \in 1 .. K, NEW j \in 1 .. K, LowestOne[i] < LowestOne[j]
               PROVE  \E e \in Nat : LowestOne[j] = 2 * (LowestOne[i] * e)
    OBVIOUS
  <2>0. i > 0 /\ j > 0 /\ j \in Nat
    BY KFacts
  <2>3. LowestOne[i] \in Nat /\ LowestOne[i] > 0 /\ LowestOne[j] \in Nat
    BY LowestDivides
  <2>4. j % 2 # 1
    <3>1. j % 2 = 1 => LowestOne[j] = 1
      BY LowestDef
    <3> QED BY <3>1, <2>3
  <2>5. PICK y, b : y = j \div 2 /\ b = LowestOne[y]
    OBVIOUS
  <2>6. y \in Nat /\ y > 0 /\ y < j
    BY <2>0, <2>4, <2>5, HalfFacts
  <2>7. y \in 1 .. K
    BY <2>6, KFacts
  <2>8. LowestOne[j] = 2 * b
    BY <2>4, <2>5, LowestDef
  <2>9. b \in Nat
    BY <2>5, <2>7, LowestDivides
  <2>1. CASE i % 2 = 1
    <3>1. LowestOne[i] = 1
      BY <2>1, LowestDef
    <3>2. 2 * b = 2 * (1 * b)
      BY <2>9
    <3> QED BY <3>1, <3>2, <2>8, <2>9
  <2>2. CASE i % 2 # 1
    <3>1. PICK x, a : x = i \div 2 /\ a = LowestOne[x]
      OBVIOUS
    <3>2. x \in Nat /\ x > 0 /\ x < i
      BY <2>0, <2>2, <3>1, HalfFacts
    <3>3. x \in 0 .. i - 1 /\ x \in 1 .. K
      BY <3>2, KFacts
    <3>4. Good(x)
      BY <3>3, <1>1
    <3>5. LowestOne[i] = 2 * a
      BY <2>2, <3>1, LowestDef
    <3>6. a \in Nat
      BY <3>1, <3>3, LowestDivides
    <3>7. a < b
      BY <3>5, <3>6, <2>8, <2>9
    <3>8. PICK e \in Nat : b = 2 * (a * e)
      BY <3>1, <3>4, <3>7, <2>5, <2>7
    <3>9. 2 * b = 2 * ((2 * a) * e)
      BY <3>6, <3>8
    <3> HIDE DEF P
    <3> QED BY <3>5, <3>9, <2>8
  <2> QED BY <2>1, <2>2
<1>2. P = Nat
  <2>1. P \in SUBSET Nat
    OBVIOUS
  <2> HIDE DEF P
  <2> QED BY <1>1, <2>1, StrongInduct
<1>3. \A i \in 1 .. K : LowestOne[i] \in Nat
  BY LowestDivides
<1>4. \A i \in 1 .. K : Good(i)
  BY <1>2, KFacts
<1> QED BY <1>3, <1>4

LEMMA Factor ==
    ASSUME NEW a \in Nat, a > 0, NEW u \in Int, NEW v \in Int
    PROVE  /\ a * u < a * v => u + 1 <= v
           /\ u + 1 <= v => a * u + a <= a * v
<1>1. u + 1 <= v => a * u + a <= a * v
  <2> SUFFICES ASSUME u + 1 <= v PROVE a * u + a <= a * v
    OBVIOUS
  <2>1. PICK w : w = v - (u + 1)
    OBVIOUS
  <2>2. w \in Nat /\ v = u + 1 + w
    BY <2>1
  <2>3. a * v = (a * u + a) + a * w /\ a * w \in Nat
    BY <2>2
  <2> QED BY <2>3
<1>2. a * u < a * v => u + 1 <= v
  <2> SUFFICES ASSUME v <= u PROVE a * v <= a * u
    OBVIOUS
  <2>1. PICK w : w = u - v
    OBVIOUS
  <2>2. w \in Nat /\ u = v + w
    BY <2>1
  <2>3. a * u = a * v + a * w /\ a * w \in Nat
    BY <2>2
  <2> QED BY <2>3
<1> QED BY <1>1, <1>2

\* The ranks a node of the tree stands for.
Covers(x, r) == x - LowestOne[x] < r /\ r <= x

\* A later node covers r just when it covers the next node of r's path.
LEMMA CoversUp ==
    ASSUME NEW r \in 1 .. K, NEW x \in 1 .. K, r < x
    PROVE  Covers(x, r) <=> Covers(x, r + LowestOne[r])
<1>1. PICK a, b : a = LowestOne[r] /\ b = LowestOne[x]
  OBVIOUS
<1>2. /\ a \in Nat /\ a > 0 /\ a <= r /\ b \in Nat /\ b > 0 /\ b <= x /\ r \in Nat /\ x \in Nat
  BY <1>1, LowestDivides, KFacts
<1>3. PICK c \in Nat : r = a * (2 * c + 1)
  BY <1>1, LowestDivides
<1>4. PICK d \in Nat : x = b * (2 * d + 1)
  BY <1>1, LowestDivides
<1>5. a = b \/ (\E e \in Nat : b = 2 * (a * e)) \/ (\E e \in Nat : a = 2 * (b * e))
  BY <1>1, LowestNested
<1>6. a < b => \E e \in Nat : b = 2 * (a * e)
  BY <1>1, LowestNested
<1>7. b < a => \E e \in Nat : a = 2 * (b * e)
  BY <1>1, LowestNested
<1>8. ASSUME x - b < r PROVE r + a <= x
  <2>1. CASE a < b
    <3>1. PICK e \in Nat : b = 2 * (a * e)
      BY <2>1, <1>6
    <3>2. PICK u, v : u = 2 * c + 1 /\ v = 2 * (e * (2 * d + 1))
      OBVIOUS
    <3>3. u \in Int /\ v \in Int /\ r = a * u
      BY <3>2, <1>3
    <3>4. x = a * v
      BY <1>2, <1>4, <3>1, <3>2
    <3> QED BY <1>2, <3>3, <3>4, Factor
  <2>2. CASE ~(a < b)
    <3>1. \E k \in Nat : r = b * k
      <4>1. CASE a = b
        BY <4>1, <1>3
      <4>2. CASE b < a
        <5>1. PICK e \in Nat : a = 2 * (b * e)
          BY <4>2, <1>7
        <5>2. r = b * (2 * (e * (2 * c + 1)))
          BY <5>1, <1>2, <1>3
        <5> QED BY <5>2
      <4> QED BY <4>1, <4>2, <2>2, <1>2
    <3>2. PICK k \in Nat : r = b * k
      BY <3>1
    <3>3. PICK u, v : u = 2 * d /\ v = 2 * d + 1
      OBVIOUS
    <3>4. u \in Int /\ v \in Int /\ v = u + 1 /\ k \in Int
      BY <3>3
    <3>5. x = b * v /\ x - b = b * u
      BY <1>2, <1>4, <3>3
    <3>6. u + 1 <= k
      BY <1>8, <1>2, <3>2, <3>4, <3>5, Factor
    <3>7. k + 1 <= v
      BY <1>2, <3>2, <3>4, <3>5, Factor
    <3> QED BY <3>4, <3>6, <3>7
  <2> QED BY <2>1, <2>2
<1>9. ASSUME r + a <= x, x - b < r + a, r <= x - b PROVE FALSE
  <2>0. x - b = b * (2 * d)
    BY <1>2, <1>4
  <2>1. CASE a <= b
    <3>1. \E e \in Nat : b = a * e
      <4>1. CASE a = b
        <5>1. b = a * 1
          BY <4>1, <1>2
        <5> QED BY <5>1
      <4>2. CASE a < b
        <5>1. PICK e \in Nat : b = 2 * (a * e)
          BY <4>2, <1>6
        <5>2. b = a * (2 * e)
          BY <5>1, <1>2
        <5> QED BY <5>2
      <4> QED BY <4>1, <4>2, <2>1, <1>2
    <3>2. PICK e \in Nat : b = a * e
      BY <3>1
    <3>3. PICK u, v, w : u = 2 * c + 1 /\ v = 2 * (d * e) /\ w = u + 1
      OBVIOUS
    <3>4. u \in Int /\ v \in Int /\ w \in Int /\ r = a * u
      BY <3>3, <1>3
    <3>5. x - b = a * v
      BY <2>0, <3>2, <3>3, <1>2
    <3>6. r + a = a * w
      BY <3>3, <3>4, <1>2
    <3>7. v + 1 <= w
      BY <1>2, <1>9, <3>4, <3>5, <3>6, Factor
    <3>8. u <= v
      <4>1. v + 1 <= u => a * v + a <= a * u
        BY <1>2, <3>4, Factor
      <4> QED BY <4>1, <1>9, <1>2, <3>4, <3>5
    <3>9. u = v
      BY <3>3, <3>4, <3>7, <3>8
    <3> QED BY <3>3, <3>9
  <2>2. CASE b < a
    <3>1. PICK e \in Nat : a = 2 * (b * e)
      BY <2>2, <1>7
    <3>2. PICK q, u, v : q = 2 * b /\ u = d /\ v = e * (2 * c + 1) + e
      OBVIOUS
    <3>3. q \in Nat /\ q > 0 /\ u \in Int /\ v \in Int
      BY <3>2, <1>2
    <3>4. x - b = q * u
      BY <2>0, <3>2, <1>2
    <3>5. r + a = q * v
      BY <1>2, <1>3, <3>1, <3>2
    <3>6. u + 1 <= v
      BY <1>9, <3>3, <3>4, <3>5, Factor
    <3>7. q * u + q <= q * v
      BY <3>3, <3>6, Factor
    <3> QED BY <1>2, <1>9, <3>2, <3>4, <3>5, <3>7
  <2> QED BY <2>1, <2>2, <1>2
<1> QED BY <1>1, <1>2, <1>8, <1>9 DEF Covers

\* The recursion of UpPath ends.
LEMMA UpPathDef ==
    \A i \in 1 .. K : UpPath[i] = IF i > MaxIds THEN {} ELSE {i} \cup UpPath[i + LowestOne[i]]
<1> DEFINE val(g, i) == IF i > MaxIds THEN {} ELSE {i} \cup g[i + LowestOne[i]]
           Rec(g, m) == g = [i \in (K + 1) - m .. K |-> val(g, i)]
           P == {m \in Nat : m <= K => \E g : Rec(g, m)}
<1>1. 0 \in P
  <2> DEFINE h == [i \in (K + 1) - 0 .. K |-> 0]
  <2>1. \A i \in (K + 1) - 0 .. K : FALSE
    BY KFacts
  <2>2. Rec(h, 0)
    BY <2>1
  <2> QED BY <2>2
<1>2. ASSUME NEW m \in P PROVE m + 1 \in P
  <2>0. m \in Nat /\ m + 1 \in Nat
    OBVIOUS
  <2> SUFFICES ASSUME m + 1 <= K PROVE \E g : Rec(g, m + 1)
    BY <2>0
  <2>1. PICK g : Rec(g, m)
    BY <2>0, KFacts
  <2>2. \A i \in (K + 1) - m .. K : g[i] = val(g, i)
    BY <2>1
  <2>k. PICK k : k = (K + 1) - (m + 1)
    OBVIOUS
  <2>r. k \in 1 .. K /\ k = (K + 1) - (m + 1) /\ k + 1 = (K + 1) - m
    BY <2>0, <2>k, KFacts
  <2> DEFINE h == [i \in k .. K |-> IF i = k THEN val(g, i) ELSE g[i]]
  <2>3. ASSUME NEW i \in k .. K PROVE h[i] = val(h, i)
    <3>0. i \in 1 .. K /\ (i # k => i \in (K + 1) - m .. K)
      BY <2>r, KFacts
    <3>1. h[i] = val(g, i)
      BY <2>2, <3>0
    <3>2. ~(i > MaxIds) => i + LowestOne[i] \in (K + 1) - m .. K
      <4>1. LowestOne[i] \in Nat /\ LowestOne[i] > 0 /\ LowestOne[i] <= i
        BY <3>0, LowestDivides
      <4> QED BY <4>1, <3>0, <2>r, KFacts
    <3>3. \A j \in (K + 1) - m .. K : h[j] = g[j]
      BY <2>r, <2>0, KFacts
    <3> HIDE DEF h
    <3> QED BY <3>1, <3>2, <3>3
  <2>4. h = [i \in k .. K |-> h[i]]
    OBVIOUS
  <2> HIDE DEF h, val
  <2>5. Rec(h, m + 1)
    <3>1. [i \in k .. K |-> h[i]] = [i \in k .. K |-> val(h, i)]
      BY <2>3
    <3> QED BY <3>1, <2>4, <2>k, Zenon
  <2> HIDE DEF Rec
  <2> QED BY <2>5
<1>3. P = Nat
  <2>1. P \in SUBSET Nat
    OBVIOUS
  <2> HIDE DEF P
  <2> QED BY <1>1, <1>2, <2>1, Induct
<1>4. \E g : Rec(g, K)
  <2>1. K \in Nat /\ K <= K
    BY KFacts
  <2>2. K \in P
    BY <1>3, <2>1
  <2> HIDE DEF Rec
  <2> QED BY <2>1, <2>2
<1>5. (K + 1) - K = 1
  BY KFacts
<1>6. UpPath = CHOOSE g : g = [i \in 1 .. K |-> val(g, i)]
  BY DEF UpPath, K
<1>7. \E g : g = [i \in 1 .. K |-> val(g, i)]
  BY <1>4, <1>5
<1>8. UpPath = [i \in 1 .. K |-> val(UpPath, i)]
  BY <1>6, <1>7
<1>9. PICK f : f = UpPath
  OBVIOUS
<1>10. \A i \in 1 .. K : f[i] = val(f, i)
  BY <1>8, <1>9
<1> QED BY <1>9, <1>10

\* add_from visits the nodes that cover the rank it starts from.
LEMMA UpPathCovers ==
    \A r \in 1 .. K : \A x \in 1 .. MaxIds : x \in UpPath[r] <=> Covers(x, r)
<1> DEFINE Good(r) == \A x \in 1 .. MaxIds : x \in UpPath[r] <=> Covers(x, r)
           P == {m \in Nat : m < K => Good(K - m)}
<1>1. ASSUME NEW m \in Nat, \A k \in 0 .. m - 1 : k \in P PROVE m \in P
  <2> SUFFICES ASSUME m < K PROVE Good(K - m)
    OBVIOUS
  <2>1. PICK r : r = K - m
    OBVIOUS
  <2>2. r \in 1 .. K /\ r \in Nat /\ m = K - r
    BY <2>1, KFacts
  <2> SUFFICES ASSUME NEW x \in 1 .. MaxIds PROVE x \in UpPath[r] <=> Covers(x, r)
    BY <2>1
  <2>3. x \in 1 .. K /\ x \in Nat
    BY KFacts
  <2>4. LowestOne[r] \in Nat /\ LowestOne[r] > 0 /\ LowestOne[r] <= r
    BY <2>2, LowestDivides
  <2>4b. LowestOne[x] \in Nat /\ LowestOne[x] > 0 /\ LowestOne[x] <= x
    BY <2>3, LowestDivides
  <2>5. CASE r > MaxIds
    <3>1. UpPath[r] = {}
      BY <2>2, <2>5, UpPathDef
    <3>2. ~(r <= x)
      BY <2>2, <2>5, KFacts
    <3> QED BY <3>1, <3>2 DEF Covers
  <2>6. CASE r <= MaxIds
    <3>1. PICK u : u = r + LowestOne[r]
      OBVIOUS
    <3>2. u \in 1 .. K /\ K - u \in 0 .. m - 1 /\ K - (K - u) = u /\ K - u < K
      BY <2>2, <2>4, <2>6, <3>1, KFacts
    <3>3. Good(u)
      <4>1. K - u \in P
        BY <3>2, <1>1
      <4> QED BY <4>1, <3>2
    <3>4. UpPath[r] = {r} \cup UpPath[u]
      <4>1. ~(r > MaxIds)
        BY <2>2, <2>6, KFacts
      <4>2. UpPath[r] = {r} \cup UpPath[r + LowestOne[r]]
        BY <2>2, <4>1, UpPathDef
      <4> QED BY <3>1, <4>2
    <3>5. CASE x = r
      BY <3>4, <3>5, <2>2, <2>4 DEF Covers
    <3>6. CASE x < r
      <4>1. ~Covers(x, r) /\ ~Covers(x, u)
        BY <3>1, <3>6, <2>2, <2>3, <2>4 DEF Covers
      <4> QED BY <4>1, <3>3, <3>4, <3>6, <2>2, <2>3
    <3>7. CASE r < x
      <4>1. Covers(x, r) <=> Covers(x, u)
        BY <3>1, <3>7, <2>2, <2>3, CoversUp
      <4>2. x # r
        BY <3>7, <2>2, <2>3
      <4> QED BY <4>1, <4>2, <3>3, <3>4
    <3> QED BY <3>5, <3>6, <3>7, <2>2, <2>3
  <2> QED BY <2>5, <2>6, <2>2, KFacts
<1>2. P = Nat
  <2>1. P \in SUBSET Nat
    OBVIOUS
  <2> HIDE DEF P
  <2> QED BY <1>1, <2>1, StrongInduct
<1>3. ASSUME NEW r \in 1 .. K PROVE Good(r)
  <2>1. K - r \in Nat /\ K - r < K /\ K - (K - r) = r
    BY KFacts
  <2>2. K - r \in P
    BY <2>1, <1>2
  <2> QED BY <2>1, <2>2
<1> QED BY <1>3

LEMMA SumsDef ==
    ASSUME NEW tree \in Seq(Int), Len(tree) <= MaxIds, NEW f, f = Sums(tree)
    PROVE  f[0] = 0 /\ \A i \in 1 .. Len(tree) : f[i] = tree[i] + f[i - LowestOne[i]]
<1> DEFINE N == Len(tree)
           val(g, i) == IF i = 0 THEN 0 ELSE tree[i] + g[i - LowestOne[i]]
           Rec(g, m) == g = [i \in 0 .. m |-> val(g, i)]
           P == {m \in Nat : m <= N => \E g : Rec(g, m)}
<1>0. N \in Nat /\ N <= MaxIds
  OBVIOUS
<1>l. ASSUME NEW i \in 1 .. N PROVE i - LowestOne[i] \in 0 .. i - 1
  <2>1. i \in 1 .. K
    BY <1>0, KFacts
  <2>2. LowestOne[i] \in Nat /\ LowestOne[i] > 0 /\ LowestOne[i] <= i
    BY <2>1, LowestDivides
  <2> QED BY <2>2, <1>0
<1> HIDE DEF N
<1>1. 0 \in P
  <2> DEFINE h == [i \in 0 .. 0 |-> 0]
  <2>1. Rec(h, 0)
    OBVIOUS
  <2> QED BY <2>1
<1>2. ASSUME NEW m \in P PROVE m + 1 \in P
  <2>0. m \in Nat /\ m + 1 \in Nat
    OBVIOUS
  <2> SUFFICES ASSUME m + 1 <= N PROVE \E g : Rec(g, m + 1)
    BY <2>0
  <2>1. PICK g : Rec(g, m)
    BY <2>0, <1>0
  <2>2. \A i \in 0 .. m : g[i] = val(g, i)
    BY <2>1
  <2> DEFINE h == [i \in 0 .. m + 1 |-> IF i = m + 1 THEN val(g, i) ELSE g[i]]
  <2>3. ASSUME NEW i \in 0 .. m + 1 PROVE h[i] = val(h, i)
    <3>1. h[i] = val(g, i)
      BY <2>2
    <3>2. i # 0 => i - LowestOne[i] \in 0 .. m
      <4>1. i # 0 => i \in 1 .. N
        BY <2>0, <1>0
      <4> QED BY <4>1, <1>l, <2>0
    <3>3. \A j \in 0 .. m : h[j] = g[j]
      BY <2>0
    <3> HIDE DEF h
    <3> QED BY <3>1, <3>2, <3>3
  <2>4. h = [i \in 0 .. m + 1 |-> h[i]]
    OBVIOUS
  <2> HIDE DEF h, val
  <2>5. Rec(h, m + 1)
    <3>1. [i \in 0 .. m + 1 |-> h[i]] = [i \in 0 .. m + 1 |-> val(h, i)]
      BY <2>3
    <3> QED BY <3>1, <2>4, Zenon
  <2> HIDE DEF Rec
  <2> QED BY <2>5
<1>3. P = Nat
  <2>1. P \in SUBSET Nat
    OBVIOUS
  <2> HIDE DEF P
  <2> QED BY <1>1, <1>2, <2>1, Induct
<1>4. \E g : Rec(g, N)
  <2>1. N \in Nat /\ N <= N
    BY <1>0
  <2>2. N \in P
    BY <1>3, <2>1
  <2> HIDE DEF Rec
  <2> QED BY <2>1, <2>2
<1>5. f = CHOOSE g : Rec(g, N)
  BY DEF Sums, N
<1>6. Rec(f, N)
  BY <1>4, <1>5
<1>7. f[0] = 0
  BY <1>6, <1>0
<1>8. \A i \in 1 .. N : f[i] = tree[i] + f[i - LowestOne[i]]
  BY <1>6, <1>0
<1> QED BY <1>7, <1>8 DEF N

\* The shifts are integers, and none is pending in a fresh tree.
LEMMA ShiftTyped ==
    ASSUME NEW tree \in Seq(Int), Len(tree) <= MaxIds
    PROVE  \A q \in 0 .. Len(tree) :
              ShiftAt(tree, q) \in Int /\ ((\A i \in 1 .. Len(tree) : tree[i] = 0) => ShiftAt(tree, q) = 0)
<1>1. PICK f, N : f = Sums(tree) /\ N = Len(tree)
  OBVIOUS
<1>2. N \in Nat /\ N <= MaxIds /\ \A i \in 1 .. N : tree[i] \in Int
  BY <1>1
<1>3. f[0] = 0 /\ \A i \in 1 .. N : f[i] = tree[i] + f[i - LowestOne[i]]
  BY <1>1, SumsDef
<1> DEFINE P == {q \in Nat : q <= N => f[q] \in Int /\ ((\A i \in 1 .. N : tree[i] = 0) => f[q] = 0)}
<1>4. ASSUME NEW q \in Nat, \A m \in 0 .. q - 1 : m \in P PROVE q \in P
  <2>1. CASE q = 0
    BY <2>1, <1>3
  <2>2. CASE q # 0
    <3> SUFFICES ASSUME q <= N PROVE f[q] \in Int /\ ((\A i \in 1 .. N : tree[i] = 0) => f[q] = 0)
      OBVIOUS
    <3>1. PICK l : l = q - LowestOne[q]
      OBVIOUS
    <3>2. q \in 1 .. K /\ q \in 1 .. N
      BY <2>2, <1>2, KFacts
    <3>3. LowestOne[q] \in Nat /\ LowestOne[q] > 0 /\ LowestOne[q] <= q
      BY <3>2, LowestDivides
    <3>4. l \in 0 .. q - 1 /\ l <= N
      BY <3>1, <3>3, <1>2
    <3>5. f[l] \in Int /\ ((\A i \in 1 .. N : tree[i] = 0) => f[l] = 0)
      BY <3>4, <1>4
    <3>6. f[q] = tree[q] + f[l]
      BY <3>1, <3>2, <1>3
    <3> QED BY <3>2, <3>5, <3>6, <1>2
  <2> QED BY <2>1, <2>2
<1>5. P = Nat
  <2>1. P \in SUBSET Nat
    OBVIOUS
  <2> HIDE DEF P
  <2> QED BY <1>4, <2>1, StrongInduct
<1> QED BY <1>1, <1>2, <1>5 DEF ShiftAt

LEMMA AddFromFacts ==
    ASSUME NEW tree \in Seq(Int), NEW r, NEW d \in Int
    PROVE  /\ AddFrom(tree, r, d) \in Seq(Int) /\ Len(AddFrom(tree, r, d)) = Len(tree)
           /\ \A i \in 1 .. Len(tree) :
                AddFrom(tree, r, d)[i] = IF i \in UpPath[r] THEN tree[i] + d ELSE tree[i]
<1>1. \A i \in 1 .. Len(tree) : tree[i] \in Int
  OBVIOUS
<1>2. PICK to : to = AddFrom(tree, r, d)
  OBVIOUS
<1>3. to = [i \in 1 .. Len(tree) |-> IF i \in UpPath[r] THEN tree[i] + d ELSE tree[i]]
  BY <1>2 DEF AddFrom
<1>4. to \in [1 .. Len(tree) -> Int] /\ Len(tree) \in Nat
  BY <1>1, <1>3
<1>5. to \in Seq(Int) /\ Len(to) = Len(tree)
  BY <1>4
<1> QED BY <1>2, <1>3, <1>5

\* A prefix sum of the tree moves by d just from the rank on that add_from
\* starts at (Shifts::add_from, Shifts::at), whatever the number of ranks and
\* whatever was added before.
THEOREM ShiftsAreRight ==
    ASSUME NEW tree \in Seq(Int), Len(tree) <= MaxIds, NEW r \in 1 .. 2 * MaxIds, NEW d \in Int
    PROVE  \A q \in 0 .. Len(tree) :
              ShiftAt(AddFrom(tree, r, d), q) = ShiftAt(tree, q) + IF r <= q THEN d ELSE 0
<1>1. PICK to, f, h, N : to = AddFrom(tree, r, d) /\ f = Sums(tree) /\ h = Sums(to) /\ N = Len(tree)
  OBVIOUS
<1>2. N \in Nat /\ N <= MaxIds /\ r \in 1 .. K /\ r \in Nat
  BY <1>1 DEF K
<1>3. /\ to \in Seq(Int) /\ Len(to) = N
      /\ \A i \in 1 .. N : to[i] = IF i \in UpPath[r] THEN tree[i] + d ELSE tree[i]
  BY <1>1, AddFromFacts
<1>4. f[0] = 0 /\ \A i \in 1 .. N : f[i] = tree[i] + f[i - LowestOne[i]]
  BY <1>1, SumsDef
<1>5. h[0] = 0 /\ \A i \in 1 .. N : h[i] = to[i] + h[i - LowestOne[i]]
  BY <1>1, <1>2, <1>3, SumsDef
<1>6. \A q \in 0 .. N : f[q] \in Int
  BY <1>1, ShiftTyped DEF ShiftAt
<1>7. \A i \in 1 .. N : tree[i] \in Int
  BY <1>1
<1> DEFINE P == {q \in Nat : q <= N => h[q] = f[q] + IF r <= q THEN d ELSE 0}
<1>8. ASSUME NEW q \in Nat, \A m \in 0 .. q - 1 : m \in P PROVE q \in P
  <2>1. CASE q = 0
    BY <2>1, <1>2, <1>4, <1>5
  <2>2. CASE q # 0
    <3> SUFFICES ASSUME q <= N PROVE h[q] = f[q] + IF r <= q THEN d ELSE 0
      OBVIOUS
    <3>1. PICK l : l = q - LowestOne[q]
      OBVIOUS
    <3>2. q \in 1 .. K /\ q \in 1 .. N /\ q \in 1 .. MaxIds
      BY <2>2, <1>2, KFacts
    <3>3. LowestOne[q] \in Nat /\ LowestOne[q] > 0 /\ LowestOne[q] <= q
      BY <3>2, LowestDivides
    <3>4. l \in 0 .. q - 1 /\ l \in 0 .. N
      BY <3>1, <3>3, <1>2
    <3>5. h[l] = f[l] + IF r <= l THEN d ELSE 0
      BY <3>4, <1>8
    <3>6. f[q] = tree[q] + f[l] /\ h[q] = to[q] + h[l]
      BY <3>1, <3>2, <1>4, <1>5
    <3>7. q \in UpPath[r] <=> l < r /\ r <= q
      BY <3>1, <3>2, <1>2, UpPathCovers DEF Covers
    <3>8. f[l] \in Int /\ tree[q] \in Int
      BY <3>2, <3>4, <1>6, <1>7
    <3>9. to[q] = IF l < r /\ r <= q THEN tree[q] + d ELSE tree[q]
      BY <3>2, <3>7, <1>3
    <3>10. l \in Int /\ l < q
      BY <3>4
    <3> HIDE DEF P
    <3> QED BY <3>5, <3>6, <3>8, <3>9, <3>10, <1>2
  <2> QED BY <2>1, <2>2
<1>9. P = Nat
  <2>1. P \in SUBSET Nat
    OBVIOUS
  <2> HIDE DEF P
  <2> QED BY <1>8, <2>1, StrongInduct
<1>10. \A q \in 0 .. N : h[q] = f[q] + IF r <= q THEN d ELSE 0
  BY <1>2, <1>9
<1> QED BY <1>1, <1>10 DEF ShiftAt
----------------------------------------------------------------------------
(* Where an anchor goes, and the regions a change touches.                 *)

\* map_anchor puts every anchor of the old text inside the new one.
LEMMA MapAnchorFacts ==
    ASSUME NEW a \in Str, NEW list, Canon(list, Len(a)), NEW b, b = ApplyTo(list, a),
           NEW an, an.kind \in Track, NEW o \in 0 .. Len(a), NEW m, m = MapAnchor(an, o, a, b, list)
    PROVE  m.to \in 0 .. Len(b) /\ m.gone \in BOOLEAN
<1>0. PICK len, B, T : len = Len(a) /\ B = Len(b) /\ T = TotalDelta(list)
  OBVIOUS
<1>1. b \in Str /\ len \in Nat /\ B \in Nat /\ B = len + T
  <2>1. b \in Str /\ B = len + T
    BY <1>0, AppliedLen
  <2>2. len \in Nat
    BY <1>0 DEF Str
  <2>3. B \in Nat
    <3>1. b \in Seq(Bytes)
      BY <2>1 DEF Str
    <3> QED BY <3>1, <1>0, EntryOf
  <2> QED BY <2>1, <2>2, <2>3
<1>2. \/ an.kind.track = "byte"
      \/ an.kind.track = "line" /\ an.kind.side \in Gravities
  BY DEF Track, Gravities
<1>3. CASE an.kind.track = "byte"
  <2>1. m = KeptByte(MapByteInside(list, o, an.kind.side), an.kind.policy)
    BY <1>3 DEF MapAnchor
  <2>2. PICK x \in 0 .. len + T, i \in BOOLEAN : MapByteInside(list, o, an.kind.side) = [at |-> x, inside |-> i]
    BY <1>0, <1>1, ByteInText
  <2>3. m = [to |-> x, gone |-> i /\ an.kind.policy = "invalidate"]
    BY <2>1, <2>2 DEF KeptByte
  <2>4. x \in 0 .. B
    BY <1>1
  <2> QED BY <1>0, <2>3, <2>4
<1>4. CASE an.kind.track = "line" /\ an.kind.side \in Gravities
  <2>1. PICK x, y : /\ x = MapOffset(a, b, list, o, an.kind.side)
                    /\ y = MapOffset(a, b, list, o, "keep")
    OBVIOUS
  <2>2. m = [to |-> IF x = Lost THEN y ELSE x, gone |-> x = Lost]
    BY <1>4, <2>1 DEF MapAnchor, KeptLine
  <2>3. o \in Nat /\ "keep" \in Gravities
    BY <1>0, <1>1 DEF Gravities
  <2>4. x \in 0 .. Len(b) \/ x = Lost
    BY <2>1, <2>3, <1>4, <1>1, LineInText
  <2>5. y \in 0 .. Len(b)
    BY <2>1, <2>3, <1>1, LineInText
  <2> QED BY <2>2, <2>4, <2>5
<1> QED BY <1>2, <1>3, <1>4

\* A region holds its edit.
LEMMA RegionFacts ==
    ASSUME NEW a \in Str, NEW e \in Edit, End(e) <= Len(a)
    PROVE  \E s \in Nat, t \in Nat : /\ RegionOf(a, e) = [ws |-> s, we |-> t, delta |-> Delta(e)]
                                     /\ s <= e.pos /\ End(e) <= t
<1>0. PICK p, w, u, L : p = e.pos /\ w = End(e) /\ u = e.del /\ L = Len(a)
  OBVIOUS
<1>1. p \in Nat /\ u \in Nat /\ w = p + u /\ L \in Nat /\ w <= L
  BY <1>0 DEF Edit, End, Str
<1>2. w \in Nat /\ p <= w
  BY <1>1
<1>3. PICK ls, le : ls = LineStart(a, p) /\ le = LineEnd(a, w)
  OBVIOUS
<1>4. ls \in Nat /\ ls <= p
  BY <1>1, <1>3, LineStartFacts
<1>5. le \in Nat /\ le <= L /\ w <= le
  <2>1. MinOf(w, L) = w
    BY <1>1, <1>2, MinOfFacts
  <2> QED BY <2>1, <1>0, <1>2, <1>3, LineEndFacts
<1>6. PICK q, k : q = (IF ls = 0 THEN 0 ELSE ls - 1) /\ k = le + 1
  OBVIOUS
<1>7. q \in Nat /\ q <= ls /\ k \in Nat /\ w <= k
  BY <1>4, <1>5, <1>6, <1>2
<1>8. PICK s, t : s = LineStart(a, q) /\ t = LineEnd(a, k)
  OBVIOUS
<1>9. s \in Nat /\ s <= p
  <2>1. s \in Nat /\ s <= q
    BY <1>7, <1>8, LineStartFacts
  <2> QED BY <2>1, <1>7, <1>4, <1>1
<1>10. t \in Nat /\ w <= t
  <2>1. t \in Nat /\ MinOf(k, L) <= t /\ MinOf(k, L) \in Nat
    BY <1>0, <1>7, <1>8, LineEndFacts
  <2>2. MinOf(k, L) = (IF k < L THEN k ELSE L)
    BY DEF MinOf
  <2> QED BY <2>1, <2>2, <1>1, <1>2, <1>7
<1>11. RegionOf(a, e) = [ws |-> s, we |-> t, delta |-> Delta(e)]
  BY <1>0, <1>3, <1>6, <1>8 DEF RegionOf
<1> QED BY <1>0, <1>9, <1>10, <1>11

LEMMA RegionsDef ==
    ASSUME NEW a, NEW list, Len(list) \in Nat, NEW f, f = RegionsTo(a, list)
    PROVE  f[0] = <<>> /\ \A n \in 1 .. Len(list) : f[n] = MergeRegion(f[n - 1], RegionOf(a, list[n]))
<1> DEFINE N == Len(list)
           stp(x, n) == MergeRegion(x, RegionOf(a, list[n]))
           val(g, n) == IF n = 0 THEN <<>> ELSE stp(g[n - 1], n)
           Rec(g, m) == g = [n \in 0 .. m |-> val(g, n)]
           P == {m \in Nat : \E g : Rec(g, m)}
<1>0. N \in Nat
  OBVIOUS
<1> HIDE DEF N, stp
<1>1. 0 \in P
  <2> DEFINE h == [n \in 0 .. 0 |-> <<>>]
  <2>1. Rec(h, 0)
    OBVIOUS
  <2> QED BY <2>1
<1>2. ASSUME NEW m \in P PROVE m + 1 \in P
  <2>0. m \in Nat
    OBVIOUS
  <2>1. PICK g : Rec(g, m)
    OBVIOUS
  <2>2. \A n \in 0 .. m : g[n] = val(g, n)
    BY <2>1
  <2> DEFINE h == [n \in 0 .. m + 1 |-> IF n = m + 1 THEN val(g, n) ELSE g[n]]
  <2>3. ASSUME NEW n \in 0 .. m + 1 PROVE h[n] = val(h, n)
    <3>1. h[n] = val(g, n)
      BY <2>2
    <3>2. n # 0 => n - 1 \in 0 .. m
      BY <2>0
    <3>3. \A j \in 0 .. m : h[j] = g[j]
      BY <2>0
    <3> HIDE DEF h
    <3> QED BY <3>1, <3>2, <3>3
  <2>4. h = [n \in 0 .. m + 1 |-> h[n]]
    OBVIOUS
  <2> HIDE DEF h, val
  <2>5. Rec(h, m + 1)
    <3>1. [n \in 0 .. m + 1 |-> h[n]] = [n \in 0 .. m + 1 |-> val(h, n)]
      BY <2>3
    <3> QED BY <3>1, <2>4, Zenon
  <2> HIDE DEF Rec
  <2> QED BY <2>5
<1>3. P = Nat
  <2>1. P \in SUBSET Nat
    OBVIOUS
  <2> HIDE DEF P
  <2> QED BY <1>1, <1>2, <2>1, Induct
<1>4. \E g : Rec(g, N)
  <2>1. N \in P
    BY <1>0, <1>3
  <2> HIDE DEF Rec
  <2> QED BY <2>1
<1>5. f = CHOOSE g : Rec(g, N)
  BY DEF RegionsTo, N, stp
<1>6. Rec(f, N)
  BY <1>4, <1>5
<1>7. f[0] = <<>>
  BY <1>6, <1>0
<1>8. \A n \in 1 .. N : f[n] = stp(f[n - 1], n)
  BY <1>6, <1>0
<1> QED BY <1>7, <1>8 DEF N, stp

\* ks[i] is the last edit of region i: the regions lie apart, in order, and
\* part the list between them.
Parted(list, D, rs, n, ks) ==
    /\ rs \in Seq([ws : Nat, we : Nat, delta : Int])
    /\ ks \in [0 .. Len(rs) -> 0 .. n] /\ ks[0] = 0 /\ ks[Len(rs)] = n
    /\ \A i \in 1 .. Len(rs) : /\ ks[i - 1] < ks[i]
                              /\ rs[i].ws <= rs[i].we
                              /\ rs[i].delta = D[ks[i]] - D[ks[i - 1]]
                              /\ rs[i].ws <= list[ks[i - 1] + 1].pos
                              /\ Cursor(list, ks[i]) <= rs[i].we
    /\ \A i \in 1 .. Len(rs) - 1 : rs[i].we < rs[i + 1].ws

\* An edit's region merged into what the edits before it touch.
LEMMA MergeFacts ==
    ASSUME NEW a \in Str, NEW list, Canon(list, Len(a)), NEW D, D = Deltas(list),
           NEW n \in 1 .. Len(list), NEW rs, NEW ks, Parted(list, D, rs, n - 1, ks)
    PROVE  \E kk : Parted(list, D, MergeRegion(rs, RegionOf(a, list[n])), n, kk)
<1>0. PICK m, N, len, e : m = Len(rs) /\ N = Len(list) /\ len = Len(a) /\ e = list[n]
  OBVIOUS
<1>1. /\ m \in Nat /\ N \in Nat /\ len \in Nat /\ n \in 1 .. N /\ n \in Nat /\ n - 1 \in 0 .. N /\ rs \in Seq([ws : Nat, we : Nat, delta : Int])
  BY <1>0 DEF Parted, Str, Canon
<1>2. e \in Edit /\ End(e) <= len /\ e.pos \in Nat /\ Cursor(list, n) = End(e) /\ End(e) \in Nat /\ e.pos <= End(e)
  <2>1. e \in Edit /\ End(e) <= len /\ Cursor(list, n) = End(e)
    BY <1>0, <1>1 DEF Canon, InBounds, Cursor
  <2>2. e.pos \in Nat /\ e.del \in Nat /\ End(e) = e.pos + e.del
    BY <2>1 DEF Edit, End
  <2> QED BY <2>1, <2>2
<1>3. PICK s \in Nat, t \in Nat : /\ RegionOf(a, e) = [ws |-> s, we |-> t, delta |-> Delta(e)]
                                  /\ s <= e.pos /\ End(e) <= t
  BY <1>0, <1>2, RegionFacts
<1>4. PICK g, p, w : g = RegionOf(a, e) /\ p = e.pos /\ w = End(e)
  OBVIOUS
<1>5. g \in [ws : Nat, we : Nat, delta : Int] /\ g.ws = s /\ g.we = t /\ g.delta = Delta(e)
      /\ s <= p /\ w <= t /\ s <= t /\ p \in Nat /\ w \in Nat /\ p <= w
  <2>1. Delta(e) \in Int
    BY <1>2 DEF Delta, Edit, Str
  <2>2. s <= p /\ w <= t /\ s <= t /\ p \in Nat /\ w \in Nat /\ p <= w
    BY <1>2, <1>3, <1>4
  <2> QED BY <2>1, <2>2, <1>3, <1>4
<1>6. PICK d0, d1, dd : d0 = D[n - 1] /\ d1 = D[n] /\ dd = Delta(e)
  OBVIOUS
<1>7. d0 \in Int /\ d1 \in Int /\ dd \in Int /\ dd = d1 - d0
  <2>1. \A j \in 0 .. N : D[j] \in Int
    BY <1>0, <1>1, DeltasFacts
  <2>2. d1 = d0 + dd
    BY <1>0, <1>1, <1>6, DeltasDef
  <2>3. n \in 0 .. N
    BY <1>1
  <2>4. d0 \in Int /\ d1 \in Int
    BY <2>1, <2>3, <1>1, <1>6
  <2>5. dd \in Int
    BY <1>5, <1>6
  <2> QED BY <2>2, <2>4, <2>5
<1>8. PICK out : out = MergeRegion(rs, g)
  OBVIOUS
<1>9. ks \in [0 .. m -> 0 .. n - 1] /\ ks[0] = 0 /\ ks[m] = n - 1
  BY <1>0 DEF Parted
<1>11. rs # <<>> <=> m > 0
  BY <1>0, <1>1
<1>12. CASE m > 0 /\ s <= rs[m].we
  <2>0. m > 0 /\ m \in 1 .. m /\ s <= rs[m].we
    BY SMTT(30), <1>1, <1>12
  <2>1. PICK r, y, z, x : r = rs[m] /\ y = rs[m].we /\ z = rs[m].delta /\ x = rs[m].ws
    OBVIOUS
  <2>2. r \in [ws : Nat, we : Nat, delta : Int] /\ x \in Nat /\ y \in Nat /\ z \in Int
    <3>1. r \in [ws : Nat, we : Nat, delta : Int]
      <4>1. \A i \in 1 .. m : rs[i] \in [ws : Nat, we : Nat, delta : Int]
        BY <1>0, <1>1, EntryOf
      <4> QED BY <4>1, <2>0, <2>1
    <3>2. x = r.ws /\ y = r.we /\ z = r.delta
      BY <2>1
    <3> QED BY <3>1, <3>2
  <2>3. Last(rs) = rs[m]
    BY <1>0 DEF Last
  <2>4. out = [rs EXCEPT ![Len(rs)].we = IF g.we > @ THEN g.we ELSE @, ![Len(rs)].delta = @ + g.delta]
    BY <1>8, <1>11, <2>0, <2>3, <1>5 DEF MergeRegion
  <2>5. PICK v, q : v = [ws |-> x, we |-> IF t > y THEN t ELSE y, delta |-> z + dd] /\ q = [r EXCEPT !.we = IF t > y THEN t ELSE y]
    OBVIOUS
  <2>6. [q EXCEPT !.delta = @ + g.delta] = v
    <3>1. PICK k : k = (IF t > y THEN t ELSE y)
      OBVIOUS
    <3>2. r = [ws |-> x, we |-> y, delta |-> z]
      BY <2>1, <2>2
    <3>3. q = [ws |-> x, we |-> k, delta |-> z]
      BY <3>1, <3>2, <2>5
    <3>4. g.delta = dd
      BY <1>5, <1>6
    <3>5. [q EXCEPT !.delta = @ + g.delta] = [ws |-> x, we |-> k, delta |-> z + dd]
      BY <3>3, <3>4
    <3> QED BY <3>1, <3>5, <2>5
  <2>7. out = [rs EXCEPT ![m] = v]
    <3>1. [rs EXCEPT ![m].we = IF g.we > @ THEN g.we ELSE @] = [rs EXCEPT ![m] = q]
      BY <2>1, <2>5, <1>5
    <3>2. [[rs EXCEPT ![m] = q] EXCEPT ![m].delta = @ + g.delta] = [rs EXCEPT ![m] = v]
      BY <2>0, <2>6, <1>0, <1>1
    <3>3. out = [[rs EXCEPT ![m].we = IF g.we > @ THEN g.we ELSE @] EXCEPT ![m].delta = @ + g.delta]
      BY <2>4, <1>0
    <3> QED BY <3>1, <3>2, <3>3
  <2>8. v \in [ws : Nat, we : Nat, delta : Int] /\ v.ws = x /\ v.we >= t /\ v.we >= y /\ v.delta = z + dd
    <3>1. PICK k, y0, t0 : k = (IF t0 > y0 THEN t0 ELSE y0) /\ y0 = y /\ t0 = t
      OBVIOUS
    <3>2. k \in Nat /\ k >= t0 /\ k >= y0
      <4>1. y0 \in Nat /\ t0 \in Nat
        BY <3>1, <2>2
      <4> QED BY <4>1, <3>1
    <3>3. v = [ws |-> x, we |-> k, delta |-> z + dd]
      BY <3>1, <2>5
    <3>4. z + dd \in Int
      BY <2>2, <1>7
    <3>5. v.ws = x /\ v.we = k /\ v.delta = z + dd
      BY <3>3
    <3>6. v \in [ws : Nat, we : Nat, delta : Int]
      BY <3>2, <3>3, <3>4, <2>2
    <3> QED BY <3>1, <3>2, <3>5, <3>6
  <2>9. out \in Seq([ws : Nat, we : Nat, delta : Int]) /\ Len(out) = m /\ out[m] = v
        /\ \A i \in 1 .. m - 1 : out[i] = rs[i]
    BY SMTT(30), <2>7, <2>8, <2>0, <1>0, <1>1
  <2>10. PICK kk : kk = [i \in 0 .. m |-> IF i = m THEN n ELSE ks[i]]
    OBVIOUS
  <2>11. kk \in [0 .. m -> 0 .. n] /\ kk[0] = 0 /\ kk[m] = n /\ \A i \in 0 .. m - 1 : kk[i] = ks[i]
    <3>1. \A i \in 0 .. m : ks[i] \in 0 .. n
      BY <1>9, <1>1
    <3>2. n \in 0 .. n /\ 0 \in 0 .. m /\ m \in 0 .. m /\ 0 # m
      BY <1>1, <2>0
    <3>3. kk \in [0 .. m -> 0 .. n]
      BY <3>1, <3>2, <2>10
    <3>4. kk[0] = 0 /\ kk[m] = n
      BY <3>2, <2>10, <1>9
    <3>5. \A i \in 0 .. m - 1 : kk[i] = ks[i]
      BY <1>1, <2>10
    <3> QED BY <3>3, <3>4, <3>5
  <2>12. ASSUME NEW i \in 1 .. m
         PROVE  /\ kk[i - 1] < kk[i] /\ out[i].ws <= out[i].we
                /\ out[i].delta = D[kk[i]] - D[kk[i - 1]]
                /\ out[i].ws <= list[kk[i - 1] + 1].pos
                /\ Cursor(list, kk[i]) <= out[i].we
    <3>1. /\ ks[i - 1] < ks[i] /\ rs[i].ws <= rs[i].we
          /\ rs[i].delta = D[ks[i]] - D[ks[i - 1]]
          /\ rs[i].ws <= list[ks[i - 1] + 1].pos
          /\ Cursor(list, ks[i]) <= rs[i].we
      BY <1>0 DEF Parted
    <3>2. kk[i - 1] = ks[i - 1]
      BY <2>11, <1>1
    <3>3. CASE i # m
      <4>1. i \in 0 .. m - 1 /\ i \in 1 .. m - 1
        BY <3>3, <1>1
      <4> QED BY <4>1, <3>1, <3>2, <2>9, <2>11
    <3>4. CASE i = m
      <4>1. PICK h : h = ks[m - 1]
        OBVIOUS
      <4>0. m - 1 \in 0 .. m
        BY <2>0, <1>1
      <4>2. h \in 0 .. n - 1
        BY <4>0, <4>1, <1>9
      <4>3. h < n - 1 /\ kk[i - 1] = h /\ kk[i] = n
        BY <4>1, <3>1, <3>2, <3>4, <1>9, <2>11
      <4>4. h < n
        BY <4>2, <4>3, <1>1
      <4>5. x <= y /\ x <= list[h + 1].pos /\ z = d0 - D[h]
        BY <3>1, <3>4, <2>1, <4>1, <1>9, <1>6
      <4>6. v.ws <= v.we
        BY <4>5, <2>2, <2>8
      <4>7. D[h] \in Int
        <5>1. h \in 0 .. N
          BY <4>2, <1>1
        <5> QED BY <5>1, <1>0, <1>1, DeltasFacts
      <4>8. v.delta = d1 - D[h]
        BY SMTT(30), <4>5, <4>7, <2>8, <1>7
      <4>9. Cursor(list, n) <= v.we
        <5>1. w <= v.we
          BY <2>8, <1>5
        <5> QED BY <5>1, <1>2, <1>4
      <4> QED BY <4>3, <4>4, <4>5, <4>6, <4>8, <4>9, <3>4, <2>8, <2>9, <1>6
    <3> QED BY <3>3, <3>4
  <2>13. ASSUME NEW i \in 1 .. m - 1 PROVE out[i].we < out[i + 1].ws
    <3>1. rs[i].we < rs[i + 1].ws
      BY <1>0 DEF Parted
    <3>2. out[i].we = rs[i].we
      BY <2>9
    <3>3. out[i + 1].ws = rs[i + 1].ws
      <4>1. CASE i + 1 = m
        BY <4>1, <2>1, <2>8, <2>9
      <4>2. CASE i + 1 # m
        <5>1. i + 1 \in 1 .. m - 1
          BY <4>2, <1>1
        <5> QED BY <5>1, <2>9
      <4> QED BY <4>1, <4>2
    <3> QED BY <3>1, <3>2, <3>3
  <2>14. Parted(list, D, out, n, kk)
    BY <2>9, <2>11, <2>12, <2>13 DEF Parted
  <2> QED BY <2>14, <1>8, <1>4, <1>0
<1>13. CASE ~(m > 0 /\ s <= rs[m].we)
  <2>1. out = Append(rs, g)
    <3>1. Last(rs) = rs[m]
      BY <1>0 DEF Last
    <3>2. ~(rs # <<>> /\ g.ws <= Last(rs).we)
      BY <3>1, <1>5, <1>11, <1>13
    <3> QED BY <3>2, <1>8 DEF MergeRegion
  <2>2. /\ out \in Seq([ws : Nat, we : Nat, delta : Int]) /\ Len(out) = m + 1 /\ out[m + 1] = g
        /\ \A i \in 1 .. m : out[i] = rs[i]
    BY <2>1, <1>5, <1>0, <1>1
  <2>3. PICK kk : kk = [i \in 0 .. m + 1 |-> IF i = m + 1 THEN n ELSE ks[i]]
    OBVIOUS
  <2>4. kk \in [0 .. m + 1 -> 0 .. n] /\ kk[0] = 0 /\ kk[m + 1] = n /\ \A i \in 0 .. m : kk[i] = ks[i]
    BY <2>3, <1>9, <1>1
  <2>5. ASSUME NEW i \in 1 .. m + 1
        PROVE  /\ kk[i - 1] < kk[i] /\ out[i].ws <= out[i].we
               /\ out[i].delta = D[kk[i]] - D[kk[i - 1]]
               /\ out[i].ws <= list[kk[i - 1] + 1].pos
               /\ Cursor(list, kk[i]) <= out[i].we
    <3>1. CASE i \in 1 .. m
      <4>1. /\ ks[i - 1] < ks[i] /\ rs[i].ws <= rs[i].we
            /\ rs[i].delta = D[ks[i]] - D[ks[i - 1]]
            /\ rs[i].ws <= list[ks[i - 1] + 1].pos
            /\ Cursor(list, ks[i]) <= rs[i].we
        BY <3>1, <1>0 DEF Parted
      <4>2. kk[i - 1] = ks[i - 1] /\ kk[i] = ks[i]
        BY <2>4, <3>1, <1>1
      <4> QED BY <4>1, <4>2, <3>1, <2>2
    <3>2. CASE i = m + 1
      <4>1. i - 1 = m /\ m \in 0 .. m
        BY <3>2, <1>1
      <4>2. kk[i - 1] = n - 1 /\ kk[i] = n
        BY <4>1, <3>2, <2>4, <1>9
      <4>3. n - 1 < n /\ (n - 1) + 1 = n
        BY <1>1
      <4>4. out[i] = g
        BY <3>2, <2>2
      <4>5. g.ws <= g.we /\ g.ws <= list[n].pos /\ Cursor(list, n) <= g.we
        BY <1>5, <1>4, <1>2, <1>0
      <4>6. g.delta = D[n] - D[n - 1]
        BY <1>5, <1>6, <1>7
      <4> QED BY <4>2, <4>3, <4>4, <4>5, <4>6
    <3> QED BY <3>1, <3>2, <1>1
  <2>6. ASSUME NEW i \in 1 .. m PROVE out[i].we < out[i + 1].ws
    <3>1. CASE i = m
      <4>1. PICK y : y = rs[m].we
        OBVIOUS
      <4>2. m > 0 /\ y \in Nat /\ ~(s <= y)
        <5>1. m > 0 /\ m \in 1 .. Len(rs)
          BY <3>1, <1>0, <1>1
        <5>2. y \in Nat
          <6>1. rs[m] \in [ws : Nat, we : Nat, delta : Int]
            BY <5>1, <1>1, EntryOf
          <6> QED BY <6>1, <4>1
        <5> QED BY <4>1, <5>1, <5>2, <1>13
      <4>3. y < s
        BY <4>2
      <4> QED BY <4>1, <4>3, <3>1, <2>2, <1>5
    <3>2. CASE i # m
      <4>1. i \in 1 .. m - 1 /\ i + 1 \in 1 .. m
        BY <3>2, <1>1
      <4>2. rs[i].we < rs[i + 1].ws
        BY <4>1, <1>0 DEF Parted
      <4> QED BY <4>1, <4>2, <2>2
    <3> QED BY <3>1, <3>2
  <2>7. (m + 1) - 1 = m
    BY <1>1
  <2>8. Parted(list, D, out, n, kk)
    BY <2>2, <2>4, <2>5, <2>6, <2>7 DEF Parted
  <2> QED BY <2>8, <1>8, <1>4, <1>0
<1> QED BY <1>12, <1>13

LEMMA RegionsFacts ==
    ASSUME NEW a \in Str, NEW list, Canon(list, Len(a)), NEW D, D = Deltas(list)
    PROVE  \E ks : Parted(list, D, Regions(a, list), Len(list), ks)
<1>0. PICK f, N : f = RegionsTo(a, list) /\ N = Len(list)
  OBVIOUS
<1>1. N \in Nat
  BY <1>0 DEF Canon
<1>2. f[0] = <<>> /\ \A n \in 1 .. N : f[n] = MergeRegion(f[n - 1], RegionOf(a, list[n]))
  BY <1>0, <1>1, RegionsDef
<1> DEFINE P == {n \in Nat : n <= N => \E ks : Parted(list, D, f[n], n, ks)}
<1>3. 0 \in P
  <2>1. PICK ks, z : ks = [i \in 0 .. 0 |-> 0] /\ z = <<>>
    OBVIOUS
  <2>2. z \in Seq([ws : Nat, we : Nat, delta : Int]) /\ Len(z) = 0
    BY <2>1
  <2>3. ks \in [0 .. 0 -> 0 .. 0] /\ ks[0] = 0
    BY <2>1
  <2>4. Parted(list, D, z, 0, ks)
    BY <2>2, <2>3 DEF Parted
  <2> QED BY <2>1, <2>4, <1>2
<1>4. ASSUME NEW n \in P PROVE n + 1 \in P
  <2>1. n \in Nat /\ n + 1 \in Nat
    OBVIOUS
  <2>2. CASE n + 1 <= N
    <3>1. n <= N /\ n + 1 \in 1 .. N /\ (n + 1) - 1 = n
      BY <2>1, <2>2, <1>1
    <3>2. PICK ks : Parted(list, D, f[n], n, ks)
      BY <3>1
    <3>3. f[n + 1] = MergeRegion(f[n], RegionOf(a, list[n + 1]))
      BY <3>1, <1>2
    <3>4. PICK k, x : k = n + 1 /\ x = f[n]
      OBVIOUS
    <3>5. k \in 1 .. Len(list) /\ Parted(list, D, x, k - 1, ks)
      BY <3>1, <3>2, <3>4, <1>0
    <3>6. \E kk : Parted(list, D, MergeRegion(x, RegionOf(a, list[k])), k, kk)
      BY <3>5, MergeFacts
    <3> QED BY <3>3, <3>4, <3>6, <2>1
  <2>3. CASE ~(n + 1 <= N)
    BY <2>1, <2>3
  <2> QED BY <2>2, <2>3
<1>5. P = Nat
  <2>1. P \in SUBSET Nat
    OBVIOUS
  <2> HIDE DEF P
  <2> QED BY <1>3, <1>4, <2>1, Induct
<1>6. \E ks : Parted(list, D, f[N], N, ks)
  <2>1. N \in P /\ N <= N
    BY <1>1, <1>5
  <2> QED BY <2>1
<1> QED BY <1>0, <1>6 DEF Regions

\* Every region ends where a line does.
Ends(a, rs) == \A i \in 1 .. Len(rs) : AtEnd(a, rs[i].we)

Reach == [ws : Nat, we : Nat, delta : Int]

LEMMA MergeEnds ==
    ASSUME NEW a, NEW rs \in Seq(Reach), NEW g \in Reach, NEW out, out = MergeRegion(rs, g), Ends(a, rs), AtEnd(a, g.we)
    PROVE  out \in Seq(Reach) /\ Ends(a, out)
<1>1. PICK m \in Nat : m = Len(rs)
  BY EntryOf
<1>2. g.ws \in Nat /\ g.we \in Nat /\ g.delta \in Int
  BY DEF Reach
<1>3. CASE rs # <<>> /\ g.ws <= Last(rs).we
  <2>1. m \in 1 .. m
    BY <1>1, <1>3
  <2>2. PICK r : r = rs[m]
    OBVIOUS
  <2>3. r \in Reach
    BY <2>1, <2>2, <1>1, EntryOf
  <2>4. PICK x, y, z, w : x = r.ws /\ y = r.we /\ z = r.delta /\ w = IF g.we > r.we THEN g.we ELSE r.we
    OBVIOUS
  <2>5. x \in Nat /\ y \in Nat /\ z \in Int /\ w \in Nat /\ r = [ws |-> x, we |-> y, delta |-> z]
    BY <2>3, <2>4, <1>2 DEF Reach
  <2>6. PICK q, v : q = [r EXCEPT !.we = w] /\ v = [ws |-> x, we |-> w, delta |-> z + g.delta]
    OBVIOUS
  <2>7. q = [ws |-> x, we |-> w, delta |-> z]
    BY <2>5, <2>6
  <2>8. [q EXCEPT !.delta = @ + g.delta] = v
    <3>1. PICK gd : gd = g.delta
      OBVIOUS
    <3>2. [q EXCEPT !.delta = @ + g.delta] = [ws |-> x, we |-> w, delta |-> z + gd]
      BY <2>7, <3>1
    <3> QED BY <2>6, <3>1, <3>2
  <2>9. v \in Reach /\ v.we = w
    BY <2>5, <2>6, <1>2 DEF Reach
  <2>10. out = [[rs EXCEPT ![m].we = IF g.we > @ THEN g.we ELSE @] EXCEPT ![m].delta = @ + g.delta]
    BY <1>1, <1>3 DEF MergeRegion
  <2>11. [rs EXCEPT ![m].we = IF g.we > @ THEN g.we ELSE @] = [rs EXCEPT ![m] = q]
    BY <2>2, <2>4, <2>6
  <2>12. [[rs EXCEPT ![m] = q] EXCEPT ![m].delta = @ + g.delta] = [rs EXCEPT ![m] = v]
    BY <2>1, <2>8, <1>1
  <2>13. out = [rs EXCEPT ![m] = v]
    BY <2>10, <2>11, <2>12
  <2>14. out \in Seq(Reach) /\ Len(out) = m /\ out[m] = v
    BY <2>1, <2>9, <2>13, <1>1
  <2>15. \A i \in 1 .. m : i # m => out[i] = rs[i]
    BY <2>1, <2>13, <1>1
  <2>16. AtEnd(a, y)
    BY <2>1, <2>2, <2>4, <1>1 DEF Ends
  <2>17. AtEnd(a, w)
    BY <2>4, <2>16
  <2>18. ASSUME NEW i \in 1 .. m PROVE AtEnd(a, out[i].we)
    <3>1. CASE i = m
      BY <3>1, <2>9, <2>14, <2>17
    <3>2. CASE i # m
      BY <3>2, <2>15, <1>1 DEF Ends
    <3> QED BY <3>1, <3>2
  <2> QED BY <2>14, <2>18 DEF Ends
<1>4. CASE ~(rs # <<>> /\ g.ws <= Last(rs).we)
  <2>1. out = Append(rs, g)
    BY <1>4 DEF MergeRegion
  <2>2. out \in Seq(Reach) /\ Len(out) = m + 1 /\ out[m + 1] = g
    BY <2>1, <1>1
  <2>3. \A i \in 1 .. m : out[i] = rs[i]
    BY <2>1, <1>1
  <2>4. ASSUME NEW i \in 1 .. m + 1 PROVE AtEnd(a, out[i].we)
    <3>1. CASE i = m + 1
      BY <3>1, <2>2
    <3>2. CASE i # m + 1
      <4>1. i \in 1 .. m
        BY <3>2, <1>1
      <4> QED BY <4>1, <2>3, <1>1 DEF Ends
    <3> QED BY <3>1, <3>2
  <2> QED BY <2>2, <2>4 DEF Ends
<1> QED BY <1>3, <1>4

\* Every region ends where a line does.
LEMMA RegionEnds ==
    ASSUME NEW a \in Str, NEW list, Canon(list, Len(a))
    PROVE  Ends(a, Regions(a, list))
<1>0. PICK f, N : f = RegionsTo(a, list) /\ N = Len(list)
  OBVIOUS
<1>1. N \in Nat
  BY <1>0 DEF Canon
<1>2. f[0] = <<>> /\ \A n \in 1 .. N : f[n] = MergeRegion(f[n - 1], RegionOf(a, list[n]))
  BY <1>0, <1>1, RegionsDef
<1>3. ASSUME NEW n \in 1 .. N PROVE RegionOf(a, list[n]) \in Reach /\ AtEnd(a, RegionOf(a, list[n]).we)
  <2>1. PICK e : e = list[n]
    OBVIOUS
  <2>2. e \in Edit /\ End(e) <= Len(a)
    BY <2>1, <1>0 DEF Canon, InBounds
  <2>3. PICK s \in Nat, t \in Nat : RegionOf(a, e) = [ws |-> s, we |-> t, delta |-> Delta(e)]
    BY <2>2, RegionFacts
  <2>4. Delta(e) \in Int
    BY <2>2 DEF Delta, Edit, Str
  <2>5. End(e) \in Nat
    BY <2>2 DEF End, Edit
  <2>6. PICK le, k : le = LineEnd(a, End(e)) /\ k = le + 1
    OBVIOUS
  <2>7. k \in Nat
    <3>1. le \in Nat
      BY <2>5, <2>6, LineEndFacts
    <3> QED BY <3>1, <2>6
  <2>8. RegionOf(a, e).we = LineEnd(a, k)
    BY <2>6 DEF RegionOf
  <2>9. AtEnd(a, LineEnd(a, k))
    BY <2>7, LineEndIs
  <2> QED BY <2>1, <2>3, <2>4, <2>8, <2>9 DEF Reach
<1> DEFINE P == {n \in Nat : n <= N => f[n] \in Seq(Reach) /\ Ends(a, f[n])}
<1>4. 0 \in P
  <2>1. PICK z : z = <<>>
    OBVIOUS
  <2>2. z \in Seq(Reach) /\ Len(z) = 0
    BY <2>1
  <2>3. Ends(a, z)
    BY <2>2 DEF Ends
  <2> QED BY <2>1, <2>2, <2>3, <1>2
<1>5. ASSUME NEW n \in P PROVE n + 1 \in P
  <2> SUFFICES ASSUME n + 1 <= N PROVE f[n + 1] \in Seq(Reach) /\ Ends(a, f[n + 1])
    OBVIOUS
  <2>1. n \in Nat /\ n <= N /\ n + 1 \in 1 .. N /\ (n + 1) - 1 = n
    BY <1>1
  <2>2. PICK x, g, y : x = f[n] /\ g = RegionOf(a, list[n + 1]) /\ y = f[n + 1]
    OBVIOUS
  <2>3. x \in Seq(Reach) /\ Ends(a, x)
    BY <2>1, <2>2
  <2>4. y = MergeRegion(x, g) /\ g \in Reach /\ AtEnd(a, g.we)
    BY <2>1, <2>2, <1>2, <1>3
  <2>5. y \in Seq(Reach) /\ Ends(a, y)
    BY <2>3, <2>4, MergeEnds
  <2> QED BY <2>2, <2>5
<1>6. P = Nat
  <2>1. P \in SUBSET Nat
    OBVIOUS
  <2> HIDE DEF P
  <2> QED BY <1>4, <1>5, <2>1, Induct
<1>7. N \in P /\ N <= N
  BY <1>1, <1>6
<1>8. Ends(a, f[N])
  BY <1>7
<1> QED BY <1>0, <1>8 DEF Regions

\* Past the end of a line, the line starts past it.
LEMMA PastEnd ==
    ASSUME NEW a \in Str, NEW u \in Nat, NEW x \in Nat, u < x, x <= Len(a), AtEnd(a, u)
    PROVE  LineStart(a, x) \in Nat /\ u < LineStart(a, x)
<1>1. PICK n \in Nat : n = Len(a)
  BY DEF Str
<1>2. a[u + 1] = NL
  BY <1>1 DEF AtEnd
<1>3. MinOf(x, n) = x
  BY <1>1, MinOfFacts
<1>4. PICK S : S = {j \in 1 .. x : a[j] = NL}
  OBVIOUS
<1>5. S \subseteq 0 .. x
  BY <1>4
<1>6. PICK m : m = Max({0} \cup S)
  OBVIOUS
<1>7. m \in 0 .. x /\ \A y \in S : y <= m
  BY <1>5, <1>6, MaxOrNone
<1>8. LineStart(a, x) = m
  BY <1>1, <1>3, <1>4, <1>6 DEF LineStart, LineHead
<1>9. u + 1 \in S
  BY <1>2, <1>4
<1>10. u + 1 <= m
  BY <1>7, <1>9
<1> QED BY <1>7, <1>8, <1>10

\* x is apart from the edits: a line ends between edit k and it, and the next
\* edit starts past it.
Apart(a, list, k, x) ==
    /\ k > 0 => \E u \in Nat : Cursor(list, k) <= u /\ u < x /\ AtEnd(a, u)
    /\ k < Len(list) => x < list[k + 1].pos

LEMMA ApartGoes ==
    ASSUME NEW a \in Str, NEW list, Canon(list, Len(a)), NEW b, b = ApplyTo(list, a), NEW D, D = Deltas(list),
           NEW k \in 0 .. Len(list), NEW x \in Nat, x <= Len(a), Apart(a, list, k, x), NEW an, an.kind \in Track
    PROVE  MapAnchor(an, x, a, b, list) = [to |-> x + D[k], gone |-> FALSE]
<1>0. PICK N \in Nat, len \in Nat : N = Len(list) /\ len = Len(a)
  BY DEF Canon, Str
<1>1. PICK ls, t, m : ls = LineStart(a, x) /\ t = x + D[k] /\ m = MapAnchor(an, x, a, b, list)
  OBVIOUS
<1>2. ls \in Nat /\ ls <= x
  BY <1>0, <1>1, LineStartFacts
<1>3. k > 0 => Cursor(list, k) < ls /\ Cursor(list, k) < x
  <2>1. SUFFICES ASSUME k > 0 PROVE Cursor(list, k) < ls /\ Cursor(list, k) < x
    OBVIOUS
  <2>2. PICK u \in Nat : Cursor(list, k) <= u /\ u < x /\ AtEnd(a, u)
    BY <2>1 DEF Apart
  <2>3. u < ls
    BY <2>2, <1>1, PastEnd
  <2>4. PICK c : c = Cursor(list, k)
    OBVIOUS
  <2>5. c \in Nat /\ c <= u
    BY <2>2, <2>4, <1>0, CursorFacts
  <2>6. c < ls /\ c < x
    BY <2>2, <2>3, <2>5, <1>2
  <2> QED BY <2>4, <2>6
<1>4. Clear(list, ls, x, k) /\ Clear(list, x, x, k)
  BY <1>3 DEF Clear, Apart
<1>5. \A g : MapOffset(a, b, list, x, g) = t /\ t \in Nat
  BY <1>0, <1>1, <1>4, LineClear
<1>6. \A g : MapByteInside(list, x, g) = [at |-> t, inside |-> FALSE]
  BY <1>0, <1>1, <1>4, ByteClear
<1>7. \/ an.kind.track = "byte"
      \/ an.kind.track = "line"
  BY DEF Track
<1>8. CASE an.kind.track = "byte"
  <2>1. m = KeptByte(MapByteInside(list, x, an.kind.side), an.kind.policy)
    BY <1>1, <1>8 DEF MapAnchor
  <2>2. m = KeptByte([at |-> t, inside |-> FALSE], an.kind.policy)
    BY <2>1, <1>6
  <2>3. m = [to |-> t, gone |-> FALSE]
    BY <2>2 DEF KeptByte
  <2> QED BY <2>3, <1>1
<1>9. CASE an.kind.track = "line"
  <2>1. m = KeptLine(MapOffset(a, b, list, x, an.kind.side), MapOffset(a, b, list, x, "keep"))
    BY <1>1, <1>9 DEF MapAnchor
  <2>2. m = KeptLine(t, t)
    BY <2>1, <1>5
  <2>3. t # Lost
    BY <1>5 DEF Lost
  <2>4. m = [to |-> t, gone |-> FALSE]
    BY <2>2, <2>3 DEF KeptLine
  <2> QED BY <2>4, <1>1
<1> QED BY <1>7, <1>8, <1>9
----------------------------------------------------------------------------
(* A store whose order is current, and what is planned from it.            *)

Slot == [gen : Nat, anchor : Anchor \cup {NoAnchor}]
StoreValue == [slots : Seq(Slot), order : Seq(Nat), shift : Seq(Int)]
LiveIn(sl) == {s \in 1 .. Len(sl) : sl[s].anchor # NoAnchor}

\* The order lists the live slots, each at its rank.
Shaped(st) ==
    /\ st \in StoreValue
    /\ Len(st.order) <= MaxIds /\ Len(st.shift) = Len(st.order)
    /\ \A r \in 1 .. Len(st.order) :
          st.order[r] \in LiveIn(st.slots) /\ st.slots[st.order[r]].anchor.rank = r
    /\ \A s \in LiveIn(st.slots) : \E r \in 1 .. Len(st.order) : st.order[r] = s

\* It lists them by their offsets, which are in the text.
InOrder(st, len) ==
    /\ \A r \in 1 .. Len(st.order) : AtRank(st, r) \in 0 .. len
    /\ \A r \in 1 .. Len(st.order) - 1 : AtRank(st, r) <= AtRank(st, r + 1)

LEMMA LiveAnchor ==
    ASSUME NEW sl \in Seq(Slot), NEW s \in LiveIn(sl)
    PROVE  /\ s \in 1 .. Len(sl) /\ sl[s] \in Slot /\ sl[s].anchor \in Anchor /\ sl[s].anchor.offset \in Int
           /\ sl[s].anchor.kind \in Track /\ sl[s].anchor.rank \in Nat /\ sl[s].gen \in Nat
           /\ sl[s].anchor.invalidated \in BOOLEAN /\ sl[s].anchor.kind \in Kinds
<1>1. s \in 1 .. Len(sl) /\ sl[s].anchor # NoAnchor
  BY DEF LiveIn
<1>2. sl[s] \in Slot
  BY <1>1, EntryOf
<1>3. PICK x : x = sl[s]
  OBVIOUS
<1>4. x.anchor \in Anchor \cup {NoAnchor} /\ x.gen \in Nat
  BY <1>2, <1>3 DEF Slot
<1>5. PICK y : y = x.anchor
  OBVIOUS
<1>6. y \in Anchor
  BY <1>1, <1>3, <1>4, <1>5
<1>7. y.offset \in Int /\ y.kind \in Kinds /\ y.rank \in Nat /\ y.invalidated \in BOOLEAN
  BY <1>6 DEF Anchor
<1>8. y.kind \in Track
  BY <1>7, KindsAssumption
<1> QED BY <1>1, <1>2, <1>3, <1>4, <1>5, <1>6, <1>7, <1>8

LEMMA ShapedFacts ==
    ASSUME NEW st, Shaped(st)
    PROVE  /\ st.slots \in Seq(Slot) /\ st.order \in Seq(Nat) /\ st.shift \in Seq(Int)
           /\ Len(st.order) \in Nat /\ Len(st.slots) \in Nat /\ Len(st.order) <= MaxIds
           /\ \A r \in 1 .. Len(st.order) :
                /\ st.order[r] \in LiveIn(st.slots) /\ st.order[r] \in 1 .. Len(st.slots)
                /\ st.slots[st.order[r]].anchor.rank = r
                /\ ShiftAt(st.shift, r) \in Int /\ AtRank(st, r) \in Int
           /\ \A q, r \in 1 .. Len(st.order) : st.order[q] = st.order[r] => q = r
<1>1. st.slots \in Seq(Slot) /\ st.order \in Seq(Nat) /\ st.shift \in Seq(Int)
  BY DEF Shaped, StoreValue
<1>2. Len(st.order) \in Nat /\ Len(st.slots) \in Nat /\ Len(st.order) <= MaxIds
  BY <1>1, EntryOf DEF Shaped
<1>3. ASSUME NEW r \in 1 .. Len(st.order)
      PROVE  /\ st.order[r] \in LiveIn(st.slots) /\ st.order[r] \in 1 .. Len(st.slots)
             /\ st.slots[st.order[r]].anchor.rank = r
             /\ ShiftAt(st.shift, r) \in Int /\ AtRank(st, r) \in Int
  <2>1. st.order[r] \in LiveIn(st.slots) /\ st.slots[st.order[r]].anchor.rank = r
    BY DEF Shaped
  <2>2. PICK sh, s, sl : sh = st.shift /\ s = st.order[r] /\ sl = st.slots
    OBVIOUS
  <2>3. sh \in Seq(Int) /\ Len(sh) <= MaxIds /\ r \in 0 .. Len(sh)
    BY SMTT(30), <1>1, <1>2, <2>2 DEF Shaped
  <2>4. ShiftAt(sh, r) \in Int
    BY <2>3, ShiftTyped
  <2>5. s \in LiveIn(sl) /\ sl \in Seq(Slot)
    BY <2>1, <2>2, <1>1
  <2>6. sl[s].anchor.offset \in Int /\ s \in 1 .. Len(sl)
    BY <2>5, LiveAnchor
  <2>7. AtRank(st, r) = sl[s].anchor.offset + ShiftAt(sh, r)
    BY <2>2 DEF AtRank
  <2>8. AtRank(st, r) \in Int
    BY <2>4, <2>6, <2>7
  <2> QED BY <2>1, <2>2, <2>4, <2>6, <2>8
<1>4. ASSUME NEW q \in 1 .. Len(st.order), NEW r \in 1 .. Len(st.order), st.order[q] = st.order[r] PROVE q = r
  BY <1>3, <1>4
<1> QED BY <1>1, <1>2, <1>3, <1>4

\* A run of ranks whose offsets never fall.
LEMMA OrderGrows ==
    ASSUME NEW N \in Nat, NEW x, \A r \in 1 .. N : x[r] \in Int, \A r \in 1 .. N - 1 : x[r] <= x[r + 1],
           NEW q \in 1 .. N, NEW r \in q .. N
    PROVE  x[q] <= x[r]
<1> DEFINE P == {k \in Nat : q + k <= N => x[q] <= x[q + k]}
<1>1. 0 \in P
  <2>1. q + 0 = q /\ x[q] \in Int
    OBVIOUS
  <2> QED BY <2>1
<1>2. ASSUME NEW k \in P PROVE k + 1 \in P
  <2>1. k \in Nat /\ k + 1 \in Nat
    OBVIOUS
  <2>2. CASE q + (k + 1) <= N
    <3>1. PICK j : j = q + k
      OBVIOUS
    <3>2. j \in 1 .. N - 1 /\ j \in 1 .. N /\ j + 1 \in 1 .. N /\ j + 1 = q + (k + 1) /\ j <= N
      BY <3>1, <2>1, <2>2
    <3>3. x[q] <= x[j] /\ x[j] <= x[j + 1]
      BY <3>1, <3>2
    <3>4. PICK u, v, w : u = x[q] /\ v = x[j] /\ w = x[j + 1]
      OBVIOUS
    <3>5. u \in Int /\ v \in Int /\ w \in Int /\ u <= v /\ v <= w
      BY <3>2, <3>3, <3>4
    <3>6. u <= w
      BY <3>5
    <3> QED BY <3>2, <3>4, <3>6, <2>1
  <2>3. CASE ~(q + (k + 1) <= N)
    BY <2>1, <2>3
  <2> QED BY <2>2, <2>3
<1>3. P = Nat
  <2>1. P \in SUBSET Nat
    OBVIOUS
  <2> HIDE DEF P
  <2> QED BY <1>1, <1>2, <2>1, Induct
<1>4. r - q \in Nat /\ q + (r - q) = r /\ r <= N
  OBVIOUS
<1>5. r - q \in P
  BY <1>3, <1>4
<1> QED BY <1>4, <1>5

\* How many ranks have an offset below a bound: they are the first ones.
LEMMA RanksBelow ==
    ASSUME NEW N \in Nat, NEW x, \A r \in 1 .. N : x[r] \in Int, \A r \in 1 .. N - 1 : x[r] <= x[r + 1],
           NEW v \in Int, NEW c, c = Cardinality({r \in 1 .. N : x[r] < v})
    PROVE  c \in 0 .. N /\ \A r \in 1 .. N : x[r] < v <=> r <= c
<1>1. PICK S : S = {r \in 1 .. N : x[r] < v}
  OBVIOUS
<1>2. S \in SUBSET (1 .. N)
  BY <1>1
<1>3. ASSUME NEW n \in S, NEW m \in 1 .. n PROVE m \in S
  <2>1. n \in 1 .. N /\ m \in 1 .. N /\ n \in m .. N
    BY <1>2
  <2>2. x[m] <= x[n] /\ x[n] < v
    BY <2>1, <1>1, OrderGrows
  <2>3. PICK y, z : y = x[m] /\ z = x[n]
    OBVIOUS
  <2>4. y \in Int /\ z \in Int /\ y <= z /\ z < v
    BY <2>1, <2>2, <2>3
  <2>5. y < v
    BY <2>4
  <2> QED BY <2>1, <2>3, <2>5, <1>1
<1>4. c = Cardinality(S)
  BY <1>1
<1>5. c \in 0 .. N /\ S = 1 .. c
  BY <1>2, <1>3, <1>4, CountFacts
<1> QED BY <1>1, <1>5

\* What apply plans for the region g, B the length of the new text: the ranks
\* in the region, and its slots once each by where they go.
PlanIs(st, g, B, N, lo, hi, d, f) ==
    /\ lo \in 0 .. N /\ hi \in lo .. N /\ d = g.delta
    /\ \A r \in 1 .. N : (AtRank(st, r) < g.ws <=> r <= lo) /\ (AtRank(st, r) <= g.we <=> r <= hi)
    /\ Len(f) = hi - lo
    /\ \A i \in 1 .. hi - lo : \E r \in lo + 1 .. hi : f[i].slot = st.order[r]
    /\ \A r \in lo + 1 .. hi : \E i \in 1 .. hi - lo : f[i].slot = st.order[r]
    /\ \A i, j \in 1 .. hi - lo : f[i].slot = f[j].slot => i = j
    /\ \A i \in 1 .. hi - lo : f[i].anchor.to \in 0 .. B /\ f[i].anchor.gone \in BOOLEAN
    /\ \A i, j \in 1 .. hi - lo : i < j => f[i].anchor.to <= f[j].anchor.to

PlanOk(p, st, g, B) == PlanIs(st, g, B, Len(st.order), p.lo, p.hi, p.delta, p.moved)

\* Where each of them goes is where map_anchor puts it.
Going(p, st, a, b, list) ==
    \A i \in 1 .. Len(p.moved) : \E r \in 1 .. Len(st.order) :
        /\ p.moved[i].slot = st.order[r]
        /\ p.moved[i].anchor = MapAnchor(st.slots[st.order[r]].anchor, AtRank(st, r), a, b, list)

\* The sort of a plan.
ByPlace(S) ==
    [i \in 1 .. Cardinality(S) |->
        CHOOSE x \in S : Cardinality({y \in S : \/ y.anchor.to < x.anchor.to
                                                \/ y.anchor.to = x.anchor.to /\ y.from < x.from}) = i - 1]

\* A run of distinct records, sorted by where they go and then by rank.
Past(go, lo, hi) == {go[r] : r \in lo + 1 .. hi}

ListedByPlace(S, f, M) ==
    /\ f \in Seq(S) /\ Len(f) = M
    /\ \A x \in S : \E i \in 1 .. M : f[i] = x
    /\ \A i, j \in 1 .. M : f[i] = f[j] => i = j
    /\ \A i, j \in 1 .. M : i < j => f[i].anchor.to <= f[j].anchor.to

LEMMA MovesSorted ==
    ASSUME NEW lo \in Nat, NEW hi \in Nat, lo <= hi, NEW go,
           \A r \in lo + 1 .. hi : go[r].anchor.to \in Int /\ go[r].from = r,
           NEW S, S = Past(go, lo, hi), NEW f, f = ByPlace(S)
    PROVE  ListedByPlace(S, f, hi - lo)
<1> DEFINE Pre(y, x) == y.anchor.to < x.anchor.to \/ (y.anchor.to = x.anchor.to /\ y.from < x.from)
           lt == [x \in S |-> {y \in S : Pre(y, x)}]
<1>1. \A x \in S : x.anchor.to \in Int /\ x.from \in Int /\ x.from \in lo + 1 .. hi /\ go[x.from] = x
  BY DEF Past
<1>2. IsFiniteSet(S) /\ Cardinality(S) = hi - lo
  <2>1. PICK h : h = [r \in lo + 1 .. hi |-> go[r]]
    OBVIOUS
  <2>2. h \in [lo + 1 .. hi -> S] /\ \A x \in S : \E r \in lo + 1 .. hi : h[r] = x
    BY <2>1 DEF Past
  <2>3. \A q, r \in lo + 1 .. hi : h[q] = h[r] => q = r
    BY <2>1
  <2>4. h \in Bijection(lo + 1 .. hi, S)
    BY <2>2, <2>3 DEF Bijection, Injection, IsInjective, Surjection
  <2>5. ExistsBijection(lo + 1 .. hi, S)
    BY <2>4 DEF ExistsBijection
  <2>6. lo + 1 \in Int /\ hi \in Int
    OBVIOUS
  <2>7. IsFiniteSet(lo + 1 .. hi) /\ Cardinality(lo + 1 .. hi) = IF lo + 1 > hi THEN 0 ELSE hi - (lo + 1) + 1
    BY <2>6, FS_Interval
  <2>8. IsFiniteSet(S) /\ Cardinality(S) = Cardinality(lo + 1 .. hi)
    BY <2>5, <2>7, FS_Bijection
  <2> QED BY <2>7, <2>8
<1>3. IsOrder(S, lt)
  <2>1. lt \in [S -> SUBSET S]
    OBVIOUS
  <2>2. \A x \in S : x \notin lt[x]
    BY <1>1
  <2>3. ASSUME NEW x \in S, NEW y \in S, y \in lt[x], NEW z \in lt[y] PROVE z \in lt[x]
    <3>1. z \in S /\ Pre(z, y) /\ Pre(y, x)
      BY <2>3
    <3>2. PICK a1, b1, a2, b2, a3, b3 : /\ a1 = x.anchor.to /\ b1 = x.from /\ a2 = y.anchor.to /\ b2 = y.from
                                        /\ a3 = z.anchor.to /\ b3 = z.from
      OBVIOUS
    <3>3. a1 \in Int /\ a2 \in Int /\ a3 \in Int /\ b1 \in Int /\ b2 \in Int /\ b3 \in Int
      BY <3>1, <3>2, <1>1
    <3>4. (a3 < a2 \/ (a3 = a2 /\ b3 < b2)) /\ (a2 < a1 \/ (a2 = a1 /\ b2 < b1))
      BY <3>1, <3>2
    <3>5. a3 < a1 \/ (a3 = a1 /\ b3 < b1)
      BY <3>3, <3>4
    <3>6. Pre(z, x)
      BY <3>2, <3>5
    <3> QED BY <3>1, <3>6
  <2>4. ASSUME NEW x \in S, NEW y \in S, x # y PROVE y \in lt[x] \/ x \in lt[y]
    <3>1. x.from # y.from
      BY <2>4, <1>1
    <3>2. x.anchor.to \in Int /\ y.anchor.to \in Int /\ x.from \in Int /\ y.from \in Int
      BY <1>1
    <3>3. Pre(y, x) \/ Pre(x, y)
      BY <3>1, <3>2
    <3> QED BY <3>3
  <2> HIDE DEF lt
  <2> QED BY <2>1, <2>2, <2>3, <2>4 DEF IsOrder
<1>4. IsListing(S, lt, f)
  <2>1. \A x \in S : lt[x] = {y \in S : Pre(y, x)}
    OBVIOUS
  <2>2. f = [i \in 1 .. Cardinality(S) |-> CHOOSE x \in S : Cardinality({y \in S : Pre(y, x)}) = i - 1]
    BY Zenon DEF Pre, ByPlace
  <2> HIDE DEF Pre, lt
  <2>3. ASSUME NEW i \in 1 .. Cardinality(S), NEW x \in S, Cardinality(lt[x]) = i - 1
        PROVE  f[i] \in S /\ Cardinality(lt[f[i]]) = i - 1
    <3>1. f[i] = CHOOSE z \in S : Cardinality({y \in S : Pre(y, z)}) = i - 1
      BY <2>2
    <3>2. Cardinality({y \in S : Pre(y, x)}) = i - 1
      BY <2>1, <2>3
    <3>3. f[i] \in S /\ Cardinality({y \in S : Pre(y, f[i])}) = i - 1
      BY <3>1, <3>2
    <3> QED BY <3>3, <2>1
  <2>4. DOMAIN f = 1 .. Cardinality(S) /\ f = [i \in DOMAIN f |-> f[i]]
    BY <2>2
  <2> QED BY <2>3, <2>4 DEF IsListing
<1>5. PICK M \in Nat : M = hi - lo
  OBVIOUS
<1>6. \A x, y \in S : y \in lt[x] => y.anchor.to <= x.anchor.to
  BY <1>1
<1> HIDE DEF lt
<1>7. /\ f \in [1 .. M -> S]
      /\ \A x \in S : \E i \in 1 .. M : f[i] = x
      /\ \A i, j \in 1 .. M : f[i] = f[j] => i = j
      /\ \A i, j \in 1 .. M : i < j => f[i] \in lt[f[j]]
  <2>1. M = Cardinality(S)
    BY <1>2, <1>5
  <2>2. PICK lu : lu = lt
    OBVIOUS
  <2>3. IsFiniteSet(S) /\ IsOrder(S, lu) /\ IsListing(S, lu, f)
    BY <2>2, <1>2, <1>3, <1>4
  <2>4. Listed(S, lu, f, M)
    BY <2>1, <2>3, ListingFacts
  <2> QED BY <2>2, <2>4 DEF Listed
<1>8. f \in Seq(S) /\ Len(f) = M
  BY <1>5, <1>7
<1>9. ASSUME NEW i \in 1 .. M, NEW j \in 1 .. M, i < j PROVE f[i].anchor.to <= f[j].anchor.to
  BY <1>6, <1>7, <1>9
<1>10. ListedByPlace(S, f, M)
  BY <1>7, <1>8, <1>9 DEF ListedByPlace
<1> QED BY <1>5, <1>10

LEMMA PlanFacts ==
    ASSUME NEW a \in Str, NEW list, Canon(list, Len(a)), NEW b, b = ApplyTo(list, a),
           NEW st, Shaped(st), InOrder(st, Len(a)),
           NEW g \in [ws : Nat, we : Nat, delta : Int], g.ws <= g.we
    PROVE  /\ PlanOk(Plan(st, g, a, b, list), st, g, Len(b))
           /\ Going(Plan(st, g, a, b, list), st, a, b, list)
<1> DEFINE N == Len(st.order)
           x == [r \in 1 .. N |-> AtRank(st, r)]
           lo == Cardinality({r \in 1 .. N : AtRank(st, r) < g.ws})
           hi == Cardinality({r \in 1 .. N : AtRank(st, r) <= g.we})
           Gone(r) == [anchor |-> MapAnchor(st.slots[st.order[r]].anchor, AtRank(st, r), a, b, list),
                       slot |-> st.order[r], from |-> r]
           go == [r \in 1 .. N |-> Gone(r)]
           S == {go[r] : r \in lo + 1 .. hi}
           T == {Gone(r) : r \in lo + 1 .. hi}
           p == Plan(st, g, a, b, list)
           f == p.moved
<1>1. N \in Nat /\ g.ws \in Nat /\ g.we \in Nat /\ g.we + 1 \in Int
  BY ShapedFacts
<1>2. \A r \in 1 .. N : x[r] = AtRank(st, r) /\ x[r] \in Int
  BY ShapedFacts
<1>3. \A r \in 1 .. N - 1 : x[r] <= x[r + 1]
  <2>1. ASSUME NEW r \in 1 .. N - 1 PROVE r \in 1 .. N /\ r + 1 \in 1 .. N
    BY <1>1
  <2>2. \A r \in 1 .. N - 1 : AtRank(st, r) <= AtRank(st, r + 1)
    BY DEF InOrder
  <2> QED BY <2>1, <2>2
<1> HIDE DEF x
<1>4. lo \in 0 .. N /\ \A r \in 1 .. N : x[r] < g.ws <=> r <= lo
  <2>1. {r \in 1 .. N : AtRank(st, r) < g.ws} = {r \in 1 .. N : x[r] < g.ws}
    BY <1>2
  <2>2. PICK c, v, k : c = Cardinality({r \in 1 .. N : x[r] < g.ws}) /\ v = g.ws /\ k = N
    OBVIOUS
  <2>0. c = lo
    BY <2>1, <2>2
  <2>3. k \in Nat /\ v \in Int /\ c = Cardinality({r \in 1 .. k : x[r] < v}) /\ c = lo
    BY <2>0, <2>2, <1>1
  <2>4. (\A r \in 1 .. k : x[r] \in Int) /\ (\A r \in 1 .. k - 1 : x[r] <= x[r + 1])
    BY <2>2, <1>2, <1>3
  <2> HIDE DEF N, lo
  <2>5. c \in 0 .. k /\ \A r \in 1 .. k : x[r] < v <=> r <= c
    BY <2>3, <2>4, RanksBelow
  <2> QED BY <2>2, <2>3, <2>5
<1>5. hi \in 0 .. N /\ \A r \in 1 .. N : x[r] <= g.we <=> r <= hi
  <2>1. {r \in 1 .. N : AtRank(st, r) <= g.we} = {r \in 1 .. N : x[r] < g.we + 1}
    BY <1>1, <1>2
  <2>2. PICK c, v, k : c = Cardinality({r \in 1 .. N : x[r] < g.we + 1}) /\ v = g.we + 1 /\ k = N
    OBVIOUS
  <2>3. k \in Nat /\ v \in Int /\ c = Cardinality({r \in 1 .. k : x[r] < v}) /\ c = hi
    BY <2>1, <2>2, <1>1
  <2>4. (\A r \in 1 .. k : x[r] \in Int) /\ (\A r \in 1 .. k - 1 : x[r] <= x[r + 1])
    BY <2>2, <1>2, <1>3
  <2>5. \A r \in 1 .. N : x[r] < v <=> x[r] <= g.we
    BY <2>2, <1>1, <1>2
  <2> HIDE DEF N, hi
  <2>6. c \in 0 .. k /\ \A r \in 1 .. k : x[r] < v <=> r <= c
    BY <2>3, <2>4, RanksBelow
  <2> QED BY <2>2, <2>3, <2>5, <2>6
<1>6. /\ p.lo = lo /\ p.hi = hi /\ p.delta = g.delta
      /\ f = ByPlace(T)
  BY DEF Plan, Sorted, ByPlace
<1> HIDE DEF lo, hi, p
<1>7. lo <= hi
  <2>1. CASE lo = 0
    BY <2>1, <1>5, <1>1
  <2>2. CASE lo # 0
    <3>1. lo \in 1 .. N /\ lo <= lo
      BY <2>2, <1>4, <1>1
    <3>2. x[lo] < g.ws
      BY <3>1, <1>4
    <3>3. PICK y, s, t : y = x[lo] /\ s = g.ws /\ t = g.we
      OBVIOUS
    <3>4. y \in Int /\ s \in Nat /\ t \in Nat /\ y < s /\ s <= t
      BY <3>1, <3>2, <3>3, <1>1, <1>2
    <3>5. y <= t
      BY <3>4
    <3> QED BY <3>1, <3>3, <3>5, <1>5
  <2> QED BY <2>1, <2>2
<1>8. \A r \in lo + 1 .. hi : r \in 1 .. N
  BY <1>1, <1>4, <1>5
<1>9. T = S
  BY <1>8
<1>10. ASSUME NEW r \in 1 .. N
       PROVE  /\ go[r] = Gone(r) /\ go[r].from = r /\ go[r].slot = st.order[r]
              /\ go[r].anchor.to \in 0 .. Len(b) /\ go[r].anchor.gone \in BOOLEAN
              /\ go[r].anchor = MapAnchor(st.slots[st.order[r]].anchor, AtRank(st, r), a, b, list)
  <2>1. PICK an, o, m : /\ an = st.slots[st.order[r]].anchor /\ o = AtRank(st, r)
                        /\ m = MapAnchor(an, o, a, b, list)
    OBVIOUS
  <2>2. an.kind \in Track
    <3>1. st.slots \in Seq(Slot) /\ st.order[r] \in LiveIn(st.slots)
      BY ShapedFacts
    <3>2. PICK sl, s : sl = st.slots /\ s = st.order[r]
      OBVIOUS
    <3>3. sl \in Seq(Slot) /\ s \in LiveIn(sl)
      BY <3>1, <3>2
    <3>4. sl[s].anchor.kind \in Track
      BY <3>3, LiveAnchor
    <3> QED BY <3>2, <3>4, <2>1
  <2>3. o \in 0 .. Len(a)
    BY <2>1 DEF InOrder
  <2>4. m.to \in 0 .. Len(b) /\ m.gone \in BOOLEAN
    BY <2>1, <2>2, <2>3, MapAnchorFacts
  <2>5. go[r] = [anchor |-> m, slot |-> st.order[r], from |-> r]
    BY <2>1
  <2>6. go[r].anchor = m /\ go[r].slot = st.order[r] /\ go[r].from = r
    BY <2>5
  <2>7. go[r] = Gone(r)
    OBVIOUS
  <2> HIDE DEF go, Gone
  <2> QED BY <2>1, <2>4, <2>6, <2>7
<1> HIDE DEF go, N, f, T, Gone
<1>11. Len(b) \in Nat
  <2>1. b \in Str
    BY AppliedLen
  <2>2. b \in Seq(Bytes)
    BY <2>1 DEF Str
  <2> QED BY <2>2, EntryOf
<1>12. /\ f \in Seq(S) /\ Len(f) = hi - lo
       /\ \A y \in S : \E i \in 1 .. hi - lo : f[i] = y
       /\ \A i, j \in 1 .. hi - lo : f[i] = f[j] => i = j
       /\ \A i, j \in 1 .. hi - lo : i < j => f[i].anchor.to <= f[j].anchor.to
  <2>1. lo \in Nat /\ hi \in Nat
    BY <1>1, <1>4, <1>5
  <2>2. \A r \in lo + 1 .. hi : go[r].anchor.to \in Int /\ go[r].from = r
    BY <1>8, <1>10, <1>11
  <2>3. PICK U : U = S
    OBVIOUS
  <2>4. U = {go[r] : r \in lo + 1 .. hi}
    BY <2>3
  <2>5. f = ByPlace(U)
    BY <1>6, <1>9, <2>3
  <2>6. ListedByPlace(U, f, hi - lo)
    <3>1. PICK l, h, w, k : l = lo /\ h = hi /\ w = go /\ k = f
      OBVIOUS
    <3>2. l \in Nat /\ h \in Nat /\ l <= h
      BY <3>1, <2>1, <1>7
    <3>3. \A r \in l + 1 .. h : w[r].anchor.to \in Int /\ w[r].from = r
      BY <3>1, <2>2
    <3>4. U = Past(w, l, h) /\ k = ByPlace(U)
      BY <3>1, <2>4, <2>5 DEF Past
    <3>5. ListedByPlace(U, k, h - l)
      BY <3>2, <3>3, <3>4, MovesSorted
    <3> QED BY <3>1, <3>5
  <2> QED BY <2>3, <2>6 DEF ListedByPlace
<1>13. PICK M \in Nat : M = hi - lo
  BY <1>1, <1>4, <1>5, <1>7
<1>14. ASSUME NEW i \in 1 .. M PROVE \E r \in lo + 1 .. hi : f[i] = go[r]
  <2>1. f[i] \in S
    BY <1>12, <1>13, EntryOf
  <2> QED BY <2>1
<1>15. \A i \in 1 .. M : \E r \in lo + 1 .. hi : f[i].slot = st.order[r]
  <2>1. ASSUME NEW i \in 1 .. M PROVE \E r \in lo + 1 .. hi : f[i].slot = st.order[r]
    BY <1>8, <1>10, <1>14
  <2> QED BY <2>1
<1>16. ASSUME NEW r \in lo + 1 .. hi PROVE \E i \in 1 .. M : f[i].slot = st.order[r]
  <2>1. go[r] \in S
    OBVIOUS
  <2>2. PICK i \in 1 .. M : f[i] = go[r]
    BY <2>1, <1>12, <1>13
  <2> QED BY <2>2, <1>8, <1>10
<1>17. ASSUME NEW i \in 1 .. M, NEW j \in 1 .. M, f[i].slot = f[j].slot PROVE i = j
  <2>1. PICK q \in lo + 1 .. hi : f[i] = go[q]
    BY <1>14
  <2>2. PICK r \in lo + 1 .. hi : f[j] = go[r]
    BY <1>14
  <2>3. q \in 1 .. N /\ r \in 1 .. N
    BY <1>8
  <2>4. st.order[q] = st.order[r]
    BY <2>1, <2>2, <2>3, <1>10, <1>17
  <2>5. q = r
    BY <2>3, <2>4, ShapedFacts DEF N
  <2> QED BY <2>1, <2>2, <2>5, <1>12, <1>13
<1>18. ASSUME NEW i \in 1 .. M PROVE f[i].anchor.to \in 0 .. Len(b) /\ f[i].anchor.gone \in BOOLEAN
  <2>1. PICK q \in lo + 1 .. hi : f[i] = go[q]
    BY <1>14
  <2> QED BY <2>1, <1>8, <1>10
<1>19. \A i, j \in 1 .. M : i < j => f[i].anchor.to <= f[j].anchor.to
  BY <1>12, <1>13
<1>20. lo \in 0 .. N /\ hi \in lo .. N /\ Len(f) = M
  BY <1>1, <1>4, <1>5, <1>7, <1>12, <1>13
<1>21. \A r \in 1 .. N : (AtRank(st, r) < g.ws <=> r <= lo) /\ (AtRank(st, r) <= g.we <=> r <= hi)
  BY <1>2, <1>4, <1>5
<1>22. f = p.moved /\ N = Len(st.order) /\ p.lo = lo /\ p.hi = hi /\ p.delta = g.delta
  BY <1>6 DEF f, N
<1> HIDE DEF S
<1>23. PlanIs(st, g, Len(b), N, lo, hi, g.delta, f)
  BY <1>13, <1>15, <1>16, <1>17, <1>18, <1>19, <1>20, <1>21 DEF PlanIs
<1>24. ASSUME NEW i \in 1 .. M
       PROVE  \E r \in 1 .. N : /\ f[i].slot = st.order[r]
                                 /\ f[i].anchor = MapAnchor(st.slots[st.order[r]].anchor, AtRank(st, r), a, b, list)
  <2>1. PICK q \in lo + 1 .. hi : f[i] = go[q]
    BY <1>14
  <2>2. q \in 1 .. N
    BY <1>8
  <2>3. /\ go[q].slot = st.order[q]
        /\ go[q].anchor = MapAnchor(st.slots[st.order[q]].anchor, AtRank(st, q), a, b, list)
    BY <2>2, <1>10
  <2> QED BY <2>1, <2>2, <2>3
<1>25. Going(p, st, a, b, list)
  BY <1>20, <1>22, <1>24 DEF Going
<1> QED BY <1>22, <1>23, <1>25 DEF PlanOk, p
----------------------------------------------------------------------------
(* Placing the anchors of one region.                                      *)

LEMMA PlacingDef ==
    ASSUME NEW st, NEW p, NEW left, Len(p.moved) \in Nat, NEW f, f = Placing(st, p, left)
    PROVE  f[0] = st /\ \A n \in 1 .. Len(p.moved) : f[n] = PlaceOne(f[n - 1], p.moved[n], p.lo + n, left)
<1> DEFINE N == Len(p.moved)
           stp(x, n) == PlaceOne(x, p.moved[n], p.lo + n, left)
           val(g, n) == IF n = 0 THEN st ELSE stp(g[n - 1], n)
           Rec(g, m) == g = [n \in 0 .. m |-> val(g, n)]
           P == {m \in Nat : \E g : Rec(g, m)}
<1>0. N \in Nat
  OBVIOUS
<1> HIDE DEF N, stp
<1>1. 0 \in P
  <2> DEFINE h == [n \in 0 .. 0 |-> st]
  <2>1. Rec(h, 0)
    OBVIOUS
  <2> QED BY <2>1
<1>2. ASSUME NEW m \in P PROVE m + 1 \in P
  <2>0. m \in Nat
    OBVIOUS
  <2>1. PICK g : Rec(g, m)
    OBVIOUS
  <2>2. \A n \in 0 .. m : g[n] = val(g, n)
    BY <2>1
  <2> DEFINE h == [n \in 0 .. m + 1 |-> IF n = m + 1 THEN val(g, n) ELSE g[n]]
  <2>3. ASSUME NEW n \in 0 .. m + 1 PROVE h[n] = val(h, n)
    <3>1. h[n] = val(g, n)
      BY <2>2
    <3>2. n # 0 => n - 1 \in 0 .. m
      BY <2>0
    <3>3. \A j \in 0 .. m : h[j] = g[j]
      BY <2>0
    <3> HIDE DEF h
    <3> QED BY <3>1, <3>2, <3>3
  <2>4. h = [n \in 0 .. m + 1 |-> h[n]]
    OBVIOUS
  <2> HIDE DEF h, val
  <2>5. Rec(h, m + 1)
    <3>1. [n \in 0 .. m + 1 |-> h[n]] = [n \in 0 .. m + 1 |-> val(h, n)]
      BY <2>3
    <3> QED BY <3>1, <2>4, Zenon
  <2> HIDE DEF Rec
  <2> QED BY <2>5
<1>3. P = Nat
  <2>1. P \in SUBSET Nat
    OBVIOUS
  <2> HIDE DEF P
  <2> QED BY <1>1, <1>2, <2>1, Induct
<1>4. \E g : Rec(g, N)
  <2>1. N \in P
    BY <1>0, <1>3
  <2> HIDE DEF Rec
  <2> QED BY <2>1
<1>5. f = CHOOSE g : Rec(g, N)
  BY DEF Placing, N, stp
<1>6. Rec(f, N)
  BY <1>4, <1>5
<1>7. f[0] = st
  BY <1>6, <1>0
<1>8. \A n \in 1 .. N : f[n] = stp(f[n - 1], n)
  BY <1>6, <1>0
<1> QED BY <1>7, <1>8 DEF N, stp

\* The same slots are live under the same generations.
Alike(sl, new) ==
    Len(new) = Len(sl) /\ \A s \in 1 .. Len(sl) : new[s].gen = sl[s].gen /\ (new[s].anchor = NoAnchor <=> sl[s].anchor = NoAnchor)

LEMMA AlikeFacts ==
    ASSUME NEW sl \in Seq(Slot), NEW new \in Seq(Slot), Alike(sl, new)
    PROVE  Len(new) = Len(sl) /\ LiveIn(new) = LiveIn(sl)
BY EntryOf DEF Alike, LiveIn

\* A flag once set stays set.
Flagged(was, gone) == was \/ gone

\* The anchor of slot s placed at rank r, offset o, its flag i.
OnePlaced(st, s, r, o, i, out) ==
    /\ out \in StoreValue /\ out.shift = st.shift /\ Alike(st.slots, out.slots)
    /\ Len(out.order) = Len(st.order) /\ out.order[r] = s
    /\ \A q \in 1 .. Len(st.order) : q # r => out.order[q] = st.order[q]
    /\ out.slots[s].anchor.rank = r
    /\ out.slots[s].anchor.offset = o
    /\ out.slots[s].anchor.invalidated = i
    /\ \A t \in 1 .. Len(st.slots) : t # s => out.slots[t] = st.slots[t]

LEMMA PlaceOneFacts ==
    ASSUME NEW st \in StoreValue, NEW m, NEW s, s = m.slot, s \in LiveIn(st.slots),
           NEW r \in 1 .. Len(st.order), NEW left \in Int, m.anchor.to \in Int, m.anchor.gone \in BOOLEAN,
           ShiftAt(st.shift, r) \in Int, NEW out, out = PlaceOne(st, m, r, left)
    PROVE  OnePlaced(st, s, r, m.anchor.to - left - ShiftAt(st.shift, r),
                     Flagged(st.slots[s].anchor.invalidated, m.anchor.gone), out)
<1>1. PICK sl, od, sh, a : sl = st.slots /\ od = st.order /\ sh = st.shift /\ a = st.slots[s].anchor
  OBVIOUS
<1>2. sl \in Seq(Slot) /\ od \in Seq(Nat) /\ sh \in Seq(Int) /\ st = [slots |-> sl, order |-> od, shift |-> sh]
  BY <1>1 DEF StoreValue
<1>3. s \in 1 .. Len(sl) /\ sl[s] \in Slot /\ a = sl[s].anchor /\ a \in Anchor /\ Len(sl) \in Nat /\ Len(od) \in Nat
  <2>1. s \in LiveIn(sl)
    BY <1>1
  <2>2. s \in 1 .. Len(sl) /\ sl[s] \in Slot /\ sl[s].anchor \in Anchor
    BY <2>1, <1>2, LiveAnchor
  <2>3. Len(sl) \in Nat /\ Len(od) \in Nat
    BY <1>2, EntryOf
  <2> QED BY <2>2, <2>3, <1>1
<1>4. PICK o, inv : o = m.anchor.to - left - ShiftAt(sh, r) /\ inv = Flagged(a.invalidated, m.anchor.gone)
  OBVIOUS
<1>5. o \in Int /\ inv \in BOOLEAN
  <2>1. o \in Int
    BY <1>1, <1>4
  <2>2. a.invalidated \in BOOLEAN
    BY <1>3 DEF Anchor
  <2>3. inv \in BOOLEAN
    BY <2>2, <1>4 DEF Flagged
  <2> QED BY <2>1, <2>3
<1>6. PICK b, v : b = [a EXCEPT !.rank = r, !.offset = o, !.invalidated = inv] /\ v = [sl[s] EXCEPT !.anchor = b]
  OBVIOUS
<1>7. b \in Anchor /\ b.rank = r /\ b.offset = o /\ b # NoAnchor /\ b.invalidated = inv
  <2>1. a = [offset |-> a.offset, kind |-> a.kind, invalidated |-> a.invalidated, rank |-> a.rank] /\ a.kind \in Kinds
    BY <1>3 DEF Anchor
  <2>2. b = [offset |-> o, kind |-> a.kind, invalidated |-> inv, rank |-> r]
    BY <2>1, <1>6
  <2>3. r \in Nat
    BY <1>1, <1>3
  <2>4. b \in Anchor
    BY <2>1, <2>2, <2>3, <1>5 DEF Anchor
  <2> QED BY <2>2, <2>4, NoAnchorAssumption
<1>8. v = [gen |-> sl[s].gen, anchor |-> b] /\ v \in Slot
  <2>1. sl[s] = [gen |-> sl[s].gen, anchor |-> a] /\ sl[s].gen \in Nat
    BY <1>3 DEF Slot
  <2>2. v = [gen |-> sl[s].gen, anchor |-> b]
    BY <2>1, <1>6
  <2> QED BY <2>1, <2>2, <1>7 DEF Slot
<1>9. out = [slots |-> [sl EXCEPT ![s] = v], order |-> [od EXCEPT ![r] = s], shift |-> sh]
  <2>1. out = [st EXCEPT !.order[r] = s, !.slots[s].anchor = b]
    BY <1>1, <1>4, <1>6 DEF PlaceOne, Flagged
  <2>2. out = [slots |-> [sl EXCEPT ![s].anchor = b], order |-> [od EXCEPT ![r] = s], shift |-> sh]
    BY <2>1, <1>2
  <2>3. [sl EXCEPT ![s].anchor = b] = [sl EXCEPT ![s] = v]
    BY <1>6
  <2> QED BY <2>2, <2>3
<1>10. PICK sn, on : sn = [sl EXCEPT ![s] = v] /\ on = [od EXCEPT ![r] = s]
  OBVIOUS
<1>11. sn \in Seq(Slot) /\ Len(sn) = Len(sl) /\ sn[s] = v /\ \A t \in 1 .. Len(sl) : t # s => sn[t] = sl[t]
  BY <1>2, <1>3, <1>8, <1>10
<1>12. on \in Seq(Nat) /\ Len(on) = Len(od) /\ on[r] = s /\ \A t \in 1 .. Len(od) : t # r => on[t] = od[t]
  <2>1. s \in Nat /\ r \in 1 .. Len(od)
    BY <1>1, <1>3
  <2> QED BY <2>1, <1>2, <1>10
<1>13. out.slots = sn /\ out.order = on /\ out.shift = sh /\ out \in StoreValue
  <2>1. out = [slots |-> sn, order |-> on, shift |-> sh]
    BY <1>9, <1>10
  <2> QED BY <2>1, <1>2, <1>11, <1>12 DEF StoreValue
<1>14. Alike(sl, sn)
  <2>1. sn[s].gen = sl[s].gen /\ sn[s].anchor = b
    BY <1>8, <1>11
  <2>2. sn[s].anchor # NoAnchor /\ sl[s].anchor # NoAnchor
    BY <2>1, <1>3, <1>7, NoAnchorAssumption
  <2> QED BY <2>1, <2>2, <1>11 DEF Alike
<1>15. sn[s].anchor.rank = r /\ sn[s].anchor.offset = o /\ sn[s].anchor.invalidated = inv
  BY <1>7, <1>8, <1>11
<1>16. OnePlaced(st, s, r, o, inv, out)
  BY <1>1, <1>11, <1>12, <1>13, <1>14, <1>15 DEF OnePlaced
<1> QED BY <1>1, <1>4, <1>16

\* What a plan asks of the store it is placed in.
Placeable(st, p) ==
    /\ st \in StoreValue /\ p.lo \in Nat /\ Len(p.moved) \in Nat /\ p.lo + Len(p.moved) <= Len(st.order)
    /\ \A r \in 1 .. Len(st.order) : ShiftAt(st.shift, r) \in Int
    /\ \A i \in 1 .. Len(p.moved) : /\ p.moved[i].slot \in LiveIn(st.slots)
                                   /\ p.moved[i].anchor.to \in Int /\ p.moved[i].anchor.gone \in BOOLEAN
    /\ \A i, j \in 1 .. Len(p.moved) : p.moved[i].slot = p.moved[j].slot => i = j

\* The first i anchors of the plan are at their ranks; the rest is as it was.
PlacedTo(st, p, left, i, out) ==
    /\ out \in StoreValue /\ out.shift = st.shift /\ Alike(st.slots, out.slots)
    /\ Len(out.order) = Len(st.order)
    /\ \A r \in 1 .. Len(st.order) : (r <= p.lo \/ r > p.lo + i) => out.order[r] = st.order[r]
    /\ \A j \in 1 .. i : /\ out.order[p.lo + j] = p.moved[j].slot
                        /\ out.slots[p.moved[j].slot].anchor.rank = p.lo + j
                        /\ out.slots[p.moved[j].slot].anchor.offset = p.moved[j].anchor.to - left - ShiftAt(st.shift, p.lo + j)
                        /\ out.slots[p.moved[j].slot].anchor.invalidated = Flagged(st.slots[p.moved[j].slot].anchor.invalidated, p.moved[j].anchor.gone)
    /\ \A s \in 1 .. Len(st.slots) : (\A j \in 1 .. i : p.moved[j].slot # s) => out.slots[s] = st.slots[s]

LEMMA PlacedNext ==
    ASSUME NEW st, NEW p, Placeable(st, p), NEW left \in Int, NEW i \in Nat, i < Len(p.moved),
           NEW x, PlacedTo(st, p, left, i, x)
    PROVE  PlacedTo(st, p, left, i + 1, PlaceOne(x, p.moved[i + 1], p.lo + (i + 1), left))
<1>1. PICK N, M, L, lo, m, r, y, k, sl : /\ N = Len(st.order) /\ M = Len(p.moved) /\ L = Len(st.slots) /\ lo = p.lo
                                  /\ m = p.moved[i + 1] /\ r = lo + (i + 1) /\ y = PlaceOne(x, m, r, left)
                                  /\ k = m.slot /\ sl = st.slots
  OBVIOUS
<1>2. sl \in Seq(Slot) /\ st.order \in Seq(Nat) /\ N \in Nat /\ L \in Nat /\ L = Len(sl)
  <2>1. sl \in Seq(Slot) /\ st.order \in Seq(Nat)
    BY <1>1 DEF Placeable, StoreValue
  <2> QED BY <2>1, <1>1, EntryOf
<1>3. lo \in Nat /\ M \in Nat /\ lo + M <= N /\ i + 1 \in 1 .. M /\ i + 1 \in Nat /\ i < M
  BY <1>1 DEF Placeable
<1>4. r \in 1 .. N /\ r = lo + i + 1 /\ r > lo /\ r > lo + i
  <2>1. r = lo + (i + 1) /\ N \in Nat
    BY <1>1, <1>2
  <2> QED BY <2>1, <1>3
<1>5. /\ x \in StoreValue /\ x.shift = st.shift /\ Alike(sl, x.slots) /\ Len(x.order) = N
  BY <1>1 DEF PlacedTo
<1>6. x.slots \in Seq(Slot) /\ LiveIn(x.slots) = LiveIn(sl) /\ Len(x.slots) = L
  <2>1. x.slots \in Seq(Slot)
    BY <1>5 DEF StoreValue
  <2> QED BY <2>1, <1>2, <1>5, AlikeFacts
<1>7. /\ k \in LiveIn(sl) /\ m.anchor.to \in Int /\ m.anchor.gone \in BOOLEAN /\ ShiftAt(st.shift, r) \in Int
      /\ \A j \in 1 .. i : p.moved[j].slot # k
  <2>1. k \in LiveIn(sl) /\ m.anchor.to \in Int /\ m.anchor.gone \in BOOLEAN
    BY <1>1, <1>3 DEF Placeable
  <2>2. ShiftAt(st.shift, r) \in Int
    BY <1>1, <1>4 DEF Placeable
  <2>3. ASSUME NEW j \in 1 .. i PROVE p.moved[j].slot # k
    <3>1. j \in 1 .. M /\ j # i + 1
      BY <1>3
    <3> QED BY <3>1, <1>1, <1>3 DEF Placeable
  <2> QED BY <2>1, <2>2, <2>3
<1>8. /\ y \in StoreValue /\ y.shift = x.shift /\ Alike(x.slots, y.slots)
      /\ Len(y.order) = N /\ y.order[r] = k
      /\ \A q \in 1 .. N : q # r => y.order[q] = x.order[q]
      /\ y.slots[k].anchor.rank = r
      /\ y.slots[k].anchor.offset = m.anchor.to - left - ShiftAt(st.shift, r)
      /\ y.slots[k].anchor.invalidated = Flagged(st.slots[k].anchor.invalidated, m.anchor.gone)
      /\ \A t \in 1 .. L : t # k => y.slots[t] = x.slots[t]
  <2>1. k = m.slot /\ k \in LiveIn(x.slots) /\ r \in 1 .. Len(x.order) /\ ShiftAt(x.shift, r) \in Int
    BY <1>1, <1>4, <1>5, <1>6, <1>7
  <2>2. y = PlaceOne(x, m, r, left)
    BY <1>1
  <2>3. OnePlaced(x, k, r, m.anchor.to - left - ShiftAt(x.shift, r), Flagged(x.slots[k].anchor.invalidated, m.anchor.gone), y)
    BY <2>1, <2>2, <1>5, <1>7, PlaceOneFacts
  <2>4. x.slots[k] = st.slots[k]
    <3>1. k \in 1 .. L
      BY SMTT(30), <1>1, <1>7 DEF LiveIn
    <3> QED BY <3>1, <1>1, <1>7 DEF PlacedTo
  <2> QED BY <2>3, <2>4, <1>5, <1>6 DEF OnePlaced
<1>9. Alike(sl, y.slots)
  BY ZenonT(40), <1>1, <1>5, <1>6, <1>8 DEF Alike
<1>10. ASSUME NEW q \in 1 .. N, q <= lo \/ q > lo + (i + 1) PROVE y.order[q] = st.order[q]
  <2>1. q # r /\ (q <= lo \/ q > lo + i)
    BY <1>10, <1>4, <1>3
  <2>2. x.order[q] = st.order[q]
    BY <2>1, <1>1 DEF PlacedTo
  <2> QED BY <2>1, <2>2, <1>8
<1>11. ASSUME NEW j \in 1 .. i + 1
       PROVE  /\ y.order[lo + j] = p.moved[j].slot /\ y.slots[p.moved[j].slot].anchor.rank = lo + j
              /\ y.slots[p.moved[j].slot].anchor.offset = p.moved[j].anchor.to - left - ShiftAt(st.shift, lo + j)
              /\ y.slots[p.moved[j].slot].anchor.invalidated = Flagged(st.slots[p.moved[j].slot].anchor.invalidated, p.moved[j].anchor.gone)
  <2>1. CASE j = i + 1
    BY ZenonT(40), <2>1, <1>1, <1>8
  <2>2. CASE j # i + 1
    <3>1. j \in 1 .. i /\ lo + j # r /\ lo + j \in 1 .. N /\ j \in 1 .. M
      <4>1. j \in 1 .. i
        BY <2>2
      <4>2. j \in Nat /\ j >= 1 /\ j <= i
        BY <4>1
      <4>3. lo + j # r
        BY <4>2, <1>3, <1>4
      <4>4. lo + j \in 1 .. N
        BY <4>2, <1>2, <1>3
      <4>5. j \in 1 .. M
        BY <4>2, <1>3
      <4> QED BY <4>1, <4>3, <4>4, <4>5
    <3>2. p.moved[j].slot # k /\ p.moved[j].slot \in 1 .. L
      BY <3>1, <1>1, <1>7 DEF Placeable, LiveIn
    <3>3. /\ x.order[lo + j] = p.moved[j].slot /\ x.slots[p.moved[j].slot].anchor.rank = lo + j
          /\ x.slots[p.moved[j].slot].anchor.offset = p.moved[j].anchor.to - left - ShiftAt(st.shift, lo + j)
          /\ x.slots[p.moved[j].slot].anchor.invalidated = Flagged(st.slots[p.moved[j].slot].anchor.invalidated, p.moved[j].anchor.gone)
      BY <3>1, <1>1 DEF PlacedTo
    <3> QED BY <3>1, <3>2, <3>3, <1>8
  <2> QED BY <2>1, <2>2
<1>12. ASSUME NEW s \in 1 .. L, \A j \in 1 .. i + 1 : p.moved[j].slot # s PROVE y.slots[s] = st.slots[s]
  <2>1. \A j \in 1 .. i : p.moved[j].slot # s
    <3>1. \A j \in 1 .. i : j \in 1 .. i + 1
      OBVIOUS
    <3> QED BY <3>1, <1>12
  <2>2. i + 1 \in 1 .. i + 1
    OBVIOUS
  <2>3. s # k
    BY <2>2, <1>1, <1>12
  <2>4. x.slots[s] = st.slots[s]
    BY <2>1, <1>1 DEF PlacedTo
  <2> QED BY <2>3, <2>4, <1>8
<1>13. y.shift = st.shift
  BY SMTT(30), <1>5, <1>8
<1>14. PlacedTo(st, p, left, i + 1, y)
  BY ZenonT(40), <1>1, <1>8, <1>9, <1>10, <1>11, <1>12, <1>13 DEF PlacedTo
<1> QED BY <1>1, <1>14

LEMMA PlacingFacts ==
    ASSUME NEW st, NEW p, Placeable(st, p), NEW left \in Int
    PROVE  PlacedTo(st, p, left, Len(p.moved), Placing(st, p, left)[Len(p.moved)])
<1>0. PICK f, M : f = Placing(st, p, left) /\ M = Len(p.moved)
  OBVIOUS
<1>1. M \in Nat
  BY <1>0 DEF Placeable
<1>2. f[0] = st /\ \A n \in 1 .. M : f[n] = PlaceOne(f[n - 1], p.moved[n], p.lo + n, left)
  BY <1>0, <1>1, PlacingDef
<1> DEFINE P == {i \in Nat : i <= M => PlacedTo(st, p, left, i, f[i])}
<1>3. 0 \in P
  <2>1. st \in StoreValue
    BY DEF Placeable
  <2>2. Alike(st.slots, st.slots)
    BY DEF Alike
  <2>3. \A j \in 1 .. 0 : FALSE
    OBVIOUS
  <2>4. PlacedTo(st, p, left, 0, st)
    BY <2>1, <2>2, <2>3 DEF PlacedTo
  <2> QED BY <2>4, <1>2
<1>4. ASSUME NEW i \in P PROVE i + 1 \in P
  <2>1. i \in Nat /\ i + 1 \in Nat
    OBVIOUS
  <2>2. CASE i + 1 <= M
    <3>1. i <= M /\ i < M /\ i + 1 \in 1 .. M /\ (i + 1) - 1 = i
      BY <2>1, <2>2, <1>1
    <3>2. PICK x : x = f[i]
      OBVIOUS
    <3>3. PlacedTo(st, p, left, i, x) /\ i < Len(p.moved)
      BY <3>1, <3>2, <1>0
    <3>4. PlacedTo(st, p, left, i + 1, PlaceOne(x, p.moved[i + 1], p.lo + (i + 1), left))
      BY <3>3, <2>1, PlacedNext
    <3>5. f[i + 1] = PlaceOne(x, p.moved[i + 1], p.lo + (i + 1), left)
      BY <3>1, <3>2, <1>2
    <3> QED BY <3>4, <3>5, <2>1
  <2>3. CASE ~(i + 1 <= M)
    BY <2>1, <2>3
  <2> QED BY <2>2, <2>3
<1>5. P = Nat
  <2>1. P \in SUBSET Nat
    OBVIOUS
  <2> HIDE DEF P
  <2> QED BY <1>3, <1>4, <2>1, Induct
<1>6. M \in P /\ M <= M
  BY <1>1, <1>5
<1> QED BY <1>0, <1>6

\* The plan lists the slots at the ranks lo + 1 .. hi, once each.
Fits(st, p) ==
    /\ p.lo \in 0 .. Len(st.order) /\ p.hi \in p.lo .. Len(st.order) /\ p.delta \in Int
    /\ Len(p.moved) = p.hi - p.lo
    /\ \A i \in 1 .. Len(p.moved) : /\ \E r \in p.lo + 1 .. p.hi : p.moved[i].slot = st.order[r]
                                    /\ p.moved[i].anchor.to \in Int /\ p.moved[i].anchor.gone \in BOOLEAN
    /\ \A r \in p.lo + 1 .. p.hi : \E i \in 1 .. Len(p.moved) : p.moved[i].slot = st.order[r]
    /\ \A i, j \in 1 .. Len(p.moved) : p.moved[i].slot = p.moved[j].slot => i = j

\* A region placed: its anchors at their new places, the ones past it moved
\* by its delta.
RegionPlaced(st, p, left, y) ==
    /\ Shaped(y) /\ Len(y.order) = Len(st.order) /\ Alike(st.slots, y.slots)
    /\ \A r \in 1 .. Len(st.order) : r <= p.lo => /\ y.order[r] = st.order[r]
                                                  /\ y.slots[st.order[r]] = st.slots[st.order[r]]
                                                  /\ ShiftAt(y.shift, r) = ShiftAt(st.shift, r)
                                                  /\ AtRank(y, r) = AtRank(st, r)
    /\ \A r \in 1 .. Len(st.order) : r > p.hi => AtRank(y, r) = AtRank(st, r) + p.delta
    /\ \A j \in 1 .. p.hi - p.lo : AtRank(y, p.lo + j) = p.moved[j].anchor.to - left

\* Who is where in it: nobody past the region changes, its own anchors are at
\* their new ranks with their flags.
RegionFlags(st, p, y) ==
    /\ \A r \in 1 .. Len(st.order) : r > p.hi => /\ y.order[r] = st.order[r]
                                                  /\ y.slots[st.order[r]] = st.slots[st.order[r]]
    /\ \A j \in 1 .. p.hi - p.lo :
          /\ y.order[p.lo + j] = p.moved[j].slot
          /\ y.slots[p.moved[j].slot].anchor.invalidated = Flagged(st.slots[p.moved[j].slot].anchor.invalidated, p.moved[j].anchor.gone)

LEMMA PlaceFacts ==
    ASSUME NEW st, Shaped(st), Len(st.order) >= 1, NEW p, Fits(st, p), NEW left \in Int
    PROVE  RegionPlaced(st, p, left, Place(st, p, left)) /\ RegionFlags(st, p, Place(st, p, left))
<1>1. PICK N, L, M, lo, hi, d, od, sl, sh, f : /\ N = Len(st.order) /\ L = Len(st.slots) /\ M = Len(p.moved)
                                        /\ lo = p.lo /\ hi = p.hi /\ d = p.delta
                                        /\ od = st.order /\ sl = st.slots /\ sh = st.shift /\ f = p.moved
  OBVIOUS
<1>2. /\ sl \in Seq(Slot) /\ od \in Seq(Nat) /\ sh \in Seq(Int) /\ N \in Nat /\ L \in Nat /\ N <= MaxIds /\ N >= 1
      /\ N = Len(od) /\ L = Len(sl) /\ Len(sh) = N /\ st \in StoreValue
  BY <1>1, ShapedFacts DEF Shaped
<1>3. \A r \in 1 .. N : /\ od[r] \in LiveIn(sl) /\ od[r] \in 1 .. L /\ sl[od[r]].anchor.rank = r
                        /\ ShiftAt(sh, r) \in Int /\ AtRank(st, r) \in Int
                        /\ AtRank(st, r) = sl[od[r]].anchor.offset + ShiftAt(sh, r)
  BY <1>1, ShapedFacts DEF AtRank
<1>4. \A q, r \in 1 .. N : od[q] = od[r] => q = r
  BY <1>1, ShapedFacts
<1>5. lo \in Nat /\ hi \in Nat /\ lo <= hi /\ hi <= N /\ d \in Int /\ M \in Nat /\ M = hi - lo /\ lo + M = hi
  <2>1. lo \in 0 .. N /\ hi \in lo .. N /\ d \in Int /\ M = hi - lo
    BY <1>1 DEF Fits
  <2> QED BY <2>1, <1>2
<1>6. /\ \A i \in 1 .. M : /\ \E r \in lo + 1 .. hi : f[i].slot = od[r]
                           /\ f[i].anchor.to \in Int /\ f[i].anchor.gone \in BOOLEAN
      /\ \A r \in lo + 1 .. hi : \E i \in 1 .. M : f[i].slot = od[r]
      /\ \A i, j \in 1 .. M : f[i].slot = f[j].slot => i = j
  BY <1>1 DEF Fits
<1>7. \A r \in lo + 1 .. hi : r \in 1 .. N
  BY <1>2, <1>5
<1>8. Placeable(st, p)
  <2>1. \A i \in 1 .. M : f[i].slot \in LiveIn(sl)
    BY <1>3, <1>6, <1>7
  <2>2. lo + M <= N
    BY <1>5
  <2> QED BY <2>1, <2>2, <1>1, <1>2, <1>3, <1>5, <1>6 DEF Placeable
<1>9. PICK x, y : x = Placing(st, p, left)[Len(p.moved)] /\ y = Place(st, p, left)
  OBVIOUS
<1>10. PlacedTo(st, p, left, M, x)
  BY SMTT(30), <1>1, <1>8, <1>9, PlacingFacts
<1>11. /\ x \in StoreValue /\ x.shift = sh /\ Alike(sl, x.slots) /\ Len(x.order) = N
       /\ \A r \in 1 .. N : (r <= lo \/ r > hi) => x.order[r] = od[r]
       /\ \A j \in 1 .. M : /\ x.order[lo + j] = f[j].slot
                            /\ x.slots[f[j].slot].anchor.rank = lo + j
                            /\ x.slots[f[j].slot].anchor.offset = f[j].anchor.to - left - ShiftAt(sh, lo + j)
                            /\ x.slots[f[j].slot].anchor.invalidated = Flagged(sl[f[j].slot].anchor.invalidated, f[j].anchor.gone)
       /\ \A s \in 1 .. L : (\A j \in 1 .. M : f[j].slot # s) => x.slots[s] = sl[s]
  BY <1>1, <1>5, <1>10 DEF PlacedTo
<1>12. PICK sy : sy = AddFrom(sh, hi + 1, d)
  OBVIOUS
<1>13. sy \in Seq(Int) /\ Len(sy) = N
  BY <1>2, <1>5, <1>12, AddFromFacts
<1>14. ASSUME NEW r \in 1 .. N
       PROVE ShiftAt(sy, r) \in Int /\ ShiftAt(sy, r) = ShiftAt(sh, r) + IF r > hi THEN d ELSE 0
  <2>1. hi + 1 \in 1 .. 2 * MaxIds
    <3>1. MaxIds \in Nat
      BY KFacts
    <3> QED BY <3>1, <1>2, <1>5
  <2>2. r \in 0 .. Len(sh) /\ Len(sh) <= MaxIds
    BY <1>2
  <2>3. ShiftAt(sy, r) = ShiftAt(sh, r) + IF hi + 1 <= r THEN d ELSE 0
    BY <2>1, <2>2, <1>2, <1>5, <1>12, ShiftsAreRight
  <2>4. (hi + 1 <= r <=> r > hi) /\ ShiftAt(sh, r) \in Int
    BY <1>3, <1>5
  <2>5. PICK u : u = ShiftAt(sh, r)
    OBVIOUS
  <2> QED BY <2>3, <2>4, <2>5, <1>5
<1>15. y.slots = x.slots /\ y.order = x.order /\ y.shift = sy /\ y \in StoreValue
  <2>1. x = [slots |-> x.slots, order |-> x.order, shift |-> sh] /\ x.slots \in Seq(Slot) /\ x.order \in Seq(Nat)
    BY SMTT(30), <1>11 DEF StoreValue
  <2>2. y = [x EXCEPT !.shift = sy]
    BY Zenon, <1>1, <1>9, <1>11, <1>12 DEF Place
  <2>3. y = [slots |-> x.slots, order |-> x.order, shift |-> sy]
    BY <2>1, <2>2
  <2> QED BY <2>1, <2>3, <1>13 DEF StoreValue
<1>16. Alike(sl, y.slots) /\ LiveIn(y.slots) = LiveIn(sl) /\ Len(y.order) = N /\ Len(y.slots) = L
  <2>1. y.slots \in Seq(Slot)
    BY <1>15 DEF StoreValue
  <2>2. Alike(sl, y.slots)
    BY <1>11, <1>15
  <2> QED BY <2>1, <2>2, <1>2, <1>11, <1>15, AlikeFacts
<1>17. ASSUME NEW r \in 1 .. N, r <= lo \/ r > hi PROVE y.order[r] = od[r] /\ y.slots[od[r]] = sl[od[r]]
  <2>1. y.order[r] = od[r]
    BY <1>11, <1>15, <1>17
  <2>2. ASSUME NEW j \in 1 .. M PROVE f[j].slot # od[r]
    <3>1. PICK q \in lo + 1 .. hi : f[j].slot = od[q]
      BY <1>6
    <3>2. q # r /\ q \in 1 .. N
      BY <1>5, <1>7, <1>17
    <3> QED BY <3>1, <3>2, <1>4
  <2>3. od[r] \in 1 .. L
    BY <1>3
  <2> QED BY <2>1, <2>2, <2>3, <1>11, <1>15
<1>18. ASSUME NEW r \in 1 .. N, ~(r <= lo \/ r > hi)
       PROVE  r - lo \in 1 .. M /\ lo + (r - lo) = r
  BY <1>5, <1>18
<1>19. ASSUME NEW j \in 1 .. M
       PROVE  /\ lo + j \in 1 .. N /\ ~(lo + j > hi)
              /\ y.order[lo + j] = f[j].slot /\ y.slots[f[j].slot].anchor.rank = lo + j
              /\ y.slots[f[j].slot].anchor.offset = f[j].anchor.to - left - ShiftAt(sh, lo + j)
              /\ f[j].slot \in LiveIn(sl)
              /\ y.slots[f[j].slot].anchor.invalidated = Flagged(sl[f[j].slot].anchor.invalidated, f[j].anchor.gone)
  <2>1. lo + j \in 1 .. N /\ ~(lo + j > hi)
    BY <1>2, <1>5
  <2>2. f[j].slot \in LiveIn(sl)
    BY <1>3, <1>6, <1>7
  <2> QED BY <2>1, <2>2, <1>11, <1>15
<1>20. ASSUME NEW r \in 1 .. N PROVE y.order[r] \in LiveIn(y.slots) /\ y.slots[y.order[r]].anchor.rank = r
  <2>1. CASE r <= lo \/ r > hi
    BY <2>1, <1>3, <1>16, <1>17
  <2>2. CASE ~(r <= lo \/ r > hi)
    <3>1. PICK j : j = r - lo
      OBVIOUS
    <3>2. j \in 1 .. M /\ lo + j = r
      BY <3>1, <2>2, <1>18
    <3> QED BY <3>2, <1>16, <1>19
  <2> QED BY <2>1, <2>2
<1>21. ASSUME NEW s \in LiveIn(y.slots) PROVE \E r \in 1 .. N : y.order[r] = s
  <2>1. s \in LiveIn(sl)
    BY <1>16
  <2>2. PICK q \in 1 .. N : od[q] = s
    BY <2>1, <1>1 DEF Shaped
  <2>3. CASE q <= lo \/ q > hi
    BY <2>2, <2>3, <1>17
  <2>4. CASE ~(q <= lo \/ q > hi)
    <3>1. q \in lo + 1 .. hi
      BY <2>4, <1>5
    <3>2. PICK i \in 1 .. M : f[i].slot = od[q]
      BY <3>1, <1>6
    <3> QED BY <3>2, <2>2, <1>19
  <2> QED BY <2>3, <2>4
<1>22. Shaped(y)
  BY <1>2, <1>13, <1>15, <1>16, <1>20, <1>21 DEF Shaped
<1>23. ASSUME NEW r \in 1 .. N
       PROVE  AtRank(y, r) = y.slots[y.order[r]].anchor.offset + ShiftAt(sy, r)
  BY <1>15 DEF AtRank
<1>24. ASSUME NEW r \in 1 .. N, r <= lo
       PROVE  y.order[r] = od[r] /\ y.slots[od[r]] = sl[od[r]] /\ ShiftAt(sy, r) = ShiftAt(sh, r) /\ AtRank(y, r) = AtRank(st, r)
  <2>1. y.order[r] = od[r] /\ y.slots[od[r]] = sl[od[r]]
    BY <1>17, <1>24
  <2>2. ~(r > hi)
    BY <1>5, <1>24
  <2>3. ShiftAt(sy, r) = ShiftAt(sh, r)
    BY <2>2, <1>3, <1>14
  <2> QED BY <2>1, <2>3, <1>3, <1>23
<1>25. ASSUME NEW r \in 1 .. N, r > hi PROVE AtRank(y, r) = AtRank(st, r) + d
  <2>1. y.order[r] = od[r] /\ y.slots[od[r]] = sl[od[r]]
    BY <1>17, <1>25
  <2>2. PICK u, o, t : u = ShiftAt(sh, r) /\ o = sl[od[r]].anchor.offset /\ t = ShiftAt(sy, r)
    OBVIOUS
  <2>3. t = u + d /\ u \in Int
    BY <2>2, <1>3, <1>14, <1>25
  <2>4. o \in Int
    <3>1. PICK s : s = od[r]
      OBVIOUS
    <3>2. s \in LiveIn(sl)
      BY <3>1, <1>3
    <3>3. sl[s].anchor.offset \in Int
      BY <3>2, <1>2, LiveAnchor
    <3> QED BY <3>1, <3>3, <2>2
  <2>5. AtRank(y, r) = o + t /\ AtRank(st, r) = o + u
    BY <2>1, <2>2, <1>3, <1>23
  <2>6. o + t = (o + u) + d
    BY <2>3, <2>4, <1>5
  <2> QED BY <2>5, <2>6
<1>26. ASSUME NEW j \in 1 .. M PROVE AtRank(y, lo + j) = f[j].anchor.to - left
  <2>1. PICK r, u, t, w : r = lo + j /\ u = ShiftAt(sh, r) /\ t = ShiftAt(sy, r) /\ w = f[j].anchor.to
    OBVIOUS
  <2>2. r \in 1 .. N /\ ~(r > hi) /\ y.slots[y.order[r]].anchor.offset = w - left - u
    BY <2>1, <1>19
  <2>3. t = u /\ u \in Int
    BY <2>1, <2>2, <1>3, <1>14
  <2>4. w \in Int
    BY <2>1, <1>6
  <2>5. AtRank(y, r) = (w - left - u) + u
    BY <2>1, <2>2, <2>3, <1>23
  <2>6. (w - left - u) + u = w - left
    BY <2>3, <2>4
  <2> QED BY <2>1, <2>5, <2>6
<1>27. y.shift = sy /\ p.hi - p.lo = M
  BY <1>1, <1>5, <1>15
<1>28. RegionPlaced(st, p, left, y)
  BY <1>1, <1>16, <1>22, <1>24, <1>25, <1>26, <1>27 DEF RegionPlaced
<1>29. RegionFlags(st, p, y)
  <2>1. \A r \in 1 .. N : r > hi => y.order[r] = od[r] /\ y.slots[od[r]] = sl[od[r]]
    BY <1>17
  <2>2. \A j \in 1 .. M : /\ y.order[lo + j] = f[j].slot
                          /\ y.slots[f[j].slot].anchor.invalidated = Flagged(sl[f[j].slot].anchor.invalidated, f[j].anchor.gone)
    BY <1>19
  <2> QED BY <2>1, <2>2, <1>1, <1>27 DEF RegionFlags
<1> QED BY <1>9, <1>28, <1>29
----------------------------------------------------------------------------
(* The regions of a change, placed from the last to the first.             *)

HiOf(plan, m) == IF m = 0 THEN 0 ELSE plan[m].hi

\* What the plans of a change have in common: E[m] is the growth of the first
\* m regions, and an anchor between two regions stays in the text.
Sweep(st, plan, E, B) ==
    /\ Shaped(st) /\ Len(st.order) >= 1
    /\ \A r \in 1 .. Len(st.order) - 1 : AtRank(st, r) <= AtRank(st, r + 1)
    /\ Len(plan) \in Nat /\ E \in [0 .. Len(plan) -> Int] /\ E[0] = 0 /\ B \in Nat
    /\ \A m \in 1 .. Len(plan) :
          /\ Fits(st, plan[m]) /\ plan[m].delta = E[m] - E[m - 1] /\ HiOf(plan, m - 1) <= plan[m].lo
          /\ \A j \in 1 .. plan[m].hi - plan[m].lo : plan[m].moved[j].anchor.to \in 0 .. B
          /\ \A i, j \in 1 .. plan[m].hi - plan[m].lo :
                i < j => plan[m].moved[i].anchor.to <= plan[m].moved[j].anchor.to
    /\ \A m \in 0 .. Len(plan), r \in 1 .. Len(st.order) :
          r > HiOf(plan, m) /\ (m < Len(plan) => r <= plan[m + 1].lo) => AtRank(st, r) + E[m] \in 0 .. B

\* A region's edge, past region m.
IsEdge(plan, m, r) == \E q \in m + 1 .. Len(plan) : r = plan[q].lo \/ r = plan[q].hi

\* The regions past m are placed: the ranks up to the end of region m are as
\* they were, the others are where the new text has them but for the growth
\* of the first m regions, and are in order except at a region's edge.
Settled(st, plan, E, B, m, now) ==
    /\ Shaped(now) /\ Len(now.order) = Len(st.order) /\ Alike(st.slots, now.slots)
    /\ \A r \in 1 .. Len(st.order) : r <= HiOf(plan, m) =>
          /\ now.order[r] = st.order[r] /\ now.slots[st.order[r]] = st.slots[st.order[r]]
          /\ AtRank(now, r) = AtRank(st, r)
    /\ \A r \in 1 .. Len(st.order) : r > HiOf(plan, m) => AtRank(now, r) + E[m] \in 0 .. B
    /\ \A r \in 1 .. Len(st.order) - 1 :
          r > HiOf(plan, m) => AtRank(now, r) <= AtRank(now, r + 1) \/ IsEdge(plan, m, r)

\* A plan fits every store with the same order in its region.
LEMMA FitsNow ==
    ASSUME NEW st, NEW now, NEW p, Fits(st, p), Len(now.order) = Len(st.order),
           \A r \in p.lo + 1 .. p.hi : now.order[r] = st.order[r]
    PROVE  Fits(now, p)
<1>1. /\ p.lo \in 0 .. Len(now.order) /\ p.hi \in p.lo .. Len(now.order) /\ p.delta \in Int
      /\ Len(p.moved) = p.hi - p.lo
  BY DEF Fits
<1>2. \A i \in 1 .. Len(p.moved) : /\ \E r \in p.lo + 1 .. p.hi : p.moved[i].slot = now.order[r]
                                   /\ p.moved[i].anchor.to \in Int /\ p.moved[i].anchor.gone \in BOOLEAN
  BY DEF Fits
<1>3. \A r \in p.lo + 1 .. p.hi : \E i \in 1 .. Len(p.moved) : p.moved[i].slot = now.order[r]
  BY DEF Fits
<1>4. \A i, j \in 1 .. Len(p.moved) : p.moved[i].slot = p.moved[j].slot => i = j
  BY DEF Fits
<1> QED BY <1>1, <1>2, <1>3, <1>4 DEF Fits

LEMMA SettledStep ==
    ASSUME NEW st, NEW plan, NEW E, NEW B, Sweep(st, plan, E, B), NEW m \in 1 .. Len(plan),
           NEW now, Settled(st, plan, E, B, m, now)
    PROVE  Settled(st, plan, E, B, m - 1, Place(now, plan[m], E[m - 1]))
<1>1. PICK N, K0, p, lo, hi, h, e0, e1, y : /\ N = Len(st.order) /\ K0 = Len(plan) /\ p = plan[m] /\ lo = p.lo /\ hi = p.hi
                                  /\ h = HiOf(plan, m - 1) /\ e0 = E[m - 1] /\ e1 = E[m]
                                  /\ y = Place(now, p, e0)
  OBVIOUS
<1>2. /\ Shaped(st) /\ Shaped(now) /\ N \in Nat /\ N >= 1 /\ Len(now.order) = N /\ K0 \in Nat /\ B \in Nat
      /\ m \in 1 .. K0 /\ m - 1 \in 0 .. K0 /\ m \in 0 .. K0 /\ m \in Nat
  <2>1. Shaped(st) /\ Shaped(now) /\ N >= 1 /\ Len(now.order) = N /\ K0 \in Nat /\ B \in Nat
    BY <1>1 DEF Sweep, Settled
  <2>2. N \in Nat
    BY <1>1, <2>1, ShapedFacts
  <2> QED BY <2>1, <2>2, <1>1
<1>3. /\ Fits(st, p) /\ p.delta = e1 - e0 /\ h <= lo /\ e0 \in Int /\ e1 \in Int
      /\ \A j \in 1 .. hi - lo : p.moved[j].anchor.to \in 0 .. B
      /\ \A i, j \in 1 .. hi - lo : i < j => p.moved[i].anchor.to <= p.moved[j].anchor.to
  BY <1>1, <1>2 DEF Sweep
<1>4. lo \in Nat /\ hi \in Nat /\ lo <= hi /\ hi <= N /\ HiOf(plan, m) = hi
  <2>1. lo \in 0 .. N /\ hi \in lo .. N
    BY <1>1, <1>3 DEF Fits
  <2>2. HiOf(plan, m) = hi
    BY <1>1, <1>2 DEF HiOf
  <2> QED BY <2>1, <2>2, <1>2
<1>5. h \in Nat
  <2>1. CASE m - 1 = 0
    BY <2>1, <1>1 DEF HiOf
  <2>2. CASE m - 1 # 0
    <3>1. PICK k : k = m - 1
      OBVIOUS
    <3>2. k \in 1 .. K0
      BY <3>1, <2>2, <1>2
    <3>3. Fits(st, plan[k]) /\ h = plan[k].hi
      BY <3>1, <3>2, <2>2, <1>1 DEF Sweep, HiOf
    <3>4. PICK u, v : u = plan[k].lo /\ v = plan[k].hi
      OBVIOUS
    <3>5. u \in 0 .. N /\ v \in u .. N
      BY <3>3, <3>4, <1>1 DEF Fits
    <3>6. v \in Nat
      BY <3>5, <1>2
    <3> QED BY <3>3, <3>4, <3>6
  <2> QED BY <2>1, <2>2
<1>6. \A r \in 1 .. N : r <= hi => /\ now.order[r] = st.order[r] /\ now.slots[st.order[r]] = st.slots[st.order[r]]
                                  /\ AtRank(now, r) = AtRank(st, r)
  BY <1>1, <1>4 DEF Settled
<1>7. Fits(now, p)
  <2>1. \A r \in lo + 1 .. hi : r \in 1 .. N /\ r <= hi
    BY <1>2, <1>4
  <2>2. \A r \in lo + 1 .. hi : now.order[r] = st.order[r]
    BY <2>1, <1>6
  <2> QED BY <2>2, <1>1, <1>2, <1>3, FitsNow
<1>8. RegionPlaced(now, p, e0, y)
  <2>1. Len(now.order) >= 1
    BY <1>2
  <2> QED BY <2>1, <1>1, <1>2, <1>3, <1>7, PlaceFacts
<1>9. /\ Shaped(y) /\ Len(y.order) = N /\ Alike(now.slots, y.slots)
      /\ \A r \in 1 .. N : r <= lo => /\ y.order[r] = now.order[r]
                                     /\ y.slots[now.order[r]] = now.slots[now.order[r]]
                                     /\ AtRank(y, r) = AtRank(now, r)
      /\ \A r \in 1 .. N : r > hi => AtRank(y, r) = AtRank(now, r) + p.delta
      /\ \A j \in 1 .. hi - lo : AtRank(y, lo + j) = p.moved[j].anchor.to - e0
  BY <1>1, <1>2, <1>8 DEF RegionPlaced
<1>10. \A r \in 1 .. N : AtRank(st, r) \in Int /\ AtRank(now, r) \in Int /\ AtRank(y, r) \in Int
  <2>1. \A r \in 1 .. Len(st.order) : AtRank(st, r) \in Int
    BY <1>2, ShapedFacts
  <2>2. \A r \in 1 .. Len(now.order) : AtRank(now, r) \in Int
    BY <1>2, ShapedFacts
  <2>3. \A r \in 1 .. Len(y.order) : AtRank(y, r) \in Int
    BY <1>9, ShapedFacts
  <2> QED BY <2>1, <2>2, <2>3, <1>1, <1>2, <1>9
<1>11. Alike(st.slots, y.slots)
  <2>1. Alike(st.slots, now.slots)
    BY DEF Settled
  <2> QED BY <2>1, <1>9 DEF Alike
<1>12. ASSUME NEW r \in 1 .. N, r <= lo PROVE AtRank(y, r) = AtRank(st, r)
  <2>1. r <= hi
    BY <1>4, <1>12
  <2> QED BY <2>1, <1>6, <1>9, <1>12
<1>13. ASSUME NEW r \in 1 .. N, r <= h
       PROVE /\ y.order[r] = st.order[r] /\ y.slots[st.order[r]] = st.slots[st.order[r]]
             /\ AtRank(y, r) = AtRank(st, r)
  <2>1. r <= lo /\ r <= hi
    BY <1>3, <1>4, <1>5, <1>13
  <2>2. y.order[r] = now.order[r] /\ y.slots[now.order[r]] = now.slots[now.order[r]]
    BY <2>1, <1>9
  <2> QED BY <2>1, <2>2, <1>6, <1>12
<1>14. ASSUME NEW r \in 1 .. N, r > h PROVE AtRank(y, r) + e0 \in 0 .. B
  <2>1. CASE r <= lo
    <3>1. (m - 1) + 1 = m
      BY <1>2
    <3>2. r > HiOf(plan, m - 1) /\ (m - 1 < Len(plan) => r <= plan[(m - 1) + 1].lo)
      BY <3>1, <2>1, <1>1, <1>14
    <3>3. AtRank(st, r) + E[m - 1] \in 0 .. B
      BY <3>2, <1>1, <1>2 DEF Sweep
    <3> QED BY <3>3, <2>1, <1>1, <1>12
  <2>2. CASE r > hi
    <3>1. PICK u, v, d : u = AtRank(now, r) /\ v = AtRank(y, r) /\ d = p.delta
      OBVIOUS
    <3>2. u + e1 \in 0 .. B
      BY <3>1, <2>2, <1>1, <1>4 DEF Settled
    <3>3. v = u + d /\ d = e1 - e0 /\ u \in Int
      BY <3>1, <2>2, <1>3, <1>9, <1>10
    <3>4. v + e0 = u + e1
      BY <3>3, <1>3
    <3> QED BY <3>1, <3>2, <3>4
  <2>3. CASE ~(r <= lo) /\ ~(r > hi)
    <3>1. PICK j : j = r - lo
      OBVIOUS
    <3>2. j \in 1 .. hi - lo /\ lo + j = r
      BY <3>1, <2>3, <1>4
    <3>3. PICK w : w = p.moved[j].anchor.to
      OBVIOUS
    <3>4. w \in 0 .. B /\ AtRank(y, r) = w - e0
      BY <3>2, <3>3, <1>3, <1>9
    <3>5. (w - e0) + e0 = w
      BY <3>4, <1>2, <1>3
    <3> QED BY <3>4, <3>5
  <2> QED BY <2>1, <2>2, <2>3
<1>15. ASSUME NEW r \in 1 .. N - 1, r > h PROVE AtRank(y, r) <= AtRank(y, r + 1) \/ IsEdge(plan, m - 1, r)
  <2>0. r \in 1 .. N /\ r + 1 \in 1 .. N /\ r \in Nat
    BY <1>2
  <2>1. CASE r < lo
    <3>1. r <= lo /\ r + 1 <= lo
      BY <2>0, <2>1, <1>4
    <3>2. AtRank(y, r) = AtRank(st, r) /\ AtRank(y, r + 1) = AtRank(st, r + 1)
      BY <3>1, <2>0, <1>12
    <3>3. AtRank(st, r) <= AtRank(st, r + 1)
      BY <1>1 DEF Sweep
    <3> QED BY <3>2, <3>3
  <2>2. CASE r = lo \/ r = hi
    <3>1. m \in (m - 1) + 1 .. Len(plan)
      BY <1>1, <1>2
    <3> QED BY <3>1, <2>2, <1>1 DEF IsEdge
  <2>3. CASE r > hi
    <3>1. r > HiOf(plan, m) /\ r + 1 > hi
      BY <2>0, <2>3, <1>4
    <3>2. AtRank(now, r) <= AtRank(now, r + 1) \/ IsEdge(plan, m, r)
      BY <3>1, <1>1 DEF Settled
    <3>3. CASE IsEdge(plan, m, r)
      <4>1. \A q \in m + 1 .. Len(plan) : q \in (m - 1) + 1 .. Len(plan)
        BY <1>1, <1>2
      <4> QED BY <4>1, <3>3 DEF IsEdge
    <3>4. CASE AtRank(now, r) <= AtRank(now, r + 1)
      <4>1. PICK u, v, d : u = AtRank(now, r) /\ v = AtRank(now, r + 1) /\ d = p.delta
        OBVIOUS
      <4>2. AtRank(y, r) = u + d /\ AtRank(y, r + 1) = v + d
        BY <4>1, <3>1, <2>0, <2>3, <1>9
      <4>3. u \in Int /\ v \in Int /\ u <= v
        BY <4>1, <3>4, <2>0, <1>10
      <4>4. d \in Int /\ u + d <= v + d
        BY <4>1, <4>3, <1>3
      <4> QED BY <4>2, <4>4
    <3> QED BY <3>2, <3>3, <3>4
  <2>4. CASE r > lo /\ r < hi
    <3>1. PICK i, j : i = r - lo /\ j = (r - lo) + 1
      OBVIOUS
    <3>2. i \in 1 .. hi - lo /\ j \in 1 .. hi - lo /\ i < j /\ lo + i = r /\ lo + j = r + 1
      BY <3>1, <2>0, <2>4, <1>4
    <3>3. PICK u, v : u = p.moved[i].anchor.to /\ v = p.moved[j].anchor.to
      OBVIOUS
    <3>4. u \in 0 .. B /\ v \in 0 .. B /\ u <= v
      BY <3>2, <3>3, <1>3
    <3>5. AtRank(y, r) = u - e0 /\ AtRank(y, r + 1) = v - e0
      BY <3>2, <3>3, <1>9
    <3>6. u - e0 <= v - e0
      BY <3>4, <1>2, <1>3
    <3> QED BY <3>5, <3>6
  <2> QED BY <2>0, <2>1, <2>2, <2>3, <2>4, <1>4
<1>16. Settled(st, plan, E, B, m - 1, y)
  BY <1>1, <1>9, <1>11, <1>13, <1>14, <1>15 DEF Settled
<1> QED BY <1>1, <1>16

\* Where each slot is to go: the plans say so of the slots in a region, and
\* the ones between two regions only shift.
Tracks(st, plan, E, W) ==
    /\ \A m \in 1 .. Len(plan) : \A j \in 1 .. plan[m].hi - plan[m].lo :
          plan[m].moved[j].anchor = W[plan[m].moved[j].slot]
    /\ \A m \in 0 .. Len(plan), r \in 1 .. Len(st.order) :
          r > HiOf(plan, m) /\ (m < Len(plan) => r <= plan[m + 1].lo) =>
             W[st.order[r]] = [to |-> AtRank(st, r) + E[m], gone |-> FALSE]

\* The slots past region m are there, but for the growth of the first m
\* regions, under their flags.
Exact(st, plan, E, W, m, now) ==
    \A r \in 1 .. Len(st.order) : r > HiOf(plan, m) =>
        /\ AtRank(now, r) + E[m] = W[now.order[r]].to
        /\ now.slots[now.order[r]].anchor.invalidated
             = Flagged(st.slots[now.order[r]].anchor.invalidated, W[now.order[r]].gone)

\* A slot that only shifts keeps its flag.
LEMMA FlagKept ==
    ASSUME NEW st, Shaped(st), NEW r \in 1 .. Len(st.order)
    PROVE  Flagged(st.slots[st.order[r]].anchor.invalidated, FALSE) = st.slots[st.order[r]].anchor.invalidated
<1>1. PICK sl, s : sl = st.slots /\ s = st.order[r]
  OBVIOUS
<1>2. sl \in Seq(Slot) /\ s \in LiveIn(sl)
  BY <1>1, ShapedFacts
<1>3. sl[s].anchor.invalidated \in BOOLEAN
  BY <1>2, LiveAnchor
<1>4. PICK i \in BOOLEAN : i = sl[s].anchor.invalidated
  BY <1>3
<1>5. Flagged(i, FALSE) = i
  BY SMTT(30) DEF Flagged
<1> QED BY <1>1, <1>4, <1>5

LEMMA ExactStep ==
    ASSUME NEW st, NEW plan, NEW E, NEW B, Sweep(st, plan, E, B), NEW W, Tracks(st, plan, E, W),
           NEW m \in 1 .. Len(plan), NEW now, Settled(st, plan, E, B, m, now), Exact(st, plan, E, W, m, now)
    PROVE  Exact(st, plan, E, W, m - 1, Place(now, plan[m], E[m - 1]))
<1>1. PICK N, K0, p, lo, hi, h, e0, e1, y : /\ N = Len(st.order) /\ K0 = Len(plan) /\ p = plan[m] /\ lo = p.lo /\ hi = p.hi
                                  /\ h = HiOf(plan, m - 1) /\ e0 = E[m - 1] /\ e1 = E[m]
                                  /\ y = Place(now, p, e0)
  OBVIOUS
<1>2. /\ Shaped(st) /\ Shaped(now) /\ N \in Nat /\ N >= 1 /\ Len(now.order) = N /\ K0 \in Nat
      /\ m \in 1 .. K0 /\ m - 1 \in 0 .. K0 /\ m \in 0 .. K0 /\ m \in Nat
  <2>1. Shaped(st) /\ Shaped(now) /\ N >= 1 /\ Len(now.order) = N /\ K0 \in Nat
    BY <1>1 DEF Sweep, Settled
  <2>2. N \in Nat
    BY <1>1, <2>1, ShapedFacts
  <2> QED BY <2>1, <2>2, <1>1
<1>3. /\ Fits(st, p) /\ p.delta = e1 - e0 /\ e0 \in Int /\ e1 \in Int
      /\ \A j \in 1 .. hi - lo : p.moved[j].anchor.to \in 0 .. B
  BY <1>1, <1>2 DEF Sweep
<1>4. lo \in Nat /\ hi \in Nat /\ lo <= hi /\ hi <= N /\ HiOf(plan, m) = hi
  <2>1. lo \in 0 .. N /\ hi \in lo .. N
    BY <1>1, <1>3 DEF Fits
  <2>2. HiOf(plan, m) = hi
    BY <1>1, <1>2 DEF HiOf
  <2> QED BY <2>1, <2>2, <1>2
<1>5. \A r \in 1 .. N : r <= hi => /\ now.order[r] = st.order[r] /\ now.slots[st.order[r]] = st.slots[st.order[r]]
                                  /\ AtRank(now, r) = AtRank(st, r)
  BY <1>1, <1>4 DEF Settled
<1>6. \A r \in lo + 1 .. hi : r \in 1 .. N /\ r <= hi
  BY <1>2, <1>4
<1>7. Fits(now, p)
  <2>1. \A r \in lo + 1 .. hi : now.order[r] = st.order[r]
    BY <1>5, <1>6
  <2> QED BY <2>1, <1>1, <1>2, <1>3, FitsNow
<1>8. RegionPlaced(now, p, e0, y) /\ RegionFlags(now, p, y)
  <2>1. Len(now.order) >= 1
    BY <1>2
  <2> QED BY <2>1, <1>1, <1>2, <1>3, <1>7, PlaceFacts
<1>9. /\ \A r \in 1 .. N : r <= lo => /\ y.order[r] = now.order[r]
                                     /\ y.slots[now.order[r]] = now.slots[now.order[r]]
                                     /\ AtRank(y, r) = AtRank(now, r)
      /\ \A r \in 1 .. N : r > hi => AtRank(y, r) = AtRank(now, r) + p.delta
      /\ \A j \in 1 .. hi - lo : AtRank(y, lo + j) = p.moved[j].anchor.to - e0
  BY Zenon, <1>1, <1>2, <1>8 DEF RegionPlaced
<1>10. /\ \A r \in 1 .. N : r > hi => y.order[r] = now.order[r] /\ y.slots[now.order[r]] = now.slots[now.order[r]]
       /\ \A j \in 1 .. hi - lo :
            /\ y.order[lo + j] = p.moved[j].slot
            /\ y.slots[p.moved[j].slot].anchor.invalidated = Flagged(now.slots[p.moved[j].slot].anchor.invalidated, p.moved[j].anchor.gone)
  BY Zenon, <1>1, <1>2, <1>8 DEF RegionFlags
<1>11. \A r \in 1 .. N : AtRank(st, r) \in Int /\ AtRank(now, r) \in Int
  <2>1. \A r \in 1 .. Len(st.order) : AtRank(st, r) \in Int
    BY <1>2, ShapedFacts
  <2>2. \A r \in 1 .. Len(now.order) : AtRank(now, r) \in Int
    BY <1>2, ShapedFacts
  <2> QED BY <2>1, <2>2, <1>1, <1>2
<1>12. ASSUME NEW r \in 1 .. N, r > h
       PROVE  /\ AtRank(y, r) + e0 = W[y.order[r]].to
              /\ y.slots[y.order[r]].anchor.invalidated = Flagged(st.slots[y.order[r]].anchor.invalidated, W[y.order[r]].gone)
  <2>1. CASE r <= lo
    <3>1. (m - 1) + 1 = m /\ r <= hi
      BY <2>1, <1>2, <1>4
    <3>2. r > HiOf(plan, m - 1) /\ (m - 1 < Len(plan) => r <= plan[(m - 1) + 1].lo)
      BY <3>1, <2>1, <1>1, <1>12
    <3>3. W[st.order[r]] = [to |-> AtRank(st, r) + e0, gone |-> FALSE]
      BY <3>2, <1>1, <1>2 DEF Tracks
    <3>4. y.order[r] = st.order[r] /\ y.slots[st.order[r]] = st.slots[st.order[r]] /\ AtRank(y, r) = AtRank(st, r)
      BY <3>1, <2>1, <1>5, <1>9
    <3>5. W[st.order[r]].to = AtRank(st, r) + e0 /\ W[st.order[r]].gone = FALSE
      BY <3>3
    <3>6. Flagged(st.slots[st.order[r]].anchor.invalidated, FALSE) = st.slots[st.order[r]].anchor.invalidated
      BY <1>1, <1>2, FlagKept
    <3> QED BY <3>4, <3>5, <3>6
  <2>2. CASE r > hi
    <3>1. PICK u, v, d, s : u = AtRank(now, r) /\ v = AtRank(y, r) /\ d = p.delta /\ s = now.order[r]
      OBVIOUS
    <3>2. /\ u + e1 = W[s].to
          /\ now.slots[s].anchor.invalidated = Flagged(st.slots[s].anchor.invalidated, W[s].gone)
      BY <3>1, <2>2, <1>1, <1>4 DEF Exact
    <3>3. v = u + d /\ d = e1 - e0 /\ u \in Int
      BY <3>1, <2>2, <1>3, <1>9, <1>11
    <3>4. v + e0 = u + e1
      BY <3>3, <1>3
    <3>5. y.order[r] = s /\ y.slots[s] = now.slots[s]
      BY <3>1, <2>2, <1>10
    <3> QED BY <3>1, <3>2, <3>4, <3>5
  <2>3. CASE ~(r <= lo) /\ ~(r > hi)
    <3>1. PICK j, s : j = r - lo /\ s = p.moved[j].slot
      OBVIOUS
    <3>2. j \in 1 .. hi - lo /\ lo + j = r
      BY <3>1, <2>3, <1>4
    <3>3. PICK w : w = p.moved[j].anchor.to
      OBVIOUS
    <3>4. w \in 0 .. B /\ AtRank(y, r) = w - e0 /\ y.order[r] = s
      BY <3>1, <3>2, <3>3, <1>3, <1>9, <1>10
    <3>5. (w - e0) + e0 = w
      <4>1. B \in Nat
        BY DEF Sweep
      <4> QED BY <4>1, <3>4, <1>3
    <3>6. p.moved[j].anchor = W[s]
      BY <3>1, <3>2, <1>1 DEF Tracks
    <3>7. now.slots[s] = st.slots[s]
      <4>1. j \in 1 .. Len(p.moved)
        BY <3>2, <1>1, <1>3 DEF Fits
      <4>2. PICK q \in lo + 1 .. hi : s = st.order[q]
        BY ZenonT(40), <4>1, <3>1, <1>1, <1>3 DEF Fits
      <4> QED BY <4>2, <1>5, <1>6
    <3>8. y.slots[s].anchor.invalidated = Flagged(now.slots[s].anchor.invalidated, p.moved[j].anchor.gone)
      BY <3>1, <3>2, <1>10
    <3> QED BY <3>3, <3>4, <3>5, <3>6, <3>7, <3>8
  <2> QED BY <2>1, <2>2, <2>3
<1> QED BY Zenon, <1>1, <1>12 DEF Exact

LEMMA PlacementsDef ==
    ASSUME NEW st, NEW plan, NEW delta, Len(plan) \in Nat, NEW f, f = Placements(st, plan, delta)
    PROVE  f[0] = [st |-> st, left |-> delta] /\ \A n \in 1 .. Len(plan) : f[n] = [st |-> Place(f[n - 1].st, plan[Len(plan) + 1 - n], f[n - 1].left - plan[Len(plan) + 1 - n].delta), left |-> f[n - 1].left - plan[Len(plan) + 1 - n].delta]
<1> DEFINE N == Len(plan)
           stp(x, n) == [st |-> Place(x.st, plan[Len(plan) + 1 - n], x.left - plan[Len(plan) + 1 - n].delta), left |-> x.left - plan[Len(plan) + 1 - n].delta]
           val(g, n) == IF n = 0 THEN [st |-> st, left |-> delta] ELSE stp(g[n - 1], n)
           Rec(g, m) == g = [n \in 0 .. m |-> val(g, n)]
           P == {m \in Nat : \E g : Rec(g, m)}
<1>0. N \in Nat
  OBVIOUS
<1> HIDE DEF N, stp
<1>1. 0 \in P
  <2> DEFINE h == [n \in 0 .. 0 |-> [st |-> st, left |-> delta]]
  <2>1. Rec(h, 0)
    OBVIOUS
  <2> QED BY <2>1
<1>2. ASSUME NEW m \in P PROVE m + 1 \in P
  <2>0. m \in Nat
    OBVIOUS
  <2>1. PICK g : Rec(g, m)
    OBVIOUS
  <2>2. \A n \in 0 .. m : g[n] = val(g, n)
    BY <2>1
  <2> DEFINE h == [n \in 0 .. m + 1 |-> IF n = m + 1 THEN val(g, n) ELSE g[n]]
  <2>3. ASSUME NEW n \in 0 .. m + 1 PROVE h[n] = val(h, n)
    <3>1. h[n] = val(g, n)
      BY <2>2
    <3>2. n # 0 => n - 1 \in 0 .. m
      BY <2>0
    <3>3. \A j \in 0 .. m : h[j] = g[j]
      BY <2>0
    <3> HIDE DEF h
    <3> QED BY <3>1, <3>2, <3>3
  <2>4. h = [n \in 0 .. m + 1 |-> h[n]]
    OBVIOUS
  <2> HIDE DEF h, val
  <2>5. Rec(h, m + 1)
    <3>1. [n \in 0 .. m + 1 |-> h[n]] = [n \in 0 .. m + 1 |-> val(h, n)]
      BY <2>3
    <3> QED BY <3>1, <2>4, Zenon
  <2> HIDE DEF Rec
  <2> QED BY <2>5
<1>3. P = Nat
  <2>1. P \in SUBSET Nat
    OBVIOUS
  <2> HIDE DEF P
  <2> QED BY <1>1, <1>2, <2>1, Induct
<1>4. \E g : Rec(g, N)
  <2>1. N \in P
    BY <1>0, <1>3
  <2> HIDE DEF Rec
  <2> QED BY <2>1
<1>5. f = CHOOSE g : Rec(g, N)
  BY DEF Placements, N, stp
<1>6. Rec(f, N)
  BY <1>4, <1>5
<1>7. f[0] = [st |-> st, left |-> delta]
  BY <1>6, <1>0
<1>8. \A n \in 1 .. N : f[n] = stp(f[n - 1], n)
  BY <1>6, <1>0
<1> QED BY <1>7, <1>8 DEF N, stp

LEMMA PlacedFacts ==
    ASSUME NEW st, NEW plan, NEW E, NEW B, Sweep(st, plan, E, B), NEW W, Tracks(st, plan, E, W)
    PROVE  /\ Settled(st, plan, E, B, 0, Placed(st, plan, E[Len(plan)]))
           /\ Exact(st, plan, E, W, 0, Placed(st, plan, E[Len(plan)]))
<1>0. PICK f, L : f = Placements(st, plan, E[Len(plan)]) /\ L = Len(plan)
  OBVIOUS
<1>1. L \in Nat /\ E \in [0 .. L -> Int]
  BY <1>0 DEF Sweep
<1>2. /\ f[0] = [st |-> st, left |-> E[L]]
      /\ \A n \in 1 .. L : f[n] = [st |-> Place(f[n - 1].st, plan[L + 1 - n], f[n - 1].left - plan[L + 1 - n].delta),
                                  left |-> f[n - 1].left - plan[L + 1 - n].delta]
  BY <1>0, <1>1, PlacementsDef
<1> DEFINE P == {n \in Nat : n <= L => f[n].left = E[L - n] /\ Settled(st, plan, E, B, L - n, f[n].st) /\ Exact(st, plan, E, W, L - n, f[n].st)}
<1>3. 0 \in P
  <2>1. L - 0 = L /\ f[0].left = E[L] /\ f[0].st = st
    BY <1>1, <1>2
  <2>2. Settled(st, plan, E, B, L, st)
    <3>1. Shaped(st) /\ Alike(st.slots, st.slots)
      BY DEF Sweep, Alike
    <3>2. L \in 0 .. Len(plan) /\ ~(L < Len(plan))
      BY <1>0, <1>1
    <3>3. \A r \in 1 .. Len(st.order) : r > HiOf(plan, L) => AtRank(st, r) + E[L] \in 0 .. B
      BY <3>2 DEF Sweep
    <3>4. \A r \in 1 .. Len(st.order) - 1 : AtRank(st, r) <= AtRank(st, r + 1)
      BY DEF Sweep
    <3> QED BY <3>1, <3>3, <3>4 DEF Settled
  <2>3. Exact(st, plan, E, W, L, st)
    <3>1. L \in 0 .. Len(plan) /\ ~(L < Len(plan)) /\ Shaped(st)
      BY <1>0, <1>1 DEF Sweep
    <3>2. ASSUME NEW r \in 1 .. Len(st.order), r > HiOf(plan, L)
          PROVE  /\ AtRank(st, r) + E[L] = W[st.order[r]].to
                 /\ st.slots[st.order[r]].anchor.invalidated
                      = Flagged(st.slots[st.order[r]].anchor.invalidated, W[st.order[r]].gone)
      <4>1. W[st.order[r]] = [to |-> AtRank(st, r) + E[L], gone |-> FALSE]
        BY <3>1, <3>2 DEF Tracks
      <4>2. W[st.order[r]].to = AtRank(st, r) + E[L] /\ W[st.order[r]].gone = FALSE
        BY <4>1
      <4>3. Flagged(st.slots[st.order[r]].anchor.invalidated, FALSE) = st.slots[st.order[r]].anchor.invalidated
        BY <3>1, FlagKept
      <4> QED BY <4>2, <4>3
    <3> QED BY <3>2 DEF Exact
  <2> QED BY <2>1, <2>2, <2>3
<1>4. ASSUME NEW n \in P PROVE n + 1 \in P
  <2>1. n \in Nat /\ n + 1 \in Nat
    OBVIOUS
  <2>2. CASE n + 1 <= L
    <3>1. PICK m, x, y : m = L - n /\ x = f[n] /\ y = f[n + 1]
      OBVIOUS
    <3>2. n <= L /\ n + 1 \in 1 .. L /\ (n + 1) - 1 = n /\ m \in 1 .. L /\ L + 1 - (n + 1) = m /\ L - (n + 1) = m - 1
      BY <3>1, <2>1, <2>2, <1>1
    <3>3. x.left = E[m] /\ Settled(st, plan, E, B, m, x.st) /\ Exact(st, plan, E, W, m, x.st)
      BY <3>1, <3>2
    <3>4. y = [st |-> Place(x.st, plan[m], x.left - plan[m].delta), left |-> x.left - plan[m].delta]
      BY <3>1, <3>2, <1>2
    <3>5. x.left - plan[m].delta = E[m - 1]
      <4>1. PICK u, v, d : u = E[m] /\ v = E[m - 1] /\ d = plan[m].delta
        OBVIOUS
      <4>2. d = u - v
        BY <4>1, <3>2, <1>0 DEF Sweep
      <4>3. m \in 0 .. L /\ m - 1 \in 0 .. L
        BY <3>2, <1>1
      <4>4. u \in Int /\ v \in Int
        BY <4>1, <4>3, <1>1
      <4>5. u - d = v
        BY <4>2, <4>4
      <4> QED BY <4>1, <4>5, <3>3
    <3>6. y.left = E[m - 1] /\ y.st = Place(x.st, plan[m], E[m - 1])
      BY <3>4, <3>5
    <3>7. PICK z : z = x.st
      OBVIOUS
    <3>8. m \in 1 .. Len(plan) /\ Settled(st, plan, E, B, m, z) /\ Exact(st, plan, E, W, m, z)
      BY <3>2, <3>3, <3>7, <1>0
    <3>9. Settled(st, plan, E, B, m - 1, Place(z, plan[m], E[m - 1]))
      BY <3>8, SettledStep
    <3>10. Exact(st, plan, E, W, m - 1, Place(z, plan[m], E[m - 1]))
      BY <3>8, ExactStep
    <3> QED BY <3>1, <3>2, <3>6, <3>7, <3>9, <3>10, <2>1
  <2>3. CASE ~(n + 1 <= L)
    BY <2>1, <2>3
  <2> QED BY <2>2, <2>3
<1>5. P = Nat
  <2>1. P \in SUBSET Nat
    OBVIOUS
  <2> HIDE DEF P
  <2> QED BY <1>3, <1>4, <2>1, Induct
<1>6. L \in P /\ L <= L /\ L - L = 0
  BY <1>1, <1>5
<1>7. Settled(st, plan, E, B, 0, f[L].st) /\ Exact(st, plan, E, W, 0, f[L].st)
  BY <1>6
<1> QED BY <1>0, <1>7 DEF Placed

LEMMA PlanFits ==
    ASSUME NEW st, NEW g, g.delta \in Int, NEW B \in Nat, NEW p, PlanOk(p, st, g, B)
    PROVE  Fits(st, p)
<1>1. PICK lo, hi, M : lo = p.lo /\ hi = p.hi /\ M = Len(p.moved)
  OBVIOUS
<1>2. M = hi - lo
  BY <1>1 DEF PlanOk, PlanIs
<1>3. \A i \in 1 .. M : p.moved[i].anchor.to \in Int
  BY SMTT(30), <1>1, <1>2 DEF PlanOk, PlanIs
<1>4. /\ \A i \in 1 .. M : \E r \in lo + 1 .. hi : p.moved[i].slot = st.order[r]
      /\ \A r \in lo + 1 .. hi : \E i \in 1 .. M : p.moved[i].slot = st.order[r]
      /\ \A i, j \in 1 .. M : p.moved[i].slot = p.moved[j].slot => i = j
      /\ \A i \in 1 .. M : p.moved[i].anchor.gone \in BOOLEAN
  BY <1>1, <1>2 DEF PlanOk, PlanIs
<1>5. lo \in 0 .. Len(st.order) /\ hi \in lo .. Len(st.order) /\ p.delta \in Int
  BY <1>1 DEF PlanOk, PlanIs
<1> QED BY <1>1, <1>2, <1>3, <1>4, <1>5 DEF Fits

\* Where slot s stands in a store, and where map_anchor sends each slot.
PlaceIn(st, s) == st.slots[s].anchor.offset + ShiftAt(st.shift, st.slots[s].anchor.rank)
Where(st, a, b, list) ==
    [s \in 1 .. Len(st.slots) |-> MapAnchor(st.slots[s].anchor, PlaceIn(st, s), a, b, list)]

LEMMA WhereIs ==
    ASSUME NEW st, Shaped(st), NEW r \in 1 .. Len(st.order), NEW a, NEW b, NEW list
    PROVE  /\ PlaceIn(st, st.order[r]) = AtRank(st, r)
           /\ Where(st, a, b, list)[st.order[r]] = MapAnchor(st.slots[st.order[r]].anchor, AtRank(st, r), a, b, list)
<1>1. st.order[r] \in 1 .. Len(st.slots) /\ st.slots[st.order[r]].anchor.rank = r
  BY ShapedFacts
<1>2. PlaceIn(st, st.order[r]) = AtRank(st, r)
  BY <1>1 DEF PlaceIn, AtRank
<1> QED BY <1>1, <1>2 DEF Where

LEMMA SweepFacts ==
    ASSUME NEW a \in Str, NEW list, Canon(list, Len(a)), NEW b, b = ApplyTo(list, a),
           NEW st, Shaped(st), Len(st.order) >= 1, InOrder(st, Len(a)),
           NEW plan, plan = Planned(st, a, b, list)
    PROVE  \E E : /\ Sweep(st, plan, E, Len(b)) /\ E[Len(plan)] = TotalDelta(list)
                  /\ Tracks(st, plan, E, Where(st, a, b, list))
<1>1. PICK D, rs, N, len, K0, B : /\ D = Deltas(list) /\ rs = Regions(a, list) /\ N = Len(st.order) /\ len = Len(a)
                                  /\ K0 = Len(list) /\ B = Len(b)
  OBVIOUS
<1>2. PICK ks : Parted(list, D, rs, K0, ks)
  BY <1>1, RegionsFacts
<1>3. PICK L : L = Len(rs)
  OBVIOUS
<1>4. L \in Nat /\ N \in Nat /\ len \in Nat /\ K0 \in Nat /\ B \in Nat /\ B = len + D[K0] /\ TotalDelta(list) = D[K0]
  <2>1. L \in Nat
    <3>1. rs \in Seq([ws : Nat, we : Nat, delta : Int])
      BY <1>2 DEF Parted
    <3> QED BY <3>1, <1>3, EntryOf
  <2>2. N \in Nat
    BY <1>1, ShapedFacts
  <2>3. len \in Nat
    BY <1>1 DEF Str
  <2>4. K0 \in Nat /\ TotalDelta(list) = D[K0]
    BY <1>1, <2>3, DeltasFacts
  <2>5. b \in Str /\ B = len + TotalDelta(list)
    BY <1>1, AppliedLen
  <2>6. b \in Seq(Bytes)
    BY <2>5 DEF Str
  <2>7. B \in Nat
    BY <2>6, <1>1, EntryOf
  <2> QED BY <2>1, <2>2, <2>3, <2>4, <2>5, <2>7
<1>5. /\ \A i \in 1 .. L : rs[i] \in [ws : Nat, we : Nat, delta : Int]
      /\ ks \in [0 .. L -> 0 .. K0] /\ ks[0] = 0 /\ ks[L] = K0
      /\ \A i \in 1 .. L : /\ ks[i - 1] < ks[i] /\ rs[i].ws <= rs[i].we
                           /\ rs[i].delta = D[ks[i]] - D[ks[i - 1]]
                           /\ rs[i].ws <= list[ks[i - 1] + 1].pos
                           /\ Cursor(list, ks[i]) <= rs[i].we
      /\ \A i \in 1 .. L - 1 : rs[i].we < rs[i + 1].ws
  <2>1. rs \in Seq([ws : Nat, we : Nat, delta : Int])
    BY <1>2 DEF Parted
  <2>2. \A i \in 1 .. L : rs[i] \in [ws : Nat, we : Nat, delta : Int]
    BY <2>1, <1>3, EntryOf
  <2> QED BY <2>2, <1>2, <1>3 DEF Parted
<1>6. \A i \in 1 .. L : rs[i].ws \in Nat /\ rs[i].we \in Nat /\ rs[i].delta \in Int
  BY <1>5
<1>7. plan = [i \in 1 .. L |-> Plan(st, rs[i], a, b, list)] /\ Len(plan) = L
  <2>1. plan = [i \in 1 .. L |-> Plan(st, rs[i], a, b, list)]
    BY <1>1, <1>3 DEF Planned
  <2> QED BY <2>1, <1>4
<1>8. ASSUME NEW i \in 1 .. L PROVE PlanOk(plan[i], st, rs[i], B) /\ Fits(st, plan[i]) /\ Going(plan[i], st, a, b, list)
  <2>1. PICK g, p : g = rs[i] /\ p = plan[i]
    OBVIOUS
  <2>2. g \in [ws : Nat, we : Nat, delta : Int] /\ g.ws <= g.we /\ g.delta \in Int
    BY <2>1, <1>5, <1>6
  <2>3. PlanOk(Plan(st, g, a, b, list), st, g, B) /\ Going(Plan(st, g, a, b, list), st, a, b, list)
    BY <2>2, <1>1, PlanFacts
  <2>4. PlanOk(p, st, g, B) /\ Going(p, st, a, b, list)
    BY <2>1, <2>3, <1>7
  <2>5. Fits(st, p)
    BY <2>2, <2>4, <1>4, PlanFits
  <2> QED BY <2>1, <2>4, <2>5
<1>9. \A i \in 1 .. L : /\ plan[i].lo \in 0 .. N /\ plan[i].hi \in plan[i].lo .. N /\ plan[i].delta = rs[i].delta
                        /\ \A r \in 1 .. N : /\ AtRank(st, r) < rs[i].ws <=> r <= plan[i].lo
                                             /\ AtRank(st, r) <= rs[i].we <=> r <= plan[i].hi
                        /\ \A j \in 1 .. plan[i].hi - plan[i].lo : plan[i].moved[j].anchor.to \in 0 .. B
                        /\ \A k, j \in 1 .. plan[i].hi - plan[i].lo :
                             k < j => plan[i].moved[k].anchor.to <= plan[i].moved[j].anchor.to
  BY <1>1, <1>8 DEF PlanOk, PlanIs
<1>10. PICK E : E = [i \in 0 .. L |-> D[ks[i]]]
  OBVIOUS
<1>11. E \in [0 .. L -> Int] /\ E[0] = 0 /\ E[L] = D[K0] /\ \A i \in 0 .. L : E[i] = D[ks[i]]
  <2>1. D[0] = 0 /\ \A k \in 0 .. K0 : D[k] \in Int
    BY <1>1, <1>4, DeltasFacts
  <2>2. 0 \in 0 .. L /\ L \in 0 .. L
    BY <1>4
  <2>3. \A i \in 0 .. L : E[i] = D[ks[i]] /\ E[i] \in Int
    BY <2>1, <1>5, <1>10
  <2>4. E[0] = 0 /\ E[L] = D[K0]
    BY <2>1, <2>2, <2>3, <1>5
  <2> QED BY <2>3, <2>4, <1>10
<1>12. \A r \in 1 .. N : AtRank(st, r) \in Int /\ AtRank(st, r) \in 0 .. len
  BY <1>1, ShapedFacts DEF InOrder
<1>13. ASSUME NEW m \in 1 .. L PROVE HiOf(plan, m - 1) <= plan[m].lo
  <2>0. PICK lo : lo = plan[m].lo
    OBVIOUS
  <2>1. lo \in 0 .. N
    BY <2>0, <1>9
  <2>2. CASE m - 1 = 0
    <3>1. HiOf(plan, m - 1) = 0
      BY <2>2 DEF HiOf
    <3>2. 0 <= lo
      BY <2>1, <1>4
    <3> QED BY <3>1, <3>2, <2>0
  <2>3. CASE m - 1 # 0
    <3>1. PICK k, h, l : k = m - 1 /\ h = plan[k].hi /\ l = plan[k].lo
      OBVIOUS
    <3>2. k \in 1 .. L - 1 /\ k \in 1 .. L /\ k + 1 = m
      BY <3>1, <2>3, <1>4
    <3>3. HiOf(plan, m - 1) = h
      BY <3>1, <2>3 DEF HiOf
    <3>4. l \in 0 .. N /\ h \in l .. N
      BY <3>1, <3>2, <1>9
    <3>5. h \in Nat /\ h <= N
      BY <3>4, <1>4
    <3>6. CASE h = 0
      BY <3>6, <3>3, <2>0, <2>1, <1>4
    <3>7. CASE h # 0
      <4>1. h \in 1 .. N /\ h <= h
        BY <3>5, <3>7, <1>4
      <4>2. PICK x, u, v : x = AtRank(st, h) /\ u = rs[k].we /\ v = rs[m].ws
        OBVIOUS
      <4>3. x <= u
        BY <4>1, <4>2, <3>1, <3>2, <1>9
      <4>4. u < v
        BY <4>2, <3>2, <1>5
      <4>5. x \in Int /\ u \in Nat /\ v \in Nat
        BY <4>1, <4>2, <3>2, <1>6, <1>12
      <4>6. x < v
        BY <4>3, <4>4, <4>5
      <4>7. h <= lo
        BY <4>1, <4>2, <4>6, <2>0, <1>9
      <4> QED BY <4>7, <3>3, <2>0
    <3> QED BY <3>6, <3>7
  <2> QED BY <2>2, <2>3
<1>14. ASSUME NEW m \in 0 .. L, NEW r \in 1 .. N, r > HiOf(plan, m), m < L => r <= plan[m + 1].lo
       PROVE  /\ AtRank(st, r) + E[m] \in 0 .. B
              /\ Where(st, a, b, list)[st.order[r]] = [to |-> AtRank(st, r) + E[m], gone |-> FALSE]
  <2>1. PICK x, k, c : x = AtRank(st, r) /\ k = ks[m] /\ c = Cursor(list, k)
    OBVIOUS
  <2>2. x \in 0 .. len /\ x \in Int /\ x >= 0 /\ k \in 0 .. K0 /\ k \in Nat
    <3>1. x \in 0 .. len /\ x \in Int
      BY <2>1, <1>12
    <3>2. k \in 0 .. K0
      BY <2>1, <1>5
    <3> QED BY <3>1, <3>2, <1>4
  <2>3. c \in Nat
    BY <2>1, <2>2, <1>1, <1>4, CursorFacts
  <2>4. c <= x /\ (k > 0 => \E u \in Nat : c <= u /\ u < x /\ AtEnd(a, u))
    <3>1. CASE m = 0
      <4>1. c = 0 /\ k = 0
        BY <3>1, <2>1, <1>5 DEF Cursor
      <4> QED BY <4>1, <2>2
    <3>2. CASE m # 0
      <4>0. m \in 1 .. L
        BY <3>2, <1>4
      <4>1. PICK u, h : u = rs[m].we /\ h = plan[m].hi
        OBVIOUS
      <4>2. r > h
        BY <4>1, <3>2, <1>14 DEF HiOf
      <4>3. plan[m].lo \in 0 .. N /\ h \in plan[m].lo .. N
        BY <4>0, <4>1, <1>9
      <4>4. ~(r <= h)
        <5>1. PICK l : l = plan[m].lo
          OBVIOUS
        <5>2. l \in 0 .. N /\ h \in l .. N
          BY <4>3, <5>1
        <5>3. h \in Int /\ r \in Int
          BY <5>2, <1>4
        <5> QED BY <5>3, <4>2
      <4>5. ~(x <= u)
        BY <4>0, <4>1, <4>4, <2>1, <1>9
      <4>6. c <= u /\ u \in Nat
        BY <4>0, <4>1, <2>1, <1>5, <1>6
      <4>7. AtEnd(a, u)
        <5>1. Ends(a, rs)
          BY <1>1, RegionEnds
        <5> QED BY <5>1, <4>0, <4>1, <1>3 DEF Ends
      <4>8. u < x /\ c <= x
        BY <4>5, <4>6, <2>2, <2>3
      <4> QED BY <4>6, <4>7, <4>8
    <3> QED BY <3>1, <3>2
  <2>5. ASSUME k < K0 PROVE x <= list[k + 1].pos /\ x < list[k + 1].pos
    <3>1. m # L
      BY <2>1, <2>2, <2>5, <1>5, <1>4
    <3>2. m < L /\ m + 1 \in 1 .. L /\ (m + 1) - 1 = m
      BY <3>1, <1>4
    <3>3. r <= plan[m + 1].lo
      BY <3>2, <1>14
    <3>4. PICK u, v : u = rs[m + 1].ws /\ v = list[k + 1].pos
      OBVIOUS
    <3>5. x < u
      BY <3>2, <3>3, <3>4, <2>1, <1>9
    <3>6. u <= v /\ u \in Nat
      BY <3>2, <3>4, <2>1, <1>5, <1>6
    <3>7. v \in Nat
      <4>1. k + 1 \in 1 .. K0
        BY <2>2, <2>5, <1>4
      <4> QED BY <4>1, <3>4, <1>1, <1>4, EditFacts
    <3>8. x <= v /\ x < v
      BY <3>5, <3>6, <3>7, <2>2
    <3> QED BY <3>4, <3>8
  <2>6. Cut(list, x, k)
    BY <2>1, <2>4, <2>5, <1>1 DEF Cut
  <2>7. x + D[k] \in 0 .. len + D[K0]
    BY <2>2, <2>6, <1>1, <1>4, CutStays
  <2>8. E[m] = D[k]
    BY <2>1, <1>11
  <2>9. Apart(a, list, k, x)
    BY <2>1, <2>4, <2>5, <1>1 DEF Apart
  <2>10. PICK an : an = st.slots[st.order[r]].anchor
    OBVIOUS
  <2>11. an.kind \in Track
    <3>1. PICK sl, s : sl = st.slots /\ s = st.order[r]
      OBVIOUS
    <3>2. sl \in Seq(Slot) /\ s \in LiveIn(sl)
      BY <3>1, <1>1, ShapedFacts
    <3>3. sl[s].anchor.kind \in Track
      BY <3>2, LiveAnchor
    <3> QED BY <3>1, <3>3, <2>10
  <2>12. MapAnchor(an, x, a, b, list) = [to |-> x + D[k], gone |-> FALSE]
    <3>1. k \in 0 .. Len(list) /\ x \in Nat /\ x <= Len(a)
      BY <2>2, <1>1, <1>4
    <3> QED BY <3>1, <2>9, <2>11, <1>1, ApartGoes
  <2>13. Where(st, a, b, list)[st.order[r]] = MapAnchor(an, x, a, b, list)
    BY <2>1, <2>10, <1>1, WhereIs
  <2> QED BY <2>1, <2>7, <2>8, <2>12, <2>13, <1>4
<1>15. ASSUME NEW m \in 1 .. L
       PROVE  /\ Fits(st, plan[m]) /\ plan[m].delta = E[m] - E[m - 1] /\ HiOf(plan, m - 1) <= plan[m].lo
              /\ \A j \in 1 .. plan[m].hi - plan[m].lo : plan[m].moved[j].anchor.to \in 0 .. B
              /\ \A i, j \in 1 .. plan[m].hi - plan[m].lo :
                    i < j => plan[m].moved[i].anchor.to <= plan[m].moved[j].anchor.to
  <2>1. m \in 0 .. L /\ m - 1 \in 0 .. L
    BY <1>4
  <2>2. plan[m].delta = E[m] - E[m - 1]
    BY <2>1, <1>5, <1>9, <1>11
  <2>3. Fits(st, plan[m])
    BY <1>8
  <2> QED BY <2>2, <2>3, <1>9, <1>13
<1>16. \A r \in 1 .. N - 1 : AtRank(st, r) <= AtRank(st, r + 1)
  BY <1>1 DEF InOrder
<1>17. Sweep(st, plan, E, B)
  BY <1>1, <1>4, <1>7, <1>11, <1>14, <1>15, <1>16 DEF Sweep
<1>18. E[Len(plan)] = TotalDelta(list)
  BY <1>4, <1>7, <1>11
<1>19. PICK W : W = Where(st, a, b, list)
  OBVIOUS
<1>20. ASSUME NEW m \in 1 .. L, NEW j \in 1 .. plan[m].hi - plan[m].lo
       PROVE  plan[m].moved[j].anchor = W[plan[m].moved[j].slot]
  <2>1. PICK p : p = plan[m]
    OBVIOUS
  <2>2. Fits(st, p) /\ Going(p, st, a, b, list)
    BY <2>1, <1>8
  <2>3. j \in 1 .. Len(p.moved)
    BY <2>1, <2>2 DEF Fits
  <2>4. PICK r \in 1 .. Len(st.order) :
          /\ p.moved[j].slot = st.order[r]
          /\ p.moved[j].anchor = MapAnchor(st.slots[st.order[r]].anchor, AtRank(st, r), a, b, list)
    BY <2>2, <2>3 DEF Going
  <2>5. W[st.order[r]] = MapAnchor(st.slots[st.order[r]].anchor, AtRank(st, r), a, b, list)
    BY <1>19, WhereIs
  <2> QED BY <2>1, <2>4, <2>5
<1>21. Tracks(st, plan, E, W)
  <2>1. \A m \in 0 .. L, r \in 1 .. N : r > HiOf(plan, m) /\ (m < L => r <= plan[m + 1].lo) =>
             W[st.order[r]] = [to |-> AtRank(st, r) + E[m], gone |-> FALSE]
    BY <1>14, <1>19
  <2> QED BY <2>1, <1>20, <1>1, <1>7 DEF Tracks
<1> QED BY <1>1, <1>17, <1>18, <1>19, <1>21

\* Every live anchor is where it is to go, under its flag.
AllMoved(st, end, W) ==
    \A s \in LiveIn(end.slots) :
        /\ PlaceIn(end, s) = W[s].to
        /\ end.slots[s].anchor.invalidated = Flagged(st.slots[s].anchor.invalidated, W[s].gone)

\* What a change leaves of a store whose order is current.
LEMMA SweptStore ==
    ASSUME NEW a \in Str, NEW list, Canon(list, Len(a)), NEW b, b = ApplyTo(list, a),
           NEW st, Shaped(st), Len(st.order) >= 1, InOrder(st, Len(a)),
           NEW plan, plan = Planned(st, a, b, list),
           NEW end, end = Placed(st, plan, TotalDelta(list))
    PROVE  /\ Shaped(end) /\ Len(end.order) = Len(st.order) /\ Alike(st.slots, end.slots)
           /\ \A r \in 1 .. Len(end.order) : AtRank(end, r) \in 0 .. Len(b)
           /\ ~Crossed(end, plan) => InOrder(end, Len(b))
           /\ AllMoved(st, end, Where(st, a, b, list))
<1>1. PICK E : /\ Sweep(st, plan, E, Len(b)) /\ E[Len(plan)] = TotalDelta(list)
               /\ Tracks(st, plan, E, Where(st, a, b, list))
  BY SweepFacts
<1>2. PICK N, L, B, W : N = Len(st.order) /\ L = Len(plan) /\ B = Len(b) /\ W = Where(st, a, b, list)
  OBVIOUS
<1>3. Settled(st, plan, E, B, 0, end) /\ Exact(st, plan, E, W, 0, end)
  <2>1. Sweep(st, plan, E, B) /\ Tracks(st, plan, E, W)
    BY <1>1, <1>2
  <2>2. /\ Settled(st, plan, E, B, 0, Placed(st, plan, E[Len(plan)]))
        /\ Exact(st, plan, E, W, 0, Placed(st, plan, E[Len(plan)]))
    BY <2>1, PlacedFacts
  <2> QED BY <2>2, <1>1
<1>4. N \in Nat /\ L \in Nat /\ E[0] = 0
  BY <1>1, <1>2, ShapedFacts DEF Sweep
<1>5. Shaped(end) /\ Len(end.order) = N /\ Alike(st.slots, end.slots)
  BY <1>2, <1>3 DEF Settled
<1>6. \A r \in 1 .. N : AtRank(end, r) \in Int
  BY <1>5, ShapedFacts
<1>7. ASSUME NEW r \in 1 .. N PROVE AtRank(end, r) \in 0 .. B
  <2>1. r > HiOf(plan, 0)
    BY DEF HiOf
  <2>2. AtRank(end, r) + E[0] \in 0 .. B
    BY <2>1, <1>2, <1>3 DEF Settled
  <2>3. AtRank(end, r) + 0 = AtRank(end, r)
    BY <1>6
  <2> QED BY <2>2, <2>3, <1>4
<1>8. ASSUME ~Crossed(end, plan), NEW r \in 1 .. N - 1 PROVE AtRank(end, r) <= AtRank(end, r + 1)
  <2>1. r > HiOf(plan, 0) /\ r > 0 /\ r < N /\ r \in 1 .. N /\ r + 1 \in 1 .. N
    BY <1>4 DEF HiOf
  <2>2. AtRank(end, r) <= AtRank(end, r + 1) \/ IsEdge(plan, 0, r)
    BY <2>1, <1>2, <1>3 DEF Settled
  <2>3. CASE IsEdge(plan, 0, r)
    <3>1. PICK q \in 0 + 1 .. Len(plan) : r = plan[q].lo \/ r = plan[q].hi
      BY <2>3 DEF IsEdge
    <3>2. q \in 1 .. Len(plan)
      OBVIOUS
    <3>3. ~(AtRank(end, r) > AtRank(end, r + 1))
      BY <3>1, <3>2, <2>1, <1>5, <1>8 DEF Crossed
    <3>4. PICK u, v : u = AtRank(end, r) /\ v = AtRank(end, r + 1)
      OBVIOUS
    <3>5. u \in Int /\ v \in Int /\ ~(u > v)
      BY <3>3, <3>4, <2>1, <1>6
    <3>6. u <= v
      BY <3>5
    <3> QED BY <3>4, <3>6
  <2> QED BY <2>2, <2>3
<1>9. ~Crossed(end, plan) => InOrder(end, B)
  BY <1>5, <1>7, <1>8 DEF InOrder
<1>10. AllMoved(st, end, W)
  <2>1. SUFFICES ASSUME NEW s \in LiveIn(end.slots)
                 PROVE  /\ PlaceIn(end, s) = W[s].to
                        /\ end.slots[s].anchor.invalidated = Flagged(st.slots[s].anchor.invalidated, W[s].gone)
    BY DEF AllMoved
  <2>2. PICK r \in 1 .. N : end.order[r] = s
    BY <1>5 DEF Shaped
  <2>3. r > HiOf(plan, 0)
    BY DEF HiOf
  <2>4. /\ AtRank(end, r) + E[0] = W[s].to
        /\ end.slots[s].anchor.invalidated = Flagged(st.slots[s].anchor.invalidated, W[s].gone)
    BY <2>2, <2>3, <1>2, <1>3 DEF Exact
  <2>5. AtRank(end, r) + 0 = AtRank(end, r)
    BY <1>6
  <2>6. PlaceIn(end, s) = AtRank(end, r)
    BY <2>2, <1>5, WhereIs
  <2> QED BY <2>4, <2>5, <2>6, <1>4
<1> QED BY <1>2, <1>5, <1>7, <1>9, <1>10
----------------------------------------------------------------------------
(* A fresh order.                                                          *)

\* f is how the slots take their ranks, one by one.
IsRanking(st, live, f) ==
    f[0] = st.slots /\ \A n \in 1 .. Len(live) : f[n] = RankOne(f[n - 1], live[n], OffsetOf(st.slots[live[n]].anchor), n)

LEMMA RankingDef ==
    ASSUME NEW st, NEW live, Len(live) \in Nat, NEW f, f = Ranking(st, live)
    PROVE  IsRanking(st, live, f)
<1> DEFINE N == Len(live)
           stp(x, n) == RankOne(x, live[n], OffsetOf(st.slots[live[n]].anchor), n)
           val(g, n) == IF n = 0 THEN st.slots ELSE stp(g[n - 1], n)
           Rec(g, m) == g = [n \in 0 .. m |-> val(g, n)]
           P == {m \in Nat : \E g : Rec(g, m)}
<1>0. N \in Nat
  OBVIOUS
<1> HIDE DEF N, stp
<1>1. 0 \in P
  <2> DEFINE h == [n \in 0 .. 0 |-> st.slots]
  <2>1. Rec(h, 0)
    OBVIOUS
  <2> QED BY <2>1
<1>2. ASSUME NEW m \in P PROVE m + 1 \in P
  <2>0. m \in Nat
    OBVIOUS
  <2>1. PICK g : Rec(g, m)
    OBVIOUS
  <2>2. \A n \in 0 .. m : g[n] = val(g, n)
    BY <2>1
  <2> DEFINE h == [n \in 0 .. m + 1 |-> IF n = m + 1 THEN val(g, n) ELSE g[n]]
  <2>3. ASSUME NEW n \in 0 .. m + 1 PROVE h[n] = val(h, n)
    <3>1. h[n] = val(g, n)
      BY <2>2
    <3>2. n # 0 => n - 1 \in 0 .. m
      BY <2>0
    <3>3. \A j \in 0 .. m : h[j] = g[j]
      BY <2>0
    <3> HIDE DEF h
    <3> QED BY <3>1, <3>2, <3>3
  <2>4. h = [n \in 0 .. m + 1 |-> h[n]]
    OBVIOUS
  <2> HIDE DEF h, val
  <2>5. Rec(h, m + 1)
    <3>1. [n \in 0 .. m + 1 |-> h[n]] = [n \in 0 .. m + 1 |-> val(h, n)]
      BY <2>3
    <3> QED BY <3>1, <2>4, Zenon
  <2> HIDE DEF Rec
  <2> QED BY <2>5
<1>3. P = Nat
  <2>1. P \in SUBSET Nat
    OBVIOUS
  <2> HIDE DEF P
  <2> QED BY <1>1, <1>2, <2>1, Induct
<1>4. \E g : Rec(g, N)
  <2>1. N \in P
    BY <1>0, <1>3
  <2> HIDE DEF Rec
  <2> QED BY <2>1
<1>5. f = CHOOSE g : Rec(g, N)
  BY DEF Ranking, N, stp
<1>6. Rec(f, N)
  BY <1>4, <1>5
<1>7. f[0] = st.slots
  BY <1>6, <1>0
<1>8. \A n \in 1 .. N : f[n] = stp(f[n - 1], n)
  BY <1>6, <1>0
<1> QED BY <1>7, <1>8 DEF N, stp, IsRanking

\* Anchors of the same kinds under the same flags.
SameAnchors(sl, out) ==
    \A s \in LiveIn(sl) : out[s].anchor.kind = sl[s].anchor.kind /\ out[s].anchor.invalidated = sl[s].anchor.invalidated

\* The first n live slots have their ranks and offsets.
RankedTo(sl, live, n, out) ==
    /\ out \in Seq(Slot) /\ Alike(sl, out) /\ SameAnchors(sl, out)
    /\ \A j \in 1 .. n : out[live[j]].anchor.rank = j /\ out[live[j]].anchor.offset = OffsetOf(sl[live[j]].anchor)
    /\ \A s \in 1 .. Len(sl) : (\A j \in 1 .. n : live[j] # s) => out[s] = sl[s]

LEMMA EntrySet ==
    ASSUME NEW T, NEW x \in Seq(T), NEW s \in 1 .. Len(x), NEW v \in T, NEW y, y = [x EXCEPT ![s] = v]
    PROVE  y \in Seq(T) /\ Len(y) = Len(x) /\ y[s] = v /\ \A t \in 1 .. Len(x) : t # s => y[t] = x[t]
BY SMTT(30)

LEMMA RankNext ==
    ASSUME NEW sl \in Seq(Slot), NEW live, Len(live) \in Nat, \A j \in 1 .. Len(live) : live[j] \in LiveIn(sl),
           \A i, j \in 1 .. Len(live) : live[i] = live[j] => i = j,
           NEW n \in 1 .. Len(live), NEW x, RankedTo(sl, live, n - 1, x), NEW o \in Int, o = OffsetOf(sl[live[n]].anchor),
           NEW y, y = RankOne(x, live[n], o, n)
    PROVE  RankedTo(sl, live, n, y)
<1>1. PICK s, L : s = live[n] /\ L = Len(sl)
  OBVIOUS
<1>2. x \in Seq(Slot) /\ Alike(sl, x) /\ Len(x) = L /\ LiveIn(x) = LiveIn(sl) /\ L \in Nat /\ s \in LiveIn(x)
  <2>1. x \in Seq(Slot) /\ Alike(sl, x)
    BY DEF RankedTo
  <2>2. Len(x) = L /\ LiveIn(x) = LiveIn(sl)
    BY <2>1, <1>1, AlikeFacts
  <2>3. L \in Nat
    BY <1>1, EntryOf
  <2> QED BY <2>1, <2>2, <2>3, <1>1
<1>3. s \in 1 .. L /\ x[s] \in Slot /\ x[s].anchor \in Anchor
  BY <1>2, LiveAnchor
<1>4. PICK a, b, v : a = x[s].anchor /\ b = [a EXCEPT !.offset = o, !.rank = n] /\ v = [x[s] EXCEPT !.anchor = b]
  OBVIOUS
<1>5. b \in Anchor /\ b.rank = n /\ b.offset = o /\ b # NoAnchor /\ b.kind = a.kind /\ b.invalidated = a.invalidated
  <2>1. a = [offset |-> a.offset, kind |-> a.kind, invalidated |-> a.invalidated, rank |-> a.rank]
        /\ a.kind \in Kinds /\ a.invalidated \in BOOLEAN
    BY <1>3, <1>4 DEF Anchor
  <2>2. b = [offset |-> o, kind |-> a.kind, invalidated |-> a.invalidated, rank |-> n]
    BY <2>1, <1>4
  <2>3. n \in Nat
    OBVIOUS
  <2>4. b \in Anchor
    BY <2>1, <2>2, <2>3 DEF Anchor
  <2> QED BY <2>2, <2>4, NoAnchorAssumption
<1>6. v = [gen |-> x[s].gen, anchor |-> b] /\ v \in Slot
  <2>1. x[s] = [gen |-> x[s].gen, anchor |-> a] /\ x[s].gen \in Nat
    BY <1>3, <1>4 DEF Slot
  <2>2. v = [gen |-> x[s].gen, anchor |-> b]
    BY <2>1, <1>4
  <2> QED BY <2>1, <2>2, <1>5 DEF Slot
<1>7. y = [x EXCEPT ![s] = v]
  <2>1. y = [x EXCEPT ![s].anchor = b]
    BY <1>1, <1>4 DEF RankOne
  <2> QED BY <2>1, <1>4
<1>8. y \in Seq(Slot) /\ Len(y) = L /\ y[s] = v /\ \A t \in 1 .. L : t # s => y[t] = x[t]
  BY <1>2, <1>3, <1>6, <1>7, EntrySet
<1>9. Alike(sl, y)
  <2>1. Alike(x, y)
    <3>1. y[s].gen = x[s].gen /\ y[s].anchor = b
      BY <1>6, <1>8
    <3>2. y[s].anchor # NoAnchor /\ x[s].anchor # NoAnchor
      BY <3>1, <1>3, <1>5, NoAnchorAssumption
    <3> QED BY <3>1, <3>2, <1>2, <1>8 DEF Alike
  <2> QED BY <2>1, <1>2 DEF Alike
<1>10. ASSUME NEW j \in 1 .. n PROVE y[live[j]].anchor.rank = j /\ y[live[j]].anchor.offset = OffsetOf(sl[live[j]].anchor)
  <2>1. CASE j = n
    BY <2>1, <1>1, <1>5, <1>6, <1>8
  <2>2. CASE j # n
    <3>1. j \in 1 .. n - 1 /\ j \in 1 .. Len(live)
      BY <2>2
    <3>2. live[j] # s
      BY <3>1, <2>2, <1>1
    <3>3. live[j] \in 1 .. L
      BY <3>1, <1>1 DEF LiveIn
    <3>4. x[live[j]].anchor.rank = j /\ x[live[j]].anchor.offset = OffsetOf(sl[live[j]].anchor)
      BY <3>1 DEF RankedTo
    <3> QED BY <3>2, <3>3, <3>4, <1>8
  <2> QED BY <2>1, <2>2
<1>11. ASSUME NEW t \in 1 .. L, \A j \in 1 .. n : live[j] # t PROVE y[t] = sl[t]
  <2>1. n \in 1 .. n /\ \A j \in 1 .. n - 1 : j \in 1 .. n
    OBVIOUS
  <2>2. t # s /\ \A j \in 1 .. n - 1 : live[j] # t
    BY <2>1, <1>1, <1>11
  <2>3. x[t] = sl[t]
    BY <2>2, <1>1 DEF RankedTo
  <2> QED BY <2>2, <2>3, <1>8
<1>12. SameAnchors(sl, y)
  <2>1. SUFFICES ASSUME NEW t \in LiveIn(sl)
                 PROVE  y[t].anchor.kind = sl[t].anchor.kind /\ y[t].anchor.invalidated = sl[t].anchor.invalidated
    BY DEF SameAnchors
  <2>2. x[t].anchor.kind = sl[t].anchor.kind /\ x[t].anchor.invalidated = sl[t].anchor.invalidated
    BY DEF RankedTo, SameAnchors
  <2>3. CASE t = s
    <3>1. y[s].anchor = b
      BY <1>6, <1>8
    <3> QED BY <3>1, <2>2, <2>3, <1>4, <1>5
  <2>4. CASE t # s
    <3>1. t \in 1 .. L
      BY <1>1 DEF LiveIn
    <3> QED BY <3>1, <2>2, <2>4, <1>8
  <2> QED BY <2>3, <2>4
<1> QED BY Zenon, <1>1, <1>8, <1>9, <1>10, <1>11, <1>12 DEF RankedTo

LEMMA RankingFacts ==
    ASSUME NEW sl \in Seq(Slot), NEW st, st.slots = sl, NEW live, Len(live) \in Nat,
           \A j \in 1 .. Len(live) : live[j] \in LiveIn(sl) /\ OffsetOf(sl[live[j]].anchor) \in Int,
           \A i, j \in 1 .. Len(live) : live[i] = live[j] => i = j
    PROVE  RankedTo(sl, live, Len(live), Ranking(st, live)[Len(live)])
<1>0. PICK f, M : f = Ranking(st, live) /\ M = Len(live)
  OBVIOUS
<1>1. M \in Nat
  BY <1>0
<1>2. f[0] = sl /\ \A n \in 1 .. M : f[n] = RankOne(f[n - 1], live[n], OffsetOf(sl[live[n]].anchor), n)
  <2>0. IsRanking(st, live, f)
    BY <1>0, RankingDef
  <2>1. f[0] = st.slots /\ \A n \in 1 .. Len(live) : f[n] = RankOne(f[n - 1], live[n], OffsetOf(st.slots[live[n]].anchor), n)
    BY <2>0 DEF IsRanking
  <2>2. f[0] = sl
    BY <2>1
  <2>3. \A n \in 1 .. M : f[n] = RankOne(f[n - 1], live[n], OffsetOf(sl[live[n]].anchor), n)
    <3> HIDE DEF RankOne
    <3> QED BY <2>1, <1>0
  <2> QED BY <2>2, <2>3
<1> DEFINE P == {n \in Nat : n <= M => RankedTo(sl, live, n, f[n])}
<1>3. 0 \in P
  <2>1. \A j \in 1 .. 0 : FALSE
    OBVIOUS
  <2>2. RankedTo(sl, live, 0, sl)
    BY <2>1 DEF RankedTo, Alike, SameAnchors
  <2> QED BY <2>2, <1>2
<1>4. ASSUME NEW k \in P PROVE k + 1 \in P
  <2>1. k \in Nat /\ k + 1 \in Nat
    OBVIOUS
  <2>2. CASE k + 1 <= M
    <3>1. PICK n, x, o : n = k + 1 /\ x = f[k] /\ o = OffsetOf(sl[live[k + 1]].anchor)
      OBVIOUS
    <3>2. k <= M /\ n \in 1 .. M /\ n - 1 = k
      BY <3>1, <2>1, <2>2, <1>1
    <3>3. RankedTo(sl, live, n - 1, x) /\ o \in Int /\ o = OffsetOf(sl[live[n]].anchor) /\ n \in 1 .. Len(live)
      BY <3>1, <3>2, <1>0
    <3>4. f[n] = RankOne(x, live[n], o, n)
      BY <3>1, <3>2, <1>2
    <3>5. RankedTo(sl, live, n, f[n])
      BY <3>3, <3>4, RankNext
    <3> QED BY <3>1, <3>5, <2>1
  <2>3. CASE ~(k + 1 <= M)
    BY <2>1, <2>3
  <2> QED BY <2>2, <2>3
<1>5. P = Nat
  <2>1. P \in SUBSET Nat
    OBVIOUS
  <2> HIDE DEF P
  <2> QED BY <1>3, <1>4, <2>1, Induct
<1>6. M \in P /\ M <= M
  BY <1>1, <1>5
<1> QED BY <1>0, <1>6

\* normalize, from a store whose anchors are in the text.
LEMMA NormalizedFacts ==
    ASSUME slots \in Seq(Slot), Cardinality(Live) <= MaxIds, NEW len \in Nat,
           \A s \in Live : OffsetOf(slots[s].anchor) \in 0 .. len,
           NEW st, st = Normalized(Store)
    PROVE  /\ Shaped(st) /\ InOrder(st, len) /\ Alike(slots, st.slots) /\ Len(st.order) = Cardinality(Live)
           /\ SameAnchors(slots, st.slots) /\ \A s \in Live : PlaceIn(st, s) = OffsetOf(slots[s].anchor)
<1> DEFINE S == Live
           off(s) == OffsetOf(Store.slots[s].anchor)
           Pre(y, x) == off(y) < off(x) \/ (off(y) = off(x) /\ y < x)
           lt == [x \in S |-> {y \in S : Pre(y, x)}]
           f == [i \in 1 .. Cardinality(S) |-> CHOOSE x \in S : Cardinality({y \in S : Pre(y, x)}) = i - 1]
<1>0. \A s \in S : off(s) = OffsetOf(slots[s].anchor)
  BY DEF Store
<1>1. \A x \in S : off(x) \in Int /\ off(x) \in 0 .. len /\ x \in Int /\ x \in 1 .. Len(slots)
  BY <1>0, EntryOf DEF Live
<1>2. IsFiniteSet(S)
  <2>1. S \in SUBSET (1 .. Len(slots))
    BY DEF Live
  <2>2. IsFiniteSet(1 .. Len(slots))
    <3>1. Len(slots) \in Int
      BY EntryOf
    <3> QED BY <3>1, FS_Interval
  <2> QED BY <2>1, <2>2, FS_Subset
<1>3. S = LiveIn(slots)
  BY DEF Live, LiveIn
<1>4. st = [slots |-> Ranking(Store, f)[Len(f)], order |-> f, shift |-> Zeros(Len(f))]
  BY Zenon DEF Normalized, Ranked, Sorted
<1> HIDE DEF S, off
<1>5. IsOrder(S, lt)
  <2>1. lt \in [S -> SUBSET S]
    OBVIOUS
  <2>2. \A x \in S : x \notin lt[x]
    BY <1>1
  <2>3. ASSUME NEW x \in S, NEW y \in S, y \in lt[x], NEW z \in lt[y] PROVE z \in lt[x]
    <3>1. z \in S /\ Pre(z, y) /\ Pre(y, x)
      BY <2>3
    <3>2. PICK a1, a2, a3 : a1 = off(x) /\ a2 = off(y) /\ a3 = off(z)
      OBVIOUS
    <3>3. a1 \in Int /\ a2 \in Int /\ a3 \in Int /\ x \in Int /\ y \in Int /\ z \in Int
      BY <3>1, <3>2, <1>1
    <3>4. (a3 < a2 \/ (a3 = a2 /\ z < y)) /\ (a2 < a1 \/ (a2 = a1 /\ y < x))
      BY <3>1, <3>2
    <3>5. a3 < a1 \/ (a3 = a1 /\ z < x)
      BY <3>3, <3>4
    <3>6. Pre(z, x)
      BY <3>2, <3>5
    <3> QED BY <3>1, <3>6
  <2>4. ASSUME NEW x \in S, NEW y \in S, x # y PROVE y \in lt[x] \/ x \in lt[y]
    <3>2. off(x) \in Int /\ off(y) \in Int /\ x \in Int /\ y \in Int
      BY <1>1
    <3>3. Pre(y, x) \/ Pre(x, y)
      BY <3>2, <2>4
    <3> QED BY <3>3
  <2> HIDE DEF lt
  <2> QED BY <2>1, <2>2, <2>3, <2>4 DEF IsOrder
<1>6. IsListing(S, lt, f)
  <2>1. \A x \in S : lt[x] = {y \in S : Pre(y, x)}
    OBVIOUS
  <2>2. DOMAIN f = 1 .. Cardinality(S) /\ f = [i \in DOMAIN f |-> f[i]]
    <3> HIDE DEF Pre, lt
    <3>1. PICK h : h = [i \in 1 .. Cardinality(S) |-> CHOOSE x \in S : Cardinality({y \in S : Pre(y, x)}) = i - 1]
      OBVIOUS
    <3>4. PICK w : w = [i \in 1 .. Cardinality(S) |-> h[i]]
      OBVIOUS
    <3>5. DOMAIN h = 1 .. Cardinality(S)
      BY <3>1
    <3>6. \A i \in 1 .. Cardinality(S) : h[i] = CHOOSE x \in S : Cardinality({y \in S : Pre(y, x)}) = i - 1
      BY <3>1
    <3>7. w = h
      BY <3>1, <3>4, <3>6, Zenon
    <3>2. DOMAIN h = 1 .. Cardinality(S) /\ h = [i \in DOMAIN h |-> h[i]]
      BY <3>4, <3>5, <3>7
    <3>3. f = h
      BY <3>1, Zenon
    <3> HIDE DEF f
    <3> QED BY <3>2, <3>3
  <2> HIDE DEF Pre, lt
  <2>3. ASSUME NEW i \in 1 .. Cardinality(S), NEW x \in S, Cardinality(lt[x]) = i - 1
        PROVE  f[i] \in S /\ Cardinality(lt[f[i]]) = i - 1
    <3>1. f[i] = CHOOSE z \in S : Cardinality({y \in S : Pre(y, z)}) = i - 1
      OBVIOUS
    <3>2. Cardinality({y \in S : Pre(y, x)}) = i - 1
      BY <2>1, <2>3
    <3>3. f[i] \in S /\ Cardinality({y \in S : Pre(y, f[i])}) = i - 1
      BY <3>1, <3>2
    <3> QED BY <3>3, <2>1
  <2> HIDE DEF f
  <2> QED BY <2>2, <2>3 DEF IsListing
<1>7. \A x, y \in S : y \in lt[x] => off(y) <= off(x)
  BY <1>1
<1> HIDE DEF lt, f, Pre
<1>8. PICK N, lu, g : N = Cardinality(S) /\ lu = lt /\ g = f
  OBVIOUS
<1>9. Listed(S, lu, g, N)
  <2>1. IsOrder(S, lu) /\ IsListing(S, lu, g)
    BY <1>5, <1>6, <1>8
  <2> QED BY <2>1, <1>2, <1>8, ListingFacts
<1>10. /\ N \in Nat /\ g \in [1 .. N -> S] /\ \A x \in S : \E i \in 1 .. N : g[i] = x
       /\ \A i, j \in 1 .. N : g[i] = g[j] => i = j
       /\ \A i, j \in 1 .. N : i < j => g[i] \in lt[g[j]]
  BY <1>8, <1>9 DEF Listed
<1>11. g \in Seq(Nat) /\ Len(g) = N /\ \A i \in 1 .. N : g[i] \in S /\ g[i] \in LiveIn(slots)
  <2>1. \A i \in 1 .. N : g[i] \in S
    BY <1>10
  <2>2. \A i \in 1 .. N : g[i] \in Nat
    BY <2>1, <1>1
  <2>3. g \in [1 .. N -> Nat]
    BY <2>2, <1>10
  <2> QED BY <2>1, <2>3, <1>3, <1>10
<1>12. PICK sl : sl = Ranking(Store, g)[Len(g)]
  OBVIOUS
<1>13. RankedTo(slots, g, N, sl)
  <2>1. Store.slots = slots
    BY DEF Store
  <2>2. \A j \in 1 .. Len(g) : g[j] \in LiveIn(slots) /\ OffsetOf(slots[g[j]].anchor) \in Int
    BY <1>0, <1>1, <1>11
  <2>3. \A i, j \in 1 .. Len(g) : g[i] = g[j] => i = j
    BY <1>10, <1>11
  <2>4. Len(g) \in Nat
    BY <1>10, <1>11
  <2>5. PICK t, u : t = Store /\ u = slots
    OBVIOUS
  <2>6. t.slots = u /\ u \in Seq(Slot)
    BY <2>1, <2>5
  <2>7. \A j \in 1 .. Len(g) : g[j] \in LiveIn(u) /\ OffsetOf(u[g[j]].anchor) \in Int
    BY <2>2, <2>5
  <2>8. RankedTo(u, g, Len(g), Ranking(t, g)[Len(g)])
    BY <2>3, <2>4, <2>6, <2>7, RankingFacts
  <2> QED BY <2>5, <2>8, <1>11, <1>12
<1>14. /\ sl \in Seq(Slot) /\ Alike(slots, sl) /\ SameAnchors(slots, sl)
       /\ \A j \in 1 .. N : sl[g[j]].anchor.rank = j /\ sl[g[j]].anchor.offset = off(g[j])
  BY <1>0, <1>11, <1>13 DEF RankedTo
<1>15. LiveIn(sl) = S
  BY <1>3, <1>14, AlikeFacts
<1>16. PICK z : z = Zeros(N)
  OBVIOUS
<1>17. z \in Seq(Int) /\ Len(z) = N /\ \A i \in 1 .. N : z[i] = 0
  BY <1>10, <1>16 DEF Zeros
<1>18. st = [slots |-> sl, order |-> g, shift |-> z]
  BY <1>4, <1>8, <1>11, <1>12, <1>16
<1>19. N <= MaxIds
  BY <1>8 DEF S
<1>20. \A q \in 0 .. N : ShiftAt(z, q) = 0
  BY <1>17, <1>19, ShiftTyped
<1>21. st.slots = sl /\ st.order = g /\ st.shift = z /\ st \in StoreValue
  BY <1>11, <1>14, <1>17, <1>18 DEF StoreValue
<1>22. Shaped(st)
  <2>1. \A r \in 1 .. N : g[r] \in LiveIn(sl) /\ sl[g[r]].anchor.rank = r
    BY <1>11, <1>14, <1>15
  <2>2. \A s \in LiveIn(sl) : \E r \in 1 .. N : g[r] = s
    BY <1>10, <1>15
  <2> QED BY <2>1, <2>2, <1>11, <1>17, <1>19, <1>21 DEF Shaped
<1>23. ASSUME NEW r \in 1 .. N PROVE AtRank(st, r) = off(g[r]) /\ off(g[r]) \in 0 .. len
  <2>1. off(g[r]) \in 0 .. len
    BY <1>1, <1>11
  <2>2. off(g[r]) \in Int
    BY <1>1, <1>11
  <2>3. AtRank(st, r) = off(g[r]) + ShiftAt(z, r)
    BY <1>14, <1>21 DEF AtRank
  <2>4. ShiftAt(z, r) = 0
    <3>1. r \in 0 .. N
      BY <1>10
    <3> QED BY <3>1, <1>20
  <2>5. off(g[r]) + 0 = off(g[r])
    BY <2>2
  <2> QED BY <2>1, <2>3, <2>4, <2>5
<1>24. ASSUME NEW r \in 1 .. N - 1 PROVE AtRank(st, r) <= AtRank(st, r + 1)
  <2>1. r \in 1 .. N /\ r + 1 \in 1 .. N /\ r < r + 1
    BY <1>10
  <2>2. off(g[r]) <= off(g[r + 1])
    BY <2>1, <1>7, <1>10, <1>11
  <2> QED BY <2>1, <2>2, <1>23
<1>25. InOrder(st, len)
  BY <1>11, <1>21, <1>23, <1>24 DEF InOrder
<1>26. ASSUME NEW s \in S PROVE PlaceIn(st, s) = OffsetOf(slots[s].anchor)
  <2>1. PICK r \in 1 .. N : g[r] = s
    BY <1>10
  <2>2. st.order[r] = s /\ r \in 1 .. Len(st.order)
    BY <2>1, <1>11, <1>21
  <2>3. PlaceIn(st, s) = AtRank(st, r)
    BY <2>2, <1>22, WhereIs
  <2> QED BY <2>1, <2>3, <1>0, <1>23
<1>27. \A s \in Live : PlaceIn(st, s) = OffsetOf(slots[s].anchor)
  BY <1>26 DEF S
<1>28. Len(st.order) = Cardinality(Live)
  BY <1>8, <1>11, <1>21 DEF S
<1> QED BY <1>14, <1>21, <1>22, <1>25, <1>27, <1>28
----------------------------------------------------------------------------
(* The states of a store.                                                  *)

StoreOf(sl, od, sh) == [slots |-> sl, order |-> od, shift |-> sh]
OffsetIn(sh, a) == IF a.rank = 0 THEN a.offset ELSE a.offset + ShiftAt(sh, a.rank)

\* Every anchor is in the text, whatever shifts are pending; an order that is
\* not stale ranks the live slots by offset.
StorePart(tx, sl, od, sh, st) ==
    /\ tx \in Strings(MaxLen)
    /\ sl \in Seq(Slot) /\ od \in Seq(1 .. Len(sl)) /\ sh \in Seq(Int) /\ st \in BOOLEAN
    /\ Len(od) <= MaxIds /\ Len(sh) = Len(od)
    /\ \A s \in LiveIn(sl) : sl[s].anchor.rank <= Len(od) /\ OffsetIn(sh, sl[s].anchor) \in 0 .. Len(tx)
    /\ ~st => Shaped(StoreOf(sl, od, sh)) /\ InOrder(StoreOf(sl, od, sh), Len(tx))

\* The free list names the empty slots once each.
FreePart(sl, fr) ==
    /\ fr \in Seq(Nat)
    /\ \A i \in 1 .. Len(fr) : fr[i] \in 1 .. Len(sl) /\ fr[i] \notin LiveIn(sl)
    /\ \A s \in 1 .. Len(sl) : s \notin LiveIn(sl) => \E i \in 1 .. Len(fr) : fr[i] = s
    /\ \A i, j \in 1 .. Len(fr) : fr[i] = fr[j] => i = j

\* A slot is past the generation of every id that was removed from it, and
\* no slot or generation is without an id, so that the ids bound them.
DeadPart(sl, de) ==
    /\ IsFiniteSet(de) /\ Cardinality(LiveIn(sl)) + Cardinality(de) <= MaxIds
    /\ Len(sl) <= Cardinality(LiveIn(sl)) + Cardinality(de)
    /\ \A s \in 1 .. Len(sl) : sl[s].gen <= Cardinality(de)
    /\ \A id \in de : id.slot \in 1 .. Len(sl) /\ id.gen \in Nat /\ id.gen < sl[id.slot].gen

StoreIInv ==
    /\ edits \in Nat
    /\ StorePart(text, slots, order, shift, stale)
    /\ FreePart(slots, free)
    /\ DeadPart(slots, dead)

LEMMA SeqWiden ==
    ASSUME NEW S, NEW T, NEW s \in Seq(S), \A i \in 1 .. Len(s) : s[i] \in T
    PROVE  s \in Seq(T)
OBVIOUS

LEMMA LiveFinite ==
    ASSUME NEW sl \in Seq(Slot)
    PROVE  IsFiniteSet(LiveIn(sl)) /\ Cardinality(LiveIn(sl)) \in Nat /\ Len(sl) \in Nat
<1>1. Len(sl) \in Nat
  BY EntryOf
<1>2. LiveIn(sl) \in SUBSET (1 .. Len(sl))
  BY DEF LiveIn
<1>3. IsFiniteSet(1 .. Len(sl))
  BY <1>1, FS_Interval
<1>4. IsFiniteSet(LiveIn(sl))
  BY <1>2, <1>3, FS_Subset
<1> QED BY <1>1, <1>4, FS_CardinalityType

LEMMA LiveIs == Live = LiveIn(slots)
BY DEF Live, LiveIn

LEMMA OffsetIs == \A a : OffsetOf(a) = OffsetIn(shift, a)
BY DEF OffsetOf, OffsetIn

LEMMA StoreIs == Store = StoreOf(slots, order, shift)
BY DEF Store, StoreOf

\* The order of a current store is as long as the store has anchors.
LEMMA ShapedCount ==
    ASSUME NEW st, Shaped(st)
    PROVE  Len(st.order) = Cardinality(LiveIn(st.slots))
<1>1. PICK N, S, od : N = Len(st.order) /\ S = LiveIn(st.slots) /\ od = st.order
  OBVIOUS
<1>2. /\ N \in Nat /\ od \in Seq(Nat) /\ N = Len(od) /\ \A r \in 1 .. N : od[r] \in S
      /\ \A q, r \in 1 .. N : od[q] = od[r] => q = r
  BY <1>1, ShapedFacts
<1>3. \A s \in S : \E r \in 1 .. N : od[r] = s
  BY <1>1 DEF Shaped
<1>4. PICK h : h = [r \in 1 .. N |-> od[r]]
  OBVIOUS
<1>5. h \in Bijection(1 .. N, S)
  <2>1. h \in [1 .. N -> S]
    BY <1>2, <1>4
  <2>2. \A q, r \in 1 .. N : h[q] = h[r] => q = r
    BY <1>2, <1>4
  <2>3. \A s \in S : \E r \in 1 .. N : h[r] = s
    BY <1>3, <1>4
  <2> QED BY <2>1, <2>2, <2>3 DEF Bijection, Injection, IsInjective, Surjection
<1>6. IsFiniteSet(1 .. N) /\ Cardinality(1 .. N) = N
  <2>1. 1 \in Int /\ N \in Int
    BY <1>2
  <2>2. IsFiniteSet(1 .. N) /\ Cardinality(1 .. N) = IF 1 > N THEN 0 ELSE N - 1 + 1
    BY <2>1, FS_Interval
  <2> QED BY <2>2, <1>2
<1>7. Cardinality(S) = Cardinality(1 .. N)
  BY <1>5, <1>6, FS_Bijection DEF ExistsBijection
<1> QED BY <1>1, <1>6, <1>7

----------------------------------------------------------------------------
(* Creating and removing.                                                  *)

\* new is sl with the anchor a in slot s, which was empty or is new.
Filled(sl, new, s, a) ==
    /\ new \in Seq(Slot) /\ s \in 1 .. Len(new) /\ s \notin LiveIn(sl) /\ new[s].anchor = a
    /\ Len(new) = Len(sl) \/ (Len(new) = Len(sl) + 1 /\ s = Len(new))
    /\ \A t \in 1 .. Len(sl) : new[t].gen = sl[t].gen /\ (t # s => new[t] = sl[t])
    /\ s > Len(sl) => new[s].gen = 0

LEMMA FilledFacts ==
    ASSUME NEW sl \in Seq(Slot), NEW new, NEW s, NEW a \in Anchor, Filled(sl, new, s, a)
    PROVE  /\ LiveIn(new) = LiveIn(sl) \cup {s} /\ Cardinality(LiveIn(new)) = Cardinality(LiveIn(sl)) + 1
           /\ Len(sl) \in Nat /\ Len(new) \in Nat /\ Len(sl) <= Len(new) /\ Len(new) <= Len(sl) + 1
           /\ \A t \in 1 .. Len(new) : t # s => t \in 1 .. Len(sl) /\ new[t] = sl[t]
<1>1. new \in Seq(Slot) /\ s \in 1 .. Len(new) /\ s \notin LiveIn(sl) /\ new[s].anchor = a
  BY DEF Filled
<1>2. Len(sl) \in Nat /\ Len(new) \in Nat
  BY <1>1, EntryOf
<1>3. Len(sl) <= Len(new) /\ Len(new) <= Len(sl) + 1
  BY <1>2 DEF Filled
<1>4. ASSUME NEW t \in 1 .. Len(new), t # s PROVE t \in 1 .. Len(sl) /\ new[t] = sl[t]
  <2>1. t \in 1 .. Len(sl)
    BY <1>2, <1>4 DEF Filled
  <2> QED BY <2>1, <1>4 DEF Filled
<1>5. \A t \in 1 .. Len(sl) : t \in 1 .. Len(new)
  BY <1>2, <1>3
<1>6. a # NoAnchor
  BY NoAnchorAssumption
<1>7. LiveIn(new) = LiveIn(sl) \cup {s}
  BY <1>1, <1>4, <1>5, <1>6 DEF LiveIn
<1>8. IsFiniteSet(LiveIn(sl))
  BY LiveFinite
<1>9. Cardinality(LiveIn(sl) \cup {s}) = Cardinality(LiveIn(sl)) + 1
  BY <1>1, <1>8, FS_AddElement
<1> QED BY <1>2, <1>3, <1>4, <1>7, <1>9

LEMMA FillStore ==
    ASSUME NEW tx, NEW sl, NEW od, NEW sh, NEW st, StorePart(tx, sl, od, sh, st), NEW new, NEW s,
           NEW a \in Anchor, a.rank = 0, a.offset \in 0 .. Len(tx), Filled(sl, new, s, a)
    PROVE  StorePart(tx, new, od, sh, TRUE)
<1>1. sl \in Seq(Slot) /\ od \in Seq(1 .. Len(sl)) /\ sh \in Seq(Int) /\ Len(od) <= MaxIds /\ Len(sh) = Len(od) /\ tx \in Strings(MaxLen)
  BY DEF StorePart
<1>2. /\ LiveIn(new) = LiveIn(sl) \cup {s} /\ Len(sl) \in Nat /\ Len(new) \in Nat /\ Len(sl) <= Len(new)
      /\ \A t \in 1 .. Len(new) : t # s => t \in 1 .. Len(sl) /\ new[t] = sl[t]
  BY <1>1, FilledFacts
<1>3. od \in Seq(1 .. Len(new))
  <2>1. \A i \in 1 .. Len(od) : od[i] \in 1 .. Len(sl)
    BY <1>1, EntryOf
  <2>2. \A i \in 1 .. Len(od) : od[i] \in 1 .. Len(new)
    BY <2>1, <1>2
  <2> QED BY <2>2, <1>1, SeqWiden
<1>4. Len(od) \in Nat
  BY <1>1, EntryOf
<1>5. new \in Seq(Slot) /\ new[s].anchor = a
  BY DEF Filled
<1>6. ASSUME NEW t \in LiveIn(new)
      PROVE  new[t].anchor.rank <= Len(od) /\ OffsetIn(sh, new[t].anchor) \in 0 .. Len(tx)
  <2>1. CASE t = s
    <3>1. new[t].anchor = a
      BY <2>1, <1>5
    <3>2. OffsetIn(sh, a) = a.offset
      BY DEF OffsetIn
    <3>3. 0 <= Len(od)
      BY <1>4
    <3> QED BY <3>1, <3>2, <3>3
  <2>2. CASE t # s
    <3>1. t \in LiveIn(sl) /\ t \in 1 .. Len(new)
      BY <2>2, <1>2 DEF LiveIn
    <3>2. new[t] = sl[t]
      BY <3>1, <2>2, <1>2
    <3>3. sl[t].anchor.rank <= Len(od) /\ OffsetIn(sh, sl[t].anchor) \in 0 .. Len(tx)
      BY <3>1 DEF StorePart
    <3> QED BY <3>2, <3>3
  <2> QED BY <2>1, <2>2
<1> QED BY <1>1, <1>3, <1>5, <1>6 DEF StorePart

LEMMA FillDead ==
    ASSUME NEW sl \in Seq(Slot), NEW de, DeadPart(sl, de), Cardinality(LiveIn(sl)) + Cardinality(de) < MaxIds,
           NEW new, NEW s, NEW a \in Anchor, Filled(sl, new, s, a)
    PROVE  DeadPart(new, de)
<1>1. PICK l, c, m : l = Cardinality(LiveIn(sl)) /\ c = Cardinality(de) /\ m = Len(sl)
  OBVIOUS
<1>2. IsFiniteSet(de) /\ c \in Nat /\ l \in Nat /\ m \in Nat /\ m <= l + c /\ MaxIds \in Nat /\ l + c < MaxIds
  BY <1>1, LiveFinite, FS_CardinalityType, KFacts DEF DeadPart
<1>3. /\ Cardinality(LiveIn(new)) = l + 1 /\ Len(new) \in Nat /\ Len(new) <= m + 1 /\ m <= Len(new)
      /\ \A t \in 1 .. Len(new) : t # s => t \in 1 .. m /\ new[t] = sl[t]
  BY <1>1, FilledFacts
<1>4. (l + 1) + c <= MaxIds /\ Len(new) <= (l + 1) + c
  <2>1. PICK k : k = Len(new)
    OBVIOUS
  <2>2. k \in Nat /\ k <= m + 1
    BY <2>1, <1>3
  <2>3. (l + 1) + c <= MaxIds /\ k <= (l + 1) + c
    BY <2>2, <1>2
  <2> QED BY <2>1, <2>3
<1>5. ASSUME NEW t \in 1 .. Len(new) PROVE new[t].gen <= c
  <2>1. CASE t \in 1 .. m
    <3>1. new[t].gen = sl[t].gen
      BY <2>1, <1>1 DEF Filled
    <3> QED BY <3>1, <2>1, <1>1 DEF DeadPart
  <2>2. CASE t \notin 1 .. m
    <3>1. t = s
      BY <2>2, <1>3
    <3>2. s > Len(sl)
      BY <3>1, <2>2, <1>1, <1>2, <1>3
    <3>3. new[t].gen = 0
      BY <3>1, <3>2 DEF Filled
    <3> QED BY <3>3, <1>2
  <2> QED BY <2>1, <2>2
<1>6. ASSUME NEW id \in de PROVE id.slot \in 1 .. Len(new) /\ id.gen \in Nat /\ id.gen < new[id.slot].gen
  <2>1. id.slot \in 1 .. m /\ id.gen \in Nat /\ id.gen < sl[id.slot].gen
    BY <1>1 DEF DeadPart
  <2>2. new[id.slot].gen = sl[id.slot].gen
    BY <2>1, <1>1 DEF Filled
  <2>3. id.slot \in 1 .. Len(new)
    BY <2>1, <1>2, <1>3
  <2> QED BY <2>1, <2>2, <2>3
<1> QED BY <1>1, <1>2, <1>3, <1>4, <1>5, <1>6 DEF DeadPart
----------------------------------------------------------------------------
(* A slot is filled.                                                       *)

\* A slot that is new leaves the free list as it is.
LEMMA FreeNew ==
    ASSUME NEW sl \in Seq(Slot), NEW fr, FreePart(sl, fr), NEW new, NEW a \in Anchor,
           Filled(sl, new, Len(sl) + 1, a)
    PROVE  FreePart(new, fr)
<1>1. PICK s, m : s = Len(sl) + 1 /\ m = Len(sl)
  OBVIOUS
<1>2. Filled(sl, new, s, a) /\ m \in Nat /\ s = m + 1
  BY <1>1, EntryOf
<1>3. LiveIn(new) = LiveIn(sl) \cup {s} /\ Len(new) \in Nat /\ m <= Len(new) /\ Len(new) <= m + 1
  BY <1>1, <1>2, FilledFacts
<1>4. fr \in Seq(Nat) /\ \A i, j \in 1 .. Len(fr) : fr[i] = fr[j] => i = j
  BY DEF FreePart
<1>5. ASSUME NEW i \in 1 .. Len(fr) PROVE fr[i] \in 1 .. Len(new) /\ fr[i] \notin LiveIn(new)
  <2>1. fr[i] \in 1 .. m /\ fr[i] \notin LiveIn(sl)
    BY <1>1 DEF FreePart
  <2>2. PICK f : f = fr[i]
    OBVIOUS
  <2>3. f \in 1 .. Len(new) /\ f # s
    BY <2>1, <2>2, <1>2, <1>3
  <2> QED BY <2>1, <2>2, <2>3, <1>3
<1>6. ASSUME NEW t \in 1 .. Len(new), t \notin LiveIn(new) PROVE \E i \in 1 .. Len(fr) : fr[i] = t
  <2>1. t # s /\ t \notin LiveIn(sl)
    BY <1>3, <1>6
  <2>2. t \in 1 .. m
    BY <2>1, <1>2, <1>3
  <2> QED BY <2>1, <2>2, <1>1 DEF FreePart
<1> QED BY <1>4, <1>5, <1>6 DEF FreePart

\* The slot freed last leaves it.
LEMMA FreeOld ==
    ASSUME NEW sl \in Seq(Slot), NEW fr, FreePart(sl, fr), fr # <<>>, NEW new, NEW a \in Anchor,
           Filled(sl, new, Last(fr), a), Len(new) = Len(sl)
    PROVE  FreePart(new, Front(fr))
<1>1. PICK s, m, k : s = Last(fr) /\ m = Len(sl) /\ k = Len(fr)
  OBVIOUS
<1>2. m \in Nat /\ k \in Nat
  BY <1>1, EntryOf DEF FreePart
<1>3. fr \in Seq(Nat)
  BY DEF FreePart
<1>4. k >= 1
  <2>1. fr = [i \in 1 .. Len(fr) |-> fr[i]]
    BY <1>3
  <2>2. Len(fr) # 0
    BY <1>3
  <2> QED BY <2>2, <1>1, <1>2
<1>5. s = fr[k]
  BY <1>1 DEF Last
<1>6. PICK f : f = Front(fr)
  OBVIOUS
<1>7. f \in Seq(Nat) /\ Len(f) = k - 1 /\ \A i \in 1 .. k - 1 : f[i] = fr[i]
  BY <1>1, <1>2, <1>3, <1>4, <1>6 DEF Front
<1>8. LiveIn(new) = LiveIn(sl) \cup {s}
  <2>1. Filled(sl, new, s, a)
    BY <1>1
  <2> QED BY <2>1, FilledFacts
<1>9. \A i \in 1 .. Len(f) : i \in 1 .. k /\ i # k /\ f[i] = fr[i]
  BY <1>2, <1>7
<1>10. \A i, j \in 1 .. k : fr[i] = fr[j] => i = j
  BY <1>1 DEF FreePart
<1>11. k \in 1 .. k
  BY <1>2, <1>4
<1>12. ASSUME NEW i \in 1 .. Len(f) PROVE f[i] \in 1 .. Len(new) /\ f[i] \notin LiveIn(new)
  <2>1. fr[i] \in 1 .. m /\ fr[i] \notin LiveIn(sl)
    BY <1>1, <1>9 DEF FreePart
  <2>2. fr[i] # s
    BY <1>5, <1>9, <1>10, <1>11
  <2> QED BY <2>1, <2>2, <1>1, <1>8, <1>9
<1>13. ASSUME NEW t \in 1 .. Len(new), t \notin LiveIn(new) PROVE \E i \in 1 .. Len(f) : f[i] = t
  <2>1. t # s /\ t \notin LiveIn(sl) /\ t \in 1 .. Len(sl)
    BY <1>8, <1>13
  <2>2. PICK i \in 1 .. k : fr[i] = t
    BY <2>1, <1>1 DEF FreePart
  <2>3. i # k
    BY <2>1, <2>2, <1>5
  <2>4. i \in 1 .. Len(f)
    BY <2>3, <1>2, <1>7
  <2> QED BY <2>2, <2>4, <1>9
<1>14. \A i, j \in 1 .. Len(f) : f[i] = f[j] => i = j
  BY <1>9, <1>10
<1>15. FreePart(new, f)
  BY <1>7, <1>12, <1>13, <1>14 DEF FreePart
<1> QED BY <1>6, <1>15

\* What insert fills: the slot freed last, or a new one.
LEMMA InsertFills ==
    ASSUME StoreIInv, NEW o \in 0 .. Len(text), NEW k \in Kinds, Insert(o, k),
           NEW a, a = [offset |-> o, kind |-> k, invalidated |-> FALSE, rank |-> 0],
           NEW s, s = IF free = <<>> THEN Len(slots) + 1 ELSE Last(free)
    PROVE  Filled(slots, slots', s, a) /\ (free # <<>> => Len(slots') = Len(slots))
<1>2. s = IF free = <<>> THEN Len(slots) + 1 ELSE Last(free)
  OBVIOUS
<1>3. slots' = IF free = <<>> THEN Append(slots, [gen |-> 0, anchor |-> a])
               ELSE [slots EXCEPT ![s].anchor = a]
  BY DEF Insert
<1>4. FreePart(slots, free)
  BY DEF StoreIInv
<1>5. slots \in Seq(Slot)
  BY DEF StoreIInv, StorePart
<1>6. Len(slots) \in Nat /\ \A t \in 1 .. Len(slots) : slots[t] \in Slot
  BY <1>5, EntryOf
<1>7. a \in Anchor
  <2>1. o \in Int
    OBVIOUS
  <2> QED BY <2>1 DEF Anchor
<1>8. Filled(slots, slots', s, a) /\ (free # <<>> => Len(slots') = Len(slots))
  <2>1. CASE free = <<>>
    <3>1. PICK x, m : x = [gen |-> 0, anchor |-> a] /\ m = Len(slots)
      OBVIOUS
    <3>2. x \in Slot /\ x.gen = 0 /\ x.anchor = a
      BY <3>1, <1>7 DEF Slot
    <3>3. s = m + 1 /\ slots' = Append(slots, x) /\ m \in Nat
      BY <2>1, <3>1, <1>2, <1>3, <1>6
    <3>4. slots' \in Seq(Slot) /\ Len(slots') = m + 1 /\ slots'[m + 1] = x
      BY <3>1, <3>2, <3>3, <1>5
    <3>5. \A t \in 1 .. m : slots'[t] = slots[t]
      BY <3>1, <3>2, <3>3, <1>5
    <3>6. s \notin LiveIn(slots)
      BY <3>1, <3>3 DEF LiveIn
    <3>7. s \in 1 .. Len(slots')
      BY <3>3, <3>4
    <3> QED BY <2>1, <3>1, <3>2, <3>3, <3>4, <3>5, <3>6, <3>7 DEF Filled
  <2>2. CASE free # <<>>
    <3>1. s = free[Len(free)]
      BY <2>2, <1>2 DEF Last
    <3>2. free \in Seq(Nat)
      BY <1>4 DEF FreePart
    <3>3. Len(free) \in 1 .. Len(free)
      BY <2>2, <3>2
    <3>4. s \in 1 .. Len(slots) /\ s \notin LiveIn(slots)
      BY <3>1, <3>3, <1>4 DEF FreePart
    <3>5. slots' = [slots EXCEPT ![s].anchor = a]
      BY <2>2, <1>3
    <3>6. PICK x : x = [slots[s] EXCEPT !.anchor = a]
      OBVIOUS
    <3>7. slots[s] \in Slot
      BY <3>4, <1>6
    <3>8. x \in Slot /\ x.anchor = a /\ x.gen = slots[s].gen
      BY <3>6, <3>7, <1>7 DEF Slot
    <3>9. slots' = [slots EXCEPT ![s] = x]
      BY <3>5, <3>6
    <3>10. slots' \in Seq(Slot) /\ Len(slots') = Len(slots) /\ slots'[s] = x
      BY <3>4, <3>8, <3>9, <1>5
    <3>11. \A t \in 1 .. Len(slots) : t # s => slots'[t] = slots[t]
      BY <3>4, <3>8, <3>9, <1>5
    <3>12. s <= Len(slots) /\ s \in 1 .. Len(slots')
      BY <3>4, <3>10, <1>6
    <3>13. ~(s > Len(slots))
      BY <3>4, <3>12, <1>6
    <3> QED BY <3>4, <3>8, <3>10, <3>11, <3>12, <3>13 DEF Filled
  <2> QED BY <2>1, <2>2
<1> QED BY <1>8

\* insert keeps the invariant.
LEMMA InsertIInv ==
    ASSUME StoreIInv, NEW o \in 0 .. Len(text), NEW k \in Kinds, Insert(o, k)
    PROVE  StoreIInv'
<1>1. PICK a : a = [offset |-> o, kind |-> k, invalidated |-> FALSE, rank |-> 0]
  OBVIOUS
<1>2. PICK s : s = IF free = <<>> THEN Len(slots) + 1 ELSE Last(free)
  OBVIOUS
<1>3. /\ Cardinality(Live) + Cardinality(dead) < MaxIds
      /\ slots' = IF free = <<>> THEN Append(slots, [gen |-> 0, anchor |-> a])
                  ELSE [slots EXCEPT ![s].anchor = a]
      /\ free' = IF free = <<>> THEN free ELSE Front(free)
      /\ stale' = TRUE /\ text' = text /\ order' = order /\ shift' = shift /\ edits' = edits /\ dead' = dead
  BY <1>1, <1>2 DEF Insert
<1>4. StorePart(text, slots, order, shift, stale) /\ FreePart(slots, free) /\ DeadPart(slots, dead) /\ edits \in Nat
  BY DEF StoreIInv
<1>5. slots \in Seq(Slot) /\ text \in Strings(MaxLen)
  BY <1>4 DEF StorePart
<1>6. Len(slots) \in Nat /\ \A t \in 1 .. Len(slots) : slots[t] \in Slot
  BY <1>5, EntryOf
<1>7. a \in Anchor /\ a.rank = 0 /\ a.offset \in 0 .. Len(text)
  <2>1. o \in Int
    OBVIOUS
  <2> QED BY <2>1, <1>1 DEF Anchor
<1>8. Filled(slots, slots', s, a) /\ (free # <<>> => Len(slots') = Len(slots))
  BY <1>1, <1>2, InsertFills
<1>9. StorePart(text, slots', order, shift, TRUE)
  BY <1>4, <1>7, <1>8, FillStore
<1>10. DeadPart(slots', dead)
  <2>1. Cardinality(LiveIn(slots)) + Cardinality(dead) < MaxIds
    BY <1>3, LiveIs
  <2> QED BY <2>1, <1>4, <1>5, <1>7, <1>8, FillDead
<1>11. FreePart(slots', free')
  <2>1. CASE free = <<>>
    <3>1. Filled(slots, slots', Len(slots) + 1, a) /\ free' = free
      BY <2>1, <1>2, <1>3, <1>8
    <3>2. FreePart(slots', free)
      BY <3>1, <1>4, <1>5, <1>7, FreeNew
    <3> QED BY <3>1, <3>2
  <2>2. CASE free # <<>>
    <3>1. Filled(slots, slots', Last(free), a) /\ free' = Front(free) /\ Len(slots') = Len(slots)
      BY <2>2, <1>2, <1>3, <1>8
    <3>2. FreePart(slots', Front(free))
      BY <2>2, <3>1, <1>4, <1>5, <1>7, FreeOld
    <3> QED BY <3>1, <3>2
  <2> QED BY <2>1, <2>2
<1>12. StorePart(text', slots', order', shift', stale')
  BY <1>3, <1>9
<1>13. DeadPart(slots', dead') /\ edits' \in Nat
  BY <1>3, <1>4, <1>10
<1> QED BY <1>11, <1>12, <1>13 DEF StoreIInv
----------------------------------------------------------------------------
(* A slot is emptied.                                                      *)

\* new is sl with slot s emptied, under the next generation.
Emptied(sl, new, s) ==
    /\ new \in Seq(Slot) /\ s \in LiveIn(sl) /\ Len(new) = Len(sl)
    /\ new[s].anchor = NoAnchor /\ new[s].gen = sl[s].gen + 1
    /\ \A t \in 1 .. Len(sl) : t # s => new[t] = sl[t]

LEMMA EmptiedFacts ==
    ASSUME NEW sl \in Seq(Slot), NEW new, NEW s, Emptied(sl, new, s)
    PROVE  /\ LiveIn(new) = LiveIn(sl) \ {s} /\ Cardinality(LiveIn(new)) = Cardinality(LiveIn(sl)) - 1
           /\ s \in 1 .. Len(sl) /\ sl[s].gen \in Nat
           /\ \A t \in LiveIn(new) : t \in LiveIn(sl) /\ new[t] = sl[t]
<1>1. s \in LiveIn(sl) /\ Len(new) = Len(sl) /\ new[s].anchor = NoAnchor
  BY DEF Emptied
<1>2. \A t \in 1 .. Len(sl) : t # s => new[t] = sl[t]
  BY DEF Emptied
<1>3. s \in 1 .. Len(sl) /\ sl[s].gen \in Nat
  BY <1>1, LiveAnchor
<1>4. LiveIn(new) = LiveIn(sl) \ {s}
  BY <1>1, <1>2, <1>3 DEF LiveIn
<1>5. Cardinality(LiveIn(sl) \ {s}) = Cardinality(LiveIn(sl)) - 1
  BY <1>1, LiveFinite, FS_RemoveElement
<1>6. \A t \in LiveIn(new) : t \in LiveIn(sl) /\ t # s /\ t \in 1 .. Len(sl)
  BY <1>4 DEF LiveIn
<1> QED BY <1>2, <1>3, <1>4, <1>5, <1>6

LEMMA EmptyStore ==
    ASSUME NEW tx, NEW sl, NEW od, NEW sh, NEW st, StorePart(tx, sl, od, sh, st), NEW new, NEW s,
           Emptied(sl, new, s)
    PROVE  StorePart(tx, new, od, sh, TRUE)
<1>1. sl \in Seq(Slot) /\ od \in Seq(1 .. Len(sl)) /\ sh \in Seq(Int) /\ Len(od) <= MaxIds /\ Len(sh) = Len(od) /\ tx \in Strings(MaxLen)
  BY DEF StorePart
<1>2. new \in Seq(Slot) /\ Len(new) = Len(sl)
  BY DEF Emptied
<1>3. od \in Seq(1 .. Len(new))
  BY <1>1, <1>2
<1>4. ASSUME NEW t \in LiveIn(new)
      PROVE  new[t].anchor.rank <= Len(od) /\ OffsetIn(sh, new[t].anchor) \in 0 .. Len(tx)
  <2>1. t \in LiveIn(sl) /\ new[t] = sl[t]
    BY <1>1, EmptiedFacts
  <2>2. sl[t].anchor.rank <= Len(od) /\ OffsetIn(sh, sl[t].anchor) \in 0 .. Len(tx)
    BY <2>1 DEF StorePart
  <2> QED BY <2>1, <2>2
<1> QED BY <1>1, <1>2, <1>3, <1>4 DEF StorePart

\* The slot joins the free list.
LEMMA EmptyFree ==
    ASSUME NEW sl \in Seq(Slot), NEW fr, FreePart(sl, fr), NEW new, NEW s, Emptied(sl, new, s)
    PROVE  FreePart(new, Append(fr, s))
<1>1. PICK f, m, k : f = Append(fr, s) /\ m = Len(sl) /\ k = Len(fr)
  OBVIOUS
<1>2. /\ LiveIn(new) = LiveIn(sl) \ {s} /\ s \in 1 .. m /\ s \in LiveIn(sl) /\ Len(new) = m
  BY <1>1, EmptiedFacts DEF Emptied
<1>3. fr \in Seq(Nat) /\ s \in Nat
  BY <1>2 DEF FreePart
<1>4. f \in Seq(Nat) /\ k \in Nat /\ Len(f) = k + 1 /\ f[k + 1] = s /\ \A i \in 1 .. k : f[i] = fr[i]
  BY <1>1, <1>3
<1>5. \A i \in 1 .. k : fr[i] \in 1 .. m /\ fr[i] \notin LiveIn(sl)
  BY <1>1 DEF FreePart
<1>6. \A i \in 1 .. Len(f) : i = k + 1 \/ i \in 1 .. k
  BY <1>4
<1>7. \A i \in 1 .. k : f[i] # s
  BY <1>2, <1>4, <1>5
<1>8. \A i \in 1 .. Len(f) : f[i] \in 1 .. Len(new) /\ f[i] \notin LiveIn(new)
  BY <1>2, <1>4, <1>5, <1>6
<1>9. ASSUME NEW t \in 1 .. Len(new), t \notin LiveIn(new) PROVE \E i \in 1 .. Len(f) : f[i] = t
  <2>1. CASE t = s
    <3>1. k + 1 \in 1 .. Len(f)
      BY <1>4
    <3> QED BY <2>1, <3>1, <1>4
  <2>2. CASE t # s
    <3>1. PICK i \in 1 .. k : fr[i] = t
      BY <2>2, <1>1, <1>2, <1>9 DEF FreePart
    <3>2. i \in 1 .. Len(f)
      BY <1>4
    <3> QED BY <3>1, <3>2, <1>4
  <2> QED BY <2>1, <2>2
<1>10. \A i, j \in 1 .. k : fr[i] = fr[j] => i = j
  BY <1>1 DEF FreePart
<1>11. \A i, j \in 1 .. Len(f) : f[i] = f[j] => i = j
  BY <1>4, <1>6, <1>7, <1>10
<1>12. FreePart(new, f)
  BY <1>4, <1>8, <1>9, <1>11 DEF FreePart
<1> QED BY <1>1, <1>12

\* The id that is removed joins the dead ones, below the slot's generation.
LEMMA EmptyDead ==
    ASSUME NEW sl \in Seq(Slot), NEW de, DeadPart(sl, de), NEW new, NEW s, Emptied(sl, new, s)
    PROVE  DeadPart(new, de \cup {[slot |-> s, gen |-> sl[s].gen]})
<1>1. PICK l, c, m, g, x : l = Cardinality(LiveIn(sl)) /\ c = Cardinality(de) /\ m = Len(sl) /\ g = sl[s].gen /\ x = [slot |-> s, gen |-> sl[s].gen]
  OBVIOUS
<1>2. IsFiniteSet(de) /\ c \in Nat /\ l \in Nat /\ m \in Nat /\ m <= l + c /\ MaxIds \in Nat /\ l + c <= MaxIds
  BY <1>1, LiveFinite, FS_CardinalityType, KFacts DEF DeadPart
<1>3. /\ Cardinality(LiveIn(new)) = l - 1 /\ s \in 1 .. m /\ g \in Nat /\ Len(new) = m
      /\ new[s].gen = g + 1
  BY <1>1, EmptiedFacts DEF Emptied
<1>4. x.slot = s /\ x.gen = g
  BY <1>1
<1>5. x \notin de
  <2>1. SUFFICES ASSUME x \in de PROVE FALSE
    OBVIOUS
  <2>2. x.gen < sl[x.slot].gen
    BY <2>1 DEF DeadPart
  <2> QED BY <2>2, <1>1, <1>3, <1>4
<1>6. PICK d : d = de \cup {x}
  OBVIOUS
<1>7. IsFiniteSet(d) /\ Cardinality(d) = c + 1
  BY SMTT(30), <1>1, <1>2, <1>5, <1>6, FS_AddElement
<1>8. (l - 1) + (c + 1) <= MaxIds /\ m <= (l - 1) + (c + 1)
  BY <1>2
<1>9. ASSUME NEW t \in 1 .. Len(new) PROVE new[t].gen <= c + 1
  <2>0. t \in 1 .. m
    BY <1>3
  <2>1. sl[t].gen <= c
    BY <2>0, <1>1 DEF DeadPart
  <2>2. sl[t] \in Slot
    BY <2>0, <1>1, EntryOf
  <2>3. PICK h : h = sl[t].gen
    OBVIOUS
  <2>4. h \in Nat /\ h <= c
    BY <2>1, <2>2, <2>3 DEF Slot
  <2>5. h <= c + 1 /\ h + 1 <= c + 1
    BY <2>4, <1>2
  <2>6. CASE t = s
    BY <2>6, <2>3, <2>5, <1>1, <1>3
  <2>7. CASE t # s
    <3>1. new[t] = sl[t]
      BY <2>7, <2>0, <1>1 DEF Emptied
    <3> QED BY <3>1, <2>3, <2>5
  <2> QED BY <2>6, <2>7
<1>10. ASSUME NEW id \in d PROVE id.slot \in 1 .. Len(new) /\ id.gen \in Nat /\ id.gen < new[id.slot].gen
  <2>1. CASE id = x
    <3>1. g < g + 1
      BY <1>3
    <3> QED BY <2>1, <3>1, <1>3, <1>4
  <2>2. CASE id \in de
    <3>1. id.slot \in 1 .. m /\ id.gen \in Nat /\ id.gen < sl[id.slot].gen
      BY <2>2, <1>1 DEF DeadPart
    <3>2. CASE id.slot = s
      <4>1. PICK h : h = id.gen
        OBVIOUS
      <4>2. h \in Nat /\ h < g
        BY <4>1, <3>1, <3>2, <1>1
      <4>3. h < g + 1
        BY <4>2, <1>3
      <4> QED BY <4>1, <4>3, <3>1, <3>2, <1>3
    <3>3. CASE id.slot # s
      <4>1. new[id.slot] = sl[id.slot]
        BY <3>1, <3>3, <1>1 DEF Emptied
      <4> QED BY <4>1, <3>1, <1>3
    <3> QED BY <3>2, <3>3
  <2> QED BY <2>1, <2>2, <1>6
<1>11. DeadPart(new, d)
  BY <1>3, <1>7, <1>8, <1>9, <1>10 DEF DeadPart
<1> QED BY <1>1, <1>6, <1>11

\* What remove empties.
LEMMA RemoveEmpties ==
    ASSUME StoreIInv, NEW s \in Live, RemoveAnchor([slot |-> s, gen |-> slots[s].gen])
    PROVE  Emptied(slots, slots', s)
<1>3. PICK x : x = [gen |-> slots[s].gen + 1, anchor |-> NoAnchor]
  OBVIOUS
<1>4. slots' = [slots EXCEPT ![s] = x]
  BY <1>3 DEF RemoveAnchor
<1>6. slots \in Seq(Slot)
  BY DEF StoreIInv, StorePart
<1>7. s \in LiveIn(slots)
  BY LiveIs
<1>8. s \in 1 .. Len(slots) /\ slots[s].gen \in Nat
  BY <1>6, <1>7, LiveAnchor
<1>9. x \in Slot /\ x.anchor = NoAnchor /\ x.gen = slots[s].gen + 1
  BY <1>3, <1>8 DEF Slot
<1>10. slots' \in Seq(Slot) /\ Len(slots') = Len(slots) /\ slots'[s] = x
  BY <1>4, <1>6, <1>8, <1>9
<1>11. \A t \in 1 .. Len(slots) : t # s => slots'[t] = slots[t]
  BY <1>4, <1>6, <1>8, <1>9
<1> QED BY <1>7, <1>9, <1>10, <1>11 DEF Emptied

\* remove keeps the invariant.
LEMMA RemoveIInv ==
    ASSUME StoreIInv, NEW s \in Live, RemoveAnchor([slot |-> s, gen |-> slots[s].gen])
    PROVE  StoreIInv'
<1>1. PICK id : id = [slot |-> s, gen |-> slots[s].gen]
  OBVIOUS
<1>2. id.slot = s /\ id.gen = slots[s].gen
  BY <1>1
<1>4. /\ free' = Append(free, s) /\ stale' = TRUE /\ dead' = dead \cup {id}
      /\ text' = text /\ order' = order /\ shift' = shift /\ edits' = edits
  BY <1>1, <1>2 DEF RemoveAnchor
<1>5. StorePart(text, slots, order, shift, stale) /\ FreePart(slots, free) /\ DeadPart(slots, dead) /\ edits \in Nat
  BY DEF StoreIInv
<1>6. slots \in Seq(Slot)
  BY <1>5 DEF StorePart
<1>12. Emptied(slots, slots', s)
  BY RemoveEmpties
<1>13. StorePart(text, slots', order, shift, TRUE)
  BY <1>5, <1>12, EmptyStore
<1>14. FreePart(slots', Append(free, s))
  BY <1>5, <1>6, <1>12, EmptyFree
<1>15. DeadPart(slots', dead \cup {[slot |-> s, gen |-> slots[s].gen]})
  BY <1>5, <1>6, <1>12, EmptyDead
<1>16. StorePart(text', slots', order', shift', stale')
  BY <1>4, <1>13
<1>17. FreePart(slots', free') /\ DeadPart(slots', dead') /\ edits' \in Nat
  BY <1>1, <1>4, <1>5, <1>14, <1>15
<1> QED BY <1>16, <1>17 DEF StoreIInv
----------------------------------------------------------------------------
(* One change.                                                             *)

\* The changes of the model are what EditList::new and check_bounds accept.
LEMMA ChangeFacts ==
    ASSUME edits \in Nat, text \in Strings(MaxLen), NEW n \in 1 .. MaxChanged - edits, NEW list \in Changes[text][n]
    PROVE  /\ text \in Str /\ Canon(list, Len(text)) /\ Len(list) \in Nat
           /\ ApplyTo(list, text) \in Strings(MaxLen)
<1>0. MaxLen \in Nat /\ MaxDel \in Nat /\ MaxChanged \in Nat
  BY StoreAssumption, MaxLenAssumption
<1>1. text \in Str /\ Len(text) \in Nat
  BY <1>0, StringsFacts
<1>2. n \in 1 .. MaxChanged /\ n \in Nat
  BY <1>0
<1>3. PICK len : len = Len(text)
  OBVIOUS
<1>4. /\ list \in [1 .. n -> ChangeEdits(len)] /\ Disjoint(list) /\ len + TotalDelta(list) <= MaxLen
  BY <1>2, <1>3 DEF Changes
<1>5. ASSUME NEW e \in ChangeEdits(len) PROVE e \in Edit /\ End(e) <= len /\ e.pos <= len
  <2>1. e \in [pos : 0 .. len, del : 0 .. MaxDel, ins : Inserts] /\ End(e) <= len
    BY DEF ChangeEdits
  <2>2. e.ins \in Str
    BY <2>1, TextsAssumption DEF Str, Bytes
  <2>3. e = [pos |-> e.pos, del |-> e.del, ins |-> e.ins] /\ e.pos \in Nat /\ e.del \in Nat
    BY <2>1, <1>0, <1>1, <1>3
  <2>4. e.pos <= len
    BY <2>1, <1>1, <1>3
  <2> QED BY <2>1, <2>2, <2>3, <2>4 DEF Edit
<1>6. list \in [1 .. n -> Edit]
  BY <1>4, <1>5
<1>7. list \in Seq(Edit) /\ Len(list) = n
  BY <1>2, <1>6
<1>8. InBounds(list, len)
  BY <1>4, <1>5, <1>7 DEF InBounds
<1>9. Canon(list, len)
  BY <1>4, <1>7, <1>8 DEF Canon
<1>10. ApplyTo(list, text) \in Str /\ Len(ApplyTo(list, text)) = len + TotalDelta(list)
  BY <1>1, <1>3, <1>9, AppliedLen
<1>11. PICK b : b = ApplyTo(list, text)
  OBVIOUS
<1>12. b \in Str /\ Len(b) <= MaxLen
  BY <1>4, <1>10, <1>11
<1>13. b \in Strings(MaxLen)
  BY <1>0, <1>12, StringsFacts
<1> QED BY <1>1, <1>2, <1>3, <1>7, <1>9, <1>11, <1>13

LEMMA AlikeSteps ==
    ASSUME NEW x, NEW y, NEW z, Alike(x, y), Alike(y, z)
    PROVE  Alike(x, z)
BY DEF Alike

LEMMA AlikeFree ==
    ASSUME NEW sl \in Seq(Slot), NEW new \in Seq(Slot), Alike(sl, new), NEW fr, FreePart(sl, fr)
    PROVE  FreePart(new, fr)
<1>1. Len(new) = Len(sl) /\ LiveIn(new) = LiveIn(sl)
  BY AlikeFacts
<1> QED BY <1>1 DEF FreePart

LEMMA AlikeDead ==
    ASSUME NEW sl \in Seq(Slot), NEW new \in Seq(Slot), Alike(sl, new), NEW de, DeadPart(sl, de)
    PROVE  DeadPart(new, de)
<1>1. Len(new) = Len(sl) /\ LiveIn(new) = LiveIn(sl)
  BY AlikeFacts
<1>2. \A s \in 1 .. Len(sl) : new[s].gen = sl[s].gen
  BY DEF Alike
<1> QED BY <1>1, <1>2 DEF DeadPart

\* A store whose order is current is a part of a state.
LEMMA ShapedStore ==
    ASSUME NEW tx \in Strings(MaxLen), NEW end, Shaped(end),
           \A r \in 1 .. Len(end.order) : AtRank(end, r) \in 0 .. Len(tx),
           NEW st \in BOOLEAN, ~st => InOrder(end, Len(tx))
    PROVE  StorePart(tx, end.slots, end.order, end.shift, st)
<1>1. PICK sl, od, sh : sl = end.slots /\ od = end.order /\ sh = end.shift
  OBVIOUS
<1>2. sl \in Seq(Slot) /\ od \in Seq(Nat) /\ sh \in Seq(Int) /\ Len(od) \in Nat /\ Len(od) <= MaxIds
  BY <1>1, ShapedFacts
<1>3. \A r \in 1 .. Len(od) : od[r] \in 1 .. Len(sl) /\ sl[od[r]].anchor.rank = r
  BY <1>1, ShapedFacts
<1>4. od \in Seq(1 .. Len(sl))
  BY <1>2, <1>3, SeqWiden
<1>5. Len(sh) = Len(od) /\ \A s \in LiveIn(sl) : \E r \in 1 .. Len(od) : od[r] = s
  BY <1>1 DEF Shaped
<1>6. ASSUME NEW s \in LiveIn(sl) PROVE sl[s].anchor.rank <= Len(od) /\ OffsetIn(sh, sl[s].anchor) \in 0 .. Len(tx)
  <2>1. PICK r \in 1 .. Len(od) : od[r] = s
    BY <1>5
  <2>2. PICK a : a = sl[s].anchor
    OBVIOUS
  <2>3. a.rank = r
    BY <2>1, <2>2, <1>3
  <2>4. a.rank # 0 /\ a.rank <= Len(od)
    BY <2>1, <2>3, <1>2
  <2>5. OffsetIn(sh, a) = a.offset + ShiftAt(sh, r)
    BY <2>3, <2>4 DEF OffsetIn
  <2>6. AtRank(end, r) = a.offset + ShiftAt(sh, r)
    BY <2>1, <2>2, <1>1 DEF AtRank
  <2> QED BY <2>1, <2>2, <2>4, <2>5, <2>6, <1>1
<1>7. end = StoreOf(sl, od, sh)
  BY <1>1 DEF Shaped, StoreValue, StoreOf
<1>8. ~st => Shaped(StoreOf(sl, od, sh)) /\ InOrder(StoreOf(sl, od, sh), Len(tx))
  BY <1>7
<1>9. StorePart(tx, sl, od, sh, st)
  BY <1>2, <1>4, <1>5, <1>6, <1>8 DEF StorePart
<1> QED BY <1>1, <1>9

\* What a change starts from has a current order.
LEMMA CurrentStore ==
    ASSUME StoreIInv, Live # {}, NEW st, st = IF stale THEN Normalized(Store) ELSE Store
    PROVE  /\ Shaped(st) /\ InOrder(st, Len(text)) /\ Alike(slots, st.slots) /\ Len(st.order) >= 1
           /\ SameAnchors(slots, st.slots) /\ \A s \in Live : PlaceIn(st, s) = OffsetOf(slots[s].anchor)
<1>1. StorePart(text, slots, order, shift, stale) /\ DeadPart(slots, dead)
  BY DEF StoreIInv
<1>2. slots \in Seq(Slot) /\ text \in Strings(MaxLen) /\ stale \in BOOLEAN
  BY <1>1 DEF StorePart
<1>3. Len(text) \in Nat /\ MaxIds \in Nat
  BY <1>2, StringsFacts, MaxLenAssumption, StoreAssumption
<1>4. IsFiniteSet(Live) /\ Cardinality(Live) \in Nat
  BY <1>2, LiveFinite, LiveIs
<1>5. Cardinality(Live) >= 1
  <2>1. Cardinality(Live) # 0
    BY <1>4, FS_EmptySet
  <2> QED BY <2>1, <1>4
<1>6. /\ Shaped(st) /\ InOrder(st, Len(text)) /\ Alike(slots, st.slots) /\ Len(st.order) = Cardinality(Live)
      /\ SameAnchors(slots, st.slots) /\ \A s \in Live : PlaceIn(st, s) = OffsetOf(slots[s].anchor)
  <2>1. CASE stale
    <3>1. Cardinality(Live) <= MaxIds
      <4>1. PICK l, c : l = Cardinality(Live) /\ c = Cardinality(dead)
        OBVIOUS
      <4>2. l \in Nat /\ c \in Nat /\ l + c <= MaxIds
        BY <4>1, <1>1, <1>4, LiveIs, FS_CardinalityType DEF DeadPart
      <4> QED BY <4>1, <4>2, <1>3
    <3>2. \A s \in Live : OffsetOf(slots[s].anchor) \in 0 .. Len(text)
      BY <1>1, LiveIs, OffsetIs DEF StorePart
    <3>3. st = Normalized(Store)
      BY <2>1
    <3> QED BY <3>1, <3>2, <3>3, <1>2, <1>3, NormalizedFacts
  <2>2. CASE ~stale
    <3>1. st = StoreOf(slots, order, shift)
      BY <2>2, StoreIs
    <3>2. Shaped(st) /\ InOrder(st, Len(text))
      BY <2>2, <3>1, <1>1 DEF StorePart
    <3>3. st.slots = slots
      BY <3>1 DEF StoreOf
    <3>4. Alike(slots, st.slots)
      BY <3>3 DEF Alike
    <3>5. Len(st.order) = Cardinality(Live)
      BY <3>2, <3>3, ShapedCount, LiveIs
    <3>6. SameAnchors(slots, st.slots)
      BY <3>3 DEF SameAnchors
    <3>7. ASSUME NEW s \in Live PROVE PlaceIn(st, s) = OffsetOf(slots[s].anchor)
      <4>1. PICK r \in 1 .. Len(st.order) : st.order[r] = s
        BY <3>2, <3>3, LiveIs DEF Shaped
      <4>2. slots[s].anchor.rank = r /\ r # 0
        <5>1. st.slots[st.order[r]].anchor.rank = r
          BY <3>2, ShapedFacts
        <5>2. r # 0
          BY <3>2, ShapedFacts
        <5> QED BY <5>1, <5>2, <4>1, <3>3
      <4>3. st.shift = shift
        BY <3>1 DEF StoreOf
      <4> QED BY <4>2, <4>3, <3>3 DEF PlaceIn, OffsetOf
    <3> QED BY <3>2, <3>4, <3>5, <3>6, <3>7
  <2> QED BY <2>1, <2>2, <1>2
<1> QED BY <1>5, <1>6

\* Without anchors the store stays as it is.
LEMMA EmptyStays ==
    ASSUME NEW tx, NEW sl, NEW od, NEW sh, NEW st, StorePart(tx, sl, od, sh, st), LiveIn(sl) = {},
           NEW new \in Strings(MaxLen)
    PROVE  StorePart(new, sl, od, sh, st)
<1>1. /\ sl \in Seq(Slot) /\ od \in Seq(1 .. Len(sl)) /\ sh \in Seq(Int) /\ st \in BOOLEAN
      /\ Len(od) <= MaxIds /\ Len(sh) = Len(od)
  BY DEF StorePart
<1>2. ASSUME ~st PROVE Shaped(StoreOf(sl, od, sh)) /\ InOrder(StoreOf(sl, od, sh), Len(new))
  <2>1. PICK c : c = StoreOf(sl, od, sh)
    OBVIOUS
  <2>2. Shaped(c) /\ c.slots = sl
    BY <2>1, <1>2 DEF StorePart, StoreOf
  <2>3. Len(c.order) \in Nat /\ \A r \in 1 .. Len(c.order) : c.order[r] \in LiveIn(sl)
    BY <2>2, ShapedFacts
  <2>4. Len(c.order) = 0
    BY <2>3
  <2>5. InOrder(c, Len(new))
    BY <2>4 DEF InOrder
  <2> QED BY <2>1, <2>2, <2>5
<1> QED BY <1>1, <1>2 DEF StorePart

\* apply keeps the invariant.
LEMMA ApplyIInv ==
    ASSUME StoreIInv, NEW n \in 1 .. MaxChanged - edits, NEW list \in Changes[text][n], ApplyChange(list)
    PROVE  StoreIInv'
<1>1. StorePart(text, slots, order, shift, stale) /\ FreePart(slots, free) /\ DeadPart(slots, dead) /\ edits \in Nat
  BY DEF StoreIInv
<1>2. slots \in Seq(Slot) /\ text \in Strings(MaxLen)
  BY <1>1 DEF StorePart
<1>3. PICK new, st : new = ApplyTo(list, text) /\ st = IF stale THEN Normalized(Store) ELSE Store
  OBVIOUS
<1>4. PICK plan : plan = Planned(st, text, new, list)
  OBVIOUS
<1>5. PICK end : end = Placed(st, plan, TotalDelta(list))
  OBVIOUS
<1>6. /\ edits' = edits + Len(list) /\ text' = new /\ free' = free /\ dead' = dead
      /\ IF Live = {} THEN slots' = slots /\ order' = order /\ shift' = shift /\ stale' = stale
         ELSE /\ slots' = end.slots /\ order' = end.order /\ shift' = end.shift
              /\ stale' = Crossed(end, plan)
  BY <1>3, <1>4, <1>5 DEF ApplyChange
<1>7. text \in Str /\ Canon(list, Len(text)) /\ Len(list) \in Nat /\ new \in Strings(MaxLen)
  BY <1>1, <1>2, <1>3, ChangeFacts
<1>8. edits' \in Nat
  BY <1>1, <1>6, <1>7
<1>9. CASE Live = {}
  <2>1. slots' = slots /\ order' = order /\ shift' = shift /\ stale' = stale
    BY <1>6, <1>9
  <2>2. LiveIn(slots) = {}
    BY <1>9, LiveIs
  <2>3. StorePart(new, slots, order, shift, stale)
    BY <2>2, <1>1, <1>7, EmptyStays
  <2>4. StorePart(text', slots', order', shift', stale') /\ FreePart(slots', free') /\ DeadPart(slots', dead')
    BY <2>1, <2>3, <1>1, <1>6
  <2> QED BY <2>4, <1>8 DEF StoreIInv
<1>10. CASE Live # {}
  <2>1. slots' = end.slots /\ order' = end.order /\ shift' = end.shift /\ stale' = Crossed(end, plan)
    BY <1>6, <1>10
  <2>2. Shaped(st) /\ InOrder(st, Len(text)) /\ Alike(slots, st.slots) /\ Len(st.order) >= 1
    BY <1>3, <1>10, CurrentStore
  <2>3. /\ Shaped(end) /\ Alike(st.slots, end.slots)
        /\ \A r \in 1 .. Len(end.order) : AtRank(end, r) \in 0 .. Len(new)
        /\ ~Crossed(end, plan) => InOrder(end, Len(new))
    BY <2>2, <1>3, <1>4, <1>5, <1>7, SweptStore
  <2>4. Crossed(end, plan) \in BOOLEAN
    BY DEF Crossed
  <2>5. StorePart(new, end.slots, end.order, end.shift, Crossed(end, plan))
    BY <2>3, <2>4, <1>7, ShapedStore
  <2>6. Alike(slots, end.slots)
    BY <2>2, <2>3, AlikeSteps
  <2>7. end.slots \in Seq(Slot)
    BY <2>3, ShapedFacts
  <2>8. FreePart(end.slots, free)
    BY <2>6, <2>7, <1>1, <1>2, AlikeFree
  <2>9. DeadPart(end.slots, dead)
    BY <2>6, <2>7, <1>1, <1>2, AlikeDead
  <2>10. StorePart(text', slots', order', shift', stale') /\ FreePart(slots', free') /\ DeadPart(slots', dead')
    BY <2>1, <2>5, <2>8, <2>9, <1>6
  <2> QED BY <2>10, <1>8 DEF StoreIInv
<1> QED BY <1>9, <1>10
----------------------------------------------------------------------------
(* The store's invariant and what follows from it.                         *)

LEMMA StoreInitIInv == StoreInit => StoreIInv
<1> SUFFICES ASSUME StoreInit PROVE StoreIInv
  OBVIOUS
<1>1. /\ text \in Texts /\ slots = <<>> /\ free = <<>> /\ order = <<>> /\ shift = <<>>
      /\ stale = FALSE /\ edits = 0 /\ dead = {}
  BY DEF StoreInit
<1>2. text \in Strings(MaxLen) /\ MaxIds \in Nat
  BY <1>1, TextsAssumption, StoreAssumption
<1>3. LiveIn(<<>>) = {}
  BY DEF LiveIn
<1>4. PICK c : c = StoreOf(<<>>, <<>>, <<>>)
  OBVIOUS
<1>5. c.slots = <<>> /\ c.order = <<>> /\ c.shift = <<>> /\ c \in StoreValue
  BY <1>4 DEF StoreOf, StoreValue
<1>6. Len(c.order) = 0 /\ Len(c.shift) = 0
  BY <1>5
<1>7. Shaped(c)
  BY <1>2, <1>3, <1>5, <1>6 DEF Shaped
<1>8. InOrder(c, Len(text))
  BY <1>6 DEF InOrder
<1>9. StorePart(text, <<>>, <<>>, <<>>, FALSE)
  BY <1>2, <1>3, <1>4, <1>7, <1>8 DEF StorePart
<1>10. FreePart(<<>>, <<>>)
  BY DEF FreePart
<1>11. IsFiniteSet({}) /\ Cardinality({}) = 0
  BY FS_EmptySet
<1>12. DeadPart(<<>>, {})
  <2>1. Len(<<>>) = 0 /\ 0 + 0 = 0 /\ 0 <= MaxIds /\ 0 <= 0
    BY <1>2
  <2>2. Cardinality(LiveIn(<<>>)) = 0
    BY <1>3, <1>11
  <2>3. \A t \in 1 .. Len(<<>>) : FALSE
    BY <2>1
  <2> QED BY <2>1, <2>2, <2>3, <1>11 DEF DeadPart
<1> QED BY <1>1, <1>9, <1>10, <1>12 DEF StoreIInv

LEMMA StoreNextIInv == StoreIInv /\ [StoreNext]_storeVars => StoreIInv'
<1> SUFFICES ASSUME StoreIInv, [StoreNext]_storeVars PROVE StoreIInv'
  OBVIOUS
<1>1. ASSUME NEW o \in 0 .. Len(text), NEW k \in Kinds, Insert(o, k) PROVE StoreIInv'
  BY <1>1, InsertIInv
<1>2. ASSUME NEW s \in Live, RemoveAnchor([slot |-> s, gen |-> slots[s].gen]) PROVE StoreIInv'
  BY <1>2, RemoveIInv
<1>3. ASSUME NEW n \in 1 .. MaxChanged - edits, NEW list \in Changes[text][n], ApplyChange(list) PROVE StoreIInv'
  BY <1>3, ApplyIInv
<1>4. CASE UNCHANGED storeVars
  <2>1. /\ edits' = edits /\ text' = text /\ slots' = slots /\ order' = order /\ shift' = shift
        /\ stale' = stale /\ free' = free /\ dead' = dead
    BY <1>4 DEF storeVars
  <2>2. StorePart(text, slots, order, shift, stale) /\ FreePart(slots, free) /\ DeadPart(slots, dead) /\ edits \in Nat
    BY DEF StoreIInv
  <2>3. StorePart(text', slots', order', shift', stale') /\ FreePart(slots', free') /\ DeadPart(slots', dead') /\ edits' \in Nat
    BY <2>1, <2>2
  <2> QED BY <2>3 DEF StoreIInv
<1> QED BY <1>1, <1>2, <1>3, <1>4 DEF StoreNext

\* A list without repetition has as many members as entries.
LEMMA ListCount ==
    ASSUME NEW fr \in Seq(Nat), \A i, j \in 1 .. Len(fr) : fr[i] = fr[j] => i = j
    PROVE  Cardinality(ToSet(fr)) = Len(fr)
<1>1. PICK N, S : N = Len(fr) /\ S = ToSet(fr)
  OBVIOUS
<1>2. N \in Nat /\ fr = [i \in 1 .. N |-> fr[i]]
  BY <1>1, EntryOf
<1>3. S = {fr[i] : i \in 1 .. N}
  BY <1>1 DEF ToSet
<1>4. PICK h : h = [r \in 1 .. N |-> fr[r]]
  OBVIOUS
<1>5. h \in Bijection(1 .. N, S)
  <2>1. h \in [1 .. N -> S]
    BY <1>3, <1>4
  <2>2. \A q, r \in 1 .. N : h[q] = h[r] => q = r
    BY <1>1, <1>4
  <2>3. \A s \in S : \E r \in 1 .. N : h[r] = s
    BY <1>3, <1>4
  <2> QED BY <2>1, <2>2, <2>3 DEF Bijection, Injection, IsInjective, Surjection
<1>6. IsFiniteSet(1 .. N) /\ Cardinality(1 .. N) = N
  <2>1. 1 \in Int /\ N \in Int
    BY <1>2
  <2>2. IsFiniteSet(1 .. N) /\ Cardinality(1 .. N) = IF 1 > N THEN 0 ELSE N - 1 + 1
    BY <2>1, FS_Interval
  <2> QED BY <2>2, <1>2
<1>7. Cardinality(S) = Cardinality(1 .. N)
  BY <1>5, <1>6, FS_Bijection DEF ExistsBijection
<1> QED BY <1>1, <1>6, <1>7

LEMMA IInvOrdered == StoreIInv => StoreIsOrdered
<1> SUFFICES ASSUME StoreIInv PROVE StoreIsOrdered
  OBVIOUS
<1>1. StorePart(text, slots, order, shift, stale) /\ FreePart(slots, free) /\ DeadPart(slots, dead)
  BY DEF StoreIInv
<1>2. /\ text \in Strings(MaxLen) /\ slots \in Seq(Slot) /\ order \in Seq(1 .. Len(slots))
      /\ shift \in Seq(Int) /\ stale \in BOOLEAN /\ Len(shift) = Len(order)
  BY <1>1 DEF StorePart
<1>3. PICK l, c, m : l = Cardinality(LiveIn(slots)) /\ c = Cardinality(dead) /\ m = Len(slots)
  OBVIOUS
<1>4. l \in Nat /\ c \in Nat /\ m \in Nat /\ MaxIds \in Nat /\ l + c <= MaxIds /\ m <= l + c
  BY <1>1, <1>2, <1>3, LiveFinite, FS_CardinalityType, KFacts DEF DeadPart
<1>5. m <= MaxIds /\ c <= MaxIds
  BY <1>4
<1>6. slots \in Seq([gen : 0 .. MaxIds, anchor : Anchor \cup {NoAnchor}])
  <2>1. ASSUME NEW s \in 1 .. Len(slots) PROVE slots[s] \in [gen : 0 .. MaxIds, anchor : Anchor \cup {NoAnchor}]
    <3>1. slots[s] \in Slot
      BY <1>2, EntryOf
    <3>2. slots[s].gen <= c
      BY <1>1, <1>3 DEF DeadPart
    <3>3. PICK x : x = slots[s]
      OBVIOUS
    <3>4. x = [gen |-> x.gen, anchor |-> x.anchor] /\ x.gen \in Nat /\ x.anchor \in Anchor \cup {NoAnchor}
      BY <3>1, <3>3 DEF Slot
    <3>5. PICK g : g = x.gen
      OBVIOUS
    <3>6. g \in Nat /\ g <= c
      BY <3>2, <3>3, <3>4, <3>5
    <3>7. g \in 0 .. MaxIds
      BY <3>6, <1>4, <1>5
    <3> QED BY <3>3, <3>4, <3>5, <3>7
  <2> QED BY <2>1, <1>2, SeqWiden
<1>7. \A s \in Live : slots[s].anchor.rank <= Len(order) /\ OffsetOf(slots[s].anchor) \in 0 .. Len(text)
  BY <1>1, LiveIs, OffsetIs DEF StorePart
<1>8. free \in Seq(Nat) /\ \A i \in 1 .. Len(free) : free[i] \in 1 .. Len(slots) /\ free[i] \notin Live
  BY <1>1, LiveIs DEF FreePart
<1>9. free \in Seq(1 .. Len(slots))
  BY <1>8, SeqWiden
<1>10. StoreTypes
  BY <1>2, <1>3, <1>5, <1>6, <1>7, <1>9 DEF StoreTypes
<1>11. ToSet(free) = 1 .. Len(slots) \ Live
  <2>1. ToSet(free) = {free[i] : i \in 1 .. Len(free)}
    BY DEF ToSet
  <2>2. \A s \in 1 .. Len(slots) : s \notin Live => \E i \in 1 .. Len(free) : free[i] = s
    BY <1>1, LiveIs DEF FreePart
  <2> QED BY <2>1, <2>2, <1>8
<1>12. Cardinality(ToSet(free)) = Len(free)
  BY <1>1, <1>8, ListCount DEF FreePart
<1>13. ASSUME ~stale
       PROVE  /\ Len(order) = Cardinality(Live)
              /\ \A r \in 1 .. Len(order) : order[r] \in Live /\ slots[order[r]].anchor.rank = r
              /\ \A r \in 1 .. Len(order) - 1 : AtRank(Store, r) <= AtRank(Store, r + 1)
  <2>1. Shaped(Store) /\ InOrder(Store, Len(text))
    BY <1>1, <1>13, StoreIs DEF StorePart
  <2>2. Store.slots = slots /\ Store.order = order
    BY DEF Store
  <2>3. Len(order) = Cardinality(Live)
    BY <2>1, <2>2, ShapedCount, LiveIs
  <2>4. \A r \in 1 .. Len(order) : order[r] \in Live /\ slots[order[r]].anchor.rank = r
    BY <2>1, <2>2, LiveIs DEF Shaped
  <2>5. \A r \in 1 .. Len(order) - 1 : AtRank(Store, r) <= AtRank(Store, r + 1)
    BY <2>1, <2>2 DEF InOrder
  <2> QED BY <2>3, <2>4, <2>5
<1> QED BY <1>2, <1>7, <1>10, <1>11, <1>12, <1>13 DEF StoreIsOrdered

LEMMA IInvDead == StoreIInv => RemovedStaysDead
<1> SUFFICES ASSUME StoreIInv, NEW id \in dead PROVE ~IsLive(id)
  BY DEF RemovedStaysDead
<1>1. id.slot \in 1 .. Len(slots) /\ id.gen \in Nat /\ id.gen < slots[id.slot].gen
  BY DEF StoreIInv, DeadPart
<1>2. slots \in Seq(Slot)
  BY DEF StoreIInv, StorePart
<1>3. slots[id.slot] \in Slot
  BY <1>1, <1>2, EntryOf
<1>4. slots[id.slot].gen \in Nat
  BY <1>3 DEF Slot
<1>5. PICK g, h : g = id.gen /\ h = slots[id.slot].gen
  OBVIOUS
<1>6. g # h
  BY <1>1, <1>4, <1>5
<1> QED BY <1>5, <1>6 DEF IsLive

\* assert_invariants of anchor.rs holds of every state a store can reach, for
\* any texts, any edits and any kinds of anchors.
THEOREM StoreStaysOrdered == StoreSpec => []StoreIsOrdered
<1>1. StoreInit => StoreIInv
  BY StoreInitIInv
<1>2. StoreIInv /\ [StoreNext]_storeVars => StoreIInv'
  BY StoreNextIInv
<1>3. StoreIInv => StoreIsOrdered
  BY IInvOrdered
<1> QED BY <1>1, <1>2, <1>3, PTL DEF StoreSpec

\* An AnchorId that was removed never reads or removes the anchor that has its
\* slot now, however often the slot is reused.
THEOREM RemovedIdsStayDead == StoreSpec => []RemovedStaysDead
<1>1. StoreInit => StoreIInv
  BY StoreInitIInv
<1>2. StoreIInv /\ [StoreNext]_storeVars => StoreIInv'
  BY StoreNextIInv
<1>3. StoreIInv => RemovedStaysDead
  BY IInvDead
<1> QED BY <1>1, <1>2, <1>3, PTL DEF StoreSpec
----------------------------------------------------------------------------
(* The byte rule, one edit at a time and batched.                          *)

LEMMA AloneDef ==
    ASSUME NEW list, Len(list) \in Nat, NEW o, NEW bias, NEW f, f = Alone(list, o, bias)
    PROVE  f[0] = [at |-> o, inside |-> FALSE, shift |-> 0] /\ \A n \in 1 .. Len(list) : f[n] = MetAlone(f[n - 1], list[n], bias)
<1> DEFINE N == Len(list)
           bas == [at |-> o, inside |-> FALSE, shift |-> 0]
           stp(x, n) == MetAlone(x, list[n], bias)
           val(g, n) == IF n = 0 THEN bas ELSE stp(g[n - 1], n)
           Rec(g, m) == g = [n \in 0 .. m |-> val(g, n)]
           P == {m \in Nat : \E g : Rec(g, m)}
<1>0. N \in Nat
  BY DEF N
<1> HIDE DEF N, stp, bas
<1>1. 0 \in P
  <2> DEFINE h == [n \in 0 .. 0 |-> bas]
  <2>1. Rec(h, 0)
    OBVIOUS
  <2> QED BY <2>1
<1>2. ASSUME NEW m \in P PROVE m + 1 \in P
  <2>0. m \in Nat
    OBVIOUS
  <2>1. PICK g : Rec(g, m)
    OBVIOUS
  <2>2. \A n \in 0 .. m : g[n] = val(g, n)
    BY <2>1
  <2> DEFINE h == [n \in 0 .. m + 1 |-> IF n = m + 1 THEN val(g, n) ELSE g[n]]
  <2>3. ASSUME NEW n \in 0 .. m + 1 PROVE h[n] = val(h, n)
    <3>1. h[n] = val(g, n)
      BY <2>2
    <3>2. n # 0 => n - 1 \in 0 .. m
      BY <2>0
    <3>3. \A j \in 0 .. m : h[j] = g[j]
      BY <2>0
    <3> HIDE DEF h
    <3> QED BY <3>1, <3>2, <3>3
  <2>4. h = [n \in 0 .. m + 1 |-> h[n]]
    OBVIOUS
  <2> HIDE DEF h, val
  <2>5. Rec(h, m + 1)
    <3>1. [n \in 0 .. m + 1 |-> h[n]] = [n \in 0 .. m + 1 |-> val(h, n)]
      BY <2>3
    <3> QED BY <3>1, <2>4, Zenon
  <2> HIDE DEF Rec
  <2> QED BY <2>5
<1>3. P = Nat
  <2>1. P \in SUBSET Nat
    OBVIOUS
  <2> HIDE DEF P
  <2> QED BY <1>1, <1>2, <2>1, Induct
<1>4. \E g : Rec(g, N)
  <2>1. N \in P
    BY <1>0, <1>3
  <2> HIDE DEF Rec
  <2> QED BY <2>1
<1>5. f = CHOOSE g : Rec(g, N)
  BY DEF Alone, N, stp, bas
<1>6. Rec(f, N)
  BY <1>4, <1>5
<1>7. f[0] = bas
  BY <1>6, <1>0
<1>8. \A n \in 1 .. N : f[n] = stp(f[n - 1], n)
  BY <1>6, <1>0
<1> QED BY <1>7, <1>8 DEF N, stp, bas

\* An edit that the batched rule skips leaves the anchor alone as well.
MeetAlike(a, b, e, d, bias) ==
    \E x \in Int, y \in BOOLEAN :
        /\ MeetEdit([at |-> a, inside |-> b], e, d, bias) = [at |-> x, inside |-> y]
        /\ MetAlone([at |-> a, inside |-> b, shift |-> d], e, bias)
             = [at |-> x, inside |-> y, shift |-> d + Delta(e)]

LEMMA AloneStep ==
    ASSUME NEW a \in Int, NEW b \in BOOLEAN, NEW e \in Edit, NEW d \in Int, NEW bias
    PROVE  MeetAlike(a, b, e, d, bias)
<1>1. PICK p, w, u : p = e.pos + d /\ w = e.del /\ u = Len(e.ins)
  OBVIOUS
<1>2. p \in Int /\ w \in Nat /\ u \in Nat
  <2>1. e.pos \in Nat /\ e.del \in Nat /\ Len(e.ins) \in Nat
    BY DEF Edit, Str
  <2> QED BY <2>1, <1>1
<1>3. PICK m : m = MapOne(a, p, w, u, bias)
  OBVIOUS
<1>4. MeetEdit([at |-> a, inside |-> b], e, d, bias)
        = IF a < p THEN [at |-> a, inside |-> b] ELSE [at |-> m.at, inside |-> b \/ m.inside]
  BY <1>1, <1>3 DEF MeetEdit
<1>5. MetAlone([at |-> a, inside |-> b, shift |-> d], e, bias)
        = [at |-> m.at, inside |-> b \/ m.inside, shift |-> d + Delta(e)]
  BY <1>1, <1>3 DEF MetAlone
<1>6. CASE a < p
  <2>1. m = [at |-> a, inside |-> FALSE]
    BY <1>2, <1>3, <1>6 DEF MapOne
  <2>2. m.at = a /\ (b \/ m.inside) = b
    BY <2>1
  <2> QED BY <2>2, <1>4, <1>5, <1>6 DEF MeetAlike
<1>7. CASE ~(a < p) /\ a > p + w
  <2>1. m = [at |-> a - w + u, inside |-> FALSE]
    BY <1>2, <1>3, <1>7 DEF MapOne
  <2>2. m.at = a - w + u /\ (b \/ m.inside) = b /\ a - w + u \in Int
    BY <2>1, <1>2
  <2> QED BY <2>2, <1>4, <1>5, <1>7 DEF MeetAlike
<1>8. CASE ~(a < p) /\ ~(a > p + w)
  <2>1. m = [at |-> IF bias = "after" THEN p + u ELSE p, inside |-> p < a /\ a < p + w]
    BY <1>2, <1>3, <1>8 DEF MapOne
  <2>2. m.at \in Int /\ (b \/ m.inside) \in BOOLEAN
    BY <2>1, <1>2
  <2> QED BY <2>2, <1>4, <1>5, <1>8 DEF MeetAlike
<1> QED BY <1>6, <1>7, <1>8

\* map_byte_inside gives what meeting every edit in turn gives.
LEMMA AloneFacts ==
    ASSUME NEW len \in Nat, NEW list, Canon(list, len), NEW o \in 0 .. len, NEW bias
    PROVE  /\ OneByOne(list, o, bias).at = MapByteInside(list, o, bias).at
           /\ OneByOne(list, o, bias).inside = MapByteInside(list, o, bias).inside
<1>0. PICK N \in Nat : N = Len(list)
  BY DEF Canon
<1>1. PICK i, D : i = Cardinality({n \in 1 .. N : End(list[n]) < o}) /\ D = Deltas(list)
  OBVIOUS
<1>2. i \in 0 .. N /\ \A n \in 1 .. N : End(list[n]) < o <=> n <= i
  <2>1. o \in Int
    OBVIOUS
  <2>2. i = Cardinality({n \in 1 .. Len(list) : End(list[n]) < o})
    BY <1>0, <1>1
  <2>3. Ended(list, o, i)
    BY <2>1, <2>2, EndedFacts
  <2> QED BY <2>3, <1>0 DEF Ended
<1>3. D[0] = 0 /\ \A n \in 0 .. N : D[n] \in Int
  BY <1>0, <1>1, DeltasFacts
<1>4. \A n \in 1 .. N : D[n] = D[n - 1] + Delta(list[n])
  BY <1>0, <1>1, DeltasDef
<1>5. PICK f, g : f = MetInTurn(list, i, o, bias) /\ g = Alone(list, o, bias)
  OBVIOUS
<1>6. /\ f[i] = [at |-> o + D[i], inside |-> FALSE]
      /\ \A n \in i + 1 .. N : f[n] = MeetEdit(f[n - 1], list[n], D[n - 1], bias)
  <2>1. Len(list) \in Nat /\ i \in 0 .. Len(list)
    BY <1>0, <1>2
  <2>2. MetIs(list, i, o, bias, f)
    BY <2>1, <1>5, MetDef
  <2> QED BY <2>2, <1>0, <1>1 DEF MetIs
<1>7. /\ g[0] = [at |-> o, inside |-> FALSE, shift |-> 0]
      /\ \A n \in 1 .. N : g[n] = MetAlone(g[n - 1], list[n], bias)
  BY <1>0, <1>5, AloneDef
<1> DEFINE Past0(n) == n <= i => g[n] = [at |-> o + D[n], inside |-> FALSE, shift |-> D[n]]
           Same(n) == n >= i => \E x \in Int, y \in BOOLEAN :
                         f[n] = [at |-> x, inside |-> y] /\ g[n] = [at |-> x, inside |-> y, shift |-> D[n]]
           P == {n \in Nat : n <= N => Past0(n) /\ Same(n)}
<1>8. ASSUME NEW n \in Nat, n <= N, Past0(n) PROVE n = i => Same(n)
  <2>1. o + D[i] \in Int
    BY <1>2, <1>3
  <2> QED BY <2>1, <1>6, <1>8
<1>9. 0 \in P
  <2>1. Past0(0)
    BY <1>3, <1>7
  <2>2. 0 >= i => 0 = i
    BY <1>2
  <2>3. 0 <= N /\ 0 \in Nat
    OBVIOUS
  <2> HIDE DEF Past0
  <2>4. 0 = i => Same(0)
    BY <2>1, <2>3, <1>8
  <2>5. Same(0)
    BY <2>2, <2>4
  <2> HIDE DEF Same
  <2> QED BY <2>1, <2>5
<1>10. ASSUME NEW n \in P PROVE n + 1 \in P
  <2> SUFFICES ASSUME n + 1 <= N PROVE Past0(n + 1) /\ Same(n + 1)
    OBVIOUS
  <2>1. n \in Nat /\ n <= N /\ Past0(n) /\ Same(n) /\ n + 1 \in 1 .. N /\ (n + 1) - 1 = n /\ n \in 0 .. N /\ n + 1 \in 0 .. N
    <3>1. n \in Nat /\ n <= N
      OBVIOUS
    <3>2. Past0(n) /\ Same(n)
      BY <3>1
    <3> HIDE DEF Past0, Same
    <3> QED BY <3>1, <3>2
  <2>2. PICK e, d, k : e = list[n + 1] /\ d = D[n] /\ k = n + 1
    OBVIOUS
  <2>3. e \in Edit /\ d \in Int /\ D[k] = d + Delta(e) /\ k \in Nat /\ k \in 1 .. N
    BY <2>1, <2>2, <1>0, <1>3, <1>4, EditFacts
  <2>4. g[k] = MetAlone(g[n], e, bias)
    BY <2>1, <2>2, <1>7
  <2>5. Past0(k)
    <3>1. SUFFICES ASSUME k <= i PROVE g[k] = [at |-> o + D[k], inside |-> FALSE, shift |-> D[k]]
      OBVIOUS
    <3>2. n <= i /\ End(e) < o
      BY <3>1, <2>1, <2>2, <2>3, <1>2
    <3>3. g[n] = [at |-> o + d, inside |-> FALSE, shift |-> d]
      BY <3>2, <2>1, <2>2
    <3>4. PICK p, w, u, x : p = e.pos + d /\ w = e.del /\ u = Len(e.ins) /\ x = o + d
      OBVIOUS
    <3>5. e.pos \in Nat /\ e.del \in Nat /\ Len(e.ins) \in Nat /\ e.pos + e.del < o
      BY <3>2, <2>3 DEF Edit, Str, End
    <3>6. p \in Int /\ w \in Nat /\ u \in Nat /\ x \in Int /\ x > p + w /\ ~(x < p)
      <4>1. PICK q : q = e.pos
        OBVIOUS
      <4> QED BY SMTT(30), <4>1, <3>4, <3>5, <2>3
    <3>7. MapOne(x, p, w, u, bias) = [at |-> x - w + u, inside |-> FALSE]
      BY <3>6 DEF MapOne
    <3>8. g[k] = [at |-> x - w + u, inside |-> FALSE, shift |-> d + Delta(e)]
      <4>1. g[k] = MetAlone([at |-> x, inside |-> FALSE, shift |-> d], e, bias)
        BY <3>3, <3>4, <2>4
      <4>2. PICK m : m = MapOne(x, p, w, u, bias)
        OBVIOUS
      <4>3. MetAlone([at |-> x, inside |-> FALSE, shift |-> d], e, bias)
              = [at |-> m.at, inside |-> FALSE \/ m.inside, shift |-> d + Delta(e)]
        BY <3>4, <4>2 DEF MetAlone
      <4>4. m.at = x - w + u /\ (FALSE \/ m.inside) = FALSE
        BY <3>7, <4>2
      <4> QED BY <4>1, <4>3, <4>4
    <3>9. x - w + u = o + D[k]
      BY <3>4, <3>6, <2>3 DEF Delta
    <3> QED BY <3>8, <3>9, <2>3
  <2>6. Same(k)
    <3>1. CASE n >= i
      <4>1. PICK x \in Int, y \in BOOLEAN :
               f[n] = [at |-> x, inside |-> y] /\ g[n] = [at |-> x, inside |-> y, shift |-> D[n]]
        BY <3>1, <2>1
      <4>2. k \in i + 1 .. N
        BY <3>1, <2>1, <2>2, <1>2
      <4>3. f[k] = MeetEdit([at |-> x, inside |-> y], e, d, bias)
        BY <4>1, <4>2, <2>1, <2>2, <1>6
      <4>4. g[k] = MetAlone([at |-> x, inside |-> y, shift |-> d], e, bias)
        BY <4>1, <2>2, <2>4
      <4>5. \E x2 \in Int, y2 \in BOOLEAN :
               f[k] = [at |-> x2, inside |-> y2] /\ g[k] = [at |-> x2, inside |-> y2, shift |-> D[k]]
        <5>1. PICK x2 \in Int, y2 \in BOOLEAN :
                 /\ MeetEdit([at |-> x, inside |-> y], e, d, bias) = [at |-> x2, inside |-> y2]
                 /\ MetAlone([at |-> x, inside |-> y, shift |-> d], e, bias)
                      = [at |-> x2, inside |-> y2, shift |-> d + Delta(e)]
          <6>1. MeetAlike(x, y, e, d, bias)
            BY <4>1, <2>3, AloneStep
          <6> QED BY <6>1 DEF MeetAlike
        <5>2. f[k] = [at |-> x2, inside |-> y2] /\ g[k] = [at |-> x2, inside |-> y2, shift |-> D[k]]
          BY <5>1, <4>3, <4>4, <2>3
        <5> QED BY <5>2
      <4> QED BY <4>5
    <3>2. CASE ~(n >= i)
      <4>1. k >= i => k = i
        BY <3>2, <2>1, <2>2, <1>2
      <4>2. k <= N
        BY <2>3
      <4> HIDE DEF Past0, Same
      <4>3. k = i => Same(k)
        BY <4>2, <2>3, <2>5, <1>8
      <4>4. ~(k >= i) => Same(k)
        BY DEF Same
      <4> QED BY <4>1, <4>3, <4>4
    <3> QED BY <3>1, <3>2
  <2> HIDE DEF Past0, Same
  <2> QED BY <2>2, <2>5, <2>6
<1>11. P = Nat
  <2>1. P \in SUBSET Nat
    OBVIOUS
  <2> HIDE DEF P
  <2> QED BY <1>9, <1>10, <2>1, Induct
<1>12. Same(N) /\ N >= i
  <2>0. N <= N /\ N >= i
    BY <1>2
  <2>1. N \in P /\ N <= N /\ N >= i
    BY <2>0, <1>11
  <2> HIDE DEF Past0, Same
  <2> QED BY <2>1
<1>13. PICK x \in Int, y \in BOOLEAN :
          f[N] = [at |-> x, inside |-> y] /\ g[N] = [at |-> x, inside |-> y, shift |-> D[N]]
  BY <1>12
<1>14. MapByteInside(list, o, bias) = f[N]
  BY <1>0, <1>1, <1>5 DEF MapByteInside
<1>15. OneByOne(list, o, bias) = g[N]
  BY <1>0, <1>5 DEF OneByOne
<1> QED BY <1>13, <1>14, <1>15
----------------------------------------------------------------------------
(* The sweep and the rule.                                                 *)

\* Every live anchor is where the rule alone puts it, under the flag the rule
\* gives it, whatever shifts are pending.
RulePart(sl, sh, ru) ==
    /\ ru \in Seq([at : Int, gone : BOOLEAN]) /\ Len(ru) = Len(sl)
    /\ \A s \in LiveIn(sl) : OffsetIn(sh, sl[s].anchor) = ru[s].at /\ sl[s].anchor.invalidated = ru[s].gone

RuleInv == RulePart(slots, shift, rule)

\* map_anchor reads no more of an anchor than its kind.
LEMMA MapsByKind ==
    ASSUME NEW x, NEW y, x.kind = y.kind, NEW o, NEW a, NEW b, NEW list
    PROVE  MapAnchor(x, o, a, b, list) = MapAnchor(y, o, a, b, list)
BY DEF MapAnchor

\* The rule and map_anchor send an anchor to the same place.
LEMMA RuleIs ==
    ASSUME NEW s, slots[s].anchor.kind \in Track, NEW a \in Str, NEW list, Canon(list, Len(a)), NEW b,
           rule[s].at \in 0 .. Len(a),
           NEW w, w = MapAnchor(slots[s].anchor, rule[s].at, a, b, list)
    PROVE  RuleOf(s, a, b, list) = [at |-> w.to, gone |-> Flagged(rule[s].gone, w.gone)]
<1>1. PICK an, o : an = slots[s].anchor /\ o = rule[s].at
  OBVIOUS
<1>2. CASE an.kind.track = "line"
  <2>1. RuleOf(s, a, b, list) = [at |-> w.to, gone |-> rule[s].gone \/ w.gone]
    BY <1>1, <1>2, Zenon DEF RuleOf
  <2> QED BY <2>1 DEF Flagged
<1>3. CASE an.kind.track # "line"
  <2>1. an.kind.track = "byte" /\ an.kind.side \in {"before", "after"}
    BY <1>1, <1>3 DEF Track
  <2>2. PICK x, y, p : x = OneByOne(list, o, an.kind.side) /\ y = MapByteInside(list, o, an.kind.side) /\ p = an.kind.policy
    OBVIOUS
  <2>3. x.at = y.at /\ x.inside = y.inside
    <3>1. PICK len \in Nat : len = Len(a)
      BY DEF Str
    <3> QED BY <3>1, <2>1, <2>2, <1>1, AloneFacts
  <2>4. KeptByte(x, p) = KeptByte(y, p)
    BY <2>3 DEF KeptByte
  <2>5. w = KeptByte(y, p)
    BY <2>1, <2>2, <1>1 DEF MapAnchor
  <2>6. RuleOf(s, a, b, list) = [at |-> KeptByte(x, p).to, gone |-> rule[s].gone \/ KeptByte(x, p).gone]
    BY <2>2, <1>1, <1>3, Zenon DEF RuleOf
  <2> QED BY <2>4, <2>5, <2>6 DEF Flagged
<1> QED BY <1>2, <1>3

LEMMA RuleInit == StoreInit => RuleInv
<1> SUFFICES ASSUME StoreInit PROVE RuleInv
  OBVIOUS
<1>1. slots = <<>> /\ rule = <<>>
  BY DEF StoreInit
<1>2. LiveIn(<<>>) = {}
  BY DEF LiveIn
<1> QED BY <1>1, <1>2 DEF RuleInv, RulePart

LEMMA RuleInsert ==
    ASSUME StoreIInv, RuleInv, NEW o \in 0 .. Len(text), NEW k \in Kinds, Insert(o, k)
    PROVE  RuleInv'
<1>1. PICK a : a = [offset |-> o, kind |-> k, invalidated |-> FALSE, rank |-> 0]
  OBVIOUS
<1>2. PICK s : s = IF free = <<>> THEN Len(slots) + 1 ELSE Last(free)
  OBVIOUS
<1>3. PICK x : x = [at |-> o, gone |-> FALSE]
  OBVIOUS
<1>4. shift' = shift /\ rule' = IF free = <<>> THEN Append(rule, x) ELSE [rule EXCEPT ![s] = x]
  BY <1>2, <1>3 DEF Insert
<1>5. Filled(slots, slots', s, a) /\ (free # <<>> => Len(slots') = Len(slots))
  BY <1>1, <1>2, InsertFills
<1>6. slots \in Seq(Slot) /\ a \in Anchor
  <2>1. o \in Int
    OBVIOUS
  <2> QED BY <2>1, <1>1 DEF StoreIInv, StorePart, Anchor
<1>7. /\ LiveIn(slots') = LiveIn(slots) \cup {s} /\ s \notin LiveIn(slots) /\ s \in 1 .. Len(slots')
      /\ Len(slots) \in Nat /\ slots'[s].anchor = a
      /\ \A t \in 1 .. Len(slots') : t # s => t \in 1 .. Len(slots) /\ slots'[t] = slots[t]
  BY <1>5, <1>6, FilledFacts DEF Filled
<1>8. /\ rule \in Seq([at : Int, gone : BOOLEAN]) /\ Len(rule) = Len(slots)
      /\ \A t \in LiveIn(slots) : OffsetIn(shift, slots[t].anchor) = rule[t].at /\ slots[t].anchor.invalidated = rule[t].gone
  BY DEF RuleInv, RulePart
<1>9. x \in [at : Int, gone : BOOLEAN]
  BY <1>3
<1>10. /\ rule' \in Seq([at : Int, gone : BOOLEAN]) /\ Len(rule') = Len(slots') /\ rule'[s] = x
       /\ \A t \in 1 .. Len(slots) : t # s => rule'[t] = rule[t]
  <2>1. CASE free = <<>>
    <3>1. s = Len(rule) + 1 /\ rule' = Append(rule, x) /\ Len(rule) \in Nat
      BY <2>1, <1>2, <1>4, <1>7, <1>8
    <3>2. /\ rule' \in Seq([at : Int, gone : BOOLEAN]) /\ Len(rule') = Len(rule) + 1 /\ rule'[s] = x
          /\ \A t \in 1 .. Len(rule) : rule'[t] = rule[t]
      BY <3>1, <1>8, <1>9
    <3>3. Len(slots') = Len(slots) + 1
      BY <3>1, <1>5, <1>7, <1>8 DEF Filled
    <3> QED BY <3>2, <3>3, <1>8
  <2>2. CASE free # <<>>
    <3>1. s \in 1 .. Len(rule) /\ rule' = [rule EXCEPT ![s] = x] /\ Len(slots') = Len(slots)
      BY <2>2, <1>4, <1>5, <1>7, <1>8
    <3>2. /\ rule' \in Seq([at : Int, gone : BOOLEAN]) /\ Len(rule') = Len(rule) /\ rule'[s] = x
          /\ \A t \in 1 .. Len(rule) : t # s => rule'[t] = rule[t]
      BY <3>1, <1>8, <1>9
    <3> QED BY <3>1, <3>2, <1>8
  <2> QED BY <2>1, <2>2
<1>11. ASSUME NEW t \in LiveIn(slots')
       PROVE  OffsetIn(shift', slots'[t].anchor) = rule'[t].at /\ slots'[t].anchor.invalidated = rule'[t].gone
  <2>1. CASE t = s
    <3>1. OffsetIn(shift', a) = o
      BY <1>1 DEF OffsetIn
    <3>2. x.at = o /\ x.gone = a.invalidated
      BY <1>1, <1>3
    <3>3. slots'[t].anchor = a /\ rule'[t] = x
      BY <2>1, <1>7, <1>10
    <3> QED BY <3>1, <3>2, <3>3
  <2>2. CASE t # s
    <3>1. t \in LiveIn(slots) /\ t \in 1 .. Len(slots) /\ slots'[t] = slots[t]
      BY <2>2, <1>7 DEF LiveIn
    <3> QED BY <3>1, <2>2, <1>4, <1>8, <1>10
  <2> QED BY <2>1, <2>2
<1>12. RulePart(slots', shift', rule')
  BY <1>10, <1>11 DEF RulePart
<1> QED BY <1>12 DEF RuleInv

LEMMA RuleRemove ==
    ASSUME StoreIInv, RuleInv, NEW s \in Live, RemoveAnchor([slot |-> s, gen |-> slots[s].gen])
    PROVE  RuleInv'
<1>1. Emptied(slots, slots', s)
  BY RemoveEmpties
<1>2. slots \in Seq(Slot)
  BY DEF StoreIInv, StorePart
<1>3. LiveIn(slots') = LiveIn(slots) \ {s} /\ Len(slots') = Len(slots)
  BY <1>1, <1>2, EmptiedFacts DEF Emptied
<1>4. shift' = shift /\ rule' = rule
  BY DEF RemoveAnchor
<1>5. \A t \in LiveIn(slots') : t \in LiveIn(slots) /\ slots'[t] = slots[t]
  BY <1>1, <1>3 DEF Emptied, LiveIn
<1>6. RulePart(slots', shift', rule')
  BY <1>3, <1>4, <1>5 DEF RuleInv, RulePart
<1> QED BY <1>6 DEF RuleInv

LEMMA RuleApply ==
    ASSUME StoreIInv, RuleInv, NEW n \in 1 .. MaxChanged - edits, NEW list \in Changes[text][n], ApplyChange(list)
    PROVE  RuleInv'
<1>1. StorePart(text, slots, order, shift, stale) /\ edits \in Nat
  BY DEF StoreIInv
<1>2. slots \in Seq(Slot) /\ text \in Strings(MaxLen)
  BY <1>1 DEF StorePart
<1>3. PICK new, st : new = ApplyTo(list, text) /\ st = IF stale THEN Normalized(Store) ELSE Store
  OBVIOUS
<1>4. PICK plan : plan = Planned(st, text, new, list)
  OBVIOUS
<1>5. PICK end : end = Placed(st, plan, TotalDelta(list))
  OBVIOUS
<1>6. /\ rule' = [s \in 1 .. Len(rule) |-> IF s \in Live THEN RuleOf(s, text, new, list) ELSE rule[s]]
      /\ IF Live = {} THEN slots' = slots /\ shift' = shift
         ELSE slots' = end.slots /\ shift' = end.shift
  BY <1>3, <1>4, <1>5 DEF ApplyChange
<1>7. text \in Str /\ Canon(list, Len(text))
  BY <1>1, <1>2, ChangeFacts
<1>8. /\ rule \in Seq([at : Int, gone : BOOLEAN]) /\ Len(rule) = Len(slots)
      /\ \A t \in LiveIn(slots) : OffsetIn(shift, slots[t].anchor) = rule[t].at /\ slots[t].anchor.invalidated = rule[t].gone
  BY DEF RuleInv, RulePart
<1>9. PICK L : L = Len(slots)
  OBVIOUS
<1>10. L \in Nat /\ \A s \in 1 .. L : rule[s] \in [at : Int, gone : BOOLEAN]
  <2>1. L \in Nat
    BY <1>2, <1>9, EntryOf
  <2> QED BY <2>1, <1>8, <1>9, EntryOf
<1>11. CASE Live = {}
  <2>1. slots' = slots /\ shift' = shift
    BY <1>6, <1>11
  <2>2. rule' = [s \in 1 .. L |-> rule[s]]
    BY <1>6, <1>8, <1>9, <1>11
  <2>3. rule' \in Seq([at : Int, gone : BOOLEAN]) /\ Len(rule') = L
    BY <2>2, <1>10
  <2>4. LiveIn(slots') = {}
    BY <2>1, <1>11, LiveIs
  <2>5. RulePart(slots', shift', rule')
    BY <2>1, <2>3, <2>4, <1>9 DEF RulePart
  <2> QED BY <2>5 DEF RuleInv
<1>12. CASE Live # {}
  <2>1. slots' = end.slots /\ shift' = end.shift
    BY <1>6, <1>12
  <2>2. /\ Shaped(st) /\ InOrder(st, Len(text)) /\ Alike(slots, st.slots) /\ Len(st.order) >= 1
        /\ SameAnchors(slots, st.slots) /\ \A s \in Live : PlaceIn(st, s) = OffsetOf(slots[s].anchor)
    BY <1>3, <1>12, CurrentStore
  <2>3. PICK W : W = Where(st, text, new, list)
    OBVIOUS
  <2>4. Shaped(end) /\ Alike(st.slots, end.slots) /\ AllMoved(st, end, W)
    BY <2>2, <2>3, <1>3, <1>4, <1>5, <1>7, SweptStore
  <2>5. Alike(slots, end.slots) /\ end.slots \in Seq(Slot) /\ st.slots \in Seq(Slot)
    BY <2>2, <2>4, AlikeSteps, ShapedFacts
  <2>6. Len(end.slots) = L /\ LiveIn(end.slots) = LiveIn(slots) /\ Len(st.slots) = L
    BY <2>2, <2>5, <1>2, <1>9, AlikeFacts
  <2>7. ASSUME NEW s \in LiveIn(slots)
        PROVE  /\ s \in 1 .. L /\ rule'[s] = RuleOf(s, text, new, list)
               /\ RuleOf(s, text, new, list) = [at |-> OffsetIn(shift', slots'[s].anchor), gone |-> slots'[s].anchor.invalidated]
               /\ OffsetIn(shift', slots'[s].anchor) \in Int /\ slots'[s].anchor.invalidated \in BOOLEAN
    <3>1. /\ s \in Live /\ s \in 1 .. L /\ slots[s].anchor.kind \in Track
      BY <1>2, <1>9, LiveAnchor, LiveIs
    <3>2. PICK w : w = MapAnchor(slots[s].anchor, rule[s].at, text, new, list)
      OBVIOUS
    <3>3. rule[s].at = OffsetOf(slots[s].anchor) /\ rule[s].at \in 0 .. Len(text) /\ rule[s].gone = slots[s].anchor.invalidated
      BY <1>1, <1>8, OffsetIs DEF StorePart
    <3>4. RuleOf(s, text, new, list) = [at |-> w.to, gone |-> Flagged(rule[s].gone, w.gone)]
      BY <3>1, <3>2, <3>3, <1>7, RuleIs
    <3>5. W[s] = MapAnchor(st.slots[s].anchor, PlaceIn(st, s), text, new, list)
      BY <3>1, <2>3, <2>6 DEF Where
    <3>6. PlaceIn(st, s) = rule[s].at /\ st.slots[s].anchor.kind = slots[s].anchor.kind
          /\ st.slots[s].anchor.invalidated = rule[s].gone
      BY <3>1, <3>3, <2>2 DEF SameAnchors
    <3>7. W[s] = w
      BY <3>2, <3>5, <3>6, MapsByKind
    <3>8. PlaceIn(end, s) = w.to /\ end.slots[s].anchor.invalidated = Flagged(rule[s].gone, w.gone)
      BY <3>6, <3>7, <2>4, <2>6 DEF AllMoved
    <3>9. OffsetIn(end.shift, end.slots[s].anchor) = PlaceIn(end, s) /\ PlaceIn(end, s) \in Int
      <4>1. PICK r \in 1 .. Len(end.order) : end.order[r] = s
        BY <2>4, <2>6 DEF Shaped
      <4>2. Len(end.order) \in Nat /\ end.slots[end.order[r]].anchor.rank = r /\ AtRank(end, r) \in Int
        BY <2>4, ShapedFacts
      <4>3. r # 0 /\ PlaceIn(end, s) = AtRank(end, r)
        BY <4>1, <4>2, <2>4, WhereIs
      <4>4. OffsetIn(end.shift, end.slots[s].anchor) = PlaceIn(end, s)
        BY <4>1, <4>2, <4>3 DEF OffsetIn, PlaceIn
      <4> QED BY <4>2, <4>3, <4>4
    <3>10. end.slots[s].anchor.invalidated \in BOOLEAN
      <4>1. PICK sl : sl = end.slots
        OBVIOUS
      <4>2. sl[s].anchor.invalidated \in BOOLEAN
        BY <4>1, <2>5, <2>6, LiveAnchor
      <4> QED BY <4>1, <4>2
    <3>11. rule'[s] = RuleOf(s, text, new, list)
      BY <3>1, <1>6, <1>8, <1>9
    <3> QED BY <3>1, <3>4, <3>8, <3>9, <3>10, <3>11, <2>1
  <2>8. ASSUME NEW s \in 1 .. L PROVE rule'[s] \in [at : Int, gone : BOOLEAN]
    <3>1. CASE s \in LiveIn(slots)
      BY <3>1, <2>7
    <3>2. CASE s \notin LiveIn(slots)
      <4>1. rule'[s] = rule[s]
        BY <3>2, <1>6, <1>8, <1>9, LiveIs
      <4> QED BY <4>1, <1>10
    <3> QED BY <3>1, <3>2
  <2>9. rule' \in Seq([at : Int, gone : BOOLEAN]) /\ Len(rule') = L
    <3>1. PICK ru, T : ru = rule' /\ T = [at : Int, gone : BOOLEAN]
      OBVIOUS
    <3>2. ru = [s \in 1 .. L |-> ru[s]]
      BY <3>1, <1>6, <1>8, <1>9
    <3>3. \A s \in 1 .. L : ru[s] \in T
      BY <3>1, <2>8
    <3>4. ru \in [1 .. L -> T]
      BY <3>2, <3>3
    <3>5. ru \in Seq(T) /\ Len(ru) = L
      BY <3>4, <1>10
    <3> QED BY <3>1, <3>5
  <2>10. ASSUME NEW s \in LiveIn(slots')
         PROVE  OffsetIn(shift', slots'[s].anchor) = rule'[s].at /\ slots'[s].anchor.invalidated = rule'[s].gone
    <3>1. s \in LiveIn(slots)
      BY <2>1, <2>6
    <3>2. rule'[s] = [at |-> OffsetIn(shift', slots'[s].anchor), gone |-> slots'[s].anchor.invalidated]
      BY <3>1, <2>7
    <3> QED BY <3>2
  <2>11. RulePart(slots', shift', rule')
    BY <2>1, <2>6, <2>9, <2>10 DEF RulePart
  <2> QED BY <2>11 DEF RuleInv
<1> QED BY <1>11, <1>12

LEMMA RuleNext == StoreIInv /\ RuleInv /\ [StoreNext]_storeVars => RuleInv'
<1> SUFFICES ASSUME StoreIInv, RuleInv, [StoreNext]_storeVars PROVE RuleInv'
  OBVIOUS
<1>1. ASSUME NEW o \in 0 .. Len(text), NEW k \in Kinds, Insert(o, k) PROVE RuleInv'
  BY <1>1, RuleInsert
<1>2. ASSUME NEW s \in Live, RemoveAnchor([slot |-> s, gen |-> slots[s].gen]) PROVE RuleInv'
  BY <1>2, RuleRemove
<1>3. ASSUME NEW n \in 1 .. MaxChanged - edits, NEW list \in Changes[text][n], ApplyChange(list) PROVE RuleInv'
  BY <1>3, RuleApply
<1>4. CASE UNCHANGED storeVars
  <2>1. slots' = slots /\ shift' = shift /\ rule' = rule
    BY <1>4 DEF storeVars
  <2>2. RulePart(slots', shift', rule')
    BY <2>1 DEF RuleInv
  <2> QED BY <2>2 DEF RuleInv
<1> QED BY <1>1, <1>2, <1>3, <1>4 DEF StoreNext

\* The batched sweep of anchor.rs (merged regions, ranks, pending shifts, the
\* order rebuilt or kept) leaves every live anchor where map_anchor's rule
\* leaves it alone, one edit at a time, and under its flag, for any texts,
\* any lists of edits and any inserts and removes between them.
THEOREM SweepIsTheRule == StoreSpec => []SweepFollowsRule
<1>1. StoreInit => StoreIInv /\ RuleInv
  BY StoreInitIInv, RuleInit
<1>2. StoreIInv /\ RuleInv /\ [StoreNext]_storeVars => StoreIInv' /\ RuleInv'
  BY StoreNextIInv, RuleNext
<1>3. RuleInv => SweepFollowsRule
  BY LiveIs, OffsetIs DEF RuleInv, RulePart, SweepFollowsRule
<1> QED BY <1>1, <1>2, <1>3, PTL DEF StoreSpec
=============================================================================
