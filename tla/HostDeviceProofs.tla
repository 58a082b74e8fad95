-------------------------- MODULE HostDeviceProofs --------------------------
(***************************************************************************)
(* Proofs about the sending side of a host's device, for any number of     *)
(* queue pairs, windows, rates and messages.  First the list of queue      *)
(* pairs: what GetNextQindex leaves of it, and that the index it returns   *)
(* is that of the queue pair it found.  Then the device: every call of     *)
(* DequeueAndTransmit leaves it in good shape and with a wake-up due.      *)
(* Last the turns: how often others may go before a queue pair.            *)
(***************************************************************************)
EXTENDS HostDevice, FiniteSetTheorems, SequenceTheorems, WellFoundedInduction, TLAPS

(***************************************************************************)
(* Numbers.                                                                *)
(***************************************************************************)

LEMMA LeastNatural ==
    ASSUME NEW T, T \subseteq Nat, T # {}
    PROVE  \E n \in T : \A m \in T : n <= m
<1>1. IsWellFoundedOn(OpToRel(<, Nat), Nat)
  BY NatLessThanWellFounded
<1>2. \E n \in T : \A m \in T : ~ (<<m, n>> \in OpToRel(<, Nat))
  BY <1>1, WFMin
<1>3. PICK n \in T : \A m \in T : ~ (<<m, n>> \in OpToRel(<, Nat))
  BY <1>2
<1>4. \A m \in T : n <= m
  <2>1. TAKE m \in T
  <2>2. m \in Nat /\ n \in Nat
    OBVIOUS
  <2>3. m < n => <<m, n>> \in OpToRel(<, Nat)
    BY <2>2 DEF OpToRel
  <2>4. ~ (m < n)
    BY <1>3, <2>3
  <2> QED BY <2>2, <2>4
<1> QED BY <1>4

\* Integers that are all at least so much have a least one.
LEMMA MinOf ==
    ASSUME NEW T, T \subseteq Int, T # {}, NEW low \in Int, \A x \in T : low <= x
    PROVE  Min(T) \in T /\ \A y \in T : Min(T) <= y
<1> DEFINE U == {u \in Nat : u + low \in T}
<1>1. U \subseteq Nat /\ U # {}
  <2>1. PICK x \in T : TRUE
    OBVIOUS
  <2>2. x - low \in Nat /\ (x - low) + low = x
    BY <2>1
  <2> QED BY <2>1, <2>2
<1>2. PICK u \in U : \A v \in U : u <= v
  <2> HIDE DEF U
  <2> QED BY <1>1, LeastNatural
<1>3. u \in Nat /\ u + low \in T
  OBVIOUS
<1>4. ASSUME NEW y \in T PROVE u + low <= y
  <2>1. y - low \in Nat /\ (y - low) + low = y
    OBVIOUS
  <2>2. u <= y - low
    BY <1>2, <2>1
  <2> QED BY <1>3, <2>1, <2>2
<1>5. \E x \in T : \A y \in T : x <= y
  BY <1>3, <1>4
<1> QED BY <1>5 DEF Min

LEMMA MinOfNat ==
    ASSUME NEW T, T \subseteq Nat, T # {}
    PROVE  Min(T) \in T /\ \A y \in T : Min(T) <= y
<1>1. \E x \in T : \A y \in T : x <= y
  BY LeastNatural
<1> QED BY <1>1 DEF Min

LEMMA MaxOf ==
    ASSUME NEW T, \E x \in T : \A y \in T : x >= y
    PROVE  Max(T) \in T /\ \A y \in T : Max(T) >= y
BY DEF Max

LEMMA MaxOfTwo ==
    ASSUME NEW a \in Int, NEW b \in Int
    PROVE  Max({a, b}) = IF a <= b THEN b ELSE a
<1>1. \E x \in {a, b} : \A y \in {a, b} : x >= y
  OBVIOUS
<1>2. Max({a, b}) \in {a, b} /\ Max({a, b}) >= a /\ Max({a, b}) >= b
  BY <1>1, MaxOf
<1> QED BY <1>2

\* There is one way to write a number as a multiple and a rest.
LEMMA OneRemainder ==
    ASSUME NEW a \in Int, NEW b \in Nat \ {0}, NEW q \in Int, NEW r \in 0 .. b - 1,
           a = b * q + r
    PROVE  a % b = r
<1> DEFINE d == a \div b
           m == a % b
<1>1. d \in Int /\ m \in 0 .. b - 1 /\ a = b * d + m
  BY SMTT(60)
<1> HIDE DEF d, m
<1>2. b * q + r = b * d + m
  BY <1>1
<1>3. d = q
  <2>1. CASE d >= q + 1
    <3>1. b * d >= b * (q + 1)
      BY <1>1, <2>1, SMTT(60)
    <3>2. b * (q + 1) = b * q + b
      BY SMTT(60)
    <3>3. b * q \in Int /\ b * d \in Int
      BY <1>1
    <3> QED BY <1>1, <1>2, <3>1, <3>2, <3>3
  <2>2. CASE q >= d + 1
    <3>1. b * q >= b * (d + 1)
      BY <1>1, <2>2, SMTT(60)
    <3>2. b * (d + 1) = b * d + b
      BY <1>1, SMTT(60)
    <3>3. b * q \in Int /\ b * d \in Int
      BY <1>1
    <3> QED BY <1>1, <1>2, <3>1, <3>2, <3>3
  <2> QED BY <1>1, <2>1, <2>2
<1>4. b * q \in Int
  OBVIOUS
<1> QED BY <1>1, <1>2, <1>3, <1>4 DEF m

\* Counting on from r, b steps reach every rest.
LEMMA EveryRemainder ==
    ASSUME NEW b \in Nat \ {0}, NEW r \in Nat, NEW i \in 0 .. b - 1
    PROVE  \E k \in 1 .. b : (k + r) % b = i
<1> DEFINE d == (i - r) \div b
           m == (i - r) % b
<1>1. d \in Int /\ m \in 0 .. b - 1 /\ i - r = b * d + m
  BY SMTT(60)
<1> HIDE DEF d, m
<1>2. b * d \in Int /\ b * (-d) = -(b * d) /\ b * (1 - d) = b - b * d
  BY <1>1, SMTT(60)
<1>3. CASE m # 0
  <2>1. m + r = b * (-d) + i /\ m + r \in Int /\ -d \in Int
    BY <1>1, <1>2
  <2>2. (m + r) % b = i
    BY <2>1, OneRemainder
  <2> QED BY <1>1, <1>3, <2>2
<1>4. CASE m = 0
  <2>1. b + r = b * (1 - d) + i /\ b + r \in Int /\ 1 - d \in Int
    BY <1>1, <1>2, <1>4
  <2>2. (b + r) % b = i
    BY <2>1, OneRemainder
  <2> QED BY <2>2
<1> QED BY <1>3, <1>4

LEMMA Remainder ==
    ASSUME NEW a \in Int, NEW b \in Nat \ {0}
    PROVE  a % b \in 0 .. b - 1
BY SMTT(60)
-----------------------------------------------------------------------------
(***************************************************************************)
(* The elements of a set of indices, in their order.                       *)
(***************************************************************************)

Below(S, i) == {j \in S : j < i}

LEMMA BelowFinite ==
    ASSUME NEW S, IsFiniteSet(S), NEW i
    PROVE  IsFiniteSet(Below(S, i))
<1>1. Below(S, i) \in SUBSET S
  BY DEF Below
<1> QED BY <1>1, FS_Subset

LEMMA PlaceType ==
    ASSUME NEW S, IsFiniteSet(S), NEW i
    PROVE  Place(S, i) \in Nat
<1>1. IsFiniteSet(Below(S, i))
  BY BelowFinite
<1>2. Cardinality(Below(S, i)) \in Nat
  BY <1>1, FS_CardinalityType
<1> QED BY <1>2 DEF Place, Below

LEMMA PlaceStep ==
    ASSUME NEW S, S \subseteq Nat, IsFiniteSet(S), NEW i \in Nat
    PROVE  Place(S, i + 1) = IF i \in S THEN Place(S, i) + 1 ELSE Place(S, i)
<1> DEFINE B == Below(S, i)
<1>1. IsFiniteSet(B)
  BY BelowFinite
<1>2. i \notin B
  BY DEF Below
<1>3. CASE i \in S
  <2>1. Below(S, i + 1) = B \cup {i}
    <3>1. \A j \in S : j < i + 1 <=> (j < i \/ j = i)
      OBVIOUS
    <3>2. \A j : j \in Below(S, i + 1) <=> (j \in B \/ j = i)
      BY <1>3, <3>1 DEF Below
    <3> QED BY <3>2
  <2> HIDE DEF B
  <2>2. Cardinality(B \cup {i}) = Cardinality(B) + 1
    BY <1>1, <1>2, FS_AddElement
  <2>3. Place(S, i + 1) = Cardinality(Below(S, i + 1)) /\ Place(S, i) = Cardinality(B)
    BY DEF Place, Below, B
  <2> QED BY <1>3, <2>1, <2>2, <2>3
<1>4. CASE i \notin S
  <2>1. \A j \in S : j < i + 1 <=> j < i
    BY <1>4
  <2>2. {j \in S : j < i + 1} = {j \in S : j < i}
    BY <2>1
  <2> QED BY <1>4, <2>2 DEF Place
<1> QED BY <1>3, <1>4

\* A later index has a later place.
LEMMA PlaceGrows ==
    ASSUME NEW S, S \subseteq Nat, IsFiniteSet(S), NEW i \in S, NEW k \in Nat, i < k
    PROVE  Place(S, i) < Place(S, k)
<1>1. i \in Nat
  OBVIOUS
<1>2. Place(S, i + 1) = IF i \in S THEN Place(S, i) + 1 ELSE Place(S, i)
  BY <1>1, PlaceStep
<1>3. Below(S, i + 1) \in SUBSET Below(S, k)
  <2>1. \A j \in S : j < i + 1 => j < k
    BY <1>1
  <2> QED BY <2>1 DEF Below
<1>4. IsFiniteSet(Below(S, k))
  BY BelowFinite
<1>5. Cardinality(Below(S, i + 1)) <= Cardinality(Below(S, k))
  BY <1>3, <1>4, FS_Subset
<1>6. Place(S, i + 1) <= Place(S, k)
  BY <1>5 DEF Place, Below
<1>7. Place(S, i) \in Nat /\ Place(S, k) \in Nat
  BY PlaceType
<1> QED BY <1>2, <1>6, <1>7

LEMMA PlaceBound ==
    ASSUME NEW S, NEW n \in Nat, S \subseteq 0 .. n - 1
    PROVE  /\ IsFiniteSet(S) /\ S \subseteq Nat /\ Cardinality(S) \in Nat
           /\ Place(S, n) = Cardinality(S) /\ Place(S, 0) = 0
           /\ \A i \in S : Place(S, i) \in 0 .. Cardinality(S) - 1
<1>1. IsFiniteSet(S) /\ S \subseteq Nat
  <2>1. IsFiniteSet(0 .. n - 1)
    BY FS_Interval
  <2>2. S \in SUBSET (0 .. n - 1)
    OBVIOUS
  <2>3. IsFiniteSet(S)
    BY <2>1, <2>2, FS_Subset
  <2> QED BY <2>3
<1>2. Cardinality(S) \in Nat
  BY <1>1, FS_CardinalityType
<1>3. Place(S, n) = Cardinality(S)
  <2>1. \A j \in S : j < n
    BY <1>1
  <2>2. {j \in S : j < n} = S
    BY <2>1
  <2> QED BY <2>2 DEF Place
<1>4. Place(S, 0) = 0
  <2>1. \A j \in S : ~(j < 0)
    BY <1>1
  <2>2. {j \in S : j < 0} = {}
    BY <2>1
  <2> QED BY <2>2, FS_EmptySet DEF Place
<1>5. ASSUME NEW i \in S PROVE Place(S, i) \in 0 .. Cardinality(S) - 1
  <2>1. i < n
    BY <1>1
  <2>2. Place(S, i) < Place(S, n)
    BY <1>1, <2>1, PlaceGrows
  <2>3. Place(S, i) \in Nat
    BY <1>1, PlaceType
  <2> QED BY <1>2, <1>3, <2>2, <2>3
<1> QED BY <1>1, <1>2, <1>3, <1>4, <1>5

\* Every place is that of an index.
LEMMA PlaceTaken ==
    ASSUME NEW S, NEW n \in Nat, S \subseteq 0 .. n - 1, NEW c \in 0 .. Cardinality(S) - 1
    PROVE  \E i \in S : Place(S, i) = c
<1> DEFINE T == {k \in Nat : Place(S, k) > c}
<1>1. /\ IsFiniteSet(S) /\ S \subseteq Nat /\ Cardinality(S) \in Nat
      /\ Place(S, n) = Cardinality(S) /\ Place(S, 0) = 0
  BY PlaceBound
<1>2. n \in T
  BY <1>1
<1>3. PICK t \in T : \A m \in T : t <= m
  <2>1. T \subseteq Nat /\ T # {}
    BY <1>2
  <2> HIDE DEF T
  <2> QED BY <2>1, LeastNatural
<1>4. t \in Nat /\ Place(S, t) > c
  OBVIOUS
<1>5. t # 0
  BY <1>1, <1>4
<1> DEFINE u == t - 1
<1>6. u \in Nat /\ u \notin T /\ t = u + 1
  BY <1>3, <1>4, <1>5
<1>7. ~(Place(S, u) > c)
  BY <1>6
<1>8. Place(S, u) \in Nat
  BY <1>1, PlaceType
<1> HIDE DEF u
<1>9. Place(S, u + 1) = IF u \in S THEN Place(S, u) + 1 ELSE Place(S, u)
  BY <1>1, <1>6, PlaceStep
<1>10. Place(S, u + 1) > c
  BY <1>4, <1>6
<1>11. u \in S /\ Place(S, u) = c
  <2> HIDE DEF T
  <2> QED BY <1>1, <1>7, <1>8, <1>9, <1>10
<1> QED BY <1>11

\* The index at a place, as in Only.
IndexAt(S, k) == CHOOSE i \in S : Place(S, i) = k - 1

LEMMA IndexAtPlace ==
    ASSUME NEW S, NEW n \in Nat, S \subseteq 0 .. n - 1
    PROVE  /\ \A k \in 1 .. Cardinality(S) :
                 IndexAt(S, k) \in S /\ Place(S, IndexAt(S, k)) = k - 1
           /\ \A i \in S : IndexAt(S, Place(S, i) + 1) = i
<1>1. IsFiniteSet(S) /\ S \subseteq Nat /\ Cardinality(S) \in Nat
  BY PlaceBound
<1>2. ASSUME NEW k \in 1 .. Cardinality(S)
      PROVE  IndexAt(S, k) \in S /\ Place(S, IndexAt(S, k)) = k - 1
  <2>1. k - 1 \in 0 .. Cardinality(S) - 1
    BY <1>1
  <2>2. \E i \in S : Place(S, i) = k - 1
    BY <2>1, PlaceTaken
  <2> QED BY <2>2 DEF IndexAt
<1>3. ASSUME NEW i \in S PROVE IndexAt(S, Place(S, i) + 1) = i
  <2> DEFINE k == Place(S, i) + 1
             j == IndexAt(S, k)
  <2>1. Place(S, i) \in 0 .. Cardinality(S) - 1
    BY PlaceBound
  <2>2. k \in 1 .. Cardinality(S) /\ k - 1 = Place(S, i)
    BY <1>1, <2>1
  <2>3. j \in S /\ Place(S, j) = Place(S, i)
    BY <1>2, <2>2
  <2> HIDE DEF j
  <2>4. i \in Nat /\ j \in Nat
    BY <1>1, <2>3
  <2>5. i < j => Place(S, i) < Place(S, j)
    BY <1>1, <2>3, <2>4, PlaceGrows
  <2>6. j < i => Place(S, j) < Place(S, i)
    BY <1>1, <2>3, <2>4, PlaceGrows
  <2> QED BY <2>1, <2>3, <2>4, <2>5, <2>6 DEF j
<1> QED BY <1>2, <1>3

\* A list of different queue pairs.
List(s) == s \in Seq(QPs) /\ IsInjective(s)

\* A list of queue pairs at these indices.
DrawnFrom(s, n, S) == \A k \in 1 .. Len(s) : \E i \in S : s[k] = At(n, i)

\* What is left of a list: the queue pairs of the indices, each at its place.
LEMMA OnlyIsList ==
    ASSUME NEW STATE n, List(n.qps), NEW STATE S, S \subseteq 0 .. Len(n.qps) - 1
    PROVE  /\ List(Only(n, S)) /\ Len(Only(n, S)) = Cardinality(S)
           /\ DrawnFrom(Only(n, S), n, S)
           /\ \A i \in S : /\ Place(S, i) \in 0 .. Len(Only(n, S)) - 1
                          /\ Only(n, S)[Place(S, i) + 1] = At(n, i)
<1> DEFINE len == Len(n.qps)
           c == Cardinality(S)
           s == Only(n, S)
<1>1. /\ len \in Nat /\ c \in Nat /\ n.qps \in Seq(QPs)
      /\ \A i \in S : i \in 0 .. len - 1 /\ i + 1 \in 1 .. len /\ At(n, i) \in QPs
  <2>1. len \in Nat /\ n.qps \in Seq(QPs)
    BY DEF List
  <2>2. c \in Nat
    BY <2>1, PlaceBound
  <2>3. ASSUME NEW i \in S PROVE i \in 0 .. len - 1 /\ i + 1 \in 1 .. len /\ At(n, i) \in QPs
    <3>1. i \in 0 .. len - 1 /\ i + 1 \in 1 .. len
      BY <2>1
    <3> QED BY <2>1, <3>1 DEF At
  <2> QED BY <2>1, <2>2, <2>3
<1>2. /\ \A k \in 1 .. c : IndexAt(S, k) \in S /\ Place(S, IndexAt(S, k)) = k - 1
      /\ \A i \in S : IndexAt(S, Place(S, i) + 1) = i
  BY <1>1, IndexAtPlace
<1>3. s = [k \in 1 .. c |-> At(n, IndexAt(S, k))]
  BY DEF Only, IndexAt
<1>4. s \in [1 .. c -> QPs]
  BY <1>1, <1>2, <1>3
<1>5. s \in Seq(QPs) /\ Len(s) = c
  <2> HIDE DEF s, c
  <2>1. s \in UNION {[1 .. m -> QPs] : m \in Nat}
    BY <1>1, <1>4
  <2>2. s \in Seq(QPs)
    BY <2>1, SeqDef
  <2>3. 1 .. Len(s) = 1 .. c /\ Len(s) \in Nat
    BY <1>4, <2>2
  <2> QED BY <1>1, <2>2, <2>3
<1>6. \A k \in 1 .. c : s[k] = At(n, IndexAt(S, k))
  BY <1>3
<1> HIDE DEF s
<1>7. IsInjective(s)
  <2> SUFFICES ASSUME NEW a \in 1 .. c, NEW b \in 1 .. c, s[a] = s[b] PROVE a = b
    BY <1>4 DEF IsInjective
  <2>1. IndexAt(S, a) \in S /\ IndexAt(S, b) \in S /\ At(n, IndexAt(S, a)) = At(n, IndexAt(S, b))
    BY <1>2, <1>6
  <2>2. \A i, j \in 1 .. len : n.qps[i] = n.qps[j] => i = j
    BY <1>1 DEF List, IsInjective
  <2> DEFINE i == IndexAt(S, a)
             j == IndexAt(S, b)
  <2>3. i + 1 = j + 1
    <3> HIDE DEF i, j
    <3> QED BY <1>1, <2>1, <2>2 DEF At, i, j
  <2>4. i = j
    <3>1. i \in S /\ j \in S
      BY <2>1
    <3> HIDE DEF i, j
    <3>2. i \in Nat /\ j \in Nat
      BY <1>1, <3>1
    <3> QED BY <2>3, <3>2
  <2> QED BY <1>1, <1>2, <2>4
<1>8. DrawnFrom(s, n, S)
  BY <1>2, <1>5, <1>6 DEF DrawnFrom
<1>9. ASSUME NEW i \in S PROVE Place(S, i) \in 0 .. c - 1 /\ s[Place(S, i) + 1] = At(n, i)
  <2>1. Place(S, i) \in 0 .. c - 1
    BY <1>1, PlaceBound
  <2>2. Place(S, i) + 1 \in 1 .. c
    BY <1>1, <2>1
  <2> QED BY <1>2, <1>6, <2>1, <2>2
<1> QED BY <1>5, <1>7, <1>8, <1>9 DEF List, s
-----------------------------------------------------------------------------
(***************************************************************************)
(* GetNextQindex.                                                          *)
(***************************************************************************)

LEMMA ScannedType ==
    ASSUME NEW STATE n, List(n.qps), n.rrlast \in Nat, n.qps # << >>, NEW k \in Nat
    PROVE  Scanned(n, k) \in 0 .. Len(n.qps) - 1
<1>1. Len(n.qps) \in Nat \ {0} /\ k + n.rrlast \in Int
  BY DEF List
<1> QED BY <1>1, Remainder DEF Scanned

\* What is found may send; if nothing is, no queue pair of the list may.
LEMMA FoundMay ==
    ASSUME NEW STATE n, NEW STATE p, List(n.qps), n.rrlast \in Nat
    PROVE  /\ Found(n, p) \in 0 .. Len(n.qps)
           /\ Found(n, p) # 0 =>
                 /\ Scanned(n, Found(n, p)) \in 0 .. Len(n.qps) - 1
                 /\ May(n, p[At(n, Scanned(n, Found(n, p)))])
           /\ Found(n, p) = 0 =>
                 \A i \in 1 .. Len(n.qps) : ~May(n, p[n.qps[i]])
<1> DEFINE len == Len(n.qps)
           hits == {k \in 1 .. len : May(n, p[At(n, Scanned(n, k))])}
<1>1. len \in Nat
  BY DEF List
<1>2. Found(n, p) = IF hits = {} THEN 0 ELSE Min(hits)
  BY DEF Found
<1>3. CASE hits = {}
  <2>1. Found(n, p) = 0
    BY <1>2, <1>3
  <2>2. ASSUME NEW i \in 1 .. len PROVE ~May(n, p[n.qps[i]])
    <3>1. len \in Nat \ {0} /\ i - 1 \in 0 .. len - 1
      BY <1>1
    <3>2. PICK k \in 1 .. len : (k + n.rrlast) % len = i - 1
      <4> HIDE DEF len
      <4> QED BY <3>1, EveryRemainder
    <3>3. At(n, Scanned(n, k)) = n.qps[i]
      BY <1>1, <3>2 DEF At, Scanned
    <3> QED BY <1>3, <3>3
  <2> QED BY <1>1, <2>1, <2>2
<1>4. CASE hits # {}
  <2>1. hits \subseteq Nat
    BY <1>1
  <2>2. Min(hits) \in hits
    <3> HIDE DEF hits
    <3> QED BY <1>4, <2>1, MinOfNat
  <2>3. Found(n, p) \in hits
    BY <1>2, <1>4, <2>2
  <2>4. Found(n, p) \in 1 .. len /\ May(n, p[At(n, Scanned(n, Found(n, p)))])
    BY <2>3
  <2>5. Found(n, p) \in Nat /\ n.qps # << >>
    BY <1>1, <2>4
  <2>6. Scanned(n, Found(n, p)) \in 0 .. len - 1
    BY <2>5, ScannedType
  <2> QED BY <1>1, <2>4, <2>6
<1> QED BY <1>3, <1>4

LEMMA ClearedFinished ==
    ASSUME NEW STATE n, NEW STATE p, List(n.qps), n.rrlast \in Nat
    PROVE  /\ Cleared(n, p) \subseteq 0 .. Len(n.qps) - 1
           /\ \A i \in Cleared(n, p) : IsFinished(p[At(n, i)])
           /\ Cleared(n, p) # {} => /\ Min(Cleared(n, p)) \in Cleared(n, p)
                                   /\ \A i \in Cleared(n, p) : Min(Cleared(n, p)) <= i
<1> DEFINE c == Cleared(n, p)
           upto == IF Found(n, p) = 0 THEN Len(n.qps) ELSE Found(n, p) - 1
<1>1. Len(n.qps) \in Nat /\ upto \in 0 .. Len(n.qps)
  BY FoundMay DEF List
<1>2. c = {i \in {Scanned(n, k) : k \in 1 .. upto} :
               ~Willing(n, p[At(n, i)]) /\ IsFinished(p[At(n, i)])}
  BY DEF Cleared
<1>3. \A k \in 1 .. upto : Scanned(n, k) \in 0 .. Len(n.qps) - 1
  <2> HIDE DEF upto
  <2> SUFFICES ASSUME NEW k \in 1 .. upto PROVE Scanned(n, k) \in 0 .. Len(n.qps) - 1
    OBVIOUS
  <2>1. k \in Nat /\ n.qps # << >>
    BY <1>1
  <2> QED BY <2>1, ScannedType
<1>4. c \subseteq 0 .. Len(n.qps) - 1 /\ \A i \in c : IsFinished(p[At(n, i)])
  <2> HIDE DEF c, upto
  <2> QED BY <1>2, <1>3
<1>5. c # {} => Min(c) \in c /\ \A i \in c : Min(c) <= i
  <2>1. c \subseteq Nat
    BY <1>1, <1>4
  <2> HIDE DEF c
  <2> QED BY <2>1, MinOfNat
<1> QED BY <1>4, <1>5

\* Only finished queue pairs leave the list.
LEMMA KeptIsList ==
    ASSUME NEW STATE n, NEW STATE p, List(n.qps), n.rrlast \in Nat
    PROVE  /\ List(Kept(n, p))
           /\ \A k \in 1 .. Len(Kept(n, p)) :
                 \E j \in 1 .. Len(n.qps) : Kept(n, p)[k] = n.qps[j]
<1>1. CASE Cleared(n, p) = {}
  BY <1>1 DEF Kept
<1>2. CASE Cleared(n, p) # {}
  <2> DEFINE S == Staying(n, p)
  <2>1. S \subseteq 0 .. Len(n.qps) - 1 /\ Len(n.qps) \in Nat
    BY DEF Staying, List
  <2>2. Kept(n, p) = Only(n, S)
    BY <1>2 DEF Kept
  <2> HIDE DEF S
  <2>3. S \subseteq 0 .. Len(n.qps) - 1
    BY <2>1
  <2>4. List(Only(n, S))
    BY <2>3, OnlyIsList
  <2>5. DrawnFrom(Only(n, S), n, S)
    BY <2>3, OnlyIsList
  <2>6. \A i \in S : i + 1 \in 1 .. Len(n.qps) /\ At(n, i) = n.qps[i + 1]
    BY <2>1 DEF At
  <2> QED BY <2>2, <2>4, <2>5, <2>6 DEF DrawnFrom
<1> QED BY <1>1, <1>2

\* The index returned is that of the queue pair that was found, wherever those
\* that left stood.
LEMMA NewIndexRight ==
    ASSUME NEW STATE n, NEW STATE p, List(n.qps), n.rrlast \in Nat,
           NEW STATE res, res \in 0 .. Len(n.qps) - 1, ~IsFinished(p[At(n, res)])
    PROVE  /\ NewIndex(n, p, res) \in 0 .. Len(Kept(n, p)) - 1
           /\ Kept(n, p)[NewIndex(n, p, res) + 1] = At(n, res)
<1>1. CASE Cleared(n, p) = {}
  BY <1>1 DEF Kept, NewIndex, At
<1>2. CASE Cleared(n, p) # {}
  <2> DEFINE S == Staying(n, p)
             f == Min(Cleared(n, p))
             len == Len(n.qps)
             later == {i \in f + 1 .. res - 1 : ~IsFinished(p[At(n, i)])}
  <2>1. len \in Nat /\ f \in 0 .. len - 1 /\ IsFinished(p[At(n, f)])
    BY <1>2, ClearedFinished DEF List
  <2>2. S = {i \in 0 .. len - 1 : i < f \/ ~IsFinished(p[At(n, i)])}
    BY DEF Staying
  <2>3. Kept(n, p) = Only(n, S)
    BY <1>2 DEF Kept
  <2>4. NewIndex(n, p, res) = IF res <= f THEN res ELSE f + Cardinality(later)
    BY <1>2 DEF NewIndex
  <2>5. S \subseteq 0 .. len - 1 /\ res \in S
    BY <2>2
  <2> HIDE DEF S, f
  <2>6. /\ Place(S, res) \in 0 .. Len(Only(n, S)) - 1
        /\ Only(n, S)[Place(S, res) + 1] = At(n, res)
    BY <2>5, OnlyIsList
  <2>7. CASE res <= f
    <3>1. Below(S, res) = 0 .. res - 1
      <4>1. \A i : i \in Below(S, res) <=> i \in 0 .. res - 1
        BY <2>1, <2>2, <2>7 DEF Below
      <4> QED BY <4>1
    <3>2. Cardinality(0 .. res - 1) = res
      BY <2>1, FS_Interval
    <3>3. Place(S, res) = res
      BY <3>1, <3>2 DEF Place, Below
    <3> QED BY <2>3, <2>4, <2>6, <2>7, <3>3
  <2>8. CASE res > f
    <3>1. Below(S, res) = (0 .. f - 1) \cup later
      <4>1. ASSUME NEW i \in Below(S, res) PROVE i \in (0 .. f - 1) \cup later
        <5>1. i \in 0 .. len - 1 /\ i < res /\ (i < f \/ ~IsFinished(p[At(n, i)]))
          BY <2>2, <4>1 DEF Below
        <5>2. CASE i < f
          BY <2>1, <5>1, <5>2
        <5>3. CASE ~(i < f)
          <6>1. i # f
            BY <2>1, <5>1, <5>3
          <6>2. i \in f + 1 .. res - 1
            BY <2>1, <5>1, <5>3, <6>1
          <6> QED BY <5>1, <5>3, <6>2
        <5> QED BY <5>2, <5>3
      <4>2. ASSUME NEW i \in 0 .. f - 1 PROVE i \in Below(S, res)
        BY <2>1, <2>2, <2>8 DEF Below
      <4>3. ASSUME NEW i \in later PROVE i \in Below(S, res)
        BY <2>1, <2>2, <2>8 DEF Below
      <4> QED BY <4>1, <4>2, <4>3
    <3>2. IsFiniteSet(0 .. f - 1) /\ Cardinality(0 .. f - 1) = f
      <4>1. 0 \in Int /\ f - 1 \in Int
        BY <2>1
      <4>2. /\ IsFiniteSet(0 .. f - 1)
            /\ Cardinality(0 .. f - 1) = IF 0 > f - 1 THEN 0 ELSE (f - 1) - 0 + 1
        BY <4>1, FS_Interval
      <4> QED BY <2>1, <4>2
    <3>3. IsFiniteSet(later)
      <4>1. IsFiniteSet(f + 1 .. res - 1)
        BY <2>1, FS_Interval
      <4>2. later \in SUBSET (f + 1 .. res - 1)
        OBVIOUS
      <4> HIDE DEF later
      <4> QED BY <4>1, <4>2, FS_Subset
    <3>4. (0 .. f - 1) \cap later = {}
      BY <2>1
    <3> HIDE DEF later
    <3>5. Cardinality((0 .. f - 1) \cup later)
             = Cardinality(0 .. f - 1) + Cardinality(later) - Cardinality((0 .. f - 1) \cap later)
      BY <3>2, <3>3, FS_Union
    <3>6. Cardinality((0 .. f - 1) \cap later) = 0
      BY <3>4, FS_EmptySet
    <3>7. Cardinality(later) \in Nat
      BY <3>3, FS_CardinalityType
    <3>8. Place(S, res) = f + Cardinality(later)
      <4>1. Place(S, res) = Cardinality(Below(S, res))
        BY DEF Place, Below
      <4> QED BY <2>1, <3>1, <3>2, <3>5, <3>6, <3>7, <4>1
    <3> QED BY <2>1, <2>3, <2>4, <2>6, <2>8, <3>8
  <2> QED BY <2>1, <2>7, <2>8
<1> QED BY <1>1, <1>2
-----------------------------------------------------------------------------
(***************************************************************************)
(* The device and its queue pairs.                                         *)
(***************************************************************************)

QpRecord == [open : BOOLEAN, snd_una : 0 .. Size, snd_nxt : 0 .. Size,
             nextAvail : MinGap - MaxGap .. MaxGap, gap : Gaps]

\* Without DCQCN the next packet is never further away than the rate says.
QueuePair(r) ==
    /\ r \in QpRecord
    /\ r.snd_una <= r.snd_nxt
    /\ conf.win # 0 => r.snd_nxt - r.snd_una <= conf.win
    /\ conf.mlx \/ r.nextAvail <= r.gap

NicRecord == [qps : Seq(QPs), rrlast : Nat, ackQ : 0 .. conf.acks, paused : BOOLEAN,
              tx : NoEvent .. TxTime, nextSend : NoEvent .. MaxGap]

Opened(n, p) == \A i \in 1 .. Len(n.qps) : p[n.qps[i]].open

\* Device n with queue pairs p.
Device(n, p) ==
    /\ n \in NicRecord /\ IsInjective(n.qps)
    /\ p \in [QPs -> QpRecord] /\ \A q \in QPs : QueuePair(p[q])
    /\ Opened(n, p)

\* NoLostWakeUp of a device.
Awake(n, p) ==
    n.tx = NoEvent /\ ~n.paused =>
      /\ n.ackQ = 0
      /\ (\E q \in ToSet(n.qps) : Willing(n, p[q])) =>
           \/ n.nextSend # NoEvent
           \/ \E q \in ToSet(n.qps) : IsWinBound(p[q]) /\ AckOutstanding(p[q])

LEMMA ConfTypes ==
    ASSUME conf \in Confs
    PROVE  /\ conf.mlx \in BOOLEAN /\ conf.qps \in Nat \ {0}
           /\ conf.win \in Nat /\ conf.acks \in Nat
           /\ conf.pauses \in Nat /\ conf.nacks \in Nat
           /\ Size \in Nat \ {0} /\ TxTime \in Nat \ {0}
BY HostAssumption DEF ConfAssumption

LEMMA GapTypes ==
    ASSUME conf \in Confs
    PROVE  /\ Gaps \subseteq Nat \ {0} /\ MinGap \in Gaps /\ MaxGap \in Gaps
           /\ MinGap \in Nat /\ MaxGap \in Nat
           /\ \A g \in Gaps : MinGap <= g /\ g <= MaxGap
<1>1. /\ \A g \in Gaps : g \in Nat /\ g >= TxTime
      /\ \E g \in Gaps : \A h \in Gaps : h <= g
  BY HostAssumption DEF ConfAssumption, Gaps
<1>2. Gaps \subseteq Nat \ {0} /\ Gaps # {}
  BY <1>1, HostAssumption
<1>3. MinGap \in Gaps /\ \A g \in Gaps : MinGap <= g
  <2>1. Gaps \subseteq Nat
    BY <1>2
  <2> QED BY <1>2, <2>1, MinOfNat DEF MinGap
<1>4. MaxGap \in Gaps /\ \A g \in Gaps : MaxGap >= g
  <2>1. \E g \in Gaps : \A h \in Gaps : g >= h
    BY <1>1, <1>2
  <2> QED BY <2>1, MaxOf DEF MaxGap
<1> QED BY <1>2, <1>3, <1>4

LEMMA SendAckDevice ==
    ASSUME conf \in Confs, NEW STATE n, NEW STATE p, Device(n, p), n.ackQ > 0
    PROVE  /\ Device(SendAck(n, p).nic, SendAck(n, p).qp)
           /\ Awake(SendAck(n, p).nic, SendAck(n, p).qp)
           /\ SendAck(n, p).nic.ackQ <= n.ackQ
<1> DEFINE less == n.ackQ - 1
           m == [n EXCEPT !.ackQ = less, !.tx = TxTime]
<1>1. SendAck(n, p).nic = m /\ SendAck(n, p).qp = p
  BY DEF SendAck, Quiet
<1>2. n \in NicRecord /\ n.ackQ \in 0 .. conf.acks /\ conf.acks \in Nat /\ TxTime \in NoEvent .. TxTime
  BY ConfTypes DEF Device, NicRecord, NoEvent
<1>0. less \in 0 .. conf.acks /\ less <= n.ackQ
  BY <1>2
<1> HIDE DEF less
<1>3. m \in NicRecord /\ m.qps = n.qps /\ m.ackQ = less /\ m.tx = TxTime
  BY <1>0, <1>2 DEF NicRecord
<1> HIDE DEF m
<1>4. TxTime # NoEvent
  BY ConfTypes DEF NoEvent
<1> QED BY <1>0, <1>1, <1>2, <1>3, <1>4 DEF Device, Opened, Awake

\* The queue pair that sends is the one that was found.
LEMMA SendDataDevice ==
    ASSUME conf \in Confs, NEW STATE n, NEW STATE p, Device(n, p), Found(n, p) # 0
    PROVE  /\ Device(SendData(n, p).nic, SendData(n, p).qp)
           /\ Awake(SendData(n, p).nic, SendData(n, p).qp)
           /\ SendData(n, p).nic.ackQ <= n.ackQ
<1> DEFINE res == Scanned(n, Found(n, p))
           idx == NewIndex(n, p, res)
           kept == Kept(n, p)
           m == [n EXCEPT !.qps = kept, !.rrlast = idx, !.tx = TxTime]
           q == At(m, m.rrlast)
           r == [p[q] EXCEPT !.snd_nxt = @ + 1, !.nextAvail = p[q].gap]
<1>1. List(n.qps) /\ n.rrlast \in Nat /\ n \in NicRecord /\ n.ackQ \in Nat
  BY ConfTypes DEF Device, List, NicRecord
<1>2. res \in 0 .. Len(n.qps) - 1 /\ May(n, p[At(n, res)])
  BY <1>1, FoundMay
<1>3. At(n, res) \in QPs
  BY <1>1, <1>2 DEF At, List
<1>4. QueuePair(p[At(n, res)])
  BY <1>3 DEF Device
<1>5. p[At(n, res)].snd_nxt < Size /\ ~IsWinBound(p[At(n, res)]) /\ ~IsFinished(p[At(n, res)])
  BY <1>2, <1>4, ConfTypes DEF May, Willing, GetBytesLeft, IsFinished, QueuePair, QpRecord
<1> HIDE DEF res
<1>6. idx \in 0 .. Len(kept) - 1 /\ kept[idx + 1] = At(n, res)
  BY <1>1, <1>2, <1>5, NewIndexRight
<1>7. List(kept) /\ \A k \in 1 .. Len(kept) : \E j \in 1 .. Len(n.qps) : kept[k] = n.qps[j]
  BY <1>1, KeptIsList
<1> HIDE DEF idx, kept
<1>8. m \in NicRecord /\ m.qps = kept /\ m.rrlast = idx /\ m.tx = TxTime /\ m.ackQ = n.ackQ
  <2>1. idx \in Nat /\ kept \in Seq(QPs) /\ TxTime \in NoEvent .. TxTime
    BY <1>6, <1>7, ConfTypes DEF List, NoEvent
  <2> QED BY <1>1, <2>1 DEF NicRecord
<1>9. q = At(n, res)
  <2> HIDE DEF m
  <2> QED BY <1>6, <1>8 DEF At
<1>10. SendData(n, p).nic = m /\ SendData(n, p).qp = [p EXCEPT ![q] = r]
  <2>1. SendData(n, p).nic = m
    BY DEF SendData, res, idx, kept
  <2>2. SendData(n, p).qp = [p EXCEPT ![q].snd_nxt = @ + 1, ![q].nextAvail = p[q].gap]
    BY DEF SendData, res, idx, kept
  <2>3. p \in [QPs -> QpRecord] /\ q \in QPs
    BY <1>3, <1>9 DEF Device
  <2> HIDE DEF m, q
  <2>4. [p EXCEPT ![q].snd_nxt = @ + 1, ![q].nextAvail = p[q].gap] = [p EXCEPT ![q] = r]
    BY <2>3
  <2> QED BY <2>1, <2>2, <2>4
<1> HIDE DEF m, q
<1>11. QueuePair(r)
  <2>1. QueuePair(p[q]) /\ p[q].snd_nxt < Size /\ ~IsWinBound(p[q])
    BY <1>4, <1>5, <1>9
  <2> DEFINE o == p[q]
  <2> HIDE DEF o
  <2>2. r = [o EXCEPT !.snd_nxt = @ + 1, !.nextAvail = o.gap]
    BY DEF o
  <2>3. /\ o \in QpRecord /\ o.snd_una \in 0 .. Size /\ o.snd_nxt \in 0 .. Size
        /\ o.snd_una <= o.snd_nxt /\ o.snd_nxt < Size /\ o.gap \in Gaps
        /\ conf.win # 0 => o.snd_nxt - o.snd_una < conf.win
    BY <2>1, ConfTypes DEF o, QueuePair, QpRecord, IsWinBound
  <2>4. o.snd_nxt + 1 \in 0 .. Size /\ o.gap \in MinGap - MaxGap .. MaxGap
    BY <2>3, ConfTypes, GapTypes
  <2> HIDE DEF r
  <2>5. /\ r \in QpRecord /\ r.snd_una = o.snd_una /\ r.snd_nxt = o.snd_nxt + 1
        /\ r.nextAvail = o.gap /\ r.gap = o.gap
    BY <2>2, <2>3, <2>4 DEF QpRecord
  <2>6. o.gap \in Nat
    BY <2>3, GapTypes
  <2> QED BY <2>3, <2>5, <2>6, ConfTypes DEF QueuePair
<1>12. r.open = p[q].open
  BY <1>3, <1>9 DEF Device, QpRecord
<1> HIDE DEF r
<1> DEFINE t == [p EXCEPT ![q] = r]
<1>13. /\ t \in [QPs -> QpRecord] /\ \A k \in QPs : QueuePair(t[k]) /\ t[k].open = p[k].open
  <2>1. r \in QpRecord /\ q \in QPs /\ p \in [QPs -> QpRecord]
    BY <1>3, <1>9, <1>11 DEF QueuePair, Device
  <2>2. \A k \in QPs : t[k] = IF k = q THEN r ELSE p[k]
    BY <2>1
  <2> QED BY <1>11, <1>12, <2>1, <2>2 DEF Device
<1> HIDE DEF t
<1>14. Opened(m, t)
  <2>1. ASSUME NEW k \in 1 .. Len(kept) PROVE t[kept[k]].open
    <3>1. PICK j \in 1 .. Len(n.qps) : kept[k] = n.qps[j]
      BY <1>7
    <3>2. p[n.qps[j]].open /\ n.qps[j] \in QPs
      BY <1>1, <3>1 DEF Device, Opened, List
    <3> QED BY <1>13, <3>1, <3>2
  <2> QED BY <1>8, <2>1 DEF Opened
<1>15. TxTime # NoEvent
  BY ConfTypes DEF NoEvent
<1>16. Device(m, t)
  BY <1>7, <1>8, <1>13, <1>14 DEF Device, List
<1>17. Awake(m, t) /\ m.ackQ <= n.ackQ
  BY <1>1, <1>8, <1>15 DEF Awake
<1> QED BY <1>10, <1>16, <1>17 DEF t

\* With nothing found and no answer to send: either the timer is set, or the
\* earliest time is that of a queue pair whose window is closed.
LEMMA SetTimerDevice ==
    ASSUME conf \in Confs, NEW STATE n, NEW STATE p, Device(n, p), Found(n, p) = 0,
           n.paused \/ n.ackQ = 0
    PROVE  /\ Device(SetTimer(n, p).nic, SetTimer(n, p).qp)
           /\ Awake(SetTimer(n, p).nic, SetTimer(n, p).qp)
           /\ SetTimer(n, p).nic.ackQ <= n.ackQ
<1> DEFINE kept == Kept(n, p)
           m == [n EXCEPT !.qps = kept]
           left == {q \in ToSet(m.qps) : GetBytesLeft(p[q]) > 0}
           times == {p[q].nextAvail : q \in left}
           least == Min(times)
           w == [m EXCEPT !.nextSend = least]
<1>1. /\ List(n.qps) /\ n.rrlast \in Nat /\ n \in NicRecord /\ n.ackQ \in Nat
      /\ n.nextSend \in NoEvent .. MaxGap
  BY ConfTypes DEF Device, List, NicRecord
<1>2. \A i \in 1 .. Len(n.qps) : ~May(n, p[n.qps[i]])
  BY <1>1, FoundMay
<1>3. List(kept) /\ \A k \in 1 .. Len(kept) : \E j \in 1 .. Len(n.qps) : kept[k] = n.qps[j]
  BY <1>1, KeptIsList
<1>4. SetTimer(n, p) = IF times # {} /\ MaySetTimer(n, least)
                       THEN Quiet(w, p) ELSE Quiet(m, p)
  BY DEF SetTimer
<1> HIDE DEF kept
<1>5. /\ m \in NicRecord /\ m.qps = kept /\ m.tx = n.tx /\ m.ackQ = n.ackQ
      /\ m.paused = n.paused /\ m.nextSend = n.nextSend
  <2>1. kept \in Seq(QPs)
    BY <1>3 DEF List
  <2> QED BY <1>1, <2>1 DEF NicRecord
<1> HIDE DEF m
<1>6. \A q \in ToSet(m.qps) : /\ q \in QPs /\ QueuePair(p[q]) /\ ~May(n, p[q])
                              /\ p[q].open
  <2> SUFFICES ASSUME NEW k \in 1 .. Len(kept)
               PROVE  /\ kept[k] \in QPs /\ QueuePair(p[kept[k]]) /\ ~May(n, p[kept[k]])
                      /\ p[kept[k]].open
    BY <1>3, <1>5 DEF ToSet, List
  <2>1. PICK j \in 1 .. Len(n.qps) : kept[k] = n.qps[j]
    BY <1>3
  <2>2. n.qps[j] \in QPs /\ p[n.qps[j]].open
    BY <1>1, <2>1 DEF List, Device, Opened
  <2> QED BY <1>2, <2>1, <2>2 DEF Device
<1>7. Device(m, p)
  <2>1. \A k \in 1 .. Len(m.qps) : m.qps[k] \in ToSet(m.qps)
    BY <1>3, <1>5 DEF ToSet, List
  <2>2. Opened(m, p)
    BY <1>6, <2>1 DEF Opened
  <2> QED BY <1>3, <1>5, <2>2 DEF Device, List
<1>8. times # {} => /\ least \in times /\ times \subseteq MinGap - MaxGap .. MaxGap
  <2>1. \A q \in left : p[q].nextAvail \in MinGap - MaxGap .. MaxGap
    BY <1>6 DEF QueuePair, QpRecord
  <2>2. \A t \in times : t \in MinGap - MaxGap .. MaxGap
    BY <2>1
  <2> HIDE DEF times
  <2>3. /\ times \subseteq Int /\ MinGap - MaxGap \in Int
        /\ \A t \in times : MinGap - MaxGap <= t
    BY <2>2, GapTypes
  <2> QED BY <2>2, <2>3, MinOf
<1>9. CASE times # {} /\ MaySetTimer(n, least)
  <2>1. least \in NoEvent .. MaxGap /\ least # NoEvent
    <3>1. least \in MinGap - MaxGap .. MaxGap /\ least > 0
      BY <1>8, <1>9 DEF MaySetTimer
    <3> HIDE DEF least
    <3> QED BY <3>1, GapTypes DEF NoEvent
  <2> HIDE DEF least
  <2>2. /\ w \in NicRecord /\ w.qps = m.qps /\ w.tx = m.tx /\ w.ackQ = m.ackQ
        /\ w.paused = m.paused /\ w.nextSend = least
    BY <1>5, <2>1 DEF NicRecord
  <2> HIDE DEF w
  <2>3. Device(w, p)
    BY <1>7, <2>2 DEF Device, Opened
  <2>4. Awake(w, p) /\ w.ackQ <= n.ackQ
    BY <1>1, <1>5, <2>1, <2>2 DEF Awake
  <2>5. SetTimer(n, p) = Quiet(w, p)
    BY <1>4, <1>9
  <2> QED BY <2>3, <2>4, <2>5 DEF Quiet
<1>10. CASE ~(times # {} /\ MaySetTimer(n, least))
  <2>1. SetTimer(n, p) = Quiet(m, p)
    BY <1>4, <1>10
  <2>2. ASSUME ~m.paused, NEW q \in ToSet(m.qps), Willing(m, p[q]), m.nextSend = NoEvent
        PROVE  \E k \in ToSet(m.qps) : IsWinBound(p[k]) /\ AckOutstanding(p[k])
    <3>1. q \in left
      BY <2>2 DEF Willing
    <3>2. times # {}
      BY <3>1
    <3>3. ~(least > 0)
      BY <1>5, <1>10, <2>2, <3>2 DEF MaySetTimer
    <3>4. PICK k \in left : least = p[k].nextAvail
      BY <1>8, <3>2
    <3>5. k \in ToSet(m.qps) /\ GetBytesLeft(p[k]) > 0
      OBVIOUS
    <3>6. p[k].nextAvail <= 0
      <4>1. p[k].nextAvail \in MinGap - MaxGap .. MaxGap
        BY <1>6, <3>5 DEF QueuePair, QpRecord
      <4> HIDE DEF least
      <4> QED BY <3>3, <3>4, <4>1, GapTypes
    <3>7. IsWinBound(p[k])
      BY <1>5, <1>6, <2>2, <3>5, <3>6 DEF May, Willing, Available
    <3>8. AckOutstanding(p[k])
      <4>1. p[k].snd_nxt \in Int /\ p[k].snd_una \in Int /\ conf.win \in Nat
        BY <1>6, <3>5, ConfTypes DEF QueuePair, QpRecord
      <4> QED BY <3>7, <4>1 DEF IsWinBound, AckOutstanding
    <3> QED BY <3>5, <3>7, <3>8
  <2>3. Awake(m, p)
    BY <1>5, <2>2 DEF Awake
  <2> QED BY <1>1, <1>5, <1>7, <2>1, <2>3 DEF Quiet
<1> QED BY <1>9, <1>10

\* Whatever the device finds to do, it is left in good shape and awake.
LEMMA DequeueDevice ==
    ASSUME conf \in Confs, NEW STATE n, NEW STATE p, Device(n, p)
    PROVE  /\ Device(DequeueAndTransmit(n, p).nic, DequeueAndTransmit(n, p).qp)
           /\ Awake(DequeueAndTransmit(n, p).nic, DequeueAndTransmit(n, p).qp)
           /\ DequeueAndTransmit(n, p).nic.ackQ <= n.ackQ
<1>1. n.ackQ \in Nat
  BY ConfTypes DEF Device, NicRecord
<1>2. CASE n.tx # NoEvent
  <2>1. DequeueAndTransmit(n, p) = Quiet(n, p)
    BY <1>2 DEF DequeueAndTransmit
  <2> QED BY <1>1, <1>2, <2>1 DEF Quiet, Awake
<1>3. CASE n.tx = NoEvent /\ ~n.paused /\ n.ackQ > 0
  <2>1. DequeueAndTransmit(n, p) = SendAck(n, p)
    BY <1>3 DEF DequeueAndTransmit
  <2> QED BY <1>3, <2>1, SendAckDevice
<1>4. CASE n.tx = NoEvent /\ ~(~n.paused /\ n.ackQ > 0) /\ Found(n, p) # 0
  <2>1. DequeueAndTransmit(n, p) = SendData(n, p)
    BY <1>4 DEF DequeueAndTransmit
  <2> QED BY <1>4, <2>1, SendDataDevice
<1>5. CASE n.tx = NoEvent /\ ~(~n.paused /\ n.ackQ > 0) /\ Found(n, p) = 0
  <2>1. DequeueAndTransmit(n, p) = SetTimer(n, p)
    BY <1>5 DEF DequeueAndTransmit
  <2>2. n.paused \/ n.ackQ = 0
    BY <1>1, <1>5
  <2> QED BY <1>5, <2>1, <2>2, SetTimerDevice
<1> QED BY <1>2, <1>3, <1>4, <1>5
-----------------------------------------------------------------------------
(***************************************************************************)
(* The events.  A handler changes the device and its queue pairs and then  *)
(* calls DequeueAndTransmit: it is enough that its changes leave them in   *)
(* good shape.                                                             *)
(***************************************************************************)

Budget == [acks : 0 .. conf.acks, pauses : 0 .. conf.pauses, nacks : 0 .. conf.nacks]

HostInv ==
    /\ conf \in Confs
    /\ Device(nic, qp)
    /\ Awake(nic, qp)
    /\ spent \in Budget
    /\ nic.ackQ <= spent.acks
    /\ bypassed \in [QPs -> Nat]

LEMMA TransmitKeeps ==
    ASSUME conf \in Confs, bypassed \in [QPs -> Nat], conf' = conf,
           NEW STATE n, NEW STATE p, Device(n, p), Transmit(n, p)
    PROVE  /\ Device(nic, qp)' /\ Awake(nic, qp)' /\ nic'.ackQ <= n.ackQ
           /\ bypassed' \in [QPs -> Nat]
<1> DEFINE d == DequeueAndTransmit(n, p)
<1>1. nic' = d.nic /\ qp' = d.qp
  BY DEF Transmit
<1>2. Device(d.nic, d.qp) /\ Awake(d.nic, d.qp) /\ d.nic.ackQ <= n.ackQ
  BY DequeueDevice
<1> HIDE DEF d
<1>3. Device(nic', qp') /\ Awake(nic', qp') /\ nic'.ackQ <= n.ackQ
  BY <1>1, <1>2
<1>4. Device(nic, qp)'
  BY <1>3 DEF Device, NicRecord, QpRecord, QueuePair, Opened, QPs, MinGap, MaxGap, Gaps
<1>5. Awake(nic, qp)'
  BY <1>3 DEF Awake, Willing, IsWinBound, AckOutstanding, GetBytesLeft
<1>6. PICK e : bypassed' = [q \in QPs |->
              IF e.sent = {} THEN bypassed[q]
              ELSE IF q \in e.sent \/ q \notin ToSet(n.qps) \/ ~May(n, p[q]) THEN 0
              ELSE bypassed[q] + 1]
  BY DEF Transmit
<1>7. bypassed' \in [QPs -> Nat]
  BY <1>6
<1> QED BY <1>3, <1>4, <1>5, <1>7

LEMMA InitHost == Init => HostInv
<1> SUFFICES ASSUME Init PROVE HostInv
  OBVIOUS
<1>1. conf \in Confs
  BY DEF Init
<1>2. 0 \in MinGap - MaxGap .. MaxGap /\ MinGap \in Gaps /\ 0 <= MinGap /\ 0 \in 0 .. Size
  BY <1>1, GapTypes, ConfTypes
<1>3. qp \in [QPs -> QpRecord] /\ \A q \in QPs : QueuePair(qp[q])
  <2> DEFINE r == [open |-> FALSE, snd_una |-> 0, snd_nxt |-> 0, nextAvail |-> 0, gap |-> MinGap]
  <2>1. r \in QpRecord
    BY <1>2 DEF QpRecord
  <2>2. QueuePair(r)
    BY <1>1, <1>2, <2>1, ConfTypes DEF QueuePair
  <2>3. qp = [q \in QPs |-> r]
    BY DEF Init
  <2> HIDE DEF r
  <2> QED BY <2>1, <2>2, <2>3
<1>4. /\ nic \in NicRecord /\ nic.qps = << >> /\ nic.ackQ = 0
      /\ spent \in Budget /\ spent.acks = 0
  <2>1. 0 \in 0 .. conf.acks /\ 0 \in 0 .. conf.pauses /\ 0 \in 0 .. conf.nacks
    BY <1>1, ConfTypes
  <2>2. NoEvent \in NoEvent .. TxTime /\ NoEvent \in NoEvent .. MaxGap
    BY <1>1, ConfTypes, GapTypes DEF NoEvent
  <2>3. << >> \in Seq(QPs)
    OBVIOUS
  <2> QED BY <2>1, <2>2, <2>3 DEF Init, NicRecord, Budget
<1>5. Device(nic, qp)
  BY <1>3, <1>4 DEF Device, Opened, IsInjective
<1>6. Awake(nic, qp)
  BY <1>4 DEF Awake, ToSet
<1>7. bypassed \in [QPs -> Nat]
  BY DEF Init
<1> QED BY <1>1, <1>4, <1>5, <1>6, <1>7 DEF HostInv

LEMMA DeviceTypes ==
    ASSUME HostInv
    PROVE  /\ conf \in Confs /\ Device(nic, qp) /\ nic \in NicRecord
           /\ nic.qps \in Seq(QPs) /\ nic.ackQ \in Nat /\ bypassed \in [QPs -> Nat]
           /\ nic.tx \in NoEvent .. TxTime /\ nic.nextSend \in NoEvent .. MaxGap
           /\ NoEvent \in NoEvent .. TxTime /\ NoEvent \in NoEvent .. MaxGap
           /\ conf.acks \in Nat /\ spent \in Budget /\ nic.ackQ <= spent.acks
<1>1. conf \in Confs
  BY DEF HostInv
<1>2. NoEvent \in NoEvent .. TxTime /\ NoEvent \in NoEvent .. MaxGap /\ conf.acks \in Nat
  BY <1>1, ConfTypes, GapTypes DEF NoEvent
<1> QED BY <1>1, <1>2 DEF HostInv, Device, NicRecord

\* A handler that changes the device leaves HostInv when its changes leave the
\* device in good shape.
LEMMA HandlerKeeps ==
    ASSUME HostInv, conf' = conf, spent' \in Budget,
           NEW STATE n, NEW STATE p, Device(n, p), Transmit(n, p), n.ackQ <= spent'.acks
    PROVE  HostInv'
<1>1. conf \in Confs /\ bypassed \in [QPs -> Nat]
  BY DEF HostInv
<1>2. /\ Device(nic, qp)' /\ Awake(nic, qp)' /\ nic'.ackQ <= n.ackQ
      /\ bypassed' \in [QPs -> Nat]
  BY <1>1, TransmitKeeps
<1>3. (bypassed \in [QPs -> Nat])' /\ (spent \in Budget)' /\ (conf \in Confs)'
  BY <1>1, <1>2 DEF QPs, Budget
<1>4. n.ackQ \in Nat /\ nic'.ackQ \in Nat /\ spent'.acks \in Nat
  <2>1. nic' \in NicRecord
    BY <1>2 DEF Device, NicRecord, QPs, MaxGap, Gaps
  <2> QED BY <1>1, <2>1, ConfTypes DEF Device, NicRecord, Budget
<1>5. (nic.ackQ <= spent.acks)'
  BY <1>2, <1>4
<1> QED BY <1>2, <1>3, <1>5 DEF HostInv

\* A queue pair that is opened joins the list at its end.
Joined(q, n, p) ==
    /\ n.qps = Append(nic.qps, q) /\ n.rrlast = nic.rrlast
    /\ \A k \in QPs : /\ p[k].open = (k = q \/ qp[k].open)
                      /\ p[k].snd_una = qp[k].snd_una

LEMMA AddQpDevice ==
    ASSUME HostInv, NEW q \in QPs, AddQp(q)
    PROVE  /\ conf' = conf /\ spent' = spent
           /\ \E n, p : /\ Device(n, p) /\ Transmit(n, p)
                        /\ n.ackQ = nic.ackQ /\ Joined(q, n, p)
<1> DEFINE longer == Append(nic.qps, q)
           n == [nic EXCEPT !.qps = longer]
           r == [qp[q] EXCEPT !.open = TRUE, !.nextAvail = 0]
           p == [qp EXCEPT ![q] = r]
<1>1. /\ nic \in NicRecord /\ nic.qps \in Seq(QPs) /\ IsInjective(nic.qps)
      /\ Opened(nic, qp) /\ qp \in [QPs -> QpRecord] /\ \A k \in QPs : QueuePair(qp[k])
      /\ nic.ackQ <= spent.acks /\ spent \in Budget /\ conf \in Confs
  BY DeviceTypes DEF Device
<1>2. ~qp[q].open /\ conf' = conf /\ spent' = spent
  BY DEF AddQp
<1>3. Transmit(n, p)
  <2>1. Transmit([nic EXCEPT !.qps = Append(@, q)],
                 [qp EXCEPT ![q].open = TRUE, ![q].nextAvail = 0])
    BY DEF AddQp
  <2>2. [nic EXCEPT !.qps = Append(@, q)] = n
    OBVIOUS
  <2>3. [qp EXCEPT ![q].open = TRUE, ![q].nextAvail = 0] = p
    BY <1>1
  <2> HIDE DEF n, p
  <2> QED BY <2>1, <2>2, <2>3
<1>4. longer \in Seq(QPs) /\ Len(longer) = Len(nic.qps) + 1
      /\ longer[Len(nic.qps) + 1] = q
      /\ \A i \in 1 .. Len(nic.qps) : longer[i] = nic.qps[i]
  BY <1>1
<1>5. \A i \in 1 .. Len(nic.qps) : nic.qps[i] # q /\ qp[nic.qps[i]].open /\ nic.qps[i] \in QPs
  BY <1>1, <1>2 DEF Opened
<1> HIDE DEF longer
<1>6. /\ n \in NicRecord /\ n.qps = longer /\ n.ackQ = nic.ackQ
      /\ n.rrlast = nic.rrlast
  BY <1>1, <1>4 DEF NicRecord
<1>7. IsInjective(longer)
  <2> SUFFICES ASSUME NEW a \in 1 .. Len(longer), NEW b \in 1 .. Len(longer), longer[a] = longer[b]
               PROVE  a = b
    BY <1>4 DEF IsInjective
  <2>1. \A i, j \in 1 .. Len(nic.qps) : nic.qps[i] = nic.qps[j] => i = j
    BY <1>1 DEF IsInjective
  <2> QED BY <1>1, <1>4, <1>5, <2>1, SMTT(30)
<1>8. /\ r \in QpRecord /\ QueuePair(r) /\ r.open = TRUE
      /\ r.snd_una = qp[q].snd_una
  <2> DEFINE o == qp[q]
  <2>1. o \in QpRecord /\ QueuePair(o)
    BY <1>1
  <2>2. r = [o EXCEPT !.open = TRUE, !.nextAvail = 0]
    OBVIOUS
  <2> HIDE DEF o, r
  <2>3. 0 \in MinGap - MaxGap .. MaxGap /\ o.gap \in Nat
    BY <1>1, <2>1, GapTypes DEF QpRecord
  <2>4. /\ r \in QpRecord /\ r.open = TRUE /\ r.nextAvail = 0 /\ r.gap = o.gap
        /\ r.snd_una = o.snd_una /\ r.snd_nxt = o.snd_nxt
    BY <2>1, <2>2, <2>3 DEF QpRecord
  <2>5. QueuePair(r)
    BY <2>1, <2>3, <2>4 DEF QueuePair
  <2> QED BY <2>4, <2>5 DEF o
<1> HIDE DEF n, r
<1>9. p \in [QPs -> QpRecord] /\ \A k \in QPs : p[k] = IF k = q THEN r ELSE qp[k]
  BY <1>1, <1>8
<1> HIDE DEF p
<1>10. Opened(n, p)
  <2>1. ASSUME NEW k \in 1 .. Len(longer) PROVE p[longer[k]].open
    <3>1. CASE k = Len(nic.qps) + 1
      BY <1>4, <1>8, <1>9, <3>1
    <3>2. CASE k \in 1 .. Len(nic.qps)
      BY <1>4, <1>5, <1>9, <3>2
    <3> QED BY <1>1, <1>4, <3>1, <3>2
  <2> QED BY <1>6, <2>1 DEF Opened
<1>11. Device(n, p)
  BY <1>1, <1>6, <1>7, <1>8, <1>9, <1>10 DEF Device
<1>12. Joined(q, n, p)
  <2>1. \A k \in QPs : /\ p[k].open = (k = q \/ qp[k].open)
                       /\ p[k].snd_una = qp[k].snd_una
    <3>1. \A k \in QPs : qp[k].open \in BOOLEAN
      BY <1>1 DEF QpRecord
    <3> QED BY <1>8, <1>9, <3>1
  <2> QED BY <1>6, <2>1 DEF Joined, longer
<1> QED BY <1>2, <1>3, <1>6, <1>11, <1>12

LEMMA AddQpHost == ASSUME HostInv, NEW q \in QPs, AddQp(q) PROVE HostInv'
<1>1. conf' = conf /\ spent' = spent
  BY AddQpDevice
<1>2. PICK n, p : Device(n, p) /\ Transmit(n, p) /\ n.ackQ = nic.ackQ
  BY AddQpDevice
<1>3. spent' \in Budget /\ n.ackQ <= spent'.acks
  BY <1>1, <1>2, DeviceTypes
<1> QED BY <1>1, <1>2, <1>3, HandlerKeeps

\* One field of the device is changed, as by the end of a transmission.
LEMMA TransmitCompleteHost == ASSUME HostInv, TransmitComplete PROVE HostInv'
<1> DEFINE n == [nic EXCEPT !.tx = NoEvent]
<1>1. Transmit(n, qp) /\ conf' = conf /\ spent' = spent
  BY DEF TransmitComplete
<1>2. n \in NicRecord /\ n.qps = nic.qps /\ n.ackQ = nic.ackQ
  BY DeviceTypes DEF NicRecord
<1> HIDE DEF n
<1>3. Device(n, qp)
  BY <1>2, DeviceTypes DEF Device, Opened
<1>4. spent' \in Budget /\ n.ackQ <= spent'.acks
  BY <1>1, <1>2, DeviceTypes
<1> QED BY <1>1, <1>3, <1>4, HandlerKeeps

LEMMA NextSendHost == ASSUME HostInv, NextSend PROVE HostInv'
<1> DEFINE n == [nic EXCEPT !.nextSend = NoEvent]
<1>1. Transmit(n, qp) /\ conf' = conf /\ spent' = spent
  BY DEF NextSend
<1>2. n \in NicRecord /\ n.qps = nic.qps /\ n.ackQ = nic.ackQ
  BY DeviceTypes DEF NicRecord
<1> HIDE DEF n
<1>3. Device(n, qp)
  BY <1>2, DeviceTypes DEF Device, Opened
<1>4. spent' \in Budget /\ n.ackQ <= spent'.acks
  BY <1>1, <1>2, DeviceTypes
<1> QED BY <1>1, <1>3, <1>4, HandlerKeeps

LEMMA ResumeHost == ASSUME HostInv, Resume PROVE HostInv'
<1> DEFINE n == [nic EXCEPT !.paused = FALSE]
<1>1. Transmit(n, qp) /\ conf' = conf /\ spent' = spent
  BY DEF Resume
<1>2. n \in NicRecord /\ n.qps = nic.qps /\ n.ackQ = nic.ackQ
  BY DeviceTypes DEF NicRecord
<1> HIDE DEF n
<1>3. Device(n, qp)
  BY <1>2, DeviceTypes DEF Device, Opened
<1>4. spent' \in Budget /\ n.ackQ <= spent'.acks
  BY <1>1, <1>2, DeviceTypes
<1> QED BY <1>1, <1>3, <1>4, HandlerKeeps

LEMMA SendAnswerHost == ASSUME HostInv, SendAnswer PROVE HostInv'
<1> DEFINE more == nic.ackQ + 1
           n == [nic EXCEPT !.ackQ = more]
           used == spent.acks + 1
<1>1. Transmit(n, qp) /\ conf' = conf /\ spent.acks < conf.acks
      /\ spent' = [spent EXCEPT !.acks = used]
  BY DEF SendAnswer, Spend
<1>2. /\ spent.acks \in Nat /\ nic.ackQ \in Nat /\ conf.acks \in Nat
      /\ nic.ackQ <= spent.acks
  BY DeviceTypes, ConfTypes DEF Budget
<1>3. more \in 0 .. conf.acks /\ more <= used /\ used \in 0 .. conf.acks
  BY <1>1, <1>2
<1> HIDE DEF more, used
<1>4. n \in NicRecord /\ n.qps = nic.qps /\ n.ackQ = more
  BY <1>3, DeviceTypes DEF NicRecord
<1> HIDE DEF n
<1>5. Device(n, qp)
  BY <1>4, DeviceTypes DEF Device, Opened
<1>6. spent' \in Budget /\ spent'.acks = used
  BY <1>1, <1>3, DeviceTypes DEF Budget
<1>7. spent' \in Budget /\ n.ackQ <= spent'.acks
  BY <1>3, <1>4, <1>6
<1> QED BY <1>1, <1>5, <1>7, HandlerKeeps

LEMMA PauseHost == ASSUME HostInv, Pause PROVE HostInv'
<1> DEFINE used == spent.pauses + 1
<1>1. /\ nic' = [nic EXCEPT !.paused = TRUE] /\ conf' = conf /\ qp' = qp
      /\ bypassed' = bypassed /\ spent.pauses < conf.pauses
      /\ spent' = [spent EXCEPT !.pauses = used]
  BY DEF Pause, Spend
<1>2. used \in 0 .. conf.pauses
  <2>1. spent.pauses \in 0 .. conf.pauses
    BY DeviceTypes DEF Budget
  <2>2. conf.pauses \in Nat
    BY DeviceTypes, ConfTypes
  <2> QED BY <1>1, <2>1, <2>2
<1> HIDE DEF used
<1>3. spent' \in Budget /\ spent'.acks = spent.acks
  BY <1>1, <1>2, DeviceTypes DEF Budget
<1>4. /\ nic' \in NicRecord /\ nic'.qps = nic.qps /\ nic'.ackQ = nic.ackQ /\ nic'.paused
  BY <1>1, DeviceTypes DEF NicRecord
<1>5. Device(nic', qp')
  BY <1>1, <1>4, DeviceTypes DEF Device, Opened
<1>6. Device(nic, qp)'
  BY <1>1, <1>5 DEF Device, NicRecord, QpRecord, QueuePair, Opened, QPs, MinGap, MaxGap, Gaps
<1>7. Awake(nic, qp)'
  BY <1>4 DEF Awake
<1>8. (spent \in Budget)' /\ (bypassed \in [QPs -> Nat])' /\ (conf \in Confs)'
      /\ (nic.ackQ <= spent.acks)'
  BY <1>1, <1>3, <1>4, DeviceTypes DEF QPs, Budget
<1> QED BY <1>6, <1>7, <1>8 DEF HostInv

\* What a change of some queue pairs leaves of them.
QueuePairs(p) ==
    p \in [QPs -> QpRecord] /\ \A k \in QPs : QueuePair(p[k]) /\ p[k].open = qp[k].open

LEMMA SameList ==
    ASSUME HostInv, NEW STATE n, NEW STATE p, n \in NicRecord, n.qps = nic.qps, QueuePairs(p)
    PROVE  Device(n, p)
<1>1. Opened(n, p)
  <2>1. ASSUME NEW i \in 1 .. Len(n.qps) PROVE p[n.qps[i]].open
    <3>1. nic.qps[i] \in QPs /\ qp[nic.qps[i]].open
      BY DeviceTypes DEF Device, Opened
    <3> QED BY <3>1 DEF QueuePairs
  <2> QED BY <2>1 DEF Opened
<1> QED BY <1>1, DeviceTypes DEF Device, QueuePairs

LEMMA LongAgoType ==
    ASSUME conf \in Confs, NEW t \in Int, t <= MaxGap
    PROVE  /\ LongAgo(t) \in MinGap - MaxGap .. MaxGap
           /\ LongAgo(t) = IF t <= MinGap - MaxGap THEN MinGap - MaxGap ELSE t
<1>1. MinGap - MaxGap \in Int /\ MinGap - MaxGap <= MaxGap
  BY GapTypes
<1>2. LongAgo(t) = IF t <= MinGap - MaxGap THEN MinGap - MaxGap ELSE t
  BY <1>1, MaxOfTwo DEF LongAgo
<1> QED BY <1>1, <1>2, GapTypes

LEMMA UpdateNextAvailType ==
    ASSUME HostInv, NEW t \in Int
    PROVE  /\ UpdateNextAvail(nic, t) \in NicRecord
           /\ UpdateNextAvail(nic, t).qps = nic.qps
           /\ UpdateNextAvail(nic, t).ackQ = nic.ackQ
           /\ UpdateNextAvail(nic, t).rrlast = nic.rrlast
<1>1. CASE nic.nextSend # NoEvent /\ t < nic.nextSend
  <2> DEFINE u == Max({t, 0})
             n == [nic EXCEPT !.nextSend = u]
  <2>1. UpdateNextAvail(nic, t) = n
    BY <1>1 DEF UpdateNextAvail
  <2>2. u = IF t <= 0 THEN 0 ELSE t
    BY MaxOfTwo
  <2> HIDE DEF u
  <2>3. u \in NoEvent .. MaxGap
    BY <1>1, <2>2, DeviceTypes, GapTypes DEF NoEvent
  <2>4. /\ n \in NicRecord /\ n.qps = nic.qps /\ n.ackQ = nic.ackQ
        /\ n.rrlast = nic.rrlast
    BY <2>3, DeviceTypes DEF NicRecord
  <2> QED BY <2>1, <2>4
<1>2. CASE ~(nic.nextSend # NoEvent /\ t < nic.nextSend)
  BY <1>2, DeviceTypes DEF UpdateNextAvail
<1> QED BY <1>1, <1>2

\* The list stays as it is, and the packets of q below a are acknowledged.
Acknowledged(q, a, n, p) ==
    /\ n \in NicRecord /\ n.qps = nic.qps /\ n.rrlast = nic.rrlast
    /\ QueuePairs(p)
    /\ \A k \in QPs : p[k].snd_una = IF k = q THEN a ELSE qp[k].snd_una

\* An ACK takes packets off the window; a NACK also sets the queue pair back.
LEMMA ReceiveAckDevice ==
    ASSUME HostInv, NEW q \in QPs, NEW a \in Int, NEW nack \in BOOLEAN, NEW g \in Gaps,
           qp[q].snd_una <= a, a <= qp[q].snd_nxt, ReceiveAck(q, a, nack, g)
    PROVE  /\ conf' = conf
           /\ \E n, p : /\ Device(n, p) /\ Transmit(n, p)
                        /\ n.ackQ = nic.ackQ /\ Acknowledged(q, a, n, p)
<1> DEFINE o == qp[q]
           moved == LongAgo(o.nextAvail + g - o.gap)
           next == IF nack THEN a ELSE o.snd_nxt
           time == IF conf.mlx THEN o.nextAvail ELSE moved
           r == [o EXCEPT !.snd_una = a, !.gap = g, !.snd_nxt = next, !.nextAvail = time]
           n == IF conf.mlx THEN nic ELSE UpdateNextAvail(nic, r.nextAvail)
           p == [qp EXCEPT ![q] = r]
<1>1. /\ o \in QpRecord /\ QueuePair(o) /\ conf \in Confs /\ qp \in [QPs -> QpRecord]
      /\ \A k \in QPs : QueuePair(qp[k])
  BY DeviceTypes DEF Device
<1>2. /\ o.snd_una \in 0 .. Size /\ o.snd_nxt \in 0 .. Size /\ o.gap \in Gaps
      /\ o.nextAvail \in MinGap - MaxGap .. MaxGap
      /\ o.snd_una <= o.snd_nxt /\ (conf.win # 0 => o.snd_nxt - o.snd_una <= conf.win)
      /\ (conf.mlx \/ o.nextAvail <= o.gap)
  BY <1>1 DEF QueuePair, QpRecord
<1>3. /\ a \in 0 .. Size /\ next \in 0 .. Size /\ a <= next /\ next <= o.snd_nxt
      /\ o.snd_una <= a
  <2>1. /\ a \in 0 .. Size /\ a <= o.snd_nxt /\ o.snd_una <= a
    <3>1. Size \in Nat /\ o.snd_una <= a /\ a <= o.snd_nxt
      BY <1>1, ConfTypes
    <3> HIDE DEF o
    <3> QED BY <1>2, <3>1
  <2>2. next = a \/ next = o.snd_nxt
    OBVIOUS
  <2> HIDE DEF o, next
  <2> QED BY <1>2, <2>1, <2>2
<1>4. /\ time \in MinGap - MaxGap .. MaxGap /\ (conf.mlx \/ time <= g)
  <2>1. CASE conf.mlx
    BY <1>2, <2>1
  <2>2. CASE ~conf.mlx
    <3> DEFINE t == o.nextAvail + g - o.gap
    <3>1. t \in Int /\ t <= g /\ g <= MaxGap /\ t <= MaxGap
      BY <1>1, <1>2, <2>2, GapTypes
    <3>2. time = LongAgo(t)
      BY <2>2
    <3> HIDE DEF t, time
    <3>3. /\ LongAgo(t) \in MinGap - MaxGap .. MaxGap
          /\ LongAgo(t) = IF t <= MinGap - MaxGap THEN MinGap - MaxGap ELSE t
      BY <1>1, <3>1, LongAgoType
    <3>4. g \in Nat /\ MinGap - MaxGap <= g
      BY <1>1, GapTypes
    <3> QED BY <3>1, <3>2, <3>3, <3>4
  <2> QED BY <2>1, <2>2
<1>5. Transmit(n, p) /\ conf' = conf
  <2>1. [qp[q] EXCEPT !.snd_una = a, !.gap = g, !.snd_nxt = IF nack THEN a ELSE @,
                      !.nextAvail = IF conf.mlx THEN @ ELSE moved] = r
    BY <1>1 DEF QpRecord
  <2> QED BY <2>1 DEF ReceiveAck
<1> HIDE DEF o, next, time
<1>6. /\ r \in QpRecord /\ r.open = o.open /\ r.snd_una = a /\ r.snd_nxt = next
      /\ r.nextAvail = time /\ r.gap = g
  BY <1>1, <1>3, <1>4 DEF QpRecord
<1> HIDE DEF r
<1>7. QueuePair(r)
  BY <1>1, <1>2, <1>3, <1>4, <1>6, ConfTypes DEF QueuePair
<1>8. /\ QueuePairs(p)
      /\ \A k \in QPs : p[k].snd_una = IF k = q THEN a ELSE qp[k].snd_una
  <2>1. p \in [QPs -> QpRecord] /\ \A k \in QPs : p[k] = IF k = q THEN r ELSE qp[k]
    BY <1>1, <1>6
  <2> HIDE DEF p
  <2> QED BY <1>1, <1>6, <1>7, <2>1 DEF QueuePairs, o
<1>9. /\ n \in NicRecord /\ n.qps = nic.qps /\ n.ackQ = nic.ackQ
      /\ n.rrlast = nic.rrlast
  <2>1. r.nextAvail \in Int
    BY <1>1, <1>4, <1>6, GapTypes
  <2> QED BY <2>1, DeviceTypes, UpdateNextAvailType
<1> HIDE DEF n, p
<1>10. Device(n, p)
  BY <1>8, <1>9, SameList
<1>11. Acknowledged(q, a, n, p)
  BY <1>8, <1>9 DEF Acknowledged
<1> QED BY <1>5, <1>9, <1>10, <1>11

LEMMA ReceiveAckHost ==
    ASSUME HostInv, NEW q \in QPs, NEW a \in Int, NEW nack \in BOOLEAN, NEW g \in Gaps,
           qp[q].snd_una <= a, a <= qp[q].snd_nxt, ReceiveAck(q, a, nack, g),
           spent' \in Budget, spent'.acks = spent.acks
    PROVE  HostInv'
<1>1. conf' = conf
  BY ReceiveAckDevice
<1>2. PICK n, p : Device(n, p) /\ Transmit(n, p) /\ n.ackQ = nic.ackQ
  BY ReceiveAckDevice
<1>3. n.ackQ <= spent'.acks
  BY <1>2, DeviceTypes
<1> QED BY <1>1, <1>2, <1>3, HandlerKeeps

LEMMA UnaTypes ==
    ASSUME HostInv, NEW q \in QPs
    PROVE  qp[q].snd_una \in Nat /\ qp[q].snd_nxt \in Nat
<1>1. qp[q] \in QpRecord /\ Size \in Nat
  BY DeviceTypes, ConfTypes DEF Device
<1> QED BY <1>1 DEF QpRecord

LEMMA AckArrivesHost == ASSUME HostInv, NEW q \in QPs, AckArrives(q) PROVE HostInv'
<1>1. /\ qp[q].snd_una \in Nat /\ qp[q].snd_nxt \in Nat
  BY UnaTypes
<1>2. PICK a \in qp[q].snd_una + 1 .. qp[q].snd_nxt, g \in Gaps : ReceiveAck(q, a, FALSE, g)
  BY DEF AckArrives
<1>3. /\ a \in Int /\ qp[q].snd_una <= a /\ a <= qp[q].snd_nxt
  BY <1>1
<1>4. spent' \in Budget /\ spent'.acks = spent.acks
  BY DeviceTypes DEF AckArrives
<1> QED BY <1>2, <1>3, <1>4, ReceiveAckHost

LEMMA NackArrivesHost == ASSUME HostInv, NEW q \in QPs, NackArrives(q) PROVE HostInv'
<1> DEFINE used == spent.nacks + 1
<1>1. /\ qp[q].snd_una \in Nat /\ qp[q].snd_nxt \in Nat
  BY UnaTypes
<1>2. PICK a \in qp[q].snd_una .. qp[q].snd_nxt - 1, g \in Gaps : ReceiveAck(q, a, TRUE, g)
  BY DEF NackArrives
<1>3. /\ a \in Int /\ qp[q].snd_una <= a /\ a <= qp[q].snd_nxt
  BY <1>1
<1>4. spent.nacks < conf.nacks /\ spent' = [spent EXCEPT !.nacks = used]
  BY DEF NackArrives, Spend
<1>5. used \in 0 .. conf.nacks
  <2>1. spent.nacks \in 0 .. conf.nacks
    BY DeviceTypes DEF Budget
  <2>2. conf.nacks \in Nat
    BY DeviceTypes, ConfTypes
  <2> QED BY <1>4, <2>1, <2>2
<1> HIDE DEF used
<1>6. spent' \in Budget /\ spent'.acks = spent.acks
  BY <1>4, <1>5, DeviceTypes DEF Budget
<1> QED BY <1>2, <1>3, <1>6, ReceiveAckHost

\* What the other conjuncts need of a step that is no call of DequeueAndTransmit.
LEMMA QuietStepKeeps ==
    ASSUME HostInv, conf' = conf, spent' = spent, bypassed' = bypassed,
           nic' \in NicRecord, nic'.qps = nic.qps, nic'.ackQ = nic.ackQ, QueuePairs(qp'),
           nic'.paused = nic.paused,
           nic'.tx = NoEvent => nic.tx = NoEvent,
           nic'.tx = NoEvent => (nic.nextSend # NoEvent => nic'.nextSend # NoEvent),
           \A k \in QPs : qp'[k].snd_una = qp[k].snd_una /\ qp'[k].snd_nxt = qp[k].snd_nxt
    PROVE  HostInv'
<1>1. Device(nic', qp')
  BY SameList
<1>2. Device(nic, qp)'
  BY <1>1 DEF Device, NicRecord, QpRecord, QueuePair, Opened, QPs, MinGap, MaxGap, Gaps
<1>3. \A k \in ToSet(nic.qps) :
          /\ k \in QPs
          /\ Willing(nic', qp'[k]) <=> Willing(nic, qp[k])
          /\ IsWinBound(qp'[k]) <=> IsWinBound(qp[k])
          /\ AckOutstanding(qp'[k]) <=> AckOutstanding(qp[k])
  <2>1. \A k \in ToSet(nic.qps) : k \in QPs
    BY DeviceTypes DEF ToSet
  <2> QED BY <2>1 DEF Willing, IsWinBound, AckOutstanding, GetBytesLeft
<1>4. Awake(nic, qp)'
  BY <1>3 DEF HostInv, Awake, Willing, IsWinBound, AckOutstanding, GetBytesLeft
<1>5. (spent \in Budget)' /\ (bypassed \in [QPs -> Nat])' /\ (conf \in Confs)'
      /\ (nic.ackQ <= spent.acks)'
  BY DeviceTypes DEF QPs, Budget
<1> QED BY <1>2, <1>4, <1>5 DEF HostInv

\* A timer of DCQCN leaves what is scheduled.
LEMMA RateTimerHost ==
    ASSUME HostInv, NEW q \in QPs, NEW g \in Gaps, RateTimer(q, g) PROVE HostInv'
<1> DEFINE r == [qp[q] EXCEPT !.gap = g]
           p == [qp EXCEPT ![q] = r]
<1>1. /\ qp[q] \in QpRecord /\ QueuePair(qp[q]) /\ qp \in [QPs -> QpRecord]
      /\ \A k \in QPs : QueuePair(qp[k])
  BY DeviceTypes DEF Device
<1>2. /\ conf.mlx /\ conf' = conf /\ nic' = nic /\ spent' = spent /\ bypassed' = bypassed
      /\ qp' = [qp EXCEPT ![q].gap = g]
  BY DEF RateTimer
<1>3. qp' = p
  BY <1>1, <1>2
<1>4. /\ r \in QpRecord /\ r.open = qp[q].open /\ r.snd_una = qp[q].snd_una
      /\ r.snd_nxt = qp[q].snd_nxt
  BY <1>1 DEF QpRecord
<1> HIDE DEF r
<1>5. QueuePair(r)
  BY <1>1, <1>2, <1>4 DEF QueuePair
<1>6. \A k \in QPs : p[k] = IF k = q THEN r ELSE qp[k]
  BY <1>1
<1>7. p \in [QPs -> QpRecord]
  BY <1>1, <1>4
<1> HIDE DEF p
<1>8. QueuePairs(qp')
  BY <1>1, <1>3, <1>4, <1>5, <1>6, <1>7 DEF QueuePairs
<1>9. \A k \in QPs : qp'[k].snd_una = qp[k].snd_una /\ qp'[k].snd_nxt = qp[k].snd_nxt
  BY <1>3, <1>4, <1>6
<1>10. /\ nic' \in NicRecord /\ nic'.qps = nic.qps /\ nic'.ackQ = nic.ackQ
       /\ nic'.paused = nic.paused
       /\ nic'.tx = NoEvent => nic.tx = NoEvent
       /\ nic'.tx = NoEvent => (nic.nextSend # NoEvent => nic'.nextSend # NoEvent)
  BY <1>2, DeviceTypes
<1> QED BY <1>2, <1>8, <1>9, <1>10, QuietStepKeeps

LEMMA TickHost == ASSUME HostInv, Tick PROVE HostInv'
<1> DEFINE t == Max({nic.tx - 1, NoEvent})
           s == Max({nic.nextSend - 1, NoEvent})
           R(k) == [qp[k] EXCEPT !.nextAvail = LongAgo(@ - 1)]
<1>1. /\ conf \in Confs /\ nic.tx \in NoEvent .. TxTime /\ nic.nextSend \in NoEvent .. MaxGap
      /\ \A k \in QPs : qp[k] \in QpRecord /\ QueuePair(qp[k])
  BY DeviceTypes DEF Device
<1>2. /\ nic.tx # 0 /\ nic.nextSend # 0 /\ conf' = conf /\ spent' = spent
      /\ bypassed' = bypassed /\ nic' = [nic EXCEPT !.tx = t, !.nextSend = s]
      /\ qp' = [k \in QPs |-> R(k)]
  BY DEF Tick
<1>3. /\ t \in NoEvent .. TxTime /\ (t = NoEvent => nic.tx = NoEvent)
      /\ s \in NoEvent .. MaxGap /\ (nic.nextSend # NoEvent => s # NoEvent)
  <2>1. /\ nic.tx - 1 \in Int /\ nic.nextSend - 1 \in Int /\ NoEvent \in Int
        /\ TxTime \in Nat /\ MaxGap \in Nat
    BY <1>1, ConfTypes, GapTypes DEF NoEvent
  <2>2. /\ t = IF nic.tx - 1 <= NoEvent THEN NoEvent ELSE nic.tx - 1
        /\ s = IF nic.nextSend - 1 <= NoEvent THEN NoEvent ELSE nic.nextSend - 1
    BY <2>1, MaxOfTwo
  <2> HIDE DEF t, s
  <2> QED BY <1>1, <1>2, <2>1, <2>2 DEF NoEvent
<1> HIDE DEF t, s
<1>4. /\ nic' \in NicRecord /\ nic'.qps = nic.qps /\ nic'.ackQ = nic.ackQ
      /\ nic'.paused = nic.paused /\ nic'.tx = t /\ nic'.nextSend = s
  BY <1>2, <1>3, DeviceTypes DEF NicRecord
<1>5. ASSUME NEW k \in QPs
      PROVE  /\ R(k) \in QpRecord /\ QueuePair(R(k)) /\ R(k).open = qp[k].open
             /\ R(k).snd_una = qp[k].snd_una /\ R(k).snd_nxt = qp[k].snd_nxt
  <2> DEFINE o == qp[k]
             past == LongAgo(o.nextAvail - 1)
             r == [o EXCEPT !.nextAvail = past]
  <2>1. R(k) = r
    OBVIOUS
  <2>2. /\ o \in QpRecord /\ QueuePair(o) /\ o.nextAvail \in MinGap - MaxGap .. MaxGap
        /\ o.gap \in Gaps
    BY <1>1 DEF QpRecord
  <2>3. o.nextAvail - 1 \in Int /\ o.nextAvail - 1 <= MaxGap /\ MinGap - MaxGap \in Int
    BY <1>1, <2>2, GapTypes
  <2>4. /\ past \in MinGap - MaxGap .. MaxGap
        /\ past = IF o.nextAvail - 1 <= MinGap - MaxGap THEN MinGap - MaxGap
                  ELSE o.nextAvail - 1
    <3> HIDE DEF o
    <3> QED BY <1>1, <2>3, LongAgoType
  <2> HIDE DEF o, past
  <2>5. past <= o.nextAvail
    BY <1>1, <2>2, <2>4, GapTypes
  <2>6. /\ r \in QpRecord /\ r.open = o.open /\ r.snd_una = o.snd_una
        /\ r.snd_nxt = o.snd_nxt /\ r.nextAvail = past /\ r.gap = o.gap
    BY <2>2, <2>4 DEF QpRecord
  <2> HIDE DEF r
  <2>7. o.gap \in Nat /\ past \in Int
    BY <1>1, <2>2, <2>4, GapTypes
  <2>8. QueuePair(r)
    BY <1>1, <2>2, <2>5, <2>6, <2>7, GapTypes DEF QueuePair
  <2>9. R(k) = r /\ o = qp[k]
    BY <2>1 DEF o
  <2> HIDE DEF R
  <2> QED BY <2>6, <2>8, <2>9
<1> HIDE DEF R
<1>6. QueuePairs(qp')
  BY <1>2, <1>5 DEF QueuePairs
<1>7. \A k \in QPs : qp'[k].snd_una = qp[k].snd_una /\ qp'[k].snd_nxt = qp[k].snd_nxt
  BY <1>2, <1>5
<1>8. /\ nic'.tx = NoEvent => nic.tx = NoEvent
      /\ nic'.tx = NoEvent => (nic.nextSend # NoEvent => nic'.nextSend # NoEvent)
  BY <1>3, <1>4
<1> QED BY <1>2, <1>4, <1>6, <1>7, <1>8, QuietStepKeeps

LEMMA NextHost == HostInv /\ [Next]_vars => HostInv'
<1> SUFFICES ASSUME HostInv, [Next]_vars PROVE HostInv'
  OBVIOUS
<1>1. CASE TransmitComplete \/ NextSend \/ Resume \/ Tick
  BY <1>1, TransmitCompleteHost, NextSendHost, ResumeHost, TickHost
<1>2. CASE SendAnswer \/ Pause
  BY <1>2, SendAnswerHost, PauseHost
<1>3. ASSUME NEW q \in QPs, AddQp(q) \/ AckArrives(q) \/ NackArrives(q)
      PROVE  HostInv'
  BY <1>3, AddQpHost, AckArrivesHost, NackArrivesHost
<1>4. ASSUME NEW q \in QPs, NEW g \in Gaps, RateTimer(q, g)
      PROVE  HostInv'
  BY <1>4, RateTimerHost
<1>5. CASE UNCHANGED vars
  BY <1>5 DEF vars, HostInv, Device, NicRecord, QpRecord, QueuePair, Opened, QPs, MinGap,
              MaxGap, Gaps, Awake, Willing, IsWinBound, AckOutstanding, GetBytesLeft, Budget
<1> QED BY <1>1, <1>2, <1>3, <1>4, <1>5 DEF Next, Event

LEMMA HostAlways == Spec => []HostInv
BY InitHost, NextHost, PTL DEF Spec
-----------------------------------------------------------------------------
\* In every state the list of queue pairs holds none twice, no queue pair has
\* sent more than its message or its window, no time is further ahead than the
\* slowest rate, and no more answers wait than data were received: for any
\* number of queue pairs, any window and any set of rates.
THEOREM HostTypes == Spec => []TypeOK
<1>1. HostInv => TypeOK
  <2> SUFFICES ASSUME HostInv PROVE TypeOK
    OBVIOUS
  <2>1. /\ conf \in Confs /\ Device(nic, qp) /\ nic \in NicRecord /\ spent \in Budget
        /\ bypassed \in [QPs -> Nat]
    BY DEF HostInv, Device
  <2>2. ASSUME NEW q \in QPs
        PROVE  /\ qp[q].open \in BOOLEAN /\ qp[q].gap \in Gaps
               /\ 0 <= qp[q].snd_una /\ qp[q].snd_una <= qp[q].snd_nxt
               /\ qp[q].snd_nxt <= Size
               /\ qp[q].nextAvail \in MinGap - MaxGap .. MaxGap
               /\ conf.win # 0 => qp[q].snd_nxt - qp[q].snd_una <= conf.win
    <3>1. qp[q] \in QpRecord /\ QueuePair(qp[q])
      BY <2>1 DEF Device
    <3> QED BY <2>1, <3>1, ConfTypes DEF QpRecord, QueuePair
  <2>3. /\ nic.qps \in Seq(QPs) /\ IsInjective(nic.qps)
        /\ nic.rrlast \in Nat /\ nic.ackQ \in 0 .. conf.acks /\ nic.paused \in BOOLEAN
        /\ nic.tx \in NoEvent .. TxTime /\ nic.nextSend \in NoEvent .. MaxGap
    BY <2>1 DEF Device, NicRecord
  <2>4. \A b \in DOMAIN spent : spent[b] \in 0 .. conf[b]
    BY <2>1 DEF Budget
  <2> QED BY <2>1, <2>2, <2>3, <2>4 DEF TypeOK
<1> QED BY <1>1, HostAlways, PTL

\* An idle device that is not paused has no answer to send, and if a queue pair
\* is willing to send then the timer is set, or a queue pair whose window is
\* closed waits for an ACK: NoEvent is never left where an event was needed,
\* by any handler, in any order of the events.
THEOREM NoWakeUpIsLost == Spec => []NoLostWakeUp
<1>1. HostInv => NoLostWakeUp
  BY DEF HostInv, Awake, NoLostWakeUp
<1> QED BY <1>1, HostAlways, PTL
-----------------------------------------------------------------------------
(***************************************************************************)
(* Turns.  A queue pair in the list is found in some turn k from m_rrlast  *)
(* on, and each packet that goes before it brings that turn nearer.  Only  *)
(* when a queue pair leaves the list may a turn be missed, and every queue *)
(* pair leaves it once, when it is finished.                               *)
(***************************************************************************)
Turn(n, k) == At(n, Scanned(n, k))

Gone(n, p) == {q \in QPs : IsFinished(p[q]) /\ q \notin ToSet(n.qps)}
Left(n, p) == Cardinality(Gone(n, p))

\* Nothing went before a queue pair of the list since one left it last, or the
\* turns to come are fewer by what went before.
Counted(n, p, b) ==
    \/ \A i \in 1 .. Len(n.qps) : b[n.qps[i]] <= Left(n, p) * conf.qps
    \/ /\ n.rrlast < Len(n.qps)
       /\ \A k \in 1 .. Len(n.qps) : b[Turn(n, k)] + k <= Left(n, p) * conf.qps + Len(n.qps)

Outside(n, p, b) ==
    \A q \in QPs \ ToSet(n.qps) : b[q] <= (1 + Left(n, p)) * (conf.qps - 1)

InTurn(n, p, b) == Counted(n, p, b) /\ Outside(n, p, b)

\* What these proofs need of a device: a finished queue pair has nothing to send.
Scheduler(n, p, b) ==
    /\ conf \in Confs /\ List(n.qps) /\ n.rrlast \in Nat /\ b \in [QPs -> Nat]
    /\ \A q \in QPs : IsFinished(p[q]) => ~(GetBytesLeft(p[q]) > 0)

LEMMA Products ==
    ASSUME NEW r \in Nat, NEW t \in Nat, r <= t, NEW a \in Nat
    PROVE  /\ r * a \in Nat /\ t * a \in Nat /\ r * a <= t * a
           /\ (1 + r) * a = r * a + a /\ (1 + r) * a <= (1 + t) * a
           /\ r + 1 <= t => r * a + a <= t * a
<1>1. PICK d \in Nat : t = r + d
  <2>1. t - r \in Nat /\ t = r + (t - r)
    OBVIOUS
  <2> QED BY <2>1
<1>2. t * a = r * a + d * a /\ r * a \in Nat /\ d * a \in Nat /\ (1 + r) * a = r * a + a
      /\ (1 + t) * a = t * a + a
  BY <1>1, SMTT(60)
<1>3. d # 0 => d * a >= a
  <2>1. SUFFICES ASSUME d # 0 PROVE d * a >= a
    OBVIOUS
  <2>2. d - 1 \in Nat /\ d * a = (d - 1) * a + a
    BY <2>1, SMTT(60)
  <2>3. (d - 1) * a \in Nat
    BY <2>2, SMTT(60)
  <2> QED BY <2>2, <2>3
<1> DEFINE x == r * a
           y == d * a
           z == t * a
           u == (1 + r) * a
           v == (1 + t) * a
<1>4. /\ x \in Nat /\ y \in Nat /\ z = x + y /\ u = x + a /\ v = z + a
      /\ d # 0 => y >= a
  BY <1>2, <1>3
<1> HIDE DEF x, y, z, u, v
<1>5. /\ x \in Nat /\ z \in Nat /\ x <= z /\ u = x + a /\ u <= v
      /\ r + 1 <= t => x + a <= z
  BY <1>1, <1>4
<1> QED BY <1>5 DEF x, y, z, u, v

LEMMA UpToFinite ==
    ASSUME NEW c \in Nat
    PROVE  IsFiniteSet(1 .. c) /\ Cardinality(1 .. c) = c
<1>1. /\ IsFiniteSet(1 .. c)
      /\ Cardinality(1 .. c) = IF 1 > c THEN 0 ELSE c - 1 + 1
  BY FS_Interval
<1>2. CASE 1 > c
  <2>1. c = 0
    BY <1>2
  <2> QED BY <1>1, <1>2, <2>1
<1>3. CASE ~(1 > c)
  <2>1. c - 1 + 1 = c
    OBVIOUS
  <2> QED BY <1>1, <1>3, <2>1
<1> QED BY <1>2, <1>3

\* Those that have left and those in the list are not more than there are.
LEMMA LeftBound ==
    ASSUME NEW STATE n, NEW STATE p, conf \in Confs, List(n.qps)
    PROVE  /\ Left(n, p) \in Nat /\ Len(n.qps) \in Nat /\ conf.qps \in Nat \ {0}
           /\ Left(n, p) + Len(n.qps) <= conf.qps
           /\ IsFiniteSet(Gone(n, p))
<1> DEFINE L == ToSet(n.qps)
           G == Gone(n, p)
<1>1. conf.qps \in Nat \ {0} /\ Len(n.qps) \in Nat /\ n.qps \in Seq(QPs)
  BY ConfTypes DEF List
<1>2. IsFiniteSet(QPs) /\ Cardinality(QPs) = conf.qps
  <2>1. conf.qps \in Nat
    BY <1>1
  <2> QED BY <2>1, UpToFinite DEF QPs
<1>3. L \subseteq QPs /\ G \subseteq QPs /\ G \cap L = {}
  BY <1>1 DEF ToSet, Gone
<1> HIDE DEF G
<1>4. IsFiniteSet(L) /\ Cardinality(L) = Len(n.qps)
  <2>1. /\ IsFiniteSet(1 .. Len(n.qps)) /\ Cardinality(1 .. Len(n.qps)) = Len(n.qps)
    BY <1>1, UpToFinite
  <2>2. n.qps \in [1 .. Len(n.qps) -> L]
    BY <1>1 DEF ToSet
  <2>3. n.qps \in Surjection(1 .. Len(n.qps), L)
    BY <1>1, <2>2 DEF ToSet, Surjection
  <2>4. n.qps \in Injection(1 .. Len(n.qps), L)
    BY <2>2 DEF Injection, List
  <2> HIDE DEF L
  <2> QED BY <2>1, <2>3, <2>4, FS_Surjection
<1> HIDE DEF L
<1>5. IsFiniteSet(G) /\ IsFiniteSet(L)
  BY <1>2, <1>3, FS_Subset
<1>6. /\ IsFiniteSet(G \cup L)
      /\ Cardinality(G \cup L) = Cardinality(G) + Cardinality(L) - Cardinality(G \cap L)
  BY <1>5, FS_Union
<1>7. Cardinality(G \cap L) = 0
  BY <1>3, FS_EmptySet
<1>8. Cardinality(G \cup L) <= Cardinality(QPs)
  <2>1. G \cup L \subseteq QPs
    BY <1>3
  <2> QED BY <1>2, <2>1, FS_Subset
<1>9. Cardinality(G) \in Nat
  BY <1>5, FS_CardinalityType
<1>10. Cardinality(G) + Len(n.qps) <= conf.qps
  BY <1>1, <1>2, <1>4, <1>6, <1>7, <1>8, <1>9
<1> QED BY <1>1, <1>5, <1>9, <1>10 DEF Left, G

\* What went before a queue pair of the list.
LEMMA InListBound ==
    ASSUME NEW STATE n, NEW STATE p, NEW STATE b, Scheduler(n, p, b), Counted(n, p, b),
           NEW i \in 1 .. Len(n.qps)
    PROVE  b[n.qps[i]] + 1 <= Left(n, p) * conf.qps + Len(n.qps)
<1> DEFINE len == Len(n.qps)
           most == Left(n, p) * conf.qps
<1>1. /\ len \in Nat \ {0} /\ Left(n, p) \in Nat /\ conf.qps \in Nat
      /\ n.qps[i] \in QPs /\ b[n.qps[i]] \in Nat /\ i - 1 \in 0 .. len - 1
  <2>1. /\ Len(n.qps) \in Nat /\ Left(n, p) \in Nat /\ conf.qps \in Nat
        /\ n.qps \in Seq(QPs) /\ b \in [QPs -> Nat]
    BY LeftBound DEF Scheduler, List
  <2>2. n.qps[i] \in QPs
    BY <2>1
  <2> QED BY <2>1, <2>2
<1>2. most \in Nat
  BY <1>1, Products
<1> HIDE DEF most
<1>3. CASE \A j \in 1 .. len : b[n.qps[j]] <= most
  <2>1. b[n.qps[i]] <= most
    BY <1>3
  <2> DEFINE x == b[n.qps[i]]
  <2>2. x \in Nat /\ x <= most /\ len \in Nat /\ len # 0
    BY <1>1, <2>1
  <2> HIDE DEF len, x
  <2>3. x + 1 <= most + len
    BY <1>2, <2>2
  <2> QED BY <2>3 DEF most, len, x
<1>4. CASE \A k \in 1 .. len : b[Turn(n, k)] + k <= most + len
  <2>1. PICK k \in 1 .. len : (k + n.rrlast) % len = i - 1
    <3>1. n.rrlast \in Nat
      BY DEF Scheduler
    <3> HIDE DEF len
    <3> QED BY <1>1, <3>1, EveryRemainder
  <2>2. Turn(n, k) = n.qps[i]
    <3>1. (i - 1) + 1 = i
      BY <1>1
    <3> QED BY <2>1, <3>1 DEF Turn, At, Scanned
  <2>3. b[n.qps[i]] + k <= most + len
    BY <1>4, <2>2
  <2> HIDE DEF len
  <2>4. k \in Nat \ {0}
    BY <1>1, <2>1
  <2>5. b[n.qps[i]] + 1 <= most + len
    BY <1>1, <1>2, <2>3, <2>4
  <2> QED BY <2>5 DEF most, len
<1> QED BY <1>3, <1>4 DEF Counted, most

\* So the property holds of a device in turn.
LEMMA TurnsBound ==
    ASSUME NEW STATE n, NEW STATE p, NEW STATE b, Scheduler(n, p, b), InTurn(n, p, b),
           NEW q \in QPs
    PROVE  b[q] <= (1 + Left(n, p)) * (conf.qps - 1)
<1> DEFINE len == Len(n.qps)
           r == Left(n, p)
           m == conf.qps - 1
<1>1. /\ len \in Nat /\ r \in Nat /\ m \in Nat /\ conf.qps = m + 1 /\ r + len <= m + 1
      /\ b[q] \in Nat
  BY LeftBound DEF Scheduler
<1>2. CASE q \notin ToSet(n.qps)
  BY <1>2 DEF InTurn, Outside
<1>3. CASE q \in ToSet(n.qps)
  <2>1. PICK i \in 1 .. len : q = n.qps[i]
    BY <1>3 DEF ToSet, Scheduler, List
  <2>2. b[q] + 1 <= r * conf.qps + len
    BY <2>1, InListBound DEF InTurn
  <2>3. r * m \in Nat /\ (1 + r) * m = r * m + m
    <3> HIDE DEF r, m
    <3> QED BY <1>1, Products
  <2>4. r * conf.qps = r * m + r
    <3> HIDE DEF r, m
    <3> QED BY <1>1, SMTT(60)
  <2> DEFINE x == r * m
             y == (1 + r) * m
             z == r * conf.qps
  <2>5. x \in Nat /\ y = x + m /\ z = x + r /\ b[q] + 1 <= z + len
    BY <2>2, <2>3, <2>4
  <2> HIDE DEF x, y, z, r, m, len
  <2>6. b[q] <= y
    BY <1>1, <2>5
  <2> QED BY <2>6 DEF y, r, m
<1> QED BY <1>2, <1>3

LEMMA ScannedIs ==
    ASSUME NEW STATE n, List(n.qps), n.rrlast \in Nat, n.rrlast < Len(n.qps),
           NEW k \in 1 .. Len(n.qps)
    PROVE  Scanned(n, k) = IF k + n.rrlast < Len(n.qps) THEN k + n.rrlast
                           ELSE k + n.rrlast - Len(n.qps)
<1> DEFINE b == Len(n.qps)
           a == k + n.rrlast
<1>1. b \in Nat \ {0} /\ a \in Nat /\ a < 2 * b
  BY DEF List
<1>2. Scanned(n, k) = a % b
  BY DEF Scanned
<1> HIDE DEF a, b
<1>3. CASE a < b
  <2>1. a = b * 0 + a /\ a \in 0 .. b - 1
    BY <1>1, <1>3
  <2>2. a % b = a
    BY <1>1, <2>1, OneRemainder
  <2> QED BY <1>2, <1>3, <2>2 DEF a, b
<1>4. CASE ~(a < b)
  <2>1. a = b * 1 + (a - b) /\ a - b \in 0 .. b - 1 /\ a \in Int
    BY <1>1, <1>4
  <2>2. a % b = a - b
    BY <1>1, <2>1, OneRemainder
  <2> QED BY <1>2, <1>4, <2>2 DEF a, b
<1> QED BY <1>3, <1>4

\* No queue pair before the one that is found may send.
LEMMA FoundFirst ==
    ASSUME NEW STATE n, NEW STATE p, List(n.qps), n.rrlast \in Nat,
           NEW k \in 1 .. Len(n.qps), k < Found(n, p)
    PROVE  ~May(n, p[Turn(n, k)])
<1> DEFINE hits == {l \in 1 .. Len(n.qps) : May(n, p[At(n, Scanned(n, l))])}
<1>1. Found(n, p) = IF hits = {} THEN 0 ELSE Min(hits)
  BY DEF Found
<1>2. SUFFICES ASSUME May(n, p[Turn(n, k)]) PROVE FALSE
  OBVIOUS
<1>3. k \in hits /\ hits \subseteq Nat /\ k \in Nat
  BY <1>2 DEF Turn
<1> HIDE DEF hits
<1>4. Found(n, p) = Min(hits) /\ Min(hits) \in hits /\ Min(hits) <= k
  BY <1>1, <1>3, MinOfNat
<1> DEFINE x == Min(hits)
<1>5. x \in Nat /\ Found(n, p) = x /\ x <= k
  BY <1>3, <1>4
<1> HIDE DEF x
<1> QED BY <1>3, <1>5

\* The list grows at its end.
LEMMA AppendInTurn ==
    ASSUME NEW STATE n, NEW STATE p, NEW STATE b, Scheduler(n, p, b), InTurn(n, p, b),
           NEW q \in QPs, q \notin ToSet(n.qps), ~IsFinished(p[q]), b[q] = 0,
           NEW STATE m, m.qps = Append(n.qps, q), m.rrlast = n.rrlast,
           NEW STATE o, \A k \in QPs : IsFinished(o[k]) <=> IsFinished(p[k])
    PROVE  InTurn(m, o, b)
<1> DEFINE len == Len(n.qps)
           r == Left(n, p)
           most == r * conf.qps
<1>1. /\ n.qps \in Seq(QPs) /\ len \in Nat /\ n.rrlast \in Nat /\ b \in [QPs -> Nat]
      /\ r \in Nat /\ conf.qps \in Nat
  BY LeftBound DEF Scheduler, List
<1>2. /\ Len(m.qps) = len + 1 /\ m.qps[len + 1] = q
      /\ \A i \in 1 .. len : m.qps[i] = n.qps[i]
  BY <1>1
<1>3. ToSet(m.qps) = ToSet(n.qps) \cup {q}
  <2>1. DOMAIN m.qps = 1 .. len + 1 /\ DOMAIN n.qps = 1 .. len
    BY <1>1, <1>2
  <2> QED BY <1>1, <1>2, <2>1 DEF ToSet
<1>4. Left(m, o) = r
  <2>1. Gone(m, o) = Gone(n, p)
    BY <1>3 DEF Gone
  <2> QED BY <2>1 DEF Left
<1>5. most \in Nat
  <2> HIDE DEF r
  <2> QED BY <1>1, Products
<1>6. Outside(m, o, b)
  BY <1>3, <1>4 DEF InTurn, Outside
<1> HIDE DEF most
<1>7. CASE \A i \in 1 .. len : b[n.qps[i]] <= most
  <2>1. ASSUME NEW i \in 1 .. len + 1 PROVE b[m.qps[i]] <= most
    <3>1. CASE i = len + 1
      BY <1>2, <1>5, <3>1
    <3>2. CASE i \in 1 .. len
      BY <1>2, <1>7, <3>2
    <3> QED BY <1>1, <3>1, <3>2
  <2> QED BY <1>2, <1>4, <1>6, <2>1 DEF InTurn, Counted, most
<1>8. CASE n.rrlast < len /\ \A k \in 1 .. len : b[Turn(n, k)] + k <= most + len
  <2>1. List(m.qps)
    <3>1. m.qps \in Seq(QPs)
      BY <1>1
    <3>2. \A i \in 1 .. len : n.qps[i] # q
      <4>1. DOMAIN n.qps = 1 .. len
        BY <1>1
      <4> QED BY <4>1 DEF ToSet
    <3>3. \A i, j \in 1 .. len : n.qps[i] = n.qps[j] => i = j
      BY <1>1 DEF Scheduler, List, IsInjective
    <3>4. ASSUME NEW i \in 1 .. len + 1, NEW j \in 1 .. len + 1, m.qps[i] = m.qps[j] PROVE i = j
      BY <1>1, <1>2, <3>2, <3>3, <3>4, SMTT(30)
    <3> QED BY <1>2, <3>1, <3>4 DEF List, IsInjective
  <2>2. ASSUME NEW k \in 1 .. len + 1 PROVE b[Turn(m, k)] + k <= most + (len + 1)
    <3>0. PICK rr \in Nat : rr = n.rrlast /\ rr < len
      BY <1>1, <1>8
    <3>a. \A l \in 1 .. len : Scanned(n, l) = IF l + rr < len THEN l + rr ELSE l + rr - len
      BY <3>0, ScannedIs DEF Scheduler
    <3>b. \A l \in 1 .. len : /\ Turn(n, l) = n.qps[Scanned(n, l) + 1]
                              /\ b[Turn(n, l)] + l <= most + len
      BY <1>8 DEF Turn, At
    <3>c. Turn(m, k) = m.qps[Scanned(m, k) + 1]
      BY DEF Turn, At
    <3>d. Scanned(m, k) = IF k + rr < len + 1 THEN k + rr ELSE k + rr - (len + 1)
      <4>1. m.rrlast \in Nat /\ m.rrlast < Len(m.qps) /\ k \in 1 .. Len(m.qps)
        BY <1>1, <1>2, <1>8
      <4>2. Scanned(m, k) = IF k + m.rrlast < Len(m.qps) THEN k + m.rrlast
                            ELSE k + m.rrlast - Len(m.qps)
        BY <2>1, <4>1, ScannedIs
      <4> QED BY <1>1, <1>2, <3>0, <4>2
    <3>e. len \in Nat /\ rr < len /\ k \in 1 .. len + 1 /\ \A i \in 1 .. len : b[n.qps[i]] \in Nat
      BY <1>1, <3>0
    <3> HIDE DEF len
    <3>2. CASE k + rr < len
      <4>1. k \in 1 .. len /\ k + rr + 1 \in 1 .. len
        BY <3>e, <3>2
      <4>2. Scanned(n, k) = k + rr /\ Scanned(m, k) = k + rr
        BY <3>a, <3>d, <3>e, <3>2, <4>1
      <4>3. Turn(m, k) = n.qps[k + rr + 1] /\ Turn(n, k) = n.qps[k + rr + 1]
        BY <1>2, <3>b, <3>c, <4>1, <4>2
      <4>4. PICK x \in Nat : x = b[Turn(m, k)] /\ x + k <= most + len
        BY <3>b, <3>e, <4>1, <4>3
      <4> QED BY <1>5, <3>e, <4>4
    <3>3. CASE k + rr = len
      <4>1. Scanned(m, k) = len
        BY <3>d, <3>e, <3>3
      <4>2. b[Turn(m, k)] = 0 /\ k <= len
        BY <1>2, <3>c, <3>e, <3>3, <4>1
      <4> QED BY <1>5, <3>e, <4>2
    <3>4. CASE k + rr > len
      <4>0. PICK l \in Nat : k = l + 1
        <5>1. k - 1 \in Nat /\ k = (k - 1) + 1
          BY <3>e
        <5> QED BY <5>1
      <4>1. PICK j \in Nat : j = l + rr - len
        <5>1. l + rr - len \in Nat
          BY <3>e, <3>4, <4>0
        <5> QED BY <5>1
      <4>2. /\ l \in 1 .. len /\ j + 1 \in 1 .. len
            /\ ~(l + rr < len) /\ ~(k + rr < len + 1) /\ k + rr - (len + 1) = j
        BY <3>e, <3>4, <4>0, <4>1
      <4>3. Scanned(n, l) = j /\ Scanned(m, k) = j
        <5>1. Scanned(n, l) = l + rr - len
          BY <3>a, <4>2
        <5>2. Scanned(m, k) = k + rr - (len + 1)
          BY <3>d, <4>2
        <5> QED BY <4>1, <4>2, <5>1, <5>2
      <4>4. Turn(m, k) = n.qps[j + 1] /\ Turn(n, l) = n.qps[j + 1]
        <5>1. Turn(m, k) = m.qps[j + 1]
          BY <3>c, <4>3
        <5>2. Turn(n, l) = n.qps[j + 1]
          BY <3>b, <4>2, <4>3
        <5> QED BY <1>2, <4>2, <5>1, <5>2
      <4>5. b[Turn(n, l)] + l <= most + len
        BY <3>b, <4>2
      <4>6. b[n.qps[j + 1]] \in Nat
        BY <3>e, <4>2
      <4>7. PICK x \in Nat : x = b[n.qps[j + 1]]
        BY <4>6
      <4>8. x + l <= most + len
        BY <4>4, <4>5, <4>7
      <4>9. x + k <= most + (len + 1)
        <5>1. len \in Nat /\ most \in Nat /\ l \in Nat /\ x \in Nat
          BY <1>5, <3>e
        <5>2. x + (l + 1) <= most + (len + 1)
          BY <4>8, <5>1
        <5> QED BY <4>0, <5>2
      <4> QED BY <4>4, <4>7, <4>9
    <3>5. k \in Nat /\ len \in Nat /\ rr \in Nat
      BY <3>e
    <3>6. k + rr < len \/ k + rr = len \/ k + rr > len
      BY <3>5
    <3> QED BY <3>2, <3>3, <3>4, <3>6
  <2>3. m.rrlast < Len(m.qps)
    BY <1>1, <1>2, <1>8
  <2> QED BY <1>2, <1>4, <1>6, <2>2, <2>3 DEF InTurn, Counted, most
<1> QED BY <1>7, <1>8 DEF InTurn, Counted, most

LEMMA ListedIs ==
    ASSUME NEW s, s \in Seq(QPs)
    PROVE  /\ \A i \in 1 .. Len(s) : s[i] \in QPs /\ s[i] \in ToSet(s)
           /\ \A q \in ToSet(s) : q \in QPs /\ \E i \in 1 .. Len(s) : q = s[i]
<1>1. DOMAIN s = 1 .. Len(s) /\ \A i \in 1 .. Len(s) : s[i] \in QPs
  OBVIOUS
<1> QED BY <1>1 DEF ToSet

\* More queue pairs have left.
LEMMA MoreGone ==
    ASSUME NEW STATE n, NEW STATE p, NEW STATE m, NEW STATE o, conf \in Confs,
           List(n.qps), List(m.qps), Gone(n, p) \subseteq Gone(m, o)
    PROVE  /\ Left(n, p) \in Nat /\ Left(m, o) \in Nat /\ Left(n, p) <= Left(m, o)
           /\ Gone(n, p) # Gone(m, o) => Left(n, p) + 1 <= Left(m, o)
<1>1. IsFiniteSet(Gone(n, p)) /\ IsFiniteSet(Gone(m, o)) /\ Left(n, p) \in Nat /\ Left(m, o) \in Nat
  BY LeftBound
<1> DEFINE S == Gone(n, p)
           T == Gone(m, o)
<1>2. IsFiniteSet(T) /\ S \subseteq T
  BY <1>1
<1>3. Left(n, p) = Cardinality(S) /\ Left(m, o) = Cardinality(T)
  BY DEF Left
<1> HIDE DEF S, T
<1>4. Cardinality(S) <= Cardinality(T) /\ (Cardinality(S) = Cardinality(T) => S = T)
  BY <1>2, FS_Subset
<1>5. Left(n, p) <= Left(m, o) /\ (S # T => Left(n, p) + 1 <= Left(m, o))
  BY <1>1, <1>3, <1>4
<1> QED BY <1>1, <1>5 DEF S, T

\* Nothing is sent and no queue pair leaves: the packets that are acknowledged
\* may finish some.
LEMMA SameListInTurn ==
    ASSUME NEW STATE n, NEW STATE p, NEW STATE b, Scheduler(n, p, b), InTurn(n, p, b),
           NEW STATE m, m.qps = n.qps, m.rrlast = n.rrlast,
           NEW STATE o, \A k \in QPs : IsFinished(p[k]) => IsFinished(o[k])
    PROVE  InTurn(m, o, b)
<1> DEFINE len == Len(n.qps)
           r == Left(n, p)
           t == Left(m, o)
<1>1. /\ n.qps \in Seq(QPs) /\ len \in Nat /\ b \in [QPs -> Nat] /\ conf \in Confs
      /\ List(n.qps) /\ List(m.qps) /\ n.rrlast \in Nat
  BY LeftBound DEF Scheduler, List
<1>2. r \in Nat /\ t \in Nat /\ r <= t
  <2>1. Gone(n, p) \subseteq Gone(m, o)
    BY DEF Gone
  <2> QED BY <1>1, <2>1, MoreGone
<1>3. conf.qps \in Nat \ {0}
  BY <1>1, ConfTypes
<1> DEFINE most == r * conf.qps
           more == t * conf.qps
<1>4. most \in Nat /\ more \in Nat /\ most <= more
  <2> HIDE DEF r, t
  <2> QED BY <1>2, <1>3, Products
<1>5. Outside(m, o, b)
  <2>1. (1 + r) * (conf.qps - 1) <= (1 + t) * (conf.qps - 1)
    <3>1. conf.qps - 1 \in Nat
      BY <1>3
    <3> HIDE DEF r, t
    <3> QED BY <1>2, <3>1, Products
  <2> DEFINE x == (1 + r) * (conf.qps - 1)
             y == (1 + t) * (conf.qps - 1)
  <2>2. x \in Int /\ y \in Int
    BY <1>2, <1>3
  <2>3. \A q \in QPs \ ToSet(n.qps) : b[q] <= x
    BY DEF InTurn, Outside
  <2>4. x <= y
    BY <2>1
  <2> HIDE DEF x, y
  <2>5. \A q \in QPs \ ToSet(n.qps) : b[q] <= y
    BY <1>1, <2>2, <2>3, <2>4
  <2> QED BY <2>5 DEF Outside, y
<1>6. \A i \in 1 .. len : b[n.qps[i]] \in Nat /\ b[Turn(n, i)] \in Nat /\ Turn(m, i) = Turn(n, i)
  <2>1. ASSUME NEW i \in 1 .. len PROVE n.qps[i] \in QPs /\ Turn(n, i) \in QPs
    <3>1. Scanned(n, i) \in 0 .. len - 1
      BY <1>1, ScannedType
    <3> QED BY <1>1, <3>1 DEF Turn, At
  <2> QED BY <1>1, <2>1 DEF Turn, At, Scanned
<1> HIDE DEF most, more
<1>7. CASE \A i \in 1 .. len : b[n.qps[i]] <= most
  <2>1. \A i \in 1 .. len : b[m.qps[i]] <= more
    BY <1>4, <1>6, <1>7
  <2> QED BY <1>5, <2>1 DEF InTurn, Counted, more
<1>8. CASE n.rrlast < len /\ \A k \in 1 .. len : b[Turn(n, k)] + k <= most + len
  <2>1. ASSUME NEW k \in 1 .. len PROVE b[Turn(m, k)] + k <= more + len
    <3>1. b[Turn(n, k)] + k <= most + len /\ b[Turn(n, k)] \in Nat /\ Turn(m, k) = Turn(n, k)
      BY <1>6, <1>8
    <3>2. PICK x \in Nat : x = b[Turn(n, k)]
      BY <3>1
    <3> HIDE DEF len
    <3>3. x + k <= more + len
      BY <1>1, <1>4, <3>1, <3>2
    <3> QED BY <3>1, <3>2, <3>3
  <2> QED BY <1>5, <1>8, <2>1 DEF InTurn, Counted, more
<1> QED BY <1>7, <1>8 DEF InTurn, Counted, most

\* A queue pair leaves the list: the turns are counted anew.
LEMMA RemovalInTurn ==
    ASSUME NEW STATE n, NEW STATE p, NEW STATE b, Scheduler(n, p, b), InTurn(n, p, b),
           NEW STATE m, List(m.qps), ToSet(m.qps) \subseteq ToSet(n.qps),
           NEW STATE o, \A k \in QPs : IsFinished(p[k]) => IsFinished(o[k]),
           NEW STATE g, g \in ToSet(n.qps), g \notin ToSet(m.qps), IsFinished(p[g]),
           NEW STATE c, c \in [QPs -> Nat], \A k \in QPs : c[k] <= b[k] + 1,
           \A k \in QPs \ ToSet(m.qps) : c[k] <= b[k]
    PROVE  InTurn(m, o, c)
<1> DEFINE len == Len(n.qps)
           r == Left(n, p)
           t == Left(m, o)
           a == conf.qps
<1>1. /\ n.qps \in Seq(QPs) /\ m.qps \in Seq(QPs) /\ b \in [QPs -> Nat] /\ conf \in Confs
      /\ List(n.qps) /\ n.rrlast \in Nat
  BY DEF Scheduler, List
<1>2. len \in Nat /\ a \in Nat \ {0} /\ len <= a /\ r \in Nat /\ t \in Nat /\ r + 1 <= t
  <2>1. Gone(n, p) \subseteq Gone(m, o)
    BY DEF Gone
  <2>2. g \in QPs
    BY <1>1 DEF ToSet
  <2>3. Gone(n, p) # Gone(m, o)
    BY <2>2 DEF Gone
  <2>4. r \in Nat /\ t \in Nat /\ r + 1 <= t
    BY <1>1, <2>1, <2>3, MoreGone
  <2>5. len \in Nat /\ a \in Nat \ {0} /\ r + len <= a
    BY <1>1, LeftBound
  <2> QED BY <2>4, <2>5
<1>3. ASSUME NEW i \in 1 .. Len(m.qps) PROVE c[m.qps[i]] <= t * a
  <2>1. m.qps[i] \in ToSet(m.qps) /\ m.qps[i] \in QPs
    BY <1>1, ListedIs
  <2>2. PICK j \in 1 .. len : m.qps[i] = n.qps[j]
    <3>1. m.qps[i] \in ToSet(n.qps)
      BY <2>1
    <3> QED BY <1>1, <3>1, ListedIs
  <2>3. b[n.qps[j]] + 1 <= r * a + len
    BY InListBound DEF InTurn
  <2>4. PICK x \in Nat, y \in Nat : x = b[n.qps[j]] /\ y = c[m.qps[i]]
    BY <1>1, <2>1, <2>2
  <2>5. y <= x + 1 /\ x + 1 <= r * a + len
    BY <2>1, <2>2, <2>3, <2>4
  <2>6. r * a \in Nat /\ t * a \in Nat /\ r * a + a <= t * a
    <3> HIDE DEF r, t, a
    <3>1. r <= t
      BY <1>2
    <3> QED BY <1>2, <3>1, Products
  <2> DEFINE u == r * a
             v == t * a
  <2>7. u \in Nat /\ v \in Nat /\ u + a <= v /\ x + 1 <= u + len
    BY <2>5, <2>6
  <2> HIDE DEF u, v, a, len
  <2>8. y <= v
    BY <1>2, <2>5, <2>7
  <2> QED BY <2>4, <2>8 DEF v, a
<1>4. ASSUME NEW q \in QPs \ ToSet(m.qps) PROVE c[q] <= (1 + t) * (a - 1)
  <2>1. b[q] <= (1 + r) * (a - 1)
    BY TurnsBound
  <2>2. PICK x \in Nat, y \in Nat : x = b[q] /\ y = c[q] /\ y <= x
    BY <1>1
  <2>3. (1 + r) * (a - 1) <= (1 + t) * (a - 1)
    <3>1. a - 1 \in Nat /\ r <= t
      BY <1>2
    <3> HIDE DEF r, t, a
    <3> QED BY <1>2, <3>1, Products
  <2> DEFINE u == (1 + r) * (a - 1)
             v == (1 + t) * (a - 1)
  <2>4. u \in Int /\ v \in Int /\ u <= v /\ x <= u
    BY <1>2, <2>1, <2>2, <2>3
  <2> HIDE DEF u, v
  <2>5. y <= v
    BY <2>2, <2>4
  <2> QED BY <2>2, <2>5 DEF v
<1> QED BY <1>3, <1>4 DEF InTurn, Counted, Outside

\* Counting on from the turn of the queue pair that was found.
LEMMA TurnsFromFound ==
    ASSUME NEW STATE n, List(n.qps), n.rrlast \in Nat, n.rrlast < Len(n.qps),
           NEW STATE f, f \in 1 .. Len(n.qps), NEW k \in 1 .. Len(n.qps),
           NEW STATE m, m.qps = n.qps, m.rrlast = Scanned(n, f)
    PROVE  Turn(m, k) = Turn(n, IF f + k <= Len(n.qps) THEN f + k ELSE f + k - Len(n.qps))
<1> DEFINE len == Len(n.qps)
           l == IF f + k <= len THEN f + k ELSE f + k - len
<1>1. len \in Nat /\ l \in 1 .. len
  <2>1. len \in Nat
    BY DEF List
  <2>2. f \in 1 .. len /\ k \in 1 .. len
    OBVIOUS
  <2> HIDE DEF len
  <2> QED BY <2>1, <2>2
<1>2. Scanned(n, f) = IF f + n.rrlast < len THEN f + n.rrlast ELSE f + n.rrlast - len
  BY ScannedIs
<1>3. Scanned(n, l) = IF l + n.rrlast < len THEN l + n.rrlast ELSE l + n.rrlast - len
  <2> HIDE DEF l
  <2> QED BY <1>1, ScannedIs
<1>4. m.rrlast \in Nat /\ m.rrlast < len
  <2>1. PICK rr \in Nat : rr = n.rrlast
    OBVIOUS
  <2>2. PICK x \in Int : x = Scanned(n, f)
    BY <1>1, <1>2
  <2>3. rr < len /\ f \in 1 .. len /\ x = IF f + rr < len THEN f + rr ELSE f + rr - len
    BY <1>2, <2>1, <2>2
  <2> HIDE DEF len
  <2>4. x \in Nat /\ x < len
    BY <1>1, <2>3
  <2> QED BY <2>2, <2>4 DEF len
<1>5. Scanned(m, k) = IF k + m.rrlast < len THEN k + m.rrlast ELSE k + m.rrlast - len
  <2>1. List(m.qps) /\ m.rrlast < Len(m.qps) /\ k \in 1 .. Len(m.qps)
    BY <1>4
  <2> QED BY <1>4, <2>1, ScannedIs
<1>6. PICK rr \in Nat : rr = n.rrlast
  OBVIOUS
<1>7. Scanned(m, k) = Scanned(n, l)
  <2>1. rr < len /\ f \in 1 .. len /\ k \in 1 .. len
    BY <1>6
  <2> DEFINE x == Scanned(n, f)
             y == Scanned(n, l)
             z == Scanned(m, k)
  <2>2. /\ x = IF f + rr < len THEN f + rr ELSE f + rr - len
        /\ y = IF l + rr < len THEN l + rr ELSE l + rr - len
        /\ z = IF k + x < len THEN k + x ELSE k + x - len
    BY <1>2, <1>3, <1>5, <1>6
  <2>3. l = IF f + k <= len THEN f + k ELSE f + k - len
    OBVIOUS
  <2> HIDE DEF x, y, z, len, l
  <2>4. y = z
    BY <1>1, <2>1, <2>2, <2>3
  <2> QED BY <2>4 DEF y, z
<1> QED BY <1>7 DEF Turn, At

\* A queue pair takes its turn and all stay in the list.
LEMMA TurnTaken ==
    ASSUME NEW STATE n, NEW STATE p, NEW STATE b, Scheduler(n, p, b), InTurn(n, p, b),
           NEW STATE f, f \in 1 .. Len(n.qps), f = Found(n, p),
           NEW STATE m, m.qps = n.qps, m.rrlast = Scanned(n, f),
           NEW STATE o, \A k \in QPs : IsFinished(p[k]) => IsFinished(o[k]),
           NEW STATE c, c \in [QPs -> Nat],
           \A k \in QPs : \/ c[k] = 0
                          \/ May(n, p[k]) /\ k # Turn(n, f) /\ c[k] = b[k] + 1,
           \A k \in QPs \ ToSet(n.qps) : c[k] = 0
    PROVE  InTurn(m, o, c)
<1> DEFINE len == Len(n.qps)
           r == Left(n, p)
           t == Left(m, o)
           most == r * conf.qps
           more == t * conf.qps
<1>1. /\ n.qps \in Seq(QPs) /\ len \in Nat \ {0} /\ b \in [QPs -> Nat] /\ conf \in Confs
      /\ List(n.qps) /\ List(m.qps) /\ n.rrlast \in Nat
  BY DEF Scheduler, List
<1>2. r \in Nat /\ t \in Nat /\ r <= t
  <2>1. Gone(n, p) \subseteq Gone(m, o)
    BY DEF Gone
  <2> QED BY <1>1, <2>1, MoreGone
<1>3. most \in Nat /\ more \in Nat /\ most <= more /\ (1 + t) * (conf.qps - 1) \in Nat
  <2>1. conf.qps \in Nat \ {0}
    BY <1>1, ConfTypes
  <2>2. 1 + t \in Nat /\ conf.qps - 1 \in Nat
    BY <1>2, <2>1
  <2> HIDE DEF r, t
  <2>3. (1 + t) * (conf.qps - 1) \in Nat
    BY <2>2, Products
  <2> QED BY <1>2, <2>1, <2>3, Products
<1>4. Outside(m, o, c)
  <2> DEFINE v == (1 + t) * (conf.qps - 1)
  <2>1. v \in Nat
    BY <1>3
  <2> HIDE DEF v
  <2>2. \A k \in QPs \ ToSet(m.qps) : c[k] <= v
    BY <2>1
  <2> QED BY <2>2 DEF Outside, v
<1>5. m.rrlast \in 0 .. len - 1
  BY <1>1, ScannedType
<1>6. Turn(m, len) = Turn(n, f)
  <2>1. List(m.qps) /\ m.rrlast \in Nat /\ m.rrlast < Len(m.qps) /\ len \in 1 .. Len(m.qps)
    <3>1. m.rrlast \in Nat /\ m.rrlast < len
      BY <1>5
    <3>2. Len(m.qps) = len /\ len \in 1 .. len
      BY <1>1
    <3> QED BY <1>1, <3>1, <3>2
  <2>2. Scanned(m, len) = IF len + m.rrlast < len THEN len + m.rrlast ELSE len + m.rrlast - len
    BY <2>1, ScannedIs
  <2>3. Scanned(m, len) = m.rrlast
    BY <1>1, <1>5, <2>2
  <2> QED BY <2>3 DEF Turn, At
<1>7. ASSUME NEW k \in 1 .. len PROVE Turn(m, k) \in QPs /\ Turn(m, k) \in ToSet(n.qps)
  <2>1. Scanned(m, k) \in 0 .. len - 1
    <3>1. m.rrlast \in Nat /\ List(m.qps) /\ m.qps # << >> /\ k \in Nat
      BY <1>1, <1>5
    <3> QED BY <3>1, ScannedType
  <2>2. Scanned(m, k) + 1 \in 1 .. len
    BY <1>1, <2>1
  <2> QED BY <1>1, <2>2, ListedIs DEF Turn, At
<1> SUFFICES ASSUME NEW k \in 1 .. len PROVE c[Turn(m, k)] + k <= more + len
  BY <1>1, <1>4, <1>5 DEF InTurn, Counted, more
<1>8. CASE c[Turn(m, k)] = 0
  <2> HIDE DEF more, len
  <2> QED BY <1>1, <1>3, <1>8
<1>9. CASE c[Turn(m, k)] # 0
  <2>1. /\ May(n, p[Turn(m, k)]) /\ Turn(m, k) # Turn(n, f)
        /\ c[Turn(m, k)] = b[Turn(m, k)] + 1
    BY <1>7, <1>9
  <2>2. PICK x \in Nat : x = b[Turn(m, k)]
    BY <1>1, <1>7
  <2>3. k # len
    BY <1>6, <2>1
  <2>4. CASE \A i \in 1 .. len : b[n.qps[i]] <= most
    <3>1. x <= most
      <4>1. PICK i \in 1 .. len : Turn(m, k) = n.qps[i]
        BY <1>1, <1>7, ListedIs
      <4>2. b[n.qps[i]] <= most
        BY <2>4
      <4> QED BY <2>2, <4>1, <4>2
    <3> HIDE DEF most, more, len
    <3>2. x + 1 + k <= more + len
      BY <1>1, <1>3, <2>3, <3>1
    <3> QED BY <2>1, <2>2, <3>2
  <2>5. CASE n.rrlast < len /\ \A l \in 1 .. len : b[Turn(n, l)] + l <= most + len
    <3> DEFINE l == IF f + k <= len THEN f + k ELSE f + k - len
    <3>1. Turn(m, k) = Turn(n, l)
      BY <1>1, <2>5, TurnsFromFound, SMTT(40)
    <3>2. CASE f + k <= len
      <4>1. f + k \in 1 .. len /\ l = f + k
        BY <1>1, <3>2
      <4>2. x + (f + k) <= most + len
        BY <2>2, <2>5, <3>1, <4>1
      <4> HIDE DEF most, more, len, l
      <4>3. x + 1 + k <= more + len
        BY <1>1, <1>3, <4>2
      <4> QED BY <2>1, <2>2, <4>3
    <3>3. CASE ~(f + k <= len)
      <4>1. l \in 1 .. len /\ l < f
        <5>1. l = f + k - len /\ k \in 1 .. len /\ f \in 1 .. len
          BY <3>3
        <5> HIDE DEF l, len
        <5>2. PICK ff \in Nat : ff = f
          BY <1>1, <5>1
        <5>3. PICK u \in Nat, v \in Nat : u = len /\ v = k
          BY <1>1, <5>1
        <5>4. l = ff + v - u /\ ff <= u /\ v < u /\ ff + v > u
          BY <2>3, <3>3, <5>1, <5>2, <5>3
        <5>5. l \in 1 .. u /\ l < ff
          BY <5>4
        <5> QED BY <5>2, <5>3, <5>5
      <4> HIDE DEF l
      <4>2. ~May(n, p[Turn(n, l)])
        BY <1>1, <4>1, FoundFirst
      <4> QED BY <2>1, <3>1, <4>2
    <3> QED BY <3>2, <3>3
  <2> QED BY <2>4, <2>5 DEF InTurn, Counted, most
<1> QED BY <1>8, <1>9

\* Who leaves the list is finished, and somebody does if one was passed over.
LEMMA KeptLeaves ==
    ASSUME NEW STATE n, NEW STATE p, List(n.qps), n.rrlast \in Nat
    PROVE  /\ List(Kept(n, p)) /\ ToSet(Kept(n, p)) \subseteq ToSet(n.qps)
           /\ \A k \in ToSet(n.qps) \ ToSet(Kept(n, p)) : IsFinished(p[k])
           /\ \/ Cleared(n, p) = {} /\ Kept(n, p) = n.qps
              \/ ToSet(n.qps) \ ToSet(Kept(n, p)) # {}
<1> DEFINE new == Kept(n, p)
           len == Len(n.qps)
           S == Staying(n, p)
           from == Min(Cleared(n, p))
<1>1. n.qps \in Seq(QPs) /\ len \in Nat /\ List(new) /\ new \in Seq(QPs)
  BY KeptIsList DEF List
<1>2. ToSet(new) \subseteq ToSet(n.qps)
  <2>1. \A k \in 1 .. Len(new) : \E j \in 1 .. len : new[k] = n.qps[j]
    BY KeptIsList
  <2> HIDE DEF new
  <2> QED BY <1>1, <2>1, ListedIs
<1>3. CASE Cleared(n, p) = {}
  BY <1>1, <1>3 DEF Kept
<1>4. CASE Cleared(n, p) # {}
  <2>1. new = Only(n, S) /\ S \subseteq 0 .. len - 1
    BY <1>4 DEF Kept, Staying
  <2>2. /\ DrawnFrom(new, n, S)
        /\ \A i \in S : Place(S, i) \in 0 .. Len(new) - 1 /\ new[Place(S, i) + 1] = At(n, i)
    <3> HIDE DEF S
    <3> QED BY <2>1, OnlyIsList
  <2>3. from \in 0 .. len - 1 /\ IsFinished(p[At(n, from)])
    BY <1>4, ClearedFinished
  <2>4. ASSUME NEW k \in ToSet(n.qps), k \notin ToSet(new) PROVE IsFinished(p[k])
    <3>1. PICK j \in 1 .. len : k = n.qps[j]
      BY <1>1, ListedIs
    <3>2. j - 1 \in 0 .. len - 1 /\ At(n, j - 1) = k
      <4>1. (j - 1) + 1 = j
        BY <1>1
      <4> QED BY <1>1, <3>1, <4>1 DEF At
    <3>3. SUFFICES ASSUME ~IsFinished(p[k]) PROVE FALSE
      OBVIOUS
    <3>4. j - 1 \in S
      BY <3>2, <3>3 DEF Staying
    <3>5. Place(S, j - 1) \in 0 .. Len(new) - 1 /\ new[Place(S, j - 1) + 1] = k
      BY <2>2, <3>2, <3>4
    <3> DEFINE y == Place(S, j - 1)
    <3> HIDE DEF y, new
    <3>6. y + 1 \in 1 .. Len(new)
      BY <1>1, <3>5 DEF y
    <3>7. new[y + 1] \in ToSet(new)
      BY <1>1, <3>6, ListedIs
    <3> QED BY <2>4, <3>5, <3>7 DEF y
  <2>5. At(n, from) \in ToSet(n.qps)
    <3>1. from + 1 \in 1 .. len
      <4> HIDE DEF from
      <4> QED BY <1>1, <2>3
    <3> QED BY <1>1, <3>1, ListedIs DEF At
  <2>6. At(n, from) \notin ToSet(new)
    <3>1. SUFFICES ASSUME At(n, from) \in ToSet(new) PROVE FALSE
      OBVIOUS
    <3>2. PICK i \in S : At(n, from) = At(n, i)
      <4> HIDE DEF new, from, S
      <4>1. PICK k \in 1 .. Len(new) : At(n, from) = new[k]
        BY <1>1, <3>1, ListedIs
      <4> QED BY <2>2, <4>1 DEF DrawnFrom
    <3>3. i \in 0 .. len - 1 /\ (i < from \/ ~IsFinished(p[At(n, i)]))
      BY DEF Staying
    <3>4. i < from
      BY <2>3, <3>2, <3>3
    <3>5. i + 1 \in DOMAIN n.qps /\ from + 1 \in DOMAIN n.qps /\ i + 1 # from + 1
      <4>1. DOMAIN n.qps = 1 .. len
        BY <1>1
      <4> HIDE DEF from
      <4> QED BY <1>1, <2>3, <3>3, <3>4, <4>1
    <3> QED BY <3>2, <3>5 DEF At, List, IsInjective
  <2> QED BY <1>1, <1>2, <2>4, <2>5, <2>6
<1> QED BY <1>3, <1>4
-----------------------------------------------------------------------------
(***************************************************************************)
(* A call of DequeueAndTransmit leaves the device in turn.                 *)
(***************************************************************************)

\* What has gone before each queue pair once "sent" have sent.
Passed(n, p, b, sent) ==
    [q \in QPs |->
        IF sent = {} THEN b[q]
        ELSE IF q \in sent \/ q \notin ToSet(n.qps) \/ ~May(n, p[q]) THEN 0
        ELSE b[q] + 1]

LEMMA PassedType ==
    ASSUME NEW STATE n, NEW STATE p, NEW STATE b, b \in [QPs -> Nat], NEW STATE sent
    PROVE  /\ Passed(n, p, b, sent) \in [QPs -> Nat]
           /\ \A q \in QPs : Passed(n, p, b, sent)[q] <= b[q] + 1
           /\ \A q \in QPs \ ToSet(n.qps) : Passed(n, p, b, sent)[q] <= b[q]
           /\ sent = {} => Passed(n, p, b, sent) = b
<1>1. ASSUME NEW q \in QPs
      PROVE  /\ Passed(n, p, b, sent)[q] \in Nat
             /\ Passed(n, p, b, sent)[q] <= b[q] + 1
             /\ q \notin ToSet(n.qps) => Passed(n, p, b, sent)[q] <= b[q]
             /\ sent = {} => Passed(n, p, b, sent)[q] = b[q]
  <2>1. b[q] \in Nat
    OBVIOUS
  <2>2. Passed(n, p, b, sent)[q] =
          IF sent = {} THEN b[q]
          ELSE IF q \in sent \/ q \notin ToSet(n.qps) \/ ~May(n, p[q]) THEN 0
          ELSE b[q] + 1
    BY DEF Passed
  <2> QED BY <2>1, <2>2
<1>2. Passed(n, p, b, sent) \in [QPs -> Nat]
  <2>1. Passed(n, p, b, sent) = [q \in QPs |-> Passed(n, p, b, sent)[q]]
    BY DEF Passed
  <2> QED BY <1>1, <2>1
<1>3. sent = {} => Passed(n, p, b, sent) = b
  BY <1>1, <1>2
<1> QED BY <1>1, <1>2, <1>3

LEMMA SendDataTurns ==
    ASSUME NEW STATE n, NEW STATE p, NEW STATE b, Device(n, p), Scheduler(n, p, b),
           InTurn(n, p, b), Found(n, p) # 0
    PROVE  InTurn(SendData(n, p).nic, SendData(n, p).qp, Passed(n, p, b, SendData(n, p).sent))
<1> DEFINE f == Found(n, p)
           res == Scanned(n, f)
           m == SendData(n, p).nic
           o == SendData(n, p).qp
           c == Passed(n, p, b, SendData(n, p).sent)
<1>1. /\ List(n.qps) /\ n.rrlast \in Nat /\ b \in [QPs -> Nat] /\ conf \in Confs
      /\ \A q \in QPs : IsFinished(p[q]) => ~(GetBytesLeft(p[q]) > 0)
      /\ n \in NicRecord /\ p \in [QPs -> QpRecord] /\ n.qps \in Seq(QPs)
  BY DEF Scheduler, Device, List
<1>2. f \in 1 .. Len(n.qps) /\ res \in 0 .. Len(n.qps) - 1 /\ May(n, p[At(n, res)])
  BY <1>1, FoundMay, LenProperties DEF List
<1>3. Turn(n, f) = At(n, res) /\ At(n, res) \in QPs /\ ~IsFinished(p[At(n, res)])
  <2>1. At(n, res) \in QPs
    <3>1. res + 1 \in 1 .. Len(n.qps)
      <4> HIDE DEF res
      <4> QED BY <1>1, <1>2, LenProperties
    <3> QED BY <1>1, <3>1 DEF At
  <2> QED BY <1>1, <1>2, <2>1 DEF Turn, May, Willing
<1>4. /\ m.qps = Kept(n, p) /\ m.rrlast = NewIndex(n, p, res)
      /\ SendData(n, p).sent = {At(m, m.rrlast)}
  BY <1>1 DEF SendData, NicRecord
<1>5. At(m, m.rrlast) = Turn(n, f)
  <2>1. Kept(n, p)[NewIndex(n, p, res) + 1] = At(n, res)
    BY <1>1, <1>2, <1>3, NewIndexRight
  <2> QED BY <1>3, <1>4, <2>1 DEF At
<1>6. \A k \in QPs : IsFinished(p[k]) => IsFinished(o[k])
  <2>1. \A k \in QPs : o[k].snd_una = p[k].snd_una
    BY <1>1 DEF SendData, QpRecord
  <2> QED BY <2>1 DEF IsFinished
<1>7. /\ c \in [QPs -> Nat] /\ \A k \in QPs : c[k] <= b[k] + 1
  BY <1>1, PassedType
<1>8. \A k \in QPs :
         /\ c[k] = 0 \/ (May(n, p[k]) /\ k # Turn(n, f) /\ c[k] = b[k] + 1)
         /\ k \notin ToSet(n.qps) \/ ~May(n, p[k]) => c[k] = 0
  BY <1>4, <1>5 DEF Passed
<1> HIDE DEF m, o, c
<1>9. CASE Cleared(n, p) = {}
  <2>1. m.qps = n.qps /\ m.rrlast = res
    BY <1>4, <1>9 DEF Kept, NewIndex
  <2> HIDE DEF f
  <2>2. InTurn(m, o, c)
    BY <1>2, <1>6, <1>7, <1>8, <2>1, TurnTaken DEF f
  <2> QED BY <2>2 DEF m, o, c
<1>10. CASE ToSet(n.qps) \ ToSet(Kept(n, p)) # {}
  <2>1. PICK g \in ToSet(n.qps) : g \notin ToSet(m.qps)
    BY <1>4, <1>10
  <2>2. /\ List(m.qps) /\ ToSet(m.qps) \subseteq ToSet(n.qps)
        /\ \A k \in ToSet(n.qps) \ ToSet(m.qps) : IsFinished(p[k])
    BY <1>1, <1>4, KeptLeaves
  <2>3. IsFinished(p[g])
    BY <2>1, <2>2
  <2>4. \A k \in QPs \ ToSet(m.qps) : c[k] <= b[k]
    <3>1. ASSUME NEW k \in QPs, k \notin ToSet(m.qps) PROVE c[k] = 0
      BY <1>1, <1>8, <2>2, <3>1 DEF May, Willing
    <3> QED BY <1>1, <3>1
  <2>5. InTurn(m, o, c)
    BY <1>6, <1>7, <2>1, <2>2, <2>3, <2>4, RemovalInTurn
  <2> QED BY <2>5 DEF m, o, c
<1>11. Cleared(n, p) = {} \/ ToSet(n.qps) \ ToSet(Kept(n, p)) # {}
  BY <1>1, KeptLeaves
<1> QED BY <1>9, <1>10, <1>11

LEMMA SetTimerTurns ==
    ASSUME NEW STATE n, NEW STATE p, NEW STATE b, Device(n, p), Scheduler(n, p, b), InTurn(n, p, b)
    PROVE  InTurn(SetTimer(n, p).nic, SetTimer(n, p).qp, Passed(n, p, b, SetTimer(n, p).sent))
<1> DEFINE m == SetTimer(n, p).nic
<1>1. /\ List(n.qps) /\ n.rrlast \in Nat /\ b \in [QPs -> Nat]
      /\ \A q \in QPs : IsFinished(p[q]) => ~(GetBytesLeft(p[q]) > 0)
      /\ n \in NicRecord
  BY DEF Scheduler, Device, List
<1>2. /\ m.qps = Kept(n, p) /\ m.rrlast = n.rrlast
      /\ SetTimer(n, p).qp = p /\ SetTimer(n, p).sent = {}
  BY <1>1 DEF SetTimer, Quiet, NicRecord
<1>3. Passed(n, p, b, SetTimer(n, p).sent) = b
  BY <1>1, <1>2, PassedType
<1> HIDE DEF m
<1>4. CASE Kept(n, p) = n.qps
  <2>1. m.qps = n.qps
    BY <1>2, <1>4
  <2>2. InTurn(m, p, b)
    BY <1>2, <2>1, SameListInTurn
  <2> QED BY <1>2, <1>3, <2>2 DEF m
<1>5. CASE ToSet(n.qps) \ ToSet(Kept(n, p)) # {}
  <2>1. PICK g \in ToSet(n.qps) : g \notin ToSet(m.qps)
    BY <1>2, <1>5
  <2>2. /\ List(m.qps) /\ ToSet(m.qps) \subseteq ToSet(n.qps)
        /\ \A k \in ToSet(n.qps) \ ToSet(m.qps) : IsFinished(p[k])
    BY <1>1, <1>2, KeptLeaves
  <2>3. IsFinished(p[g])
    BY <2>1, <2>2
  <2>4. \A k \in QPs : b[k] <= b[k] + 1 /\ b[k] <= b[k]
    BY <1>1
  <2>5. InTurn(m, p, b)
    BY <1>1, <2>1, <2>2, <2>3, <2>4, RemovalInTurn
  <2> QED BY <1>2, <1>3, <2>5 DEF m
<1> QED BY <1>1, <1>4, <1>5, KeptLeaves

LEMMA DequeueTurns ==
    ASSUME NEW STATE n, NEW STATE p, NEW STATE b, Device(n, p), Scheduler(n, p, b), InTurn(n, p, b)
    PROVE  LET d == DequeueAndTransmit(n, p)
           IN  /\ InTurn(d.nic, d.qp, Passed(n, p, b, d.sent))
               /\ \A k \in QPs : d.qp[k].open = p[k].open /\ d.qp[k].snd_una = p[k].snd_una
<1>1. n \in NicRecord /\ p \in [QPs -> QpRecord] /\ b \in [QPs -> Nat]
  BY DEF Device, Scheduler
<1>2. InTurn(Quiet(n, p).nic, Quiet(n, p).qp, Passed(n, p, b, Quiet(n, p).sent))
  <2>1. Quiet(n, p).nic = n /\ Quiet(n, p).qp = p /\ Quiet(n, p).sent = {}
    BY DEF Quiet
  <2>2. Passed(n, p, b, Quiet(n, p).sent) = b
    BY <1>1, <2>1, PassedType, SMTT(30)
  <2> QED BY <2>1, <2>2
<1>3. InTurn(SendAck(n, p).nic, SendAck(n, p).qp, Passed(n, p, b, SendAck(n, p).sent))
  <2>1. /\ SendAck(n, p).nic.qps = n.qps /\ SendAck(n, p).nic.rrlast = n.rrlast
        /\ SendAck(n, p).qp = p /\ SendAck(n, p).sent = {}
    BY <1>1 DEF SendAck, Quiet, NicRecord
  <2>2. Passed(n, p, b, SendAck(n, p).sent) = b
    BY <1>1, <2>1, PassedType
  <2>3. InTurn(SendAck(n, p).nic, p, b)
    BY <2>1, SameListInTurn
  <2> QED BY <2>1, <2>2, <2>3
<1>4. Found(n, p) # 0 =>
        InTurn(SendData(n, p).nic, SendData(n, p).qp, Passed(n, p, b, SendData(n, p).sent))
  BY SendDataTurns
<1>5. InTurn(SetTimer(n, p).nic, SetTimer(n, p).qp, Passed(n, p, b, SetTimer(n, p).sent))
  BY SetTimerTurns
<1>6. \A k \in QPs : /\ SendData(n, p).qp[k].open = p[k].open
                     /\ SendData(n, p).qp[k].snd_una = p[k].snd_una
  BY <1>1 DEF SendData, QpRecord
<1>7. Quiet(n, p).qp = p /\ SendAck(n, p).qp = p /\ SetTimer(n, p).qp = p
  BY DEF Quiet, SendAck, SetTimer
<1> HIDE DEF InTurn
<1> QED BY <1>2, <1>3, <1>4, <1>5, <1>6, <1>7 DEF DequeueAndTransmit
-----------------------------------------------------------------------------
(***************************************************************************)
(* Every event leaves the device in turn.                                  *)
(***************************************************************************)

\* Before a queue pair is opened nothing is acknowledged and nothing goes
\* before it.
Waiting(p, b) == \A q \in QPs : ~p[q].open => p[q].snd_una = 0 /\ b[q] = 0

TurnInv ==
    /\ HostInv
    /\ InTurn(nic, qp, bypassed)
    /\ Waiting(qp, bypassed)

LEMMA TurnsPrimed ==
    ASSUME conf' = conf, InTurn(nic', qp', bypassed'), Waiting(qp', bypassed')
    PROVE  InTurn(nic, qp, bypassed)' /\ Waiting(qp, bypassed)'
BY DEF InTurn, Counted, Outside, Left, Gone, Turn, At, Scanned, IsFinished, QPs, Waiting

LEMMA FinishedHasSent ==
    ASSUME conf \in Confs, NEW STATE n, NEW STATE p, Device(n, p), NEW q \in QPs, IsFinished(p[q])
    PROVE  ~(GetBytesLeft(p[q]) > 0)
<1>1. p[q] \in QpRecord /\ p[q].snd_una <= p[q].snd_nxt /\ Size \in Nat
  BY ConfTypes DEF Device, QueuePair
<1>2. p[q].snd_una \in Nat /\ p[q].snd_nxt \in Nat
  BY <1>1 DEF QpRecord
<1> QED BY <1>1, <1>2 DEF IsFinished, GetBytesLeft

LEMMA IsScheduler ==
    ASSUME conf \in Confs, NEW STATE n, NEW STATE p, Device(n, p), NEW STATE b, b \in [QPs -> Nat]
    PROVE  Scheduler(n, p, b)
<1>1. List(n.qps) /\ n.rrlast \in Nat
  BY DEF Device, NicRecord, List
<1>2. \A q \in QPs : IsFinished(p[q]) => ~(GetBytesLeft(p[q]) > 0)
  BY FinishedHasSent
<1> QED BY <1>1, <1>2 DEF Scheduler

\* A handler calls DequeueAndTransmit on a device in turn.
LEMMA HandlerTurns ==
    ASSUME HostInv, HostInv', conf' = conf,
           NEW STATE n, NEW STATE p, Device(n, p), Transmit(n, p),
           InTurn(n, p, bypassed), Waiting(p, bypassed)
    PROVE  TurnInv'
<1> DEFINE d == DequeueAndTransmit(n, p)
           c == Passed(n, p, bypassed, d.sent)
<1>1. nic' = d.nic /\ qp' = d.qp /\ bypassed' = c
  BY DEF Transmit, Passed
<1>2. conf \in Confs /\ bypassed \in [QPs -> Nat]
  BY DEF HostInv
<1>3. Scheduler(n, p, bypassed)
  BY <1>2, IsScheduler
<1>4. /\ InTurn(d.nic, d.qp, c)
      /\ \A k \in QPs : d.qp[k].open = p[k].open /\ d.qp[k].snd_una = p[k].snd_una
  BY <1>3, DequeueTurns
<1>5. \A k \in QPs \ ToSet(n.qps) : c[k] <= bypassed[k] /\ c[k] \in Nat
  BY <1>2, PassedType
<1>6. \A k \in QPs : ~p[k].open => k \notin ToSet(n.qps)
  BY ListedIs DEF Device, NicRecord, Opened
<1> HIDE DEF d, c
<1>7. Waiting(d.qp, c)
  <2>1. ASSUME NEW k \in QPs, ~d.qp[k].open PROVE d.qp[k].snd_una = 0 /\ c[k] = 0
    <3>1. ~p[k].open /\ d.qp[k].snd_una = p[k].snd_una
      BY <1>4, <2>1
    <3>2. p[k].snd_una = 0 /\ bypassed[k] = 0
      BY <3>1 DEF Waiting
    <3>3. c[k] \in Nat /\ c[k] <= bypassed[k]
      BY <1>5, <1>6, <3>1
    <3> QED BY <3>1, <3>2, <3>3
  <2> QED BY <2>1 DEF Waiting
<1>8. InTurn(nic', qp', bypassed') /\ Waiting(qp', bypassed')
  BY <1>1, <1>4, <1>7
<1>9. InTurn(nic, qp, bypassed)' /\ Waiting(qp, bypassed)'
  BY <1>8, TurnsPrimed
<1> QED BY <1>9 DEF TurnInv

\* The list stays as it is, and more may be acknowledged of what is open.
LEMMA SameListTurns ==
    ASSUME TurnInv, HostInv', conf' = conf, NEW STATE n, NEW STATE p,
           n \in NicRecord, n.qps = nic.qps, n.rrlast = nic.rrlast, QueuePairs(p),
           \A k \in QPs : /\ qp[k].snd_una <= p[k].snd_una
                          /\ ~qp[k].open => p[k].snd_una = qp[k].snd_una
    PROVE  /\ Device(n, p) /\ InTurn(n, p, bypassed) /\ Waiting(p, bypassed)
           /\ Transmit(n, p) => TurnInv'
<1>1. /\ HostInv /\ conf \in Confs /\ bypassed \in [QPs -> Nat] /\ Device(nic, qp)
      /\ InTurn(nic, qp, bypassed) /\ Waiting(qp, bypassed)
  BY DEF TurnInv, HostInv
<1>2. Device(n, p)
  BY <1>1, SameList
<1>3. \A k \in QPs : IsFinished(qp[k]) => IsFinished(p[k])
  <2>1. ASSUME NEW k \in QPs, IsFinished(qp[k]) PROVE IsFinished(p[k])
    <3>1. qp[k] \in QpRecord /\ p[k] \in QpRecord /\ Size \in Nat
      BY <1>1, ConfTypes DEF Device, QueuePairs
    <3>2. qp[k].snd_una \in Nat /\ p[k].snd_una \in Nat /\ qp[k].snd_una <= p[k].snd_una
      BY <3>1 DEF QpRecord
    <3> QED BY <2>1, <3>1, <3>2 DEF IsFinished
  <2> QED BY <2>1
<1>4. Scheduler(nic, qp, bypassed)
  BY <1>1, IsScheduler
<1>5. InTurn(n, p, bypassed)
  BY <1>1, <1>3, <1>4, SameListInTurn
<1>6. Waiting(p, bypassed)
  BY <1>1 DEF Waiting, QueuePairs
<1>7. Transmit(n, p) => TurnInv'
  BY <1>1, <1>2, <1>5, <1>6, HandlerTurns
<1> QED BY <1>2, <1>5, <1>6, <1>7

LEMMA SameQueuePairs ==
    ASSUME HostInv
    PROVE  /\ QueuePairs(qp)
           /\ \A k \in QPs : /\ qp[k].snd_una <= qp[k].snd_una
                             /\ ~qp[k].open => qp[k].snd_una = qp[k].snd_una
<1>1. qp \in [QPs -> QpRecord] /\ \A k \in QPs : QueuePair(qp[k])
  BY DEF HostInv, Device
<1>2. \A k \in QPs : qp[k].snd_una \in Int
  BY <1>1, ConfTypes DEF QpRecord, HostInv
<1> QED BY <1>1, <1>2 DEF QueuePairs

LEMMA TransmitCompleteTurns == ASSUME TurnInv, HostInv', TransmitComplete PROVE TurnInv'
<1> DEFINE n == [nic EXCEPT !.tx = NoEvent]
<1>1. HostInv /\ Transmit(n, qp) /\ conf' = conf
  BY DEF TransmitComplete, TurnInv
<1>2. n \in NicRecord /\ n.qps = nic.qps /\ n.rrlast = nic.rrlast
  BY <1>1, DeviceTypes DEF NicRecord
<1> HIDE DEF n
<1> QED BY <1>1, <1>2, SameQueuePairs, SameListTurns

LEMMA NextSendTurns == ASSUME TurnInv, HostInv', NextSend PROVE TurnInv'
<1> DEFINE n == [nic EXCEPT !.nextSend = NoEvent]
<1>1. HostInv /\ Transmit(n, qp) /\ conf' = conf
  BY DEF NextSend, TurnInv
<1>2. n \in NicRecord /\ n.qps = nic.qps /\ n.rrlast = nic.rrlast
  BY <1>1, DeviceTypes DEF NicRecord
<1> HIDE DEF n
<1> QED BY <1>1, <1>2, SameQueuePairs, SameListTurns

LEMMA ResumeTurns == ASSUME TurnInv, HostInv', Resume PROVE TurnInv'
<1> DEFINE n == [nic EXCEPT !.paused = FALSE]
<1>1. HostInv /\ Transmit(n, qp) /\ conf' = conf
  BY DEF Resume, TurnInv
<1>2. n \in NicRecord /\ n.qps = nic.qps /\ n.rrlast = nic.rrlast
  BY <1>1, DeviceTypes DEF NicRecord
<1> HIDE DEF n
<1> QED BY <1>1, <1>2, SameQueuePairs, SameListTurns

LEMMA SendAnswerTurns == ASSUME TurnInv, HostInv', SendAnswer PROVE TurnInv'
<1> DEFINE more == nic.ackQ + 1
           n == [nic EXCEPT !.ackQ = more]
<1>1. HostInv /\ Transmit(n, qp) /\ conf' = conf
  BY DEF SendAnswer, TurnInv
<1>2. more \in 0 .. conf.acks
  <2>1. /\ nic.ackQ \in Nat /\ nic.ackQ <= spent.acks /\ spent.acks \in 0 .. conf.acks
        /\ conf.acks \in Nat
    BY <1>1, DeviceTypes DEF Budget
  <2>2. spent.acks < conf.acks
    BY DEF SendAnswer, Spend
  <2> QED BY <2>1, <2>2
<1> HIDE DEF more
<1>3. n \in NicRecord /\ n.qps = nic.qps /\ n.rrlast = nic.rrlast
  BY <1>1, <1>2, DeviceTypes DEF NicRecord
<1> HIDE DEF n
<1> QED BY <1>1, <1>3, SameQueuePairs, SameListTurns

LEMMA ReceiveAckTurns ==
    ASSUME TurnInv, HostInv', NEW q \in QPs, NEW a \in Int, NEW nack \in BOOLEAN, NEW g \in Gaps,
           qp[q].snd_una <= a, a <= qp[q].snd_nxt, ReceiveAck(q, a, nack, g)
    PROVE  TurnInv'
<1>1. HostInv
  BY DEF TurnInv
<1>2. conf' = conf /\ qp[q].open
  BY DEF ReceiveAck
<1>3. PICK n, p : Device(n, p) /\ Transmit(n, p) /\ Acknowledged(q, a, n, p)
  BY <1>1, ReceiveAckDevice
<1>4. \A k \in QPs : /\ qp[k].snd_una <= p[k].snd_una
                     /\ ~qp[k].open => p[k].snd_una = qp[k].snd_una
  <2>1. \A k \in QPs : p[k].snd_una = IF k = q THEN a ELSE qp[k].snd_una
    BY <1>3 DEF Acknowledged
  <2>2. \A k \in QPs : qp[k].snd_una <= qp[k].snd_una
    BY <1>1, SameQueuePairs
  <2> QED BY <1>2, <2>1, <2>2
<1>5. n \in NicRecord /\ n.qps = nic.qps /\ n.rrlast = nic.rrlast /\ QueuePairs(p)
  BY <1>3 DEF Acknowledged
<1> QED BY <1>2, <1>3, <1>4, <1>5, SameListTurns

LEMMA AckArrivesTurns == ASSUME TurnInv, HostInv', NEW q \in QPs, AckArrives(q) PROVE TurnInv'
<1>1. qp[q].snd_una \in Nat /\ qp[q].snd_nxt \in Nat
  BY UnaTypes DEF TurnInv
<1>2. PICK a \in qp[q].snd_una + 1 .. qp[q].snd_nxt, g \in Gaps : ReceiveAck(q, a, FALSE, g)
  BY DEF AckArrives
<1>3. /\ a \in Int /\ qp[q].snd_una <= a /\ a <= qp[q].snd_nxt
  BY <1>1
<1> QED BY <1>2, <1>3, ReceiveAckTurns

LEMMA NackArrivesTurns == ASSUME TurnInv, HostInv', NEW q \in QPs, NackArrives(q) PROVE TurnInv'
<1>1. qp[q].snd_una \in Nat /\ qp[q].snd_nxt \in Nat
  BY UnaTypes DEF TurnInv
<1>2. PICK a \in qp[q].snd_una .. qp[q].snd_nxt - 1, g \in Gaps : ReceiveAck(q, a, TRUE, g)
  BY DEF NackArrives
<1>3. /\ a \in Int /\ qp[q].snd_una <= a /\ a <= qp[q].snd_nxt
  BY <1>1
<1> QED BY <1>2, <1>3, ReceiveAckTurns

\* A queue pair that joins the list comes last.
LEMMA AddQpTurns == ASSUME TurnInv, HostInv', NEW q \in QPs, AddQp(q) PROVE TurnInv'
<1>1. /\ HostInv /\ conf \in Confs /\ bypassed \in [QPs -> Nat] /\ Device(nic, qp)
      /\ InTurn(nic, qp, bypassed) /\ Waiting(qp, bypassed)
  BY DEF TurnInv, HostInv
<1>2. conf' = conf /\ ~qp[q].open
  BY <1>1, AddQpDevice DEF AddQp
<1>3. PICK n, p : Device(n, p) /\ Transmit(n, p) /\ Joined(q, n, p)
  BY <1>1, AddQpDevice
<1>4. Scheduler(nic, qp, bypassed)
  BY <1>1, IsScheduler
<1>5. q \notin ToSet(nic.qps)
  BY <1>1, <1>2, ListedIs DEF Device, NicRecord, Opened
<1>6. ~IsFinished(qp[q]) /\ bypassed[q] = 0
  <2>1. qp[q].snd_una = 0 /\ bypassed[q] = 0 /\ Size \in Nat \ {0}
    BY <1>1, <1>2, ConfTypes DEF Waiting
  <2> QED BY <2>1 DEF IsFinished
<1>7. /\ n.qps = Append(nic.qps, q) /\ n.rrlast = nic.rrlast
      /\ \A k \in QPs : IsFinished(p[k]) <=> IsFinished(qp[k])
  BY <1>3 DEF Joined, IsFinished
<1>8. InTurn(n, p, bypassed)
  BY <1>1, <1>4, <1>5, <1>6, <1>7, AppendInTurn
<1>9. Waiting(p, bypassed)
  BY <1>1, <1>3 DEF Waiting, Joined
<1> QED BY <1>1, <1>2, <1>3, <1>8, <1>9, HandlerTurns

\* What a step that is no call of DequeueAndTransmit leaves as it is.
LEMMA QuietStepTurns ==
    ASSUME TurnInv, HostInv', conf' = conf, bypassed' = bypassed,
           nic'.qps = nic.qps, nic'.rrlast = nic.rrlast,
           \A k \in QPs : qp'[k].snd_una = qp[k].snd_una /\ qp'[k].open = qp[k].open
    PROVE  TurnInv'
<1>1. /\ HostInv /\ conf \in Confs /\ bypassed \in [QPs -> Nat] /\ Device(nic, qp)
      /\ InTurn(nic, qp, bypassed) /\ Waiting(qp, bypassed)
  BY DEF TurnInv, HostInv
<1>2. Scheduler(nic, qp, bypassed)
  BY <1>1, IsScheduler
<1>3. ToSet(nic'.qps) = ToSet(nic.qps) /\ \A k \in QPs : IsFinished(qp'[k]) <=> IsFinished(qp[k])
  BY DEF IsFinished
<1>4. Gone(nic', qp') = Gone(nic, qp)
  BY <1>3 DEF Gone
<1>5. \A k : Turn(nic', k) = Turn(nic, k)
  BY DEF Turn, At, Scanned
<1>6. InTurn(nic', qp', bypassed')
  BY <1>1, <1>3, <1>4, <1>5 DEF InTurn, Counted, Outside, Left
<1>7. Waiting(qp', bypassed')
  BY <1>1 DEF Waiting
<1>8. InTurn(nic, qp, bypassed)' /\ Waiting(qp, bypassed)'
  BY <1>6, <1>7, TurnsPrimed
<1> QED BY <1>8 DEF TurnInv

LEMMA PauseTurns == ASSUME TurnInv, HostInv', Pause PROVE TurnInv'
<1>1. nic \in NicRecord
  BY DeviceTypes DEF TurnInv
<1>2. nic'.qps = nic.qps /\ nic'.rrlast = nic.rrlast
  BY <1>1 DEF Pause, NicRecord
<1> QED BY <1>2, QuietStepTurns DEF Pause

LEMMA RateTimerTurns ==
    ASSUME TurnInv, HostInv', NEW q \in QPs, NEW g \in Gaps, RateTimer(q, g) PROVE TurnInv'
<1>1. qp \in [QPs -> QpRecord]
  BY DeviceTypes DEF TurnInv, Device
<1>2. \A k \in QPs : qp'[k].snd_una = qp[k].snd_una /\ qp'[k].open = qp[k].open
  BY <1>1 DEF RateTimer, QpRecord
<1> QED BY <1>2, QuietStepTurns DEF RateTimer

LEMMA TickTurns == ASSUME TurnInv, HostInv', Tick PROVE TurnInv'
<1>1. qp \in [QPs -> QpRecord] /\ nic \in NicRecord
  BY DeviceTypes DEF TurnInv, Device
<1>2. \A k \in QPs : qp'[k].snd_una = qp[k].snd_una /\ qp'[k].open = qp[k].open
  BY <1>1 DEF Tick, QpRecord
<1>3. nic'.qps = nic.qps /\ nic'.rrlast = nic.rrlast
  BY <1>1 DEF Tick, NicRecord
<1> QED BY <1>2, <1>3, QuietStepTurns DEF Tick

LEMMA InitTurns == Init => TurnInv
<1> SUFFICES ASSUME Init PROVE TurnInv
  OBVIOUS
<1>1. HostInv /\ conf \in Confs /\ Size \in Nat \ {0}
  BY InitHost, ConfTypes DEF HostInv
<1>2. /\ nic.qps = << >> /\ \A q \in QPs : bypassed[q] = 0 /\ qp[q].snd_una = 0
  BY DEF Init
<1>3. \A q \in QPs : ~IsFinished(qp[q])
  BY <1>1, <1>2 DEF IsFinished
<1>4. Left(nic, qp) = 0 /\ conf.qps - 1 \in Nat
  <2>1. Gone(nic, qp) = {}
    BY <1>3 DEF Gone
  <2> QED BY <1>1, <2>1, FS_EmptySet, ConfTypes DEF Left
<1>5. Counted(nic, qp, bypassed)
  BY <1>2 DEF Counted
<1>6. Outside(nic, qp, bypassed)
  <2>1. (1 + Left(nic, qp)) * (conf.qps - 1) \in Nat
    BY <1>4
  <2> QED BY <1>2, <2>1 DEF Outside
<1> QED BY <1>1, <1>2, <1>5, <1>6 DEF TurnInv, InTurn, Waiting

LEMMA NextTurns == TurnInv /\ [Next]_vars => TurnInv'
<1> SUFFICES ASSUME TurnInv, [Next]_vars PROVE TurnInv'
  OBVIOUS
<1>0. HostInv'
  BY NextHost DEF TurnInv
<1>1. CASE TransmitComplete \/ NextSend \/ Resume \/ Tick
  BY <1>0, <1>1, TransmitCompleteTurns, NextSendTurns, ResumeTurns, TickTurns
<1>2. CASE SendAnswer \/ Pause
  BY <1>0, <1>2, SendAnswerTurns, PauseTurns
<1>3. ASSUME NEW q \in QPs, AddQp(q) \/ AckArrives(q) \/ NackArrives(q)
      PROVE  TurnInv'
  BY <1>0, <1>3, AddQpTurns, AckArrivesTurns, NackArrivesTurns
<1>4. ASSUME NEW q \in QPs, NEW g \in Gaps, RateTimer(q, g)
      PROVE  TurnInv'
  BY <1>0, <1>4, RateTimerTurns
<1>5. CASE UNCHANGED vars
  <2>1. /\ conf' = conf /\ bypassed' = bypassed /\ nic' = nic /\ qp' = qp
    BY <1>5 DEF vars
  <2> QED BY <1>0, <2>1, QuietStepTurns
<1> QED BY <1>1, <1>2, <1>3, <1>4, <1>5 DEF Next, Event

\* However many queue pairs share the device, whatever their windows and rates,
\* and in whatever order events come: while a queue pair may send, each of the
\* others goes before it at most once, and once more for each that has been
\* finished, though m_rrlast is not shifted when one leaves the list.
THEOREM TurnsAreTaken == Spec => []BoundedBypass
<1>1. TurnInv => BoundedBypass
  <2> SUFFICES ASSUME TurnInv, NEW q \in QPs
               PROVE  bypassed[q] <= (1 + Cardinality({k \in QPs : IsFinished(qp[k])}))
                                       * (conf.qps - 1)
    BY DEF BoundedBypass
  <2> DEFINE done == {k \in QPs : IsFinished(qp[k])}
             c == Cardinality(done)
             r == Left(nic, qp)
             a == conf.qps - 1
  <2>1. /\ conf \in Confs /\ bypassed \in [QPs -> Nat] /\ Scheduler(nic, qp, bypassed)
        /\ InTurn(nic, qp, bypassed)
    BY IsScheduler DEF TurnInv, HostInv
  <2>2. r \in Nat /\ a \in Nat
    <3>1. List(nic.qps)
      BY <2>1 DEF Scheduler
    <3>2. Left(nic, qp) \in Nat /\ conf.qps \in Nat \ {0}
      BY <2>1, <3>1, LeftBound
    <3> QED BY <3>2
  <2>3. c \in Nat /\ r <= c
    <3>1. IsFiniteSet(QPs)
      BY <2>1, ConfTypes, UpToFinite DEF QPs
    <3>2. IsFiniteSet(done)
      BY <3>1, FS_Subset
    <3>3. Gone(nic, qp) \subseteq done
      BY DEF Gone
    <3> HIDE DEF done
    <3> QED BY <3>2, <3>3, FS_Subset, FS_CardinalityType DEF Left
  <2>4. bypassed[q] <= (1 + r) * a
    BY <2>1, TurnsBound
  <2> HIDE DEF c, r, a
  <2>5. (1 + r) * a <= (1 + c) * a
    BY <2>2, <2>3, Products
  <2> DEFINE x == (1 + r) * a
             y == (1 + c) * a
             z == bypassed[q]
  <2>6. x \in Nat /\ y \in Nat /\ z \in Nat /\ z <= x /\ x <= y
    <3>1. 1 + r \in Nat /\ 1 + c \in Nat
      BY <2>2, <2>3
    <3> QED BY <2>1, <2>2, <2>4, <2>5, <3>1
  <2> HIDE DEF x, y, z
  <2>7. z <= y
    BY <2>6
  <2> QED BY <2>7 DEF y, z, c, a
<1> QED BY <1>1, InitTurns, NextTurns, PTL DEF Spec
=============================================================================
