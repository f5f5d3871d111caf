---------------------------- MODULE SnapshotProofs ----------------------------
(***************************************************************************)
(* Theorems of SnapshotCsr, for any names, hashes, graphs and changes by   *)
(* other writers.  In this order: the probe table and the sweep that       *)
(* accepts it; why the probe is then exact; the offsets and the mirror;    *)
(* graphs, their bytes and the way back; what each accessor lists; why     *)
(* the bytes are determined by the graph; the inductive invariant and the  *)
(* theorems.                                                               *)
(***************************************************************************)
EXTENDS SnapshotCsr, ListProofs

(***************************************************************************)
(* Arrays.                                                                 *)
(***************************************************************************)
(* There are n indexes of n cells.                                         *)
LEMMA Indexes ==
  ASSUME NEW n \in Nat
  PROVE  IsFiniteSet(0 .. n - 1) /\ Cardinality(0 .. n - 1) = n
BY FS_Interval

(* A function on 0 .. n-1 is an array of n cells.                          *)
LEMMA SizeOf ==
  ASSUME NEW n \in Nat, NEW a, DOMAIN a = 0 .. n - 1
  PROVE  Size(a) = n /\ IsFiniteSet(DOMAIN a)
<1>1. IsFiniteSet(0 .. n - 1) /\ Cardinality(0 .. n - 1) = n
  BY FS_Interval
<1> QED
  BY <1>1 DEF Size

(* A list as an array.                                                     *)
LEMMA ArrayOf ==
  ASSUME NEW A, NEW s \in Seq(A)
  PROVE  /\ Array(s) \in [0 .. Len(s) - 1 -> A] /\ DOMAIN Array(s) = 0 .. Len(s) - 1
         /\ Size(Array(s)) = Len(s) /\ Len(s) \in Nat
         /\ \A i \in 0 .. Len(s) - 1 : Array(s)[i] = s[i + 1] /\ i + 1 \in 1 .. Len(s)
         /\ \A k \in 1 .. Len(s) : k - 1 \in 0 .. Len(s) - 1 /\ Array(s)[k - 1] = s[k]
<1>1. DOMAIN s = 1 .. Len(s) /\ Len(s) \in Nat /\ \A i \in 1 .. Len(s) : s[i] \in A
  OBVIOUS
<1>2. \A i \in 0 .. Len(s) - 1 : i + 1 \in 1 .. Len(s)
  BY <1>1
<1>3. /\ Array(s) \in [0 .. Len(s) - 1 -> A] /\ DOMAIN Array(s) = 0 .. Len(s) - 1
      /\ \A i \in 0 .. Len(s) - 1 : Array(s)[i] = s[i + 1]
  BY <1>1, <1>2 DEF Array
<1>4. Size(Array(s)) = Len(s)
  BY <1>1, <1>3, SizeOf
<1>5. \A k \in 1 .. Len(s) : k - 1 \in 0 .. Len(s) - 1 /\ (k - 1) + 1 = k
  BY <1>1
<1> QED
  BY <1>1, <1>2, <1>3, <1>4, <1>5

(* An array as a list.                                                     *)
LEMMA ValuesOf ==
  ASSUME NEW A, NEW n \in Nat, NEW a \in [0 .. n - 1 -> A]
  PROVE  /\ Values(a) \in Seq(A) /\ Len(Values(a)) = n /\ DOMAIN Values(a) = 1 .. n
         /\ Size(a) = n
         /\ \A k \in 1 .. n : Values(a)[k] = a[k - 1] /\ k - 1 \in 0 .. n - 1
         /\ Range(Values(a)) = Range(a)
<1>1. Size(a) = n
  BY SizeOf
<1>2. Values(a) = [k \in 1 .. n |-> a[k - 1]]
  BY <1>1 DEF Values
<1>3. \A k \in 1 .. n : k - 1 \in 0 .. n - 1
  OBVIOUS
<1>4. \A k \in 1 .. n : Values(a)[k] = a[k - 1] /\ a[k - 1] \in A
  BY <1>2, <1>3
<1>5. Values(a) \in Seq(A) /\ Len(Values(a)) = n /\ DOMAIN Values(a) = 1 .. n
  BY <1>2, <1>4
<1>6. \A i \in 0 .. n - 1 : i + 1 \in 1 .. n /\ (i + 1) - 1 = i
  OBVIOUS
<1>7. Range(Values(a)) = Range(a)
  <2>1. ASSUME NEW e \in Range(Values(a)) PROVE e \in Range(a)
    BY <1>3, <1>4, <1>5 DEF Range
  <2>2. ASSUME NEW e \in Range(a) PROVE e \in Range(Values(a))
    <3>1. PICK i \in 0 .. n - 1 : a[i] = e
      BY <2>2 DEF Range
    <3>2. Values(a)[i + 1] = e /\ i + 1 \in DOMAIN Values(a)
      BY <1>4, <1>5, <1>6, <3>1
    <3> HIDE <1>2
    <3> QED
      BY <3>2 DEF Range
  <2> QED
    BY <2>1, <2>2
<1> QED
  BY <1>1, <1>3, <1>4, <1>5, <1>7

(***************************************************************************)
(* The sorts of the writer.                                                *)
(***************************************************************************)
CsrData   == [from_idx: Nat, to_idx: Nat, kind: Kinds]
NameOrder == {p \in NodeData \X NodeData : p[1].name < p[2].name}
CsrOrder  == {p \in CsrData \X CsrData : EdgeBefore(p[1], p[2])}

(* Names are numbers.                                                      *)
LEMMA NameOrderWeak == WeakOrder(NameOrder, NodeData)
<1>1. \A e \in NodeData : e.name \in Nat
  BY BuilderAssumption DEF NodeData
<1>2. \A e, f \in NodeData : <<e, f>> \in NameOrder <=> e.name < f.name
  BY DEF NameOrder
<1> QED
  BY <1>1, <1>2 DEF WeakOrder

(* So are indexes and kinds.                                               *)
LEMMA CsrOrderWeak == WeakOrder(CsrOrder, CsrData)
<1>1. \A e \in CsrData : e.from_idx \in Nat /\ e.to_idx \in Nat /\ e.kind \in Nat
  BY BuilderAssumption DEF CsrData
<1>2. \A e, f \in CsrData : <<e, f>> \in CsrOrder <=> EdgeBefore(e, f)
  BY DEF CsrOrder
<1>3. \A e, f \in CsrData : EdgeBefore(e, f) => ~ EdgeBefore(f, e)
  BY <1>1 DEF EdgeBefore
<1>4. \A e, f, g \in CsrData : EdgeBefore(e, g) => EdgeBefore(e, f) \/ EdgeBefore(f, g)
  BY <1>1 DEF EdgeBefore
<1> QED
  BY <1>2, <1>3, <1>4 DEF WeakOrder

(* ByName sorts nodes by their names.                                      *)
LEMMA ByNameSorts ==
  ASSUME NEW s \in Seq(NodeData)
  PROVE  SortOf(ByName(s), s, NodeData, NameOrder)
<1> DEFINE First(i, j) == s[i].name < s[j].name \/ (~ (s[j].name < s[i].name) /\ i < j)
           D     == DOMAIN s
           order == InOrder(D, First)
           R     == Ahead(s, NameOrder)
           f     == ByName(s)
<1>1. D = 1 .. Len(s) /\ Len(s) \in Nat /\ \A i \in D : s[i] \in NodeData
  BY Zenon, SeqElements
<1>2. f = [k \in DOMAIN order |-> s[order[k]]]
  BY DEF ByName, Sorted
<1>3. WeakOrder(NameOrder, NodeData)
  BY NameOrderWeak
<1>4. StrictOrder(R, D) /\ IsFiniteSet(D)
  <2> HIDE DEF First, order, f
  <2> QED
    BY <1>3, AheadOrder
<1>5. ASSUME NEW i \in D, NEW j \in D
      PROVE  <<i, j>> \in R <=> First(i, j)
  <2>1. <<i, j>> \in R <=>
          <<s[i], s[j]>> \in NameOrder \/ (<<s[j], s[i]>> \notin NameOrder /\ i < j)
    <3>1. i \in Nat /\ j \in Nat
      BY <1>1
    <3> HIDE DEF First, order, f, R, D
    <3> QED
      BY <3>1, AheadIff DEF R
  <2>2. /\ <<s[i], s[j]>> \in NameOrder <=> s[i].name < s[j].name
        /\ <<s[j], s[i]>> \in NameOrder <=> (s[j].name < s[i].name)
    <3>1. s[i] \in NodeData /\ s[j] \in NodeData
      BY <1>1
    <3> QED
      BY <3>1 DEF NameOrder
  <2> QED
    BY <2>1, <2>2
<1>6. ASSUME NEW j \in D
      PROVE  Rank(R, D, j) = Cardinality({i \in D : First(i, j)})
  <2> HIDE DEF First, R, D
  <2>1. Below(R, D, j) = {i \in D : First(i, j)}
    BY <1>5 DEF Below
  <2> QED
    BY <2>1 DEF Rank
<1>7. ASSUME NEW i \in 1 .. Cardinality(D)
      PROVE  order[i] \in D /\ Rank(R, D, order[i]) = i - 1
  <2> DEFINE P(x) == Cardinality({y \in D : First(y, x)}) = i - 1
  <2>1. order[i] = CHOOSE x \in D : P(x)
    BY DEF InOrder
  <2> HIDE DEF order, First, D, R
  <2>2. PICK x \in D : Rank(R, D, x) = i - 1
    BY <1>4, RankOnto
  <2>3. P(x)
    BY <1>6, <2>2
  <2>4. order[i] \in D /\ P(order[i])
    <3> HIDE DEF P
    <3> QED
      BY <2>1, <2>3
  <2> QED
    BY <1>6, <2>4
<1>8. order = [i \in 1 .. Cardinality(D) |-> order[i]]
  <2> DEFINE g(i) == CHOOSE x \in D : Cardinality({y \in D : First(y, x)}) = i - 1
  <2>1. order = [i \in 1 .. Cardinality(D) |-> g(i)]
    BY DEF InOrder
  <2> HIDE DEF First, D, order, g
  <2> QED
    BY <2>1
<1> HIDE DEF First, order, f
<1>9. Lists(order, D, R)
  <2> HIDE DEF D, R
  <2>1. order \in [1 .. Cardinality(D) -> D]
    BY <1>7, <1>8
  <2> QED
    BY <1>7, <2>1 DEF Lists
<1> QED
  BY <1>2, <1>3, <1>9, StableSort DEF f

(* to_rkyv_v2 sorts edges by both ends and the kind.                       *)
LEMMA EdgesSort ==
  ASSUME NEW s \in Seq(CsrData)
  PROVE  SortOf(Sorted(s, EdgeBefore), s, CsrData, CsrOrder)
<1> DEFINE First(i, j) == EdgeBefore(s[i], s[j]) \/ (~ EdgeBefore(s[j], s[i]) /\ i < j)
           D     == DOMAIN s
           order == InOrder(D, First)
           R     == Ahead(s, CsrOrder)
           f     == Sorted(s, EdgeBefore)
<1>1. D = 1 .. Len(s) /\ Len(s) \in Nat /\ \A i \in D : s[i] \in CsrData
  BY Zenon, SeqElements
<1>2. f = [k \in DOMAIN order |-> s[order[k]]]
  BY DEF Sorted
<1>3. WeakOrder(CsrOrder, CsrData)
  BY CsrOrderWeak
<1>4. StrictOrder(R, D) /\ IsFiniteSet(D)
  <2> HIDE DEF First, order, f
  <2> QED
    BY <1>3, AheadOrder
<1>5. ASSUME NEW i \in D, NEW j \in D
      PROVE  <<i, j>> \in R <=> First(i, j)
  <2>1. <<i, j>> \in R <=>
          <<s[i], s[j]>> \in CsrOrder \/ (<<s[j], s[i]>> \notin CsrOrder /\ i < j)
    <3>1. i \in Nat /\ j \in Nat
      BY <1>1
    <3> HIDE DEF First, order, f, R, D
    <3> QED
      BY <3>1, AheadIff DEF R
  <2>2. /\ <<s[i], s[j]>> \in CsrOrder <=> EdgeBefore(s[i], s[j])
        /\ <<s[j], s[i]>> \in CsrOrder <=> EdgeBefore(s[j], s[i])
    <3>1. s[i] \in CsrData /\ s[j] \in CsrData
      BY <1>1
    <3> QED
      BY <3>1 DEF CsrOrder
  <2> QED
    BY <2>1, <2>2
<1>6. ASSUME NEW j \in D
      PROVE  Rank(R, D, j) = Cardinality({i \in D : First(i, j)})
  <2> HIDE DEF First, R, D
  <2>1. Below(R, D, j) = {i \in D : First(i, j)}
    BY <1>5 DEF Below
  <2> QED
    BY <2>1 DEF Rank
<1>7. ASSUME NEW i \in 1 .. Cardinality(D)
      PROVE  order[i] \in D /\ Rank(R, D, order[i]) = i - 1
  <2> DEFINE P(x) == Cardinality({y \in D : First(y, x)}) = i - 1
  <2>1. order[i] = CHOOSE x \in D : P(x)
    BY DEF InOrder
  <2> HIDE DEF order, First, D, R
  <2>2. PICK x \in D : Rank(R, D, x) = i - 1
    BY <1>4, RankOnto
  <2>3. P(x)
    BY <1>6, <2>2
  <2>4. order[i] \in D /\ P(order[i])
    <3> HIDE DEF P
    <3> QED
      BY <2>1, <2>3
  <2> QED
    BY <1>6, <2>4
<1>8. order = [i \in 1 .. Cardinality(D) |-> order[i]]
  <2> DEFINE g(i) == CHOOSE x \in D : Cardinality({y \in D : First(y, x)}) = i - 1
  <2>1. order = [i \in 1 .. Cardinality(D) |-> g(i)]
    BY DEF InOrder
  <2> HIDE DEF First, D, order, g
  <2> QED
    BY <2>1
<1> HIDE DEF First, order, f
<1>9. Lists(order, D, R)
  <2> HIDE DEF D, R
  <2>1. order \in [1 .. Cardinality(D) -> D]
    BY <1>7, <1>8
  <2> QED
    BY <1>7, <2>1 DEF Lists
<1> QED
  BY <1>2, <1>3, <1>9, StableSort DEF f

(***************************************************************************)
(* The name table.                                                         *)
(***************************************************************************)
(* There is a power of two that is large enough.                           *)
LEMMA PowersGrow ==
  ASSUME NEW n \in Nat, n # 0, NEW power,
         power = CHOOSE f : f = [k \in 0 .. n |-> IF k = 0 THEN 1 ELSE 2 * f[k - 1]]
  PROVE  /\ \A k \in 1 .. n : power[k] \in Nat
         /\ power[n] >= 2 * n
<1> DEFINE Rec(f) == f = [k \in 0 .. n |-> IF k = 0 THEN 1 ELSE 2 * f[k - 1]]
           step   == [i \in 1 .. n |-> [c \in Nat |-> 2 * c]]
<1>1. power = CHOOSE f : Rec(f)
  OBVIOUS
<1>2. \A i \in 1 .. n : \A c \in Nat : step[i][c] = 2 * c /\ step[i][c] \in Nat
  OBVIOUS
<1> HIDE DEF step
<1>3. StepsIn(step, n, Nat)
  <2> SUFFICES ASSUME NEW i \in 1 .. n, NEW c \in Nat PROVE step[i][c] \in Nat
    BY DEF StepsIn
  <2> QED
    BY <1>2
<1>4. PICK g \in [0 .. n -> Nat] : Follows(g, n, 1, step)
  BY <1>3, StepsDefine
<1>5. Rec(g)
  <2>1. \A k \in 0 .. n : g[k] = IF k = 0 THEN 1 ELSE 2 * g[k - 1]
    <3> SUFFICES ASSUME NEW k \in 0 .. n PROVE g[k] = IF k = 0 THEN 1 ELSE 2 * g[k - 1]
      OBVIOUS
    <3>1. CASE k = 0
      BY <1>4, <3>1 DEF Follows
    <3>2. CASE k # 0
      <4>1. k \in 1 .. n /\ k - 1 \in 0 .. n
        BY <3>2
      <4>2. g[k] = step[k][g[k - 1]] /\ g[k - 1] \in Nat
        BY <1>4, <4>1 DEF Follows
      <4> QED
        BY <1>2, <3>2, <4>1, <4>2
    <3> QED
      BY <3>1, <3>2
  <2>2. g = [k \in 0 .. n |-> g[k]]
    BY <1>4
  <2> QED
    BY <2>1, <2>2
<1>6. Rec(power)
  <2> HIDE DEF Rec
  <2> QED
    BY <1>1, <1>5
<1>7. /\ power[0] = 1
      /\ \A k \in Nat : k + 1 <= n => power[k + 1] = 2 * power[k]
  <2>1. \A k \in 0 .. n : power[k] = IF k = 0 THEN 1 ELSE 2 * power[k - 1]
    BY <1>6
  <2>2. \A k \in Nat : k + 1 <= n =>
          k + 1 \in 0 .. n /\ k + 1 # 0 /\ (k + 1) - 1 = k
    OBVIOUS
  <2>3. 0 \in 0 .. n
    OBVIOUS
  <2> HIDE DEF Rec
  <2> QED
    BY <2>1, <2>2, <2>3
<1> HIDE DEF Rec
<1> DEFINE Large(k) == power[k] \in Nat /\ (k # 0 => power[k] >= 2 * k)
           D == {k \in Nat : k <= n => Large(k)}
<1>8. 0 \in D
  BY <1>7
<1>9. ASSUME NEW k \in Nat, k \in D PROVE k + 1 \in D
  <2> SUFFICES ASSUME k + 1 <= n PROVE Large(k + 1)
    OBVIOUS
  <2>1. Large(k)
    BY <1>9
  <2>2. power[k + 1] = 2 * power[k]
    BY <1>7
  <2>3. CASE k = 0
    BY <1>7, <2>2, <2>3
  <2>4. CASE k # 0
    BY <2>1, <2>2, <2>4
  <2> QED
    BY <2>3, <2>4
<1>10. \A k \in Nat : k \in D
  <2> HIDE DEF D
  <2> QED
    BY <1>8, <1>9, NatSetInduction
<1>11. \A k \in 1 .. n : k \in Nat /\ k <= n /\ k # 0
  OBVIOUS
<1> QED
  BY <1>10, <1>11

(* The table has more slots than there are nodes.                          *)
LEMMA CapacityFacts ==
  ASSUME NEW n \in Nat
  PROVE  bucket_capacity(n) \in Nat /\ bucket_capacity(n) > n
<1> DEFINE power == CHOOSE f : f = [k \in 0 .. n + 1 |-> IF k = 0 THEN 1 ELSE 2 * f[k - 1]]
           want  == Max({(n * 10) \div 7 + 1, n + 1})
           S     == {m \in {power[k] : k \in 1 .. n + 1} : m >= want}
<1>1. bucket_capacity(n) = Min(S)
  BY DEF bucket_capacity
<1>2. (\A k \in 1 .. n + 1 : power[k] \in Nat) /\ power[n + 1] >= 2 * (n + 1)
  <2> HIDE DEF power
  <2>1. power = CHOOSE f : f = [k \in 0 .. n + 1 |-> IF k = 0 THEN 1 ELSE 2 * f[k - 1]]
    BY DEF power
  <2> QED
    <3>1. n + 1 \in Nat /\ n + 1 # 0
      OBVIOUS
    <3> QED
      BY <2>1, <3>1, PowersGrow
<1> HIDE DEF power
<1>3. want \in Nat /\ want >= n + 1 /\ want <= 2 * (n + 1)
  <2> DEFINE q == (n * 10) \div 7 + 1
  <2>1. q \in Nat /\ q <= 2 * (n + 1)
    OBVIOUS
  <2> HIDE DEF q
  <2>2. want = Max({q, n + 1})
    BY DEF q
  <2>3. \E x \in {q, n + 1} : \A y \in {q, n + 1} : x >= y
    BY <2>1
  <2>4. want \in {q, n + 1} /\ \A y \in {q, n + 1} : want >= y
    <3> HIDE DEF want
    <3> QED
      BY <2>2, <2>3 DEF Max
  <2> HIDE DEF want
  <2> QED
    BY <2>1, <2>4
<1> HIDE DEF want
<1>4. S \subseteq Nat /\ power[n + 1] \in S
  <2>1. n + 1 \in 1 .. n + 1
    OBVIOUS
  <2> QED
    BY <1>2, <1>3, <2>1
<1>5. \E x \in S : \A y \in S : x <= y
  <2> HIDE DEF S
  <2> QED
    BY <1>4, LeastNatural
<1>6. Min(S) \in S
  <2> HIDE DEF S
  <2> QED
    BY <1>5 DEF Min
<1> QED
  BY <1>1, <1>2, <1>3, <1>6

(* A probe stays in the table, and goes on from slot to slot.              *)
LEMMA StepFacts ==
  ASSUME NEW m \in Nat, NEW h \in 0 .. m - 1, NEW k \in 0 .. m - 1
  PROVE  /\ Step(h, k, m) \in 0 .. m - 1
         /\ Step(h, k, m) = IF h + k < m THEN h + k ELSE (h + k) - m
BY DEF Step

(* The slots a probe from h for what is at s passes.                       *)
Between(m, h, s) ==
  {t \in 0 .. m - 1 : IF h <= s THEN h <= t /\ t < s ELSE h <= t \/ t < s}

(* It comes to s after k slots, which are those.                           *)
Reaches(m, h, s, k) ==
  /\ Step(h, k, m) = s
  /\ \A j \in 0 .. m - 1 : j < k => Step(h, j, m) \in Between(m, h, s)
  /\ \A t \in Between(m, h, s) : \E j \in 0 .. m - 1 : j < k /\ Step(h, j, m) = t

(* It comes to every slot.                                                 *)
LEMMA ProbeFacts ==
  ASSUME NEW m \in Nat, NEW h \in 0 .. m - 1, NEW s \in 0 .. m - 1
  PROVE  \E k \in 0 .. m - 1 : Reaches(m, h, s, k)
<1> DEFINE k == IF h <= s THEN s - h ELSE (s - h) + m
<1>1. k \in 0 .. m - 1 /\ (h + k = s \/ (h + k = s + m)) /\ (h <= s <=> h + k = s) /\ m > 0
  OBVIOUS
<1>2. \A j \in 0 .. m - 1 :
        /\ Step(h, j, m) \in 0 .. m - 1
        /\ Step(h, j, m) = IF h + j < m THEN h + j ELSE (h + j) - m
  BY StepFacts
<1> HIDE DEF k
<1>3. Step(h, k, m) = s
  BY <1>1, <1>2
<1>4. ASSUME NEW j \in 0 .. m - 1, j < k PROVE Step(h, j, m) \in Between(m, h, s)
  BY <1>1, <1>2, <1>4 DEF Between
<1>5. ASSUME NEW t \in Between(m, h, s)
      PROVE  \E j \in 0 .. m - 1 : j < k /\ Step(h, j, m) = t
  <2> DEFINE j == IF h <= t THEN t - h ELSE (t - h) + m
  <2>1. t \in 0 .. m - 1 /\ (IF h <= s THEN h <= t /\ t < s ELSE h <= t \/ t < s)
    BY DEF Between
  <2>2. j \in 0 .. m - 1 /\ j < k
    BY <1>1, <2>1
  <2>3. Step(h, j, m) = t
    BY <1>2, <2>1, <2>2
  <2> QED
    BY <2>2, <2>3
<1> QED
  BY <1>1, <1>3, <1>4, <1>5 DEF Reaches

Within(B, p, q) == {t \in p .. q - 1 : t \in B}

(* Between two slots, prefix sums count what is there.                     *)
LEMMA PrefixSums ==
  ASSUME NEW B, NEW p \in Nat, NEW q \in Nat, p <= q
  PROVE  /\ Cardinality(Within(B, 0, q)) \in Nat
         /\ Cardinality(Within(B, 0, p)) \in Nat
         /\ Cardinality(Within(B, p, q)) \in Nat
         /\ Cardinality(Within(B, 0, q))
              = Cardinality(Within(B, 0, p)) + Cardinality(Within(B, p, q))
         /\ (Cardinality(Within(B, p, q)) = 0 <=> \A t \in p .. q - 1 : t \notin B)
<1> DEFINE P == Within(B, 0, p)
           Q == Within(B, 0, q)
           R == Within(B, p, q)
<1>1. IsFiniteSet(0 .. p - 1) /\ IsFiniteSet(0 .. q - 1) /\ IsFiniteSet(p .. q - 1)
  BY FS_Interval
<1>2. P \subseteq 0 .. p - 1 /\ Q \subseteq 0 .. q - 1 /\ R \subseteq p .. q - 1
  BY DEF Within
<1>3. Q = P \cup R /\ P \cap R = {}
  BY DEF Within
<1>4. (R = {}) <=> \A t \in p .. q - 1 : t \notin B
  BY DEF Within
<1> HIDE DEF P, Q, R
<1>5. IsFiniteSet(P) /\ IsFiniteSet(Q) /\ IsFiniteSet(R)
  BY <1>1, <1>2, FS_Subset
<1>6. /\ Cardinality(P) \in Nat /\ Cardinality(Q) \in Nat /\ Cardinality(R) \in Nat
      /\ Cardinality({}) = 0 /\ (Cardinality(R) = 0 <=> R = {})
  BY <1>5, FS_CardinalityType, FS_EmptySet
<1>7. Cardinality(P \cup R) = Cardinality(P) + Cardinality(R) - Cardinality({})
  BY <1>3, <1>5, FS_Union
<1>8. Cardinality(Q) = Cardinality(P) + Cardinality(R)
  BY <1>3, <1>6, <1>7
<1> QED
  BY <1>4, <1>6, <1>8 DEF P, Q, R

(* The count the sweep makes of empty slots on the way is 0 when there is  *)
(* none, on a way around the end of the table too.                         *)
LEMMA EmptiesCounted ==
  ASSUME NEW m \in Nat, NEW b, DOMAIN b = 0 .. m - 1,
         NEW h \in 0 .. m - 1, NEW s \in 0 .. m - 1
  PROVE  EmptiesBetween(b, h, s) = 0 <=> \A t \in Between(m, h, s) : b[t] # EMPTY_BUCKET
<1>0. PICK holes : \A t \in 0 .. m - 1 : t \in holes <=> b[t] = EMPTY_BUCKET
  <2> WITNESS {t \in 0 .. m - 1 : b[t] = EMPTY_BUCKET}
  <2> QED
    OBVIOUS
<1> DEFINE E(q) == Cardinality(Within(holes, 0, q))
           M(p, q) == Cardinality(Within(holes, p, q))
<1>1. \A q \in 0 .. m :
        Cardinality({t \in 0 .. q - 1 : b[t] = EMPTY_BUCKET}) = E(q)
  <2> SUFFICES ASSUME NEW q \in 0 .. m
               PROVE  Cardinality({t \in 0 .. q - 1 : b[t] = EMPTY_BUCKET}) = E(q)
    OBVIOUS
  <2>1. {t \in 0 .. q - 1 : b[t] = EMPTY_BUCKET} = Within(holes, 0, q)
    BY <1>0 DEF Within
  <2> QED
    BY <2>1, Zenon
<1>2. Size(b) = m
  BY SizeOf
<1>3. EmptiesBetween(b, h, s) =
        IF h <= s THEN E(s) - E(h) ELSE (E(m) - E(h)) + E(s)
  <2> DEFINE empties(q) == Cardinality({t \in 0 .. q - 1 : b[t] = EMPTY_BUCKET})
  <2>1. empties(h) = E(h) /\ empties(s) = E(s) /\ empties(m) = E(m)
    <3>1. h \in 0 .. m /\ s \in 0 .. m /\ m \in 0 .. m
      OBVIOUS
    <3> HIDE DEF E
    <3> QED
      BY <1>1, <3>1
  <2>2. EmptiesBetween(b, h, s) =
          IF h <= s THEN empties(s) - empties(h) ELSE (empties(m) - empties(h)) + empties(s)
    BY <1>2 DEF EmptiesBetween
  <2> HIDE DEF E, empties
  <2> QED
    BY <2>1, <2>2
<1>4. \A p, q \in Nat : p <= q =>
        /\ E(p) \in Nat /\ E(q) \in Nat /\ M(p, q) \in Nat /\ E(q) = E(p) + M(p, q)
        /\ (M(p, q) = 0 <=> \A t \in p .. q - 1 : t \notin holes)
  <2> SUFFICES ASSUME NEW p \in Nat, NEW q \in Nat, p <= q
               PROVE  /\ E(p) \in Nat /\ E(q) \in Nat /\ M(p, q) \in Nat
                      /\ E(q) = E(p) + M(p, q)
                      /\ (M(p, q) = 0 <=> \A t \in p .. q - 1 : t \notin holes)
    BY Zenon
  <2>1. E(p) \in Nat
    BY PrefixSums
  <2>2. E(q) \in Nat
    BY PrefixSums
  <2>3. M(p, q) \in Nat
    BY PrefixSums
  <2>4. E(q) = E(p) + M(p, q)
    BY PrefixSums
  <2>5. M(p, q) = 0 <=> \A t \in p .. q - 1 : t \notin holes
    BY PrefixSums
  <2> QED
    BY <2>1, <2>2, <2>3, <2>4, <2>5
<1>5. E(0) = 0
  <2>1. Within(holes, 0, 0) = {}
    BY DEF Within
  <2> QED
    BY <2>1, FS_EmptySet
<1> HIDE DEF E, M
<1>7. CASE h <= s
  <2>1. /\ E(s) = E(h) + M(h, s) /\ E(h) \in Nat /\ M(h, s) \in Nat
        /\ (M(h, s) = 0 <=> \A t \in h .. s - 1 : t \notin holes)
    <3>1. h \in Nat /\ s \in Nat
      OBVIOUS
    <3> QED
      BY <1>4, <1>7, <3>1
  <2>2. EmptiesBetween(b, h, s) = 0 <=> \A t \in h .. s - 1 : t \notin holes
    BY <1>3, <1>7, <2>1
  <2> QED
    BY <1>0, <1>7, <2>2 DEF Between
<1>8. CASE ~ (h <= s)
  <2>1. /\ E(m) = E(h) + M(h, m) /\ E(h) \in Nat /\ M(h, m) \in Nat
        /\ E(s) = E(0) + M(0, s) /\ M(0, s) \in Nat
        /\ (M(h, m) = 0 <=> \A t \in h .. m - 1 : t \notin holes)
        /\ (M(0, s) = 0 <=> \A t \in 0 .. s - 1 : t \notin holes)
    <3>1. h \in Nat /\ s \in Nat /\ h <= m /\ 0 <= s
      OBVIOUS
    <3> QED
      BY <1>4, <3>1
  <2>2. EmptiesBetween(b, h, s) = 0 <=> M(h, m) = 0 /\ M(0, s) = 0
    BY <1>3, <1>5, <1>8, <2>1
  <2>3. (\A t \in Between(m, h, s) : b[t] # EMPTY_BUCKET)
          <=> (\A t \in h .. m - 1 : t \notin holes) /\ (\A t \in 0 .. s - 1 : t \notin holes)
    BY <1>0, <1>8 DEF Between
  <2> QED
    BY <2>1, <2>2, <2>3
<1> QED
  BY <1>7, <1>8

Hashed == fnv1a \in [Names -> Nat]

(* The home of a name is a slot.                                           *)
LEMMA HomeFacts ==
  ASSUME Hashed, NEW x \in Names, NEW m \in Nat, m > 0
  PROVE  Home(x, m) \in 0 .. m - 1
<1>1. fnv1a[x] \in Nat
  BY DEF Hashed
<1> QED
  BY <1>1 DEF Home

(* The first i nodes are in the table, each in one slot, and no slot on    *)
(* the way to it is empty.                                                 *)
TableOf(b, nodes, i, m) ==
  /\ b \in [0 .. m - 1 -> Int]
  /\ \A j \in 1 .. i : \E s \in 0 .. m - 1 : b[s] = j - 1
  /\ \A s \in 0 .. m - 1 : b[s] # EMPTY_BUCKET => b[s] \in 0 .. i - 1
  /\ \A s, t \in 0 .. m - 1 : b[s] = b[t] /\ b[s] # EMPTY_BUCKET => s = t
  /\ \A s \in 0 .. m - 1 : b[s] # EMPTY_BUCKET =>
       \A t \in Between(m, Home(nodes[b[s] + 1].name, m), s) : b[t] # EMPTY_BUCKET

(* A table with more slots than nodes has an empty one.                    *)
LEMMA EmptySlot ==
  ASSUME NEW b, NEW nodes, NEW i \in Nat, NEW m \in Nat, i < m, TableOf(b, nodes, i, m)
  PROVE  \E s \in 0 .. m - 1 : b[s] = EMPTY_BUCKET
<1> SUFFICES ASSUME \A s \in 0 .. m - 1 : b[s] # EMPTY_BUCKET
             PROVE  FALSE
  OBVIOUS
<1> DEFINE S == 0 .. m - 1
           T == 0 .. i - 1
<1>1. b \in [S -> T] /\ \A s, t \in S : b[s] = b[t] => s = t
  BY DEF TableOf
<1>2. /\ IsFiniteSet(S) /\ Cardinality(S) = m
      /\ IsFiniteSet(T) /\ Cardinality(T) = i
  BY Indexes
<1> HIDE DEF S, T
<1>3. b \in Injection(S, T)
  BY <1>1 DEF Injection, IsInjective
<1>4. Cardinality(S) <= Cardinality(T)
  BY <1>2, <1>3, FS_Injection
<1> QED
  BY <1>2, <1>4

IsFirstFree(b, m, h, r) ==
  /\ r \in 0 .. m - 1 /\ b[r] = EMPTY_BUCKET
  /\ \A t \in Between(m, h, r) : b[t] # EMPTY_BUCKET

(* Where there is an empty slot, FirstFree finds one, with none before it. *)
LEMMA FirstFreeFacts ==
  ASSUME NEW m \in Nat, NEW b \in [0 .. m - 1 -> Int], NEW h \in 0 .. m - 1,
         \E s \in 0 .. m - 1 : b[s] = EMPTY_BUCKET
  PROVE  IsFirstFree(b, m, h, FirstFree(b, h))
<1> DEFINE F == {j \in 0 .. m - 1 : b[Step(h, j, m)] = EMPTY_BUCKET}
           k == Min(F)
           s == Step(h, k, m)
<1>1. DOMAIN b = 0 .. m - 1 /\ Size(b) = m
  BY SizeOf
<1>2. FirstFree(b, h) = s
  BY <1>1 DEF FirstFree
<1>3. F # {} /\ F \subseteq Nat
  <2>1. PICK r \in 0 .. m - 1 : b[r] = EMPTY_BUCKET
    OBVIOUS
  <2>2. PICK j \in 0 .. m - 1 : Step(h, j, m) = r
    BY ProbeFacts DEF Reaches
  <2> QED
    BY <2>1, <2>2
<1>4. k \in F /\ \A j \in F : k <= j
  <2> HIDE DEF F
  <2>1. \E j \in F : \A l \in F : j <= l
    BY <1>3, LeastNatural
  <2> QED
    BY <2>1 DEF Min
<1> HIDE DEF k
<1>5. k \in 0 .. m - 1 /\ b[s] = EMPTY_BUCKET /\ s \in 0 .. m - 1
  BY <1>4, StepFacts
<1>6. \A j \in 0 .. m - 1 : j < k => b[Step(h, j, m)] # EMPTY_BUCKET
  BY <1>4
<1> HIDE DEF F, s
<1>7. PICK l \in 0 .. m - 1 : Reaches(m, h, s, l)
  BY <1>5, ProbeFacts
<1>8. l = k
  <2>1. Step(h, k, m) = s
    BY DEF s
  <2>2. /\ s = IF h + k < m THEN h + k ELSE (h + k) - m
        /\ s = IF h + l < m THEN h + l ELSE (h + l) - m
    BY <1>5, <1>7, <2>1, StepFacts DEF Reaches
  <2> QED
    BY <1>5, <2>2
<1>9. \A t \in Between(m, h, s) : b[t] # EMPTY_BUCKET
  BY <1>6, <1>7, <1>8 DEF Reaches
<1> QED
  BY <1>2, <1>5, <1>9 DEF IsFirstFree

(* One more node in the table.                                             *)
LEMMA InsertKeeps ==
  ASSUME Hashed, NEW nodes \in Seq(NodeData), NEW m \in Nat, NEW i \in 1 .. Len(nodes), i < m,
         NEW b, TableOf(b, nodes, i - 1, m), NEW c,
         c = [b EXCEPT ![FirstFree(b, Home(nodes[i].name, m))] = i - 1]
  PROVE  TableOf(c, nodes, i, m)
<1> DEFINE h == Home(nodes[i].name, m)
           r == FirstFree(b, h)
<1>1. i \in Nat /\ i > 0 /\ i - 1 \in Nat /\ i - 1 < m /\ m > 0
  OBVIOUS
<1>2. nodes[i].name \in Names
  <2>1. nodes[i] \in NodeData
    BY SeqElements
  <2> QED
    BY <2>1 DEF NodeData
<1>3. h \in 0 .. m - 1
  BY <1>1, <1>2, HomeFacts
<1>4. \E s \in 0 .. m - 1 : b[s] = EMPTY_BUCKET
  BY <1>1, EmptySlot
<1> HIDE DEF h
<1>5. /\ b \in [0 .. m - 1 -> Int]
      /\ \A j \in 1 .. i - 1 : \E s \in 0 .. m - 1 : b[s] = j - 1
      /\ \A s \in 0 .. m - 1 : b[s] # EMPTY_BUCKET => b[s] \in 0 .. (i - 1) - 1
      /\ \A s, t \in 0 .. m - 1 : b[s] = b[t] /\ b[s] # EMPTY_BUCKET => s = t
      /\ \A s \in 0 .. m - 1 : b[s] # EMPTY_BUCKET =>
           \A t \in Between(m, Home(nodes[b[s] + 1].name, m), s) : b[t] # EMPTY_BUCKET
  BY DEF TableOf
<1>6. /\ r \in 0 .. m - 1 /\ b[r] = EMPTY_BUCKET
      /\ \A t \in Between(m, h, r) : b[t] # EMPTY_BUCKET
  <2>1. b \in [0 .. m - 1 -> Int]
    BY <1>5
  <2>2. IsFirstFree(b, m, h, r)
    BY <1>3, <1>4, <2>1, FirstFreeFacts
  <2> QED
    BY <2>2 DEF IsFirstFree
<1>7. c = [b EXCEPT ![r] = i - 1]
  BY DEF h
<1> HIDE DEF r
<1>8. /\ c \in [0 .. m - 1 -> Int] /\ c[r] = i - 1
      /\ \A s \in 0 .. m - 1 : s # r => c[s] = b[s]
  <2>1. i - 1 \in Int /\ b \in [0 .. m - 1 -> Int] /\ r \in 0 .. m - 1
    BY <1>1, <1>5, <1>6
  <2> HIDE <1>5, <1>6
  <2> QED
    BY <1>7, <2>1
<1>9. EMPTY_BUCKET = -1
  BY DEF EMPTY_BUCKET
<1>10. \A j \in 1 .. i : \E s \in 0 .. m - 1 : c[s] = j - 1
  <2> SUFFICES ASSUME NEW j \in 1 .. i PROVE \E s \in 0 .. m - 1 : c[s] = j - 1
    OBVIOUS
  <2>1. CASE j = i
    BY <1>6, <1>8, <2>1
  <2>2. CASE j # i
    <3>1. PICK s \in 0 .. m - 1 : b[s] = j - 1
      BY <1>1, <1>5, <2>2
    <3>2. s # r
      BY <1>6, <1>9, <3>1
    <3> QED
      BY <1>8, <3>1, <3>2
  <2> QED
    BY <2>1, <2>2
<1>11. \A s \in 0 .. m - 1 : c[s] # EMPTY_BUCKET => c[s] \in 0 .. i - 1
  <2> SUFFICES ASSUME NEW s \in 0 .. m - 1, c[s] # EMPTY_BUCKET PROVE c[s] \in 0 .. i - 1
    OBVIOUS
  <2>1. CASE s = r
    BY <1>1, <1>8, <2>1
  <2>2. CASE s # r
    <3>1. c[s] = b[s] /\ b[s] \in 0 .. (i - 1) - 1
      BY <1>5, <1>8, <2>2
    <3> QED
      BY <1>1, <3>1
  <2> QED
    BY <2>1, <2>2
<1>12. \A s, t \in 0 .. m - 1 : c[s] = c[t] /\ c[s] # EMPTY_BUCKET => s = t
  <2> SUFFICES ASSUME NEW s \in 0 .. m - 1, NEW t \in 0 .. m - 1,
                      c[s] = c[t], c[s] # EMPTY_BUCKET
               PROVE  s = t
    OBVIOUS
  <2>1. \A u \in 0 .. m - 1 : b[u] # i - 1
    <3> SUFFICES ASSUME NEW u \in 0 .. m - 1, b[u] = i - 1 PROVE FALSE
      OBVIOUS
    <3>1. b[u] # EMPTY_BUCKET
      BY <1>1, <1>9
    <3>2. b[u] \in 0 .. (i - 1) - 1
      BY <1>5, <3>1
    <3> QED
      BY <1>1, <3>2
  <2>2. CASE s = r \/ t = r
    BY <1>8, <2>1, <2>2
  <2>3. CASE s # r /\ t # r
    BY <1>5, <1>8, <2>3
  <2> QED
    BY <2>2, <2>3
<1>13. ASSUME NEW s \in 0 .. m - 1, c[s] # EMPTY_BUCKET,
              NEW t \in Between(m, Home(nodes[c[s] + 1].name, m), s)
       PROVE  c[t] # EMPTY_BUCKET
  <2>1. t \in 0 .. m - 1
    BY DEF Between
  <2>2. CASE t = r
    BY <1>1, <1>8, <1>9, <2>2
  <2>3. CASE t # r /\ s = r
    <3>1. Home(nodes[c[s] + 1].name, m) = h
      <4>1. c[s] + 1 = i
        BY <1>1, <1>8, <2>3
      <4> QED
        BY <4>1 DEF h
    <3> QED
      BY <1>6, <1>8, <1>13, <2>1, <2>3, <3>1
  <2>4. CASE t # r /\ s # r
    <3>1. c[s] = b[s] /\ c[t] = b[t]
      BY <1>8, <2>1, <2>4
    <3>2. b[s] # EMPTY_BUCKET /\ t \in Between(m, Home(nodes[b[s] + 1].name, m), s)
      BY <1>13, <3>1
    <3> QED
      BY <1>5, <3>1, <3>2
  <2> QED
    BY <2>2, <2>3, <2>4
<1> QED
  BY <1>8, <1>10, <1>11, <1>12, <1>13 DEF TableOf

(* What build_name_buckets makes is a table of all nodes.                  *)
LEMMA BuiltTable ==
  ASSUME Hashed, NEW nodes \in Seq(NodeData)
  PROVE  TableOf(build_name_buckets(nodes), nodes, Len(nodes), bucket_capacity(Len(nodes)))
<1> DEFINE n == Len(nodes)
           m == bucket_capacity(n)
           T == [0 .. m - 1 -> Int]
           none == [s \in 0 .. m - 1 |-> EMPTY_BUCKET]
           Ins(b, i) == [b EXCEPT ![FirstFree(b, Home(nodes[i].name, m))] = i - 1]
           Rec(f) == f = [i \in 0 .. n |-> IF i = 0 THEN none ELSE Ins(f[i - 1], i)]
           table == CHOOSE f : Rec(f)
           step  == [i \in 1 .. n |-> [b \in T |-> Ins(b, i)]]
<1>1. n \in Nat /\ m \in Nat /\ m > n
  <2>1. n \in Nat
    OBVIOUS
  <2> HIDE DEF n
  <2> QED
    BY <2>1, CapacityFacts
<1>2. build_name_buckets(nodes) = table[n]
  BY DEF build_name_buckets
<1> HIDE DEF n, m, table
<1>3. none \in T
  BY DEF EMPTY_BUCKET
<1>4. \A i \in 1 .. n : \A b \in T : Ins(b, i) \in T
  <2> SUFFICES ASSUME NEW i \in 1 .. n, NEW b \in T PROVE Ins(b, i) \in T
    OBVIOUS
  <2> DEFINE r == FirstFree(b, Home(nodes[i].name, m))
  <2>1. i - 1 \in Int
    BY <1>1
  <2> HIDE DEF r
  <2>2. [b EXCEPT ![r] = i - 1] \in T
    BY <2>1
  <2> QED
    BY <2>2 DEF r
<1>5. \A i \in 1 .. n : \A b \in T : step[i][b] = Ins(b, i)
  <2> HIDE DEF Ins, T
  <2> QED
    OBVIOUS
<1> HIDE DEF T, Ins, step, none
<1>6. StepsIn(step, n, T)
  BY <1>4, <1>5 DEF StepsIn
<1>7. PICK g \in [0 .. n -> T] : Follows(g, n, none, step)
  BY <1>1, <1>3, <1>6, StepsDefine
<1>8. \A i \in 1 .. n : i - 1 \in 0 .. n /\ i # 0
  BY <1>1
<1>9. Rec(g)
  <2>1. \A i \in 0 .. n : g[i] = IF i = 0 THEN none ELSE Ins(g[i - 1], i)
    <3> SUFFICES ASSUME NEW i \in 0 .. n PROVE g[i] = IF i = 0 THEN none ELSE Ins(g[i - 1], i)
      OBVIOUS
    <3>1. CASE i = 0
      BY <1>7, <3>1 DEF Follows
    <3>2. CASE i # 0
      <4>1. i \in 1 .. n /\ i - 1 \in 0 .. n
        BY <1>1, <3>2
      <4>2. g[i] = step[i][g[i - 1]] /\ g[i - 1] \in T
        BY <1>7, <4>1 DEF Follows
      <4> QED
        BY <1>5, <3>2, <4>1, <4>2
    <3> QED
      BY <3>1, <3>2
  <2>2. g = [i \in 0 .. n |-> g[i]]
    BY <1>7
  <2> QED
    BY <2>1, <2>2
<1>10. Rec(table)
  <2> HIDE DEF Rec
  <2> QED
    BY <1>9 DEF table
<1>11. /\ table[0] = none
       /\ \A i \in 1 .. n : table[i] = Ins(table[i - 1], i)
  <2>1. \A i \in 0 .. n : table[i] = IF i = 0 THEN none ELSE Ins(table[i - 1], i)
    BY <1>10
  <2>2. 0 \in 0 .. n /\ \A i \in 1 .. n : i \in 0 .. n /\ i # 0
    BY <1>1
  <2> HIDE DEF Rec
  <2> QED
    BY <2>1, <2>2
<1> HIDE DEF Rec
<1> DEFINE D == {i \in Nat : i <= n => TableOf(table[i], nodes, i, m)}
<1>12. 0 \in D
  <2>1. none \in [0 .. m - 1 -> Int] /\ \A s \in 0 .. m - 1 : none[s] = EMPTY_BUCKET
    BY <1>3 DEF none, T
  <2>2. TableOf(none, nodes, 0, m)
    BY <2>1 DEF TableOf
  <2> QED
    BY <1>11, <2>2
<1>13. ASSUME NEW i \in Nat, i \in D PROVE i + 1 \in D
  <2> SUFFICES ASSUME i + 1 <= n PROVE TableOf(table[i + 1], nodes, i + 1, m)
    OBVIOUS
  <2>1. TableOf(table[i], nodes, i, m)
    BY <1>1, <1>13
  <2> DEFINE j == i + 1
  <2>2. j \in 1 .. n /\ j - 1 = i /\ j < m
    BY <1>1
  <2> HIDE DEF j
  <2>3. table[j] = Ins(table[j - 1], j) /\ TableOf(table[j - 1], nodes, j - 1, m)
    BY <1>11, <2>1, <2>2
  <2>4. j \in 1 .. Len(nodes)
    BY <2>2 DEF n
  <2>5. TableOf(table[j], nodes, j, m)
    <3> DEFINE b == table[j - 1]
               c == table[j]
    <3>1. c = [b EXCEPT ![FirstFree(b, Home(nodes[j].name, m))] = j - 1]
      BY <2>3 DEF Ins
    <3>2. TableOf(b, nodes, j - 1, m)
      BY <2>3
    <3> HIDE DEF b, c
    <3>3. TableOf(c, nodes, j, m)
      BY <1>1, <2>2, <2>4, <3>1, <3>2, InsertKeeps
    <3> QED
      BY <3>3 DEF c
  <2> QED
    BY <2>5 DEF j
<1>14. \A i \in Nat : i \in D
  <2> HIDE DEF D
  <2> QED
    BY <1>12, <1>13, NatSetInduction
<1>15. TableOf(table[n], nodes, n, m)
  BY <1>1, <1>14
<1> QED
  BY <1>2, <1>15 DEF n, m

(* The sweep accepts a table of all nodes.                                 *)
LEMMA TableValidates ==
  ASSUME Hashed, NEW nodes \in Seq(NodeData), NEW a, a.nodes = Array(nodes),
         TableOf(a.name_buckets, nodes, Len(nodes), bucket_capacity(Len(nodes)))
  PROVE  CanonicalTable(a) /\ Reachable(a)
<1> DEFINE n == Len(nodes)
           m == bucket_capacity(n)
           b == a.name_buckets
           used == {s \in DOMAIN b : b[s] # EMPTY_BUCKET}
<1>1. /\ n \in Nat /\ DOMAIN a.nodes = 0 .. n - 1 /\ Size(a.nodes) = n
      /\ \A i \in 0 .. n - 1 : a.nodes[i] = nodes[i + 1] /\ i + 1 \in 1 .. n
  BY ArrayOf
<1> HIDE DEF n
<1>2. m \in Nat /\ m > n
  BY <1>1, CapacityFacts
<1>3. TableOf(b, nodes, n, m)
  BY DEF n
<1> HIDE DEF b, m
<1>4. /\ b \in [0 .. m - 1 -> Int]
      /\ \A j \in 1 .. n : \E s \in 0 .. m - 1 : b[s] = j - 1
      /\ \A s \in 0 .. m - 1 : b[s] # EMPTY_BUCKET => b[s] \in 0 .. n - 1
      /\ \A s, t \in 0 .. m - 1 : b[s] = b[t] /\ b[s] # EMPTY_BUCKET => s = t
      /\ \A s \in 0 .. m - 1 : b[s] # EMPTY_BUCKET =>
           \A t \in Between(m, Home(nodes[b[s] + 1].name, m), s) : b[t] # EMPTY_BUCKET
  BY <1>3 DEF TableOf
<1>5. DOMAIN b = 0 .. m - 1 /\ Size(b) = m /\ IsFiniteSet(0 .. m - 1)
  BY <1>2, <1>4, SizeOf, Indexes
<1>6. used \subseteq 0 .. m - 1 /\ \A s : s \in used <=> s \in 0 .. m - 1 /\ b[s] # EMPTY_BUCKET
  BY <1>5
<1> HIDE DEF used
<1>7. Cardinality(used) = n
  <2> DEFINE T == 0 .. n - 1
             f == [s \in used |-> b[s]]
  <2>1. f \in [used -> T]
    BY <1>4, <1>6
  <2>2. IsFiniteSet(used)
    BY <1>5, <1>6, FS_Subset
  <2>3. \A s, t \in used : f[s] = f[t] => s = t
    BY <1>4, <1>6
  <2>4. ASSUME NEW i \in T PROVE \E s \in used : f[s] = i
    <3>1. i + 1 \in 1 .. n /\ (i + 1) - 1 = i /\ i # EMPTY_BUCKET
      BY <1>1 DEF EMPTY_BUCKET
    <3>2. PICK s \in 0 .. m - 1 : b[s] = i
      BY <1>4, <3>1
    <3> QED
      BY <1>6, <3>1, <3>2
  <2>5. Cardinality(T) = n
    BY <1>1, Indexes
  <2> HIDE DEF T, f
  <2>6. Cardinality(T) = Cardinality(used)
    BY <2>1, <2>2, <2>3, <2>4, SameSize
  <2> QED
    BY <2>5, <2>6
<1>8. CanonicalTable(a)
  <2>1. \A s \in used : b[s] \in DOMAIN a.nodes
    BY <1>1, <1>4, <1>6
  <2>2. \A s, t \in used : b[s] = b[t] => s = t
    BY <1>4, <1>6
  <2>3. Size(b) = bucket_capacity(Size(a.nodes))
    BY <1>1, <1>5 DEF m
  <2> QED
    BY <1>1, <1>7, <2>1, <2>2, <2>3 DEF CanonicalTable, used, b
<1>9. Reachable(a)
  <2> SUFFICES ASSUME NEW s \in DOMAIN b, b[s] # EMPTY_BUCKET
               PROVE  EmptiesBetween(b, Home(a.nodes[b[s]].name, Size(b)), s) = 0
    BY DEF Reachable, b
  <2> DEFINE h == Home(a.nodes[b[s]].name, m)
  <2>1. s \in 0 .. m - 1 /\ b[s] \in 0 .. n - 1
    BY <1>4, <1>5
  <2>2. a.nodes[b[s]] = nodes[b[s] + 1] /\ a.nodes[b[s]].name \in Names
    <3>1. a.nodes[b[s]] = nodes[b[s] + 1] /\ b[s] + 1 \in 1 .. n
      BY <1>1, <2>1
    <3>2. nodes[b[s] + 1] \in NodeData
      BY <3>1, SeqElements DEF n
    <3> QED
      BY <3>1, <3>2 DEF NodeData
  <2>3. h \in 0 .. m - 1
    BY <1>1, <1>2, <2>2, HomeFacts
  <2>4. \A t \in Between(m, h, s) : b[t] # EMPTY_BUCKET
    BY <1>4, <2>1, <2>2
  <2> HIDE DEF h
  <2>5. EmptiesBetween(b, h, s) = 0
    BY <1>2, <1>5, <2>1, <2>3, <2>4, EmptiesCounted
  <2> QED
    BY <1>5, <2>5 DEF h
<1> QED
  BY <1>8, <1>9

(* Strictly sorted names are distinct.                                     *)
LEMMA SortedDistinct ==
  ASSUME NEW a, NEW n \in Nat, a.nodes \in [0 .. n - 1 -> NodeData], StrictlySorted(a)
  PROVE  \A i, j \in 0 .. n - 1 : a.nodes[i].name = a.nodes[j].name => i = j
<1> DEFINE name(i) == a.nodes[i].name
           D == {d \in Nat : \A i \in 0 .. n - 1 :
                   i + d + 1 \in 0 .. n - 1 => name(i) < name(i + d + 1)}
<1>1. \A i \in 0 .. n - 1 : name(i) \in Nat
  <2>1. \A e \in NodeData : e.name \in Nat
    BY BuilderAssumption DEF NodeData
  <2> QED
    BY <2>1
<1>2. \A i \in 0 .. n - 1 : i + 1 \in 0 .. n - 1 => name(i) < name(i + 1)
  <2>1. Size(a.nodes) = n
    BY SizeOf
  <2>2. ASSUME NEW i \in 0 .. n - 1, i + 1 \in 0 .. n - 1
        PROVE  name(i) < name(i + 1)
    <3>1. i + 1 \in 1 .. n - 1 /\ (i + 1) - 1 = i
      BY <2>2
    <3>2. a.nodes[(i + 1) - 1].name < a.nodes[i + 1].name
      BY <2>1, <3>1 DEF StrictlySorted
    <3> QED
      BY <3>1, <3>2
  <2> QED
    BY <2>2
<1> HIDE DEF name
<1>3. 0 \in D
  BY <1>2
<1>4. ASSUME NEW d \in Nat, d \in D PROVE d + 1 \in D
  <2> SUFFICES ASSUME NEW i \in 0 .. n - 1, i + (d + 1) + 1 \in 0 .. n - 1
               PROVE  name(i) < name(i + (d + 1) + 1)
    OBVIOUS
  <2> DEFINE j == i + d + 1
  <2>1. j \in 0 .. n - 1 /\ j + 1 = i + (d + 1) + 1
    OBVIOUS
  <2>2. name(i) < name(j)
    BY <1>4, <2>1
  <2>3. name(j) < name(j + 1)
    BY <1>2, <2>1
  <2>4. name(i) \in Nat /\ name(j) \in Nat /\ name(j + 1) \in Nat
    BY <1>1, <2>1
  <2>5. name(i) < name(j + 1)
    <3> HIDE DEF j
    <3> QED
      BY <2>2, <2>3, <2>4
  <2> QED
    BY <2>1, <2>5
<1>5. \A d \in Nat : d \in D
  <2> HIDE DEF D
  <2> QED
    BY <1>3, <1>4, NatSetInduction
<1>6. ASSUME NEW i \in 0 .. n - 1, NEW j \in 0 .. n - 1, i < j
      PROVE  name(i) < name(j)
  <2>1. PICK d \in Nat : i + d + 1 = j
    <3>1. (j - i) - 1 \in Nat /\ i + ((j - i) - 1) + 1 = j
      BY <1>6
    <3> QED
      BY <3>1
  <2>2. d \in D
    BY <1>5
  <2> QED
    BY <2>1, <2>2
<1>7. ASSUME NEW i \in 0 .. n - 1, NEW j \in 0 .. n - 1, name(i) = name(j)
      PROVE  i = j
  <2>1. ~ (i < j) /\ ~ (j < i)
    <3>1. name(i) \in Nat
      BY <1>1
    <3> QED
      BY <1>6, <1>7, <3>1
  <2> QED
    BY <2>1
<1> QED
  BY <1>7 DEF name

(* Every node is in a canonical table.                                     *)
LEMMA CanonicalHoldsAll ==
  ASSUME NEW a, NEW n \in Nat, DOMAIN a.nodes = 0 .. n - 1,
         NEW m \in Nat, DOMAIN a.name_buckets = 0 .. m - 1, CanonicalTable(a)
  PROVE  /\ m = bucket_capacity(n)
         /\ \A i \in 0 .. n - 1 : \E s \in 0 .. m - 1 : a.name_buckets[s] = i
         /\ \A s \in 0 .. m - 1 :
              a.name_buckets[s] # EMPTY_BUCKET => a.name_buckets[s] \in 0 .. n - 1
<1> DEFINE b == a.name_buckets
           used == {s \in DOMAIN b : b[s] # EMPTY_BUCKET}
           T == 0 .. n - 1
           f == [s \in used |-> b[s]]
<1>1. Size(a.nodes) = n /\ Size(b) = m /\ IsFiniteSet(DOMAIN b)
  BY SizeOf
<1>2. /\ m = bucket_capacity(n)
      /\ \A s \in used : b[s] \in T
      /\ \A s, t \in used : b[s] = b[t] => s = t
      /\ Cardinality(used) = n
  BY <1>1 DEF CanonicalTable
<1>3. f \in Injection(used, T)
  <2>1. f \in [used -> T]
    BY <1>2
  <2>2. \A s, t \in used : f[s] = f[t] => s = t
    BY <1>2
  <2> HIDE DEF f, used, T
  <2> QED
    BY <2>1, <2>2 DEF Injection, IsInjective
<1>4. IsFiniteSet(T) /\ Cardinality(T) = n
  BY Indexes
<1>5. f \in Surjection(used, T)
  <2> HIDE DEF f, used, T
  <2> QED
    BY <1>2, <1>3, <1>4, FS_Injection
<1>6. \A i \in T : \E s \in used : f[s] = i
  <2> HIDE DEF f, used, T
  <2> QED
    BY <1>5 DEF Surjection
<1>7. \A i \in T : \E s \in 0 .. m - 1 : b[s] = i
  BY <1>6
<1>8. \A s \in 0 .. m - 1 : b[s] # EMPTY_BUCKET => b[s] \in T
  BY <1>2
<1> QED
  BY <1>2, <1>7, <1>8

(* The probe for x finds the node of that name, or that there is none.     *)
Finds(a, x) ==
  LET at == {i \in DOMAIN a.nodes : a.nodes[i].name = x}
  IN IF at = {} THEN idx_of(a, x) = NotFound ELSE at = {idx_of(a, x)}

(* Where the names are sorted, the table is canonical and the way from     *)
(* the home of a name to its slot is full, the probe is exact.             *)
LEMMA ProbeExact ==
  ASSUME Hashed, NEW a, NEW n \in Nat, a.nodes \in [0 .. n - 1 -> NodeData],
         NEW m \in Nat, a.name_buckets \in [0 .. m - 1 -> Int],
         StrictlySorted(a), CanonicalTable(a), Reachable(a), NEW x \in Names
  PROVE  Finds(a, x)
<1> DEFINE b == a.name_buckets
           h == Home(x, m)
           At(k) == b[Step(h, k, m)]
           ends == {k \in 0 .. m - 1 : At(k) \notin 0 .. n - 1 \/ a.nodes[At(k)].name = x}
           at == {i \in 0 .. n - 1 : a.nodes[i].name = x}
<1>1. DOMAIN a.nodes = 0 .. n - 1 /\ DOMAIN b = 0 .. m - 1 /\ Size(b) = m
  BY SizeOf
<1>2. /\ m = bucket_capacity(n)
      /\ \A i \in 0 .. n - 1 : \E s \in 0 .. m - 1 : b[s] = i
      /\ \A s \in 0 .. m - 1 : b[s] # EMPTY_BUCKET => b[s] \in 0 .. n - 1
  BY <1>1, CanonicalHoldsAll
<1>3. m > 0 /\ h \in 0 .. m - 1
  <2>1. m > 0
    BY <1>2, CapacityFacts
  <2> QED
    BY <2>1, HomeFacts
<1>4. \A i, j \in 0 .. n - 1 : a.nodes[i].name = a.nodes[j].name => i = j
  BY SortedDistinct
<1>5. \A s \in 0 .. m - 1 : b[s] # EMPTY_BUCKET =>
        EmptiesBetween(b, Home(a.nodes[b[s]].name, m), s) = 0
  BY <1>1 DEF Reachable
<1>6. idx_of(a, x) = IF ends = {} \/ At(Min(ends)) \notin 0 .. n - 1 THEN NotFound
                     ELSE At(Min(ends))
  BY <1>1 DEF idx_of
<1> HIDE DEF b, h
<1>7. ends \subseteq Nat
  OBVIOUS
<1>8. ends # {} => Min(ends) \in ends /\ \A k \in ends : Min(ends) <= k
  <2> HIDE DEF ends
  <2> SUFFICES ASSUME ends # {} PROVE Min(ends) \in ends /\ \A k \in ends : Min(ends) <= k
    OBVIOUS
  <2>1. \E k \in ends : \A l \in ends : k <= l
    BY <1>7, LeastNatural
  <2> QED
    BY <2>1 DEF Min
<1> DEFINE k0 == Min(ends)
<1> HIDE DEF k0
<1>9. CASE at = {}
  <2>1. ends = {} \/ At(k0) \notin 0 .. n - 1
    BY <1>8, <1>9 DEF k0
  <2>2. idx_of(a, x) = NotFound
    BY <1>6, <2>1 DEF k0
  <2> QED
    BY <1>1, <1>9, <2>2 DEF Finds
<1>10. CASE at # {}
  <2>1. PICK i \in 0 .. n - 1 : a.nodes[i].name = x
    BY <1>10
  <2>2. at = {i}
    BY <1>4, <2>1
  <2>3. PICK s \in 0 .. m - 1 : b[s] = i
    BY <1>2
  <2>4. i # EMPTY_BUCKET
    BY DEF EMPTY_BUCKET
  <2>5. EmptiesBetween(b, h, s) = 0
    BY <1>5, <2>1, <2>3, <2>4 DEF h
  <2>6. \A t \in Between(m, h, s) : b[t] # EMPTY_BUCKET
    BY <1>1, <1>3, <2>5, EmptiesCounted
  <2>7. PICK k \in 0 .. m - 1 : Reaches(m, h, s, k)
    BY <1>3, ProbeFacts
  <2>8. At(k) = i
    BY <2>3, <2>7 DEF Reaches
  <2>9. k \in ends
    BY <2>1, <2>8
  <2>10. k0 \in 0 .. m - 1 /\ k0 <= k /\ (At(k0) \notin 0 .. n - 1 \/ a.nodes[At(k0)].name = x)
    BY <1>8, <2>9 DEF k0
  <2>11. At(k0) \in 0 .. n - 1
    <3>1. CASE k0 = k
      BY <2>8, <3>1
    <3>2. CASE k0 < k
      <4>1. Step(h, k0, m) \in Between(m, h, s)
        BY <2>7, <2>10, <3>2 DEF Reaches
      <4>2. Step(h, k0, m) \in 0 .. m - 1
        BY <4>1 DEF Between
      <4> QED
        BY <1>2, <2>6, <4>1, <4>2
    <3> QED
      BY <2>10, <3>1, <3>2
  <2>12. At(k0) = i
    BY <1>4, <2>1, <2>10, <2>11
  <2>13. ends # {} /\ At(Min(ends)) = At(k0)
    BY <2>9 DEF k0
  <2>14. idx_of(a, x) = i
    <3> HIDE DEF ends
    <3> QED
      BY <1>6, <2>11, <2>12, <2>13
  <2>15. idx_of(a, x) = i /\ at = {i}
    BY <2>2, <2>14
  <2> QED
    <3> HIDE DEF h, b
    <3>1. {j \in DOMAIN a.nodes : a.nodes[j].name = x} = {i}
      BY <1>1, <2>15
    <3> QED
      BY <2>15, <3>1 DEF Finds
<1> QED
  BY <1>9, <1>10

(* Numbers that hold every smaller one are those below their count.        *)
LEMMA InitialSegment ==
  ASSUME NEW E \in Nat, NEW D, D \subseteq 0 .. E - 1,
         \A k, l \in 0 .. E - 1 : k < l /\ l \in D => k \in D
  PROVE  Cardinality(D) \in 0 .. E /\ \A k \in 0 .. E - 1 : k \in D <=> k < Cardinality(D)
<1> DEFINE S == {k \in Nat : k \notin D}
<1>1. E \in S /\ S \subseteq Nat
  OBVIOUS
<1>2. PICK m \in S : \A k \in S : m <= k
  <2> HIDE DEF S
  <2> QED
    BY <1>1, LeastNatural
<1>3. m \in Nat /\ m \notin D /\ m <= E /\ \A k \in Nat : k < m => k \in D
  BY <1>1, <1>2
<1>4. \A k \in D : k < m
  <2> SUFFICES ASSUME NEW k \in D, k >= m PROVE FALSE
    BY <1>3
  <2>1. k \in 0 .. E - 1
    OBVIOUS
  <2> QED
    BY <1>3, <2>1
<1>5. D = 0 .. m - 1
  <2>1. \A k \in D : k \in 0 .. m - 1
    BY <1>3, <1>4
  <2>2. \A k \in 0 .. m - 1 : k \in D
    BY <1>3
  <2> QED
    BY <2>1, <2>2
<1>6. Cardinality(D) = m
  BY <1>3, <1>5, Indexes
<1> QED
  BY <1>3, <1>5, <1>6

(* Offsets that share out E places among n nodes.                          *)
InShape(off, n, E) ==
  /\ off \in [0 .. n -> Nat] /\ off[0] = 0 /\ off[n] = E
  /\ \A i \in 0 .. n - 1 : off[i] <= off[i + 1]

(* How many of the keys are below i.                                       *)
Counted(off, n, E, key) ==
  off = [i \in 0 .. n |-> Cardinality({k \in 0 .. E - 1 : key[k] < i})]

Rising(key, E) == \A k, l \in 0 .. E - 1 : k < l => key[k] <= key[l]

(* Each node's places are those of its key.                                *)
Grouped(off, n, E, key) ==
  \A i \in 0 .. n - 1 : \A k \in 0 .. E - 1 :
    off[i] <= k /\ k < off[i + 1] => key[k] = i

(* Counts of keys in order are the places where each key begins.           *)
LEMMA CountsShare ==
  ASSUME NEW n \in Nat, NEW E \in Nat, NEW key \in [0 .. E - 1 -> 0 .. n - 1],
         NEW off, Counted(off, n, E, key)
  PROVE  /\ InShape(off, n, E)
         /\ Rising(key, E) => Grouped(off, n, E, key)
<1> DEFINE D(i) == {k \in 0 .. E - 1 : key[k] < i}
<1>1. IsFiniteSet(0 .. E - 1) /\ Cardinality(0 .. E - 1) = E
  BY Indexes
<1>2. \A i \in 0 .. n : off[i] = Cardinality(D(i))
  BY DEF Counted
<1>3. \A i \in 0 .. n : IsFiniteSet(D(i)) /\ Cardinality(D(i)) \in Nat
  BY <1>1, FS_Subset, FS_CardinalityType
<1>4. D(0) = {} /\ D(n) = 0 .. E - 1
  OBVIOUS
<1>5. ASSUME NEW i \in 0 .. n - 1 PROVE off[i] <= off[i + 1]
  <2>1. D(i) \subseteq D(i + 1) /\ i \in 0 .. n /\ i + 1 \in 0 .. n
    OBVIOUS
  <2>2. Cardinality(D(i)) <= Cardinality(D(i + 1))
    <3>1. IsFiniteSet(D(i + 1))
      BY <1>3, <2>1
    <3> HIDE DEF D
    <3> QED
      BY <2>1, <3>1, FS_Subset
  <2> QED
    BY <1>2, <2>1, <2>2
<1>6. InShape(off, n, E)
  <2>1. off \in [0 .. n -> Nat]
    <3>1. off = [i \in 0 .. n |-> off[i]]
      BY DEF Counted
    <3> QED
      BY <1>2, <1>3, <3>1
  <2>2. off[0] = 0
    BY <1>2, <1>4, FS_EmptySet
  <2>3. off[n] = E
    BY <1>1, <1>2, <1>4
  <2> QED
    BY <1>5, <2>1, <2>2, <2>3 DEF InShape
<1>7. ASSUME Rising(key, E), NEW i \in 0 .. n - 1, NEW k \in 0 .. E - 1, off[i] <= k, k < off[i + 1]
      PROVE  key[k] = i
  <2>1. ASSUME NEW j \in 0 .. n
        PROVE  k \in D(j) <=> k < off[j]
    <3>1. D(j) \subseteq 0 .. E - 1
      OBVIOUS
    <3>2. \A p, q \in 0 .. E - 1 : p < q /\ q \in D(j) => p \in D(j)
      BY <1>7 DEF Rising
    <3>3. \A p \in 0 .. E - 1 : p \in D(j) <=> p < Cardinality(D(j))
      <4> HIDE DEF D
      <4> QED
        BY <3>1, <3>2, InitialSegment
    <3> QED
      BY <1>2, <3>3
  <2>2. k \notin D(i) /\ k \in D(i + 1)
    <3>1. i \in 0 .. n /\ i + 1 \in 0 .. n /\ off[i] \in Nat
      BY <1>6 DEF InShape
    <3> QED
      BY <1>7, <2>1, <3>1
  <2> QED
    BY <2>2
<1> QED
  BY <1>6, <1>7 DEF Grouped

(* Offsets in shape give every place to one node.                          *)
LEMMA ShapesPartition ==
  ASSUME NEW n \in Nat, NEW E \in Nat, NEW off, InShape(off, n, E)
  PROVE  /\ \A i \in 0 .. n : off[i] \in 0 .. E
         /\ \A k \in 0 .. E - 1 : \E i \in 0 .. n - 1 : off[i] <= k /\ k < off[i + 1]
<1>1. /\ off \in [0 .. n -> Nat] /\ off[0] = 0 /\ off[n] = E
      /\ \A i \in 0 .. n - 1 : off[i] <= off[i + 1]
  BY DEF InShape
<1>2. \A i \in 0 .. n : off[i] \in 0 .. E
  <2> DEFINE D == {d \in Nat : d <= n => off[n - d] <= E}
  <2>1. 0 \in D
    BY <1>1
  <2>2. ASSUME NEW d \in Nat, d \in D PROVE d + 1 \in D
    <3> SUFFICES ASSUME d + 1 <= n PROVE off[n - (d + 1)] <= E
      OBVIOUS
    <3> DEFINE i == n - (d + 1)
    <3>1. i \in 0 .. n - 1 /\ i + 1 = n - d /\ d <= n /\ i + 1 \in 0 .. n /\ i \in 0 .. n
      OBVIOUS
    <3>2. off[i] <= off[i + 1] /\ off[i + 1] <= E /\ off[i] \in Nat /\ off[i + 1] \in Nat
      BY <1>1, <2>2, <3>1
    <3> QED
      BY <3>2
  <2>3. \A d \in Nat : d \in D
    <3> HIDE DEF D
    <3> QED
      BY <2>1, <2>2, NatSetInduction
  <2>4. ASSUME NEW i \in 0 .. n PROVE off[i] <= E
    <3>1. n - i \in Nat /\ n - i <= n /\ n - (n - i) = i
      OBVIOUS
    <3> QED
      BY <2>3, <3>1
  <2> QED
    BY <1>1, <2>4
<1>3. ASSUME NEW k \in 0 .. E - 1
      PROVE  \E i \in 0 .. n - 1 : off[i] <= k /\ k < off[i + 1]
  <2> DEFINE S == {j \in 0 .. n : k < off[j]}
  <2>1. n \in S /\ S \subseteq Nat
    BY <1>1
  <2>2. PICK j \in S : \A l \in S : j <= l
    <3> HIDE DEF S
    <3> QED
      BY <2>1, LeastNatural
  <2>3. j \in 0 .. n /\ k < off[j] /\ j # 0
    BY <1>1, <2>2
  <2>4. j - 1 \in 0 .. n /\ j - 1 \in 0 .. n - 1 /\ (j - 1) + 1 = j /\ ~ (k < off[j - 1])
    BY <2>2, <2>3
  <2>5. off[j - 1] \in Nat
    BY <1>1, <2>4
  <2> QED
    BY <2>3, <2>4, <2>5
<1> QED
  BY <1>2, <1>3

(* A graph: its names are distinct and its edges have both ends in it.     *)
Distinct(nodes) == \A i, j \in 1 .. Len(nodes) : nodes[i].name = nodes[j].name => i = j

GraphOK(g) ==
  /\ g \in [nodes: Seq(NodeData), edges: Seq(NamedEdges)]
  /\ Distinct(g.nodes)
  /\ \A k \in 1 .. Len(g.edges) :
       g.edges[k].from \in NodeNames(g) /\ g.edges[k].to \in NodeNames(g)

(* d is the edge e, by the positions of its ends among the nodes.          *)
Denotes(d, nodes, e) ==
  /\ d.from_idx + 1 \in 1 .. Len(nodes) /\ nodes[d.from_idx + 1].name = e.from
  /\ d.to_idx + 1 \in 1 .. Len(nodes) /\ nodes[d.to_idx + 1].name = e.to
  /\ d.kind = e.kind

(* s is the edges of g, in their order.                                    *)
CsrEdges(s, g) ==
  /\ s \in Seq(CsrData) /\ Len(s) = Len(g.edges)
  /\ \A k \in 1 .. Len(s) : Denotes(s[k], ByName(g.nodes), g.edges[k])

(* A snapshot of these nodes and edges.                                    *)
SnapshotOf(nodes, edges) ==
  [nodes |-> Array(nodes), edges |-> Array(edges),
   node_offsets |-> Offsets(Len(nodes), Array(edges), "from_idx"),
   in_offsets |-> Offsets(Len(nodes), Array(edges), "to_idx"),
   in_mirror |-> Array(InMirror(Array(edges))),
   name_buckets |-> build_name_buckets(nodes)]

(* The nodes in name order are the nodes.                                  *)
LEMMA ByNameFacts ==
  ASSUME NEW s \in Seq(NodeData)
  PROVE  /\ ByName(s) \in Seq(NodeData) /\ Len(ByName(s)) = Len(s) /\ Len(s) \in Nat
         /\ Range(ByName(s)) = Range(s)
         /\ {n.name : n \in Range(ByName(s))} = {n.name : n \in Range(s)}
         /\ Distinct(s) => Distinct(ByName(s))
         /\ \A i, j \in 1 .. Len(s) : i < j => ~ (ByName(s)[j].name < ByName(s)[i].name)
<1> DEFINE f == ByName(s)
<1>1. SortOf(f, s, NodeData, NameOrder)
  BY ByNameSorts
<1> HIDE DEF f
<1>2. /\ f \in Seq(NodeData) /\ Len(f) = Len(s) /\ DOMAIN f = 1 .. Len(s)
      /\ \A i, j \in 1 .. Len(s) : i < j => <<f[j], f[i]>> \notin NameOrder
  BY <1>1 DEF SortOf
<1>3. PICK order : Reordered(f, s, order)
  BY <1>1 DEF SortOf
<1>4. /\ order \in [1 .. Len(s) -> 1 .. Len(s)]
      /\ \A k, l \in 1 .. Len(s) : order[k] = order[l] => k = l
      /\ \A i \in 1 .. Len(s) : \E k \in 1 .. Len(s) : order[k] = i
      /\ \A k \in 1 .. Len(s) : f[k] = s[order[k]]
  BY <1>3 DEF Reordered
<1>5. DOMAIN s = 1 .. Len(s) /\ Len(s) \in Nat
  BY SeqElements
<1>6. Range(f) = Range(s)
  <2>1. ASSUME NEW e \in Range(f) PROVE e \in Range(s)
    <3>1. PICK k \in 1 .. Len(s) : f[k] = e
      BY <1>2, <2>1 DEF Range
    <3>2. order[k] \in 1 .. Len(s) /\ e = s[order[k]]
      BY <1>4, <3>1
    <3> QED
      BY <1>5, <3>2 DEF Range
  <2>2. ASSUME NEW e \in Range(s) PROVE e \in Range(f)
    <3>1. PICK i \in 1 .. Len(s) : s[i] = e
      BY <1>5, <2>2 DEF Range
    <3>2. PICK k \in 1 .. Len(s) : order[k] = i
      BY <1>4
    <3>3. f[k] = e
      BY <1>4, <3>1, <3>2
    <3> QED
      BY <1>2, <3>3 DEF Range
  <2> QED
    BY <2>1, <2>2
<1>7. Distinct(s) => Distinct(f)
  <2> SUFFICES ASSUME Distinct(s), NEW i \in 1 .. Len(s), NEW j \in 1 .. Len(s),
                      f[i].name = f[j].name
               PROVE  i = j
    BY <1>2 DEF Distinct
  <2>1. /\ order[i] \in 1 .. Len(s) /\ f[i] = s[order[i]]
        /\ order[j] \in 1 .. Len(s) /\ f[j] = s[order[j]]
    BY <1>4
  <2>2. order[i] = order[j]
    BY <2>1 DEF Distinct
  <2> QED
    BY <1>4, <2>2
<1>8. ASSUME NEW i \in 1 .. Len(s), NEW j \in 1 .. Len(s), i < j
      PROVE  ~ (f[j].name < f[i].name)
  <2>1. <<f[j], f[i]>> \notin NameOrder /\ f[i] \in NodeData /\ f[j] \in NodeData
    BY <1>2, <1>8, SeqElements
  <2> QED
    BY <2>1 DEF NameOrder
<1> QED
  BY <1>2, <1>5, <1>6, <1>7, <1>8 DEF f

(* What to_rkyv_v2 writes of a graph.                                      *)
LEMMA WriterFacts ==
  ASSUME NEW g, GraphOK(g)
  PROVE  \E s : /\ CsrEdges(s, g)
                /\ to_rkyv_v2(g) = SnapshotOf(ByName(g.nodes), Sorted(s, EdgeBefore))
<1> DEFINE nodes == ByName(g.nodes)
           idx == [x \in NodeNames(g) |-> CHOOSE i \in DOMAIN nodes : nodes[i].name = x]
           Csr(e) == [from_idx |-> idx[e.from] - 1, to_idx |-> idx[e.to] - 1,
                      kind |-> e.kind]
           s == [k \in DOMAIN g.edges |-> Csr(g.edges[k])]
<1>1. /\ g.nodes \in Seq(NodeData) /\ g.edges \in Seq(NamedEdges) /\ Distinct(g.nodes)
      /\ \A k \in 1 .. Len(g.edges) :
           g.edges[k].from \in NodeNames(g) /\ g.edges[k].to \in NodeNames(g)
  BY DEF GraphOK
<1>2. /\ nodes \in Seq(NodeData) /\ DOMAIN nodes = 1 .. Len(nodes) /\ Len(nodes) \in Nat
      /\ Distinct(nodes) /\ Range(nodes) = Range(g.nodes)
  BY <1>1, ByNameFacts
<1>3. to_rkyv_v2(g) = SnapshotOf(nodes, Sorted(s, EdgeBefore))
  BY DEF to_rkyv_v2, SnapshotOf
<1> HIDE DEF nodes
<1>4. ASSUME NEW x \in NodeNames(g)
      PROVE  idx[x] \in 1 .. Len(nodes) /\ nodes[idx[x]].name = x
  <2>1. PICK n \in Range(g.nodes) : n.name = x
    BY DEF NodeNames
  <2>2. \E i \in DOMAIN nodes : nodes[i].name = x
    BY <1>2, <2>1 DEF Range
  <2> QED
    BY <1>2, <2>2
<1> HIDE DEF idx
<1>5. DOMAIN g.edges = 1 .. Len(g.edges) /\ Len(g.edges) \in Nat
      /\ \A k \in 1 .. Len(g.edges) : g.edges[k] \in NamedEdges
  BY <1>1, SeqElements, Zenon
<1>6. ASSUME NEW k \in 1 .. Len(g.edges)
      PROVE  Csr(g.edges[k]) \in CsrData /\ Denotes(Csr(g.edges[k]), nodes, g.edges[k])
  <2> DEFINE e == g.edges[k]
  <2>1. /\ idx[e.from] \in 1 .. Len(nodes) /\ nodes[idx[e.from]].name = e.from
        /\ idx[e.to] \in 1 .. Len(nodes) /\ nodes[idx[e.to]].name = e.to
    BY <1>1, <1>4
  <2>2. e.kind \in Kinds
    BY <1>5 DEF NamedEdges
  <2> HIDE DEF e
  <2>3. Csr(e) \in CsrData
    BY <1>2, <2>1, <2>2 DEF CsrData
  <2>4. (idx[e.from] - 1) + 1 = idx[e.from] /\ (idx[e.to] - 1) + 1 = idx[e.to]
    BY <1>2, <2>1
  <2>5. Denotes(Csr(e), nodes, e)
    BY <2>1, <2>4 DEF Denotes
  <2> QED
    BY <2>3, <2>5 DEF e
<1> HIDE DEF Csr
<1>7. s = [k \in 1 .. Len(g.edges) |-> Csr(g.edges[k])]
  BY <1>5
<1> HIDE DEF s
<1>8. s \in Seq(CsrData) /\ Len(s) = Len(g.edges)
  BY <1>5, <1>6, <1>7
<1>9. \A k \in 1 .. Len(s) : Denotes(s[k], nodes, g.edges[k])
  BY <1>6, <1>7, <1>8
<1>10. CsrEdges(s, g)
  BY <1>8, <1>9 DEF CsrEdges, nodes
<1> QED
  BY <1>3, <1>10 DEF nodes

(* M is the places of the edges, in the order of their targets.            *)
Mirrors(M, edges, E) ==
  /\ M \in [1 .. E -> 0 .. E - 1]
  /\ \A k, l \in 1 .. E : M[k] = M[l] => k = l
  /\ \A i \in 0 .. E - 1 : \E k \in 1 .. E : M[k] = i
  /\ \A k, l \in 1 .. E : k < l => edges[M[k]].to_idx <= edges[M[l]].to_idx

(* InMirror lists every edge once.                                         *)
LEMMA InMirrorLists ==
  ASSUME NEW E \in Nat, NEW edges \in [0 .. E - 1 -> CsrData]
  PROVE  Mirrors(InMirror(edges), edges, E)
<1> DEFINE D == 0 .. E - 1
           Before(x, y) == \/ edges[x].to_idx < edges[y].to_idx
                           \/ edges[x].to_idx = edges[y].to_idx /\ x < y
           R == {p \in D \X D : Before(p[1], p[2])}
           M == InMirror(edges)
<1>1. \A k \in D : edges[k].to_idx \in Nat
  <2>1. \A k \in D : edges[k] \in CsrData
    OBVIOUS
  <2>2. \A e \in CsrData : e.to_idx \in Nat
    BY DEF CsrData
  <2> QED
    BY <2>1, <2>2
<1>2. DOMAIN edges = D
  OBVIOUS
<1>3. M = InOrder(D, Before)
  BY <1>2 DEF InMirror
<1>4. \A x, y \in D : <<x, y>> \in R <=> Before(x, y)
  OBVIOUS
<1>5. StrictOrder(R, D)
  <2> HIDE DEF R
  <2>1. \A x \in D : <<x, x>> \notin R
    BY <1>1, <1>4
  <2>2. ASSUME NEW x \in D, NEW y \in D
        PROVE  x = y \/ <<x, y>> \in R \/ <<y, x>> \in R
    <3>1. edges[x].to_idx \in Nat /\ edges[y].to_idx \in Nat
      BY <1>1
    <3>2. x = y \/ Before(x, y) \/ Before(y, x)
      BY <3>1
    <3> QED
      BY <1>4, <3>2
  <2>3. ASSUME NEW x \in D, NEW y \in D, NEW z \in D, <<x, y>> \in R, <<y, z>> \in R
        PROVE  <<x, z>> \in R
    <3>1. edges[x].to_idx \in Nat /\ edges[y].to_idx \in Nat /\ edges[z].to_idx \in Nat
      BY <1>1
    <3>2. Before(x, y) /\ Before(y, z)
      BY <1>4, <2>3
    <3>3. Before(x, z)
      BY <3>1, <3>2
    <3> QED
      BY <1>4, <3>3
  <2> QED
    BY <2>1, <2>2, <2>3 DEF StrictOrder
<1>6. IsFiniteSet(D) /\ Cardinality(D) = E
  BY Indexes
<1>7. ASSUME NEW x \in D PROVE Rank(R, D, x) = Cardinality({y \in D : Before(y, x)})
  <2> HIDE DEF R, D, Before
  <2>1. Below(R, D, x) = {y \in D : Before(y, x)}
    BY <1>4 DEF Below
  <2> QED
    BY <2>1 DEF Rank
<1>8. ASSUME NEW i \in 1 .. E
      PROVE  M[i] \in D /\ Rank(R, D, M[i]) = i - 1
  <2> DEFINE P(x) == Cardinality({y \in D : Before(y, x)}) = i - 1
  <2>1. M[i] = CHOOSE x \in D : P(x)
    BY <1>3, <1>6 DEF InOrder
  <2> HIDE DEF M, D, R, Before
  <2>2. PICK x \in D : Rank(R, D, x) = i - 1
    BY <1>5, <1>6, RankOnto
  <2>3. P(x)
    BY <1>7, <2>2
  <2>4. M[i] \in D /\ P(M[i])
    <3> HIDE DEF P
    <3> QED
      BY <2>1, <2>3
  <2> QED
    BY <1>7, <2>4
<1>9. M = [i \in 1 .. E |-> M[i]]
  <2> DEFINE g(i) == CHOOSE x \in D : Cardinality({y \in D : Before(y, x)}) = i - 1
  <2>1. M = [i \in 1 .. E |-> g(i)]
    BY <1>3, <1>6 DEF InOrder
  <2> HIDE DEF g, M
  <2> QED
    BY <2>1
<1> HIDE DEF M
<1>10. Lists(M, D, R)
  <2> HIDE DEF D, R
  <2>1. M \in [1 .. E -> D]
    BY <1>8, <1>9
  <2> QED
    BY <1>6, <1>8, <2>1 DEF Lists
<1>11. /\ M \in [1 .. E -> D] /\ Range(M) = D
       /\ \A k, l \in 1 .. E : k < l => <<M[k], M[l]>> \in R
       /\ \A k, l \in 1 .. E : M[k] = M[l] => k = l
  <2> HIDE DEF D, R
  <2>1. M \in [1 .. E -> D]
    BY <1>8, <1>9
  <2>2. /\ DOMAIN M = 1 .. Cardinality(D) /\ Range(M) = D
        /\ \A k, l \in DOMAIN M : k < l => <<M[k], M[l]>> \in R
        /\ \A k, l \in DOMAIN M : M[k] = M[l] => k = l
    BY <1>5, <1>6, <1>10, ListingFacts
  <2> QED
    BY <1>6, <2>1, <2>2
<1>12. \A i \in D : \E k \in 1 .. E : M[k] = i
  <2> HIDE DEF D, R
  <2> QED
    BY <1>11 DEF Range
<1>13. ASSUME NEW k \in 1 .. E, NEW l \in 1 .. E, k < l
       PROVE  edges[M[k]].to_idx <= edges[M[l]].to_idx
  <2>1. M[k] \in D /\ M[l] \in D /\ <<M[k], M[l]>> \in R
    BY <1>11, <1>13
  <2>2. Before(M[k], M[l])
    BY <2>1
  <2>3. edges[M[k]].to_idx \in Nat /\ edges[M[l]].to_idx \in Nat
    BY <1>1, <2>1
  <2> QED
    BY <2>2, <2>3
<1> QED
  BY <1>11, <1>12, <1>13 DEF Mirrors, M

(* The keys in another order.                                              *)
Moved(E, key, other, move) ==
  /\ move \in [0 .. E - 1 -> 0 .. E - 1]
  /\ \A k, l \in 0 .. E - 1 : move[k] = move[l] => k = l
  /\ \A k \in 0 .. E - 1 : \E l \in 0 .. E - 1 : move[l] = k
  /\ \A k \in 0 .. E - 1 : other[k] = key[move[k]]

(* Keys counted in one order are counted in any.                           *)
LEMMA CountedAnyway ==
  ASSUME NEW E \in Nat, NEW key, NEW other, NEW move, NEW i, Moved(E, key, other, move)
  PROVE  Cardinality({k \in 0 .. E - 1 : key[k] < i}) = Cardinality({k \in 0 .. E - 1 : other[k] < i})
<1> DEFINE D == 0 .. E - 1
           S == {k \in D : other[k] < i}
           T == {k \in D : key[k] < i}
           f == [k \in S |-> move[k]]
<1>1. IsFiniteSet(D)
  BY Indexes
<1>2. IsFiniteSet(S)
  BY <1>1, FS_Subset
<1>3. \A k \in S : move[k] \in T
  BY DEF Moved
<1>4. f \in [S -> T]
  BY <1>3
<1>5. \A k, l \in S : f[k] = f[l] => k = l
  BY DEF Moved
<1>6. \A t \in T : \E k \in S : f[k] = t
  <2> SUFFICES ASSUME NEW t \in T PROVE \E k \in S : f[k] = t
    OBVIOUS
  <2>1. PICK l \in D : move[l] = t
    BY DEF Moved
  <2>2. l \in S
    BY <2>1 DEF Moved
  <2> QED
    BY <2>1, <2>2
<1> HIDE DEF f, S, T, D
<1>7. IsFiniteSet(T) /\ Cardinality(T) = Cardinality(S)
  BY <1>2, <1>4, <1>5, <1>6, SameSize
<1> QED
  BY <1>7 DEF S, T, D

(* The arrays of a snapshot, right or wrong.                               *)
IsArray(f, T) == \E n \in Nat : f \in [0 .. n - 1 -> T]

Shaped(a) ==
  /\ DOMAIN a = {"nodes", "edges", "node_offsets", "in_offsets", "in_mirror", "name_buckets"}
  /\ IsArray(a.nodes, NodeData) /\ IsArray(a.edges, CsrData)
  /\ IsArray(a.node_offsets, Nat) /\ IsArray(a.in_offsets, Nat)
  /\ IsArray(a.in_mirror, Nat) /\ IsArray(a.name_buckets, Int)

(* The edges that are written, as an array of the places of their ends.    *)
WrittenEdges(edges, n, E) ==
  /\ edges \in [0 .. E - 1 -> CsrData]
  /\ \A k \in 0 .. E - 1 : edges[k].from_idx \in 0 .. n - 1 /\ edges[k].to_idx \in 0 .. n - 1
  /\ \A k, l \in 0 .. E - 1 : k < l => edges[k].from_idx <= edges[l].from_idx

(* The edges that are written have their ends among the nodes, by source.  *)
LEMMA WrittenEdgesFacts ==
  ASSUME NEW g, GraphOK(g), NEW s, CsrEdges(s, g)
  PROVE  /\ Sorted(s, EdgeBefore) \in Seq(CsrData)
         /\ WrittenEdges(Array(Sorted(s, EdgeBefore)), Len(g.nodes), Len(Sorted(s, EdgeBefore)))
<1> DEFINE csr == Sorted(s, EdgeBefore)
           edges == Array(csr)
           n == Len(g.nodes)
           E == Len(csr)
           nodes == ByName(g.nodes)
<1>1. /\ s \in Seq(CsrData)
      /\ \A k \in 1 .. Len(s) : Denotes(s[k], nodes, g.edges[k])
  BY DEF CsrEdges
<1>2. SortOf(csr, s, CsrData, CsrOrder)
  BY <1>1, EdgesSort
<1> HIDE DEF csr
<1>3. /\ csr \in Seq(CsrData) /\ E = Len(s)
      /\ \A i, j \in 1 .. Len(s) : i < j => <<csr[j], csr[i]>> \notin CsrOrder
  BY <1>2 DEF SortOf
<1>4. PICK order : Reordered(csr, s, order)
  BY <1>2 DEF SortOf
<1>5. /\ edges \in [0 .. E - 1 -> CsrData] /\ E \in Nat
      /\ \A i \in 0 .. E - 1 : edges[i] = csr[i + 1] /\ i + 1 \in 1 .. E
  BY <1>3, ArrayOf
<1>6. Len(nodes) = n /\ n \in Nat
  <2>1. g.nodes \in Seq(NodeData)
    BY DEF GraphOK
  <2> QED
    BY <2>1, ByNameFacts
<1> HIDE DEF edges, n, E, nodes
<1>7. ASSUME NEW k \in 0 .. E - 1
      PROVE  edges[k].from_idx \in 0 .. n - 1 /\ edges[k].to_idx \in 0 .. n - 1
  <2>1. edges[k] = csr[k + 1] /\ k + 1 \in 1 .. Len(s)
    BY <1>3, <1>5
  <2>2. PICK l \in 1 .. Len(s) : csr[k + 1] = s[l]
    <3>1. \A j \in 1 .. Len(s) : order[j] \in 1 .. Len(s) /\ csr[j] = s[order[j]]
      BY <1>4 DEF Reordered
    <3> QED
      BY <2>1, <3>1
  <2>3. Denotes(s[l], nodes, g.edges[l])
    BY <1>1
  <2>4. edges[k] \in CsrData
    BY <1>5
  <2>5. edges[k].from_idx \in Nat /\ edges[k].to_idx \in Nat
    BY <2>4 DEF CsrData
  <2>6. edges[k].from_idx + 1 \in 1 .. n /\ edges[k].to_idx + 1 \in 1 .. n
    BY <1>6, <2>1, <2>2, <2>3 DEF Denotes
  <2> QED
    BY <1>6, <2>5, <2>6
<1>8. ASSUME NEW k \in 0 .. E - 1, NEW l \in 0 .. E - 1, k < l
      PROVE  edges[k].from_idx <= edges[l].from_idx
  <2>1. /\ edges[k] = csr[k + 1] /\ k + 1 \in 1 .. Len(s)
        /\ edges[l] = csr[l + 1] /\ l + 1 \in 1 .. Len(s) /\ k + 1 < l + 1
    BY <1>3, <1>5, <1>8
  <2>2. <<edges[l], edges[k]>> \notin CsrOrder
    BY <1>3, <2>1
  <2>3. edges[k] \in CsrData /\ edges[l] \in CsrData
    BY <1>5
  <2>4. ~ EdgeBefore(edges[l], edges[k])
    BY <2>2, <2>3 DEF CsrOrder
  <2>5. edges[k].from_idx \in Nat /\ edges[l].from_idx \in Nat
    BY <2>3 DEF CsrData
  <2> QED
    BY <2>4, <2>5 DEF EdgeBefore
<1>9. WrittenEdges(edges, n, E)
  BY <1>5, <1>7, <1>8 DEF WrittenEdges
<1> QED
  BY <1>3, <1>9 DEF edges, n, E, csr

(* An array of all places, in the order of the targets of the edges.       *)
MirrorOf(mirror, edges, E) ==
  /\ mirror \in [0 .. E - 1 -> 0 .. E - 1]
  /\ Moved(E, [k \in 0 .. E - 1 |-> edges[k].to_idx],
           [k \in 0 .. E - 1 |-> edges[mirror[k]].to_idx], mirror)
  /\ \A k, l \in 0 .. E - 1 : k < l => edges[mirror[k]].to_idx <= edges[mirror[l]].to_idx

(* The mirror that is written is one.                                      *)
LEMMA MirrorArray ==
  ASSUME NEW E \in Nat, NEW n \in Nat, NEW edges, WrittenEdges(edges, n, E)
  PROVE  MirrorOf(Array(InMirror(edges)), edges, E)
<1> DEFINE M == InMirror(edges)
           a == Array(M)
           key == [k \in 0 .. E - 1 |-> edges[k].to_idx]
           other == [k \in 0 .. E - 1 |-> edges[a[k]].to_idx]
<1>1. edges \in [0 .. E - 1 -> CsrData]
  BY DEF WrittenEdges
<1>2. Mirrors(M, edges, E)
  BY <1>1, InMirrorLists
<1> HIDE DEF M
<1>3. /\ M \in [1 .. E -> 0 .. E - 1]
      /\ \A k, l \in 1 .. E : M[k] = M[l] => k = l
      /\ \A i \in 0 .. E - 1 : \E k \in 1 .. E : M[k] = i
      /\ \A k, l \in 1 .. E : k < l => edges[M[k]].to_idx <= edges[M[l]].to_idx
  BY <1>2 DEF Mirrors
<1>4. M \in Seq(0 .. E - 1) /\ Len(M) = E
  <2>1. M \in [1 .. E -> 0 .. E - 1]
    BY <1>3
  <2> QED
    BY <2>1
<1>5. /\ a \in [0 .. E - 1 -> 0 .. E - 1]
      /\ \A i \in 0 .. E - 1 : a[i] = M[i + 1] /\ i + 1 \in 1 .. E
      /\ \A k \in 1 .. E : k - 1 \in 0 .. E - 1 /\ a[k - 1] = M[k]
  BY <1>4, ArrayOf
<1> HIDE DEF a
<1>6. ASSUME NEW k \in 0 .. E - 1, NEW l \in 0 .. E - 1, a[k] = a[l] PROVE k = l
  <2>1. /\ a[k] = M[k + 1] /\ k + 1 \in 1 .. E
        /\ a[l] = M[l + 1] /\ l + 1 \in 1 .. E
    BY <1>5
  <2>2. k + 1 = l + 1
    BY <1>3, <1>6, <2>1
  <2> QED
    BY <2>2
<1>7. ASSUME NEW k \in 0 .. E - 1 PROVE \E l \in 0 .. E - 1 : a[l] = k
  <2>1. PICK j \in 1 .. E : M[j] = k
    BY <1>3
  <2>2. j - 1 \in 0 .. E - 1 /\ a[j - 1] = k
    BY <1>5, <2>1
  <2> QED
    BY <2>2
<1>8. ASSUME NEW k \in 0 .. E - 1 PROVE other[k] = key[a[k]]
  <2>1. a[k] \in 0 .. E - 1
    BY <1>5
  <2> QED
    BY <2>1
<1>9. Moved(E, key, other, a)
  <2> HIDE DEF key, other
  <2> QED
    BY <1>5, <1>6, <1>7, <1>8 DEF Moved
<1>10. ASSUME NEW k \in 0 .. E - 1, NEW l \in 0 .. E - 1, k < l
       PROVE  edges[a[k]].to_idx <= edges[a[l]].to_idx
  <2>1. /\ a[k] = M[k + 1] /\ k + 1 \in 1 .. E
        /\ a[l] = M[l + 1] /\ l + 1 \in 1 .. E
    BY <1>5
  <2>2. k + 1 < l + 1
    BY <1>10
  <2>3. edges[M[k + 1]].to_idx <= edges[M[l + 1]].to_idx
    BY <1>3, <2>1, <2>2
  <2> QED
    BY <2>1, <2>3
<1> QED
  BY <1>5, <1>9, <1>10 DEF MirrorOf, a, M

(* An array from the numbers below n.                                      *)
LEMMA ArrayType ==
  ASSUME NEW n \in Nat, NEW T, NEW f \in [0 .. n - 1 -> T]
  PROVE  IsArray(f, T) /\ DOMAIN f = 0 .. n - 1 /\ Size(f) = n
BY SizeOf DEF IsArray

(* Offsets that share out the edges pass the sweep.                        *)
LEMMA ShapeValidates ==
  ASSUME NEW n \in Nat, NEW E \in Nat, NEW a, DOMAIN a.nodes = 0 .. n - 1,
         DOMAIN a.edges = 0 .. E - 1, NEW off, InShape(off, n, E)
  PROVE  IsArray(off, Nat) /\ OffsetsInShape(a, off)
<1>1. Size(a.nodes) = n /\ Size(a.edges) = E
  BY SizeOf
<1>2. /\ off \in [0 .. n -> Nat] /\ off[0] = 0 /\ off[n] = E
      /\ \A i \in 0 .. n - 1 : off[i] <= off[i + 1]
  BY DEF InShape
<1>3. n + 1 \in Nat /\ (n + 1) - 1 = n
  OBVIOUS
<1>4. off \in [0 .. (n + 1) - 1 -> Nat]
  BY <1>2, <1>3
<1> DEFINE N == n + 1
<1>5. N \in Nat /\ off \in [0 .. N - 1 -> Nat]
  BY <1>3, <1>4
<1> HIDE DEF N
<1>6. IsArray(off, Nat) /\ Size(off) = N
  BY <1>5, ArrayType
<1> QED
  BY <1>1, <1>2, <1>6 DEF OffsetsInShape, N

(* What the two indexes of a written snapshot are.                         *)
LEMMA WrittenOutgoing ==
  ASSUME NEW n \in Nat, NEW E \in Nat, NEW edges, WrittenEdges(edges, n, E)
  PROVE  /\ InShape(Offsets(n, edges, "from_idx"), n, E)
         /\ Grouped(Offsets(n, edges, "from_idx"), n, E, [k \in 0 .. E - 1 |-> edges[k].from_idx])
<1> DEFINE key == [k \in 0 .. E - 1 |-> edges[k].from_idx]
           off == Offsets(n, edges, "from_idx")
<1>1. /\ edges \in [0 .. E - 1 -> CsrData]
      /\ \A k \in 0 .. E - 1 : edges[k].from_idx \in 0 .. n - 1 /\ edges[k].to_idx \in 0 .. n - 1
      /\ \A k, l \in 0 .. E - 1 : k < l => edges[k].from_idx <= edges[l].from_idx
  BY DEF WrittenEdges
<1>2. Counted(off, n, E, key)
  <2>1. \A i : {k \in DOMAIN edges : edges[k]["from_idx"] < i} = {k \in 0 .. E - 1 : key[k] < i}
    BY <1>1
  <2>2. off = [i \in 0 .. n |-> Cardinality({k \in DOMAIN edges : edges[k]["from_idx"] < i})]
    BY DEF Offsets
  <2> QED
    BY <2>1, <2>2 DEF Counted
<1>3. key \in [0 .. E - 1 -> 0 .. n - 1] /\ \A k \in 0 .. E - 1 : key[k] = edges[k].from_idx
  BY <1>1
<1> HIDE DEF key, off
<1>4. InShape(off, n, E)
  BY <1>2, <1>3, CountsShare
<1>5. Rising(key, E)
  BY <1>1, <1>3 DEF Rising
<1>6. Grouped(off, n, E, key)
  BY <1>2, <1>3, <1>5, CountsShare
<1> QED
  BY <1>4, <1>6 DEF off, key

(* The incoming index shares out the mirror, each target its own slots.    *)
LEMMA WrittenIncoming ==
  ASSUME NEW n \in Nat, NEW E \in Nat, NEW edges, WrittenEdges(edges, n, E),
         NEW mirror, mirror = Array(InMirror(edges))
  PROVE  /\ InShape(Offsets(n, edges, "to_idx"), n, E)
         /\ Grouped(Offsets(n, edges, "to_idx"), n, E, [k \in 0 .. E - 1 |-> edges[mirror[k]].to_idx])
<1> DEFINE key == [k \in 0 .. E - 1 |-> edges[k].to_idx]
           other == [k \in 0 .. E - 1 |-> edges[mirror[k]].to_idx]
           off == Offsets(n, edges, "to_idx")
<1>1. /\ edges \in [0 .. E - 1 -> CsrData]
      /\ \A k \in 0 .. E - 1 : edges[k].from_idx \in 0 .. n - 1 /\ edges[k].to_idx \in 0 .. n - 1
  BY DEF WrittenEdges
<1>2. MirrorOf(mirror, edges, E)
  BY MirrorArray
<1>3. /\ mirror \in [0 .. E - 1 -> 0 .. E - 1]
      /\ Moved(E, key, other, mirror)
      /\ \A k, l \in 0 .. E - 1 : k < l => edges[mirror[k]].to_idx <= edges[mirror[l]].to_idx
  BY <1>2 DEF MirrorOf
<1>4. Counted(off, n, E, key)
  <2>1. \A i : {k \in DOMAIN edges : edges[k]["to_idx"] < i} = {k \in 0 .. E - 1 : key[k] < i}
    BY <1>1
  <2>2. off = [i \in 0 .. n |-> Cardinality({k \in DOMAIN edges : edges[k]["to_idx"] < i})]
    BY DEF Offsets
  <2> QED
    BY <2>1, <2>2 DEF Counted
<1>5. \A k \in 0 .. E - 1 : other[k] = edges[mirror[k]].to_idx /\ mirror[k] \in 0 .. E - 1
  BY <1>3
<1>6. other \in [0 .. E - 1 -> 0 .. n - 1]
  BY <1>1, <1>5
<1> HIDE DEF key, off, other
<1>7. Counted(off, n, E, other)
  <2>1. \A i \in 0 .. n : Cardinality({k \in 0 .. E - 1 : key[k] < i})
                          = Cardinality({k \in 0 .. E - 1 : other[k] < i})
    <3>1. Moved(E, key, other, mirror)
      BY <1>3
    <3> QED
      BY <3>1, CountedAnyway
  <2> QED
    BY <1>4, <2>1, Zenon DEF Counted
<1>8. InShape(off, n, E)
  BY <1>6, <1>7, CountsShare
<1>9. Rising(other, E)
  BY <1>3, <1>5 DEF Rising
<1>10. Grouped(off, n, E, other)
  BY <1>6, <1>7, <1>9, CountsShare
<1> QED
  BY <1>8, <1>10 DEF off, other

(* What is written of a graph passes the sweep of Full.                    *)
LEMMA WrittenValidates ==
  ASSUME Hashed, NEW g, GraphOK(g)
  PROVE  Shaped(to_rkyv_v2(g)) /\ validate_csr(to_rkyv_v2(g))
<1>1. PICK s : /\ CsrEdges(s, g)
               /\ to_rkyv_v2(g) = SnapshotOf(ByName(g.nodes), Sorted(s, EdgeBefore))
  BY WriterFacts
<1> DEFINE nodes == ByName(g.nodes)
           csr == Sorted(s, EdgeBefore)
           edges == Array(csr)
           n == Len(nodes)
           E == Len(csr)
           c == SnapshotOf(nodes, csr)
<1>2. /\ g.nodes \in Seq(NodeData) /\ Distinct(g.nodes)
  BY DEF GraphOK
<1>3. /\ nodes \in Seq(NodeData) /\ Len(nodes) = Len(g.nodes) /\ n \in Nat /\ Distinct(nodes)
      /\ \A i, j \in 1 .. n : i < j => ~ (nodes[j].name < nodes[i].name)
  BY <1>2, ByNameFacts
<1>4. csr \in Seq(CsrData) /\ WrittenEdges(edges, n, E)
  BY <1>1, <1>3, WrittenEdgesFacts
<1> HIDE DEF nodes, csr
<1>5. E \in Nat
  BY <1>4
<1>6. /\ c.nodes = Array(nodes) /\ c.edges = edges
      /\ c.node_offsets = Offsets(n, edges, "from_idx")
      /\ c.in_offsets = Offsets(n, edges, "to_idx")
      /\ c.in_mirror = Array(InMirror(edges))
      /\ c.name_buckets = build_name_buckets(nodes)
      /\ DOMAIN c = {"nodes", "edges", "node_offsets", "in_offsets", "in_mirror", "name_buckets"}
  BY DEF SnapshotOf
<1> HIDE DEF c
<1>7. /\ c.nodes \in [0 .. n - 1 -> NodeData] /\ DOMAIN c.nodes = 0 .. n - 1
      /\ \A i \in 0 .. n - 1 : c.nodes[i] = nodes[i + 1] /\ i + 1 \in 1 .. n
  BY <1>3, <1>6, ArrayOf
<1> HIDE DEF n, E, edges
<1>8. /\ c.edges \in [0 .. E - 1 -> CsrData] /\ DOMAIN c.edges = 0 .. E - 1
      /\ \A k \in 0 .. E - 1 : c.edges[k].from_idx \in 0 .. n - 1 /\ c.edges[k].to_idx \in 0 .. n - 1
  BY <1>4, <1>6 DEF WrittenEdges
<1>9. n \in Nat
  BY <1>3 DEF n
<1>10. Size(c.nodes) = n /\ Size(c.edges) = E
  BY <1>5, <1>7, <1>8, <1>9, SizeOf
<1>11. StrictlySorted(c)
  <2> SUFFICES ASSUME NEW i \in 1 .. n - 1
               PROVE  c.nodes[i - 1].name < c.nodes[i].name
    BY <1>10 DEF StrictlySorted
  <2>1. /\ i \in 1 .. n /\ i + 1 \in 1 .. n /\ i < i + 1 /\ i \in 0 .. n - 1
        /\ i - 1 \in 0 .. n - 1 /\ (i - 1) + 1 = i
    BY <1>9
  <2>2. c.nodes[i - 1] = nodes[i] /\ c.nodes[i] = nodes[i + 1]
    BY <1>7, <2>1
  <2>3. nodes[i].name # nodes[i + 1].name
    <3>1. \A p, q \in 1 .. n : nodes[p].name = nodes[q].name => p = q
      BY <1>3 DEF Distinct, n
    <3> QED
      BY <2>1, <3>1
  <2>4. ~ (nodes[i + 1].name < nodes[i].name)
    BY <1>3, <2>1 DEF n
  <2>5. nodes[i].name \in Nat /\ nodes[i + 1].name \in Nat
    <3>1. c.nodes[i - 1] \in NodeData /\ c.nodes[i] \in NodeData
      BY <1>7, <2>1
    <3>2. \A e \in NodeData : e.name \in Nat
      BY BuilderAssumption DEF NodeData
    <3> QED
      BY <2>2, <3>1, <3>2
  <2> QED
    BY <2>2, <2>3, <2>4, <2>5
<1>12. /\ CanonicalTable(c) /\ Reachable(c) /\ IsArray(c.name_buckets, Int)
  <2>1. TableOf(c.name_buckets, nodes, Len(nodes), bucket_capacity(Len(nodes)))
    BY <1>3, <1>6, BuiltTable
  <2>2. CanonicalTable(c) /\ Reachable(c)
    BY <1>3, <1>6, <2>1, TableValidates
  <2>3. bucket_capacity(Len(nodes)) \in Nat
    BY <1>3, CapacityFacts DEF n
  <2>4. c.name_buckets \in [0 .. bucket_capacity(Len(nodes)) - 1 -> Int]
    BY <2>1 DEF TableOf
  <2>5. IsArray(c.name_buckets, Int)
    BY <2>3, <2>4 DEF IsArray
  <2> QED
    BY <2>2, <2>5
<1>13. EndpointsInRange(c)
  <2> SUFFICES ASSUME NEW k \in 0 .. E - 1
               PROVE  {c.edges[k].from_idx, c.edges[k].to_idx} \subseteq DOMAIN c.nodes
    BY <1>8 DEF EndpointsInRange, Inside
  <2> QED
    BY <1>7, <1>8
<1>14. /\ InShape(c.node_offsets, n, E)
       /\ \A i \in 0 .. n - 1 : \A k \in 0 .. E - 1 :
            c.node_offsets[i] <= k /\ k < c.node_offsets[i + 1] => c.edges[k].from_idx = i
  <2>1. /\ InShape(c.node_offsets, n, E)
        /\ Grouped(c.node_offsets, n, E, [k \in 0 .. E - 1 |-> edges[k].from_idx])
    BY <1>4, <1>5, <1>6, <1>9, WrittenOutgoing
  <2> QED
    BY <1>6, <2>1 DEF Grouped
<1>15. /\ InShape(c.in_offsets, n, E)
       /\ \A i \in 0 .. n - 1 : \A k \in 0 .. E - 1 :
            c.in_offsets[i] <= k /\ k < c.in_offsets[i + 1] => c.edges[c.in_mirror[k]].to_idx = i
  <2>1. /\ InShape(c.in_offsets, n, E)
        /\ Grouped(c.in_offsets, n, E, [k \in 0 .. E - 1 |-> edges[c.in_mirror[k]].to_idx])
    BY <1>4, <1>5, <1>6, <1>9, WrittenIncoming
  <2> QED
    BY <1>6, <2>1 DEF Grouped
<1>16. /\ OffsetsInShape(c, c.node_offsets) /\ IsArray(c.node_offsets, Nat)
       /\ OffsetsInShape(c, c.in_offsets) /\ IsArray(c.in_offsets, Nat)
  BY <1>5, <1>7, <1>8, <1>9, <1>14, <1>15, ShapeValidates
<1>17. ASSUME NEW off, InShape(off, n, E), NEW i \in 0 .. n - 1, NEW k \in Group(off, i)
       PROVE  k \in 0 .. E - 1 /\ off[i] <= k /\ k < off[i + 1]
  <2>1. i \in 0 .. n /\ i + 1 \in 0 .. n
    BY <1>9
  <2>2. off[i] \in 0 .. E /\ off[i + 1] \in 0 .. E
    BY <1>5, <1>9, <1>17, <2>1, ShapesPartition
  <2> QED
    BY <2>2, <1>5 DEF Group
<1>18. OutgoingGrouped(c)
  BY <1>7, <1>14, <1>17 DEF OutgoingGrouped
<1>19. IncomingGrouped(c)
  BY <1>7, <1>15, <1>17 DEF IncomingGrouped
<1>20. MirrorIsPermutation(c) /\ IsArray(c.in_mirror, Nat)
  <2>0. MirrorOf(c.in_mirror, edges, E)
    BY <1>4, <1>5, <1>6, <1>9, MirrorArray
  <2>1. /\ c.in_mirror \in [0 .. E - 1 -> 0 .. E - 1]
        /\ Moved(E, [k \in 0 .. E - 1 |-> edges[k].to_idx],
                  [k \in 0 .. E - 1 |-> edges[c.in_mirror[k]].to_idx], c.in_mirror)
    BY <2>0 DEF MirrorOf
  <2>2. c.in_mirror \in [0 .. E - 1 -> Nat]
    BY <2>1
  <2>3. Size(c.in_mirror) = E /\ IsArray(c.in_mirror, Nat)
    BY <1>5, <2>2, ArrayType
  <2>4. \A k, l \in 0 .. E - 1 : c.in_mirror[k] = c.in_mirror[l] => k = l
    BY <2>1 DEF Moved
  <2>5. IsInjective(c.in_mirror)
    BY <2>1, <2>4 DEF IsInjective
  <2>6. Range(c.in_mirror) \subseteq 0 .. E - 1
    BY <2>1 DEF Range
  <2> QED
    BY <1>8, <1>10, <2>3, <2>5, <2>6 DEF MirrorIsPermutation
<1>21. validate_csr(c)
  BY <1>11, <1>12, <1>13, <1>16, <1>18, <1>19, <1>20 DEF validate_csr
<1>22. Shaped(c)
  <2>1. IsArray(c.nodes, NodeData) /\ IsArray(c.edges, CsrData)
    BY <1>5, <1>7, <1>8, <1>9 DEF IsArray
  <2> QED
    BY <1>6, <1>12, <1>16, <1>20, <2>1 DEF Shaped
<1> QED
  BY <1>1, <1>21, <1>22 DEF c, nodes, csr

(* What occurs is in the list.                                             *)
LEMMA OccursSome ==
  ASSUME NEW A, NEW s \in Seq(A), NEW e
  PROVE  Occurs(s, {e}) # 0 <=> \E k \in 1 .. Len(s) : s[k] = e
<1>1. DOMAIN s = 1 .. Len(s) /\ IsFiniteSet(Places(s, {e}))
  BY OccursType
<1>2. Occurs(s, {e}) = 0 <=> Places(s, {e}) = {}
  BY <1>1, FS_EmptySet DEF Occurs
<1>3. Places(s, {e}) # {} <=> \E k \in 1 .. Len(s) : s[k] = e
  BY <1>1 DEF Places
<1> QED
  BY <1>2, <1>3

(* The bag of a list.                                                      *)
LEMMA BagCounts ==
  ASSUME NEW s, NEW e \in NamedEdges
  PROVE  Bag(s)[e] = Occurs(s, {e})
<1>1. {k \in DOMAIN s : s[k] = e} = Places(s, {e})
  BY DEF Places
<1>2. Bag(s)[e] = Cardinality({k \in DOMAIN s : s[k] = e})
  BY DEF Bag
<1> QED
  BY <1>1, <1>2 DEF Occurs

(* Two lists with the same counts are the same bag.                        *)
SameEdges(s, t) == \A e \in NamedEdges : Occurs(s, {e}) = Occurs(t, {e})

(* Two lists of edges are the same bag when their counts are.              *)
LEMMA SameBag ==
  ASSUME NEW s, NEW t
  PROVE  SameEdges(s, t) <=> Bag(s) = Bag(t)
<1>1. \A e \in NamedEdges : Bag(s)[e] = Occurs(s, {e}) /\ Bag(t)[e] = Occurs(t, {e})
  BY BagCounts
<1>2. ASSUME SameEdges(s, t) PROVE Bag(s) = Bag(t)
  <2>1. Bag(s) = [e \in NamedEdges |-> Bag(s)[e]] /\ Bag(t) = [e \in NamedEdges |-> Bag(t)[e]]
    BY DEF Bag
  <2>2. \A e \in NamedEdges : Bag(s)[e] = Bag(t)[e]
    BY <1>1, <1>2 DEF SameEdges
  <2> QED
    BY <2>1, <2>2, Zenon
<1>3. ASSUME Bag(s) = Bag(t) PROVE SameEdges(s, t)
  BY <1>1, <1>3 DEF SameEdges
<1> QED
  BY <1>2, <1>3

(* The same graph, but for the order.                                      *)
SameGraph(g, h) == Range(g.nodes) = Range(h.nodes) /\ SameEdges(g.edges, h.edges)

(* What the properties compare is the graph without its order.             *)
LEMMA SameLogical ==
  ASSUME NEW g, NEW h
  PROVE  SameGraph(g, h) <=> Logical(g) = Logical(h)
<1>1. Logical(g) = Logical(h) <=> Range(g.nodes) = Range(h.nodes) /\ Bag(g.edges) = Bag(h.edges)
  BY DEF Logical
<1> QED
  BY <1>1, SameBag DEF SameGraph

(***************************************************************************)
(* What build_graph makes.                                                 *)
(***************************************************************************)
NamesIn(nodes) == {n.name : n \in Range(nodes)}

(* A name that is given is at the last place it is given.                  *)
LEMMA DedupedFacts ==
  ASSUME NEW nodes \in Seq(NodeData)
  PROVE  /\ Deduped(nodes) \in Seq(NodeData) /\ Distinct(Deduped(nodes))
         /\ NamesIn(Deduped(nodes)) = NamesIn(nodes)
         /\ Distinct(nodes) => Range(Deduped(nodes)) = Range(nodes)
<1> DEFINE latest == {i \in DOMAIN nodes :
                       \A j \in DOMAIN nodes : nodes[j].name = nodes[i].name => j <= i}
           last == Sublist(nodes, latest)
           N == Len(nodes)
<1>1. DOMAIN nodes = 1 .. N /\ N \in Nat
  BY SeqElements
<1>2. latest \subseteq DOMAIN nodes
  OBVIOUS
<1>3. PICK kept \in [1 .. Cardinality(latest) -> latest] :
        /\ Cardinality(latest) \in Nat /\ IsFiniteSet(latest)
        /\ Range(kept) = latest
        /\ \A k, l \in 1 .. Cardinality(latest) : k < l => kept[k] < kept[l]
        /\ \A k, l \in 1 .. Cardinality(latest) : kept[k] = kept[l] => k = l
        /\ Sublist(nodes, latest) = [k \in 1 .. Cardinality(latest) |-> nodes[kept[k]]]
        /\ Sublist(nodes, latest) \in Seq(NodeData)
  <2> HIDE DEF latest
  <2> QED
    BY <1>2, SublistFacts
<1> DEFINE C == Cardinality(latest)
<1> HIDE DEF last, C
<1>4. /\ C \in Nat /\ DOMAIN last = 1 .. C /\ Len(last) = C
      /\ \A k \in 1 .. C : kept[k] \in latest /\ last[k] = nodes[kept[k]]
      /\ \A i \in latest : \E k \in 1 .. C : kept[k] = i
  <2>1. C \in Nat /\ DOMAIN last = 1 .. C
    BY <1>3 DEF C, last
  <2>2. Len(last) = C
    BY <1>3, <2>1, SeqElements DEF last
  <2>3. \A k \in 1 .. C : kept[k] \in latest /\ last[k] = nodes[kept[k]]
    BY <1>3 DEF C, last
  <2>4. \A i \in latest : \E k \in 1 .. C : kept[k] = i
    <3> HIDE DEF latest
    <3> QED
      BY <1>3 DEF C, Range
  <2> QED
    BY <2>1, <2>2, <2>3, <2>4
<1>5. Deduped(nodes) = ByName(last)
  BY DEF Deduped, last
<1>6. Distinct(last)
  <2> SUFFICES ASSUME NEW k \in 1 .. C, NEW l \in 1 .. C, last[k].name = last[l].name
               PROVE  k = l
    BY <1>4 DEF Distinct
  <2>1. /\ kept[k] \in latest /\ last[k] = nodes[kept[k]]
        /\ kept[l] \in latest /\ last[l] = nodes[kept[l]]
    BY <1>4
  <2>2. kept[k] <= kept[l] /\ kept[l] <= kept[k]
    BY <2>1
  <2>3. kept[k] \in Nat /\ kept[l] \in Nat
    BY <1>1, <2>1
  <2>4. kept[k] = kept[l]
    BY <2>2, <2>3
  <2> QED
    BY <1>3, <2>4 DEF C
<1>7. NamesIn(last) = NamesIn(nodes)
  <2>1. ASSUME NEW x \in NamesIn(last) PROVE x \in NamesIn(nodes)
    <3>1. PICK k \in 1 .. C : last[k].name = x
      BY <1>4, <2>1 DEF NamesIn, Range
    <3>2. kept[k] \in DOMAIN nodes /\ nodes[kept[k]].name = x
      BY <1>4, <3>1
    <3> QED
      BY <3>2 DEF NamesIn, Range
  <2>2. ASSUME NEW x \in NamesIn(nodes) PROVE x \in NamesIn(last)
    <3> DEFINE at == {i \in 1 .. N : nodes[i].name = x}
               back == {d \in Nat : N - d \in at}
    <3>1. PICK i \in 1 .. N : nodes[i].name = x
      BY <1>1, <2>2 DEF NamesIn, Range
    <3>2. N - i \in Nat /\ N - (N - i) = i
      BY <1>1
    <3>3. back # {} /\ back \subseteq Nat
      BY <3>1, <3>2
    <3>4. PICK d \in back : \A b \in back : d <= b
      <4> HIDE DEF back
      <4> QED
        BY <3>3, LeastNatural
    <3> DEFINE p == N - d
    <3>5. p \in 1 .. N /\ nodes[p].name = x
      BY <3>4
    <3>6. ASSUME NEW j \in 1 .. N, nodes[j].name = x PROVE j <= p
      <4>1. N - j \in Nat /\ N - (N - j) = j
        BY <1>1
      <4>2. N - j \in back
        BY <3>6, <4>1
      <4>3. d <= N - j
        BY <3>4, <4>2
      <4> QED
        BY <1>1, <3>4, <4>3
    <3> HIDE DEF p
    <3>7. p \in latest
      BY <1>1, <3>5, <3>6
    <3>8. PICK k \in 1 .. C : kept[k] = p
      BY <1>4, <3>7
    <3>9. k \in DOMAIN last /\ last[k].name = x
      BY <1>4, <3>5, <3>8
    <3> QED
      BY <3>9 DEF NamesIn, Range
  <2> QED
    BY <2>1, <2>2
<1>8. Distinct(nodes) => Range(last) = Range(nodes)
  <2> SUFFICES ASSUME Distinct(nodes) PROVE Range(last) = Range(nodes)
    OBVIOUS
  <2>1. \A i \in 1 .. N : i \in latest
    <3>1. \A i, j \in 1 .. N : nodes[j].name = nodes[i].name => j = i
      BY DEF Distinct
    <3> QED
      BY <1>1, <3>1
  <2>2. ASSUME NEW e \in Range(last) PROVE e \in Range(nodes)
    <3>1. PICK k \in 1 .. C : last[k] = e
      BY <1>4, <2>2 DEF Range
    <3>2. kept[k] \in DOMAIN nodes /\ nodes[kept[k]] = e
      BY <1>4, <3>1
    <3> QED
      BY <3>2 DEF Range
  <2>3. ASSUME NEW e \in Range(nodes) PROVE e \in Range(last)
    <3>1. PICK i \in 1 .. N : nodes[i] = e
      BY <1>1, <2>3 DEF Range
    <3>2. PICK k \in 1 .. C : kept[k] = i
      BY <1>4, <2>1
    <3>3. k \in DOMAIN last /\ last[k] = e
      BY <1>4, <3>1, <3>2
    <3> QED
      BY <3>3 DEF Range
  <2> QED
    BY <2>2, <2>3
<1>9. last \in Seq(NodeData)
  BY <1>3 DEF last
<1> HIDE DEF latest
<1>10. /\ ByName(last) \in Seq(NodeData) /\ Distinct(ByName(last))
       /\ Range(ByName(last)) = Range(last)
  BY <1>6, <1>9, ByNameFacts
<1> QED
  BY <1>5, <1>7, <1>8, <1>10 DEF NamesIn

(* An edge is its ends and its kind.                                       *)
LEMMA NamedEdge ==
  ASSUME NEW e \in NamedEdges
  PROVE  /\ e.from \in Names /\ e.to \in Names /\ e.kind \in Kinds
         /\ e["from"] = e.from /\ e["to"] = e.to
         /\ \A x, y, k : [from |-> x, to |-> y, kind |-> k] = e <=>
                           x = e.from /\ y = e.to /\ k = e.kind
<1>1. e = [from |-> e.from, to |-> e.to, kind |-> e.kind] /\ e.from \in Names /\ e.to \in Names /\ e.kind \in Kinds
  BY DEF NamedEdges
<1>2. ASSUME NEW x, NEW y, NEW k
      PROVE  [from |-> x, to |-> y, kind |-> k] = [from |-> e.from, to |-> e.to, kind |-> e.kind]
               <=> x = e.from /\ y = e.to /\ k = e.kind
  OBVIOUS
<1> QED
  BY <1>1, <1>2

(* A list is made of its elements.                                         *)
LEMMA SeqMade ==
  ASSUME NEW n \in Nat, NEW A, NEW s, s = [k \in 1 .. n |-> s[k]],
         \A k \in 1 .. n : s[k] \in A
  PROVE  s \in Seq(A) /\ Len(s) = n /\ DOMAIN s = 1 .. n
<1>1. s \in [1 .. n -> A]
  OBVIOUS
<1> QED
  BY <1>1

(* What build_graph makes is a graph.                                      *)
LEMMA BuildFacts ==
  ASSUME NEW nodes \in Seq(NodeData), NEW edges \in Seq(EdgeInputs)
  PROVE  GraphOK(build_graph(nodes, edges))
<1> DEFINE names   == NamesIn(nodes)
           Sane(e) == {e.from, e.to} \subseteq names /\ ~ e.inverted
           S       == {e \in Range(edges) : Sane(e)}
           kept    == Pick(edges, S)
           bare    == [k \in DOMAIN kept |->
                         [from |-> kept[k].from, to |-> kept[k].to, kind |-> kept[k].kind]]
           g       == build_graph(nodes, edges)
<1>1. g = [nodes |-> Deduped(nodes), edges |-> bare]
  BY DEF build_graph, NamesIn
<1>2. kept \in Seq(EdgeInputs \cap S)
  <2> HIDE DEF S
  <2> QED
    BY PickType
<1>3. DOMAIN kept = 1 .. Len(kept) /\ Len(kept) \in Nat /\ \A k \in 1 .. Len(kept) : kept[k] \in EdgeInputs \cap S
  <2> HIDE DEF kept
  <2> QED
    BY <1>2, SeqElements, Zenon
<1> DEFINE m == Len(kept)
<1>4. ASSUME NEW k \in 1 .. m
      PROVE  bare[k] \in NamedEdges /\ bare[k].from \in names /\ bare[k].to \in names
  <2>1. kept[k] \in EdgeInputs /\ Sane(kept[k])
    BY <1>3
  <2>2. bare[k] = [from |-> kept[k].from, to |-> kept[k].to, kind |-> kept[k].kind]
    BY <1>3
  <2> HIDE DEF kept, names, bare
  <2>3. kept[k].from \in Names /\ kept[k].to \in Names /\ kept[k].kind \in Kinds
    BY <2>1 DEF EdgeInputs
  <2>4. bare[k] \in NamedEdges
    BY <2>2, <2>3 DEF NamedEdges
  <2>5. kept[k].from \in names /\ kept[k].to \in names
    BY <2>1
  <2> QED
    BY <2>2, <2>4, <2>5
<1>5. bare = [k \in 1 .. m |-> bare[k]]
  BY <1>3
<1>6. m \in Nat
  BY <1>3
<1> HIDE DEF bare, m
<1>7. bare \in Seq(NamedEdges) /\ Len(bare) = m
  <2>1. \A k \in 1 .. m : bare[k] \in NamedEdges
    BY <1>4
  <2> QED
    BY <1>5, <1>6, <2>1, SeqMade
<1>8. /\ Deduped(nodes) \in Seq(NodeData) /\ Distinct(Deduped(nodes))
      /\ NamesIn(Deduped(nodes)) = names
  BY DedupedFacts
<1>9. NodeNames(g) = names /\ g.edges = bare /\ g.nodes = Deduped(nodes)
  <2>1. g.edges = bare /\ g.nodes = Deduped(nodes)
    BY <1>1
  <2>2. NodeNames(g) = NamesIn(g.nodes)
    BY DEF NodeNames, NamesIn
  <2> QED
    BY <1>8, <2>1, <2>2
<1>10. \A k \in 1 .. Len(g.edges) :
         g.edges[k].from \in NodeNames(g) /\ g.edges[k].to \in NodeNames(g)
  BY <1>4, <1>7, <1>9
<1>11. g \in [nodes: Seq(NodeData), edges: Seq(NamedEdges)]
  BY <1>1, <1>7, <1>8
<1> HIDE DEF g
<1>12. GraphOK(g)
  BY <1>8, <1>9, <1>10, <1>11 DEF GraphOK
<1> QED
  BY <1>12 DEF g

(* A graph that is built again is the same.                                *)
LEMMA FoldFacts ==
  ASSUME NEW g, GraphOK(g)
  PROVE  /\ GraphOK(build_graph(g.nodes, AsInputs(g.edges)))
         /\ SameGraph(build_graph(g.nodes, AsInputs(g.edges)), g)
<1> DEFINE nodes   == g.nodes
           inputs  == AsInputs(g.edges)
           names   == NamesIn(nodes)
           Sane(e) == {e.from, e.to} \subseteq names /\ ~ e.inverted
           S       == {e \in Range(inputs) : Sane(e)}
           kept    == Pick(inputs, S)
           bare    == [k \in DOMAIN kept |->
                         [from |-> kept[k].from, to |-> kept[k].to, kind |-> kept[k].kind]]
           h       == build_graph(nodes, inputs)
           n       == Len(g.edges)
<1>1. /\ nodes \in Seq(NodeData) /\ g.edges \in Seq(NamedEdges) /\ Distinct(nodes)
      /\ \A k \in 1 .. n : g.edges[k].from \in names /\ g.edges[k].to \in names
  BY DEF GraphOK, NodeNames, NamesIn
<1>2. n \in Nat /\ DOMAIN g.edges = 1 .. n /\ \A k \in 1 .. n : g.edges[k] \in NamedEdges
  BY <1>1, SeqElements
<1>3. h = [nodes |-> Deduped(nodes), edges |-> bare]
  BY DEF build_graph, NamesIn
<1>4. /\ DOMAIN inputs = 1 .. n
      /\ \A k \in 1 .. n : inputs[k] = [from |-> g.edges[k].from, to |-> g.edges[k].to,
                                        kind |-> g.edges[k].kind, inverted |-> FALSE]
      /\ inputs = [k \in 1 .. n |-> inputs[k]]
  BY <1>2 DEF AsInputs
<1> HIDE DEF h, inputs, nodes
<1>5. ASSUME NEW k \in 1 .. n
      PROVE  inputs[k] \in EdgeInputs /\ inputs[k].from \in names /\ inputs[k].to \in names
             /\ ~ inputs[k].inverted
             /\ inputs[k].from = g.edges[k].from /\ inputs[k].to = g.edges[k].to
             /\ inputs[k].kind = g.edges[k].kind
  <2>1. g.edges[k].from \in Names /\ g.edges[k].to \in Names /\ g.edges[k].kind \in Kinds
    BY <1>2, NamedEdge
  <2>2. inputs[k] = [from |-> g.edges[k].from, to |-> g.edges[k].to,
                     kind |-> g.edges[k].kind, inverted |-> FALSE]
    BY <1>4
  <2>3. inputs[k] \in EdgeInputs
    BY <2>1, <2>2 DEF EdgeInputs
  <2>4. /\ inputs[k].from = g.edges[k].from /\ inputs[k].to = g.edges[k].to
        /\ inputs[k].kind = g.edges[k].kind /\ inputs[k].inverted = FALSE
    BY <2>2
  <2>5. g.edges[k].from \in names /\ g.edges[k].to \in names
    BY <1>1
  <2> QED
    BY <2>3, <2>4, <2>5
<1> HIDE DEF names
<1>6. inputs \in Seq(EdgeInputs) /\ Len(inputs) = n
  <2>1. \A k \in 1 .. n : inputs[k] \in EdgeInputs
    BY <1>5
  <2> HIDE DEF n
  <2> QED
    BY <1>2, <1>4, <2>1, SeqMade
<1>7. GraphOK(h)
  BY <1>1, <1>6, BuildFacts DEF h
<1>8. Range(h.nodes) = Range(nodes)
  BY <1>1, <1>3, DedupedFacts
<1>9. ASSUME NEW e \in NamedEdges
      PROVE  Occurs(h.edges, {e}) = Occurs(g.edges, {e})
  <2> DEFINE Bare(d) == [from |-> d.from, to |-> d.to, kind |-> d.kind]
             T == {d \in EdgeInputs : Bare(d) = e}
  <2>1. kept \in Seq(EdgeInputs) /\ Occurs(kept, T) = Occurs(inputs, S \cap T)
    <3> HIDE DEF S, T
    <3> QED
      BY <1>6, PickFacts, OccursPick
  <2>2. Occurs(inputs, S \cap T) = Occurs(inputs, T)
    <3>1. \A k \in DOMAIN inputs : inputs[k] \in S
      <4> SUFFICES ASSUME NEW k \in 1 .. n PROVE inputs[k] \in S
        BY <1>4
      <4>1. inputs[k] \in Range(inputs)
        BY <1>4 DEF Range
      <4> QED
        BY <1>5, <4>1
    <3> HIDE DEF S, T
    <3>2. \A k \in DOMAIN inputs : inputs[k] \in S \cap T <=> inputs[k] \in T
      BY <3>1
    <3> QED
      BY <3>2, OccursSame
  <2>3. Occurs(bare, {e}) = Occurs(kept, T)
    <3> HIDE DEF kept
    <3>1. \A k \in DOMAIN kept : kept[k] \in EdgeInputs
      BY <2>1, SeqElements
    <3>2. \A k \in DOMAIN kept : bare[k] \in {e} <=> kept[k] \in T
      BY <3>1
    <3>3. DOMAIN bare = DOMAIN kept
      OBVIOUS
    <3> HIDE DEF bare, T
    <3> QED
      BY <3>2, <3>3, OccursImage
  <2>4. Occurs(inputs, T) = Occurs(g.edges, {e})
    <3>1. ASSUME NEW k \in 1 .. n PROVE inputs[k] \in T <=> g.edges[k] \in {e}
      <4>1. inputs[k] \in T <=> Bare(inputs[k]) = e
        BY <1>5
      <4>2. Bare(inputs[k]) = [from |-> g.edges[k].from, to |-> g.edges[k].to, kind |-> g.edges[k].kind]
        BY <1>5
      <4>3. [from |-> g.edges[k].from, to |-> g.edges[k].to, kind |-> g.edges[k].kind] = g.edges[k]
        BY <1>2, NamedEdge
      <4> QED
        BY <4>1, <4>2, <4>3
    <3>2. DOMAIN g.edges = DOMAIN inputs /\ \A k \in DOMAIN g.edges : inputs[k] \in T <=> g.edges[k] \in {e}
      BY <1>2, <1>4, <3>1
    <3> HIDE DEF T
    <3> QED
      BY <3>2, OccursImage
  <2>5. h.edges = bare
    BY <1>3
  <2> HIDE DEF bare, kept, T, S
  <2> QED
    BY <2>1, <2>2, <2>3, <2>4, <2>5
<1>10. SameGraph(h, g)
  BY <1>8, <1>9 DEF SameGraph, SameEdges, nodes
<1> QED
  BY <1>7, <1>10 DEF h, inputs, nodes

(* The nodes and edges of an archive of either format.                     *)
ArraysOf(a, n, E) ==
  /\ n \in Nat /\ a.nodes \in [0 .. n - 1 -> NodeData]
  /\ E \in Nat /\ a.edges \in [0 .. E - 1 -> CsrData]

NamesDistinct(a) ==
  \A i, j \in DOMAIN a.nodes : a.nodes[i].name = a.nodes[j].name => i = j

(* The entries that stand for an edge.                                     *)
Denoted(a, e) == {d \in CsrData : Inside(a, d) /\ Named(a, d) = e}

(* A rebuild is the nodes, and the edges that have both ends.              *)
LEMMA RebuildFacts ==
  ASSUME NEW a, NEW n, NEW E, ArraysOf(a, n, E)
  PROVE  /\ rebuild_from_serialized(a) \in [nodes: Seq(NodeData), edges: Seq(NamedEdges)]
         /\ rebuild_from_serialized(a).nodes = Values(a.nodes)
         /\ Range(Values(a.nodes)) = Range(a.nodes)
         /\ \A e \in NamedEdges :
              Occurs(rebuild_from_serialized(a).edges, {e}) = Occurs(Values(a.edges), Denoted(a, e))
         /\ NamesDistinct(a) => GraphOK(rebuild_from_serialized(a))
<1> DEFINE nodes == Values(a.nodes)
           all   == Values(a.edges)
           S     == {e \in Range(a.edges) : Inside(a, e)}
           kept  == Pick(all, S)
           named == [k \in DOMAIN kept |-> Named(a, kept[k])]
           g     == rebuild_from_serialized(a)
           names == NamesIn(nodes)
<1>1. /\ n \in Nat /\ a.nodes \in [0 .. n - 1 -> NodeData]
      /\ E \in Nat /\ a.edges \in [0 .. E - 1 -> CsrData]
  BY DEF ArraysOf
<1>2. /\ nodes \in Seq(NodeData) /\ Len(nodes) = n /\ DOMAIN nodes = 1 .. n
      /\ \A k \in 1 .. n : nodes[k] = a.nodes[k - 1] /\ k - 1 \in 0 .. n - 1
      /\ Range(nodes) = Range(a.nodes)
  <2>1. n \in Nat /\ a.nodes \in [0 .. n - 1 -> NodeData]
    BY <1>1
  <2> QED
    BY <2>1, ValuesOf
<1>3. /\ all \in Seq(CsrData) /\ Len(all) = E /\ Range(all) = Range(a.edges)
  BY <1>1, ValuesOf
<1>4. g = [nodes |-> nodes, edges |-> named]
  BY DEF rebuild_from_serialized
<1> HIDE DEF nodes, all, g
<1>5. kept \in Seq(CsrData \cap S)
  <2> HIDE DEF S
  <2> QED
    BY <1>3, PickType
<1> DEFINE m == Len(kept)
<1>6. m \in Nat /\ DOMAIN kept = 1 .. m /\ \A k \in 1 .. m : kept[k] \in CsrData \cap S
  <2> HIDE DEF kept, S
  <2> QED
    BY <1>5, SeqElements, Zenon
<1>7. ASSUME NEW d \in CsrData, Inside(a, d)
      PROVE  Named(a, d) \in NamedEdges /\ Named(a, d).from \in names /\ Named(a, d).to \in names
  <2>1. d.from_idx \in 0 .. n - 1 /\ d.to_idx \in 0 .. n - 1
    BY <1>1, <1>7 DEF Inside
  <2>2. a.nodes[d.from_idx] \in NodeData /\ a.nodes[d.to_idx] \in NodeData
    BY <1>1, <2>1
  <2>3. a.nodes[d.from_idx] \in Range(nodes) /\ a.nodes[d.to_idx] \in Range(nodes)
    BY <1>1, <1>2, <2>1 DEF Range
  <2>4. a.nodes[d.from_idx].name \in names /\ a.nodes[d.to_idx].name \in names
    BY <2>3 DEF NamesIn
  <2>5. a.nodes[d.from_idx].name \in Names /\ a.nodes[d.to_idx].name \in Names
    BY <2>2 DEF NodeData
  <2>6. d.kind \in Kinds
    BY DEF CsrData
  <2> QED
    BY <2>4, <2>5, <2>6 DEF Named, NamedEdges
<1>8. \A k \in 1 .. m : named[k] = Named(a, kept[k]) /\ kept[k] \in CsrData /\ Inside(a, kept[k])
  BY <1>6
<1>9. named = [k \in 1 .. m |-> named[k]]
  BY <1>6
<1> HIDE DEF named, m, names
<1>10. named \in Seq(NamedEdges) /\ Len(named) = m /\ DOMAIN named = 1 .. m
  <2>1. \A k \in 1 .. m : named[k] \in NamedEdges
    BY <1>7, <1>8
  <2> QED
    BY <1>6, <1>9, <2>1, SeqMade
<1>11. \A k \in 1 .. m : named[k].from \in names /\ named[k].to \in names
  BY <1>7, <1>8
<1>12. ASSUME NEW e \in NamedEdges
       PROVE  Occurs(named, {e}) = Occurs(all, Denoted(a, e))
  <2> DEFINE T == Denoted(a, e)
  <2>1. \A k \in DOMAIN kept : named[k] \in {e} <=> kept[k] \in T
    BY <1>6, <1>8 DEF Denoted
  <2>2. Occurs(named, {e}) = Occurs(kept, T)
    <3>1. DOMAIN named = DOMAIN kept
      BY <1>6, <1>10
    <3> HIDE DEF kept, T
    <3> QED
      BY <2>1, <3>1, OccursImage
  <2>3. Occurs(kept, T) = Occurs(all, S \cap T)
    <3> HIDE DEF T, S
    <3> QED
      BY <1>3, OccursPick
  <2>4. Occurs(all, S \cap T) = Occurs(all, T)
    <3>1. \A k \in DOMAIN all : all[k] \in S \cap T <=> all[k] \in T
      <4>1. \A d \in T : Inside(a, d)
        BY DEF Denoted
      <4>2. \A k \in DOMAIN all : all[k] \in Range(a.edges)
        BY <1>3 DEF Range
      <4> HIDE DEF T
      <4> QED
        BY <4>1, <4>2
    <3> HIDE DEF T, S
    <3> QED
      BY <3>1, OccursSame
  <2> HIDE DEF T, S, kept
  <2> QED
    BY <2>2, <2>3, <2>4 DEF T
<1>13. g \in [nodes: Seq(NodeData), edges: Seq(NamedEdges)] /\ g.nodes = nodes /\ g.edges = named
  BY <1>2, <1>4, <1>10
<1>14. ASSUME NamesDistinct(a) PROVE GraphOK(g)
  <2>1. Distinct(nodes)
    <3> SUFFICES ASSUME NEW i \in 1 .. n, NEW j \in 1 .. n, nodes[i].name = nodes[j].name
                 PROVE  i = j
      BY <1>2 DEF Distinct
    <3>1. /\ nodes[i] = a.nodes[i - 1] /\ i - 1 \in DOMAIN a.nodes
          /\ nodes[j] = a.nodes[j - 1] /\ j - 1 \in DOMAIN a.nodes
      BY <1>1, <1>2
    <3>2. i - 1 = j - 1
      BY <1>14, <3>1 DEF NamesDistinct
    <3> QED
      BY <3>2
  <2>2. NodeNames(g) = names
    BY <1>13 DEF NodeNames, NamesIn, names
  <2> QED
    BY <1>10, <1>11, <1>13, <2>1, <2>2 DEF GraphOK
<1> QED
  BY <1>2, <1>12, <1>13, <1>14 DEF g, nodes, all

(* a is the nodes and the edges of g: s is the edges, t in any order.       *)
Encodes(a, g, nodes, s, t) ==
  /\ nodes \in Seq(NodeData) /\ Distinct(nodes) /\ Range(nodes) = Range(g.nodes)
  /\ s \in Seq(CsrData) /\ Len(s) = Len(g.edges)
  /\ \A k \in 1 .. Len(s) : Denotes(s[k], nodes, g.edges[k])
  /\ t \in Seq(CsrData) /\ \A T : Occurs(t, T) = Occurs(s, T)
  /\ a.nodes = Array(nodes) /\ a.edges = Array(t)

(* The archive of a graph, its edges in any order, is that graph again.    *)
LEMMA RoundTrip ==
  ASSUME NEW g, GraphOK(g), NEW nodes, NEW s, NEW t, NEW a, Encodes(a, g, nodes, s, t)
  PROVE  /\ ArraysOf(a, Len(nodes), Len(t)) /\ NamesDistinct(a)
         /\ GraphOK(rebuild_from_serialized(a)) /\ SameGraph(rebuild_from_serialized(a), g)
<1> DEFINE n == Len(nodes)
           E == Len(t)
           h == rebuild_from_serialized(a)
<1>0. /\ nodes \in Seq(NodeData) /\ s \in Seq(CsrData) /\ t \in Seq(CsrData)
      /\ a.nodes = Array(nodes) /\ a.edges = Array(t)
      /\ Range(nodes) = Range(g.nodes) /\ Len(s) = Len(g.edges)
  BY DEF Encodes
<1>1. /\ a.nodes \in [0 .. n - 1 -> NodeData] /\ n \in Nat
      /\ \A i \in 0 .. n - 1 : a.nodes[i] = nodes[i + 1] /\ i + 1 \in 1 .. n
      /\ \A k \in 1 .. n : k - 1 \in 0 .. n - 1 /\ a.nodes[k - 1] = nodes[k]
  BY <1>0, ArrayOf
<1>2. /\ a.edges \in [0 .. E - 1 -> CsrData] /\ E \in Nat
      /\ \A k \in 1 .. E : k - 1 \in 0 .. E - 1 /\ a.edges[k - 1] = t[k]
  BY <1>0, ArrayOf
<1> HIDE DEF h, n, E
<1>3. ArraysOf(a, n, E)
  BY <1>1, <1>2 DEF ArraysOf
<1>4. NamesDistinct(a)
  <2> SUFFICES ASSUME NEW i \in 0 .. n - 1, NEW j \in 0 .. n - 1, a.nodes[i].name = a.nodes[j].name
               PROVE  i = j
    BY <1>1 DEF NamesDistinct
  <2>1. nodes[i + 1].name = nodes[j + 1].name /\ i + 1 \in 1 .. n /\ j + 1 \in 1 .. n
    BY <1>1
  <2>2. i + 1 = j + 1
    BY <2>1 DEF Distinct, Encodes, n
  <2> QED
    BY <2>2
<1>5. /\ GraphOK(h) /\ h.nodes = Values(a.nodes) /\ Range(Values(a.nodes)) = Range(a.nodes)
      /\ \A e \in NamedEdges : Occurs(h.edges, {e}) = Occurs(Values(a.edges), Denoted(a, e))
  BY <1>3, <1>4, RebuildFacts DEF h
<1>6. Range(h.nodes) = Range(g.nodes)
  <2>1. DOMAIN nodes = 1 .. n
    BY <1>0, SeqElements DEF n
  <2>2. ASSUME NEW x \in Range(a.nodes) PROVE x \in Range(nodes)
    <3>1. PICK i \in 0 .. n - 1 : a.nodes[i] = x
      BY <1>1, <2>2 DEF Range
    <3>2. i + 1 \in DOMAIN nodes /\ nodes[i + 1] = x
      BY <1>1, <2>1, <3>1
    <3> QED
      BY <3>2 DEF Range
  <2>3. ASSUME NEW x \in Range(nodes) PROVE x \in Range(a.nodes)
    <3>1. PICK k \in 1 .. n : nodes[k] = x
      BY <2>1, <2>3 DEF Range
    <3>2. k - 1 \in DOMAIN a.nodes /\ a.nodes[k - 1] = x
      BY <1>1, <3>1
    <3> QED
      BY <3>2 DEF Range
  <2>4. Range(a.nodes) = Range(nodes)
    BY <2>2, <2>3
  <2> QED
    BY <1>0, <1>5, <2>4
<1>7. ASSUME NEW e \in NamedEdges
      PROVE  Occurs(h.edges, {e}) = Occurs(g.edges, {e})
  <2> DEFINE T == Denoted(a, e)
             all == Values(a.edges)
  <2>1. Occurs(all, T) = Occurs(t, T)
    <3>1. /\ DOMAIN all = 1 .. E /\ \A k \in 1 .. E : all[k] = a.edges[k - 1] /\ k - 1 \in 0 .. E - 1
      <4>1. E \in Nat /\ a.edges \in [0 .. E - 1 -> CsrData]
        BY <1>2
      <4> QED
        BY <4>1, ValuesOf
    <3>2. DOMAIN t = 1 .. E
      BY <1>0, SeqElements DEF E
    <3>3. \A k \in DOMAIN t : all[k] \in T <=> t[k] \in T
      BY <1>2, <3>1, <3>2
    <3>4. DOMAIN all = DOMAIN t
      BY <3>1, <3>2
    <3> HIDE DEF T, all
    <3> QED
      BY <3>3, <3>4, OccursImage
  <2>2. Occurs(t, T) = Occurs(s, T)
    BY DEF Encodes
  <2>3. Occurs(s, T) = Occurs(g.edges, {e})
    <3>1. DOMAIN s = 1 .. Len(s) /\ \A k \in 1 .. Len(s) : s[k] \in CsrData
      BY <1>0, SeqElements
    <3>2. DOMAIN g.edges = 1 .. Len(g.edges) /\ \A k \in 1 .. Len(g.edges) : g.edges[k] \in NamedEdges
      <4>1. g.edges \in Seq(NamedEdges)
        BY DEF GraphOK
      <4> QED
        BY <4>1, SeqElements
    <3>3. ASSUME NEW k \in 1 .. Len(s) PROVE Named(a, s[k]) = g.edges[k] /\ Inside(a, s[k])
      <4> DEFINE d == s[k]
                 f == g.edges[k]
      <4>1. /\ d.from_idx + 1 \in 1 .. n /\ nodes[d.from_idx + 1].name = f.from
            /\ d.to_idx + 1 \in 1 .. n /\ nodes[d.to_idx + 1].name = f.to
            /\ d.kind = f.kind
        BY DEF Encodes, Denotes, n
      <4>2. d.from_idx \in Nat /\ d.to_idx \in Nat
        BY <3>1 DEF CsrData
      <4>3. f \in NamedEdges
        BY <1>0, <3>2
      <4> HIDE DEF d, f
      <4>4. d.from_idx \in 0 .. n - 1 /\ d.to_idx \in 0 .. n - 1
        BY <1>1, <4>1, <4>2
      <4>5. a.nodes[d.from_idx].name = f.from /\ a.nodes[d.to_idx].name = f.to
        BY <1>1, <4>1, <4>4
      <4>6. Named(a, d) = f
        <5>1. Named(a, d) = [from |-> a.nodes[d.from_idx].name, to |-> a.nodes[d.to_idx].name,
                             kind |-> d.kind]
          BY DEF Named
        <5> DEFINE x == a.nodes[d.from_idx].name
                   y == a.nodes[d.to_idx].name
        <5>2. x = f.from /\ y = f.to /\ d.kind = f.kind
          BY <4>1, <4>5
        <5> HIDE DEF x, y
        <5>3. [from |-> x, to |-> y, kind |-> d.kind] = f
          BY <4>3, <5>2, NamedEdge
        <5> QED
          BY <5>1, <5>3 DEF x, y
      <4>7. Inside(a, d)
        BY <1>1, <4>4 DEF Inside
      <4> QED
        BY <4>6, <4>7 DEF d, f
    <3>4. \A k \in DOMAIN s : g.edges[k] \in {e} <=> s[k] \in T
      BY <3>1, <3>3 DEF Denoted
    <3>5. DOMAIN g.edges = DOMAIN s
      BY <1>0, <3>1, <3>2
    <3> HIDE DEF T
    <3>6. Occurs(g.edges, {e}) = Occurs(s, T)
      BY <3>4, <3>5, OccursImage
    <3> QED
      BY <3>6
  <2> HIDE DEF T, all
  <2> QED
    BY <1>5, <2>1, <2>2, <2>3 DEF T, all
<1> QED
  BY <1>3, <1>4, <1>5, <1>6, <1>7 DEF SameGraph, SameEdges, h, n, E

(* A listing reads the slots of its node.                                  *)
LEMMA SlotsOf ==
  ASSUME NEW n \in Nat, NEW E \in Nat, NEW off, InShape(off, n, E),
         NEW key \in [0 .. E - 1 -> 0 .. n - 1], Grouped(off, n, E, key),
         NEW i \in 0 .. n - 1
  PROVE  Slots(off, E, i) = {k \in 0 .. E - 1 : key[k] = i}
<1>1. /\ DOMAIN off = 0 .. n /\ i \in 0 .. n /\ i + 1 \in 0 .. n
  BY DEF InShape
<1>2. /\ \A j \in 0 .. n : off[j] \in 0 .. E
      /\ \A k \in 0 .. E - 1 : \E j \in 0 .. n - 1 : off[j] <= k /\ k < off[j + 1]
  BY ShapesPartition
<1>3. off[i] \in 0 .. E /\ off[i + 1] \in 0 .. E
  BY <1>1, <1>2
<1>4. Min({off[i + 1], E}) = off[i + 1]
  <2> DEFINE P(x) == \A y \in {off[i + 1], E} : x <= y
  <2>1. P(off[i + 1])
    BY <1>3
  <2>2. \A x \in {off[i + 1], E} : P(x) => x = off[i + 1]
    BY <1>3
  <2>3. Min({off[i + 1], E}) = CHOOSE x \in {off[i + 1], E} : P(x)
    BY DEF Min
  <2> HIDE DEF P
  <2> QED
    BY <2>1, <2>2, <2>3
<1>5. Slots(off, E, i) = off[i] .. off[i + 1] - 1
  BY <1>1, <1>4 DEF Slots
<1>6. \A k \in 0 .. E - 1 : (off[i] <= k /\ k < off[i + 1]) <=> key[k] = i
  <2> SUFFICES ASSUME NEW k \in 0 .. E - 1
               PROVE  (off[i] <= k /\ k < off[i + 1]) <=> key[k] = i
    OBVIOUS
  <2>1. off[i] <= k /\ k < off[i + 1] => key[k] = i
    BY DEF Grouped
  <2>2. ASSUME key[k] = i PROVE off[i] <= k /\ k < off[i + 1]
    <3>1. PICK j \in 0 .. n - 1 : off[j] <= k /\ k < off[j + 1]
      BY <1>2
    <3>2. key[k] = j
      BY <3>1 DEF Grouped
    <3> QED
      BY <2>2, <3>1, <3>2
  <2> QED
    BY <2>1, <2>2
<1>7. \A k : k \in off[i] .. off[i + 1] - 1 <=> k \in 0 .. E - 1 /\ off[i] <= k /\ k < off[i + 1]
  BY <1>3
<1> QED
  BY <1>5, <1>6, <1>7

(* Offsets that pass the sweep share out the edges.                        *)
LEMMA SweptShape ==
  ASSUME NEW n \in Nat, NEW E \in Nat, NEW a, DOMAIN a.nodes = 0 .. n - 1,
         DOMAIN a.edges = 0 .. E - 1, NEW off, IsArray(off, Nat), OffsetsInShape(a, off)
  PROVE  InShape(off, n, E)
<1>1. Size(a.nodes) = n /\ Size(a.edges) = E
  BY SizeOf
<1>2. PICK m \in Nat : off \in [0 .. m - 1 -> Nat]
  BY DEF IsArray
<1>3. Size(off) = m
  BY <1>2, SizeOf
<1>4. m = n + 1 /\ off[0] = 0 /\ off[n] = E /\ \A i \in 0 .. n - 1 : off[i] <= off[i + 1]
  BY <1>1, <1>3 DEF OffsetsInShape
<1>5. 0 .. m - 1 = 0 .. n
  BY <1>4
<1>6. off \in [0 .. n -> Nat]
  BY <1>2, <1>5
<1> QED
  BY <1>4, <1>6 DEF InShape

(* What a reader of a snapshot relies on.                                  *)
Readable(a, n, E) ==
  /\ ArraysOf(a, n, E) /\ NamesDistinct(a)
  /\ \A k \in 0 .. E - 1 : a.edges[k].from_idx \in 0 .. n - 1 /\ a.edges[k].to_idx \in 0 .. n - 1
  /\ a.in_mirror \in [0 .. E - 1 -> 0 .. E - 1]
  /\ \A k, l \in 0 .. E - 1 : a.in_mirror[k] = a.in_mirror[l] => k = l
  /\ \A k \in 0 .. E - 1 : \E s \in 0 .. E - 1 : a.in_mirror[s] = k
  /\ \A i \in 0 .. n - 1 :
       /\ Slots(a.node_offsets, Size(a.edges), i) = {k \in 0 .. E - 1 : a.edges[k].from_idx = i}
       /\ Slots(a.in_offsets, Size(a.in_mirror), i)
            = {k \in 0 .. E - 1 : a.edges[a.in_mirror[k]].to_idx = i}
  /\ \A x \in Names : Finds(a, x)

(* A file that passes the sweep can be read.                               *)
LEMMA Swept ==
  ASSUME Hashed, NEW a, Shaped(a), validate_csr(a)
  PROVE  \E n, E : Readable(a, n, E)
<1>1. /\ IsArray(a.nodes, NodeData) /\ IsArray(a.edges, CsrData)
      /\ IsArray(a.node_offsets, Nat) /\ IsArray(a.in_offsets, Nat)
      /\ IsArray(a.in_mirror, Nat) /\ IsArray(a.name_buckets, Int)
  BY DEF Shaped
<1>2. PICK n \in Nat : a.nodes \in [0 .. n - 1 -> NodeData]
  BY <1>1 DEF IsArray
<1>3. PICK E \in Nat : a.edges \in [0 .. E - 1 -> CsrData]
  BY <1>1 DEF IsArray
<1>4. PICK m \in Nat : a.name_buckets \in [0 .. m - 1 -> Int]
  BY <1>1 DEF IsArray
<1>5. PICK M \in Nat : a.in_mirror \in [0 .. M - 1 -> Nat]
  BY <1>1 DEF IsArray
<1>6. /\ StrictlySorted(a) /\ CanonicalTable(a) /\ Reachable(a) /\ EndpointsInRange(a)
      /\ OffsetsInShape(a, a.node_offsets) /\ OutgoingGrouped(a)
      /\ OffsetsInShape(a, a.in_offsets) /\ MirrorIsPermutation(a) /\ IncomingGrouped(a)
  BY DEF validate_csr
<1>7. /\ DOMAIN a.nodes = 0 .. n - 1 /\ DOMAIN a.edges = 0 .. E - 1
      /\ Size(a.edges) = E /\ Size(a.in_mirror) = M
  BY <1>2, <1>3, <1>5, SizeOf
<1>8. ArraysOf(a, n, E)
  BY <1>2, <1>3 DEF ArraysOf
<1>9. NamesDistinct(a)
  <2>1. \A i, j \in 0 .. n - 1 : a.nodes[i].name = a.nodes[j].name => i = j
    BY <1>2, <1>6, SortedDistinct
  <2> QED
    BY <1>7, <2>1 DEF NamesDistinct
<1>10. \A k \in 0 .. E - 1 : a.edges[k].from_idx \in 0 .. n - 1 /\ a.edges[k].to_idx \in 0 .. n - 1
  BY <1>6, <1>7 DEF EndpointsInRange, Inside
<1>11. M = E /\ Range(a.in_mirror) \subseteq 0 .. E - 1 /\ IsInjective(a.in_mirror)
  BY <1>6, <1>7 DEF MirrorIsPermutation
<1>12. a.in_mirror \in [0 .. E - 1 -> 0 .. E - 1]
  <2>1. \A k \in 0 .. E - 1 : a.in_mirror[k] \in Range(a.in_mirror)
    BY <1>5, <1>11 DEF Range
  <2> QED
    BY <1>5, <1>11, <2>1
<1>13. \A k, l \in 0 .. E - 1 : a.in_mirror[k] = a.in_mirror[l] => k = l
  BY <1>11, <1>12 DEF IsInjective
<1>14. \A k \in 0 .. E - 1 : \E s \in 0 .. E - 1 : a.in_mirror[s] = k
  <2> DEFINE D == 0 .. E - 1
  <2>1. IsFiniteSet(D)
    BY Indexes
  <2>2. a.in_mirror \in Injection(D, D)
    <3> HIDE DEF D
    <3> QED
      BY <1>11, <1>12 DEF Injection, D
  <2>3. a.in_mirror \in Surjection(D, D)
    <3> HIDE DEF D
    <3> QED
      BY <2>1, <2>2, FS_Injection
  <2> QED
    BY <2>3 DEF Surjection
<1>15. InShape(a.node_offsets, n, E) /\ InShape(a.in_offsets, n, E)
  BY <1>1, <1>6, <1>7, SweptShape
<1> DEFINE from == [k \in 0 .. E - 1 |-> a.edges[k].from_idx]
           to   == [k \in 0 .. E - 1 |-> a.edges[a.in_mirror[k]].to_idx]
<1>16. \A k \in 0 .. E - 1 : from[k] = a.edges[k].from_idx /\ from[k] \in 0 .. n - 1
  BY <1>10
<1>17. \A k \in 0 .. E - 1 : to[k] = a.edges[a.in_mirror[k]].to_idx /\ to[k] \in 0 .. n - 1
  BY <1>10, <1>12
<1>18. from \in [0 .. E - 1 -> 0 .. n - 1] /\ to \in [0 .. E - 1 -> 0 .. n - 1]
  BY <1>16, <1>17
<1> HIDE DEF from, to
<1>19. ASSUME NEW off, InShape(off, n, E), NEW i \in 0 .. n - 1, NEW k \in 0 .. E - 1,
              off[i] <= k, k < off[i + 1]
       PROVE  k \in Group(off, i)
  <2>1. i \in 0 .. n /\ i + 1 \in 0 .. n
    OBVIOUS
  <2>2. off[i] \in 0 .. E /\ off[i + 1] \in 0 .. E
    BY <1>19, <2>1, ShapesPartition
  <2> QED
    BY <1>19, <2>2 DEF Group
<1>20. Grouped(a.node_offsets, n, E, from)
  BY <1>6, <1>7, <1>15, <1>16, <1>19 DEF Grouped, OutgoingGrouped
<1>21. Grouped(a.in_offsets, n, E, to)
  BY <1>6, <1>7, <1>15, <1>17, <1>19 DEF Grouped, IncomingGrouped
<1>22. ASSUME NEW i \in 0 .. n - 1
       PROVE  /\ Slots(a.node_offsets, Size(a.edges), i) = {k \in 0 .. E - 1 : a.edges[k].from_idx = i}
              /\ Slots(a.in_offsets, Size(a.in_mirror), i)
                   = {k \in 0 .. E - 1 : a.edges[a.in_mirror[k]].to_idx = i}
  <2>1. Slots(a.node_offsets, E, i) = {k \in 0 .. E - 1 : from[k] = i}
    <3>1. /\ n \in Nat /\ E \in Nat /\ InShape(a.node_offsets, n, E)
          /\ from \in [0 .. E - 1 -> 0 .. n - 1]
      BY <1>15, <1>18
    <3>2. Grouped(a.node_offsets, n, E, from)
      BY <1>20
    <3> QED
      BY <3>1, <3>2, SlotsOf
  <2>2. Slots(a.in_offsets, E, i) = {k \in 0 .. E - 1 : to[k] = i}
    <3>1. /\ n \in Nat /\ E \in Nat /\ InShape(a.in_offsets, n, E)
          /\ to \in [0 .. E - 1 -> 0 .. n - 1]
      BY <1>15, <1>18
    <3>2. Grouped(a.in_offsets, n, E, to)
      BY <1>21
    <3> QED
      BY <3>1, <3>2, SlotsOf
  <2>3. {k \in 0 .. E - 1 : from[k] = i} = {k \in 0 .. E - 1 : a.edges[k].from_idx = i}
    BY <1>16
  <2>4. {k \in 0 .. E - 1 : to[k] = i} = {k \in 0 .. E - 1 : a.edges[a.in_mirror[k]].to_idx = i}
    BY <1>17
  <2> QED
    BY <1>7, <1>11, <2>1, <2>2, <2>3, <2>4
<1>23. \A x \in Names : Finds(a, x)
  BY <1>2, <1>4, <1>6, ProbeExact
<1>24. Readable(a, n, E)
  BY <1>8, <1>9, <1>10, <1>12, <1>13, <1>14, <1>22, <1>23 DEF Readable
<1> QED
  BY <1>24

(* V0 bytes: written by to_rkyv, with the ends of some edges changed.      *)
ArchiveOK(a) ==
  /\ DOMAIN a = {"nodes", "edges"}
  /\ IsArray(a.nodes, NodeData) /\ IsArray(a.edges, CsrData)
  /\ NamesDistinct(a)

(* to_rkyv and back.                                                       *)
LEMMA RoundTripV0 ==
  ASSUME NEW g, GraphOK(g)
  PROVE  /\ ArchiveOK(to_rkyv(g))
         /\ SameGraph(rebuild_from_serialized(to_rkyv(g)), g)
<1> DEFINE nodes == g.nodes
           idx(x) == (CHOOSE i \in DOMAIN nodes : nodes[i].name = x) - 1
           Entry(e) == [from_idx |-> idx(e.from), to_idx |-> idx(e.to), kind |-> e.kind]
           s == [k \in DOMAIN g.edges |-> Entry(g.edges[k])]
           a == to_rkyv(g)
           n == Len(nodes)
<1>1. /\ nodes \in Seq(NodeData) /\ g.edges \in Seq(NamedEdges) /\ Distinct(nodes)
      /\ \A k \in 1 .. Len(g.edges) :
           g.edges[k].from \in NodeNames(g) /\ g.edges[k].to \in NodeNames(g)
  BY DEF GraphOK
<1>2. DOMAIN nodes = 1 .. n /\ n \in Nat
  BY <1>1, SeqElements
<1>3. a = [nodes |-> Array(nodes), edges |-> Array(s)]
  BY DEF to_rkyv
<1> HIDE DEF a
<1>4. ASSUME NEW x \in NodeNames(g)
      PROVE  idx(x) \in Nat /\ idx(x) + 1 \in 1 .. n /\ nodes[idx(x) + 1].name = x
  <2>1. PICK r \in Range(nodes) : r.name = x
    BY DEF NodeNames
  <2>2. PICK i \in DOMAIN nodes : nodes[i].name = x
    BY <2>1 DEF Range
  <2> DEFINE c == CHOOSE j \in DOMAIN nodes : nodes[j].name = x
  <2>3. c \in DOMAIN nodes /\ nodes[c].name = x
    BY <2>2
  <2> HIDE DEF c
  <2>4. c - 1 \in Nat /\ (c - 1) + 1 = c
    BY <1>2, <2>3
  <2>5. idx(x) = c - 1
    BY DEF c
  <2> HIDE DEF idx
  <2> QED
    BY <1>2, <2>3, <2>4, <2>5
<1> HIDE DEF idx, nodes, n
<1>5. DOMAIN g.edges = 1 .. Len(g.edges) /\ Len(g.edges) \in Nat
      /\ \A k \in 1 .. Len(g.edges) : g.edges[k] \in NamedEdges
  BY <1>1, SeqElements, Zenon
<1>6. ASSUME NEW k \in 1 .. Len(g.edges)
      PROVE  Entry(g.edges[k]) \in CsrData /\ Denotes(Entry(g.edges[k]), nodes, g.edges[k])
  <2> DEFINE e == g.edges[k]
  <2>1. /\ idx(e.from) \in Nat /\ idx(e.from) + 1 \in 1 .. n /\ nodes[idx(e.from) + 1].name = e.from
        /\ idx(e.to) \in Nat /\ idx(e.to) + 1 \in 1 .. n /\ nodes[idx(e.to) + 1].name = e.to
    BY <1>1, <1>4
  <2>2. e.kind \in Kinds
    BY <1>5, NamedEdge
  <2> HIDE DEF e
  <2>3. Entry(e) \in CsrData
    BY <2>1, <2>2 DEF CsrData
  <2>4. Denotes(Entry(e), nodes, e)
    BY <2>1 DEF Denotes, n
  <2> QED
    BY <2>3, <2>4 DEF e
<1> HIDE DEF Entry
<1>7. s = [k \in 1 .. Len(g.edges) |-> Entry(g.edges[k])]
  BY <1>5
<1> HIDE DEF s
<1>8. s \in Seq(CsrData) /\ Len(s) = Len(g.edges)
  <2>1. s = [k \in 1 .. Len(g.edges) |-> s[k]] /\ \A k \in 1 .. Len(g.edges) : s[k] \in CsrData
    BY <1>6, <1>7
  <2> QED
    BY <1>5, <2>1, SeqMade
<1>9. \A k \in 1 .. Len(s) : Denotes(s[k], nodes, g.edges[k])
  BY <1>6, <1>7, <1>8
<1>10. a.nodes = Array(nodes) /\ a.edges = Array(s) /\ DOMAIN a = {"nodes", "edges"}
  BY <1>3
<1>11. Encodes(a, g, nodes, s, s)
  BY <1>1, <1>8, <1>9, <1>10 DEF Encodes, nodes
<1>12. /\ ArraysOf(a, Len(nodes), Len(s)) /\ NamesDistinct(a)
       /\ SameGraph(rebuild_from_serialized(a), g)
  BY <1>11, RoundTrip
<1>13. IsArray(a.nodes, NodeData) /\ IsArray(a.edges, CsrData)
  BY <1>12 DEF ArraysOf, IsArray
<1> QED
  BY <1>10, <1>12, <1>13 DEF ArchiveOK, a

(* to_rkyv_v2 and back.                                                    *)
LEMMA RoundTripV2 ==
  ASSUME NEW g, GraphOK(g)
  PROVE  SameGraph(rebuild_from_serialized(to_rkyv_v2(g)), g)
<1>1. PICK s : /\ CsrEdges(s, g)
               /\ to_rkyv_v2(g) = SnapshotOf(ByName(g.nodes), Sorted(s, EdgeBefore))
  BY WriterFacts
<1> DEFINE nodes == ByName(g.nodes)
           t == Sorted(s, EdgeBefore)
           a == to_rkyv_v2(g)
<1>2. g.nodes \in Seq(NodeData) /\ Distinct(g.nodes)
  BY DEF GraphOK
<1>3. nodes \in Seq(NodeData) /\ Distinct(nodes) /\ Range(nodes) = Range(g.nodes)
  BY <1>2, ByNameFacts
<1>4. /\ s \in Seq(CsrData) /\ Len(s) = Len(g.edges)
      /\ \A k \in 1 .. Len(s) : Denotes(s[k], nodes, g.edges[k])
  BY <1>1 DEF CsrEdges
<1>5. SortOf(t, s, CsrData, CsrOrder)
  BY <1>4, EdgesSort
<1>6. a.nodes = Array(nodes) /\ a.edges = Array(t)
  BY <1>1 DEF SnapshotOf
<1> HIDE DEF nodes, t, a
<1>7. t \in Seq(CsrData)
  BY <1>5 DEF SortOf
<1>8. \A T : Occurs(t, T) = Occurs(s, T)
  BY <1>4, <1>5, OccursReordered
<1>9. Encodes(a, g, nodes, s, t)
  BY <1>3, <1>4, <1>6, <1>7, <1>8 DEF Encodes
<1> QED
  BY <1>9, RoundTrip DEF a

(***************************************************************************)
(* The listings of the accessors.                                          *)
(***************************************************************************)
Ends == {"from", "to"}

Field(end) == IF end = "from" THEN "from_idx" ELSE "to_idx"

(* What is open lists the edges of g, each for its end.                    *)
Fits(b, g) ==
  /\ GraphOK(g)
  /\ NodesOf(b) \in Seq(NodeData) /\ Distinct(NodesOf(b)) /\ Range(NodesOf(b)) = Range(g.nodes)
  /\ \A x \in NodeNames(g), end \in Ends :
       /\ Neighbors(b, x, end) \in Seq(NamedEdges)
       /\ \A e \in NamedEdges :
            Occurs(Neighbors(b, x, end), {e}) = IF e[end] = x THEN Occurs(g.edges, {e}) ELSE 0

(* Nothing occurs in what has no place for it.                             *)
LEMMA OccursNone ==
  ASSUME NEW s, NEW T, \A k \in DOMAIN s : s[k] \notin T
  PROVE  Occurs(s, T) = 0
<1>1. Places(s, T) = {}
  BY DEF Places
<1> QED
  BY <1>1, FS_EmptySet DEF Occurs

(* An owned graph.                                                         *)
LEMMA OwnedFits ==
  ASSUME NEW g, GraphOK(g)
  PROVE  Fits(Owned(g), g)
<1> DEFINE b == Owned(g)
<1>1. g.nodes \in Seq(NodeData) /\ g.edges \in Seq(NamedEdges) /\ Distinct(g.nodes)
  BY DEF GraphOK
<1>2. b.is = "Owned" /\ b.graph = g
  BY DEF Owned
<1> HIDE DEF b
<1>3. NodesOf(b) = g.nodes
  BY <1>2 DEF NodesOf
<1>4. ASSUME NEW x \in NodeNames(g), NEW end \in Ends
      PROVE  /\ Neighbors(b, x, end) \in Seq(NamedEdges)
             /\ \A e \in NamedEdges :
                  Occurs(Neighbors(b, x, end), {e}) = IF e[end] = x THEN Occurs(g.edges, {e}) ELSE 0
  <2> DEFINE S == {e \in Range(g.edges) : e[end] = x}
             kept == Pick(g.edges, S)
             list == Neighbors(b, x, end)
  <2>1. list = Reverse(kept)
    BY <1>2 DEF Neighbors, graph_neighbors
  <2>2. kept \in Seq(NamedEdges)
    <3> HIDE DEF S
    <3> QED
      BY <1>1, PickFacts
  <2> HIDE DEF kept, list
  <2>3. list \in Seq(NamedEdges)
    BY <2>1, <2>2, OccursReverse
  <2>4. ASSUME NEW e \in NamedEdges
        PROVE  Occurs(list, {e}) = IF e[end] = x THEN Occurs(g.edges, {e}) ELSE 0
    <3>1. Occurs(list, {e}) = Occurs(kept, {e})
      BY <2>1, <2>2, OccursReverse
    <3>2. Occurs(kept, {e}) = Occurs(g.edges, S \cap {e})
      <4> HIDE DEF S
      <4> QED
        BY <1>1, OccursPick DEF kept
    <3>3. CASE e[end] = x
      <4>1. \A k \in DOMAIN g.edges : g.edges[k] \in S \cap {e} <=> g.edges[k] \in {e}
        BY <3>3 DEF Range
      <4> HIDE DEF S
      <4>2. Occurs(g.edges, S \cap {e}) = Occurs(g.edges, {e})
        BY <4>1, OccursSame
      <4> QED
        BY <3>1, <3>2, <3>3, <4>2
    <3>4. CASE e[end] # x
      <4>1. \A k \in DOMAIN g.edges : g.edges[k] \notin S \cap {e}
        BY <3>4
      <4> HIDE DEF S
      <4>2. Occurs(g.edges, S \cap {e}) = 0
        BY <4>1, OccursNone
      <4> QED
        BY <3>1, <3>2, <3>4, <4>2
    <3> QED
      BY <3>3, <3>4
  <2> QED
    BY <2>3, <2>4 DEF list
<1>5. Fits(b, g)
  BY <1>1, <1>3, <1>4 DEF Fits
<1> QED
  BY <1>5 DEF b

(* The name at the end of an entry.                                        *)
LEMMA NamedEnd ==
  ASSUME NEW a, NEW d, NEW end \in Ends
  PROVE  Named(a, d)[end] = a.nodes[d[Field(end)]].name
BY DEF Named, Ends, Field

(* The nodes of an archive.                                                *)
LEMMA ArchiveNames ==
  ASSUME NEW a, NEW n, NEW E, ArraysOf(a, n, E), NamesDistinct(a),
         NEW x \in NodeNames(rebuild_from_serialized(a))
  PROVE  /\ \E i \in 0 .. n - 1 : a.nodes[i].name = x
         /\ x \in Names
<1>1. /\ rebuild_from_serialized(a).nodes = Values(a.nodes)
      /\ Range(Values(a.nodes)) = Range(a.nodes)
  BY RebuildFacts
<1>2. PICK r \in Range(a.nodes) : r.name = x
  BY <1>1 DEF NodeNames
<1>3. PICK i \in DOMAIN a.nodes : a.nodes[i] = r
  BY <1>2 DEF Range
<1>4. DOMAIN a.nodes = 0 .. n - 1 /\ a.nodes[i] \in NodeData
  BY <1>3 DEF ArraysOf
<1>5. x \in Names
  BY <1>2, <1>3, <1>4 DEF NodeData
<1> QED
  BY <1>2, <1>3, <1>4, <1>5

(* A view of V0 bytes whose ends are all nodes.                            *)
LEMMA ViewFits ==
  ASSUME NEW a, NEW n, NEW E, ArraysOf(a, n, E), NamesDistinct(a), from_bytes(a)
  PROVE  Fits(View(a), rebuild_from_serialized(a))
<1> DEFINE b == View(a)
           g == rebuild_from_serialized(a)
           all == Values(a.edges)
<1>1. /\ GraphOK(g) /\ g.nodes = Values(a.nodes)
      /\ \A e \in NamedEdges : Occurs(g.edges, {e}) = Occurs(all, Denoted(a, e))
  BY RebuildFacts
<1>2. b.is = "View" /\ b.file = a
  BY DEF View
<1>3. \A x \in NodeNames(g) : \E i \in 0 .. n - 1 : a.nodes[i].name = x
  BY ArchiveNames
<1> HIDE DEF b, g
<1>4. /\ n \in Nat /\ a.nodes \in [0 .. n - 1 -> NodeData]
      /\ E \in Nat /\ a.edges \in [0 .. E - 1 -> CsrData]
  BY DEF ArraysOf
<1>5. /\ all \in Seq(CsrData) /\ DOMAIN all = 1 .. E
      /\ \A k \in 1 .. E : all[k] = a.edges[k - 1] /\ k - 1 \in 0 .. E - 1
  <2>1. E \in Nat /\ a.edges \in [0 .. E - 1 -> CsrData]
    BY <1>4
  <2> QED
    BY <2>1, ValuesOf
<1> HIDE DEF all
<1>6. \A k \in DOMAIN all : all[k] \in CsrData /\ Inside(a, all[k]) /\ all[k] \in Range(a.edges)
  <2> SUFFICES ASSUME NEW k \in 1 .. E
               PROVE  all[k] \in CsrData /\ Inside(a, all[k]) /\ all[k] \in Range(a.edges)
    BY <1>5
  <2>1. all[k] = a.edges[k - 1] /\ k - 1 \in DOMAIN a.edges
    BY <1>4, <1>5
  <2> QED
    BY <1>4, <2>1 DEF from_bytes, Range
<1>7. NodesOf(b) = g.nodes
  BY <1>1, <1>2 DEF NodesOf
<1>8. ASSUME NEW x \in NodeNames(g), NEW end \in Ends
      PROVE  /\ Neighbors(b, x, end) \in Seq(NamedEdges)
             /\ \A e \in NamedEdges :
                  Occurs(Neighbors(b, x, end), {e}) = IF e[end] = x THEN Occurs(g.edges, {e}) ELSE 0
  <2> DEFINE name_index == CHOOSE i \in DOMAIN a.nodes : a.nodes[i].name = x
             S    == {e \in Range(a.edges) : e[Field(end)] = name_index}
             kept == Pick(all, S)
             list == [k \in DOMAIN kept |-> Named(a, kept[k])]
  <2>1. PICK i \in 0 .. n - 1 : a.nodes[i].name = x
    BY <1>3
  <2>2. name_index = i
    <3>1. \A j \in DOMAIN a.nodes : a.nodes[j].name = x => j = i
      BY <1>4, <2>1 DEF NamesDistinct
    <3>2. i \in DOMAIN a.nodes
      BY <1>4
    <3> QED
      BY <2>1, <3>1, <3>2
  <2>3. Neighbors(b, x, end) = list
    <3>1. Neighbors(b, x, end) = view_neighbors(a, x, Field(end))
      BY <1>2 DEF Neighbors, Field
    <3>2. \E j \in DOMAIN a.nodes : a.nodes[j].name = x
      BY <1>4, <2>1
    <3> QED
      BY <3>1, <3>2 DEF view_neighbors, all
  <2>4. kept \in Seq(CsrData) /\ \A d : d \in Range(kept) => d \in Range(all)
    <3> HIDE DEF S
    <3> QED
      BY <1>5, PickFacts
  <2> HIDE DEF kept
  <2>5. DOMAIN kept = 1 .. Len(kept) /\ Len(kept) \in Nat
        /\ \A k \in 1 .. Len(kept) : kept[k] \in CsrData /\ Inside(a, kept[k])
    <3>1. DOMAIN kept = 1 .. Len(kept) /\ Len(kept) \in Nat
          /\ \A k \in 1 .. Len(kept) : kept[k] \in CsrData
      BY <2>4, SeqElements
    <3>2. ASSUME NEW k \in 1 .. Len(kept) PROVE Inside(a, kept[k])
      <4>1. kept[k] \in Range(all)
        BY <2>4, <3>1 DEF Range
      <4> QED
        BY <1>6, <4>1 DEF Range
    <3> QED
      BY <3>1, <3>2
  <2>6. \A d \in CsrData : Inside(a, d) => Named(a, d) \in NamedEdges
    <3> SUFFICES ASSUME NEW d \in CsrData, Inside(a, d) PROVE Named(a, d) \in NamedEdges
      OBVIOUS
    <3>1. a.nodes[d.from_idx] \in NodeData /\ a.nodes[d.to_idx] \in NodeData /\ d.kind \in Kinds
      BY <1>4 DEF Inside, CsrData
    <3>2. a.nodes[d.from_idx].name \in Names /\ a.nodes[d.to_idx].name \in Names
      BY <3>1 DEF NodeData
    <3> QED
      BY <3>1, <3>2 DEF Named, NamedEdges
  <2>7. \A k \in 1 .. Len(kept) : list[k] = Named(a, kept[k]) /\ list[k] \in NamedEdges
    BY <2>5, <2>6
  <2>8. list = [k \in 1 .. Len(kept) |-> list[k]] /\ DOMAIN list = DOMAIN kept
    BY <2>5
  <2> HIDE DEF list, name_index
  <2>9. list \in Seq(NamedEdges)
    BY <2>5, <2>7, <2>8, SeqMade
  <2>10. ASSUME NEW e \in NamedEdges
         PROVE  Occurs(list, {e}) = IF e[end] = x THEN Occurs(g.edges, {e}) ELSE 0
    <3> DEFINE T == Denoted(a, e)
    <3>1. Occurs(list, {e}) = Occurs(kept, T)
      <4>1. \A k \in DOMAIN kept : list[k] \in {e} <=> kept[k] \in T
        BY <2>5, <2>7 DEF Denoted
      <4>2. DOMAIN list = DOMAIN kept
        BY <2>8
      <4> HIDE DEF T
      <4> QED
        BY <4>1, <4>2, OccursImage
    <3>2. Occurs(kept, T) = Occurs(all, S \cap T)
      <4> HIDE DEF S, T
      <4> QED
        BY <1>5, OccursPick DEF kept
    <3>3. ASSUME NEW d \in T
          PROVE  e[end] = a.nodes[d[Field(end)]].name /\ d[Field(end)] \in DOMAIN a.nodes
      <4>1. Named(a, d) = e /\ Inside(a, d)
        BY DEF Denoted
      <4>2. d[Field(end)] \in DOMAIN a.nodes
        BY <4>1 DEF Inside, Field, Ends
      <4> QED
        BY <4>1, <4>2, NamedEnd
    <3>4. CASE e[end] = x
      <4>1. ASSUME NEW k \in DOMAIN all PROVE all[k] \in S \cap T <=> all[k] \in T
        <5>1. ASSUME all[k] \in T PROVE all[k] \in S
          <6>1. /\ a.nodes[all[k][Field(end)]].name = x /\ all[k][Field(end)] \in DOMAIN a.nodes
            BY <3>3, <3>4, <5>1
          <6>2. all[k][Field(end)] = i
            BY <1>4, <2>1, <6>1 DEF NamesDistinct
          <6> QED
            BY <1>6, <2>2, <6>2
        <5> QED
          BY <5>1
      <4> HIDE DEF S, T
      <4>2. Occurs(all, S \cap T) = Occurs(all, T)
        BY <4>1, OccursSame
      <4>3. Occurs(g.edges, {e}) = Occurs(all, T)
        BY <1>1 DEF T
      <4> QED
        BY <3>1, <3>2, <3>4, <4>2, <4>3
    <3>5. CASE e[end] # x
      <4>1. ASSUME NEW k \in DOMAIN all, all[k] \in S, all[k] \in T PROVE FALSE
        <5>1. all[k][Field(end)] = i
          BY <2>2, <4>1
        <5>2. e[end] = a.nodes[i].name
          BY <3>3, <4>1, <5>1
        <5> QED
          BY <2>1, <3>5, <5>2
      <4> HIDE DEF S, T
      <4>2. \A k \in DOMAIN all : all[k] \notin S \cap T
        BY <4>1
      <4>3. Occurs(all, S \cap T) = 0
        BY <4>2, OccursNone
      <4> QED
        BY <3>1, <3>2, <3>5, <4>3
    <3> QED
      BY <3>4, <3>5
  <2> QED
    BY <2>3, <2>9, <2>10
<1>9. Fits(b, g)
  <2>1. g.nodes \in Seq(NodeData) /\ Distinct(g.nodes)
    BY <1>1 DEF GraphOK
  <2> QED
    BY <1>1, <1>7, <1>8, <2>1 DEF Fits
<1> QED
  BY <1>9 DEF b, g

(* How many places of an array stand for an edge.                          *)
PlacesOf(a, E, e) == {p \in 0 .. E - 1 : Named(a, a.edges[p]) = e}

(* An edge has as many places as entries that stand for it.                *)
LEMMA PlacesCounted ==
  ASSUME NEW a, NEW n, NEW E, Readable(a, n, E), NEW e
  PROVE  /\ IsFiniteSet(PlacesOf(a, E, e))
         /\ Occurs(Values(a.edges), Denoted(a, e)) = Cardinality(PlacesOf(a, E, e))
<1> DEFINE all == Values(a.edges)
           P == PlacesOf(a, E, e)
           Q == Places(all, Denoted(a, e))
           f == [k \in Q |-> k - 1]
<1>1. /\ n \in Nat /\ a.nodes \in [0 .. n - 1 -> NodeData]
      /\ E \in Nat /\ a.edges \in [0 .. E - 1 -> CsrData]
      /\ \A k \in 0 .. E - 1 : a.edges[k].from_idx \in 0 .. n - 1 /\ a.edges[k].to_idx \in 0 .. n - 1
  BY DEF Readable, ArraysOf
<1>2. /\ all \in Seq(CsrData) /\ DOMAIN all = 1 .. E
      /\ \A k \in 1 .. E : all[k] = a.edges[k - 1] /\ k - 1 \in 0 .. E - 1
  <2>1. E \in Nat /\ a.edges \in [0 .. E - 1 -> CsrData]
    BY <1>1
  <2> QED
    BY <2>1, ValuesOf
<1> HIDE DEF all
<1>3. \A p \in 0 .. E - 1 : a.edges[p] \in CsrData /\ Inside(a, a.edges[p])
  BY <1>1 DEF Inside
<1>4. \A p : p \in P <=> p \in 0 .. E - 1 /\ Named(a, a.edges[p]) = e
  BY DEF PlacesOf
<1>5. \A k : k \in Q <=> k \in 1 .. E /\ Named(a, a.edges[k - 1]) = e
  <2>1. \A k \in 1 .. E : all[k] \in Denoted(a, e) <=> Named(a, a.edges[k - 1]) = e
    BY <1>2, <1>3 DEF Denoted
  <2> QED
    BY <1>2, <2>1 DEF Places
<1>6. IsFiniteSet(Q)
  BY <1>2, OccursType
<1> HIDE DEF P, Q
<1>7. f \in [Q -> P]
  <2>1. \A k \in Q : k - 1 \in P
    BY <1>2, <1>4, <1>5
  <2> QED
    BY <2>1
<1>8. \A k, l \in Q : f[k] = f[l] => k = l
  BY <1>1, <1>5
<1>9. \A p \in P : \E k \in Q : f[k] = p
  <2> SUFFICES ASSUME NEW p \in P PROVE \E k \in Q : f[k] = p
    OBVIOUS
  <2>1. p + 1 \in 1 .. E /\ (p + 1) - 1 = p
    BY <1>1, <1>4
  <2>2. p + 1 \in Q
    BY <1>4, <1>5, <2>1
  <2> QED
    BY <2>1, <2>2
<1> HIDE DEF f
<1>10. IsFiniteSet(P) /\ Cardinality(P) = Cardinality(Q)
  BY <1>6, <1>7, <1>8, <1>9, SameSize
<1> QED
  BY <1>10 DEF Occurs, P, Q, all

(* A listing of slots, each the entry of one place.                        *)
IsListing(list, a, slots, place) ==
  list = [k \in 1 .. Cardinality(slots) |-> Named(a, a.edges[place[InOrder(slots, <)[k]]])]

(* The places of an edge that slots lead to.                               *)
PlacesLed(a, E, e, slots, place) == {p \in PlacesOf(a, E, e) : \E s \in slots : place[s] = p}

(* No two slots lead to the same place.                                    *)
OneToOne(place, slots, E) ==
  /\ slots \subseteq 0 .. E - 1 /\ place \in [slots -> 0 .. E - 1]
  /\ \A s, t \in slots : place[s] = place[t] => s = t

(* An edge is listed as often as slots lead to a place of it.              *)
LEMMA ListingCounts ==
  ASSUME NEW a, NEW n, NEW E, Readable(a, n, E),
         NEW slots, NEW place, OneToOne(place, slots, E),
         NEW list, IsListing(list, a, slots, place), NEW e
  PROVE  Occurs(list, {e}) = Cardinality(PlacesLed(a, E, e, slots, place))
<1> DEFINE known == InOrder(slots, <)
           C == Cardinality(slots)
           P == PlacesLed(a, E, e, slots, place)
           Q == Places(list, {e})
           f == [k \in Q |-> place[known[k]]]
<1>0. /\ slots \subseteq 0 .. E - 1 /\ place \in [slots -> 0 .. E - 1]
      /\ \A s, t \in slots : place[s] = place[t] => s = t
  BY DEF OneToOne
<1>1. E \in Nat
  BY DEF Readable, ArraysOf
<1>2. IsFiniteSet(slots) /\ slots \subseteq Nat
  <2>1. IsFiniteSet(0 .. E - 1)
    BY <1>1, Indexes
  <2>2. IsFiniteSet(slots)
    BY <1>0, <2>1, FS_Subset
  <2>3. slots \subseteq Nat
    BY <1>0, <1>1
  <2> QED
    BY <2>2, <2>3
<1>3. /\ DOMAIN known = 1 .. C /\ C \in Nat /\ Range(known) = slots
      /\ \A k, l \in DOMAIN known : known[k] = known[l] => k = l
  <2>1. StrictOrder(LessThan, slots) /\ Lists(known, slots, LessThan)
    BY <1>2, NaturalsInOrder
  <2> HIDE DEF known
  <2> QED
    BY <1>2, <2>1, ListingFacts
<1>4. /\ DOMAIN list = 1 .. C
      /\ \A k \in 1 .. C : list[k] = Named(a, a.edges[place[known[k]]])
  BY DEF IsListing
<1> HIDE DEF known, C
<1>5. \A k \in 1 .. C : known[k] \in slots
  BY <1>3 DEF Range
<1>6. \A s \in slots : \E k \in 1 .. C : known[k] = s
  BY <1>3 DEF Range
<1>7. \A k : k \in Q <=> k \in 1 .. C /\ Named(a, a.edges[place[known[k]]]) = e
  BY <1>4 DEF Places
<1>8. \A p : p \in P <=> /\ p \in 0 .. E - 1 /\ Named(a, a.edges[p]) = e
                         /\ \E s \in slots : place[s] = p
  BY DEF PlacesLed, PlacesOf
<1>9. IsFiniteSet(Q)
  <2>1. \A m \in Nat : IsFiniteSet(1 .. m)
    BY FS_Interval
  <2>2. IsFiniteSet(1 .. C) /\ Q \subseteq 1 .. C
    BY <1>3, <1>7, <2>1
  <2> QED
    BY <2>2, FS_Subset
<1> HIDE DEF P, Q
<1>10. f \in [Q -> P]
  <2>1. \A k \in Q : place[known[k]] \in P
    BY <1>0, <1>5, <1>7, <1>8
  <2> QED
    BY <2>1
<1>11. ASSUME NEW k \in Q, NEW l \in Q, f[k] = f[l] PROVE k = l
  <2>1. k \in 1 .. C /\ l \in 1 .. C
    BY <1>7
  <2>2. known[k] \in slots /\ known[l] \in slots /\ place[known[k]] = place[known[l]]
    BY <1>5, <1>11, <2>1
  <2>3. known[k] = known[l]
    BY <1>0, <2>2
  <2> QED
    BY <1>3, <2>1, <2>3
<1>12. ASSUME NEW p \in P PROVE \E k \in Q : f[k] = p
  <2>1. PICK s \in slots : place[s] = p
    BY <1>8
  <2>2. PICK k \in 1 .. C : known[k] = s
    BY <1>6
  <2>3. k \in Q
    BY <1>7, <1>8, <2>1, <2>2
  <2> QED
    BY <2>1, <2>2, <2>3
<1>13. Cardinality(P) = Cardinality(Q)
  <2>1. /\ \A k, l \in Q : f[k] = f[l] => k = l
        /\ \A p \in P : \E k \in Q : f[k] = p
    BY <1>11, <1>12
  <2> HIDE DEF f
  <2> QED
    BY <1>9, <1>10, <2>1, SameSize, Zenon
<1> QED
  BY <1>13 DEF Occurs, P, Q

(* The edges that end at i are those the slots lead to.                    *)
Leads(a, E, end, i, slots, place) ==
  /\ slots \subseteq 0 .. E - 1 /\ place \in [slots -> 0 .. E - 1]
  /\ \A s, t \in slots : place[s] = place[t] => s = t
  /\ \A p \in 0 .. E - 1 : (\E s \in slots : place[s] = p) <=> a.edges[p][Field(end)] = i

(* The listing by name of a snapshot that can be read.                     *)
LEMMA CsrListing ==
  ASSUME NEW a, NEW n, NEW E, Readable(a, n, E), NEW x \in Names,
         NEW i \in 0 .. n - 1, a.nodes[i].name = x, NEW end \in Ends
  PROVE  \E slots, place : /\ Leads(a, E, end, i, slots, place)
                           /\ IsListing(csr_neighbors(a, x, end), a, slots, place)
<1>1. /\ n \in Nat /\ a.nodes \in [0 .. n - 1 -> NodeData]
      /\ E \in Nat /\ a.edges \in [0 .. E - 1 -> CsrData] /\ NamesDistinct(a)
      /\ \A k \in 0 .. E - 1 : a.edges[k].from_idx \in 0 .. n - 1 /\ a.edges[k].to_idx \in 0 .. n - 1
      /\ a.in_mirror \in [0 .. E - 1 -> 0 .. E - 1]
      /\ \A k, l \in 0 .. E - 1 : a.in_mirror[k] = a.in_mirror[l] => k = l
      /\ \A k \in 0 .. E - 1 : \E s \in 0 .. E - 1 : a.in_mirror[s] = k
  BY DEF Readable, ArraysOf
<1>2. DOMAIN a.nodes = 0 .. n - 1
  BY <1>1
<1>3. idx_of(a, x) = i /\ i # NotFound
  <2>1. Finds(a, x)
    BY DEF Readable
  <2>2. i \in {j \in DOMAIN a.nodes : a.nodes[j].name = x}
    BY <1>2
  <2>3. {j \in DOMAIN a.nodes : a.nodes[j].name = x} = {idx_of(a, x)}
    BY <2>1, <2>2 DEF Finds
  <2>4. i # NotFound
    BY DEF NotFound
  <2> QED
    BY <2>2, <2>3, <2>4
<1>4. /\ Slots(a.node_offsets, Size(a.edges), i) = {k \in 0 .. E - 1 : a.edges[k].from_idx = i}
      /\ Slots(a.in_offsets, Size(a.in_mirror), i)
            = {k \in 0 .. E - 1 : a.edges[a.in_mirror[k]].to_idx = i}
  BY DEF Readable
<1> DEFINE list == csr_neighbors(a, x, end)
<1>5. CASE end = "from"
  <2> DEFINE slots == {k \in 0 .. E - 1 : a.edges[k].from_idx = i}
             place == [s \in slots |-> s]
             far(s) == a.edges[s].to_idx
             known == InOrder({s \in slots : far(s) \in DOMAIN a.nodes}, <)
             Listed(s) == [from |-> x, to |-> a.nodes[far(s)].name, kind |-> a.edges[s].kind]
  <2>1. list = [k \in DOMAIN known |-> Listed(known[k])]
    BY <1>3, <1>4, <1>5 DEF csr_neighbors
  <2> HIDE DEF list
  <2>2. {s \in slots : far(s) \in DOMAIN a.nodes} = slots
    BY <1>1, <1>2
  <2>3. known = InOrder(slots, <)
    BY <2>2
  <2>4. \A s \in slots : place[s] = s /\ Listed(s) = Named(a, a.edges[place[s]])
    BY DEF Named
  <2>5. Leads(a, E, end, i, slots, place)
    <3>1. slots \subseteq 0 .. E - 1 /\ place \in [slots -> 0 .. E - 1]
      OBVIOUS
    <3>2. \A s, t \in slots : place[s] = place[t] => s = t
      OBVIOUS
    <3>3. ASSUME NEW p \in 0 .. E - 1
          PROVE  (\E s \in slots : place[s] = p) <=> a.edges[p][Field(end)] = i
      <4>1. a.edges[p][Field(end)] = a.edges[p].from_idx
        BY <1>5 DEF Field
      <4> QED
        BY <4>1
    <3> HIDE DEF slots, place
    <3> QED
      BY <3>1, <3>2, <3>3 DEF Leads
  <2>6. IsListing(list, a, slots, place)
    <3>1. slots \subseteq Nat /\ IsFiniteSet(slots)
      <4>1. IsFiniteSet(0 .. E - 1)
        BY <1>1, Indexes
      <4>2. slots \in SUBSET (0 .. E - 1)
        OBVIOUS
      <4> HIDE DEF slots
      <4>3. IsFiniteSet(slots)
        BY <4>1, <4>2, FS_Subset
      <4>4. E \in Nat
        BY <1>1
      <4>5. slots \subseteq Nat
        BY <4>2, <4>4
      <4> QED
        BY <4>3, <4>5
    <3> HIDE DEF slots, place, far, known, Listed
    <3>2. StrictOrder(LessThan, slots) /\ Lists(known, slots, LessThan)
      BY <2>3, <3>1, NaturalsInOrder
    <3>3. DOMAIN known = 1 .. Cardinality(slots) /\ Range(known) = slots
      BY <3>1, <3>2, ListingFacts
    <3>4. \A k \in 1 .. Cardinality(slots) : Listed(known[k]) = Named(a, a.edges[place[known[k]]])
      BY <2>4, <3>3 DEF Range
    <3>5. list = [k \in 1 .. Cardinality(slots) |-> Named(a, a.edges[place[known[k]]])]
      BY <2>1, <3>3, <3>4
    <3> QED
      BY <2>3, <3>5 DEF IsListing
  <2> HIDE DEF slots, place
  <2> QED
    BY <2>5, <2>6 DEF list
<1>6. CASE end # "from"
  <2> DEFINE slots == {k \in 0 .. E - 1 : a.edges[a.in_mirror[k]].to_idx = i}
             place == [s \in slots |-> a.in_mirror[s]]
             far(s) == a.edges[a.in_mirror[s]].from_idx
             known == InOrder({s \in slots : far(s) \in DOMAIN a.nodes}, <)
             Listed(s) == [from |-> a.nodes[far(s)].name, to |-> x,
                           kind |-> a.edges[a.in_mirror[s]].kind]
  <2>1. list = [k \in DOMAIN known |-> Listed(known[k])]
    BY <1>3, <1>4, <1>6 DEF csr_neighbors
  <2> HIDE DEF list
  <2>2. {s \in slots : far(s) \in DOMAIN a.nodes} = slots
    <3>1. ASSUME NEW s \in slots PROVE far(s) \in DOMAIN a.nodes
      <4>1. s \in 0 .. E - 1
        OBVIOUS
      <4>2. a.in_mirror[s] \in 0 .. E - 1
        BY <1>1, <4>1
      <4> QED
        BY <1>1, <1>2, <4>2
    <3> HIDE DEF slots, far
    <3> QED
      BY <3>1
  <2>3. known = InOrder(slots, <)
    BY <2>2
  <2>4. \A s \in slots : place[s] = a.in_mirror[s] /\ Listed(s) = Named(a, a.edges[place[s]])
    BY DEF Named
  <2>5. Leads(a, E, end, i, slots, place)
    <3>1. slots \subseteq 0 .. E - 1 /\ place \in [slots -> 0 .. E - 1]
      BY <1>1
    <3>2. \A s, t \in slots : place[s] = place[t] => s = t
      BY <1>1
    <3>3. ASSUME NEW p \in 0 .. E - 1
          PROVE  (\E s \in slots : place[s] = p) <=> a.edges[p][Field(end)] = i
      <4>1. a.edges[p][Field(end)] = a.edges[p].to_idx
        BY <1>6 DEF Field
      <4>2. PICK s \in 0 .. E - 1 : a.in_mirror[s] = p
        BY <1>1
      <4> QED
        BY <4>1, <4>2
    <3> HIDE DEF slots, place
    <3> QED
      BY <3>1, <3>2, <3>3 DEF Leads
  <2>6. IsListing(list, a, slots, place)
    <3>1. slots \subseteq Nat /\ IsFiniteSet(slots)
      <4>1. IsFiniteSet(0 .. E - 1)
        BY <1>1, Indexes
      <4>2. slots \in SUBSET (0 .. E - 1)
        OBVIOUS
      <4> HIDE DEF slots
      <4>3. IsFiniteSet(slots)
        BY <4>1, <4>2, FS_Subset
      <4>4. E \in Nat
        BY <1>1
      <4>5. slots \subseteq Nat
        BY <4>2, <4>4
      <4> QED
        BY <4>3, <4>5
    <3> HIDE DEF slots, place, far, known, Listed
    <3>2. StrictOrder(LessThan, slots) /\ Lists(known, slots, LessThan)
      BY <2>3, <3>1, NaturalsInOrder
    <3>3. DOMAIN known = 1 .. Cardinality(slots) /\ Range(known) = slots
      BY <3>1, <3>2, ListingFacts
    <3>4. \A k \in 1 .. Cardinality(slots) : Listed(known[k]) = Named(a, a.edges[place[known[k]]])
      BY <2>4, <3>3 DEF Range
    <3>5. list = [k \in 1 .. Cardinality(slots) |-> Named(a, a.edges[place[known[k]]])]
      BY <2>1, <3>3, <3>4
    <3> QED
      BY <2>3, <3>5 DEF IsListing
  <2> HIDE DEF slots, place
  <2> QED
    BY <2>5, <2>6 DEF list
<1> QED
  BY <1>5, <1>6

(* The archived view of a snapshot that can be read.                       *)
LEMMA ArchivedFits ==
  ASSUME NEW a, NEW n, NEW E, Readable(a, n, E)
  PROVE  Fits(Mapped(a), rebuild_from_serialized(a))
<1> DEFINE b == Mapped(a)
           g == rebuild_from_serialized(a)
           all == Values(a.edges)
<1>0. ArraysOf(a, n, E) /\ NamesDistinct(a)
  BY DEF Readable
<1>1. /\ GraphOK(g) /\ g.nodes = Values(a.nodes)
      /\ \A e \in NamedEdges : Occurs(g.edges, {e}) = Occurs(all, Denoted(a, e))
  BY <1>0, RebuildFacts
<1>2. b.is = "Archived" /\ b.file = a
  BY DEF Mapped
<1>3. \A x \in NodeNames(g) : x \in Names /\ \E i \in 0 .. n - 1 : a.nodes[i].name = x
  BY <1>0, ArchiveNames
<1> HIDE DEF b, g
<1>4. /\ n \in Nat /\ a.nodes \in [0 .. n - 1 -> NodeData]
      /\ E \in Nat /\ a.edges \in [0 .. E - 1 -> CsrData]
      /\ \A k \in 0 .. E - 1 : a.edges[k].from_idx \in 0 .. n - 1 /\ a.edges[k].to_idx \in 0 .. n - 1
  BY DEF Readable, ArraysOf
<1>5. \A p \in 0 .. E - 1 : Named(a, a.edges[p]) \in NamedEdges
  <2> SUFFICES ASSUME NEW p \in 0 .. E - 1 PROVE Named(a, a.edges[p]) \in NamedEdges
    OBVIOUS
  <2> DEFINE d == a.edges[p]
  <2>1. a.nodes[d.from_idx] \in NodeData /\ a.nodes[d.to_idx] \in NodeData /\ d \in CsrData
    BY <1>4
  <2> HIDE DEF d
  <2>2. a.nodes[d.from_idx].name \in Names /\ a.nodes[d.to_idx].name \in Names /\ d.kind \in Kinds
    BY <2>1 DEF NodeData, CsrData
  <2>3. Named(a, d) \in NamedEdges
    BY <2>2 DEF Named, NamedEdges
  <2> QED
    BY <2>3 DEF d
<1>6. NodesOf(b) = g.nodes
  BY <1>1, <1>2 DEF NodesOf
<1>7. ASSUME NEW x \in NodeNames(g), NEW end \in Ends
      PROVE  /\ Neighbors(b, x, end) \in Seq(NamedEdges)
             /\ \A e \in NamedEdges :
                  Occurs(Neighbors(b, x, end), {e}) = IF e[end] = x THEN Occurs(g.edges, {e}) ELSE 0
  <2> DEFINE list == csr_neighbors(a, x, end)
  <2>1. PICK i \in 0 .. n - 1 : a.nodes[i].name = x
    BY <1>3
  <2>2. x \in Names
    BY <1>3
  <2>3. PICK slots, place : /\ Leads(a, E, end, i, slots, place)
                            /\ IsListing(list, a, slots, place)
    BY <2>1, <2>2, CsrListing
  <2>4. Neighbors(b, x, end) = list
    BY <1>2 DEF Neighbors
  <2> HIDE DEF list
  <2>5. /\ slots \subseteq 0 .. E - 1 /\ place \in [slots -> 0 .. E - 1]
        /\ \A s, t \in slots : place[s] = place[t] => s = t
        /\ \A p \in 0 .. E - 1 : (\E s \in slots : place[s] = p) <=> a.edges[p][Field(end)] = i
    BY <2>3 DEF Leads
  <2>6. list \in Seq(NamedEdges)
    <3> DEFINE C == Cardinality(slots)
               known == InOrder(slots, <)
    <3>1. slots \subseteq Nat /\ IsFiniteSet(slots)
      <4>1. IsFiniteSet(0 .. E - 1)
        BY <1>4, Indexes
      <4>2. slots \in SUBSET (0 .. E - 1)
        BY <2>5
      <4> QED
        BY <1>4, <4>1, <4>2, FS_Subset
    <3>2. StrictOrder(LessThan, slots) /\ Lists(known, slots, LessThan)
      BY <3>1, NaturalsInOrder
    <3>3. DOMAIN known = 1 .. C /\ Range(known) = slots /\ C \in Nat
      <4> HIDE DEF known
      <4> QED
        BY <3>1, <3>2, ListingFacts
    <3>4. list = [k \in 1 .. C |-> Named(a, a.edges[place[known[k]]])]
      BY <2>3 DEF IsListing
    <3> HIDE DEF known, C
    <3>5. ASSUME NEW k \in 1 .. C PROVE list[k] \in NamedEdges
      <4>1. known[k] \in slots
        BY <3>3 DEF Range
      <4>2. place[known[k]] \in 0 .. E - 1
        BY <2>5, <4>1
      <4> QED
        BY <1>5, <3>4, <4>2
    <3>6. list = [k \in 1 .. C |-> list[k]]
      BY <3>4
    <3> QED
      BY <3>3, <3>5, <3>6, SeqMade
  <2>7. ASSUME NEW e \in NamedEdges
        PROVE  Occurs(list, {e}) = IF e[end] = x THEN Occurs(g.edges, {e}) ELSE 0
    <3> DEFINE P == PlacesOf(a, E, e)
               Q == PlacesLed(a, E, e, slots, place)
    <3>1. Occurs(list, {e}) = Cardinality(Q)
      <4>1. OneToOne(place, slots, E)
        BY <2>5 DEF OneToOne
      <4>2. IsListing(list, a, slots, place)
        BY <2>3
      <4> HIDE DEF P
      <4> QED
        BY <4>1, <4>2, ListingCounts
    <3>2. Occurs(g.edges, {e}) = Cardinality(P)
      <4>1. Occurs(all, Denoted(a, e)) = Cardinality(P)
        BY PlacesCounted
      <4> QED
        BY <1>1, <4>1
    <3>3. ASSUME NEW p \in P
          PROVE  p \in Q <=> e[end] = x
      <4>1. p \in 0 .. E - 1 /\ Named(a, a.edges[p]) = e
        BY DEF PlacesOf
      <4>2. p \in Q <=> a.edges[p][Field(end)] = i
        BY <2>5, <4>1 DEF PlacesLed
      <4>3. e[end] = a.nodes[a.edges[p][Field(end)]].name
        BY <4>1, NamedEnd
      <4>4. a.edges[p][Field(end)] \in 0 .. n - 1
        BY <1>4, <4>1 DEF Field
      <4>5. \A j \in 0 .. n - 1 : a.nodes[j].name = x => j = i
        BY <1>0, <1>4, <2>1 DEF NamesDistinct
      <4> QED
        BY <2>1, <4>2, <4>3, <4>4, <4>5
    <3>4. CASE e[end] = x
      <4>1. Q = P
        BY <3>3, <3>4 DEF PlacesLed
      <4> QED
        BY <3>1, <3>2, <3>4, <4>1
    <3>5. CASE e[end] # x
      <4>1. Q = {}
        BY <3>3, <3>5 DEF PlacesLed
      <4>2. Cardinality(Q) = 0
        BY <4>1, FS_EmptySet
      <4> QED
        BY <3>1, <3>5, <4>2
    <3> QED
      BY <3>4, <3>5
  <2> QED
    BY <2>4, <2>6, <2>7
<1>8. Fits(b, g)
  <2>1. g.nodes \in Seq(NodeData) /\ Distinct(g.nodes)
    BY <1>1 DEF GraphOK
  <2> QED
    BY <1>1, <1>6, <1>7, <2>1 DEF Fits
<1> QED
  BY <1>8 DEF b, g

(***************************************************************************)
(* One name's listing after the other.                                     *)
(***************************************************************************)
(* Of these lists only the p-th holds anything of T, and it holds c.       *)
OnlyIn(ss, T, p, c) ==
  \A i \in 1 .. Len(ss) : Occurs(ss[i], T) = IF i = p THEN c ELSE 0

(* What only one of the lists holds, all together hold as often.           *)
LEMMA FlattenOccurs ==
  ASSUME NEW A, NEW ss \in Seq(Seq(A)), NEW T, NEW p, NEW c \in Nat, OnlyIn(ss, T, p, c)
  PROVE  Occurs(FlattenSeq(ss), T) = IF p \in 1 .. Len(ss) THEN c ELSE 0
<1> DEFINE n == Len(ss)
<1>1. n \in Nat /\ \A i \in 1 .. n : ss[i] \in Seq(A)
  OBVIOUS
<1>2. PICK F \in [0 .. n -> Seq(A)] :
        /\ F[0] = << >> /\ FlattenSeq(ss) = F[n]
        /\ \A m \in 1 .. n : F[m] = F[m - 1] \o ss[m]
  BY FlattenSteps
<1>3. \A i \in 1 .. n : Occurs(ss[i], T) = IF i = p THEN c ELSE 0
  BY DEF OnlyIn
<1> HIDE DEF n
<1> DEFINE D == {m \in Nat : m <= n => Occurs(F[m], T) = IF p \in 1 .. m THEN c ELSE 0}
<1>4. 0 \in D
  <2>1. Occurs(<< >>, T) = 0
    BY OccursUnit
  <2>2. p \notin 1 .. 0
    OBVIOUS
  <2> QED
    BY <1>2, <2>1, <2>2
<1>5. ASSUME NEW m \in Nat, m \in D PROVE m + 1 \in D
  <2> SUFFICES ASSUME m + 1 <= n
               PROVE  Occurs(F[m + 1], T) = IF p \in 1 .. m + 1 THEN c ELSE 0
    OBVIOUS
  <2>1. Occurs(F[m], T) = IF p \in 1 .. m THEN c ELSE 0
    BY <1>1, <1>5
  <2>2. m + 1 \in 1 .. n /\ (m + 1) - 1 = m /\ m \in 0 .. n
    BY <1>1
  <2>3. F[m + 1] = F[m] \o ss[m + 1]
    BY <1>2, <2>2
  <2>4. F[m] \in Seq(A) /\ ss[m + 1] \in Seq(A)
    BY <1>1, <1>2, <2>2
  <2>5. Occurs(F[m + 1], T) = Occurs(F[m], T) + Occurs(ss[m + 1], T)
    BY <2>3, <2>4, OccursConcat
  <2>6. Occurs(ss[m + 1], T) = IF m + 1 = p THEN c ELSE 0
    BY <1>3, <2>2
  <2>7. p \in 1 .. m + 1 <=> p \in 1 .. m \/ p = m + 1
    OBVIOUS
  <2>8. m + 1 \notin 1 .. m
    OBVIOUS
  <2> HIDE DEF D
  <2> QED
    BY <2>1, <2>5, <2>6, <2>7, <2>8
<1>6. n \in D
  <2> HIDE DEF D
  <2>1. \A m \in Nat : m \in D => m + 1 \in D
    BY <1>5
  <2> QED
    BY <1>1, <1>4, <2>1, NatSetInduction
<1> QED
  BY <1>1, <1>2, <1>6 DEF n

(* All the listings of what is open hold the edges of its graph.           *)
LEMMA ListingsHold ==
  ASSUME NEW b, NEW g, Fits(b, g), NEW end \in Ends
  PROVE  /\ Listings(b, end) \in Seq(NamedEdges)
         /\ SameEdges(Listings(b, end), g.edges)
<1> DEFINE nodes == ByName(NodesOf(b))
           n     == Len(nodes)
           ss    == [i \in DOMAIN nodes |-> Neighbors(b, nodes[i].name, end)]
<1>1. /\ GraphOK(g) /\ NodesOf(b) \in Seq(NodeData) /\ Distinct(NodesOf(b))
      /\ Range(NodesOf(b)) = Range(g.nodes)
      /\ \A x \in NodeNames(g) :
           /\ Neighbors(b, x, end) \in Seq(NamedEdges)
           /\ \A e \in NamedEdges :
                Occurs(Neighbors(b, x, end), {e}) = IF e[end] = x THEN Occurs(g.edges, {e}) ELSE 0
  BY DEF Fits
<1>2. nodes \in Seq(NodeData) /\ Range(nodes) = Range(g.nodes) /\ Distinct(nodes)
  BY <1>1, ByNameFacts
<1>3. Listings(b, end) = FlattenSeq(ss)
  BY DEF Listings
<1> HIDE DEF nodes
<1>4. DOMAIN nodes = 1 .. n /\ n \in Nat
  BY <1>2
<1>5. \A i \in 1 .. n : nodes[i].name \in NodeNames(g)
  BY <1>2, <1>4 DEF NodeNames, Range
<1>6. \A x \in NodeNames(g) : \E i \in 1 .. n : nodes[i].name = x
  BY <1>2, <1>4 DEF NodeNames, Range
<1>7. \A i \in 1 .. n : ss[i] = Neighbors(b, nodes[i].name, end) /\ ss[i] \in Seq(NamedEdges)
  BY <1>1, <1>4, <1>5
<1>8. ss = [i \in 1 .. n |-> ss[i]]
  BY <1>4
<1> HIDE DEF ss, n
<1>9. ss \in Seq(Seq(NamedEdges)) /\ Len(ss) = n
  BY <1>4, <1>7, <1>8, SeqMade
<1>10. FlattenSeq(ss) \in Seq(NamedEdges)
  BY <1>9, FlattenSeqType
<1>11. ASSUME NEW e \in NamedEdges
       PROVE  Occurs(FlattenSeq(ss), {e}) = Occurs(g.edges, {e})
  <2> DEFINE c == Occurs(g.edges, {e})
             T == {e}
  <2>1. g.edges \in Seq(NamedEdges)
    BY <1>1 DEF GraphOK
  <2>2. c \in Nat
    BY <2>1, OccursType
  <2>3. \A i \in 1 .. n : Occurs(ss[i], T) = IF e[end] = nodes[i].name THEN c ELSE 0
    BY <1>1, <1>5, <1>7
  <2>4. CASE \E p \in 1 .. n : nodes[p].name = e[end]
    <3>1. PICK p \in 1 .. n : nodes[p].name = e[end]
      BY <2>4
    <3>2. \A i \in 1 .. n : nodes[i].name = e[end] <=> i = p
      BY <1>2, <3>1 DEF Distinct, n
    <3>3. \A i \in 1 .. n : Occurs(ss[i], T) = IF i = p THEN c ELSE 0
      BY <2>3, <3>2
    <3> HIDE DEF c, T
    <3>4. OnlyIn(ss, T, p, c)
      BY <1>9, <3>3 DEF OnlyIn
    <3>5. Occurs(FlattenSeq(ss), T) = IF p \in 1 .. Len(ss) THEN c ELSE 0
      BY <1>9, <2>2, <3>4, FlattenOccurs
    <3>6. Occurs(FlattenSeq(ss), T) = c
      BY <1>9, <3>1, <3>5
    <3> QED
      BY <3>6 DEF c, T
  <2>5. CASE ~ \E p \in 1 .. n : nodes[p].name = e[end]
    <3>1. e[end] \notin NodeNames(g)
      BY <1>6, <2>5
    <3>2. c = 0
      <4>1. SUFFICES ASSUME c # 0 PROVE FALSE
        OBVIOUS
      <4>2. PICK k \in 1 .. Len(g.edges) : g.edges[k] = e
        BY <2>1, <4>1, OccursSome
      <4>3. e.from \in NodeNames(g) /\ e.to \in NodeNames(g)
        BY <1>1, <4>2 DEF GraphOK
      <4> QED
        BY <3>1, <4>3 DEF Ends
    <3>3. \A i \in 1 .. n : Occurs(ss[i], T) = IF i = 0 THEN c ELSE 0
      BY <1>4, <2>3, <2>5, <3>2
    <3> HIDE DEF c, T
    <3>4. OnlyIn(ss, T, 0, c)
      BY <1>9, <3>3 DEF OnlyIn
    <3>5. Occurs(FlattenSeq(ss), T) = IF 0 \in 1 .. Len(ss) THEN c ELSE 0
      BY <1>9, <2>2, <3>4, FlattenOccurs
    <3>6. Occurs(FlattenSeq(ss), T) = c
      BY <3>2, <3>5
    <3> QED
      BY <3>6 DEF c, T
  <2> QED
    BY <2>4, <2>5
<1> QED
  BY <1>3, <1>10, <1>11 DEF SameEdges

(* What a compaction folds: the nodes and edges of what is open.           *)
LEMMA MaterializeFacts ==
  ASSUME NEW b, NEW g, Fits(b, g)
  PROVE  GraphOK(materialize(b)) /\ SameGraph(materialize(b), g)
<1> DEFINE m == materialize(b)
<1>1. /\ GraphOK(g) /\ NodesOf(b) \in Seq(NodeData) /\ Distinct(NodesOf(b))
      /\ Range(NodesOf(b)) = Range(g.nodes)
  BY DEF Fits
<1>2. /\ ByName(NodesOf(b)) \in Seq(NodeData) /\ Range(ByName(NodesOf(b))) = Range(g.nodes)
      /\ Distinct(ByName(NodesOf(b)))
  BY <1>1, ByNameFacts
<1>3. "from" \in Ends
  BY DEF Ends
<1>4. Listings(b, "from") \in Seq(NamedEdges) /\ SameEdges(Listings(b, "from"), g.edges)
  BY <1>3, ListingsHold
<1>5. m = [nodes |-> ByName(NodesOf(b)), edges |-> Listings(b, "from")]
  BY DEF materialize
<1> HIDE DEF m
<1>6. /\ m \in [nodes: Seq(NodeData), edges: Seq(NamedEdges)]
      /\ m.nodes = ByName(NodesOf(b)) /\ m.edges = Listings(b, "from")
  BY <1>2, <1>4, <1>5
<1>7. SameGraph(m, g)
  BY <1>2, <1>4, <1>6 DEF SameGraph
<1>8. NodeNames(m) = NodeNames(g)
  BY <1>7 DEF SameGraph, NodeNames
<1>9. ASSUME NEW k \in 1 .. Len(m.edges)
      PROVE  m.edges[k].from \in NodeNames(m) /\ m.edges[k].to \in NodeNames(m)
  <2> DEFINE e == m.edges[k]
  <2>1. m.edges \in Seq(NamedEdges) /\ e \in NamedEdges
    BY <1>6
  <2>2. g.edges \in Seq(NamedEdges)
    BY <1>1 DEF GraphOK
  <2>3. e \in NamedEdges /\ \E l \in 1 .. Len(m.edges) : m.edges[l] = e
    BY <2>1
  <2> HIDE DEF e
  <2>4. Occurs(m.edges, {e}) # 0
    BY <2>1, <2>3, OccursSome
  <2>5. Occurs(g.edges, {e}) # 0
    BY <1>7, <2>3, <2>4 DEF SameGraph, SameEdges
  <2>6. PICK l \in 1 .. Len(g.edges) : g.edges[l] = e
    BY <2>2, <2>5, OccursSome
  <2>7. e.from \in NodeNames(g) /\ e.to \in NodeNames(g)
    BY <1>1, <2>6 DEF GraphOK
  <2> QED
    BY <1>8, <2>7 DEF e
<1>10. GraphOK(m)
  BY <1>2, <1>6, <1>9 DEF GraphOK
<1> QED
  BY <1>7, <1>10 DEF m

(***************************************************************************)
(* The two indexes of a snapshot that can be read.                         *)
(***************************************************************************)
(* Each edge is listed once by its source and once by its target.          *)
LEMMA ListedOnce ==
  ASSUME NEW a, NEW n, NEW E, Readable(a, n, E), NEW i \in 0 .. n - 1, NEW k \in 0 .. E - 1
  PROVE  /\ Outgoing(a, i, k) = IF a.edges[k].from_idx = i THEN 1 ELSE 0
         /\ Incoming(a, i, k) = IF a.edges[k].to_idx = i THEN 1 ELSE 0
<1>1. /\ a.in_mirror \in [0 .. E - 1 -> 0 .. E - 1]
      /\ \A j, l \in 0 .. E - 1 : a.in_mirror[j] = a.in_mirror[l] => j = l
  BY DEF Readable
<1>2. PICK s \in 0 .. E - 1 : a.in_mirror[s] = k
  BY DEF Readable
<1>3. /\ Slots(a.node_offsets, Size(a.edges), i) = {j \in 0 .. E - 1 : a.edges[j].from_idx = i}
      /\ Slots(a.in_offsets, Size(a.in_mirror), i)
           = {j \in 0 .. E - 1 : a.edges[a.in_mirror[j]].to_idx = i}
  BY DEF Readable
<1>4. Outgoing(a, i, k) = IF a.edges[k].from_idx = i THEN 1 ELSE 0
  BY <1>3 DEF Outgoing
<1> DEFINE here == {j \in Slots(a.in_offsets, Size(a.in_mirror), i) : a.in_mirror[j] = k}
<1>5. \A j : j \in here <=> j = s /\ a.edges[k].to_idx = i
  BY <1>1, <1>2, <1>3
<1>6. Incoming(a, i, k) = Cardinality(here)
  BY DEF Incoming
<1> HIDE DEF here
<1>7. CASE a.edges[k].to_idx = i
  <2>1. here = {s}
    BY <1>5, <1>7
  <2>2. Cardinality(here) = 1
    BY <2>1, FS_Singleton
  <2> QED
    BY <1>4, <1>6, <1>7, <2>2
<1>8. CASE a.edges[k].to_idx # i
  <2>1. here = {}
    BY <1>5, <1>8
  <2>2. Cardinality(here) = 0
    BY <2>1, FS_EmptySet
  <2> QED
    BY <1>4, <1>6, <1>8, <2>2
<1> QED
  BY <1>7, <1>8

(***************************************************************************)
(* A snapshot is determined by the graph.                                  *)
(***************************************************************************)
(* Distinct nodes occur once each.                                         *)
LEMMA NodesOnce ==
  ASSUME NEW nodes \in Seq(NodeData), Distinct(nodes), NEW r \in Range(nodes)
  PROVE  Occurs(nodes, {r}) = 1
<1>1. DOMAIN nodes = 1 .. Len(nodes)
  OBVIOUS
<1>2. PICK i \in 1 .. Len(nodes) : nodes[i] = r
  BY <1>1 DEF Range
<1>3. Places(nodes, {r}) = {i}
  BY <1>1, <1>2 DEF Places, Distinct
<1> QED
  BY <1>3, FS_Singleton DEF Occurs

(* The nodes in name order are determined by the nodes.                    *)
LEMMA ByNameUnique ==
  ASSUME NEW s \in Seq(NodeData), Distinct(s), NEW t \in Seq(NodeData), Distinct(t),
         Range(s) = Range(t)
  PROVE  ByName(s) = ByName(t)
<1> DEFINE f == ByName(s)
           h == ByName(t)
           A == Range(s)
<1>1. /\ f \in Seq(NodeData) /\ Distinct(f) /\ Range(f) = A
      /\ \A i, j \in 1 .. Len(f) : i < j => ~ (f[j].name < f[i].name)
  BY ByNameFacts
<1>2. /\ h \in Seq(NodeData) /\ Distinct(h) /\ Range(h) = A
      /\ \A i, j \in 1 .. Len(h) : i < j => ~ (h[j].name < h[i].name)
  BY ByNameFacts
<1> HIDE DEF f, h
<1>3. \A r \in A : r \in NodeData /\ r.name \in Nat
  <2>1. \A k \in 1 .. Len(s) : s[k] \in NodeData
    OBVIOUS
  <2>2. \A r \in NodeData : r.name \in Nat
    BY BuilderAssumption DEF NodeData
  <2> QED
    BY <2>1, <2>2 DEF Range
<1>4. \A p, q \in NodeData : <<p, q>> \in NameOrder <=> p.name < q.name
  BY DEF NameOrder
<1>5. \A p, q \in A : p.name = q.name => p = q
  BY DEF Range, Distinct
<1>6. TotalOn(NameOrder, A)
  <2> SUFFICES ASSUME NEW p \in A, NEW q \in A
               PROVE  p = q \/ <<p, q>> \in NameOrder \/ <<q, p>> \in NameOrder
    BY DEF TotalOn
  <2>1. p.name = q.name \/ p.name < q.name \/ q.name < p.name
    BY <1>3
  <2> QED
    BY <1>3, <1>4, <1>5, <2>1
<1>7. InOrderBy(f, NameOrder) /\ InOrderBy(h, NameOrder)
  <2>1. \A k \in 1 .. Len(f) : f[k] \in NodeData
    BY <1>1
  <2>2. \A k \in 1 .. Len(h) : h[k] \in NodeData
    BY <1>2
  <2> QED
    BY <1>1, <1>2, <1>4, <2>1, <2>2 DEF InOrderBy
<1>8. f \in Seq(A) /\ h \in Seq(A)
  <2>1. DOMAIN f = 1 .. Len(f) /\ Len(f) \in Nat /\ f = [k \in 1 .. Len(f) |-> f[k]]
    BY <1>1
  <2>2. DOMAIN h = 1 .. Len(h) /\ Len(h) \in Nat /\ h = [k \in 1 .. Len(h) |-> h[k]]
    BY <1>2
  <2> HIDE DEF A
  <2>3. \A k \in 1 .. Len(f) : f[k] \in A
    BY <1>1, <2>1 DEF Range
  <2>4. \A k \in 1 .. Len(h) : h[k] \in A
    BY <1>2, <2>2 DEF Range
  <2> QED
    BY <2>1, <2>2, <2>3, <2>4, SeqMade
<1>9. \A r \in A : Occurs(f, {r}) = Occurs(h, {r})
  <2> SUFFICES ASSUME NEW r \in A PROVE Occurs(f, {r}) = Occurs(h, {r})
    OBVIOUS
  <2> HIDE DEF A
  <2>1. Occurs(f, {r}) = 1
    BY <1>1, NodesOnce
  <2>2. Occurs(h, {r}) = 1
    BY <1>2, NodesOnce
  <2> QED
    BY <2>1, <2>2
<1>10. f = h
  <2>1. SameCounts(f, h, A)
    BY <1>9 DEF SameCounts
  <2> HIDE DEF A
  <2> QED
    BY <1>6, <1>7, <1>8, <2>1, InOrderUnique
<1> QED
  BY <1>10 DEF f, h

(* Entries in the order of the file are never tied.                        *)
LEMMA CsrTotal == TotalOn(CsrOrder, CsrData)
<1> SUFFICES ASSUME NEW d \in CsrData, NEW f \in CsrData
             PROVE  d = f \/ <<d, f>> \in CsrOrder \/ <<f, d>> \in CsrOrder
  BY DEF TotalOn
<1>1. /\ d.from_idx \in Nat /\ d.to_idx \in Nat /\ d.kind \in Nat
      /\ f.from_idx \in Nat /\ f.to_idx \in Nat /\ f.kind \in Nat
  BY BuilderAssumption DEF CsrData
<1>2. d.from_idx = f.from_idx /\ d.to_idx = f.to_idx /\ d.kind = f.kind => d = f
  BY DEF CsrData
<1>3. (<<d, f>> \in CsrOrder <=> EdgeBefore(d, f)) /\ (<<f, d>> \in CsrOrder <=> EdgeBefore(f, d))
  BY DEF CsrOrder
<1> QED
  BY <1>1, <1>2, <1>3 DEF EdgeBefore

(* The edge an entry stands for.                                           *)
EdgeAt(d, nodes) ==
  [from |-> nodes[d.from_idx + 1].name, to |-> nodes[d.to_idx + 1].name, kind |-> d.kind]

EndsAt(d, nodes) == d.from_idx + 1 \in 1 .. Len(nodes) /\ d.to_idx + 1 \in 1 .. Len(nodes)

(* An entry occurs as often as the edge it stands for.                     *)
LEMMA EntryCounts ==
  ASSUME NEW g, GraphOK(g), NEW s, CsrEdges(s, g), NEW d \in CsrData
  PROVE  Occurs(s, {d}) = IF EndsAt(d, ByName(g.nodes))
                          THEN Occurs(g.edges, {EdgeAt(d, ByName(g.nodes))}) ELSE 0
<1> DEFINE nodes == ByName(g.nodes)
           e == EdgeAt(d, nodes)
<1>1. /\ s \in Seq(CsrData) /\ Len(s) = Len(g.edges)
      /\ \A k \in 1 .. Len(s) : Denotes(s[k], nodes, g.edges[k])
  BY DEF CsrEdges
<1>2. g.nodes \in Seq(NodeData) /\ Distinct(g.nodes) /\ g.edges \in Seq(NamedEdges)
  BY DEF GraphOK
<1>3. nodes \in Seq(NodeData) /\ Distinct(nodes)
  BY <1>2, ByNameFacts
<1> HIDE DEF nodes
<1>4. /\ DOMAIN s = 1 .. Len(s) /\ DOMAIN g.edges = 1 .. Len(s)
      /\ \A k \in 1 .. Len(s) : s[k] \in CsrData /\ g.edges[k] \in NamedEdges
  BY <1>1, <1>2
<1>5. ASSUME NEW k \in 1 .. Len(s), EndsAt(d, nodes)
      PROVE  s[k] = d <=> g.edges[k] = e
  <2> DEFINE c == s[k]
             x == g.edges[k]
  <2>1. c \in CsrData /\ x \in NamedEdges /\ Denotes(c, nodes, x)
    BY <1>1, <1>4
  <2> HIDE DEF c, x
  <2>2. /\ c.from_idx + 1 \in 1 .. Len(nodes) /\ nodes[c.from_idx + 1].name = x.from
        /\ c.to_idx + 1 \in 1 .. Len(nodes) /\ nodes[c.to_idx + 1].name = x.to
        /\ c.kind = x.kind
    BY <2>1 DEF Denotes
  <2>3. /\ c.from_idx \in Nat /\ c.to_idx \in Nat /\ d.from_idx \in Nat /\ d.to_idx \in Nat
        /\ c = [from_idx |-> c.from_idx, to_idx |-> c.to_idx, kind |-> c.kind]
        /\ d = [from_idx |-> d.from_idx, to_idx |-> d.to_idx, kind |-> d.kind]
    BY <2>1 DEF CsrData
  <2>4. e = x <=> /\ nodes[d.from_idx + 1].name = x.from /\ nodes[d.to_idx + 1].name = x.to
                  /\ d.kind = x.kind
    <3> DEFINE p == nodes[d.from_idx + 1].name
               q == nodes[d.to_idx + 1].name
    <3>1. e = [from |-> p, to |-> q, kind |-> d.kind]
      BY DEF EdgeAt
    <3> HIDE DEF p, q, e
    <3>2. [from |-> p, to |-> q, kind |-> d.kind] = x <=> p = x.from /\ q = x.to /\ d.kind = x.kind
      BY <2>1, NamedEdge
    <3>3. e = x <=> p = x.from /\ q = x.to /\ d.kind = x.kind
      BY <3>1, <3>2
    <3> QED
      BY <3>3 DEF p, q
  <2>5. d.from_idx + 1 \in 1 .. Len(nodes) /\ d.to_idx + 1 \in 1 .. Len(nodes)
    BY <1>5 DEF EndsAt
  <2>6. nodes[d.from_idx + 1].name = x.from <=> d.from_idx = c.from_idx
    <3>1. \A i, j \in 1 .. Len(nodes) : nodes[i].name = nodes[j].name => i = j
      BY <1>3 DEF Distinct
    <3>2. nodes[d.from_idx + 1].name = nodes[c.from_idx + 1].name => d.from_idx + 1 = c.from_idx + 1
      BY <2>2, <2>5, <3>1
    <3> QED
      BY <2>2, <2>3, <3>2
  <2>7. nodes[d.to_idx + 1].name = x.to <=> d.to_idx = c.to_idx
    <3>1. \A i, j \in 1 .. Len(nodes) : nodes[i].name = nodes[j].name => i = j
      BY <1>3 DEF Distinct
    <3>2. nodes[d.to_idx + 1].name = nodes[c.to_idx + 1].name => d.to_idx + 1 = c.to_idx + 1
      BY <2>2, <2>5, <3>1
    <3> QED
      BY <2>2, <2>3, <3>2
  <2> HIDE DEF e
  <2>8. c = d <=> c.from_idx = d.from_idx /\ c.to_idx = d.to_idx /\ c.kind = d.kind
    BY <2>3
  <2>9. c = d <=> x = e
    BY <2>2, <2>4, <2>6, <2>7, <2>8
  <2> QED
    BY <2>9 DEF c, x
<1>6. CASE EndsAt(d, nodes)
  <2>1. \A k \in 1 .. Len(s) : g.edges[k] = e <=> s[k] = d
    BY <1>5, <1>6
  <2> HIDE DEF e
  <2>2. Places(g.edges, {e}) = Places(s, {d})
    BY <1>4, <2>1 DEF Places
  <2>3. Occurs(g.edges, {e}) = Occurs(s, {d})
    BY <2>2 DEF Occurs
  <2> QED
    BY <1>6, <2>3 DEF nodes, e
<1>7. CASE ~ EndsAt(d, nodes)
  <2>1. \A k \in DOMAIN s : s[k] \notin {d}
    BY <1>1, <1>4, <1>7 DEF Denotes, EndsAt
  <2>2. Occurs(s, {d}) = 0
    BY <2>1, OccursNone
  <2> QED
    BY <1>7, <2>2 DEF nodes
<1> QED
  BY <1>6, <1>7

(* The same graph in any order leads to the same arrays.                   *)
LEMMA WriterDetermined ==
  ASSUME NEW g, GraphOK(g), NEW h, GraphOK(h), SameGraph(g, h)
  PROVE  to_rkyv_v2(g) = to_rkyv_v2(h)
<1>1. PICK s : /\ CsrEdges(s, g)
               /\ to_rkyv_v2(g) = SnapshotOf(ByName(g.nodes), Sorted(s, EdgeBefore))
  BY WriterFacts
<1>2. PICK t : /\ CsrEdges(t, h)
               /\ to_rkyv_v2(h) = SnapshotOf(ByName(h.nodes), Sorted(t, EdgeBefore))
  BY WriterFacts
<1>3. /\ g.nodes \in Seq(NodeData) /\ Distinct(g.nodes) /\ g.edges \in Seq(NamedEdges)
      /\ h.nodes \in Seq(NodeData) /\ Distinct(h.nodes) /\ h.edges \in Seq(NamedEdges)
  BY DEF GraphOK
<1>4. Range(g.nodes) = Range(h.nodes) /\ \A e \in NamedEdges : Occurs(g.edges, {e}) = Occurs(h.edges, {e})
  BY DEF SameGraph, SameEdges
<1>5. ByName(g.nodes) = ByName(h.nodes) /\ ByName(g.nodes) \in Seq(NodeData)
  BY <1>3, <1>4, ByNameUnique, ByNameFacts
<1> DEFINE S == Sorted(s, EdgeBefore)
           T == Sorted(t, EdgeBefore)
<1>6. s \in Seq(CsrData) /\ t \in Seq(CsrData)
  BY <1>1, <1>2 DEF CsrEdges
<1>7. SortOf(S, s, CsrData, CsrOrder) /\ SortOf(T, t, CsrData, CsrOrder)
  BY <1>6, EdgesSort
<1> HIDE DEF S, T
<1>8. S \in Seq(CsrData) /\ T \in Seq(CsrData)
  BY <1>7 DEF SortOf
<1>9. InOrderBy(S, CsrOrder) /\ InOrderBy(T, CsrOrder)
  BY <1>7 DEF SortOf, InOrderBy
<1>10. ASSUME NEW d \in CsrData PROVE Occurs(S, {d}) = Occurs(T, {d})
  <2> DEFINE N == ByName(g.nodes)
             e == EdgeAt(d, N)
  <2>1. Occurs(S, {d}) = Occurs(s, {d}) /\ Occurs(T, {d}) = Occurs(t, {d})
    BY <1>6, <1>7, OccursReordered
  <2>2. Occurs(s, {d}) = IF EndsAt(d, N) THEN Occurs(g.edges, {e}) ELSE 0
    BY <1>1, EntryCounts
  <2>3. Occurs(t, {d}) = IF EndsAt(d, N) THEN Occurs(h.edges, {e}) ELSE 0
    <3>1. N = ByName(h.nodes)
      BY <1>5
    <3>2. Occurs(t, {d}) = IF EndsAt(d, ByName(h.nodes))
                           THEN Occurs(h.edges, {EdgeAt(d, ByName(h.nodes))}) ELSE 0
      BY <1>2, EntryCounts
    <3> HIDE DEF N
    <3> QED
      BY <3>1, <3>2
  <2>4. CASE EndsAt(d, N)
    <3>1. N \in Seq(NodeData)
      BY <1>5
    <3> HIDE DEF N
    <3>2. N[d.from_idx + 1] \in NodeData /\ N[d.to_idx + 1] \in NodeData /\ d.kind \in Kinds
      BY <2>4, <3>1 DEF EndsAt, CsrData
    <3>3. e \in NamedEdges
      BY <3>2 DEF EdgeAt, NodeData, NamedEdges
    <3> HIDE DEF e
    <3> QED
      BY <1>4, <2>1, <2>2, <2>3, <3>3
  <2>5. CASE ~ EndsAt(d, N)
    BY <2>1, <2>2, <2>3, <2>5
  <2> QED
    BY <2>4, <2>5
<1>11. S = T
  <2>1. SameCounts(S, T, CsrData)
    BY <1>10 DEF SameCounts
  <2> QED
    BY <1>8, <1>9, <2>1, CsrTotal, InOrderUnique
<1> QED
  BY <1>1, <1>2, <1>5, <1>11 DEF S, T

(***************************************************************************)
(* The inductive invariant.                                                *)
(***************************************************************************)
(* What to_rkyv_v2 wrote of some graph.                                    *)
Own(f) == \E g : GraphOK(g) /\ f = to_rkyv_v2(g)

(* The bytes that hold what is open.                                       *)
WrittenIn(r, f) == IF f = NoFile THEN r ELSE f

OpenOwned(b, r, f) ==
  \E g : /\ b = Owned(g) /\ GraphOK(g)
         /\ WrittenIn(r, f) # NoFile => SameGraph(g, rebuild_from_serialized(WrittenIn(r, f)))

OpenView(b, r, f) == b = View(r) /\ f = NoFile /\ r # NoFile /\ from_bytes(r)

OpenMapped(b, f) == b = Mapped(f) /\ f # NoFile /\ validate_csr(f)

(* Open is nothing, a graph that is the one in the bytes, a view of an     *)
(* archive that passes its check, or a snapshot that passes the sweep.     *)
Open(b, r, f) == b = NoBase \/ OpenOwned(b, r, f) \/ OpenView(b, r, f) \/ OpenMapped(b, f)

Bytes(r, f, tr) ==
  /\ r = NoFile \/ ArchiveOK(r)
  /\ f = NoFile \/ (Shaped(f) /\ r = NoFile)
  /\ tr => f # NoFile /\ Own(f)

(* Whatever validate_csr has not seen is only known to be arrays, unless   *)
(* this program wrote it.                                                  *)
SnapshotInv ==
  /\ Hashed
  /\ Bytes(archive, file, trusted)
  /\ Open(base, archive, file)

(* The same graph is the same both ways and over a third.                  *)
LEMMA SameGraphs ==
  ASSUME NEW g, NEW h, NEW i, SameGraph(g, h)
  PROVE  SameGraph(h, g) /\ (SameGraph(h, i) => SameGraph(g, i))
BY DEF SameGraph, SameEdges

(* A file that passes the sweep is a graph, and its view lists that graph. *)
LEMMA SweptGraph ==
  ASSUME Hashed, NEW a, Shaped(a), validate_csr(a)
  PROVE  /\ GraphOK(rebuild_from_serialized(a))
         /\ Fits(Mapped(a), rebuild_from_serialized(a))
<1>1. PICK n, E : Readable(a, n, E)
  BY Swept
<1>2. ArraysOf(a, n, E) /\ NamesDistinct(a)
  BY <1>1 DEF Readable
<1>3. GraphOK(rebuild_from_serialized(a))
  BY <1>2, RebuildFacts
<1>4. Fits(Mapped(a), rebuild_from_serialized(a))
  BY <1>1, ArchivedFits
<1> QED
  BY <1>3, <1>4

(* So is what this program wrote.                                          *)
LEMMA OwnIsSwept ==
  ASSUME Hashed, NEW f, Own(f)
  PROVE  Shaped(f) /\ validate_csr(f) /\ f # NoFile
<1>1. PICK g : GraphOK(g) /\ f = to_rkyv_v2(g)
  BY DEF Own
<1>2. Shaped(to_rkyv_v2(g)) /\ validate_csr(to_rkyv_v2(g))
  BY <1>1, WrittenValidates
<1>3. Shaped(f) /\ validate_csr(f)
  BY <1>1, <1>2
<1>4. DOMAIN f # {"nodes"}
  BY <1>3 DEF Shaped
<1> QED
  BY <1>3, <1>4 DEF NoFile

(* V0 bytes are a graph, and a view of them lists it.                      *)
LEMMA ArchiveGraph ==
  ASSUME NEW r, ArchiveOK(r)
  PROVE  /\ GraphOK(rebuild_from_serialized(r))
         /\ from_bytes(r) => Fits(View(r), rebuild_from_serialized(r))
<1>1. IsArray(r.nodes, NodeData) /\ IsArray(r.edges, CsrData) /\ NamesDistinct(r)
  BY DEF ArchiveOK
<1>2. PICK n \in Nat : r.nodes \in [0 .. n - 1 -> NodeData]
  BY <1>1 DEF IsArray
<1>3. PICK E \in Nat : r.edges \in [0 .. E - 1 -> CsrData]
  BY <1>1 DEF IsArray
<1>4. ArraysOf(r, n, E)
  BY <1>2, <1>3 DEF ArraysOf
<1>5. GraphOK(rebuild_from_serialized(r))
  BY <1>1, <1>4, RebuildFacts
<1>6. ASSUME from_bytes(r) PROVE Fits(View(r), rebuild_from_serialized(r))
  BY <1>1, <1>4, <1>6, ViewFits
<1> QED
  BY <1>5, <1>6

(* What is open lists a graph: the one in the bytes, where there are any.  *)
Holds(b, r, f, g) ==
  /\ Fits(b, g)
  /\ WrittenIn(r, f) # NoFile => SameGraph(g, rebuild_from_serialized(WrittenIn(r, f)))

(* Whatever is open lists a graph, and the bytes hold the same one.        *)
LEMMA OpenHolds ==
  ASSUME Hashed, NEW b, NEW r, NEW f, NEW tr, Bytes(r, f, tr), Open(b, r, f), b # NoBase
  PROVE  \E g : Holds(b, r, f, g)
<1>0. /\ r = NoFile \/ ArchiveOK(r)
      /\ f = NoFile \/ (Shaped(f) /\ r = NoFile)
  BY DEF Bytes
<1>1. CASE OpenOwned(b, r, f)
  <2>1. PICK g : /\ b = Owned(g) /\ GraphOK(g)
                 /\ WrittenIn(r, f) # NoFile => SameGraph(g, rebuild_from_serialized(WrittenIn(r, f)))
    BY <1>1 DEF OpenOwned
  <2>2. Fits(Owned(g), g)
    BY <2>1, OwnedFits
  <2>3. Fits(b, g)
    BY <2>1, <2>2
  <2> QED
    BY <2>1, <2>3 DEF Holds
<1>2. CASE OpenView(b, r, f)
  <2> DEFINE g == rebuild_from_serialized(r)
  <2>1. b = View(r) /\ f = NoFile /\ r # NoFile /\ from_bytes(r)
    BY <1>2 DEF OpenView
  <2>2. Fits(View(r), g)
    BY <1>0, <2>1, ArchiveGraph
  <2>3. SameGraph(g, g) /\ WrittenIn(r, f) = r
    BY <2>1 DEF SameGraph, SameEdges, WrittenIn
  <2> HIDE DEF g
  <2>4. Fits(b, g) /\ g = rebuild_from_serialized(WrittenIn(r, f))
    BY <2>1, <2>2, <2>3 DEF g
  <2>5. Holds(b, r, f, g)
    BY <2>3, <2>4 DEF Holds
  <2> QED
    BY <2>5
<1>3. CASE OpenMapped(b, f)
  <2> DEFINE g == rebuild_from_serialized(f)
  <2>1. b = Mapped(f) /\ f # NoFile /\ validate_csr(f)
    BY <1>3 DEF OpenMapped
  <2>2. Fits(Mapped(f), g)
    BY <1>0, <2>1, SweptGraph
  <2>3. SameGraph(g, g) /\ WrittenIn(r, f) = f
    BY <2>1 DEF SameGraph, SameEdges, WrittenIn
  <2> HIDE DEF g
  <2>4. Fits(b, g) /\ g = rebuild_from_serialized(WrittenIn(r, f))
    BY <2>1, <2>2, <2>3 DEF g
  <2>5. Holds(b, r, f, g)
    BY <2>3, <2>4 DEF Holds
  <2> QED
    BY <2>5
<1> QED
  BY <1>1, <1>2, <1>3 DEF Open

(***************************************************************************)
(* What the invariant says of a state.                                     *)
(***************************************************************************)
(* A view of a snapshot is of the file, and that passes the sweep.         *)
LEMMA MappedIsSwept ==
  ASSUME SnapshotInv, base.is = "Archived"
  PROVE  Shaped(base.file) /\ validate_csr(base.file)
<1>1. Bytes(archive, file, trusted) /\ Open(base, archive, file)
  BY DEF SnapshotInv
<1>2. ASSUME base = NoBase PROVE FALSE
  BY <1>2 DEF NoBase
<1>3. ASSUME OpenOwned(base, archive, file) PROVE FALSE
  BY <1>3 DEF OpenOwned, Owned
<1>4. ASSUME OpenView(base, archive, file) PROVE FALSE
  BY <1>4 DEF OpenView, View
<1>5. base = Mapped(file) /\ file # NoFile /\ validate_csr(file)
  BY <1>1, <1>2, <1>3, <1>4 DEF Open, OpenMapped
<1>6. base.file = file
  BY <1>5 DEF Mapped
<1>7. Shaped(file)
  BY <1>1, <1>5 DEF Bytes
<1> QED
  BY <1>5, <1>6, <1>7

(* What is trusted was written by to_rkyv_v2.                              *)
LEMMA InvSelfWritten ==
  ASSUME SnapshotInv
  PROVE  SelfWrittenValidates
<1>1. Hashed /\ (trusted => Own(file))
  BY DEF SnapshotInv, Bytes
<1> QED
  BY <1>1, OwnIsSwept DEF SelfWrittenValidates

(* A file that is mapped passed the sweep, so its probes are exact.        *)
LEMMA InvLookup ==
  ASSUME SnapshotInv
  PROVE  LookupExact
<1> SUFFICES ASSUME base.is = "Archived", NEW x \in Names
             PROVE  Finds(base.file, x)
  BY DEF LookupExact, Finds
<1>1. Shaped(base.file) /\ validate_csr(base.file) /\ Hashed
  BY MappedIsSwept DEF SnapshotInv
<1>2. PICK a : a = base.file
  OBVIOUS
<1>3. PICK n, E : Readable(a, n, E)
  BY <1>1, <1>2, Swept
<1>4. Finds(a, x)
  BY <1>3 DEF Readable
<1> QED
  BY <1>2, <1>4

(* What is open and the bytes are the same graph.                          *)
LEMMA InvHeld ==
  ASSUME SnapshotInv
  PROVE  HeldIsWritten
<1>1. Hashed /\ Bytes(archive, file, trusted) /\ Open(base, archive, file)
  BY DEF SnapshotInv
<1> SUFFICES ASSUME base # NoBase, WrittenIn(archive, file) # NoFile
             PROVE  Logical(materialize(base)) =
                      Logical(rebuild_from_serialized(WrittenIn(archive, file)))
  BY DEF HeldIsWritten, WrittenIn
<1>2. PICK b, r, f, tr : b = base /\ r = archive /\ f = file /\ tr = trusted
  OBVIOUS
<1>3. PICK g : Holds(b, r, f, g)
  BY <1>1, <1>2, OpenHolds
<1> DEFINE m == materialize(b)
           h == rebuild_from_serialized(WrittenIn(r, f))
<1>4. SameGraph(m, g)
  BY <1>3, MaterializeFacts DEF Holds
<1>5. SameGraph(g, h)
  BY <1>2, <1>3 DEF Holds
<1>6. SameGraph(m, h)
  <2> HIDE DEF m, h
  <2> QED
    BY <1>4, <1>5, SameGraphs
<1>7. Logical(m) = Logical(h)
  <2> HIDE DEF m, h
  <2> QED
    BY <1>6, SameLogical
<1> QED
  BY <1>2, <1>7

(* Either direction lists the edges of the graph that is open.             *)
LEMMA InvDirections ==
  ASSUME SnapshotInv
  PROVE  DirectionsAgree
<1>1. Hashed /\ Bytes(archive, file, trusted) /\ Open(base, archive, file)
  BY DEF SnapshotInv
<1>2. ASSUME base.is = "Archived",
             NEW i \in DOMAIN base.file.nodes, NEW k \in DOMAIN base.file.edges
      PROVE  /\ Outgoing(base.file, i, k) = IF base.file.edges[k].from_idx = i THEN 1 ELSE 0
             /\ Incoming(base.file, i, k) = IF base.file.edges[k].to_idx = i THEN 1 ELSE 0
  <2>1. Shaped(base.file) /\ validate_csr(base.file)
    BY <1>2, MappedIsSwept
  <2>2. PICK a : a = base.file
    OBVIOUS
  <2>3. PICK n, E : Readable(a, n, E)
    BY <1>1, <2>1, <2>2, Swept
  <2>4. DOMAIN a.nodes = 0 .. n - 1 /\ DOMAIN a.edges = 0 .. E - 1
    BY <2>3 DEF Readable, ArraysOf
  <2>5. i \in 0 .. n - 1 /\ k \in 0 .. E - 1
    BY <2>2, <2>4
  <2>6. /\ Outgoing(a, i, k) = IF a.edges[k].from_idx = i THEN 1 ELSE 0
        /\ Incoming(a, i, k) = IF a.edges[k].to_idx = i THEN 1 ELSE 0
    BY <2>3, <2>5, ListedOnce
  <2> QED
    BY <2>2, <2>6
<1>3. ASSUME base # NoBase PROVE Bag(Listings(base, "from")) = Bag(Listings(base, "to"))
  <2>1. PICK b, r, f, tr : b = base /\ r = archive /\ f = file /\ tr = trusted
    OBVIOUS
  <2>2. PICK g : Holds(b, r, f, g)
    BY <1>1, <1>3, <2>1, OpenHolds
  <2>3. Fits(b, g) /\ "from" \in Ends /\ "to" \in Ends
    BY <2>2 DEF Holds, Ends
  <2> DEFINE s == Listings(b, "from")
             t == Listings(b, "to")
  <2>4. SameEdges(s, g.edges) /\ SameEdges(t, g.edges)
    BY <2>3, ListingsHold
  <2>5. SameEdges(s, t)
    BY <2>4 DEF SameEdges
  <2>6. Bag(s) = Bag(t)
    <3> HIDE DEF s, t
    <3> QED
      BY <2>5, SameBag
  <2> QED
    BY <2>1, <2>6
<1> QED
  BY <1>2, <1>3 DEF DirectionsAgree

(* A graph that is the same as the file's would be written the same.       *)
LEMMA InvDeterministic ==
  ASSUME SnapshotInv
  PROVE  Deterministic
<1> SUFFICES ASSUME trusted, NEW in \in Inputs,
                    Logical(build_graph(in.nodes, in.edges)) = Logical(rebuild_from_serialized(file))
             PROVE  to_rkyv_v2(build_graph(in.nodes, in.edges)) = file
  BY DEF Deterministic
<1>1. PICK g : GraphOK(g) /\ file = to_rkyv_v2(g)
  BY DEF SnapshotInv, Bytes, Own
<1>2. in.nodes \in Seq(NodeData) /\ in.edges \in Seq(EdgeInputs)
  BY SnapshotAssumption
<1> DEFINE h == build_graph(in.nodes, in.edges)
           w == rebuild_from_serialized(to_rkyv_v2(g))
<1>3. GraphOK(h)
  BY <1>2, BuildFacts
<1>4. SameGraph(w, g)
  BY <1>1, RoundTripV2
<1>5. Logical(h) = Logical(w)
  BY <1>1
<1> HIDE DEF h, w
<1>6. SameGraph(h, w)
  BY <1>5, SameLogical
<1>7. SameGraph(h, g)
  BY <1>4, <1>6, SameGraphs
<1>8. to_rkyv_v2(h) = to_rkyv_v2(g)
  BY <1>1, <1>3, <1>7, WriterDetermined
<1> QED
  BY <1>1, <1>8 DEF h

State(b, r, f, tr) == Bytes(r, f, tr) /\ Open(b, r, f)

(* The hashes stay as they are, so what is written and what passes the     *)
(* sweep do.                                                               *)
LEMMA WriterSame ==
  ASSUME fnv1a' = fnv1a, NEW g
  PROVE  to_rkyv_v2(g)' = to_rkyv_v2(g)
BY DEF to_rkyv_v2, build_name_buckets, Home

(* The sweep hashes names only to look at the table.                       *)
LEMMA SweepSame ==
  ASSUME fnv1a' = fnv1a, NEW f
  PROVE  validate_csr(f)' <=> validate_csr(f)
BY DEF validate_csr, Reachable, Home

(* So a step that leaves the hashes alone leaves both as they are.         *)
LEMMA StateSame ==
  ASSUME fnv1a' = fnv1a, NEW b, NEW r, NEW f, NEW tr, State(b, r, f, tr)
  PROVE  State(b, r, f, tr)'
<1>1. Bytes(r, f, tr) /\ Open(b, r, f)
  BY DEF State
<1>2. Own(f) => Own(f)'
  <2> SUFFICES ASSUME Own(f) PROVE Own(f)'
    OBVIOUS
  <2>1. PICK g : GraphOK(g) /\ f = to_rkyv_v2(g)
    BY DEF Own
  <2>2. f = to_rkyv_v2(g)'
    BY <2>1, WriterSame
  <2> QED
    BY <2>1, <2>2 DEF Own
<1>3. Bytes(r, f, tr)'
  BY <1>1, <1>2 DEF Bytes
<1>4. validate_csr(f)' <=> validate_csr(f)
  BY SweepSame
<1>5. Open(b, r, f)'
  BY <1>1, <1>4 DEF Open, OpenOwned, OpenView, OpenMapped
<1> QED
  BY <1>3, <1>5 DEF State

(* It is enough to look at the new bytes and base with the old hashes.     *)
LEMMA InvNext ==
  ASSUME Hashed, fnv1a' = fnv1a, NEW b, NEW r, NEW f, NEW tr, State(b, r, f, tr),
         b = base', r = archive', f = file', tr = trusted'
  PROVE  SnapshotInv'
<1>1. State(b, r, f, tr)'
  BY StateSame
<1>2. State(base, archive, file, trusted)'
  BY <1>1
<1>3. Hashed'
  BY DEF Hashed
<1> QED
  BY <1>2, <1>3 DEF State, SnapshotInv

(***************************************************************************)
(* What other writers do to bytes.                                         *)
(***************************************************************************)
(* One cell of an array is another.                                        *)
LEMMA CellArray ==
  ASSUME NEW T, NEW f, IsArray(f, T), NEW i, NEW v \in T
  PROVE  IsArray([f EXCEPT ![i] = v], T)
<1>1. PICK n \in Nat : f \in [0 .. n - 1 -> T]
  BY DEF IsArray
<1>2. [f EXCEPT ![i] = v] \in [0 .. n - 1 -> T]
  BY <1>1
<1> QED
  BY <1>1, <1>2 DEF IsArray

(* The last cell of an array is missing.                                   *)
LEMMA ShortArray ==
  ASSUME NEW T, NEW f, IsArray(f, T), DOMAIN f # {}
  PROVE  IsArray(Restrict(f, 0 .. Size(f) - 2), T)
<1>1. PICK n \in Nat : f \in [0 .. n - 1 -> T]
  BY DEF IsArray
<1>2. Size(f) = n
  BY <1>1, SizeOf
<1>3. n # 0
  BY <1>1
<1> DEFINE m == n - 1
<1>4. m \in Nat /\ n - 2 = m - 1 /\ \A i \in 0 .. m - 1 : i \in 0 .. n - 1
  BY <1>3
<1>5. Restrict(f, 0 .. Size(f) - 2) = [i \in 0 .. m - 1 |-> f[i]]
  BY <1>2, <1>4 DEF Restrict
<1> HIDE DEF m
<1>6. [i \in 0 .. m - 1 |-> f[i]] \in [0 .. m - 1 -> T]
  BY <1>1, <1>4
<1> QED
  BY <1>4, <1>5, <1>6 DEF IsArray

(* One array of a snapshot is another.                                     *)
PartType(part) ==
  CASE part = "nodes" -> NodeData [] part = "edges" -> CsrData
    [] part = "name_buckets" -> Int [] OTHER -> Nat

(* One array of a snapshot replaced by another of its type.                *)
LEMMA PartShaped ==
  ASSUME NEW a, Shaped(a), NEW part \in DOMAIN a, NEW v, IsArray(v, PartType(part))
  PROVE  Shaped([a EXCEPT ![part] = v])
<1> DEFINE c == [a EXCEPT ![part] = v]
<1>1. /\ DOMAIN a = {"nodes", "edges", "node_offsets", "in_offsets", "in_mirror", "name_buckets"}
      /\ IsArray(a.nodes, NodeData) /\ IsArray(a.edges, CsrData)
      /\ IsArray(a.node_offsets, Nat) /\ IsArray(a.in_offsets, Nat)
      /\ IsArray(a.in_mirror, Nat) /\ IsArray(a.name_buckets, Int)
  BY DEF Shaped
<1>2. DOMAIN c = DOMAIN a /\ c[part] = v /\ \A p \in DOMAIN a : p # part => c[p] = a[p]
  OBVIOUS
<1> QED
  BY <1>1, <1>2 DEF Shaped, PartType

(* So is a snapshot that another writer changed.                           *)
LEMMA MiswriteShaped ==
  ASSUME Shaped(file), NEW part \in DOMAIN file, Miswrite(part)
  PROVE  Shaped(file')
<1>1. PICK a : a = file
  OBVIOUS
<1>2. PICK c : c = file'
  OBVIOUS
<1>3. /\ DOMAIN a = {"nodes", "edges", "node_offsets", "in_offsets", "in_mirror", "name_buckets"}
      /\ IsArray(a.nodes, NodeData) /\ IsArray(a.edges, CsrData)
      /\ IsArray(a.node_offsets, Nat) /\ IsArray(a.in_offsets, Nat)
      /\ IsArray(a.in_mirror, Nat) /\ IsArray(a.name_buckets, Int)
  BY <1>1 DEF Shaped
<1>4. part \in DOMAIN a
  BY <1>1
<1> DEFINE T == PartType(part)
<1>5. IsArray(a[part], T)
  BY <1>3, <1>4 DEF PartType
<1>6. CellValues(part) \subseteq T
  <2>1. Cardinality(Names) \in Nat
    BY BuilderAssumption, FS_CardinalityType
  <2>2. Size(file.edges) \in Nat
    <3>1. PICK n \in Nat : a.edges \in [0 .. n - 1 -> CsrData]
      BY <1>3 DEF IsArray
    <3>2. Size(a.edges) = n
      BY <3>1, SizeOf
    <3> QED
      BY <1>1, <3>1, <3>2
  <2>3. 0 .. Cardinality(Names) \subseteq Nat /\ 0 .. Size(file.edges) \subseteq Nat
    BY <2>1, <2>2
  <2>4. [from_idx: 0 .. Cardinality(Names), to_idx: 0 .. Cardinality(Names), kind: Kinds] \subseteq CsrData
    BY <2>3 DEF CsrData
  <2>5. {EMPTY_BUCKET} \cup 0 .. Cardinality(Names) \subseteq Int
    BY <2>3 DEF EMPTY_BUCKET
  <2> QED
    BY <2>3, <2>4, <2>5 DEF CellValues, PartType
<1> HIDE DEF T
<1>7. CASE \E i \in DOMAIN file[part] : \E v \in CellValues(part) :
             file' = [file EXCEPT ![part] = [@ EXCEPT ![i] = v]]
  <2>1. PICK i, v : v \in T /\ c = [a EXCEPT ![part] = [a[part] EXCEPT ![i] = v]]
    BY <1>1, <1>2, <1>4, <1>6, <1>7
  <2> DEFINE w == [a[part] EXCEPT ![i] = v]
  <2>2. IsArray(w, T)
    BY <1>5, <2>1, CellArray
  <2> HIDE DEF w
  <2>3. c = [a EXCEPT ![part] = w]
    BY <2>1 DEF w
  <2>4. Shaped([a EXCEPT ![part] = w])
    BY <1>1, <1>4, <2>2, PartShaped DEF T
  <2> QED
    BY <1>2, <2>3, <2>4
<1>8. CASE /\ DOMAIN file[part] # {}
           /\ file' = [file EXCEPT ![part] = Restrict(@, 0 .. Size(@) - 2)]
  <2> DEFINE w == Restrict(a[part], 0 .. Size(a[part]) - 2)
  <2>1. DOMAIN a[part] # {} /\ c = [a EXCEPT ![part] = w]
    BY <1>1, <1>2, <1>4, <1>8
  <2>2. IsArray(w, T)
    BY <1>5, <2>1, ShortArray
  <2> HIDE DEF w
  <2>3. Shaped([a EXCEPT ![part] = w])
    BY <1>1, <1>4, <2>2, PartShaped DEF T
  <2> QED
    BY <1>2, <2>1, <2>3
<1> QED
  BY <1>7, <1>8 DEF Miswrite

(* V0 bytes with another end of an edge are an archive.                    *)
LEMMA OtherArchiveOK ==
  ASSUME ArchiveOK(archive), OtherArchive
  PROVE  ArchiveOK(archive')
<1>1. PICK a : a = archive
  OBVIOUS
<1>2. PICK c : c = archive'
  OBVIOUS
<1>3. PICK k \in DOMAIN a.edges, end \in {"from_idx", "to_idx"}, i \in 0 .. Size(a.nodes) :
        c = [a EXCEPT !.edges[k][end] = i]
  BY <1>1, <1>2 DEF OtherArchive
<1>4. /\ DOMAIN a = {"nodes", "edges"} /\ NamesDistinct(a)
      /\ IsArray(a.nodes, NodeData) /\ IsArray(a.edges, CsrData)
  BY <1>1 DEF ArchiveOK
<1>5. PICK n \in Nat : a.nodes \in [0 .. n - 1 -> NodeData]
  BY <1>4 DEF IsArray
<1>6. i \in Nat
  BY <1>5, SizeOf
<1> DEFINE d == a.edges[k]
           w == [d EXCEPT ![end] = i]
           v == [a.edges EXCEPT ![k] = w]
<1>7. d \in CsrData
  BY <1>4 DEF IsArray
<1> HIDE DEF d
<1>8. w \in CsrData
  BY <1>6, <1>7 DEF CsrData
<1> HIDE DEF w
<1>9. IsArray(v, CsrData)
  BY <1>4, <1>8, CellArray
<1>10. c = [a EXCEPT !.edges = v]
  BY <1>3 DEF d, w
<1> HIDE DEF v
<1>11. DOMAIN c = {"nodes", "edges"} /\ c.nodes = a.nodes /\ c.edges = v
  BY <1>4, <1>10
<1> QED
  BY <1>2, <1>4, <1>9, <1>11 DEF ArchiveOK, NamesDistinct

(***************************************************************************)
(* The steps.                                                              *)
(***************************************************************************)
(* What is open in memory is one of the three.                             *)
LEMMA OpenIs ==
  ASSUME NEW b, NEW r, NEW f, Open(b, r, f)
  PROVE  /\ b.is = "Owned" => OpenOwned(b, r, f)
         /\ f # NoFile /\ b # NoBase => OpenOwned(b, r, f) \/ OpenMapped(b, f)
<1>1. b = NoBase \/ b.is # "Owned" \/ OpenOwned(b, r, f)
  BY DEF Open, NoBase, OpenView, View, OpenMapped, Mapped
<1>2. b = NoBase => b.is # "Owned"
  BY DEF NoBase
<1>3. f # NoFile => ~ OpenView(b, r, f)
  BY DEF OpenView
<1> QED
  BY <1>1, <1>2, <1>3 DEF Open

(* At first a graph is open that build_graph made.                         *)
LEMMA InitInv == ASSUME Init PROVE SnapshotInv
<1>1. PICK in \in Inputs : base = Owned(build_graph(in.nodes, in.edges))
  BY DEF Init
<1>2. in.nodes \in Seq(NodeData) /\ in.edges \in Seq(EdgeInputs)
  BY SnapshotAssumption
<1> DEFINE g == build_graph(in.nodes, in.edges)
<1>3. GraphOK(g)
  BY <1>2, BuildFacts
<1> HIDE DEF g
<1>4. archive = NoFile /\ file = NoFile /\ trusted = FALSE /\ base = Owned(g)
  BY <1>1 DEF Init, g
<1>5. Bytes(archive, file, trusted)
  BY <1>4 DEF Bytes
<1>6. OpenOwned(base, archive, file)
  BY <1>3, <1>4 DEF OpenOwned, WrittenIn
<1>7. Hashed
  BY SnapshotAssumption DEF Init, Hashed
<1> QED
  BY <1>5, <1>6, <1>7 DEF SnapshotInv, Open

(* A file that this program wrote of a graph, and that graph, or nothing,  *)
(* or the file mapped.                                                     *)
LEMMA Writing ==
  ASSUME Hashed, NEW g, GraphOK(g), NEW f, f = to_rkyv_v2(g)
  PROVE  /\ Bytes(NoFile, f, TRUE)
         /\ OpenOwned(Owned(g), NoFile, f)
         /\ OpenMapped(Mapped(f), f)
<1>1. Own(f)
  BY DEF Own
<1>2. Shaped(f) /\ validate_csr(f) /\ f # NoFile
  BY <1>1, OwnIsSwept
<1>3. SameGraph(rebuild_from_serialized(f), g)
  BY RoundTripV2
<1> DEFINE w == rebuild_from_serialized(f)
<1>4. SameGraph(g, w)
  <2>1. SameGraph(w, g)
    BY <1>3
  <2> HIDE DEF w
  <2> QED
    BY <2>1, SameGraphs
<1>5. Bytes(NoFile, f, TRUE)
  BY <1>1, <1>2 DEF Bytes
<1>6. WrittenIn(NoFile, f) = f
  BY <1>2 DEF WrittenIn
<1>7. OpenOwned(Owned(g), NoFile, f)
  BY <1>4, <1>6 DEF OpenOwned
<1>8. OpenMapped(Mapped(f), f)
  BY <1>2 DEF OpenMapped
<1> QED
  BY <1>5, <1>7, <1>8

(* A graph read from bytes is the one in them.                             *)
LEMMA Reading ==
  ASSUME NEW r, NEW f, WrittenIn(r, f) # NoFile,
         GraphOK(rebuild_from_serialized(WrittenIn(r, f)))
  PROVE  OpenOwned(Owned(rebuild_from_serialized(WrittenIn(r, f))), r, f)
<1> DEFINE g == rebuild_from_serialized(WrittenIn(r, f))
<1>1. GraphOK(g) /\ SameGraph(g, g)
  BY DEF SameGraph, SameEdges
<1> QED
  BY <1>1 DEF OpenOwned

(* to_rkyv: the archive is the graph.                                      *)
LEMMA ToRkyvInv == ASSUME SnapshotInv, ToRkyv PROVE SnapshotInv'
<1>1. PICK b, r, f, tr : b = base' /\ r = archive' /\ f = file' /\ tr = trusted'
  OBVIOUS
<1>2. /\ Hashed /\ fnv1a' = fnv1a /\ Bytes(archive, file, trusted) /\ Open(base, archive, file)
      /\ f = NoFile /\ file = NoFile /\ tr = trusted /\ b = base /\ r = to_rkyv(b.graph) /\ b.is = "Owned"
  BY <1>1 DEF ToRkyv, SnapshotInv
<1>3. PICK g : b = Owned(g) /\ GraphOK(g)
  <2>1. OpenOwned(base, archive, file)
    BY <1>2, OpenIs
  <2> QED
    BY <1>2, <2>1 DEF OpenOwned
<1>4. r = to_rkyv(g)
  BY <1>2, <1>3 DEF Owned
<1>5. ArchiveOK(r) /\ SameGraph(rebuild_from_serialized(r), g)
  BY <1>3, <1>4, RoundTripV0
<1>6. SameGraph(g, rebuild_from_serialized(r))
  <2> DEFINE w == rebuild_from_serialized(r)
  <2>1. SameGraph(w, g)
    BY <1>5
  <2> HIDE DEF w
  <2>2. SameGraph(g, w)
    BY <2>1, SameGraphs
  <2> QED
    BY <2>2 DEF w
<1>7. WrittenIn(r, f) = r
  BY <1>2 DEF WrittenIn
<1>8. OpenOwned(b, r, f)
  BY <1>3, <1>6, <1>7 DEF OpenOwned
<1>9. Bytes(r, f, tr)
  BY <1>2, <1>5 DEF Bytes
<1>10. State(b, r, f, tr)
  BY <1>8, <1>9 DEF State, Open
<1> QED
  BY <1>1, <1>2, <1>10, InvNext

(* from_bytes: a view of the archive, or a rebuild of it.                  *)
LEMMA FromRkyvInv == ASSUME SnapshotInv, FromRkyv PROVE SnapshotInv'
<1>1. PICK b, r, f, tr : b = base' /\ r = archive' /\ f = file' /\ tr = trusted'
  OBVIOUS
<1>2. /\ Hashed /\ fnv1a' = fnv1a /\ Bytes(r, f, tr)
      /\ r # NoFile /\ tr = trusted
  BY <1>1 DEF FromRkyv, SnapshotInv
<1>3. f = NoFile /\ ArchiveOK(r) /\ WrittenIn(r, f) = r
  BY <1>2 DEF Bytes, WrittenIn
<1>4. GraphOK(rebuild_from_serialized(r))
  BY <1>3, ArchiveGraph
<1>5. CASE from_bytes(archive) /\ base' = View(archive)
  <2>1. b = View(r) /\ from_bytes(r)
    BY <1>1, <1>5 DEF FromRkyv
  <2>2. OpenView(b, r, f)
    BY <1>2, <1>3, <2>1 DEF OpenView
  <2>3. State(b, r, f, tr)
    BY <1>2, <2>2 DEF State, Open
  <2> QED
    BY <1>1, <1>2, <2>3, InvNext
<1>6. CASE base' = Owned(rebuild_from_serialized(archive))
  <2>1. b = Owned(rebuild_from_serialized(r))
    BY <1>1, <1>6 DEF FromRkyv
  <2>2. OpenOwned(b, r, f)
    BY <1>2, <1>3, <1>4, <2>1, Reading
  <2>3. State(b, r, f, tr)
    BY <1>2, <2>2 DEF State, Open
  <2> QED
    BY <1>1, <1>2, <2>3, InvNext
<1> QED
  BY <1>5, <1>6 DEF FromRkyv

(* With nothing open there are only the bytes.                             *)
LEMMA NothingOpen ==
  ASSUME Hashed, fnv1a' = fnv1a, base' = NoBase, Bytes(archive', file', trusted')
  PROVE  SnapshotInv'
<1>1. PICK b, r, f, tr : b = base' /\ r = archive' /\ f = file' /\ tr = trusted'
  OBVIOUS
<1>2. State(b, r, f, tr)
  BY <1>1 DEF State, Open
<1> QED
  BY <1>1, <1>2, InvNext

(* close of the graph object: the archive stays.                           *)
LEMMA CloseGraphInv == ASSUME SnapshotInv, CloseGraph PROVE SnapshotInv'
<1>1. Bytes(archive', file', trusted')
  BY DEF CloseGraph, SnapshotInv
<1> QED
  BY <1>1, NothingOpen DEF CloseGraph, SnapshotInv

(* Close of the store: the file stays.                                     *)
LEMMA CloseInv == ASSUME SnapshotInv, Close PROVE SnapshotInv'
<1>1. Bytes(archive', file', trusted')
  BY DEF Close, SnapshotInv
<1> QED
  BY <1>1, NothingOpen DEF Close, SnapshotInv

(* Another writer may leave edges that have no end.                        *)
LEMMA OtherArchiveInv == ASSUME SnapshotInv, OtherArchive PROVE SnapshotInv'
<1>1. /\ Hashed /\ fnv1a' = fnv1a /\ base' = NoBase /\ archive # NoFile
      /\ file' = file /\ trusted' = trusted /\ Bytes(archive, file, trusted)
  BY DEF OtherArchive, SnapshotInv
<1>2. ArchiveOK(archive) /\ file = NoFile
  BY <1>1 DEF Bytes
<1>3. ArchiveOK(archive')
  BY <1>2, OtherArchiveOK
<1>4. Bytes(archive', file', trusted')
  BY <1>1, <1>2, <1>3 DEF Bytes
<1> QED
  BY <1>1, <1>4, NothingOpen

(* Another writer leaves arrays, and no trust.                             *)
LEMMA OtherWriterInv == ASSUME SnapshotInv, OtherWriter PROVE SnapshotInv'
<1>1. /\ Hashed /\ fnv1a' = fnv1a /\ base' = NoBase /\ file # NoFile
      /\ archive' = archive /\ trusted' = FALSE /\ Bytes(archive, file, trusted)
  BY DEF OtherWriter, SnapshotInv
<1>2. Shaped(file) /\ archive = NoFile
  BY <1>1 DEF Bytes
<1>3. PICK part \in DOMAIN file : Miswrite(part)
  BY DEF OtherWriter
<1>4. Shaped(file')
  BY <1>2, <1>3, MiswriteShaped
<1>5. Bytes(archive', file', trusted')
  BY <1>1, <1>2, <1>4 DEF Bytes
<1> QED
  BY <1>1, <1>5, NothingOpen

(* create: the file is the graph that stays open.                          *)
LEMMA CreateInv == ASSUME SnapshotInv, create PROVE SnapshotInv'
<1>1. PICK b, r, f, tr : b = base' /\ r = archive' /\ f = file' /\ tr = trusted'
  OBVIOUS
<1>2. /\ Hashed /\ fnv1a' = fnv1a /\ Open(base, archive, file) /\ base.is = "Owned"
      /\ b = base /\ r = NoFile /\ tr = TRUE /\ f = to_rkyv_v2(b.graph)
  BY <1>1 DEF create, SnapshotInv
<1>3. PICK g : b = Owned(g) /\ GraphOK(g)
  <2>1. OpenOwned(base, archive, file)
    BY <1>2, OpenIs
  <2> QED
    BY <1>2, <2>1 DEF OpenOwned
<1>4. f = to_rkyv_v2(g)
  BY <1>2, <1>3 DEF Owned
<1>5. Bytes(NoFile, f, TRUE) /\ OpenOwned(Owned(g), NoFile, f)
  BY <1>2, <1>3, <1>4, Writing
<1>6. State(b, r, f, tr)
  BY <1>2, <1>3, <1>5 DEF State, Open
<1> QED
  BY <1>1, <1>2, <1>6, InvNext

(* compact: what is folded is what was open, and so is the new file.       *)
LEMMA CompactInv == ASSUME SnapshotInv, compact PROVE SnapshotInv'
<1>1. PICK b, r, f, tr : b = base' /\ r = archive' /\ f = file' /\ tr = trusted'
  OBVIOUS
<1>2. PICK b0, r0, f0, tr0 : b0 = base /\ r0 = archive /\ f0 = file /\ tr0 = trusted
  OBVIOUS
<1>3. /\ Hashed /\ fnv1a' = fnv1a /\ Bytes(r0, f0, tr0) /\ Open(b0, r0, f0)
      /\ b0 # NoBase /\ f0 # NoFile /\ tr = TRUE /\ r = r0
  BY <1>1, <1>2 DEF compact, SnapshotInv
<1>4. PICK h : Holds(b0, r0, f0, h)
  BY <1>3, OpenHolds
<1> DEFINE live == materialize(b0)
           g    == build_graph(live.nodes, AsInputs(live.edges))
<1>5. GraphOK(live)
  BY <1>4, MaterializeFacts DEF Holds
<1>6. /\ f = to_rkyv_v2(g)
      /\ b = IF mode = "Owned" THEN Owned(g) ELSE Mapped(f)
  BY <1>1, <1>2 DEF compact
<1> HIDE DEF live
<1>7. GraphOK(g)
  BY <1>5, FoldFacts
<1> HIDE DEF g
<1>8. /\ Bytes(NoFile, f, TRUE) /\ OpenOwned(Owned(g), NoFile, f) /\ OpenMapped(Mapped(f), f)
  BY <1>3, <1>6, <1>7, Writing
<1>9. r = NoFile
  BY <1>3 DEF Bytes
<1>10. Open(b, r, f)
  BY <1>6, <1>8, <1>9 DEF Open
<1>11. State(b, r, f, tr)
  BY <1>3, <1>8, <1>9, <1>10 DEF State
<1> QED
  BY <1>1, <1>3, <1>11, InvNext

(* An open either sweeps the file or trusts what this program wrote.       *)
LEMMA OpenSnapshotInv ==
  ASSUME SnapshotInv, NEW how \in {"Owned", "Mmap"}, NEW validate \in {"Full", "Crc"},
         open_snapshot(how, validate)
  PROVE  SnapshotInv'
<1>1. PICK b, r, f, tr : b = base' /\ r = archive' /\ f = file' /\ tr = trusted'
  OBVIOUS
<1>2. /\ Hashed /\ fnv1a' = fnv1a /\ Bytes(r, f, tr) /\ f # NoFile
      /\ validate = "Full" => validate_csr(f)
      /\ validate = "Crc" => tr
      /\ b = IF how = "Owned" THEN Owned(rebuild_from_serialized(f)) ELSE Mapped(f)
  BY <1>1 DEF open_snapshot, SnapshotInv
<1>3. Shaped(f) /\ (tr => Own(f))
  BY <1>2 DEF Bytes
<1>4. validate_csr(f)
  BY <1>2, <1>3, OwnIsSwept
<1>5. GraphOK(rebuild_from_serialized(f))
  BY <1>2, <1>3, <1>4, SweptGraph
<1>6. WrittenIn(r, f) = f
  BY <1>2 DEF WrittenIn
<1>7. CASE how = "Owned"
  <2>1. OpenOwned(b, r, f)
    BY <1>2, <1>5, <1>6, <1>7, Reading
  <2>2. State(b, r, f, tr)
    BY <1>2, <2>1 DEF State, Open
  <2> QED
    BY <1>1, <1>2, <2>2, InvNext
<1>8. CASE how # "Owned"
  <2>1. OpenMapped(b, f)
    BY <1>2, <1>4, <1>8 DEF OpenMapped
  <2>2. State(b, r, f, tr)
    BY <1>2, <2>1 DEF State, Open
  <2> QED
    BY <1>1, <1>2, <2>2, InvNext
<1> QED
  BY <1>7, <1>8

(***************************************************************************)
(* The theorems.                                                           *)
(***************************************************************************)
(* Whatever is open or on disk is arrays, a graph or its bytes, and what   *)
(* is open agrees with the bytes it came from or went into: through        *)
(* to_rkyv, from_bytes, create, compact, Close, every open_snapshot and    *)
(* every change by another writer.                                         *)
THEOREM SnapshotInvariant == Spec => []SnapshotInv
<1>1. Init => SnapshotInv
  BY InitInv
<1>2. SnapshotInv /\ [Next]_vars => SnapshotInv'
  <2> SUFFICES ASSUME SnapshotInv, [Next]_vars PROVE SnapshotInv'
    OBVIOUS
  <2>1. CASE ToRkyv
    BY <2>1, ToRkyvInv
  <2>2. CASE FromRkyv
    BY <2>2, FromRkyvInv
  <2>3. CASE CloseGraph
    BY <2>3, CloseGraphInv
  <2>4. CASE OtherArchive
    BY <2>4, OtherArchiveInv
  <2>5. CASE create
    BY <2>5, CreateInv
  <2>6. CASE compact
    BY <2>6, CompactInv
  <2>7. CASE Close
    BY <2>7, CloseInv
  <2>8. CASE OtherWriter
    BY <2>8, OtherWriterInv
  <2>9. ASSUME NEW how \in {"Owned", "Mmap"}, NEW validate \in {"Full", "Crc"},
               open_snapshot(how, validate)
        PROVE  SnapshotInv'
    BY <2>9, OpenSnapshotInv
  <2>10. CASE UNCHANGED vars
    <3>1. PICK b, r, f, tr : b = base' /\ r = archive' /\ f = file' /\ tr = trusted'
      OBVIOUS
    <3>2. Hashed /\ fnv1a' = fnv1a /\ State(b, r, f, tr)
      BY <2>10, <3>1 DEF vars, SnapshotInv, State
    <3> QED
      BY <3>1, <3>2, InvNext
  <2> QED
    BY <2>1, <2>2, <2>3, <2>4, <2>5, <2>6, <2>7, <2>8, <2>9, <2>10 DEF Next
<1> QED
  BY <1>1, <1>2, PTL DEF Spec

(* validate_csr accepts what to_rkyv_v2 writes, for any hash function.     *)
THEOREM OwnSnapshotsValidate == Spec => []SelfWrittenValidates
<1>1. SnapshotInv => SelfWrittenValidates
  BY InvSelfWritten
<1> QED
  BY <1>1, SnapshotInvariant, PTL

(* In every file that validate_csr lets open, the probe of idx_of is exact.*)
THEOREM ProbesAreExact == Spec => []LookupExact
<1>1. SnapshotInv => LookupExact
  BY InvLookup
<1> QED
  BY <1>1, SnapshotInvariant, PTL

(* In every file that validate_csr lets open, node_offsets lists an edge   *)
(* once by its source and in_offsets with in_mirror once by its target,    *)
(* and both directions of every accessor hold the same edges.              *)
THEOREM ListingsAgree == Spec => []DirectionsAgree
<1>1. SnapshotInv => DirectionsAgree
  BY InvDirections
<1> QED
  BY <1>1, SnapshotInvariant, PTL

(* What a program holds, by its listings, is what rebuild_from_serialized  *)
(* gives of the bytes it wrote or opened.                                  *)
THEOREM WhatIsHeldIsWritten == Spec => []HeldIsWritten
<1>1. SnapshotInv => HeldIsWritten
  BY InvHeld
<1> QED
  BY <1>1, SnapshotInvariant, PTL

(* to_rkyv_v2 writes the same file of the same graph, whatever the order   *)
(* it was given in and the way it came.                                    *)
THEOREM SnapshotsAreCanonical == Spec => []Deterministic
<1>1. SnapshotInv => Deterministic
  BY InvDeterministic
<1> QED
  BY <1>1, SnapshotInvariant, PTL
==============================================================================
