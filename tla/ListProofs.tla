------------------------------ MODULE ListProofs ------------------------------
(***************************************************************************)
(* What the lists of the models are, whatever they hold: a set in order,   *)
(* the part of a list that is in a set, a stable sort, lists one after the *)
(* other, and how often a list names something.  First induction over the  *)
(* numbers, and functions defined step by step.                            *)
(***************************************************************************)
EXTENDS Lists, SequencesExt, FiniteSetTheorems, WellFoundedInduction, TLAPS

(***************************************************************************)
(* Numbers.                                                                *)
(***************************************************************************)
(* A set of numbers has a least one.                                       *)
LEMMA LeastNatural ==
  ASSUME NEW S, S \subseteq Nat, S # {}
  PROVE  \E m \in S : \A k \in S : m <= k
<1>1. \E m \in S : \A k \in S : ~ (<<k, m>> \in OpToRel(<, Nat))
  BY NatLessThanWellFounded, WFMin, Zenon
<1>2. PICK m \in S : \A k \in S : ~ (k < m)
  BY <1>1 DEF OpToRel
<1> QED
  BY <1>2

(* Induction for a set of numbers, which needs no operator parameter.      *)
LEMMA NatSetInduction ==
  ASSUME NEW D, 0 \in D, \A n \in Nat : n \in D => n + 1 \in D
  PROVE  \A n \in Nat : n \in D
<1> DEFINE Left == {n \in Nat : n \notin D}
<1>1. SUFFICES ASSUME Left # {} PROVE FALSE
  OBVIOUS
<1>2. PICK m \in Left : \A k \in Left : m <= k
  <2>1. Left \subseteq Nat
    OBVIOUS
  <2> HIDE DEF Left
  <2> QED
    BY <1>1, <2>1, LeastNatural
<1>3. m \in Nat /\ m # 0 /\ m - 1 \in Nat /\ m - 1 \notin Left /\ (m - 1) + 1 = m
  BY <1>2
<1> QED
  BY <1>2, <1>3

(* A function defined step by step exists.                                 *)
StepsIn(step, n, T) == \A i \in 1 .. n : \A t \in T : step[i][t] \in T
Follows(f, n, a, step) == f[0] = a /\ \A i \in 1 .. n : f[i] = step[i][f[i - 1]]

(* n steps from a, each inside T, define a function on 0 .. n.             *)
LEMMA StepsDefine ==
  ASSUME NEW n \in Nat, NEW T, NEW a \in T, NEW step, StepsIn(step, n, T)
  PROVE  \E f \in [0 .. n -> T] : Follows(f, n, a, step)
<1> DEFINE Goes(f, m) == /\ f \in [0 .. m -> T] /\ f[0] = a
                         /\ \A i \in 1 .. m : f[i] = step[i][f[i - 1]]
           D == {m \in Nat : m <= n => \E f : Goes(f, m)}
<1>1. 0 \in D
  <2> DEFINE f == [i \in 0 .. 0 |-> a]
  <2>1. Goes(f, 0)
    OBVIOUS
  <2> HIDE DEF Goes, f
  <2> QED
    BY <2>1
<1>2. ASSUME NEW m \in Nat, m \in D, m + 1 <= n PROVE \E f : Goes(f, m + 1)
  <2>1. PICK f : Goes(f, m)
    <3> HIDE DEF Goes
    <3> QED
      BY <1>2
  <2> DEFINE last == step[m + 1][f[m]]
             g    == [i \in 0 .. m + 1 |-> IF i = m + 1 THEN last ELSE f[i]]
  <2>2. last \in T
    <3>1. m + 1 \in 1 .. n /\ m \in 0 .. m
      BY <1>2
    <3>2. f[m] \in T
      BY <2>1, <3>1
    <3> QED
      BY <3>1, <3>2 DEF StepsIn
  <2> HIDE DEF last
  <2>3. /\ g \in [0 .. m + 1 -> T] /\ g[0] = a
        /\ g[m + 1] = last /\ \A i \in 0 .. m : g[i] = f[i]
    BY <2>1, <2>2
  <2> HIDE DEF g
  <2>4. ASSUME NEW i \in 1 .. m + 1 PROVE g[i] = step[i][g[i - 1]]
    <3>1. CASE i = m + 1
      <4>1. i - 1 = m /\ g[m] = f[m]
        BY <2>3, <3>1
      <4> QED
        BY <2>3, <3>1, <4>1 DEF last
    <3>2. CASE i # m + 1
      <4>1. i \in 1 .. m /\ i \in 0 .. m /\ i - 1 \in 0 .. m
        BY <3>2
      <4> QED
        BY <2>1, <2>3, <4>1
    <3> QED
      BY <3>1, <3>2
  <2>5. Goes(g, m + 1)
    BY <2>3, <2>4
  <2> HIDE DEF Goes
  <2> QED
    BY <2>5
<1>3. \A m \in Nat : m \in D => m + 1 \in D
  <2> HIDE DEF Goes
  <2> QED
    BY <1>2
<1>4. \A m \in Nat : m \in D
  <2> HIDE DEF D
  <2> QED
    BY <1>1, <1>3, NatSetInduction
<1>5. n \in D
  BY <1>4
<1>6. PICK f : Goes(f, n)
  <2> HIDE DEF Goes
  <2> QED
    BY <1>5
<1> QED
  BY <1>6 DEF Follows

(***************************************************************************)
(* Sorted listings.  The rank of an element is the number of elements      *)
(* before it; in a strict total order the ranks are all of 0, 1, ... .     *)
(***************************************************************************)
Below(R, S, x) == {y \in S : <<y, x>> \in R}
Rank(R, S, x)  == Cardinality(Below(R, S, x))

StrictOrder(R, S) ==
  /\ \A x \in S : <<x, x>> \notin R
  /\ \A x, y, z \in S : <<x, y>> \in R /\ <<y, z>> \in R => <<x, z>> \in R
  /\ \A x, y \in S : x = y \/ <<x, y>> \in R \/ <<y, x>> \in R

(* f is the elements of S in the order R.                                  *)
Lists(f, S, R) ==
  /\ f \in [1 .. Cardinality(S) -> S]
  /\ \A i \in 1 .. Cardinality(S) : Rank(R, S, f[i]) = i - 1

(* A rank is a number below the size of the set.                           *)
LEMMA RankType ==
  ASSUME NEW S, IsFiniteSet(S), NEW R, StrictOrder(R, S), NEW x \in S
  PROVE  Rank(R, S, x) \in Nat /\ Rank(R, S, x) < Cardinality(S)
<1> DEFINE B == Below(R, S, x)
<1>1. B \subseteq S /\ x \notin B
  BY DEF Below, StrictOrder
<1>2. B \cup {x} \subseteq S
  BY <1>1
<1>3. Rank(R, S, x) = Cardinality(B)
  BY DEF Rank
<1> HIDE DEF B
<1>4. IsFiniteSet(B) /\ Cardinality(B) \in Nat
  BY <1>1, FS_Subset, FS_CardinalityType
<1>5. Cardinality(B \cup {x}) = Cardinality(B) + 1
  BY <1>1, <1>4, FS_AddElement
<1>6. Cardinality(B \cup {x}) <= Cardinality(S) /\ Cardinality(S) \in Nat
  BY <1>2, FS_Subset, FS_CardinalityType
<1> QED
  BY <1>3, <1>4, <1>5, <1>6

(* What is before y has a lower rank than y.                               *)
LEMMA RankGrows ==
  ASSUME NEW S, IsFiniteSet(S), NEW R, StrictOrder(R, S),
         NEW x \in S, NEW y \in S, <<x, y>> \in R
  PROVE  Rank(R, S, x) < Rank(R, S, y)
<1> DEFINE B == Below(R, S, x)
           C == Below(R, S, y)
<1>1. B \subseteq S /\ x \notin B /\ C \subseteq S
  BY DEF Below, StrictOrder
<1>2. B \cup {x} \subseteq C
  BY DEF Below, StrictOrder
<1>3. Rank(R, S, x) = Cardinality(B) /\ Rank(R, S, y) = Cardinality(C)
  BY DEF Rank
<1> HIDE DEF B, C
<1>4. IsFiniteSet(B) /\ Cardinality(B) \in Nat /\ IsFiniteSet(C) /\ Cardinality(C) \in Nat
  BY <1>1, FS_Subset, FS_CardinalityType
<1>5. Cardinality(B \cup {x}) = Cardinality(B) + 1
  BY <1>1, <1>4, FS_AddElement
<1>6. Cardinality(B \cup {x}) <= Cardinality(C)
  BY <1>2, <1>4, FS_Subset
<1> QED
  BY <1>3, <1>4, <1>5, <1>6

(* No two elements have one rank.                                          *)
LEMMA RankInjective ==
  ASSUME NEW S, IsFiniteSet(S), NEW R, StrictOrder(R, S),
         NEW x \in S, NEW y \in S, Rank(R, S, x) = Rank(R, S, y)
  PROVE  x = y
<1>1. CASE <<x, y>> \in R
  BY <1>1, RankGrows, RankType
<1>2. CASE <<y, x>> \in R
  BY <1>2, RankGrows, RankType
<1> QED
  BY <1>1, <1>2 DEF StrictOrder

(* Every number below the size of the set is the rank of an element.       *)
LEMMA RankOnto ==
  ASSUME NEW S, IsFiniteSet(S), NEW R, StrictOrder(R, S), NEW i \in 1 .. Cardinality(S)
  PROVE  \E x \in S : Rank(R, S, x) = i - 1
<1> DEFINE f == [x \in S |-> Rank(R, S, x) + 1]
           T == 1 .. Cardinality(S)
<1>1. Cardinality(S) \in Nat
  BY FS_CardinalityType
<1>2. \A x \in S : Rank(R, S, x) \in Nat /\ f[x] = Rank(R, S, x) + 1 /\ f[x] \in T
  BY <1>1, RankType
<1>3. f \in [S -> T]
  BY <1>2
<1>4. \A x, y \in S : f[x] = f[y] => x = y
  <2> HIDE DEF f
  <2> QED
    BY <1>2, RankInjective
<1> HIDE DEF f
<1>5. f \in Injection(S, T)
  BY <1>3, <1>4 DEF Injection, IsInjective
<1>6. IsFiniteSet(T) /\ Cardinality(T) = Cardinality(S)
  BY <1>1, FS_Interval
<1> HIDE DEF T
<1>7. f \in Surjection(S, T)
  BY <1>5, <1>6, FS_Injection
<1>8. PICK x \in S : f[x] = i
  BY <1>7 DEF Surjection, T
<1> QED
  BY <1>2, <1>8 DEF T

(* What a listing holds, and in which order.                               *)
LEMMA ListingFacts ==
  ASSUME NEW S, IsFiniteSet(S), NEW R, StrictOrder(R, S), NEW f, Lists(f, S, R)
  PROVE  /\ f \in Seq(S) /\ Len(f) = Cardinality(S) /\ Cardinality(S) \in Nat
         /\ DOMAIN f = 1 .. Cardinality(S) /\ Range(f) = S
         /\ \A x \in S : Rank(R, S, x) + 1 \in DOMAIN f /\ f[Rank(R, S, x) + 1] = x
         /\ \A i, j \in DOMAIN f : i < j => <<f[i], f[j]>> \in R
         /\ \A i, j \in DOMAIN f : f[i] = f[j] => i = j
<1>1. Cardinality(S) \in Nat
  BY FS_CardinalityType
<1>2. f \in Seq(S) /\ Len(f) = Cardinality(S) /\ DOMAIN f = 1 .. Cardinality(S)
  BY <1>1 DEF Lists
<1>3. \A i \in DOMAIN f : f[i] \in S /\ Rank(R, S, f[i]) = i - 1
  BY <1>2 DEF Lists
<1>4. ASSUME NEW x \in S
      PROVE  Rank(R, S, x) + 1 \in DOMAIN f /\ f[Rank(R, S, x) + 1] = x
  <2>1. Rank(R, S, x) \in Nat /\ Rank(R, S, x) < Cardinality(S)
    BY RankType
  <2>2. Rank(R, S, x) + 1 \in DOMAIN f
    BY <1>1, <1>2, <2>1
  <2> DEFINE y == f[Rank(R, S, x) + 1]
  <2>3. y \in S /\ Rank(R, S, y) = Rank(R, S, x)
    BY <1>3, <2>1, <2>2
  <2>4. y = x
    <3> HIDE DEF y
    <3> QED
      BY <2>3, RankInjective
  <2> QED
    BY <2>2, <2>4
<1>5. ASSUME NEW i \in DOMAIN f, NEW j \in DOMAIN f
      PROVE  (i < j => <<f[i], f[j]>> \in R) /\ (f[i] = f[j] => i = j)
  <2>1. i \in Nat /\ j \in Nat
    BY <1>1, <1>2
  <2>2. /\ f[i] \in S /\ Rank(R, S, f[i]) = i - 1
        /\ f[j] \in S /\ Rank(R, S, f[j]) = j - 1
    BY <1>3
  <2>3. f[i] = f[j] => i = j
    BY <2>1, <2>2
  <2>4. ASSUME <<f[j], f[i]>> \in R PROVE j < i
    <3>1. Rank(R, S, f[j]) < Rank(R, S, f[i])
      BY <2>2, <2>4, RankGrows
    <3> QED
      BY <2>1, <2>2, <3>1
  <2>5. f[i] = f[j] \/ <<f[i], f[j]>> \in R \/ <<f[j], f[i]>> \in R
    BY <2>2 DEF StrictOrder
  <2> QED
    BY <2>1, <2>3, <2>4, <2>5
<1>6. Range(f) = S
  <2>1. Range(f) \subseteq S
    BY <1>3 DEF Range
  <2>2. S \subseteq Range(f)
    BY <1>4 DEF Range
  <2> QED
    BY <2>1, <2>2
<1> QED
  BY <1>1, <1>2, <1>4, <1>5, <1>6

(* What the operator that sorts a set returns: its elements by rank.       *)
LEMMA ByRank ==
  ASSUME NEW S, IsFiniteSet(S), NEW R, StrictOrder(R, S), NEW f,
         f = [i \in 1 .. Cardinality(S) |-> f[i]],
         \A i \in 1 .. Cardinality(S) :
           f[i] = CHOOSE x \in S : Rank(R, S, x) = i - 1
  PROVE  Lists(f, S, R)
<1>1. \A i \in 1 .. Cardinality(S) : \E x \in S : Rank(R, S, x) = i - 1
  BY RankOnto
<1>2. ASSUME NEW i \in 1 .. Cardinality(S)
      PROVE  f[i] \in S /\ Rank(R, S, f[i]) = i - 1
  <2>1. f[i] = CHOOSE x \in S : Rank(R, S, x) = i - 1
    OBVIOUS
  <2> QED
    BY <1>1, <2>1
<1>3. f \in [1 .. Cardinality(S) -> S]
  BY <1>2
<1> QED
  BY <1>2, <1>3 DEF Lists

LessThan == {p \in Nat \X Nat : p[1] < p[2]}

(* InOrder(S, <) lists the numbers of S from the least.                    *)
LEMMA NaturalsInOrder ==
  ASSUME NEW S, IsFiniteSet(S), S \subseteq Nat
  PROVE  StrictOrder(LessThan, S) /\ Lists(InOrder(S, <), S, LessThan)
<1>1. \A x, y \in S : <<x, y>> \in LessThan <=> x < y
  BY DEF LessThan
<1>2. StrictOrder(LessThan, S)
  BY <1>1 DEF StrictOrder
<1>3. \A x \in S : Rank(LessThan, S, x) = Cardinality({y \in S : y < x})
  <2> SUFFICES ASSUME NEW x \in S
               PROVE  Rank(LessThan, S, x) = Cardinality({y \in S : y < x})
    OBVIOUS
  <2>1. Below(LessThan, S, x) = {y \in S : y < x}
    BY <1>1 DEF Below
  <2> QED
    BY <2>1 DEF Rank
<1>4. ASSUME NEW i \in 1 .. Cardinality(S)
      PROVE  InOrder(S, <)[i] \in S /\ Rank(LessThan, S, InOrder(S, <)[i]) = i - 1
  <2> DEFINE P(x) == Cardinality({y \in S : y < x}) = i - 1
  <2>1. InOrder(S, <)[i] = CHOOSE x \in S : P(x)
    BY DEF InOrder
  <2>2. \E x \in S : P(x)
    <3>1. PICK x \in S : Rank(LessThan, S, x) = i - 1
      BY <1>2, RankOnto
    <3>2. P(x)
      BY <1>3, <3>1
    <3> QED
      BY <3>2
  <2>3. InOrder(S, <)[i] \in S /\ P(InOrder(S, <)[i])
    <3> HIDE DEF P
    <3> QED
      BY <2>1, <2>2
  <2> QED
    BY <1>3, <2>3
<1>5. InOrder(S, <) = [i \in 1 .. Cardinality(S) |-> InOrder(S, <)[i]]
  <2> DEFINE place(i) == CHOOSE x \in S : Cardinality({y \in S : y < x}) = i - 1
  <2>1. InOrder(S, <) = [i \in 1 .. Cardinality(S) |-> place(i)]
    BY DEF InOrder
  <2> HIDE DEF place
  <2> QED
    BY <2>1
<1>6. InOrder(S, <) \in [1 .. Cardinality(S) -> S]
  BY <1>4, <1>5
<1> QED
  BY <1>2, <1>4, <1>6 DEF Lists

(* A sublist: where it takes its elements from.                            *)
LEMMA SublistFacts ==
  ASSUME NEW A, NEW s \in Seq(A), NEW D, D \subseteq DOMAIN s
  PROVE  \E kept \in [1 .. Cardinality(D) -> D] :
           /\ Cardinality(D) \in Nat /\ IsFiniteSet(D)
           /\ Range(kept) = D
           /\ \A k, l \in 1 .. Cardinality(D) : k < l => kept[k] < kept[l]
           /\ \A k, l \in 1 .. Cardinality(D) : kept[k] = kept[l] => k = l
           /\ Sublist(s, D) = [k \in 1 .. Cardinality(D) |-> s[kept[k]]]
           /\ Sublist(s, D) \in Seq(A)
<1> DEFINE kept == InOrder(D, <)
           n    == Cardinality(D)
<1>1. DOMAIN s = 1 .. Len(s) /\ Len(s) \in Nat /\ \A i \in 1 .. Len(s) : s[i] \in A
  OBVIOUS
<1>2. Sublist(s, D) = [k \in DOMAIN kept |-> s[kept[k]]]
  BY DEF Sublist
<1> HIDE DEF kept, n
<1>3. IsFiniteSet(D) /\ D \subseteq Nat
  <2>1. \A m \in Nat : IsFiniteSet(1 .. m) /\ 1 .. m \subseteq Nat
    BY FS_Interval
  <2>2. IsFiniteSet(1 .. Len(s)) /\ D \subseteq Nat
    BY <1>1, <2>1
  <2> QED
    BY <1>1, <2>2, FS_Subset
<1>4. StrictOrder(LessThan, D) /\ Lists(kept, D, LessThan)
  BY <1>3, NaturalsInOrder DEF kept
<1>5. /\ n \in Nat /\ DOMAIN kept = 1 .. n /\ Range(kept) = D
      /\ \A i, j \in DOMAIN kept : i < j => <<kept[i], kept[j]>> \in LessThan
      /\ \A i, j \in DOMAIN kept : kept[i] = kept[j] => i = j
  BY <1>3, <1>4, ListingFacts DEF n
<1>6. kept \in [1 .. n -> D]
  BY <1>4 DEF Lists, n
<1>7. \A k, l \in 1 .. n : k < l => kept[k] < kept[l]
  BY <1>5 DEF LessThan
<1>8. Sublist(s, D) = [k \in 1 .. n |-> s[kept[k]]]
  BY <1>2, <1>5
<1>9. \A k \in 1 .. n : s[kept[k]] \in A
  BY <1>1, <1>6
<1>10. Sublist(s, D) \in Seq(A)
  BY <1>5, <1>8, <1>9
<1> QED
  BY <1>3, <1>5, <1>6, <1>7, <1>8, <1>10 DEF n

(* Picking keeps what is in the set, and the order.                        *)
LEMMA PickFacts ==
  ASSUME NEW A, NEW s \in Seq(A), NEW S
  PROVE  /\ Pick(s, S) \in Seq(A)
         /\ \A e : e \in Range(Pick(s, S)) <=> e \in Range(s) /\ e \in S
         /\ \A k \in DOMAIN Pick(s, S) : \A l \in DOMAIN Pick(s, S) :
              k < l => \E i, j \in DOMAIN s :
                         i < j /\ s[i] = Pick(s, S)[k] /\ s[j] = Pick(s, S)[l]
<1> DEFINE D == {i \in DOMAIN s : s[i] \in S}
           n == Cardinality(D)
           f == Pick(s, S)
<1>1. D \subseteq DOMAIN s /\ (\A i \in D : s[i] \in S) /\ \A i \in DOMAIN s : s[i] \in S => i \in D
  OBVIOUS
<1>2. f = Sublist(s, D)
  BY DEF Pick
<1> HIDE DEF D, n, f
<1>3. PICK kept \in [1 .. n -> D] :
        /\ n \in Nat /\ Range(kept) = D
        /\ \A k, l \in 1 .. n : k < l => kept[k] < kept[l]
        /\ f = [k \in 1 .. n |-> s[kept[k]]] /\ f \in Seq(A)
  BY <1>1, <1>2, SublistFacts DEF n
<1>4. DOMAIN f = 1 .. n /\ \A k \in 1 .. n : f[k] = s[kept[k]]
  BY <1>3
<1>5. \A k \in 1 .. n : kept[k] \in DOMAIN s /\ s[kept[k]] \in S
  BY <1>1, <1>3
<1>6. ASSUME NEW e \in Range(f) PROVE e \in Range(s) /\ e \in S
  <2>1. PICK k \in 1 .. n : e = s[kept[k]]
    BY <1>4, <1>6 DEF Range
  <2> QED
    BY <1>5, <2>1 DEF Range
<1>7. ASSUME NEW e \in Range(s), e \in S PROVE e \in Range(f)
  <2>1. PICK i \in DOMAIN s : e = s[i]
    BY <1>7 DEF Range
  <2>2. PICK k \in 1 .. n : i = kept[k]
    BY <1>1, <1>3, <1>7, <2>1 DEF Range
  <2> QED
    BY <1>4, <2>1, <2>2 DEF Range
<1>8. ASSUME NEW k \in DOMAIN f, NEW l \in DOMAIN f, k < l
      PROVE  \E i, j \in DOMAIN s : i < j /\ s[i] = f[k] /\ s[j] = f[l]
  <2>1. kept[k] < kept[l]
    BY <1>3, <1>4, <1>8
  <2> QED
    BY <1>4, <1>5, <2>1
<1> QED
  BY <1>3, <1>6, <1>7, <1>8 DEF f

(* Pick returns elements of the list that are in the set.                  *)
LEMMA PickType ==
  ASSUME NEW A, NEW s \in Seq(A), NEW S
  PROVE  Pick(s, S) \in Seq(A \cap S)
<1> DEFINE f == Pick(s, S)
<1>1. f \in Seq(A) /\ \A e : e \in Range(f) => e \in S
  BY PickFacts
<1> HIDE DEF f
<1>2. \A k \in 1 .. Len(f) : f[k] \in A /\ f[k] \in S
  BY <1>1 DEF Range
<1>3. Len(f) \in Nat /\ f = [k \in 1 .. Len(f) |-> f[k]]
  BY <1>1
<1> QED
  BY <1>2, <1>3 DEF f

(***************************************************************************)
(* A stable sort by a weak order W.                                        *)
(***************************************************************************)
WeakOrder(W, A) ==
  /\ \A x, y \in A : <<x, y>> \in W => <<y, x>> \notin W
  /\ \A x, y, z \in A : <<x, z>> \in W => <<x, y>> \in W \/ <<y, z>> \in W

Ahead(s, W) ==
  {p \in Nat \X Nat :
     \/ <<s[p[1]], s[p[2]]>> \in W
     \/ <<s[p[2]], s[p[1]]>> \notin W /\ p[1] < p[2]}

(* Which of two positions a stable sort puts ahead.                        *)
LEMMA AheadIff ==
  ASSUME NEW s, NEW W, NEW i \in Nat, NEW j \in Nat
  PROVE  <<i, j>> \in Ahead(s, W) <=>
           <<s[i], s[j]>> \in W \/ (<<s[j], s[i]>> \notin W /\ i < j)
<1> DEFINE p == <<i, j>>
<1>1. p \in Nat \X Nat /\ p[1] = i /\ p[2] = j
  OBVIOUS
<1> HIDE DEF p
<1>2. p \in Ahead(s, W) <=>
        \/ <<s[p[1]], s[p[2]]>> \in W
        \/ <<s[p[2]], s[p[1]]>> \notin W /\ p[1] < p[2]
  BY <1>1, Zenon DEF Ahead
<1>3. p \in Ahead(s, W) <=>
        <<s[i], s[j]>> \in W \/ (<<s[j], s[i]>> \notin W /\ i < j)
  BY <1>1, <1>2
<1> QED
  BY <1>3 DEF p

(* The positions of a sequence, in the order of a stable sort, are a       *)
(* strict order.                                                           *)
LEMMA AheadOrder ==
  ASSUME NEW A, NEW s \in Seq(A), NEW W, WeakOrder(W, A)
  PROVE  StrictOrder(Ahead(s, W), DOMAIN s) /\ IsFiniteSet(DOMAIN s)
<1>1. DOMAIN s = 1 .. Len(s) /\ Len(s) \in Nat /\ \A i \in DOMAIN s : s[i] \in A
  OBVIOUS
<1>2. \A i, j \in DOMAIN s :
        <<i, j>> \in Ahead(s, W) <=>
          <<s[i], s[j]>> \in W \/ (<<s[j], s[i]>> \notin W /\ i < j)
  <2> SUFFICES ASSUME NEW i \in DOMAIN s, NEW j \in DOMAIN s
               PROVE  <<i, j>> \in Ahead(s, W) <=>
                        <<s[i], s[j]>> \in W \/ (<<s[j], s[i]>> \notin W /\ i < j)
    OBVIOUS
  <2>1. i \in Nat /\ j \in Nat
    BY <1>1
  <2> QED
    BY <2>1, AheadIff
<1>3. \A i \in DOMAIN s : <<i, i>> \notin Ahead(s, W)
  <2> SUFFICES ASSUME NEW i \in DOMAIN s PROVE <<i, i>> \notin Ahead(s, W)
    OBVIOUS
  <2>1. s[i] \in A /\ ~ (i < i)
    BY <1>1
  <2>2. <<s[i], s[i]>> \notin W
    BY <2>1 DEF WeakOrder
  <2> QED
    BY <1>2, <2>1, <2>2
<1>4. ASSUME NEW i \in DOMAIN s, NEW j \in DOMAIN s, NEW k \in DOMAIN s,
             <<i, j>> \in Ahead(s, W), <<j, k>> \in Ahead(s, W)
      PROVE  <<i, k>> \in Ahead(s, W)
  <2>1. /\ <<s[i], s[j]>> \in W \/ (<<s[j], s[i]>> \notin W /\ i < j)
        /\ <<s[j], s[k]>> \in W \/ (<<s[k], s[j]>> \notin W /\ j < k)
    BY <1>2, <1>4
  <2>2. s[i] \in A /\ s[j] \in A /\ s[k] \in A /\ i \in Nat /\ j \in Nat /\ k \in Nat
    BY <1>1
  <2> DEFINE a == s[i]
             b == s[j]
             c == s[k]
  <2> HIDE DEF a, b, c
  <2>3. <<a, c>> \in W \/ (<<c, a>> \notin W /\ i < k)
    <3>1. /\ <<a, b>> \in W \/ (<<b, a>> \notin W /\ i < j)
          /\ <<b, c>> \in W \/ (<<c, b>> \notin W /\ j < k)
          /\ a \in A /\ b \in A /\ c \in A
      BY <2>1, <2>2 DEF a, b, c
    <3>2. /\ <<a, b>> \in W => <<b, a>> \notin W
          /\ <<b, c>> \in W => <<c, b>> \notin W
          /\ <<c, a>> \in W => <<c, b>> \in W \/ <<b, a>> \in W
          /\ <<a, b>> \in W => <<a, c>> \in W \/ <<c, b>> \in W
          /\ <<b, c>> \in W => <<b, a>> \in W \/ <<a, c>> \in W
      BY <3>1 DEF WeakOrder
    <3> QED
      BY <2>2, <3>1, <3>2
  <2> QED
    BY <1>2, <2>3 DEF a, c
<1>5. ASSUME NEW i \in DOMAIN s, NEW j \in DOMAIN s, i # j
      PROVE  <<i, j>> \in Ahead(s, W) \/ <<j, i>> \in Ahead(s, W)
  <2>1. i \in Nat /\ j \in Nat /\ (i < j \/ j < i)
    BY <1>1, <1>5
  <2> QED
    BY <1>2, <2>1
<1>6. IsFiniteSet(DOMAIN s)
  BY <1>1, FS_Interval
<1> QED
  BY <1>3, <1>4, <1>5, <1>6 DEF StrictOrder

(* A stable sort keeps the elements and leaves none after a greater one.   *)
LEMMA StableSortFacts ==
  ASSUME NEW A, NEW s \in Seq(A), NEW W, WeakOrder(W, A),
         NEW order, Lists(order, DOMAIN s, Ahead(s, W)),
         NEW f, f = [k \in DOMAIN order |-> s[order[k]]]
  PROVE  /\ f \in Seq(A) /\ Len(f) = Len(s) /\ Range(f) = Range(s)
         /\ \A i, j \in DOMAIN f : i < j => <<f[j], f[i]>> \notin W
<1> DEFINE D == DOMAIN s
           R == Ahead(s, W)
<1>1. DOMAIN s = 1 .. Len(s) /\ Len(s) \in Nat /\ \A i \in 1 .. Len(s) : s[i] \in A
  OBVIOUS
<1>2. StrictOrder(R, D) /\ IsFiniteSet(D) /\ Lists(order, D, R)
  BY AheadOrder
<1>3. Cardinality(D) = Len(s)
  <2>1. \A n \in Nat : Cardinality(1 .. n) = n
    BY FS_Interval
  <2> QED
    BY <1>1, <2>1
<1> HIDE DEF R, D
<1>4. /\ DOMAIN order = 1 .. Cardinality(D) /\ Range(order) = D
      /\ \A i, j \in DOMAIN order : i < j => <<order[i], order[j]>> \in R
  BY <1>2, ListingFacts
<1>5. \A k \in 1 .. Len(s) : order[k] \in D
  BY <1>3, <1>4 DEF Range
<1>6. f \in Seq(A) /\ Len(f) = Len(s) /\ DOMAIN f = 1 .. Len(s)
  <2>1. DOMAIN f = 1 .. Len(s) /\ f = [k \in 1 .. Len(s) |-> s[order[k]]]
    BY <1>3, <1>4
  <2>2. \A k \in 1 .. Len(s) : s[order[k]] \in A
    BY <1>1, <1>5 DEF D
  <2> QED
    BY <1>1, <2>1, <2>2
<1>7. \A k \in 1 .. Len(s) : f[k] = s[order[k]]
  BY <1>3, <1>4
<1>8. Range(f) \subseteq Range(s)
  BY <1>5, <1>6, <1>7 DEF Range, D
<1>9. ASSUME NEW e \in Range(s) PROVE e \in Range(f)
  <2>1. PICK i \in D : e = s[i]
    BY <1>9 DEF Range, D
  <2>2. PICK k \in 1 .. Len(s) : i = order[k]
    BY <1>3, <1>4, <2>1 DEF Range
  <2> QED
    BY <1>6, <1>7, <2>1, <2>2 DEF Range
<1>10. ASSUME NEW i \in DOMAIN f, NEW j \in DOMAIN f, i < j
       PROVE  <<f[j], f[i]>> \notin W
  <2>1. <<order[i], order[j]>> \in R
    BY <1>3, <1>4, <1>6, <1>10
  <2>2. <<s[order[j]], s[order[i]]>> \notin W
    <3>1. \/ <<s[order[i]], s[order[j]]>> \in W
          \/ <<s[order[j]], s[order[i]]>> \notin W
      BY <2>1 DEF R, Ahead
    <3>2. s[order[i]] \in A /\ s[order[j]] \in A
      BY <1>1, <1>5, <1>6 DEF D
    <3> QED
      BY <3>1, <3>2 DEF WeakOrder
  <2> QED
    BY <1>6, <1>7, <2>2
<1> QED
  BY <1>6, <1>8, <1>9, <1>10

(* Flattening appends one sequence after the other: so materialize builds  *)
(* its edges from the lists of its sources, and so Pick is made.  The      *)
(* recursive function exists by induction over its domain.                 *)
LEMMA FlattenSteps ==
  ASSUME NEW A, NEW ss \in Seq(Seq(A))
  PROVE  \E F \in [0..Len(ss) -> Seq(A)] :
           /\ F[0] = <<>> /\ FlattenSeq(ss) = F[Len(ss)]
           /\ \A m \in 1..Len(ss) : F[m] = F[m - 1] \o ss[m]
<1> DEFINE Rec(m, f) == f = [i \in 1..m |-> IF i = 1 THEN ss[i] ELSE f[i - 1] \o ss[i]]
           Defined(m) == \E f \in [1..m -> Seq(A)] : Rec(m, f)
           D == {m \in Nat : m <= Len(ss) => Defined(m)}
           Goal(F) == /\ F \in [0..Len(ss) -> Seq(A)]
                      /\ F[0] = <<>> /\ FlattenSeq(ss) = F[Len(ss)]
                      /\ \A m \in 1..Len(ss) : F[m] = F[m - 1] \o ss[m]
<1>0. \A i \in 1..Len(ss) : ss[i] \in Seq(A)
  OBVIOUS
<1>1. 0 \in D
  <2> DEFINE g == [i \in 1..0 |-> <<>>]
  <2>1. g \in [1..0 -> Seq(A)] /\ Rec(0, g)
    OBVIOUS
  <2>2. Defined(0)
    BY <2>1
  <2> HIDE DEF Defined
  <2> QED BY <2>2
<1>2. \A m \in Nat : m \in D => m + 1 \in D
  <2> SUFFICES ASSUME NEW m \in Nat, Defined(m), m + 1 <= Len(ss)
               PROVE Defined(m + 1)
    <3> HIDE DEF Defined
    <3> QED OBVIOUS
  <2>1. PICK f \in [1..m -> Seq(A)] : Rec(m, f)
    OBVIOUS
  <2> DEFINE top == IF m = 0 THEN ss[1] ELSE f[m] \o ss[m + 1]
             g == [i \in 1..(m + 1) |-> IF i = m + 1 THEN top ELSE f[i]]
  <2>2. top \in Seq(A)
    <3>1. m + 1 \in 1..Len(ss) /\ ss[m + 1] \in Seq(A)
      BY <1>0
    <3>2. CASE m = 0
      BY <3>1, <3>2
    <3>3. CASE m # 0
      <4>1. f[m] \in Seq(A)
        BY <3>3
      <4> QED BY <3>1, <3>3, <4>1
    <3> QED BY <3>2, <3>3
  <2>3. g \in [1..(m + 1) -> Seq(A)]
    <3> HIDE DEF top
    <3>1. \A i \in 1..(m + 1) : i # m + 1 => i \in 1..m
      OBVIOUS
    <3> QED BY <2>2, <3>1
  <2>4. \A i \in 1..(m + 1) : g[i] = IF i = 1 THEN ss[i] ELSE g[i - 1] \o ss[i]
    <3> SUFFICES ASSUME NEW i \in 1..(m + 1)
                 PROVE g[i] = IF i = 1 THEN ss[i] ELSE g[i - 1] \o ss[i]
      OBVIOUS
    <3>1. CASE i = m + 1
      <4>1. g[i] = top
        BY <3>1
      <4>2. m # 0 => g[i - 1] = f[m]
        <5> HIDE DEF top
        <5> QED BY <3>1
      <4> HIDE DEF g
      <4> QED BY <3>1, <4>1, <4>2
    <3>2. CASE i # m + 1
      <4>1. i \in 1..m
        BY <3>2
      <4>2. f[i] = IF i = 1 THEN ss[i] ELSE f[i - 1] \o ss[i]
        BY <2>1, <4>1
      <4>3. i # 1 => i - 1 \in 1..(m + 1) /\ i - 1 # m + 1
        BY <4>1
      <4>4. g[i] = f[i] /\ (i # 1 => g[i - 1] = f[i - 1])
        <5> HIDE DEF top
        <5> QED BY <3>2, <4>1, <4>3
      <4> HIDE DEF g
      <4> QED BY <4>2, <4>4
    <3> QED BY <3>1, <3>2
  <2>5. Rec(m + 1, g)
    <3> DEFINE h == [i \in 1..(m + 1) |-> IF i = 1 THEN ss[i] ELSE g[i - 1] \o ss[i]]
    <3>1. DOMAIN g = 1..(m + 1) /\ DOMAIN h = 1..(m + 1)
      OBVIOUS
    <3>2. \A i \in 1..(m + 1) : g[i] = h[i]
      BY <2>4
    <3>3. g = h
      <4>1. g = [i \in 1..(m + 1) |-> g[i]] /\ h = [i \in 1..(m + 1) |-> h[i]]
        OBVIOUS
      <4> HIDE DEF g, h
      <4> QED BY <3>2, <4>1
    <3> QED BY <3>3
  <2> HIDE DEF g
  <2> QED BY <2>3, <2>5
<1>3. \A m \in Nat : m \in D
  <2> HIDE DEF D
  <2> QED BY <1>1, <1>2, NatSetInduction
<1>4. CASE Len(ss) = 0
  <2> DEFINE F == [m \in 0..0 |-> <<>>]
  <2>1. ss = <<>>
    BY <1>4
  <2>2. FlattenSeq(ss) = <<>>
    BY <1>4, <2>1 DEF FlattenSeq
  <2>3. F \in [0..Len(ss) -> Seq(A)] /\ F[0] = <<>> /\ 1..Len(ss) = {}
    BY <1>4
  <2>4. Goal(F)
    <3> HIDE DEF F
    <3> QED BY <1>4, <2>2, <2>3
  <2> HIDE DEF F
  <2> QED BY <2>4
<1>5. CASE Len(ss) # 0
  <2> DEFINE flatten == CHOOSE f : Rec(Len(ss), f)
             F == [m \in 0..Len(ss) |-> IF m = 0 THEN <<>> ELSE flatten[m]]
             Typed(m) == m \in 1..Len(ss) => flatten[m] \in Seq(A)
             E == {m \in Nat : Typed(m)}
  <2>1. FlattenSeq(ss) = flatten[Len(ss)]
    BY <1>5 DEF FlattenSeq
  <2>2. Defined(Len(ss))
    <3> HIDE DEF Defined
    <3> QED BY <1>3
  <2>3. Rec(Len(ss), flatten)
    BY <2>2
  <2> HIDE DEF flatten
  <2>4. \A m \in Nat : m + 1 \in 1..Len(ss) =>
          flatten[m + 1] = IF m = 0 THEN ss[m + 1] ELSE flatten[m] \o ss[m + 1]
    <3> SUFFICES ASSUME NEW m \in Nat, m + 1 \in 1..Len(ss)
                 PROVE flatten[m + 1] = IF m = 0 THEN ss[m + 1] ELSE flatten[m] \o ss[m + 1]
      OBVIOUS
    <3>1. flatten[m + 1] = IF m + 1 = 1 THEN ss[m + 1] ELSE flatten[(m + 1) - 1] \o ss[m + 1]
      BY <2>3
    <3>2. (m + 1 = 1 <=> m = 0) /\ (m + 1) - 1 = m
      OBVIOUS
    <3> QED BY <3>1, <3>2
  <2>5. 0 \in E
    OBVIOUS
  <2>6. \A m \in Nat : m \in E => m + 1 \in E
    <3> SUFFICES ASSUME NEW m \in Nat, Typed(m), m + 1 \in 1..Len(ss)
                 PROVE flatten[m + 1] \in Seq(A)
      <4> SUFFICES ASSUME NEW m \in Nat, Typed(m) PROVE Typed(m + 1)
        <5> HIDE DEF Typed
        <5> QED OBVIOUS
      <4> QED OBVIOUS
    <3>1. ss[m + 1] \in Seq(A)
      BY <1>0
    <3>2. CASE m = 0
      BY <2>4, <3>1, <3>2
    <3>3. CASE m # 0
      <4>1. flatten[m] \in Seq(A)
        BY <3>3
      <4>2. flatten[m + 1] = flatten[m] \o ss[m + 1]
        BY <2>4, <3>3
      <4> QED BY <3>1, <4>1, <4>2
    <3> QED BY <3>2, <3>3
  <2>7. \A m \in Nat : m \in E
    <3> HIDE DEF E
    <3> QED BY <2>5, <2>6, NatSetInduction
  <2>8. F \in [0..Len(ss) -> Seq(A)]
    <3>1. \A m \in 0..Len(ss) : m # 0 => flatten[m] \in Seq(A)
      BY <2>7
    <3>2. <<>> \in Seq(A)
      OBVIOUS
    <3> QED BY <3>1, <3>2
  <2>9. F[0] = <<>> /\ FlattenSeq(ss) = F[Len(ss)]
    BY <1>5, <2>1
  <2>10. \A m \in 1..Len(ss) : F[m] = F[m - 1] \o ss[m]
    <3> SUFFICES ASSUME NEW m \in 1..Len(ss) PROVE F[m] = F[m - 1] \o ss[m]
      OBVIOUS
    <3>1. m - 1 \in Nat /\ (m - 1) + 1 = m
      OBVIOUS
    <3>2. flatten[m] = IF m - 1 = 0 THEN ss[m] ELSE flatten[m - 1] \o ss[m]
      BY <2>4, <3>1
    <3>3. F[m] = flatten[m] /\ F[m - 1] = IF m - 1 = 0 THEN <<>> ELSE flatten[m - 1]
      OBVIOUS
    <3>4. ss[m] = <<>> \o ss[m]
      <4>1. ss[m] \in Seq(A)
        BY <1>0
      <4> QED BY <4>1
    <3> QED BY <3>2, <3>3, <3>4
  <2>11. Goal(F)
    <3> HIDE DEF F
    <3> QED BY <2>8, <2>9, <2>10
  <2> HIDE DEF F
  <2> QED BY <2>11
<1> QED BY <1>4, <1>5

(* Flattening a sequence of sequences over A gives a sequence over A.      *)
LEMMA FlattenSeqType ==
  ASSUME NEW A, NEW ss \in Seq(Seq(A))
  PROVE  FlattenSeq(ss) \in Seq(A)
<1>1. PICK F \in [0..Len(ss) -> Seq(A)] : FlattenSeq(ss) = F[Len(ss)]
  BY FlattenSteps
<1>2. Len(ss) \in 0..Len(ss)
  OBVIOUS
<1> QED BY <1>1, <1>2

(***************************************************************************)
(* How often a list names an element of a set.                             *)
(***************************************************************************)
Places(s, T) == {i \in DOMAIN s : s[i] \in T}
Occurs(s, T) == Cardinality(Places(s, T))

(* Two sets with a one-to-one function between them have one size.         *)
LEMMA SameSize ==
  ASSUME NEW S, NEW T, NEW f \in [S -> T], IsFiniteSet(S),
         \A a, b \in S : f[a] = f[b] => a = b,
         \A t \in T : \E a \in S : f[a] = t
  PROVE  IsFiniteSet(T) /\ Cardinality(T) = Cardinality(S)
<1>1. f \in Bijection(S, T)
  BY DEF Bijection, Injection, Surjection, IsInjective
<1>2. ExistsBijection(S, T)
  BY <1>1 DEF ExistsBijection
<1> QED BY <1>2, FS_Bijection

(* The places of a list are finitely many.                                 *)
LEMMA OccursType ==
  ASSUME NEW A, NEW s \in Seq(A), NEW T
  PROVE  /\ DOMAIN s = 1..Len(s) /\ Len(s) \in Nat
         /\ IsFiniteSet(Places(s, T)) /\ Occurs(s, T) \in Nat
<1>1. DOMAIN s = 1..Len(s) /\ Len(s) \in Nat
  OBVIOUS
<1>2. IsFiniteSet(1..Len(s)) /\ Places(s, T) \subseteq 1..Len(s)
  BY <1>1, FS_Interval DEF Places
<1>3. IsFiniteSet(Places(s, T))
  BY <1>2, FS_Subset
<1> QED BY <1>1, <1>3, FS_CardinalityType DEF Occurs

(* Lists of no element and of one.                                         *)
LEMMA OccursUnit ==
  ASSUME NEW a, NEW T
  PROVE  Occurs(<<>>, T) = 0 /\ Occurs(<<a>>, T) = IF a \in T THEN 1 ELSE 0
<1>1. Places(<<>>, T) = {} /\ Places(<<a>>, T) = IF a \in T THEN {1} ELSE {}
  BY DEF Places
<1>2. Cardinality({}) = 0 /\ Cardinality({1}) = 1
  BY FS_EmptySet, FS_Singleton
<1> QED BY <1>1, <1>2 DEF Occurs

(* The occurrences in two lists add up.                                    *)
LEMMA OccursConcat ==
  ASSUME NEW A, NEW s \in Seq(A), NEW t \in Seq(A), NEW T
  PROVE  Occurs(s \o t, T) = Occurs(s, T) + Occurs(t, T)
<1> DEFINE n == Len(s)
           P == Places(s, T)
           Q == Places(t, T)
           R == {j \in (n + 1)..(n + Len(t)) : t[j - n] \in T}
           f == [i \in Q |-> i + n]
<1>1. /\ n \in Nat /\ Len(t) \in Nat /\ DOMAIN s = 1..n /\ DOMAIN t = 1..Len(t)
      /\ DOMAIN (s \o t) = 1..(n + Len(t))
      /\ \A i \in 1..(n + Len(t)) : (s \o t)[i] = IF i <= n THEN s[i] ELSE t[i - n]
  OBVIOUS
<1>2. IsFiniteSet(P) /\ IsFiniteSet(Q)
  BY OccursType
<1> HIDE DEF n
<1>3. f \in [Q -> R]
  BY <1>1 DEF Places
<1>4. \A a, b \in Q : f[a] = f[b] => a = b
  BY <1>1 DEF Places
<1>5. \A j \in R : \E a \in Q : f[a] = j
  <2> SUFFICES ASSUME NEW j \in R PROVE \E a \in Q : f[a] = j
    OBVIOUS
  <2>1. j - n \in Q /\ (j - n) + n = j
    BY <1>1 DEF Places
  <2> QED BY <2>1
<1>6. Places(s \o t, T) = P \cup R /\ P \cap R = {}
  BY <1>1 DEF Places
<1> HIDE DEF P, Q, R, f
<1>7. IsFiniteSet(R) /\ Cardinality(R) = Cardinality(Q)
  BY <1>2, <1>3, <1>4, <1>5, SameSize
<1>8. Cardinality(P \cup R) = Cardinality(P) + Cardinality(R) - Cardinality({})
  BY <1>2, <1>6, <1>7, FS_Union
<1>9. /\ Cardinality({}) = 0 /\ Cardinality(P) \in Nat /\ Cardinality(R) \in Nat
  BY <1>2, <1>7, FS_EmptySet, FS_CardinalityType
<1>10. Cardinality(P \cup R) = Cardinality(P) + Cardinality(Q)
  BY <1>7, <1>8, <1>9
<1> QED BY <1>6, <1>10 DEF Occurs, P, Q

(* Reading a list backwards finds the same elements.                       *)
LEMMA OccursReverse ==
  ASSUME NEW A, NEW s \in Seq(A), NEW T
  PROVE  Reverse(s) \in Seq(A) /\ Occurs(Reverse(s), T) = Occurs(s, T)
<1> DEFINE n == Len(s)
           P == Places(s, T)
           R == Places(Reverse(s), T)
           f == [i \in P |-> (n - i) + 1]
<1>1. /\ n \in Nat /\ DOMAIN s = 1..n /\ Reverse(s) \in Seq(A) /\ DOMAIN Reverse(s) = 1..n
      /\ \A i \in 1..n : s[i] \in A /\ Reverse(s)[i] = s[(n - i) + 1] /\ (n - i) + 1 \in 1..n
  BY DEF Reverse
<1>2. IsFiniteSet(P)
  BY OccursType
<1> HIDE DEF n
<1>3. f \in [P -> R]
  <2> SUFFICES ASSUME NEW i \in P PROVE (n - i) + 1 \in R
    OBVIOUS
  <2>1. i \in 1..n /\ s[i] \in T
    BY <1>1 DEF Places
  <2>2. (n - i) + 1 \in 1..n /\ (n - ((n - i) + 1)) + 1 = i
    BY <1>1, <2>1
  <2>3. Reverse(s)[(n - i) + 1] = s[i]
    BY <1>1, <2>2
  <2> QED BY <1>1, <2>1, <2>2, <2>3 DEF Places
<1>4. \A a, b \in P : f[a] = f[b] => a = b
  BY <1>1 DEF Places
<1>5. \A j \in R : \E a \in P : f[a] = j
  <2> SUFFICES ASSUME NEW j \in R PROVE \E a \in P : f[a] = j
    OBVIOUS
  <2>1. j \in 1..n /\ s[(n - j) + 1] \in T /\ (n - j) + 1 \in 1..n
    BY <1>1 DEF Places
  <2>2. (n - j) + 1 \in P /\ (n - ((n - j) + 1)) + 1 = j
    BY <1>1, <2>1 DEF Places
  <2> QED BY <2>2
<1> HIDE DEF P, R, f
<1>6. Cardinality(R) = Cardinality(P)
  BY <1>2, <1>3, <1>4, <1>5, SameSize
<1> QED BY <1>1, <1>6 DEF Occurs, P, R

(* Pick keeps the occurrences of what is in the set, and those only.       *)
LEMMA OccursPick ==
  ASSUME NEW A, NEW s \in Seq(A), NEW S, NEW T
  PROVE  Occurs(Pick(s, S), T) = Occurs(s, S \cap T)
<1> DEFINE D == {i \in DOMAIN s : s[i] \in S}
           n == Cardinality(D)
           f == Pick(s, S)
           P == Places(f, T)
           Q == Places(s, S \cap T)
<1>1. D \subseteq DOMAIN s /\ (\A i \in D : s[i] \in S) /\ \A i \in DOMAIN s : s[i] \in S => i \in D
  OBVIOUS
<1>2. f = Sublist(s, D)
  BY DEF Pick
<1> HIDE DEF D, n, f
<1>3. PICK kept \in [1 .. n -> D] :
        /\ n \in Nat /\ Range(kept) = D
        /\ \A k, l \in 1 .. n : kept[k] = kept[l] => k = l
        /\ f = [k \in 1 .. n |-> s[kept[k]]] /\ f \in Seq(A)
  BY <1>1, <1>2, SublistFacts DEF n
<1>4. DOMAIN f = 1 .. n /\ \A k \in 1 .. n : f[k] = s[kept[k]]
  BY <1>3
<1>5. IsFiniteSet(P)
  BY <1>3, OccursType
<1>6. \A k : k \in P <=> k \in 1 .. n /\ s[kept[k]] \in T
  BY <1>4 DEF Places
<1>7. \A i : i \in Q <=> i \in D /\ s[i] \in T
  BY <1>1 DEF Places
<1> DEFINE g == [k \in P |-> kept[k]]
<1> HIDE DEF P, Q
<1>8. g \in [P -> Q]
  BY <1>3, <1>6, <1>7
<1>9. \A a, b \in P : g[a] = g[b] => a = b
  BY <1>3, <1>6
<1>10. ASSUME NEW i \in Q PROVE \E a \in P : g[a] = i
  <2>1. PICK k \in 1 .. n : kept[k] = i
    BY <1>3, <1>7 DEF Range
  <2> QED
    BY <1>6, <1>7, <2>1
<1> HIDE DEF g
<1>11. Cardinality(Q) = Cardinality(P)
  BY <1>5, <1>8, <1>9, <1>10, SameSize
<1> QED
  BY <1>11 DEF Occurs, P, Q, f

(* One element more at the end of a list.                                  *)
LEMMA OccursAppend ==
  ASSUME NEW A, NEW s \in Seq(A), NEW a \in A, NEW T
  PROVE  Occurs(Append(s, a), T) = Occurs(s, T) + (IF a \in T THEN 1 ELSE 0)
<1>1. Append(s, a) = s \o <<a>> /\ <<a>> \in Seq(A)
  OBVIOUS
<1>2. Occurs(s \o <<a>>, T) = Occurs(s, T) + Occurs(<<a>>, T)
  BY <1>1, OccursConcat
<1>3. Occurs(<<a>>, T) = IF a \in T THEN 1 ELSE 0
  BY OccursUnit
<1> QED BY <1>1, <1>2, <1>3

AtMostOnce(s, p) == Occurs(s, {p}) = 0 \/ Occurs(s, {p}) = 1

(* An element that occurs at most once has at most one place.              *)
LEMMA OccursOnce ==
  ASSUME NEW A, NEW s \in Seq(A), NEW p, AtMostOnce(s, p)
  PROVE  /\ Occurs(s, {p}) = 1 <=> \E i \in 1..Len(s) : s[i] = p
         /\ \A i, j \in 1..Len(s) : s[i] = p /\ s[j] = p => i = j
<1> DEFINE P == Places(s, {p})
<1>1. P = {i \in 1..Len(s) : s[i] = p}
  BY DEF Places
<1>2. IsFiniteSet(P) /\ Cardinality(P) = Occurs(s, {p})
  BY OccursType DEF Occurs
<1> HIDE DEF P
<1>3. Cardinality(P) = 0 <=> P = {}
  BY <1>2, FS_EmptySet
<1>4. Cardinality(P) = 1 <=> \E x : P = {x}
  BY <1>2, FS_Singleton
<1>5. Occurs(s, {p}) = 1 <=> \E i \in 1..Len(s) : s[i] = p
  BY <1>1, <1>2, <1>3 DEF AtMostOnce
<1>6. ASSUME NEW i \in 1..Len(s), NEW j \in 1..Len(s), s[i] = p, s[j] = p PROVE i = j
  BY <1>1, <1>2, <1>4, <1>5, <1>6
<1> QED BY <1>5, <1>6

(* The list is what g makes of s, a list of elements of P without          *)
(* repetitions; Q has those elements of s that g takes into T.             *)
IsImage(list, g, s, P, T, Q) ==
  /\ s \in Seq(P) /\ \A p \in P : AtMostOnce(s, p)
  /\ DOMAIN list = 1..Len(s) /\ \A i \in 1..Len(s) : list[i] = g[s[i]]
  /\ Q \subseteq P /\ \A p \in P : p \in Q <=> Occurs(s, {p}) = 1 /\ g[p] \in T

(* The occurrences in the image of a list without repetitions.             *)
LEMMA OccursMapped ==
  ASSUME NEW list, NEW g, NEW s, NEW P, NEW T, NEW Q, IsImage(list, g, s, P, T, Q)
  PROVE  Occurs(list, T) = Cardinality(Q)
<1> DEFINE S == Places(list, T)
           f == [i \in S |-> s[i]]
<1>0. /\ s \in Seq(P) /\ \A p \in P : AtMostOnce(s, p)
      /\ DOMAIN list = 1..Len(s) /\ \A i \in 1..Len(s) : list[i] = g[s[i]]
      /\ Q \subseteq P /\ \A p \in P : p \in Q <=> Occurs(s, {p}) = 1 /\ g[p] \in T
  BY DEF IsImage
<1>1. Len(s) \in Nat /\ \A i \in 1..Len(s) : s[i] \in P
  BY <1>0
<1>2. S = {i \in 1..Len(s) : g[s[i]] \in T}
  BY <1>0 DEF Places
<1>3. IsFiniteSet(S)
  <2>1. IsFiniteSet(1..Len(s)) /\ S \subseteq 1..Len(s)
    BY <1>1, <1>2, FS_Interval
  <2> HIDE DEF S
  <2> QED BY <2>1, FS_Subset
<1>4. \A p \in P : /\ Occurs(s, {p}) = 1 <=> \E i \in 1..Len(s) : s[i] = p
                   /\ \A i, j \in 1..Len(s) : s[i] = p /\ s[j] = p => i = j
  <2> SUFFICES ASSUME NEW p \in P
               PROVE /\ Occurs(s, {p}) = 1 <=> \E i \in 1..Len(s) : s[i] = p
                     /\ \A i, j \in 1..Len(s) : s[i] = p /\ s[j] = p => i = j
    OBVIOUS
  <2> QED BY <1>0, OccursOnce
<1> HIDE DEF S
<1>5. f \in [S -> Q]
  BY <1>0, <1>1, <1>2, <1>4
<1>6. \A a, b \in S : f[a] = f[b] => a = b
  BY <1>1, <1>2, <1>4
<1>7. \A p \in Q : \E a \in S : f[a] = p
  BY <1>0, <1>2, <1>4
<1> HIDE DEF f
<1>8. Cardinality(Q) = Cardinality(S)
  BY <1>3, <1>5, <1>6, <1>7, SameSize
<1> QED BY <1>8 DEF Occurs, S

(***************************************************************************)
(* Sorts: a list in another order.                                         *)
(***************************************************************************)
(* The elements of a list.                                                 *)
LEMMA SeqElements ==
  ASSUME NEW A, NEW s \in Seq(A)
  PROVE  DOMAIN s = 1 .. Len(s) /\ Len(s) \in Nat /\ \A i \in DOMAIN s : s[i] \in A
OBVIOUS

(* f is s in another order, none before a lesser one.                      *)
Reordered(f, s, order) ==
  /\ order \in [1 .. Len(s) -> 1 .. Len(s)]
  /\ \A k, l \in 1 .. Len(s) : order[k] = order[l] => k = l
  /\ \A i \in 1 .. Len(s) : \E k \in 1 .. Len(s) : order[k] = i
  /\ \A k \in 1 .. Len(s) : f[k] = s[order[k]]

SortOf(f, s, A, W) ==
  /\ f \in Seq(A) /\ Len(f) = Len(s) /\ DOMAIN f = 1 .. Len(s)
  /\ \E order : Reordered(f, s, order)
  /\ \A i, j \in 1 .. Len(s) : i < j => <<f[j], f[i]>> \notin W

(* A stable sort sorts.                                                    *)
LEMMA StableSort ==
  ASSUME NEW A, NEW s \in Seq(A), NEW W, WeakOrder(W, A),
         NEW order, Lists(order, DOMAIN s, Ahead(s, W)),
         NEW f, f = [k \in DOMAIN order |-> s[order[k]]]
  PROVE  SortOf(f, s, A, W)
<1>1. /\ f \in Seq(A) /\ Len(f) = Len(s)
      /\ \A i, j \in DOMAIN f : i < j => <<f[j], f[i]>> \notin W
  BY StableSortFacts
<1>2. DOMAIN s = 1 .. Len(s) /\ DOMAIN f = 1 .. Len(s) /\ Len(s) \in Nat
  BY <1>1, SeqElements, Zenon
<1>3. Cardinality(1 .. Len(s)) = Len(s)
  <2>1. \A n \in Nat : Cardinality(1 .. n) = n
    BY FS_Interval
  <2> QED
    BY <1>2, <2>1
<1>4. StrictOrder(Ahead(s, W), DOMAIN s) /\ IsFiniteSet(DOMAIN s)
  BY AheadOrder
<1>5. /\ DOMAIN order = 1 .. Len(s) /\ Range(order) = 1 .. Len(s)
      /\ \A i, j \in DOMAIN order : order[i] = order[j] => i = j
  BY <1>2, <1>3, <1>4, ListingFacts
<1>6. order \in [1 .. Len(s) -> 1 .. Len(s)]
  BY <1>2, <1>3 DEF Lists
<1>7. Reordered(f, s, order)
  BY <1>5, <1>6 DEF Reordered, Range
<1> QED
  BY <1>1, <1>2, <1>7 DEF SortOf

(* An image of a list is in T where the list is in S.                      *)
LEMMA OccursImage ==
  ASSUME NEW s, NEW f, DOMAIN f = DOMAIN s, NEW S, NEW T,
         \A k \in DOMAIN s : f[k] \in T <=> s[k] \in S
  PROVE  Places(f, T) = Places(s, S) /\ Occurs(f, T) = Occurs(s, S)
<1>1. Places(f, T) = Places(s, S)
  BY DEF Places
<1> QED
  BY <1>1 DEF Occurs

(* Edges that are taken for the same.                                      *)
LEMMA OccursSame ==
  ASSUME NEW s, NEW S, NEW T, \A k \in DOMAIN s : s[k] \in S <=> s[k] \in T
  PROVE  Occurs(s, S) = Occurs(s, T)
<1>1. Places(s, S) = Places(s, T)
  BY DEF Places
<1> QED
  BY <1>1 DEF Occurs

(* A list in another order has the same counts.                            *)
LEMMA OccursReordered ==
  ASSUME NEW A, NEW s \in Seq(A), NEW W, NEW f, SortOf(f, s, A, W), NEW T
  PROVE  Occurs(f, T) = Occurs(s, T)
<1>1. DOMAIN s = 1 .. Len(s) /\ DOMAIN f = 1 .. Len(s) /\ IsFiniteSet(Places(s, T))
      /\ IsFiniteSet(Places(f, T))
  <2>1. f \in Seq(A) /\ DOMAIN f = 1 .. Len(s)
    BY DEF SortOf
  <2> QED
    BY <2>1, OccursType
<1>2. PICK order : Reordered(f, s, order)
  BY DEF SortOf
<1>3. /\ order \in [1 .. Len(s) -> 1 .. Len(s)]
      /\ \A k, l \in 1 .. Len(s) : order[k] = order[l] => k = l
      /\ \A i \in 1 .. Len(s) : \E k \in 1 .. Len(s) : order[k] = i
      /\ \A k \in 1 .. Len(s) : f[k] = s[order[k]]
  BY <1>2 DEF Reordered
<1> DEFINE F == Places(f, T)
           S == Places(s, T)
           g == [k \in F |-> order[k]]
<1>4. \A k : k \in F <=> k \in 1 .. Len(s) /\ f[k] \in T
  BY <1>1 DEF Places
<1>5. \A k : k \in S <=> k \in 1 .. Len(s) /\ s[k] \in T
  BY <1>1 DEF Places
<1> HIDE DEF F, S
<1>6. g \in [F -> S]
  <2>1. \A k \in F : order[k] \in S
    BY <1>3, <1>4, <1>5
  <2> QED
    BY <2>1
<1>7. \A k, l \in F : g[k] = g[l] => k = l
  BY <1>3, <1>4
<1>8. \A i \in S : \E k \in F : g[k] = i
  <2> SUFFICES ASSUME NEW i \in S PROVE \E k \in F : g[k] = i
    OBVIOUS
  <2>1. PICK k \in 1 .. Len(s) : order[k] = i
    BY <1>3, <1>5
  <2>2. k \in F
    BY <1>3, <1>4, <1>5, <2>1
  <2> QED
    BY <2>1, <2>2
<1>9. IsFiniteSet(F)
  BY <1>1 DEF F
<1> HIDE DEF g
<1>10. Cardinality(S) = Cardinality(F)
  BY <1>6, <1>7, <1>8, <1>9, SameSize
<1> QED
  BY <1>10 DEF Occurs, S, F

(***************************************************************************)
(* A list in order is determined by what it holds.                         *)
(***************************************************************************)
TotalOn(W, A) == \A x, y \in A : x = y \/ <<x, y>> \in W \/ <<y, x>> \in W

InOrderBy(s, W) == \A i, j \in 1 .. Len(s) : i < j => <<s[j], s[i]>> \notin W

SameCounts(s, t, A) == \A e \in A : Occurs(s, {e}) = Occurs(t, {e})

(* Up to position k the two lists are the same, and from there on the      *)
(* second does not hold the first's element there.                         *)
PartAt(s, t, k) ==
  /\ k \in 1 .. Len(s)
  /\ \A p \in 1 .. Len(t) : p < k => p \in 1 .. Len(s) /\ s[p] = t[p]
  /\ \A p \in 1 .. Len(t) : p >= k => t[p] # s[k]

(* Then they do not hold that element equally often.                       *)
LEMMA PartedCounts ==
  ASSUME NEW A, NEW s \in Seq(A), NEW t \in Seq(A), NEW k, PartAt(s, t, k)
  PROVE  Occurs(s, {s[k]}) # Occurs(t, {s[k]})
<1> DEFINE e == s[k]
           P == Places(s, {e})
           Q == Places(t, {e})
<1>1. /\ k \in 1 .. Len(s)
      /\ \A p \in 1 .. Len(t) : p < k => p \in 1 .. Len(s) /\ s[p] = t[p]
      /\ \A p \in 1 .. Len(t) : p >= k => t[p] # e
  BY DEF PartAt
<1>2. DOMAIN s = 1 .. Len(s) /\ DOMAIN t = 1 .. Len(t) /\ IsFiniteSet(P)
  BY OccursType
<1>3. \A p : p \in P <=> p \in 1 .. Len(s) /\ s[p] = e
  BY <1>2 DEF Places
<1>4. \A p : p \in Q <=> p \in 1 .. Len(t) /\ t[p] = e
  BY <1>2 DEF Places
<1>5. k \in P
  BY <1>1, <1>3
<1> HIDE DEF P, Q, e
<1>6. \A p \in Q : p \in P /\ p # k
  BY <1>1, <1>3, <1>4
<1>7. Q \in SUBSET P /\ Q # P
  BY <1>5, <1>6
<1>8. IsFiniteSet(Q) /\ Cardinality(Q) <= Cardinality(P)
  BY <1>2, <1>7, FS_Subset
<1>9. Cardinality(Q) # Cardinality(P)
  BY <1>2, <1>7, FS_Subset
<1> QED
  BY <1>9 DEF Occurs, P, Q, e

(* Two lists in order with the same counts agree as far as the first goes. *)
LEMMA InOrderAgree ==
  ASSUME NEW A, NEW s \in Seq(A), NEW t \in Seq(A), NEW W, TotalOn(W, A),
         InOrderBy(s, W), InOrderBy(t, W), SameCounts(s, t, A)
  PROVE  \A k \in 1 .. Len(s) : k \in 1 .. Len(t) /\ s[k] = t[k]
<1> DEFINE Same(k) == k \in 1 .. Len(t) /\ s[k] = t[k]
           D == {m \in Nat : \A k \in 1 .. Len(s) : k <= m => Same(k)}
<1>1. /\ Len(s) \in Nat /\ \A k \in 1 .. Len(s) : s[k] \in A
      /\ Len(t) \in Nat /\ \A k \in 1 .. Len(t) : t[k] \in A
  OBVIOUS
<1>2. 0 \in D
  OBVIOUS
<1>3. ASSUME NEW m \in Nat, m \in D PROVE m + 1 \in D
  <2> DEFINE k == m + 1
  <2>1. SUFFICES ASSUME k \in 1 .. Len(s) PROVE Same(k)
    <3>1. \A j \in 1 .. Len(s) : j <= m + 1 => j <= m \/ j = k
      OBVIOUS
    <3>2. \A j \in 1 .. Len(s) : j <= m => Same(j)
      BY <1>3
    <3> HIDE DEF Same, k
    <3> QED
      BY <2>1, <3>1, <3>2
  <2>2. \A p \in 1 .. Len(s) : p < k => p \in 1 .. Len(t) /\ s[p] = t[p]
    BY <1>3
  <2>3. k \in Nat
    OBVIOUS
  <2> HIDE DEF k, D
  <2>4. \A p \in 1 .. Len(t) : p < k => p \in 1 .. Len(s) /\ s[p] = t[p]
    BY <1>1, <2>1, <2>2, <2>3
  <2>5. k \in 1 .. Len(t)
    <3> SUFFICES ASSUME k \notin 1 .. Len(t) PROVE FALSE
      OBVIOUS
    <3>1. PartAt(s, t, k)
      BY <1>1, <2>1, <2>3, <2>4 DEF PartAt
    <3>2. Occurs(s, {s[k]}) # Occurs(t, {s[k]})
      BY <3>1, PartedCounts
    <3> QED
      BY <1>1, <2>1, <3>2 DEF SameCounts
  <2>6. CASE <<s[k], t[k]>> \in W /\ s[k] # t[k]
    <3>1. \A p \in 1 .. Len(t) : p >= k => t[p] # s[k]
      <4> SUFFICES ASSUME NEW p \in 1 .. Len(t), p >= k, t[p] = s[k] PROVE FALSE
        OBVIOUS
      <4>1. p = k \/ k < p
        BY <2>3
      <4> QED
        BY <2>5, <2>6, <4>1 DEF InOrderBy
    <3>2. PartAt(s, t, k)
      BY <2>1, <2>4, <3>1 DEF PartAt
    <3>3. Occurs(s, {s[k]}) # Occurs(t, {s[k]})
      BY <3>2, PartedCounts
    <3> QED
      BY <1>1, <2>1, <3>3 DEF SameCounts
  <2>7. CASE <<t[k], s[k]>> \in W /\ s[k] # t[k]
    <3>1. \A p \in 1 .. Len(s) : p >= k => s[p] # t[k]
      <4> SUFFICES ASSUME NEW p \in 1 .. Len(s), p >= k, s[p] = t[k] PROVE FALSE
        OBVIOUS
      <4>1. p = k \/ k < p
        BY <2>3
      <4> QED
        BY <2>1, <2>7, <4>1 DEF InOrderBy
    <3>2. PartAt(t, s, k)
      BY <2>2, <2>5, <3>1 DEF PartAt
    <3>3. Occurs(t, {t[k]}) # Occurs(s, {t[k]})
      BY <3>2, PartedCounts
    <3> QED
      BY <1>1, <2>5, <3>3 DEF SameCounts
  <2>8. s[k] = t[k] \/ <<s[k], t[k]>> \in W \/ <<t[k], s[k]>> \in W
    BY <1>1, <2>1, <2>5 DEF TotalOn
  <2> QED
    BY <2>5, <2>6, <2>7, <2>8
<1>4. Len(s) \in D
  <2> HIDE DEF D
  <2>1. \A m \in Nat : m \in D => m + 1 \in D
    BY <1>3
  <2> QED
    BY <1>1, <1>2, <2>1, NatSetInduction
<1> QED
  BY <1>1, <1>4

(* So they are the same list.                                              *)
LEMMA InOrderUnique ==
  ASSUME NEW A, NEW s \in Seq(A), NEW t \in Seq(A), NEW W, TotalOn(W, A),
         InOrderBy(s, W), InOrderBy(t, W), SameCounts(s, t, A)
  PROVE  s = t
<1>1. \A k \in 1 .. Len(s) : k \in 1 .. Len(t) /\ s[k] = t[k]
  BY InOrderAgree
<1>2. \A k \in 1 .. Len(t) : k \in 1 .. Len(s) /\ t[k] = s[k]
  <2>1. SameCounts(t, s, A)
    BY DEF SameCounts
  <2> QED
    BY <2>1, InOrderAgree
<1>3. Len(s) \in Nat /\ Len(t) \in Nat
  OBVIOUS
<1>4. Len(s) = Len(t)
  <2>1. Len(s) = 0 \/ Len(s) \in 1 .. Len(s)
    BY <1>3
  <2>2. Len(t) = 0 \/ Len(t) \in 1 .. Len(t)
    BY <1>3
  <2> QED
    BY <1>1, <1>2, <1>3, <2>1, <2>2
<1>5. s = [k \in 1 .. Len(s) |-> s[k]] /\ t = [k \in 1 .. Len(t) |-> t[k]]
  OBVIOUS
<1> QED
  BY <1>1, <1>4, <1>5

(* A set is listed in an order in one way.                                 *)
LEMMA ListsUnique ==
  ASSUME NEW S, IsFiniteSet(S), NEW R, StrictOrder(R, S),
         NEW f, Lists(f, S, R), NEW g, Lists(g, S, R)
  PROVE  f = g
<1>1. /\ f \in [1 .. Cardinality(S) -> S] /\ g \in [1 .. Cardinality(S) -> S]
      /\ \A i \in 1 .. Cardinality(S) : Rank(R, S, f[i]) = i - 1 /\ Rank(R, S, g[i]) = i - 1
  BY DEF Lists
<1>2. \A i \in 1 .. Cardinality(S) : f[i] = g[i]
  <2> SUFFICES ASSUME NEW i \in 1 .. Cardinality(S) PROVE f[i] = g[i]
    OBVIOUS
  <2>1. f[i] \in S /\ g[i] \in S /\ Rank(R, S, f[i]) = Rank(R, S, g[i])
    BY <1>1
  <2>2. ASSUME NEW x \in S, NEW y \in S, Rank(R, S, x) = Rank(R, S, y) PROVE x = y
    BY <2>2, RankInjective
  <2> QED
    BY <2>1, <2>2
<1>3. /\ f = [i \in 1 .. Cardinality(S) |-> f[i]]
      /\ g = [i \in 1 .. Cardinality(S) |-> g[i]]
  BY <1>1
<1> QED
  BY <1>2, <1>3

(* Two lists made step by step in the same way are the same.               *)
LEMMA RunsAgree ==
  ASSUME NEW n \in Nat, NEW f, NEW g, f[0] = g[0],
         \A i \in 1 .. n : f[i - 1] = g[i - 1] => f[i] = g[i]
  PROVE  \A i \in 0 .. n : f[i] = g[i]
<1> DEFINE D == {i \in Nat : i <= n => f[i] = g[i]}
<1>1. 0 \in D
  OBVIOUS
<1>2. ASSUME NEW i \in Nat, i \in D PROVE i + 1 \in D
  <2>1. CASE i + 1 <= n
    <3>1. i + 1 \in 1 .. n /\ (i + 1) - 1 = i /\ i <= n
      BY <2>1
    <3>2. f[i] = g[i]
      BY <1>2, <3>1
    <3> QED
      BY <3>1, <3>2
  <2> QED
    BY <2>1
<1>3. \A i \in Nat : i \in D
  <2> HIDE DEF D
  <2> QED
    BY <1>1, <1>2, NatSetInduction
<1> QED
  BY <1>3
=============================================================================
