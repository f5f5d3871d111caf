--------------------------- MODULE TraversalProofs ---------------------------
(***************************************************************************)
(* The four operations on every graph, for every request: find_path        *)
(* returns a cheapest path, the beams keep the best, the subgraph is that  *)
(* of the seeds, the heatmap is exact, no answer has an edge the request   *)
(* may not follow, and a compaction changes none of them.  First the       *)
(* neighbors of a node, then one operation after the other.                *)
(***************************************************************************)
EXTENDS Traversal, ListProofs

(***************************************************************************)
(* Parts of a listing, keys and relistings.                                *)
(***************************************************************************)
(* The first k of a listing are the elements of the k lowest ranks.        *)
LEMMA TakeFacts ==
  ASSUME NEW S, IsFiniteSet(S), NEW R, StrictOrder(R, S), NEW f, Lists(f, S, R),
         NEW k \in Nat
  PROVE  /\ Take(f, k) \in Seq(S) /\ Len(Take(f, k)) = SmallerOf(k, Cardinality(S))
         /\ \A i \in 1 .. Len(Take(f, k)) : Take(f, k)[i] = f[i]
         /\ Range(Take(f, k)) = {x \in S : Rank(R, S, x) < k}
<1> DEFINE n == SmallerOf(k, Cardinality(S))
<1>1. /\ f \in Seq(S) /\ Len(f) = Cardinality(S) /\ Cardinality(S) \in Nat
      /\ DOMAIN f = 1 .. Cardinality(S)
      /\ \A x \in S : Rank(R, S, x) + 1 \in DOMAIN f /\ f[Rank(R, S, x) + 1] = x
  BY ListingFacts
<1>2. n \in Nat /\ n <= k /\ n <= Cardinality(S) /\ (n = k \/ n = Cardinality(S))
  BY <1>1 DEF SmallerOf
<1>3. Take(f, k) = SubSeq(f, 1, n)
  BY <1>1 DEF Take
<1> HIDE DEF n
<1>4. SubSeq(f, 1, n) = [i \in 1 .. n |-> f[i]]
  BY <1>1, <1>2
<1>5. /\ Take(f, k) \in Seq(S) /\ Len(Take(f, k)) = n /\ DOMAIN Take(f, k) = 1 .. n
      /\ \A i \in 1 .. n : Take(f, k)[i] = f[i]
  BY <1>1, <1>2, <1>3, <1>4
<1>6. \A i \in 1 .. n : f[i] \in S /\ Rank(R, S, f[i]) = i - 1
  BY <1>1, <1>2 DEF Lists
<1>7. ASSUME NEW x \in Range(Take(f, k)) PROVE x \in S /\ Rank(R, S, x) < k
  <2>1. PICK i \in 1 .. n : x = f[i]
    BY <1>5 DEF Range
  <2> QED
    BY <1>2, <1>6, <2>1
<1>8. ASSUME NEW x \in S, Rank(R, S, x) < k PROVE x \in Range(Take(f, k))
  <2>1. Rank(R, S, x) \in Nat /\ Rank(R, S, x) < Cardinality(S)
    BY RankType
  <2>2. Rank(R, S, x) + 1 \in 1 .. n
    BY <1>1, <1>2, <1>8, <2>1
  <2>3. Take(f, k)[Rank(R, S, x) + 1] = x
    BY <1>1, <1>5, <2>2
  <2> QED
    BY <1>5, <2>2, <2>3 DEF Range
<1>9. Range(Take(f, k)) = {x \in S : Rank(R, S, x) < k}
  BY <1>7, <1>8
<1> QED
  BY <1>5, <1>9 DEF n

(* The keys of an edge are numbers.                                        *)
LEMMA EdgeTypes ==
  ASSUME NEW e \in EdgeData
  PROVE  /\ e.from \in Names /\ e.to \in Names
         /\ e.from \in Nat /\ e.to \in Nat /\ e.kind \in Nat /\ e.field \in Nat
         /\ e.valid_from \in Int /\ e.valid_to \in Int
<1>1. /\ e.from \in Names /\ e.to \in Names /\ e.kind \in Kinds /\ e.field \in Fields
      /\ e.valid_from \in Times \cup {None} /\ e.valid_to \in Times \cup {None}
  BY DEF EdgeData
<1>2. Names \subseteq Nat /\ Kinds \subseteq Nat /\ Fields \subseteq Nat /\ Times \subseteq Nat
  BY OverlayAssumption
<1>3. None \in Int
  BY DEF None
<1>4. Times \cup {None} \subseteq Int
  BY <1>2, <1>3
<1>5. e.from \in Nat /\ e.to \in Nat /\ e.kind \in Nat /\ e.field \in Nat
  BY <1>1, <1>2
<1> QED
  BY <1>1, <1>4, <1>5

KeyOrder == {p \in EdgeData \X EdgeData : KeyBefore(p[1], p[2])}
CsrOrder == {p \in EdgeData \X EdgeData : CsrBefore(p[1], p[2])}

(* (to, type) orders edges weakly.                                         *)
LEMMA KeyOrderWeak == WeakOrder(KeyOrder, EdgeData)
<1>1. \A e, f \in EdgeData : <<e, f>> \in KeyOrder <=> KeyBefore(e, f)
  BY DEF KeyOrder
<1>2. \A e, f \in EdgeData : KeyBefore(e, f) => ~ KeyBefore(f, e)
  BY EdgeTypes DEF KeyBefore
<1>3. \A e, f, g \in EdgeData : KeyBefore(e, g) => KeyBefore(e, f) \/ KeyBefore(f, g)
  BY EdgeTypes DEF KeyBefore
<1> QED
  BY <1>1, <1>2, <1>3 DEF WeakOrder

(* So does the order a compacted snapshot has them in.                     *)
LEMMA CsrOrderWeak == WeakOrder(CsrOrder, EdgeData)
<1>1. \A e, f \in EdgeData : <<e, f>> \in CsrOrder <=> CsrBefore(e, f)
  BY DEF CsrOrder
<1>2. \A e, f \in EdgeData : CsrBefore(e, f) => ~ CsrBefore(f, e)
  BY EdgeTypes DEF CsrBefore, KeyBefore, SameKey
<1>3. \A e, f, g \in EdgeData : CsrBefore(e, g) => CsrBefore(e, f) \/ CsrBefore(f, g)
  BY EdgeTypes DEF CsrBefore, KeyBefore, SameKey
<1> QED
  BY <1>1, <1>2, <1>3 DEF WeakOrder

(* The sort of an answer's edges keeps them and puts them in order.        *)
LEMMA SortByKeyBefore ==
  ASSUME NEW s \in Seq(EdgeData)
  PROVE  /\ SortOf(Sorted(s, KeyBefore), s, EdgeData, KeyOrder)
         /\ Sorted(s, KeyBefore) \in Seq(EdgeData)
         /\ Len(Sorted(s, KeyBefore)) = Len(s)
         /\ Range(Sorted(s, KeyBefore)) = Range(s)
         /\ \A i, j \in DOMAIN Sorted(s, KeyBefore) :
              i < j => ~ KeyBefore(Sorted(s, KeyBefore)[j], Sorted(s, KeyBefore)[i])
<1> DEFINE First(i, j) == KeyBefore(s[i], s[j]) \/ (~ KeyBefore(s[j], s[i]) /\ i < j)
           D     == DOMAIN s
           order == InOrder(D, First)
           R     == Ahead(s, KeyOrder)
           f     == Sorted(s, KeyBefore)
<1>1. D = 1 .. Len(s) /\ Len(s) \in Nat /\ \A i \in D : s[i] \in EdgeData
  BY Zenon, SeqElements
<1>2. f = [k \in DOMAIN order |-> s[order[k]]]
  BY DEF Sorted
<1>3. WeakOrder(KeyOrder, EdgeData)
  BY KeyOrderWeak
<1>4. StrictOrder(R, D) /\ IsFiniteSet(D)
  <2> HIDE DEF First, order, f
  <2> QED
    BY <1>3, AheadOrder
<1>5. ASSUME NEW i \in D, NEW j \in D
      PROVE  <<i, j>> \in R <=> First(i, j)
  <2>1. <<i, j>> \in R <=>
          <<s[i], s[j]>> \in KeyOrder \/ (<<s[j], s[i]>> \notin KeyOrder /\ i < j)
    <3>1. i \in Nat /\ j \in Nat
      BY <1>1
    <3> HIDE DEF First, order, f, R, D
    <3> QED
      BY <3>1, AheadIff DEF R
  <2>2. /\ <<s[i], s[j]>> \in KeyOrder <=> KeyBefore(s[i], s[j])
        /\ <<s[j], s[i]>> \in KeyOrder <=> KeyBefore(s[j], s[i])
    BY <1>1 DEF KeyOrder
  <2> QED
    BY <2>1, <2>2
<1>6. ASSUME NEW j \in D
      PROVE  Rank(R, D, j) = Cardinality({i \in D : First(i, j)})
  <2> HIDE DEF First, R, D
  <2>1. Below(R, D, j) = {i \in D : First(i, j)}
    BY <1>5 DEF Below
  <2> QED
    BY <2>1 DEF Rank
<1>7. ASSUME NEW i \in 1 .. Cardinality(D)
      PROVE  order[i] \in D /\ Rank(R, D, order[i]) = i - 1
  <2> DEFINE P(x) == Cardinality({y \in D : First(y, x)}) = i - 1
  <2>1. order[i] = CHOOSE x \in D : P(x)
    BY DEF InOrder
  <2> HIDE DEF order, First, D, R
  <2>2. PICK x \in D : Rank(R, D, x) = i - 1
    BY <1>4, RankOnto
  <2>3. P(x)
    BY <1>6, <2>2
  <2>4. order[i] \in D /\ P(order[i])
    <3> HIDE DEF P
    <3> QED
      BY <2>1, <2>3
  <2> QED
    BY <1>6, <2>4
<1>8. order = [i \in 1 .. Cardinality(D) |-> order[i]]
  <2> DEFINE g(i) == CHOOSE x \in D : Cardinality({y \in D : First(y, x)}) = i - 1
  <2>1. order = [i \in 1 .. Cardinality(D) |-> g(i)]
    BY DEF InOrder
  <2> HIDE DEF First, D, order, g
  <2> QED
    BY <2>1
<1> HIDE DEF First, order, f
<1>9. Lists(order, D, R)
  <2> HIDE DEF D, R
  <2>1. order \in [1 .. Cardinality(D) -> D]
    BY <1>7, <1>8
  <2> QED
    BY <1>7, <2>1 DEF Lists
<1>10. /\ f \in Seq(EdgeData) /\ Len(f) = Len(s) /\ Range(f) = Range(s)
       /\ \A i, j \in DOMAIN f : i < j => <<f[j], f[i]>> \notin KeyOrder
       /\ SortOf(f, s, EdgeData, KeyOrder)
  BY <1>2, <1>3, <1>9, StableSortFacts, StableSort
<1>11. \A i \in DOMAIN f : f[i] \in EdgeData
  BY <1>10, SeqElements, Zenon
<1>12. ASSUME NEW i \in DOMAIN f, NEW j \in DOMAIN f, i < j
       PROVE  ~ KeyBefore(f[j], f[i])
  BY <1>10, <1>11, <1>12 DEF KeyOrder
<1> QED
  BY <1>10, <1>12 DEF f

(* So does the sort of a compacted snapshot.                               *)
LEMMA SortByCsrBefore ==
  ASSUME NEW s \in Seq(EdgeData)
  PROVE  /\ SortOf(Sorted(s, CsrBefore), s, EdgeData, CsrOrder)
         /\ Sorted(s, CsrBefore) \in Seq(EdgeData)
         /\ Len(Sorted(s, CsrBefore)) = Len(s)
         /\ Range(Sorted(s, CsrBefore)) = Range(s)
         /\ \A i, j \in DOMAIN Sorted(s, CsrBefore) :
              i < j => ~ CsrBefore(Sorted(s, CsrBefore)[j], Sorted(s, CsrBefore)[i])
<1> DEFINE First(i, j) == CsrBefore(s[i], s[j]) \/ (~ CsrBefore(s[j], s[i]) /\ i < j)
           D     == DOMAIN s
           order == InOrder(D, First)
           R     == Ahead(s, CsrOrder)
           f     == Sorted(s, CsrBefore)
<1>1. D = 1 .. Len(s) /\ Len(s) \in Nat /\ \A i \in D : s[i] \in EdgeData
  BY Zenon, SeqElements
<1>2. f = [k \in DOMAIN order |-> s[order[k]]]
  BY DEF Sorted
<1>3. WeakOrder(CsrOrder, EdgeData)
  BY CsrOrderWeak
<1>4. StrictOrder(R, D) /\ IsFiniteSet(D)
  <2> HIDE DEF First, order, f
  <2> QED
    BY <1>3, AheadOrder
<1>5. ASSUME NEW i \in D, NEW j \in D
      PROVE  <<i, j>> \in R <=> First(i, j)
  <2>1. <<i, j>> \in R <=>
          <<s[i], s[j]>> \in CsrOrder \/ (<<s[j], s[i]>> \notin CsrOrder /\ i < j)
    <3>1. i \in Nat /\ j \in Nat
      BY <1>1
    <3> HIDE DEF First, order, f, R, D
    <3> QED
      BY <3>1, AheadIff DEF R
  <2>2. /\ <<s[i], s[j]>> \in CsrOrder <=> CsrBefore(s[i], s[j])
        /\ <<s[j], s[i]>> \in CsrOrder <=> CsrBefore(s[j], s[i])
    BY <1>1 DEF CsrOrder
  <2> QED
    BY <2>1, <2>2
<1>6. ASSUME NEW j \in D
      PROVE  Rank(R, D, j) = Cardinality({i \in D : First(i, j)})
  <2> HIDE DEF First, R, D
  <2>1. Below(R, D, j) = {i \in D : First(i, j)}
    BY <1>5 DEF Below
  <2> QED
    BY <2>1 DEF Rank
<1>7. ASSUME NEW i \in 1 .. Cardinality(D)
      PROVE  order[i] \in D /\ Rank(R, D, order[i]) = i - 1
  <2> DEFINE P(x) == Cardinality({y \in D : First(y, x)}) = i - 1
  <2>1. order[i] = CHOOSE x \in D : P(x)
    BY DEF InOrder
  <2> HIDE DEF order, First, D, R
  <2>2. PICK x \in D : Rank(R, D, x) = i - 1
    BY <1>4, RankOnto
  <2>3. P(x)
    BY <1>6, <2>2
  <2>4. order[i] \in D /\ P(order[i])
    <3> HIDE DEF P
    <3> QED
      BY <2>1, <2>3
  <2> QED
    BY <1>6, <2>4
<1>8. order = [i \in 1 .. Cardinality(D) |-> order[i]]
  <2> DEFINE g(i) == CHOOSE x \in D : Cardinality({y \in D : First(y, x)}) = i - 1
  <2>1. order = [i \in 1 .. Cardinality(D) |-> g(i)]
    BY DEF InOrder
  <2> HIDE DEF First, D, order, g
  <2> QED
    BY <2>1
<1> HIDE DEF First, order, f
<1>9. Lists(order, D, R)
  <2> HIDE DEF D, R
  <2>1. order \in [1 .. Cardinality(D) -> D]
    BY <1>7, <1>8
  <2> QED
    BY <1>7, <2>1 DEF Lists
<1>10. /\ f \in Seq(EdgeData) /\ Len(f) = Len(s) /\ Range(f) = Range(s)
       /\ \A i, j \in DOMAIN f : i < j => <<f[j], f[i]>> \notin CsrOrder
       /\ SortOf(f, s, EdgeData, CsrOrder)
  BY <1>2, <1>3, <1>9, StableSortFacts, StableSort
<1>11. \A i \in DOMAIN f : f[i] \in EdgeData
  BY <1>10, SeqElements, Zenon
<1>12. ASSUME NEW i \in DOMAIN f, NEW j \in DOMAIN f, i < j
       PROVE  ~ CsrBefore(f[j], f[i])
  BY <1>10, <1>11, <1>12 DEF CsrOrder
<1> QED
  BY <1>10, <1>12 DEF f

(* A compaction may list the edges of a node in another order, and no more.*)
LEMMA RelistedFacts ==
  ASSUME NEW s \in Seq(EdgeData), NEW mode
  PROVE  /\ Relisted(mode, s) \in Seq(EdgeData) /\ Len(Relisted(mode, s)) = Len(s)
         /\ Range(Relisted(mode, s)) = Range(s)
         /\ \A T : Occurs(Relisted(mode, s), T) = Occurs(s, T)
<1>1. CASE mode = "Mmap"
  <2> DEFINE f == Sorted(s, CsrBefore)
  <2>1. /\ SortOf(f, s, EdgeData, CsrOrder) /\ f \in Seq(EdgeData)
        /\ Len(f) = Len(s) /\ Range(f) = Range(s)
    BY SortByCsrBefore
  <2>2. Relisted(mode, s) = f
    BY <1>1 DEF Relisted
  <2> HIDE DEF f
  <2>3. \A T : Occurs(f, T) = Occurs(s, T)
    BY <2>1, OccursReordered
  <2> QED
    BY <2>1, <2>2, <2>3
<1>2. CASE mode # "Mmap"
  <2> DEFINE n == Len(s)
             f == Reverse(s)
  <2>1. DOMAIN s = 1 .. n /\ n \in Nat /\ \A i \in 1 .. n : s[i] \in EdgeData
    BY SeqElements
  <2>2. f = [i \in 1 .. n |-> s[(n - i) + 1]]
    BY DEF Reverse
  <2> HIDE DEF n, f
  <2>3. \A i \in 1 .. n : (n - i) + 1 \in 1 .. n /\ (n - ((n - i) + 1)) + 1 = i
    BY <2>1
  <2>4. /\ DOMAIN f = 1 .. n /\ \A i \in 1 .. n : f[i] = s[(n - i) + 1]
        /\ f \in Seq(EdgeData) /\ Len(f) = n
    BY <2>1, <2>2, <2>3
  <2>5. Range(f) = Range(s)
    BY <2>1, <2>3, <2>4 DEF Range
  <2> QED
    BY <1>2, <2>4, <2>5, OccursReverse DEF Relisted, f, n
<1> QED
  BY <1>1, <1>2

(***************************************************************************)
(* What a request may see, and the neighbors it goes to.                   *)
(***************************************************************************)
WellFormed == IsGraph(graph) /\ IsContext(ctx) /\ call \in Calls

(* edges_from is the injected edges of a node.                             *)
LEMMA OverlayEdges ==
  ASSUME WellFormed, NEW x \in Names
  PROVE  /\ edges_from(ctx, x) \in Seq(EdgeData)
         /\ \A e : e \in Range(edges_from(ctx, x)) <=> e \in Injected /\ e.from = x
         /\ Injected \subseteq EdgeData
<1>1. ctx.overlay_edges \in Seq(EdgeData)
  BY DEF WellFormed, IsContext
<1>2. Injected \subseteq EdgeData
  BY <1>1, SeqElements DEF Injected, Range
<1> DEFINE S == {e \in EdgeData : e.from = x}
<1>3. edges_from(ctx, x) = Pick(ctx.overlay_edges, S)
  BY DEF edges_from
<1>4. \A e : e \in S <=> e \in EdgeData /\ e.from = x
  OBVIOUS
<1> HIDE DEF S
<1>5. /\ Pick(ctx.overlay_edges, S) \in Seq(EdgeData)
      /\ \A e : e \in Range(Pick(ctx.overlay_edges, S)) <=> e \in Injected /\ e \in S
  BY <1>1, PickFacts DEF Injected
<1> QED
  BY <1>2, <1>3, <1>4, <1>5

(* The stored edges of a node leave it, and join nodes the graph has.      *)
LEMMA BaseEdges ==
  ASSUME WellFormed, NEW x \in Names
  PROVE  /\ graph.outgoing[x] \in Seq(EdgeData) /\ Base(x) \subseteq EdgeData
         /\ \A e \in Base(x) : /\ e.from = x /\ e.from \in DOMAIN graph.get_node
                               /\ e.to \in DOMAIN graph.get_node
<1>1. /\ graph.outgoing[x] \in Seq(EdgeData)
      /\ \A i \in DOMAIN graph.outgoing[x] :
           /\ graph.outgoing[x][i].from = x
           /\ {x, graph.outgoing[x][i].to} \subseteq DOMAIN graph.get_node
  BY DEF WellFormed, IsGraph
<1>2. Base(x) \subseteq EdgeData
  BY <1>1, SeqElements DEF Base, Range
<1> QED
  BY <1>1, <1>2 DEF Base, Range

(* What two sequences hold one after the other.                            *)
LEMMA RangeConcat ==
  ASSUME NEW A, NEW s \in Seq(A), NEW t \in Seq(A)
  PROVE  s \o t \in Seq(A) /\ \A e : e \in Range(s \o t) <=> e \in Range(s) \/ e \in Range(t)
<1> DEFINE m == Len(s)
           n == Len(t)
           u == s \o t
<1>1. m \in Nat /\ n \in Nat /\ DOMAIN s = 1 .. m /\ DOMAIN t = 1 .. n
  OBVIOUS
<1>2. /\ u \in Seq(A) /\ DOMAIN u = 1 .. m + n
      /\ \A i \in 1 .. m + n : u[i] = IF i <= m THEN s[i] ELSE t[i - m]
  OBVIOUS
<1> HIDE DEF m, n, u
<1>3. ASSUME NEW i \in 1 .. m + n PROVE u[i] \in Range(s) \/ u[i] \in Range(t)
  <2>1. CASE i <= m
    <3>1. i \in 1 .. m /\ u[i] = s[i]
      BY <1>1, <1>2, <2>1
    <3> QED
      BY <1>1, <3>1 DEF Range
  <2>2. CASE ~ (i <= m)
    <3>1. i - m \in 1 .. n /\ u[i] = t[i - m]
      BY <1>1, <1>2, <2>2
    <3> QED
      BY <1>1, <3>1 DEF Range
  <2> QED
    BY <2>1, <2>2
<1>4. ASSUME NEW i \in 1 .. m PROVE s[i] \in Range(u)
  <2>1. i \in 1 .. m + n /\ u[i] = s[i]
    BY <1>1, <1>2
  <2> QED
    BY <1>2, <2>1 DEF Range
<1>5. ASSUME NEW i \in 1 .. n PROVE t[i] \in Range(u)
  <2>1. i + m \in 1 .. m + n /\ u[i + m] = t[i]
    BY <1>1, <1>2
  <2> QED
    BY <1>2, <2>1 DEF Range
<1>6. \A e : e \in Range(u) => e \in Range(s) \/ e \in Range(t)
  BY <1>2, <1>3 DEF Range
<1>7. \A e : e \in Range(s) \/ e \in Range(t) => e \in Range(u)
  BY <1>1, <1>4, <1>5 DEF Range
<1> QED
  BY <1>2, <1>6, <1>7 DEF u

(* neighbors_with_overlay: exactly the edges that may be followed.         *)
LEMMA NeighborsExact ==
  ASSUME WellFormed, NEW x \in Names
  PROVE  /\ Neighbors(x) \in Seq(EdgeData)
         /\ \A e : e \in Range(Neighbors(x)) <=> e \in Followed /\ e.from = x
<1> DEFINE base == BaseNeighbors(graph, ctx, x)
           own  == edges_from(ctx, x)
           S    == {e \in EdgeData : is_edge_visible(ctx, e)}
<1>1. /\ graph.outgoing[x] \in Seq(EdgeData) /\ Base(x) \subseteq EdgeData
      /\ \A e \in Base(x) : e.from = x /\ e.from \in DOMAIN graph.get_node
  BY BaseEdges
<1>2. base \in Seq(EdgeData)
  <2>1. << >> \in Seq(EdgeData)
    OBVIOUS
  <2> QED
    BY <1>1, <2>1 DEF BaseNeighbors
<1>3. ASSUME NEW e
      PROVE  e \in Range(base) <=> e \in Base(x) /\ (IsHub(x) => Matters(x))
  <2>1. CutOff(graph, ctx, x) <=> IsHub(x) /\ ~ Matters(x)
    BY DEF CutOff, IsHub, Matters
  <2>2. Range(<< >>) = {}
    BY DEF Range
  <2>3. x \notin DOMAIN graph.get_node => Base(x) = {}
    BY <1>1
  <2>4. CASE x \in DOMAIN graph.get_node /\ ~ CutOff(graph, ctx, x)
    <3>1. base = graph.outgoing[x]
      BY <2>4 DEF BaseNeighbors
    <3> QED
      BY <2>1, <2>4, <3>1 DEF Base
  <2>5. CASE ~ (x \in DOMAIN graph.get_node /\ ~ CutOff(graph, ctx, x))
    <3>1. base = << >>
      BY <2>5 DEF BaseNeighbors
    <3> HIDE DEF base
    <3> QED
      BY <2>1, <2>2, <2>3, <2>5, <3>1
  <2> QED
    BY <2>4, <2>5
<1>4. /\ own \in Seq(EdgeData) /\ Injected \subseteq EdgeData
      /\ \A e : e \in Range(own) <=> e \in Injected /\ e.from = x
  BY OverlayEdges
<1>5. \A e : e \in S <=> e \in EdgeData /\ is_edge_visible(ctx, e)
  OBVIOUS
<1>6. Neighbors(x) = Pick(base \o own, S)
  BY DEF Neighbors, neighbors_with_overlay
<1> HIDE DEF base, own, S
<1>7. /\ base \o own \in Seq(EdgeData)
      /\ \A e : e \in Range(base \o own) <=> e \in Range(base) \/ e \in Range(own)
  BY <1>2, <1>4, RangeConcat
<1> DEFINE listed == base \o own
<1> HIDE DEF listed
<1>8. /\ Pick(listed, S) \in Seq(EdgeData)
      /\ \A e : e \in Range(Pick(listed, S)) <=> e \in Range(listed) /\ e \in S
  <2>1. listed \in Seq(EdgeData)
    BY <1>7 DEF listed
  <2> QED
    BY <2>1, PickFacts
<1>9. ASSUME NEW e
      PROVE  e \in Range(Neighbors(x)) <=> e \in Followed /\ e.from = x
  <2>1. e \in Range(Neighbors(x)) <=>
          /\ is_edge_visible(ctx, e) /\ e \in EdgeData
          /\ \/ e \in Base(x) /\ (IsHub(x) => Matters(x))
             \/ e \in Injected /\ e.from = x
    BY <1>3, <1>4, <1>5, <1>6, <1>7, <1>8 DEF listed
  <2>2. e \in Followed /\ e.from = x <=>
          e.from = x /\ e \in Base(x) \cup Injected /\ MayFollow(e)
    BY DEF Followed
  <2> QED
    BY <1>1, <1>4, <2>1, <2>2 DEF MayFollow
<1> QED
  BY <1>6, <1>8, <1>9 DEF listed

(* An edge that may be followed goes from a name to a name.                *)
LEMMA FollowedType ==
  ASSUME WellFormed, NEW e \in Followed
  PROVE  e \in EdgeData /\ e.from \in Names /\ e.to \in Names /\ MayFollow(e)
<1>1. PICK x \in Names : e \in Base(x) \cup Injected /\ MayFollow(e)
  BY DEF Followed
<1>2. e \in EdgeData
  BY <1>1, BaseEdges, OverlayEdges
<1> QED
  BY <1>1, <1>2, EdgeTypes

(* A set of numbers up to n has a greatest one.                            *)
LEMMA GreatestUpTo ==
  ASSUME NEW n \in Nat, NEW D, D \subseteq 1 .. n, D # {}
  PROVE  \E l \in D : \A i \in D : i <= l
<1> DEFINE fromEnd == {n - i : i \in D}
<1>1. \A i \in D : i \in Nat /\ n - i \in Nat
  OBVIOUS
<1>2. fromEnd \subseteq Nat /\ fromEnd # {}
  BY <1>1
<1>3. PICK m \in fromEnd : \A k \in fromEnd : m <= k
  <2> HIDE DEF fromEnd
  <2> QED
    BY <1>2, LeastNatural
<1>4. PICK l \in D : m = n - l
  BY <1>3
<1>5. ASSUME NEW i \in D PROVE i <= l
  <2>1. n - i \in fromEnd
    OBVIOUS
  <2>2. n - l <= n - i
    BY <1>3, <1>4, <2>1
  <2>3. i \in Nat /\ l \in Nat
    BY <1>1
  <2> QED
    BY <2>2, <2>3
<1> QED
  BY <1>5

(* The last definition of an overlay node is one of its definitions.       *)
LEMMA IndexedNodeType ==
  ASSUME NEW c, IsContext(c), NEW x \in OverlayNames(c)
  PROVE  IndexedNode(c, x) \in NodeData
<1> DEFINE s       == c.overlay_nodes
           Element == [name: Names, node: NodeData]
           defined == {i \in DOMAIN s : s[i].name = x}
           last    == CHOOSE i \in defined : \A j \in defined : j <= i
<1>1. s \in Seq(Element)
  BY DEF IsContext
<1>2. defined # {}
  BY DEF OverlayNames
<1> HIDE DEF s, Element
<1>3. Len(s) \in Nat /\ DOMAIN s = 1 .. Len(s) /\ \A i \in 1 .. Len(s) : s[i] \in Element
  BY <1>1
<1>4. defined \subseteq 1 .. Len(s)
  BY <1>3
<1> HIDE DEF defined
<1>5. last \in defined
  BY <1>2, <1>3, <1>4, GreatestUpTo
<1>6. IndexedNode(c, x) = s[last].node
  BY DEF IndexedNode, s, defined
<1> HIDE DEF last
<1>7. s[last] \in Element
  BY <1>3, <1>4, <1>5
<1> QED
  BY <1>6, <1>7 DEF Element

(* compute_score is a number.                                              *)
LEMMA ScoreType ==
  ASSUME NEW c, IsContext(c), NEW x, NEW node \in NodeData
  PROVE  compute_score(c, x, node) \in Int
<1>1. /\ c.w_base \in Int /\ c.w_semantic \in Int
      /\ c.w_noise \in Int /\ c.w_bonus \in Int
  BY DEF IsContext
<1>2. Entry(c.semantic_boosts, x) \in Int /\ Entry(c.weight_bonuses, x) \in Int
  BY DEF IsContext, IsEntries, Entry
<1>3. node.base_weight \in Int /\ node.noise_penalty \in Int
  BY DEF NodeData
<1>4. c.w_noise * node.noise_penalty \in Int
  BY <1>1, <1>3
<1>5. EffectiveNoise(c, node) \in Int
  BY <1>4 DEF EffectiveNoise, LargerOf, SmallerOf
<1>6. /\ c.w_base * node.base_weight \in Int
      /\ c.w_semantic * Entry(c.semantic_boosts, x) \in Int
      /\ c.w_bonus * Entry(c.weight_bonuses, x) \in Int
  BY <1>1, <1>2, <1>3
<1> QED
  BY <1>5, <1>6 DEF compute_score

(* The cost of going to any name, be it of a node or not, is at least 1.   *)
LEMMA CostPositive ==
  ASSUME WellFormed, NEW x
  PROVE  edge_cost(x) \in Nat /\ edge_cost(x) > 0
<1>1. Scale \in Nat /\ Scale > 0
  BY CallsAssumption
<1>2. CASE ~ IsNode(x)
  BY <1>1, <1>2 DEF edge_cost
<1>3. CASE IsNode(x)
  <2>1. Lookup(graph, ctx, x) \in NodeData
    BY <1>3, IndexedNodeType DEF IsNode, Known, Lookup, WellFormed, IsGraph
  <2>2. W_total(x) \in Int
    BY <2>1, ScoreType DEF W_total, Weight, WellFormed
  <2>3. Scale \div LargerOf(W_total(x), 1) \in Int
    BY <1>1, <2>2 DEF LargerOf
  <2> QED
    BY <1>3, <2>3 DEF edge_cost, LargerOf
<1> QED
  BY <1>2, <1>3


(* While graph and request stay the same, so does what is seen of them.    *)
LEMMA SameView ==
  ASSUME UNCHANGED <<graph, ctx>>
  PROVE  /\ Followed' = Followed /\ \A x : Neighbors(x)' = Neighbors(x)
         /\ \A x : edge_cost(x)' = edge_cost(x) /\ W_total(x)' = W_total(x)
         /\ \A x : IsNode(x)' <=> IsNode(x)
         /\ \A x : Base(x)' = Base(x) /\ Injected' = Injected
         /\ \A e : MayFollow(e)' <=> MayFollow(e)
<1>1. /\ \A x : Base(x)' = Base(x) /\ Injected' = Injected
      /\ \A x : IsHub(x)' <=> IsHub(x)
      /\ \A x : Matters(x)' <=> Matters(x)
  BY DEF Base, Injected, IsHub, Matters
<1>2. \A e : MayFollow(e)' <=> MayFollow(e)
  BY <1>1 DEF MayFollow
<1>3. Followed' = Followed
  BY <1>1, <1>2 DEF Followed
<1>4. \A x : (IsNode(x)' <=> IsNode(x)) /\ W_total(x)' = W_total(x)
  BY DEF IsNode, W_total
<1>5. \A x : edge_cost(x)' = edge_cost(x)
  BY <1>4 DEF edge_cost
<1>6. \A x : Neighbors(x)' = Neighbors(x)
  BY DEF Neighbors
<1> QED
  BY <1>1, <1>2, <1>3, <1>4, <1>5, <1>6

(* A compaction changes the order of the listings and nothing else.        *)
LEMMA CompactKeepsView ==
  ASSUME WellFormed, NEW mode, Compact(mode)
  PROVE  /\ WellFormed' /\ Followed' = Followed
         /\ \A x : edge_cost(x)' = edge_cost(x) /\ W_total(x)' = W_total(x)
         /\ \A x : IsNode(x)' <=> IsNode(x)
         /\ \A x \in Names : Base(x)' = Base(x) 
         /\ Injected' = Injected
         /\ \A e \in EdgeData : MayFollow(e)' <=> MayFollow(e)
<1>1. /\ ctx' = ctx /\ call' = call /\ graph'.get_node = graph.get_node
      /\ graph'.outgoing = [x \in Names |-> Relisted(mode, graph.outgoing[x])]
  BY DEF Compact
<1>2. ASSUME NEW x \in Names
      PROVE  /\ graph'.outgoing[x] \in Seq(EdgeData)
             /\ Len(graph'.outgoing[x]) = Len(graph.outgoing[x])
             /\ Base(x)' = Base(x)
  <2>1. /\ graph.outgoing[x] \in Seq(EdgeData)
        /\ graph'.outgoing[x] = Relisted(mode, graph.outgoing[x])
    BY <1>1, BaseEdges
  <2> QED
    BY <2>1, RelistedFacts DEF Base
<1>3. WellFormed'
  <2>1. /\ DOMAIN graph.get_node \subseteq Names
        /\ \A x \in DOMAIN graph.get_node : graph.get_node[x] \in NodeData
    BY DEF WellFormed, IsGraph
  <2>2. graph'.outgoing \in [Names -> Seq(EdgeData)]
    BY <1>1, <1>2
  <2>3. ASSUME NEW x \in Names, NEW i \in DOMAIN graph'.outgoing[x]
        PROVE  /\ graph'.outgoing[x][i].from = x
               /\ {x, graph'.outgoing[x][i].to} \subseteq DOMAIN graph'.get_node
    <3>1. graph'.outgoing[x][i] \in Base(x)
      BY <1>2 DEF Base, Range
    <3> QED
      BY <1>1, <3>1, BaseEdges
  <2>4. IsGraph(graph')
    BY <1>1, <2>1, <2>2, <2>3 DEF IsGraph
  <2> QED
    BY <1>1, <2>4 DEF WellFormed
<1>4. Injected' = Injected
  BY <1>1 DEF Injected
<1>5. ASSUME NEW e \in EdgeData PROVE MayFollow(e)' <=> MayFollow(e)
  <2>1. e.from \in Names
    BY EdgeTypes
  <2>2. /\ Base(e.from)' = Base(e.from)
        /\ Len(graph'.outgoing[e.from]) = Len(graph.outgoing[e.from])
    BY <1>2, <2>1
  <2>3. (IsHub(e.from)' <=> IsHub(e.from)) /\ (Matters(e.from)' <=> Matters(e.from))
    BY <1>1, <2>2 DEF IsHub, Matters
  <2>4. is_edge_visible(ctx', e) <=> is_edge_visible(ctx, e)
    BY <1>1
  <2> QED
    BY <1>4, <2>2, <2>3, <2>4 DEF MayFollow
<1>6. Followed' = Followed
  <2>1. \A x \in Names : \A e \in Base(x) \cup Injected : e \in EdgeData
    BY BaseEdges, OverlayEdges
  <2>2. \A x \in Names : Base(x)' = Base(x)
    BY <1>2
  <2>3. ASSUME NEW e PROVE e \in Followed' <=> e \in Followed
    <3>1. e \in Followed' <=>
            \E x \in Names : e \in Base(x)' \cup Injected' /\ MayFollow(e)' /\ e.from = x
      BY DEF Followed
    <3>2. e \in Followed <=>
            \E x \in Names : e \in Base(x) \cup Injected /\ MayFollow(e) /\ e.from = x
      BY DEF Followed
    <3> QED
      BY <1>4, <1>5, <2>1, <2>2, <3>1, <3>2
  <2> QED
    BY <2>3
<1>7. ASSUME NEW x
      PROVE  (IsNode(x)' <=> IsNode(x)) /\ W_total(x)' = W_total(x) /\ edge_cost(x)' = edge_cost(x)
  <2>1. (IsNode(x)' <=> IsNode(x)) /\ W_total(x)' = W_total(x)
    BY <1>1 DEF IsNode, Known, W_total, Weight, Lookup
  <2> QED
    BY <2>1 DEF edge_cost
<1> QED
  BY <1>2, <1>3, <1>4, <1>5, <1>6, <1>7

(* The graph, context and call of the first state are of their types.      *)
LEMMA WellFormedInit == Init => WellFormed
BY OverlayAssumption DEF Init, WellFormed

(* Only a compaction changes the graph, and nothing the request.           *)
LEMMA ViewStep ==
  [Next]_vars => \/ UNCHANGED <<graph, ctx, call>>
                 \/ \E mode \in {"Owned", "Mmap"} : Compact(mode)
<1> SUFFICES ASSUME [Next]_vars
             PROVE  \/ UNCHANGED <<graph, ctx, call>>
                    \/ \E mode \in {"Owned", "Mmap"} : Compact(mode)
  OBVIOUS
<1>1. CASE BeginPath \/ Pop \/ Relax \/ NoPath
  BY <1>1 DEF BeginPath, Pop, Relax, NoPath
<1>2. CASE BeginBeams \/ (\E i \in DOMAIN beams : BeamLevel(i)) \/ BeamReturns
           \/ IntersectionReturns
  BY <1>2 DEF BeginBeams, BeamLevel, BeamReturns, IntersectionReturns
<1>3. CASE BeginSubgraph \/ Seed \/ SubgraphReturns
  BY <1>3 DEF BeginSubgraph, Seed, SubgraphReturns
<1>4. CASE UNCHANGED vars
  BY <1>4 DEF vars
<1> QED
  BY <1>1, <1>2, <1>3, <1>4 DEF Next

(* No step changes that: a compaction only lists edges in another order.   *)
LEMMA WellFormedStep == WellFormed /\ [Next]_vars => WellFormed'
<1> SUFFICES ASSUME WellFormed, [Next]_vars PROVE WellFormed'
  OBVIOUS
<1>1. CASE UNCHANGED <<graph, ctx, call>>
  BY <1>1 DEF WellFormed
<1>2. CASE \E mode \in {"Owned", "Mmap"} : Compact(mode)
  BY <1>2, CompactKeepsView
<1> QED
  BY <1>1, <1>2, ViewStep

(***************************************************************************)
(* find_path.  A node is reached for no more than the cost of any entry it *)
(* has in the heap, so a neighbor is reached for more; and a node reached  *)
(* for less again stays above its parent, whose cost does not change, and  *)
(* below its children, because they were reached from it when it cost      *)
(* more.  Nothing here depends on the order the heap is emptied in.        *)
(***************************************************************************)
Reached ==
  /\ \A x \in DOMAIN dist : dist[x] \in Nat
  /\ call.start \in DOMAIN dist /\ dist[call.start] = 0
  /\ \A entry \in heap : /\ entry.node \in DOMAIN dist /\ entry.cost \in Nat
                         /\ dist[entry.node] <= entry.cost
  /\ at.node \in DOMAIN dist /\ at.cost \in Nat /\ dist[at.node] <= at.cost

(* Each parent link is an edge that may be followed, and what it cost is   *)
(* still in the child's distance.                                          *)
Linked ==
  /\ call.op = "find_path" /\ call.start # call.end
  /\ DOMAIN dist \subseteq Names
  /\ \A x \in DOMAIN parent :
       /\ parent[x].edge \in Followed /\ parent[x].edge.from = parent[x].from
       /\ dist[x] >= dist[parent[x].from] + edge_cost(x)
  /\ todo \in Seq(EdgeData) /\ \A e \in Range(todo) : e \in Followed /\ e.from = at.node

(* A node reached is still to be expanded; or it is not the end, and its   *)
(* edges are relaxed, but for those still to do of the node at hand.       *)
Pending(x) == [cost |-> dist[x], node |-> x] \in heap
Settled(e) == e.to \in DOMAIN dist /\ dist[e.to] <= dist[e.from] + edge_cost(e.to)
ToDo(e)    == e.from = at.node /\ at.cost = dist[at.node] /\ e \in Range(todo)

Relaxed ==
  \A x \in DOMAIN dist :
    \/ Pending(x)
    \/ x # call.end /\ \A e \in Followed : e.from = x => Settled(e) \/ ToDo(e)

PathInv ==
  /\ WellFormed
  /\ pc = "search" => Reached /\ Linked /\ Relaxed
  /\ ParentsDescend

(* Nothing is reached before the call begins.                              *)
LEMMA PathInit == Init => PathInv
<1> SUFFICES ASSUME Init PROVE PathInv
  OBVIOUS
<1>1. WellFormed
  BY WellFormedInit
<1> QED
  BY <1>1 DEF Init, PathInv, ParentsDescend

(* Relaxing an edge records a parent whose distance is lower.              *)
LEMMA RelaxKeeps ==
  ASSUME PathInv, Relax
  PROVE  Reached' /\ ParentsDescend'
<1> DEFINE e == Head(todo)
           new_cost == at.cost + edge_cost(e.to)
<1>1. pc = "search" /\ pc' = pc /\ call' = call /\ at' = at /\ Reached
  BY DEF Relax, PathInv
<1>2. ParentsDescend!2
  BY <1>1 DEF PathInv, ParentsDescend
<1>3. edge_cost(e.to) \in Nat /\ edge_cost(e.to) > 0
  BY CostPositive DEF PathInv
<1>4. new_cost \in Nat /\ new_cost > at.cost /\ new_cost > dist[at.node]
  BY <1>1, <1>3 DEF Reached
<1> HIDE DEF new_cost
<1>5. CASE ~ IsBetter(new_cost, e.to)
  <2>1. UNCHANGED <<dist, parent, heap>>
    BY <1>5 DEF Relax, new_cost
  <2> QED
    BY <1>1, <1>2, <2>1 DEF Reached, ParentsDescend
<1>6. CASE IsBetter(new_cost, e.to)
  <2>1. /\ dist' = With(dist, e.to, new_cost)
        /\ parent' = With(parent, e.to, [from |-> at.node, edge |-> e])
        /\ heap' = heap \cup {[cost |-> new_cost, node |-> e.to]}
    BY <1>6 DEF Relax, new_cost
  <2> DEFINE to == e.to
  <2>2. to # at.node /\ to # call.start
    BY <1>1, <1>4, <1>6 DEF IsBetter, Reached
  <2>3. /\ DOMAIN dist' = DOMAIN dist \cup {to} /\ dist'[to] = new_cost
        /\ \A x \in DOMAIN dist \ {to} : dist'[x] = dist[x]
    BY <2>1 DEF With
  <2>4. /\ DOMAIN parent' = DOMAIN parent \cup {to}
        /\ parent'[to] = [from |-> at.node, edge |-> e]
        /\ \A x \in DOMAIN parent \ {to} : parent'[x] = parent[x]
    BY <2>1 DEF With
  <2>5. \A x \in DOMAIN dist : dist'[x] <= dist[x]
    BY <1>1, <1>4, <1>6, <2>3 DEF IsBetter, Reached
  <2>6. Reached'
    <3>1. ASSUME NEW entry \in heap'
          PROVE  /\ entry.node \in DOMAIN dist' /\ entry.cost \in Nat
                 /\ dist'[entry.node] <= entry.cost
      <4>1. CASE entry = [cost |-> new_cost, node |-> to]
        BY <1>4, <2>3, <4>1
      <4>2. CASE entry \in heap
        <5>1. /\ entry.node \in DOMAIN dist /\ entry.cost \in Nat
              /\ dist[entry.node] <= entry.cost /\ dist[entry.node] \in Nat
          BY <1>1, <4>2 DEF Reached
        <5>2. dist'[entry.node] <= dist[entry.node] /\ dist'[entry.node] \in Nat
          BY <1>4, <2>3, <2>5, <5>1
        <5> QED
          BY <2>3, <5>1, <5>2
      <4> QED
        BY <2>1, <4>1, <4>2
    <3> QED
      BY <1>1, <1>4, <2>2, <2>3, <3>1 DEF Reached
  <2>7. DOMAIN parent' = DOMAIN dist' \ {call'.start}
    BY <1>1, <1>2, <2>2, <2>3, <2>4
  <2>8. ASSUME NEW x \in DOMAIN parent'
        PROVE  /\ parent'[x].edge.to = x
               /\ parent'[x].from \in DOMAIN dist'
               /\ dist'[parent'[x].from] < dist'[x]
    <3>1. CASE x = to
      BY <1>1, <1>4, <2>2, <2>3, <2>4, <3>1 DEF Reached
    <3>2. CASE x # to
      <4>1. x \in DOMAIN parent /\ x \in DOMAIN dist /\ parent'[x] = parent[x]
        BY <1>2, <2>4, <3>2
      <4>2. /\ parent[x].edge.to = x
            /\ parent[x].from \in DOMAIN dist /\ dist[parent[x].from] < dist[x]
        BY <1>2, <4>1
      <4>3. dist'[x] = dist[x]
        BY <2>3, <3>2, <4>1
      <4>4. dist'[parent[x].from] <= dist[parent[x].from]
        BY <2>5, <4>2
      <4>5. /\ dist[x] \in Nat /\ dist[parent[x].from] \in Nat
            /\ parent[x].from \in DOMAIN dist' /\ dist'[parent[x].from] \in Nat
        BY <1>1, <2>3, <2>6, <4>1, <4>2 DEF Reached
      <4> QED
        BY <4>1, <4>2, <4>3, <4>4, <4>5
    <3> QED
      BY <3>1, <3>2
  <2> QED
    BY <2>6, <2>7, <2>8 DEF ParentsDescend
<1> QED
  BY <1>5, <1>6


(* The head and the tail of a sequence.                                    *)
LEMMA HeadTail ==
  ASSUME NEW A, NEW s \in Seq(A), s # << >>
  PROVE  /\ Head(s) \in Range(s) /\ Tail(s) \in Seq(A)
         /\ Range(Tail(s)) \subseteq Range(s) /\ Range(s) \subseteq Range(Tail(s)) \cup {Head(s)}
<1> DEFINE n == Len(s)
           t == Tail(s)
           e == Head(s)
<1>1. /\ n \in Nat /\ n > 0 /\ DOMAIN s = 1 .. n /\ e = s[1]
      /\ t \in Seq(A) /\ Len(t) = n - 1 /\ DOMAIN t = 1 .. Len(t)
  OBVIOUS
<1>2. \A i \in 1 .. n - 1 : t[i] = s[i + 1]
  BY <1>1
<1> HIDE DEF n, t, e
<1>3. \A i \in 1 .. n - 1 : t[i] \in Range(s)
  <2> SUFFICES ASSUME NEW i \in 1 .. n - 1 PROVE t[i] \in Range(s)
    OBVIOUS
  <2>1. i + 1 \in 1 .. n /\ t[i] = s[i + 1]
    BY <1>1, <1>2
  <2> QED
    BY <1>1, <2>1 DEF Range
<1>4. \A i \in 1 .. n : s[i] \in Range(t) \cup {e}
  <2> SUFFICES ASSUME NEW i \in 1 .. n, i # 1 PROVE s[i] \in Range(t)
    BY <1>1
  <2>1. i - 1 \in 1 .. n - 1 /\ t[i - 1] = s[i]
    <3>1. i - 1 \in 1 .. n - 1 /\ (i - 1) + 1 = i
      BY <1>1
    <3> QED
      BY <1>2, <3>1
  <2> QED
    BY <1>1, <2>1 DEF Range
<1>5. 1 \in 1 .. n
  BY <1>1
<1>6. Range(t) \subseteq Range(s)
  BY <1>1, <1>3 DEF Range
<1>7. Range(s) \subseteq Range(t) \cup {e}
  BY <1>1, <1>4 DEF Range
<1>8. e \in Range(s)
  BY <1>1, <1>5 DEF Range
<1> QED
  BY <1>1, <1>6, <1>7, <1>8 DEF t, e

(* Relaxing one edge: the node it leads to, if reached for less now, is    *)
(* pending again; no other node is reached for more, and none of its edges *)
(* is left but those still to do.                                          *)
LEMMA RelaxLinks ==
  ASSUME PathInv, Relax
  PROVE  Linked' /\ Relaxed'
<1> DEFINE e == Head(todo)
           new_cost == at.cost + edge_cost(e.to)
<1>1. /\ pc = "search" /\ todo # << >> /\ todo' = Tail(todo)
      /\ UNCHANGED <<graph, ctx, call, pc, at>>
      /\ Reached /\ Linked /\ Relaxed /\ WellFormed
  BY DEF Relax, PathInv
<1>2. /\ Followed' = Followed /\ \A x : edge_cost(x)' = edge_cost(x)
  BY <1>1, SameView
<1>3. /\ todo \in Seq(EdgeData) /\ e \in Range(todo)
      /\ todo' \in Seq(EdgeData) /\ Range(todo') \subseteq Range(todo)
      /\ Range(todo) \subseteq Range(todo') \cup {e}
  BY <1>1, HeadTail DEF Linked
<1>4. e \in Followed /\ e.from = at.node /\ e.to \in Names
  BY <1>1, <1>3, FollowedType DEF Linked
<1>5. edge_cost(e.to) \in Nat /\ edge_cost(e.to) > 0
  BY <1>1, CostPositive
<1>6. new_cost \in Nat /\ new_cost > dist[at.node]
  BY <1>1, <1>5 DEF Reached
<1>7. new_cost = at.cost + edge_cost(e.to)
  OBVIOUS
<1>8. ParentsDescend!2
  BY <1>1 DEF PathInv, ParentsDescend
<1>9. \A f \in Range(todo') : f \in Followed' /\ f.from = at'.node
  BY <1>1, <1>2, <1>3 DEF Linked
<1>10. Relax => \/ IsBetter(new_cost, e.to) /\ dist' = With(dist, e.to, new_cost)
                   /\ parent' = With(parent, e.to, [from |-> at.node, edge |-> e])
                   /\ heap' = heap \cup {[cost |-> new_cost, node |-> e.to]}
                \/ ~ IsBetter(new_cost, e.to) /\ UNCHANGED <<dist, parent, heap>>
  BY DEF Relax
<1> HIDE DEF e, new_cost
<1>11. CASE ~ IsBetter(new_cost, e.to)
  <2>1. UNCHANGED <<dist, parent, heap>>
    BY <1>10, <1>11
  <2>2. Linked'
    BY <1>1, <1>2, <1>3, <1>9, <2>1 DEF Linked
  <2>3. ASSUME NEW x \in DOMAIN dist PROVE
          \/ Pending(x)'
          \/ x # call'.end /\ \A f \in Followed' : f.from = x => Settled(f)' \/ ToDo(f)'
    <3>1. CASE Pending(x)
      BY <2>1, <3>1 DEF Pending
    <3>2. CASE /\ x # call.end
               /\ \A f \in Followed : f.from = x => Settled(f) \/ ToDo(f)
      <4>1. ASSUME NEW f \in Followed, f.from = x PROVE Settled(f)' \/ ToDo(f)'
        <5>1. CASE Settled(f)
          BY <1>2, <2>1, <5>1 DEF Settled
        <5>2. CASE ToDo(f) /\ f # e
          BY <1>1, <1>3, <2>1, <5>2 DEF ToDo
        <5>3. CASE ToDo(f) /\ f = e
          <6>1. at.cost = dist[at.node] /\ e.to \in DOMAIN dist /\ ~ (new_cost < dist[e.to])
            BY <1>11, <5>3 DEF ToDo, IsBetter
          <6>2. dist[e.to] \in Nat
            BY <1>1, <6>1 DEF Reached
          <6>3. dist[e.to] <= dist[e.from] + edge_cost(e.to)
            BY <1>4, <1>6, <1>7, <6>1, <6>2
          <6> QED
            BY <1>2, <2>1, <5>3, <6>1, <6>3 DEF Settled
        <5> QED
          BY <3>2, <4>1, <5>1, <5>2, <5>3
      <4> QED
        BY <1>1, <1>2, <3>2, <4>1
    <3> QED
      BY <1>1, <3>1, <3>2 DEF Relaxed
  <2> QED
    BY <2>1, <2>2, <2>3 DEF Relaxed
<1>12. CASE IsBetter(new_cost, e.to)
  <2> DEFINE to == e.to
  <2>1. /\ dist' = With(dist, to, new_cost)
        /\ parent' = With(parent, to, [from |-> at.node, edge |-> e])
        /\ heap' = heap \cup {[cost |-> new_cost, node |-> to]}
    BY <1>10, <1>12
  <2>2. to # at.node
    BY <1>1, <1>6, <1>12 DEF IsBetter, Reached
  <2>3. /\ DOMAIN dist' = DOMAIN dist \cup {to} /\ dist'[to] = new_cost
        /\ \A x \in DOMAIN dist \ {to} : dist'[x] = dist[x]
    BY <2>1 DEF With
  <2>4. /\ DOMAIN parent' = DOMAIN parent \cup {to}
        /\ parent'[to] = [from |-> at.node, edge |-> e]
        /\ \A x \in DOMAIN parent \ {to} : parent'[x] = parent[x]
    BY <2>1 DEF With
  <2>5. \A x \in DOMAIN dist : dist'[x] <= dist[x] /\ dist[x] \in Nat /\ dist'[x] \in Nat
    BY <1>1, <1>6, <1>12, <2>3 DEF IsBetter, Reached
  <2> HIDE DEF to
  <2>6. ASSUME NEW x \in DOMAIN parent'
        PROVE  /\ parent'[x].edge \in Followed' /\ parent'[x].edge.from = parent'[x].from
               /\ dist'[x] >= dist'[parent'[x].from] + edge_cost(x)'
    <3>1. CASE x = to
      <4>1. parent'[x].edge = e /\ parent'[x].from = at.node
        BY <2>4, <3>1
      <4>2. at.node \in DOMAIN dist /\ dist'[at.node] = dist[at.node] /\ dist[at.node] <= at.cost
            /\ at.cost \in Nat /\ dist[at.node] \in Nat
        BY <1>1, <2>2, <2>3 DEF Reached
      <4>3. dist'[x] = at.cost + edge_cost(x)
        BY <1>7, <2>3, <3>1 DEF to
      <4>4. edge_cost(x) \in Nat
        BY <1>1, CostPositive
      <4>5. dist'[x] >= dist'[at.node] + edge_cost(x)
        BY <4>2, <4>3, <4>4
      <4> QED
        BY <1>2, <1>4, <4>1, <4>5
    <3>2. CASE x # to
      <4>1. x \in DOMAIN parent /\ x \in DOMAIN dist /\ parent'[x] = parent[x]
        BY <1>8, <2>4, <3>2
      <4>2. /\ parent[x].edge \in Followed /\ parent[x].edge.from = parent[x].from
            /\ dist[x] >= dist[parent[x].from] + edge_cost(x)
            /\ parent[x].from \in DOMAIN dist
        BY <1>1, <1>8, <4>1 DEF Linked
      <4>3. dist'[x] = dist[x]
        BY <2>3, <3>2, <4>1
      <4>4. edge_cost(x) \in Nat
        BY <1>1, CostPositive
      <4>5. dist'[x] >= dist'[parent[x].from] + edge_cost(x)
        BY <2>5, <4>1, <4>2, <4>3, <4>4
      <4> QED
        BY <1>2, <4>1, <4>2, <4>5
    <3> QED
      BY <3>1, <3>2
  <2>7. DOMAIN dist' \subseteq Names
    BY <1>1, <1>4, <2>3 DEF Linked, to
  <2>8. Linked'
    BY <1>1, <1>3, <1>9, <2>6, <2>7 DEF Linked
  <2>9. ASSUME NEW x \in DOMAIN dist' PROVE
          \/ Pending(x)'
          \/ x # call'.end /\ \A f \in Followed' : f.from = x => Settled(f)' \/ ToDo(f)'
    <3>1. CASE x = to
      <4>1. Pending(x)'
        BY <2>1, <2>3, <3>1 DEF Pending
      <4> QED
        BY <4>1
    <3>2. CASE x # to /\ Pending(x)
      <4>1. dist'[x] = dist[x]
        BY <2>3, <3>2
      <4>2. Pending(x)'
        BY <2>1, <3>2, <4>1 DEF Pending
      <4> QED
        BY <4>2
    <3>3. CASE /\ x # to /\ x # call.end
               /\ \A f \in Followed : f.from = x => Settled(f) \/ ToDo(f)
      <4>1. x \in DOMAIN dist /\ dist'[x] = dist[x] /\ dist[x] \in Nat
        BY <2>3, <2>5, <3>3
      <4>2. ASSUME NEW f \in Followed, f.from = x PROVE Settled(f)' \/ ToDo(f)'
        <5>0. edge_cost(f.to) \in Nat
          BY <1>1, CostPositive
        <5>1. CASE Settled(f)
          <6>1. f.to \in DOMAIN dist /\ dist[f.to] <= dist[x] + edge_cost(f.to)
            BY <4>2, <5>1 DEF Settled
          <6>2. f.to \in DOMAIN dist' /\ dist'[f.to] <= dist'[x] + edge_cost(f.to)
            BY <2>3, <2>5, <4>1, <5>0, <6>1
          <6> QED
            BY <1>2, <4>2, <6>2 DEF Settled
        <5>2. CASE ToDo(f) /\ f # e
          BY <1>1, <1>3, <2>2, <2>3, <4>1, <4>2, <5>2 DEF ToDo
        <5>3. CASE ToDo(f) /\ f = e
          <6>1. at.cost = dist[x] /\ f.to = to
            BY <4>2, <5>3 DEF ToDo, to
          <6>2. dist'[to] = dist'[x] + edge_cost(to)
            BY <1>7, <2>3, <4>1, <6>1 DEF to
          <6>3. f.to \in DOMAIN dist' /\ dist'[f.to] <= dist'[x] + edge_cost(f.to)
            BY <1>6, <2>3, <6>1, <6>2
          <6> QED
            BY <1>2, <4>2, <6>3 DEF Settled
        <5> QED
          BY <3>3, <4>2, <5>1, <5>2, <5>3
      <4> QED
        BY <1>1, <1>2, <3>3, <4>2
    <3>4. x # to => x \in DOMAIN dist
      BY <2>3
    <3> QED
      BY <1>1, <3>1, <3>2, <3>3, <3>4 DEF Relaxed
  <2> QED
    BY <2>8, <2>9 DEF Relaxed
<1> QED
  BY <1>11, <1>12

(* What each operation takes.                                              *)
LEMMA CallTypes ==
  ASSUME WellFormed
  PROVE  /\ call.op = "find_path" => call.start \in Names /\ call.end \in Names
         /\ call.op = "beam_traverse" =>
              /\ call.start_nodes \in Seq(Names) /\ Len(call.start_nodes) = 1
              /\ call.k \in Nat /\ call.depth \in Nat
         /\ call.op = "contextual_subgraph" => call.k \in Nat
         /\ call.op = "multi_beam_intersection" =>
              /\ call.start_nodes \in Seq(Names) /\ call.k \in Nat /\ call.depth \in Nat
              /\ call.threshold \in Nat
         /\ call.op \in {"find_path", "beam_traverse", "contextual_subgraph",
                         "multi_beam_intersection"}
<1> DEFINE A == [op: {"find_path"}, start: Names, end: Names]
           B == [op: {"beam_traverse"}, start_nodes: {<<x>> : x \in Names}, k: Nat, depth: Nat]
           C == [op: {"contextual_subgraph"}, k: Nat]
           D == [op: {"multi_beam_intersection"}, start_nodes: Seq(Names), k: Nat,
                 depth: Nat, threshold: Nat]
<1>1. call \in A \cup B \cup C \cup D
  BY CallsAssumption DEF WellFormed, AllCalls
<1>2. call \in A => call.op = "find_path" /\ call.start \in Names /\ call.end \in Names
  OBVIOUS
<1>3. call \in B => /\ call.op = "beam_traverse" /\ call.k \in Nat /\ call.depth \in Nat
                    /\ call.start_nodes \in Seq(Names) /\ Len(call.start_nodes) = 1
  <2> SUFFICES ASSUME call \in B
               PROVE  /\ call.op = "beam_traverse" /\ call.k \in Nat /\ call.depth \in Nat
                      /\ call.start_nodes \in Seq(Names) /\ Len(call.start_nodes) = 1
    OBVIOUS
  <2>1. /\ call.op = "beam_traverse" /\ call.k \in Nat /\ call.depth \in Nat
        /\ call.start_nodes \in {<<x>> : x \in Names}
    OBVIOUS
  <2>2. PICK x \in Names : call.start_nodes = <<x>>
    BY <2>1
  <2>3. <<x>> \in Seq(Names) /\ Len(<<x>>) = 1
    OBVIOUS
  <2> HIDE DEF B
  <2> QED
    BY <2>1, <2>2, <2>3
<1>4. call \in C => call.op = "contextual_subgraph" /\ call.k \in Nat
  OBVIOUS
<1>5. call \in D => /\ call.op = "multi_beam_intersection" /\ call.start_nodes \in Seq(Names)
                    /\ call.k \in Nat /\ call.depth \in Nat /\ call.threshold \in Nat
  OBVIOUS
<1> HIDE DEF A, B, C, D
<1> QED
  BY <1>1, <1>2, <1>3, <1>4, <1>5

(* Popping a heap entry keeps what find_path knows.                        *)
LEMMA PopKeeps ==
  ASSUME PathInv, Pop, pc' = "search"
  PROVE  Reached' /\ Linked' /\ Relaxed' /\ ParentsDescend'
<1>1. /\ pc = "search" /\ todo = << >>
      /\ UNCHANGED <<graph, ctx, call, dist, parent>>
      /\ Reached /\ Linked /\ Relaxed /\ WellFormed
  BY DEF Pop, PathInv
<1>2. /\ Followed' = Followed /\ \A x : edge_cost(x)' = edge_cost(x)
      /\ \A x : Neighbors(x)' = Neighbors(x)
  BY <1>1, SameView
<1>3. PICK least \in heap :
        /\ heap' = heap \ {least} /\ least.node # call.end
        /\ \/ least.cost > dist[least.node] /\ UNCHANGED <<at, todo>>
           \/ ~ (least.cost > dist[least.node]) /\ at' = least /\ todo' = Neighbors(least.node)
  BY DEF Pop, Return
<1>4. /\ least.node \in DOMAIN dist /\ least.node \in Names /\ least.cost \in Nat
      /\ dist[least.node] <= least.cost /\ dist[least.node] \in Nat
  BY <1>1, <1>3 DEF Reached, Linked
<1>5. ParentsDescend'
  BY <1>1 DEF PathInv, ParentsDescend
<1>6. \A entry \in heap' : /\ entry.node \in DOMAIN dist /\ entry.cost \in Nat
                           /\ dist[entry.node] <= entry.cost
  BY <1>1, <1>3 DEF Reached
<1>7. at'.node \in DOMAIN dist /\ at'.cost \in Nat /\ dist[at'.node] <= at'.cost
  BY <1>1, <1>3, <1>4 DEF Reached
<1>8. Reached'
  BY <1>1, <1>6, <1>7 DEF Reached
<1>9. todo' \in Seq(EdgeData) /\ \A e \in Range(todo') : e \in Followed /\ e.from = at'.node
  BY <1>1, <1>3, <1>4, NeighborsExact DEF Linked
<1>10. Linked'
  BY <1>1, <1>2, <1>9 DEF Linked
<1>11. Range(todo) = {}
  BY <1>1 DEF Range
<1>12. ASSUME NEW x \in DOMAIN dist' PROVE
          \/ Pending(x)'
          \/ x # call'.end /\ \A e \in Followed' : e.from = x => Settled(e)' \/ ToDo(e)'
  <2>1. CASE Pending(x) /\ [cost |-> dist[x], node |-> x] # least
    <3>1. Pending(x)'
      BY <1>1, <1>3, <2>1 DEF Pending
    <3> QED
      BY <3>1
  <2>2. CASE [cost |-> dist[x], node |-> x] = least
    <3>1. least.node = x /\ least.cost = dist[x] /\ dist[x] \in Nat
      BY <1>1, <1>4, <2>2
    <3>2. at' = least /\ todo' = Neighbors(x)
      BY <1>3, <3>1
    <3>3. ASSUME NEW e \in Followed, e.from = x PROVE ToDo(e)'
      <4>1. e \in Range(todo')
        BY <1>1, <1>4, <3>1, <3>2, <3>3, NeighborsExact
      <4> QED
        BY <1>1, <3>1, <3>2, <3>3, <4>1 DEF ToDo
    <3> QED
      BY <1>1, <1>2, <1>3, <3>1, <3>3
  <2>3. CASE x # call.end /\ \A e \in Followed : e.from = x => Settled(e) \/ ToDo(e)
    <3>1. ASSUME NEW e \in Followed, e.from = x PROVE Settled(e)'
      <4>1. Settled(e)
        BY <1>11, <2>3, <3>1 DEF ToDo
      <4> QED
        BY <1>1, <1>2, <4>1 DEF Settled
    <3> QED
      BY <1>1, <1>2, <2>3, <3>1
  <2> QED
    BY <1>1, <2>1, <2>2, <2>3 DEF Relaxed
<1>13. Relaxed'
  BY <1>12 DEF Relaxed
<1> QED
  BY <1>5, <1>8, <1>10, <1>13

(* The start alone is reached when find_path begins.                       *)
LEMMA BeginPathKeeps ==
  ASSUME PathInv, BeginPath, pc' = "search"
  PROVE  Reached' /\ Linked' /\ Relaxed' /\ ParentsDescend'
<1>1. /\ UNCHANGED <<graph, ctx, call>> /\ WellFormed /\ call.op = "find_path"
      /\ call.start # call.end
      /\ dist' = [x \in {call.start} |-> 0] /\ parent' = Empty
      /\ heap' = {[cost |-> 0, node |-> call.start]}
      /\ at' = [cost |-> 0, node |-> call.start] /\ todo' = << >>
  BY DEF BeginPath, PathInv, Return
<1>2. Reached'
  BY <1>1 DEF Reached
<1>3. ParentsDescend'
  BY <1>1 DEF ParentsDescend, Empty
<1>4. Linked'
  <2>1. DOMAIN dist' \subseteq Names
    BY <1>1, CallTypes
  <2>2. DOMAIN parent' = {}
    BY <1>1 DEF Empty
  <2>3. todo' \in Seq(EdgeData) /\ Range(todo') = {}
    BY <1>1 DEF Range
  <2> QED
    BY <1>1, <2>1, <2>2, <2>3 DEF Linked
<1>5. Relaxed'
  <2>1. \A x \in DOMAIN dist' : Pending(x)'
    BY <1>1 DEF Pending
  <2> QED
    BY <2>1 DEF Relaxed
<1> QED
  BY <1>2, <1>3, <1>4, <1>5

(* Every step keeps what find_path knows.                                  *)
LEMMA PathStep == PathInv /\ [Next]_vars => PathInv'
<1> SUFFICES ASSUME PathInv, [Next]_vars PROVE PathInv'
  OBVIOUS
<1>1. WellFormed'
  BY WellFormedStep DEF PathInv
<1>2. CASE UNCHANGED vars
  <2>1. /\ UNCHANGED <<graph, ctx, call, pc, dist, parent, heap, at, todo>>
    BY <1>2 DEF vars, search
  <2>2. Followed' = Followed /\ \A x : edge_cost(x)' = edge_cost(x)
    BY <2>1, SameView
  <2>3. pc = "search" => Relaxed'
    BY <2>1, <2>2 DEF PathInv, Relaxed, Pending, Settled, ToDo
  <2>4. pc = "search" => Linked'
    BY <2>1, <2>2 DEF PathInv, Linked
  <2>5. pc = "search" => Reached'
    BY <2>1 DEF PathInv, Reached
  <2>6. ParentsDescend'
    BY <2>1 DEF PathInv, ParentsDescend
  <2> QED
    BY <1>1, <2>1, <2>3, <2>4, <2>5, <2>6 DEF PathInv
<1>3. CASE pc' # "search"
  BY <1>1, <1>3 DEF PathInv, ParentsDescend
<1>4. CASE pc' = "search" /\ BeginPath
  BY <1>1, <1>4, BeginPathKeeps DEF PathInv
<1>5. CASE pc' = "search" /\ Pop
  BY <1>1, <1>5, PopKeeps DEF PathInv
<1>6. CASE Relax
  BY <1>1, <1>6, RelaxKeeps, RelaxLinks DEF PathInv
<1>7. CASE \/ NoPath \/ BeginBeams \/ (\E i \in DOMAIN beams : BeamLevel(i))
           \/ BeamReturns \/ IntersectionReturns \/ BeginSubgraph \/ Seed
           \/ SubgraphReturns \/ (\E mode \in {"Owned", "Mmap"} : Compact(mode))
  <2>1. pc' # "search"
    BY <1>7 DEF NoPath, BeginBeams, BeamLevel, BeamReturns, IntersectionReturns,
       BeginSubgraph, Seed, SubgraphReturns, Compact, Return
  <2> QED
    BY <1>3, <2>1
<1> QED
  BY <1>2, <1>3, <1>4, <1>5, <1>6, <1>7 DEF Next

(* ParentsDescend: the parent links find_path keeps always lead to a lower *)
(* distance, so that reconstruct_path comes back to the start, whatever    *)
(* the graph, the context and the call (traversal.rs find_path).           *)
THEOREM PathsLeadBack == Spec => []ParentsDescend
<1>1. Init => PathInv
  BY PathInit
<1>2. PathInv /\ [Next]_vars => PathInv'
  BY PathStep
<1>3. PathInv => ParentsDescend
  BY DEF PathInv
<1> QED
  BY <1>1, <1>2, <1>3, PTL DEF Spec

(***************************************************************************)
(* The least cost of a walk, taken apart: Costs(f, x) are the costs of x   *)
(* one edge further than those of f.                                       *)
(***************************************************************************)
Least(S) == IF S = {} THEN Unreached ELSE CHOOSE c \in S : \A d \in S : c <= d

Costs(f, x) ==
  ({f[x]} \cup {f[e.from] + edge_cost(x) :
                  e \in {g \in Followed : g.to = x /\ f[g.from] # Unreached}})
    \ {Unreached}

Further(f) == [x \in Names |-> Least(Costs(f, x))]
AtStart    == [x \in Names |-> IF x = call.start THEN 0 ELSE Unreached]
N          == Cardinality(Names)
Distances  == [Names -> Nat \cup {Unreached}]

IsAfter(after) ==
  /\ after \in [0 .. N -> Distances] /\ after[0] = AtStart
  /\ \A i \in 1 .. N : after[i] = Further(after[i - 1])

(* There are finitely many names.                                          *)
LEMMA NamesFinite == IsFiniteSet(Names) /\ Names \subseteq Nat /\ N \in Nat
BY OverlayAssumption, FS_CardinalityType DEF N

(* Costs(f, x): the cost x has, and one for every edge into it.            *)
LEMMA CostsFacts ==
  ASSUME WellFormed, NEW f \in Distances, NEW x \in Names
  PROVE  /\ Costs(f, x) \subseteq Nat
         /\ \A c : c \in Costs(f, x) <=>
              \/ c = f[x] /\ f[x] # Unreached
              \/ \E e \in Followed : /\ e.to = x /\ f[e.from] # Unreached
                                     /\ c = f[e.from] + edge_cost(x)
<1>1. f[x] \in Nat \cup {Unreached} /\ Unreached \notin Nat
  BY DEF Distances, Unreached
<1>2. edge_cost(x) \in Nat
  BY CostPositive
<1>3. ASSUME NEW e \in Followed, f[e.from] # Unreached
      PROVE  f[e.from] \in Nat /\ f[e.from] + edge_cost(x) \in Nat
  <2>1. e.from \in Names
    BY FollowedType
  <2>2. f[e.from] \in Nat
    BY <1>3, <2>1 DEF Distances
  <2> QED
    BY <1>2, <2>2
<1>4. ASSUME NEW c
      PROVE  c \in Costs(f, x) <=>
               \/ c = f[x] /\ f[x] # Unreached
               \/ \E e \in Followed : /\ e.to = x /\ f[e.from] # Unreached
                                      /\ c = f[e.from] + edge_cost(x)
  <2>1. c \in Costs(f, x) <=>
          /\ c # Unreached
          /\ \/ c = f[x]
             \/ \E e \in Followed : /\ e.to = x /\ f[e.from] # Unreached
                                    /\ c = f[e.from] + edge_cost(x)
    BY DEF Costs
  <2>2. \A e \in Followed : f[e.from] # Unreached => f[e.from] + edge_cost(x) # Unreached
    BY <1>1, <1>3
  <2> QED
    BY <2>1, <2>2
<1>5. Costs(f, x) \subseteq Nat
  BY <1>1, <1>3, <1>4
<1> QED
  BY <1>4, <1>5

(* Least of a set of costs.                                                *)
LEMMA LeastFacts ==
  ASSUME NEW S, S \subseteq Nat
  PROVE  /\ Least(S) \in Nat \cup {Unreached}
         /\ Least(S) = Unreached <=> S = {}
         /\ S # {} => Least(S) \in S /\ \A c \in S : Least(S) <= c
<1>1. Unreached \notin Nat
  BY DEF Unreached
<1>2. CASE S = {}
  BY <1>1, <1>2 DEF Least
<1>3. CASE S # {}
  <2>1. \E c \in S : \A d \in S : c <= d
    BY <1>3, LeastNatural
  <2>2. Least(S) \in S /\ \A c \in S : Least(S) <= c
    BY <1>3, <2>1 DEF Least
  <2> QED
    BY <1>1, <1>3, <2>2
<1> QED
  BY <1>2, <1>3

(* One more round of edges gives every name a cost.                        *)
LEMMA FurtherType ==
  ASSUME WellFormed, NEW f \in Distances
  PROVE  Further(f) \in Distances /\ \A x \in Names : Further(f)[x] = Least(Costs(f, x))
<1>1. \A x \in Names : Least(Costs(f, x)) \in Nat \cup {Unreached}
  BY CostsFacts, LeastFacts
<1> QED
  BY <1>1 DEF Further, Distances

LeastCostIs(after) == IsAfter(after) /\ \A y : LeastCost(y) = after[N][y]
HasLeastCosts == \E after : LeastCostIs(after)

(* LeastCost is what N rounds of edges give.                               *)
LEMMA LeastCostSteps == WellFormed => HasLeastCosts
<1> SUFFICES ASSUME WellFormed PROVE HasLeastCosts
  OBVIOUS
<1> DEFINE Rec(f) == f = [i \in 0 .. N |-> IF i = 0 THEN AtStart ELSE Further(f[i - 1])]
           chosen == CHOOSE f : Rec(f)
           step   == [i \in 1 .. N |-> [f \in Distances |-> Further(f)]]
<1>1. \A y : LeastCost(y) = chosen[N][y]
  BY DEF LeastCost, AtStart, Further, Costs, Least, N
<1>2. AtStart \in Distances
  BY DEF AtStart, Distances
<1>3. \A i \in 1 .. N : \A f \in Distances : step[i][f] = Further(f)
  OBVIOUS
<1>4. StepsIn(step, N, Distances)
  BY <1>3, FurtherType DEF StepsIn
<1> HIDE DEF step, chosen, Rec
<1>5. PICK g \in [0 .. N -> Distances] : Follows(g, N, AtStart, step)
  BY <1>2, <1>4, NamesFinite, StepsDefine
<1>6. \A i \in 1 .. N : i - 1 \in 0 .. N
  BY NamesFinite
<1>7. \A i \in 1 .. N : g[i] = Further(g[i - 1])
  BY <1>3, <1>5, <1>6 DEF Follows
<1>8. Rec(g)
  <2>1. \A i \in 0 .. N : i # 0 => i \in 1 .. N
    BY NamesFinite
  <2>2. \A i \in 0 .. N : g[i] = IF i = 0 THEN AtStart ELSE Further(g[i - 1])
    BY <1>5, <1>7, <2>1 DEF Follows
  <2>3. g = [i \in 0 .. N |-> g[i]]
    BY <1>5
  <2> QED
    BY <2>2, <2>3 DEF Rec
<1>9. Rec(chosen)
  BY <1>8 DEF chosen
<1>10. DOMAIN chosen = 0 .. N /\ chosen = [i \in 0 .. N |-> chosen[i]]
  BY <1>9 DEF Rec
<1>11. chosen[0] = AtStart /\ \A i \in 1 .. N : chosen[i] = Further(chosen[i - 1])
  <2>1. 0 \in 0 .. N /\ \A i \in 1 .. N : i \in 0 .. N /\ i # 0
    BY NamesFinite
  <2>2. \A i \in 0 .. N : chosen[i] = IF i = 0 THEN AtStart ELSE Further(chosen[i - 1])
    BY <1>9 DEF Rec
  <2> QED
    BY <2>1, <2>2
<1>12. \A i \in 0 .. N : chosen[i] \in Distances
  <2> DEFINE D == {i \in Nat : i <= N => chosen[i] \in Distances}
  <2>1. 0 \in D
    BY <1>2, <1>11
  <2>2. ASSUME NEW i \in Nat, i \in D PROVE i + 1 \in D
    <3> SUFFICES ASSUME i + 1 <= N PROVE chosen[i + 1] \in Distances
      BY <2>2
    <3>1. i + 1 \in 1 .. N /\ (i + 1) - 1 = i /\ chosen[i] \in Distances
      BY <2>2, NamesFinite
    <3>2. chosen[i + 1] = Further(chosen[i])
      BY <1>11, <3>1
    <3> QED
      BY <3>1, <3>2, FurtherType
  <2>3. \A i \in Nat : i \in D
    <3> HIDE DEF D
    <3> QED
      BY <2>1, <2>2, NatSetInduction
  <2> QED
    BY <2>3, NamesFinite
<1>13. IsAfter(chosen)
  <2>1. chosen \in [0 .. N -> Distances]
    BY <1>10, <1>12
  <2> QED
    BY <1>11, <2>1 DEF IsAfter
<1> QED
  BY <1>1, <1>13 DEF HasLeastCosts, LeastCostIs

(* The same edges, costs and start have the same least costs.              *)
LEMMA LeastCostSame ==
  ASSUME WellFormed, WellFormed', call' = call,
         Followed' = Followed, \A x : edge_cost(x)' = edge_cost(x)
  PROVE  \A y \in Names : LeastCost(y)' = LeastCost(y)
<1>1. PICK after : IsAfter(after) /\ \A y : LeastCost(y) = after[N][y]
  BY LeastCostSteps DEF HasLeastCosts, LeastCostIs
<1>2. HasLeastCosts'
  BY LeastCostSteps, PTL
<1>3. PICK g : IsAfter(g)' /\ \A y : LeastCost(y)' = g[N][y]
  BY <1>2 DEF HasLeastCosts, LeastCostIs
<1>4. /\ after \in [0 .. N -> Distances] /\ after[0] = AtStart
      /\ \A i \in 1 .. N : after[i] = Further(after[i - 1])
  BY <1>1 DEF IsAfter
<1>5. /\ g \in [0 .. N -> Distances] /\ g[0] = AtStart'
      /\ \A i \in 1 .. N : g[i] = Further(g[i - 1])'
  BY <1>3 DEF IsAfter
<1>6. AtStart' = AtStart
  BY DEF AtStart
<1>7. ASSUME NEW f PROVE Further(f)' = Further(f)
  <2>1. ASSUME NEW x \in Names PROVE Costs(f, x)' = Costs(f, x)
    BY DEF Costs
  <2>2. \A x \in Names : Least(Costs(f, x))' = Least(Costs(f, x))
    BY <2>1
  <2>3. Further(f)' = [x \in Names |-> Least(Costs(f, x))']
    BY DEF Further
  <2> QED
    BY <2>2, <2>3 DEF Further
<1> DEFINE D == {i \in Nat : i <= N => g[i] = after[i]}
<1>8. 0 \in D
  BY <1>4, <1>5, <1>6
<1>9. ASSUME NEW i \in Nat, i \in D PROVE i + 1 \in D
  <2> SUFFICES ASSUME i + 1 <= N PROVE g[i + 1] = after[i + 1]
    BY <1>9
  <2>1. i + 1 \in 1 .. N /\ (i + 1) - 1 = i /\ g[i] = after[i]
    BY <1>9, NamesFinite
  <2> QED
    BY <1>4, <1>5, <1>7, <2>1
<1>10. \A i \in Nat : i \in D
  <2> HIDE DEF D
  <2> QED
    BY <1>8, <1>9, NatSetInduction
<1>11. g[N] = after[N]
  BY <1>10, NamesFinite
<1> QED
  BY <1>1, <1>3, <1>11

(* A least cost below every pending distance is not below the distance.    *)
LEMMA DistancesAreLeast ==
  ASSUME WellFormed, Reached, Linked, Relaxed, todo = << >>,
         NEW c \in Nat, \A x \in DOMAIN dist : Pending(x) => c <= dist[x],
         NEW y \in Names, LeastCost(y) # Unreached
  PROVE  /\ LeastCost(y) \in Nat
         /\ c <= LeastCost(y) \/ (y \in DOMAIN dist /\ dist[y] <= LeastCost(y))
<1> DEFINE Good(f) == \A x \in Names :
             f[x] # Unreached => c <= f[x] \/ (x \in DOMAIN dist /\ dist[x] <= f[x])
<1>1. PICK after : IsAfter(after) /\ \A z : LeastCost(z) = after[N][z]
  BY LeastCostSteps DEF HasLeastCosts, LeastCostIs
<1>2. /\ after \in [0 .. N -> Distances] /\ after[0] = AtStart
      /\ \A i \in 1 .. N : after[i] = Further(after[i - 1])
  BY <1>1 DEF IsAfter
<1>3. Range(todo) = {}
  BY DEF Range
<1>4. ASSUME NEW f \in Distances, Good(f), NEW x \in Names, NEW d \in Costs(f, x)
      PROVE  d \in Nat /\ (c <= d \/ (x \in DOMAIN dist /\ dist[x] <= d))
  <2>0. d \in Nat /\ edge_cost(x) \in Nat
    BY <1>4, CostsFacts, CostPositive
  <2>1. CASE d = f[x] /\ f[x] # Unreached
    BY <1>4, <2>0, <2>1
  <2>2. ASSUME NEW e \in Followed, e.to = x, f[e.from] # Unreached,
               d = f[e.from] + edge_cost(x)
        PROVE  c <= d \/ (x \in DOMAIN dist /\ dist[x] <= d)
    <3>1. e.from \in Names
      BY FollowedType
    <3>2. f[e.from] \in Nat
      BY <2>2, <3>1 DEF Distances
    <3>3. CASE c <= f[e.from]
      BY <2>0, <2>2, <3>2, <3>3
    <3>4. CASE e.from \in DOMAIN dist /\ dist[e.from] <= f[e.from] /\ Pending(e.from)
      <4>1. c <= dist[e.from] /\ dist[e.from] \in Nat
        BY <3>4 DEF Reached
      <4> QED
        BY <2>0, <2>2, <3>2, <3>4, <4>1
    <3>5. CASE e.from \in DOMAIN dist /\ dist[e.from] <= f[e.from] /\ ~ Pending(e.from)
      <4>1. Settled(e)
        BY <1>3, <3>5 DEF Relaxed, ToDo
      <4>2. x \in DOMAIN dist /\ dist[x] <= dist[e.from] + edge_cost(x)
        BY <2>2, <4>1 DEF Settled
      <4>3. dist[x] \in Nat /\ dist[e.from] \in Nat
        BY <3>5, <4>2 DEF Reached
      <4> QED
        BY <2>0, <2>2, <3>2, <3>5, <4>2, <4>3
    <3> QED
      BY <1>4, <2>2, <3>1, <3>3, <3>4, <3>5
  <2>3. \/ d = f[x] /\ f[x] # Unreached
        \/ \E e \in Followed : /\ e.to = x /\ f[e.from] # Unreached
                               /\ d = f[e.from] + edge_cost(x)
    BY <1>4, CostsFacts
  <2> QED
    BY <2>0, <2>1, <2>2, <2>3
<1>5. ASSUME NEW f \in Distances, Good(f) PROVE Good(Further(f))
  <2> SUFFICES ASSUME NEW x \in Names, Further(f)[x] # Unreached
               PROVE  \/ c <= Further(f)[x]
                      \/ x \in DOMAIN dist /\ dist[x] <= Further(f)[x]
    OBVIOUS
  <2>1. Further(f)[x] = Least(Costs(f, x)) /\ Costs(f, x) \subseteq Nat
    BY <1>5, FurtherType, CostsFacts
  <2>2. Least(Costs(f, x)) \in Costs(f, x)
    BY <2>1, LeastFacts
  <2> HIDE DEF Good
  <2> QED
    BY <1>4, <1>5, <2>1, <2>2
<1>6. Good(AtStart)
  BY DEF AtStart, Reached, Unreached
<1> DEFINE D == {i \in Nat : i <= N => Good(after[i])}
<1>7. 0 \in D
  BY <1>2, <1>6
<1>8. ASSUME NEW i \in Nat, i \in D PROVE i + 1 \in D
  <2> HIDE DEF Good
  <2> SUFFICES ASSUME i + 1 <= N PROVE Good(after[i + 1])
    BY <1>8
  <2>1. i + 1 \in 1 .. N /\ (i + 1) - 1 = i /\ i \in 0 .. N /\ Good(after[i])
    BY <1>8, NamesFinite
  <2>2. after[i + 1] = Further(after[i]) /\ after[i] \in Distances
    BY <1>2, <2>1
  <2> QED
    BY <1>5, <2>1, <2>2
<1>9. \A i \in Nat : i \in D
  <2> HIDE DEF D
  <2> QED
    BY <1>7, <1>8, NatSetInduction
<1>10. Good(after[N]) /\ after[N] \in Distances
  BY <1>2, <1>9, NamesFinite
<1>11. LeastCost(y) \in Nat
  BY <1>1, <1>10 DEF Distances
<1> QED
  BY <1>1, <1>10, <1>11

(***************************************************************************)
(* A walk of len edges from the start: its nodes, its edges, its costs.    *)
(***************************************************************************)
IsWalk(len, walk, via, cost) ==
  /\ walk \in [0 .. len -> Names] /\ walk[0] = call.start
  /\ cost \in [0 .. len -> Nat] /\ cost[0] = 0
  /\ \A i \in 1 .. len : /\ via[i] \in Followed /\ via[i].from = walk[i - 1]
                         /\ via[i].to = walk[i]
                         /\ cost[i] = cost[i - 1] + edge_cost(walk[i])

(* No walk of so few edges costs less than the least cost.                 *)
LEMMA WalksCostMore ==
  ASSUME WellFormed, NEW len \in Nat, len <= N,
         NEW walk, NEW via, NEW cost, IsWalk(len, walk, via, cost)
  PROVE  LeastCost(walk[len]) \in Nat /\ LeastCost(walk[len]) <= cost[len]
<1>1. PICK after : IsAfter(after) /\ \A z : LeastCost(z) = after[N][z]
  BY LeastCostSteps DEF HasLeastCosts, LeastCostIs
<1>2. /\ after \in [0 .. N -> Distances] /\ after[0] = AtStart
      /\ \A i \in 1 .. N : after[i] = Further(after[i - 1])
  BY <1>1 DEF IsAfter
<1>3. /\ \A i \in 0 .. len : walk[i] \in Names /\ cost[i] \in Nat
      /\ walk[0] = call.start /\ cost[0] = 0
      /\ \A i \in 1 .. len : /\ via[i] \in Followed /\ via[i].from = walk[i - 1]
                             /\ via[i].to = walk[i]
                             /\ cost[i] = cost[i - 1] + edge_cost(walk[i])
  BY DEF IsWalk
<1> DEFINE Within(i, j) == after[i][walk[j]] \in Nat /\ after[i][walk[j]] <= cost[j]
<1>4. ASSUME NEW f \in Distances, NEW x \in Names, NEW d \in Costs(f, x)
      PROVE  Further(f)[x] \in Nat /\ Further(f)[x] <= d
  <2>1. Further(f)[x] = Least(Costs(f, x)) /\ Costs(f, x) \subseteq Nat
    BY FurtherType, CostsFacts
  <2>2. Least(Costs(f, x)) \in Nat /\ Least(Costs(f, x)) <= d
    BY <1>4, <2>1, LeastFacts
  <2> QED
    BY <2>1, <2>2
<1>5. \A i \in Nat : i <= len => Within(i, i)
  <2> DEFINE D == {i \in Nat : i <= len => Within(i, i)}
  <2>1. 0 \in D
    <3>1. after[0][walk[0]] = 0
      BY <1>2, <1>3, NamesFinite DEF AtStart
    <3> QED
      BY <1>3, <3>1
  <2>2. ASSUME NEW i \in Nat, i \in D PROVE i + 1 \in D
    <3> SUFFICES ASSUME i + 1 <= len PROVE Within(i + 1, i + 1)
      BY <2>2
    <3>1. /\ i + 1 \in 1 .. N /\ i + 1 \in 1 .. len /\ (i + 1) - 1 = i /\ i \in 0 .. N
          /\ i \in 0 .. len /\ i + 1 \in 0 .. len /\ Within(i, i)
      BY <2>2, NamesFinite
    <3> DEFINE f == after[i]
               x == walk[i + 1]
               e == via[i + 1]
    <3>2. f \in Distances /\ after[i + 1] = Further(f) /\ x \in Names
      BY <1>2, <1>3, <3>1
    <3>3. e \in Followed /\ e.from = walk[i] /\ e.to = x /\ cost[i + 1] = cost[i] + edge_cost(x)
      BY <1>3, <3>1
    <3>4. f[e.from] \in Nat /\ f[e.from] <= cost[i]
      BY <3>1, <3>3
    <3>5. edge_cost(x) \in Nat /\ cost[i] \in Nat
      BY <1>3, <3>1, CostPositive
    <3> HIDE DEF Within, f, x, e
    <3>6. f[e.from] # Unreached
      BY <3>4 DEF Unreached
    <3>7. f[e.from] + edge_cost(x) \in Costs(f, x)
      BY <3>2, <3>3, <3>6, CostsFacts
    <3>8. Further(f)[x] \in Nat /\ Further(f)[x] <= f[e.from] + edge_cost(x)
      BY <1>4, <3>2, <3>7
    <3>9. Further(f)[x] <= cost[i + 1]
      BY <3>3, <3>4, <3>5, <3>8
    <3> QED
      BY <3>2, <3>8, <3>9 DEF Within, x
  <2>3. \A i \in Nat : i \in D
    <3> HIDE DEF D
    <3> QED
      BY <2>1, <2>2, NatSetInduction
  <2> QED
    BY <2>3
<1>6. \A i \in Nat : len + i <= N => Within(len + i, len)
  <2> DEFINE D == {i \in Nat : len + i <= N => Within(len + i, len)}
  <2>1. 0 \in D
    <3>1. len + 0 = len /\ Within(len, len)
      BY <1>5
    <3> HIDE DEF Within
    <3> QED
      BY <3>1
  <2>2. ASSUME NEW i \in Nat, i \in D PROVE i + 1 \in D
    <3> DEFINE m == len + i
               x == walk[len]
    <3> SUFFICES ASSUME m + 1 <= N PROVE Within(m + 1, len)
      <4>1. len + (i + 1) = m + 1
        OBVIOUS
      <4> HIDE DEF Within, m
      <4> QED
        BY <2>2, <4>1
    <3>1. m \in Nat /\ m + 1 \in 1 .. N /\ (m + 1) - 1 = m /\ m \in 0 .. N /\ Within(m, len)
      BY <2>2, NamesFinite
    <3>2. after[m] \in Distances /\ after[m + 1] = Further(after[m])
      BY <1>2, <3>1
    <3>3. x \in Names /\ cost[len] \in Nat
      BY <1>3
    <3> HIDE DEF m
    <3>4. after[m][x] \in Nat /\ after[m][x] <= cost[len]
      BY <3>1
    <3> HIDE DEF x, Within
    <3>5. after[m][x] \in Costs(after[m], x)
      <4>1. after[m][x] # Unreached
        BY <3>4 DEF Unreached
      <4> QED
        BY <3>2, <3>3, <4>1, CostsFacts
    <3>6. Further(after[m])[x] \in Nat /\ Further(after[m])[x] <= after[m][x]
      BY <1>4, <3>2, <3>3, <3>5
    <3>7. after[m + 1][x] \in Nat /\ after[m + 1][x] <= cost[len]
      BY <3>2, <3>3, <3>4, <3>6
    <3> QED
      BY <3>7 DEF Within, x
  <2>3. \A i \in Nat : i \in D
    <3> HIDE DEF D
    <3> QED
      BY <2>1, <2>2, NatSetInduction
  <2> QED
    BY <2>3
<1>7. N - len \in Nat /\ len + (N - len) = N
  BY NamesFinite
<1>8. Within(N, len)
  <2> HIDE DEF Within
  <2> QED
    BY <1>6, <1>7, NamesFinite
<1> QED
  BY <1>1, <1>8

(***************************************************************************)
(* reconstruct_path: the nodes back from the end to the start.             *)
(***************************************************************************)
IsTrail(len, trail) ==
  /\ trail[0] = call.end /\ trail[len] = call.start
  /\ \A i \in 0 .. len : trail[i] \in DOMAIN dist
  /\ \A i \in 0 .. len - 1 : /\ trail[i] \in DOMAIN parent
                             /\ trail[i + 1] = parent[trail[i]].from

PathOf(len, trail) ==
  [nodes |-> <<call.start>> \o [j \in 1 .. len |-> trail[len - j]],
   edges |-> [j \in 1 .. len |-> parent[trail[len - j]].edge]]

(* While a trail is in P, every step of it goes down in d.                 *)
Downhill(trail, n, d, P) ==
  /\ \A i \in 0 .. n : d[trail[i]] \in Nat
  /\ \A i \in Nat : i + 1 <= n /\ trail[i] \in P => d[trail[i + 1]] < d[trail[i]]

(* A trail along descending distances comes to its end.                    *)
LEMMA TrailEnds ==
  ASSUME NEW P, IsFiniteSet(P), NEW trail, NEW d, Downhill(trail, Cardinality(P), d, P)
  PROVE  \E i \in 0 .. Cardinality(P) : trail[i] \notin P
<1> DEFINE n == Cardinality(P)
<1>a. n \in Nat
  BY FS_CardinalityType
<1>b. /\ \A i \in 0 .. n : d[trail[i]] \in Nat
      /\ \A i \in Nat : i + 1 <= n /\ trail[i] \in P => d[trail[i + 1]] < d[trail[i]]
  BY DEF Downhill
<1>c. n = Cardinality(P)
  OBVIOUS
<1> HIDE DEF n
<1> SUFFICES ASSUME \A i \in 0 .. n : trail[i] \in P PROVE FALSE
  BY <1>c
<1> USE <1>a, <1>b
<1> DEFINE Descends(k) == \A i \in Nat : i + (k + 1) <= n => d[trail[i + (k + 1)]] < d[trail[i]]
           D == {k \in Nat : Descends(k)}
<1>1. \A i \in Nat : i + 1 <= n => d[trail[i + 1]] < d[trail[i]]
  OBVIOUS
<1>2. 0 \in D
  BY <1>1
<1>3. ASSUME NEW k \in Nat, k \in D PROVE k + 1 \in D
  <2> SUFFICES ASSUME NEW i \in Nat, i + ((k + 1) + 1) <= n
               PROVE  d[trail[i + ((k + 1) + 1)]] < d[trail[i]]
    OBVIOUS
  <2> DEFINE m == i + (k + 1)
  <2>1. m \in Nat /\ m + 1 <= n /\ m + 1 = i + ((k + 1) + 1) /\ m <= n
    OBVIOUS
  <2>2. d[trail[m]] < d[trail[i]]
    BY <1>3, <2>1
  <2>3. d[trail[m + 1]] < d[trail[m]]
    BY <1>1, <2>1
  <2>4. d[trail[m]] \in Nat /\ d[trail[m + 1]] \in Nat /\ d[trail[i]] \in Nat
    BY <2>1
  <2> HIDE DEF m
  <2> QED
    BY <2>1, <2>2, <2>3, <2>4
<1>4. \A k \in Nat : k \in D
  <2> HIDE DEF D
  <2> QED
    BY <1>2, <1>3, NatSetInduction
<1>5. ASSUME NEW i \in 0 .. n, NEW j \in 0 .. n, i < j PROVE trail[i] # trail[j]
  <2>1. (j - i) - 1 \in Nat /\ i + (((j - i) - 1) + 1) = j /\ i \in Nat
    BY <1>5
  <2>2. Descends((j - i) - 1)
    BY <1>4, <2>1
  <2>3. d[trail[j]] < d[trail[i]]
    BY <2>1, <2>2
  <2>4. d[trail[j]] \in Nat /\ d[trail[i]] \in Nat
    OBVIOUS
  <2> QED
    BY <2>3, <2>4
<1> DEFINE f == [i \in 0 .. n |-> trail[i]]
           S == 0 .. n
<1>6. f \in [S -> P] /\ \A i \in S : f[i] = trail[i]
  OBVIOUS
<1>7. IsFiniteSet(S) /\ Cardinality(S) = n + 1
  BY FS_Interval
<1> HIDE DEF f, S
<1>8. Cardinality(P) < Cardinality(S)
  BY <1>7, <1>c
<1>9. PICK i, j \in S : i # j /\ f[i] = f[j]
  BY <1>6, <1>7, <1>8, FS_PigeonHole
<1>10. i < j \/ j < i
  BY <1>9 DEF S
<1> QED
  BY <1>5, <1>6, <1>9, <1>10 DEF S

(* reconstruct_path follows parent links to the start in at most N steps.  *)
LEMMA PathComesBack ==
  ASSUME PathInv, pc = "search", call.end \in DOMAIN dist
  PROVE  \E len \in 1 .. N : \E trail :
           IsTrail(len, trail) /\ reconstruct_path(call.start, call.end) = PathOf(len, trail)
<1> DEFINE n      == Cardinality(DOMAIN parent)
           Back(x) == IF x \in DOMAIN parent THEN parent[x].from ELSE x
           Rec(f) == f = [i \in 0 .. n |-> IF i = 0 THEN call.end
                                           ELSE IF f[i - 1] \in DOMAIN parent
                                                THEN parent[f[i - 1]].from ELSE f[i - 1]]
           trail  == CHOOSE f : Rec(f)
           step   == [i \in 1 .. n |-> [x \in DOMAIN dist |-> Back(x)]]
           ends   == {i \in 0 .. n : trail[i] = call.start \/ trail[i] \notin DOMAIN parent}
           len    == CHOOSE i \in ends : \A j \in ends : i <= j
<1>1. reconstruct_path(call.start, call.end) = PathOf(len, trail)
  BY DEF reconstruct_path, PathOf
<1>2. Reached /\ Linked /\ WellFormed
  BY DEF PathInv
<1>3. /\ DOMAIN parent = DOMAIN dist \ {call.start}
      /\ \A x \in DOMAIN parent : parent[x].from \in DOMAIN dist /\ dist[parent[x].from] < dist[x]
  BY DEF PathInv, ParentsDescend
<1>4. IsFiniteSet(DOMAIN parent) /\ n \in Nat /\ n <= N
  <2>1. DOMAIN parent \subseteq Names
    BY <1>2, <1>3 DEF Linked
  <2> QED
    BY <2>1, NamesFinite, FS_Subset, FS_CardinalityType DEF N
<1>5. \A x \in DOMAIN dist : Back(x) \in DOMAIN dist
  BY <1>3
<1>6. \A i \in 1 .. n : \A x \in DOMAIN dist : step[i][x] = Back(x)
  OBVIOUS
<1> HIDE DEF step, trail, Rec, n, ends, len
<1>7. StepsIn(step, n, DOMAIN dist)
  BY <1>5, <1>6 DEF StepsIn
<1>8. PICK g \in [0 .. n -> DOMAIN dist] : Follows(g, n, call.end, step)
  <2>1. call.end \in DOMAIN dist
    OBVIOUS
  <2> HIDE DEF Back
  <2> QED
    BY <1>4, <1>7, <2>1, StepsDefine
<1>9. \A i \in 1 .. n : i - 1 \in 0 .. n
  BY <1>4
<1>10. \A i \in 1 .. n : g[i] = Back(g[i - 1])
  BY <1>6, <1>8, <1>9 DEF Follows
<1>11. Rec(g)
  <2>1. \A i \in 0 .. n : i # 0 => i \in 1 .. n
    BY <1>4
  <2>2. \A i \in 0 .. n : g[i] = IF i = 0 THEN call.end
                                 ELSE IF g[i - 1] \in DOMAIN parent
                                      THEN parent[g[i - 1]].from ELSE g[i - 1]
    BY <1>8, <1>10, <2>1 DEF Follows
  <2>3. g = [i \in 0 .. n |-> g[i]]
    BY <1>8
  <2> QED
    BY <2>2, <2>3 DEF Rec
<1>12. Rec(trail)
  BY <1>11 DEF trail
<1>13. trail[0] = call.end /\ \A i \in 1 .. n : trail[i] = Back(trail[i - 1])
  <2>1. 0 \in 0 .. n /\ \A i \in 1 .. n : i \in 0 .. n /\ i # 0
    BY <1>4
  <2>2. \A i \in 0 .. n : trail[i] = IF i = 0 THEN call.end
                                     ELSE IF trail[i - 1] \in DOMAIN parent
                                          THEN parent[trail[i - 1]].from ELSE trail[i - 1]
    BY <1>12 DEF Rec
  <2> QED
    BY <2>1, <2>2
<1>14. \A i \in 0 .. n : trail[i] \in DOMAIN dist
  <2> DEFINE D == {i \in Nat : i <= n => trail[i] \in DOMAIN dist}
  <2>1. 0 \in D
    BY <1>13
  <2>2. ASSUME NEW i \in Nat, i \in D PROVE i + 1 \in D
    <3> SUFFICES ASSUME i + 1 <= n PROVE trail[i + 1] \in DOMAIN dist
      BY <2>2
    <3>1. i + 1 \in 1 .. n /\ (i + 1) - 1 = i /\ trail[i] \in DOMAIN dist
      BY <1>4, <2>2
    <3> HIDE DEF Back
    <3> QED
      BY <1>5, <1>13, <3>1
  <2>3. \A i \in Nat : i \in D
    <3> HIDE DEF D
    <3> QED
      BY <2>1, <2>2, NatSetInduction
  <2> QED
    BY <1>4, <2>3
<1>15. ASSUME NEW i \in Nat, i + 1 <= n, trail[i] \in DOMAIN parent
       PROVE  dist[trail[i + 1]] < dist[trail[i]] /\ trail[i + 1] = parent[trail[i]].from
  <2>1. i + 1 \in 1 .. n /\ (i + 1) - 1 = i
    BY <1>4, <1>15
  <2>2. trail[i + 1] = Back(trail[i])
    BY <1>13, <2>1
  <2> QED
    BY <1>3, <1>15, <2>2
<1>16. \A i \in 0 .. n : dist[trail[i]] \in Nat
  BY <1>2, <1>14 DEF Reached
<1>17. \E i \in 0 .. n : trail[i] \notin DOMAIN parent
  <2>1. Downhill(trail, n, dist, DOMAIN parent)
    BY <1>15, <1>16 DEF Downhill
  <2> QED
    BY <1>4, <2>1, TrailEnds DEF n
<1>18. ends # {} /\ ends \subseteq Nat /\ ends \subseteq 0 .. n
  BY <1>4, <1>17 DEF ends
<1>19. len \in ends /\ \A j \in ends : len <= j
  BY <1>18, LeastNatural DEF len
<1>20. len \in 0 .. n /\ trail[len] = call.start
  BY <1>3, <1>14, <1>18, <1>19 DEF ends
<1>21. \A i \in 0 .. len - 1 : i \in 0 .. n /\ i \notin ends
  BY <1>4, <1>18, <1>19, <1>20
<1>22. \A i \in 0 .. len - 1 : trail[i] \in DOMAIN parent
  BY <1>21 DEF ends
<1>23. \A i \in 0 .. len - 1 : trail[i + 1] = parent[trail[i]].from
  <2> SUFFICES ASSUME NEW i \in 0 .. len - 1 PROVE trail[i + 1] = parent[trail[i]].from
    OBVIOUS
  <2>1. i \in Nat /\ i + 1 <= n /\ trail[i] \in DOMAIN parent
    BY <1>4, <1>20, <1>22
  <2> QED
    BY <1>15, <2>1
<1>24. len # 0
  BY <1>2, <1>13, <1>20 DEF Linked
<1>25. len \in 1 .. N
  BY <1>4, <1>20, <1>24, NamesFinite
<1>26. IsTrail(len, trail)
  <2>1. \A i \in 0 .. len : trail[i] \in DOMAIN dist
    BY <1>4, <1>14, <1>20
  <2> QED
    BY <1>13, <1>20, <1>22, <1>23, <2>1 DEF IsTrail
<1> QED
  BY <1>1, <1>25, <1>26

(* The cost of a path, edge by edge.                                       *)
IsCost(cost, es) ==
  /\ cost \in [0 .. Len(es) -> Nat] /\ cost[0] = 0
  /\ \A i \in 1 .. Len(es) : cost[i] = cost[i - 1] + edge_cost(es[i].to)

(* PathCost adds the cost of one edge at a time.                           *)
LEMMA PathCostSteps ==
  ASSUME WellFormed, NEW a, Len(a.edges) \in Nat
  PROVE  \E cost : IsCost(cost, a.edges) /\ PathCost(a) = cost[Len(a.edges)]
<1> DEFINE n      == Len(a.edges)
           Rec(f) == f = [i \in 0 .. n |-> IF i = 0 THEN 0
                                           ELSE f[i - 1] + edge_cost(a.edges[i].to)]
           chosen == CHOOSE f : Rec(f)
           step   == [i \in 1 .. n |-> [c \in Nat |-> c + edge_cost(a.edges[i].to)]]
<1>1. PathCost(a) = chosen[n]
  BY DEF PathCost
<1>2. n \in Nat
  OBVIOUS
<1>3. \A i \in 1 .. n : edge_cost(a.edges[i].to) \in Nat
  BY CostPositive
<1>4. \A i \in 1 .. n : \A c \in Nat : step[i][c] = c + edge_cost(a.edges[i].to)
  OBVIOUS
<1> HIDE DEF n, chosen, Rec, step
<1>5. StepsIn(step, n, Nat)
  <2> SUFFICES ASSUME NEW i \in 1 .. n, NEW c \in Nat PROVE step[i][c] \in Nat
    BY DEF StepsIn
  <2>1. edge_cost(a.edges[i].to) \in Nat
    BY <1>3
  <2>2. step[i][c] = c + edge_cost(a.edges[i].to)
    BY <1>4
  <2> HIDE <1>3, <1>4
  <2> QED
    BY <2>1, <2>2
<1>6. PICK g \in [0 .. n -> Nat] : Follows(g, n, 0, step)
  BY <1>2, <1>5, StepsDefine
<1>7. \A i \in 1 .. n : i - 1 \in 0 .. n
  BY <1>2
<1>8. \A i \in 1 .. n : g[i] = g[i - 1] + edge_cost(a.edges[i].to)
  BY <1>4, <1>6, <1>7 DEF Follows
<1>9. Rec(g)
  <2>1. \A i \in 0 .. n : i # 0 => i \in 1 .. n
    BY <1>2
  <2>2. \A i \in 0 .. n : g[i] = IF i = 0 THEN 0 ELSE g[i - 1] + edge_cost(a.edges[i].to)
    BY <1>6, <1>8, <2>1 DEF Follows
  <2>3. g = [i \in 0 .. n |-> g[i]]
    BY <1>6
  <2> QED
    BY <2>2, <2>3 DEF Rec
<1>10. Rec(chosen)
  BY <1>9 DEF chosen
<1>11. DOMAIN chosen = 0 .. n /\ chosen = [i \in 0 .. n |-> chosen[i]]
  BY <1>10 DEF Rec
<1>12. chosen[0] = 0 /\ \A i \in 1 .. n : chosen[i] = chosen[i - 1] + edge_cost(a.edges[i].to)
  <2>1. 0 \in 0 .. n /\ \A i \in 1 .. n : i \in 0 .. n /\ i # 0
    BY <1>2
  <2>2. \A i \in 0 .. n :
          chosen[i] = IF i = 0 THEN 0 ELSE chosen[i - 1] + edge_cost(a.edges[i].to)
    BY <1>10 DEF Rec
  <2> QED
    BY <2>1, <2>2
<1>13. \A i \in 0 .. n : chosen[i] \in Nat
  <2> DEFINE D == {i \in Nat : i <= n => chosen[i] \in Nat}
  <2>1. 0 \in D
    BY <1>12
  <2>2. ASSUME NEW i \in Nat, i \in D PROVE i + 1 \in D
    <3> SUFFICES ASSUME i + 1 <= n PROVE chosen[i + 1] \in Nat
      BY <2>2
    <3>1. i + 1 \in 1 .. n /\ (i + 1) - 1 = i /\ chosen[i] \in Nat
      BY <1>2, <2>2
    <3>2. chosen[i + 1] = chosen[i] + edge_cost(a.edges[i + 1].to)
      BY <1>12, <3>1
    <3> QED
      BY <1>3, <3>1, <3>2
  <2>3. \A i \in Nat : i \in D
    <3> HIDE DEF D
    <3> QED
      BY <2>1, <2>2, NatSetInduction
  <2> QED
    BY <1>2, <2>3
<1>14. chosen \in [0 .. n -> Nat]
  BY <1>11, <1>13
<1>15. IsCost(chosen, a.edges)
  BY <1>12, <1>14 DEF IsCost, n
<1> QED
  BY <1>1, <1>15 DEF n

AddsUp(f, n, costs) == f[0] = 0 /\ \A i \in 1 .. n : f[i] = f[i - 1] + costs[i]

(* Two reckonings of one path agree.                                       *)
LEMMA CostsAgree ==
  ASSUME NEW n \in Nat, NEW f, NEW g, NEW costs, AddsUp(f, n, costs), AddsUp(g, n, costs)
  PROVE  f[n] = g[n]
<1> USE DEF AddsUp
<1> DEFINE D == {i \in Nat : i <= n => f[i] = g[i]}
<1>1. 0 \in D
  OBVIOUS
<1>2. ASSUME NEW i \in Nat, i \in D PROVE i + 1 \in D
  <2> SUFFICES ASSUME i + 1 <= n PROVE f[i + 1] = g[i + 1]
    BY <1>2
  <2>1. i + 1 \in 1 .. n /\ (i + 1) - 1 = i /\ f[i] = g[i]
    BY <1>2
  <2> QED
    BY <2>1
<1>3. \A i \in Nat : i \in D
  <2> HIDE DEF D
  <2> QED
    BY <1>1, <1>2, NatSetInduction
<1> QED
  BY <1>3

(***************************************************************************)
(* The path returned is a walk that costs no more than the end's distance. *)
(***************************************************************************)
Chain(a) ==
  LET n == Len(a.nodes)
  IN /\ n > 0 /\ a.nodes[1] = call.start /\ a.nodes[n] = call.end
     /\ Len(a.edges) = n - 1
     /\ \A i \in 1 .. n - 1 : /\ a.edges[i].from = a.nodes[i]
                              /\ a.edges[i].to = a.nodes[i + 1]

(* Each edge of the trail costs at most the difference of two distances.   *)
LEMMA TrailSteps ==
  ASSUME PathInv, pc = "search", NEW len \in Nat \ {0}, NEW trail, IsTrail(len, trail),
         NEW i \in 1 .. len, NEW e, e = parent[trail[len - i]].edge
  PROVE  /\ e \in Followed /\ e \in EdgeData
         /\ e.to = trail[len - i] /\ e.from = trail[len - (i - 1)]
         /\ dist[trail[len - i]] >= dist[trail[len - (i - 1)]] + edge_cost(trail[len - i])
<1> DEFINE x == trail[len - i]
<1>0. e = parent[x].edge
  OBVIOUS
<1>1. Linked /\ WellFormed
  BY DEF PathInv
<1>2. len - i \in 0 .. len - 1 /\ (len - i) + 1 = len - (i - 1)
  OBVIOUS
<1>3. x \in DOMAIN parent /\ trail[len - (i - 1)] = parent[x].from
  BY <1>2 DEF IsTrail
<1> HIDE DEF x
<1>4. e \in Followed /\ e.from = parent[x].from /\ dist[x] >= dist[parent[x].from] + edge_cost(x)
  BY <1>0, <1>1, <1>3 DEF Linked
<1>5. e.to = x
  BY <1>0, <1>3 DEF PathInv, ParentsDescend
<1>6. e \in EdgeData
  BY <1>1, <1>4, FollowedType
<1> QED
  BY <1>3, <1>4, <1>5, <1>6 DEF x

(* The edges of the path returned: allowed, and each starts where the last *)
(* ended.                                                                  *)
LEMMA PathParts ==
  ASSUME PathInv, pc = "search", NEW len \in Nat \ {0}, NEW trail, IsTrail(len, trail),
         NEW a, a = PathOf(len, trail)
  PROVE  /\ a.edges \in Seq(EdgeData) /\ Len(a.edges) = len
         /\ \A i \in 1 .. len : a.edges[i] = parent[trail[len - i]].edge
         /\ \A e \in Range(a.edges) : e \in Followed
         /\ Chain(a)
<1>1. /\ a.nodes = <<call.start>> \o [j \in 1 .. len |-> trail[len - j]]
      /\ a.edges = [j \in 1 .. len |-> parent[trail[len - j]].edge]
  BY DEF PathOf
<1>2. \A i \in 1 .. len :
        /\ a.edges[i] = parent[trail[len - i]].edge
        /\ a.edges[i] \in Followed /\ a.edges[i] \in EdgeData
        /\ a.edges[i].to = trail[len - i] /\ a.edges[i].from = trail[len - (i - 1)]
  <2> SUFFICES ASSUME NEW i \in 1 .. len
               PROVE  /\ a.edges[i] = parent[trail[len - i]].edge
                      /\ a.edges[i] \in Followed /\ a.edges[i] \in EdgeData
                      /\ a.edges[i].to = trail[len - i] /\ a.edges[i].from = trail[len - (i - 1)]
    OBVIOUS
  <2>1. a.edges[i] = parent[trail[len - i]].edge
    BY <1>1
  <2>2. PICK e : e = parent[trail[len - i]].edge
    OBVIOUS
  <2>3. /\ e \in Followed /\ e \in EdgeData
        /\ e.to = trail[len - i] /\ e.from = trail[len - (i - 1)]
    BY <2>2, TrailSteps
  <2> QED
    BY <2>1, <2>2, <2>3
<1>3. DOMAIN a.edges = 1 .. len /\ a.edges = [i \in 1 .. len |-> a.edges[i]]
  BY <1>1
<1>4. a.edges \in Seq(EdgeData) /\ Len(a.edges) = len
  <2>1. a.edges \in [1 .. len -> EdgeData]
    BY <1>2, <1>3
  <2> QED
    BY <2>1
<1>5. \A e \in Range(a.edges) : e \in Followed
  BY <1>2, <1>3 DEF Range
<1> DEFINE tail == [j \in 1 .. len |-> trail[len - j]]
<1>6. DOMAIN tail = 1 .. len /\ \A i \in 1 .. len : tail[i] = trail[len - i]
  OBVIOUS
<1>7. a.nodes = <<call.start>> \o tail
  BY <1>1
<1> HIDE DEF tail
<1> DEFINE V == {call.start} \cup {tail[i] : i \in 1 .. len}
<1>8. tail \in Seq(V) /\ Len(tail) = len /\ <<call.start>> \in Seq(V)
  <2>1. tail = [i \in 1 .. len |-> tail[i]]
    <3>1. tail = [i \in DOMAIN tail |-> tail[i]]
      BY DEF tail
    <3> QED
      BY <1>6, <3>1
  <2>2. tail \in [1 .. len -> V]
    BY <2>1
  <2>3. tail \in Seq(V) /\ Len(tail) = len
    BY <2>2
  <2> QED
    BY <2>3
<1> HIDE DEF V
<1>9. Len(a.nodes) = len + 1 /\ a.nodes[1] = call.start
      /\ \A i \in 1 .. len : a.nodes[i + 1] = tail[i]
  BY <1>7, <1>8
<1>10. \A i \in 0 .. len : a.nodes[i + 1] = trail[len - i]
  <2> SUFFICES ASSUME NEW i \in 0 .. len PROVE a.nodes[i + 1] = trail[len - i]
    OBVIOUS
  <2>1. CASE i = 0
    BY <1>9, <2>1 DEF IsTrail
  <2>2. CASE i # 0
    <3>1. i \in 1 .. len
      BY <2>2
    <3> QED
      BY <1>6, <1>9, <3>1
  <2> QED
    BY <2>1, <2>2
<1>11. a.nodes[len + 1] = call.end
  BY <1>10 DEF IsTrail
<1>12. ASSUME NEW i \in 1 .. len
       PROVE  a.edges[i].from = a.nodes[i] /\ a.edges[i].to = a.nodes[i + 1]
  <2>1. i - 1 \in 0 .. len /\ i \in 0 .. len /\ (i - 1) + 1 = i
    OBVIOUS
  <2>2. a.nodes[i] = trail[len - (i - 1)] /\ a.nodes[i + 1] = trail[len - i]
    BY <1>10, <2>1
  <2> QED
    BY <1>2, <2>2
<1>13. Chain(a)
  <2>1. (len + 1) - 1 = len /\ len + 1 > 0
    OBVIOUS
  <2> QED
    BY <1>4, <1>9, <1>11, <1>12, <2>1 DEF Chain
<1> QED
  BY <1>2, <1>4, <1>5, <1>13

(* The path returned costs at least the least cost, at most the end's      *)
(* distance.                                                               *)
LEMMA PathCostBounds ==
  ASSUME PathInv, pc = "search", NEW len \in Nat \ {0}, len <= N,
         NEW trail, IsTrail(len, trail), NEW a, a = PathOf(len, trail)
  PROVE  /\ LeastCost(call.end) \in Nat /\ PathCost(a) \in Nat
         /\ LeastCost(call.end) <= PathCost(a) /\ PathCost(a) <= dist[call.end]
<1>1. Linked /\ WellFormed /\ Reached
  BY DEF PathInv
<1>2. /\ a.edges \in Seq(EdgeData) /\ Len(a.edges) = len
      /\ \A i \in 1 .. len : a.edges[i] = parent[trail[len - i]].edge
  BY PathParts
<1>3. PICK cost : IsCost(cost, a.edges) /\ PathCost(a) = cost[Len(a.edges)]
  <2>1. Len(a.edges) \in Nat
    BY <1>2
  <2> QED
    BY <1>1, <2>1, PathCostSteps
<1> DEFINE walk == [i \in 0 .. len |-> trail[len - i]]
<1>4. \A i \in 0 .. len : walk[i] = trail[len - i] /\ walk[i] \in DOMAIN dist
  <2> SUFFICES ASSUME NEW i \in 0 .. len PROVE trail[len - i] \in DOMAIN dist
    OBVIOUS
  <2>1. len - i \in 0 .. len
    OBVIOUS
  <2> QED
    BY <2>1 DEF IsTrail
<1>5. walk \in [0 .. len -> Names]
  BY <1>1, <1>4 DEF Linked
<1> HIDE DEF walk
<1>6. \A i \in 1 .. len :
        /\ a.edges[i] \in Followed /\ a.edges[i].from = walk[i - 1] /\ a.edges[i].to = walk[i]
        /\ dist[walk[i]] >= dist[walk[i - 1]] + edge_cost(walk[i])
  <2> SUFFICES ASSUME NEW i \in 1 .. len
               PROVE  /\ a.edges[i] \in Followed /\ a.edges[i].from = walk[i - 1]
                      /\ a.edges[i].to = walk[i]
                      /\ dist[walk[i]] >= dist[walk[i - 1]] + edge_cost(walk[i])
    OBVIOUS
  <2>1. i \in 0 .. len /\ i - 1 \in 0 .. len
    OBVIOUS
  <2>2. walk[i] = trail[len - i] /\ walk[i - 1] = trail[len - (i - 1)]
    BY <1>4, <2>1
  <2>3. PICK e : e = parent[trail[len - i]].edge
    OBVIOUS
  <2>4. a.edges[i] = e
    BY <1>2, <2>3
  <2>5. /\ e \in Followed /\ e \in EdgeData
        /\ e.to = trail[len - i] /\ e.from = trail[len - (i - 1)]
        /\ dist[trail[len - i]] >= dist[trail[len - (i - 1)]] + edge_cost(trail[len - i])
    BY <2>3, TrailSteps
  <2> QED
    BY <2>2, <2>4, <2>5
<1>7. /\ cost \in [0 .. len -> Nat] /\ cost[0] = 0
      /\ \A i \in 1 .. len : cost[i] = cost[i - 1] + edge_cost(walk[i])
  BY <1>2, <1>3, <1>6 DEF IsCost
<1>8. walk[0] = call.start /\ walk[len] = call.end
  <2>1. 0 \in 0 .. len /\ len \in 0 .. len /\ len - 0 = len /\ len - len = 0
    OBVIOUS
  <2>2. trail[0] = call.end /\ trail[len] = call.start
    BY DEF IsTrail
  <2>3. walk[0] = trail[len] /\ walk[len] = trail[0]
    BY <1>4, <2>1
  <2> QED
    BY <2>2, <2>3
<1>9. IsWalk(len, walk, a.edges, cost)
  BY <1>5, <1>6, <1>7, <1>8 DEF IsWalk
<1>10. LeastCost(call.end) \in Nat /\ LeastCost(call.end) <= cost[len]
  BY <1>1, <1>8, <1>9, WalksCostMore
<1> DEFINE D == {i \in Nat : i <= len => cost[i] <= dist[walk[i]]}
<1>11. 0 \in D
  BY <1>1, <1>7, <1>8 DEF Reached
<1>12. ASSUME NEW i \in Nat, i \in D PROVE i + 1 \in D
  <2> SUFFICES ASSUME i + 1 <= len PROVE cost[i + 1] <= dist[walk[i + 1]]
    BY <1>12
  <2>1. /\ i + 1 \in 1 .. len /\ (i + 1) - 1 = i /\ i \in 0 .. len /\ i + 1 \in 0 .. len
        /\ cost[i] <= dist[walk[i]]
    BY <1>12
  <2>2. dist[walk[i]] \in Nat /\ dist[walk[i + 1]] \in Nat
    BY <1>1, <1>4, <2>1 DEF Reached
  <2>3. cost[i] \in Nat
    BY <1>7, <2>1
  <2>4. edge_cost(walk[i + 1]) \in Nat
    BY <1>1, CostPositive
  <2>5. dist[walk[i + 1]] >= dist[walk[i]] + edge_cost(walk[i + 1])
    BY <1>6, <2>1
  <2>6. cost[i + 1] = cost[i] + edge_cost(walk[i + 1])
    BY <1>7, <2>1
  <2> QED
    BY <2>1, <2>2, <2>3, <2>4, <2>5, <2>6
<1>13. \A i \in Nat : i \in D
  <2> HIDE DEF D
  <2> QED
    BY <1>11, <1>12, NatSetInduction
<1>14. cost[len] <= dist[call.end] /\ cost[len] \in Nat
  BY <1>7, <1>8, <1>13
<1> QED
  BY <1>2, <1>3, <1>10, <1>14

(***************************************************************************)
(* The three ways find_path answers.                                       *)
(***************************************************************************)
Cheapest(a) == IF LeastCost(call.end) = Unreached THEN a = NoAnswer
               ELSE Chain(a) /\ PathCost(a) = LeastCost(call.end)

PathAnswer(a) ==
  a.edges \in Seq(EdgeData) /\ (\A e \in Range(a.edges) : e \in Followed) /\ Cheapest(a)

(* When the end is popped, the path returned is a cheapest one.            *)
LEMMA PopAnswers ==
  ASSUME PathInv, pc = "search", todo = << >>, NEW least \in heap,
         \A other \in heap : PopsFirst(least, other), least.node = call.end
  PROVE  PathAnswer(reconstruct_path(call.start, call.end))
<1>1. Linked /\ WellFormed /\ Reached /\ Relaxed
  BY DEF PathInv
<1>2. /\ call.end \in DOMAIN dist /\ call.end \in Names /\ dist[call.end] \in Nat
      /\ dist[call.end] <= least.cost /\ least.cost \in Nat
  BY <1>1 DEF Reached, Linked
<1>3. Pending(call.end)
  BY <1>1, <1>2 DEF Relaxed
<1>4. least.cost = dist[call.end]
  BY <1>2, <1>3 DEF Pending, PopsFirst
<1>5. \A x \in DOMAIN dist : Pending(x) => dist[call.end] <= dist[x]
  BY <1>4 DEF Pending, PopsFirst
<1>6. PICK len \in 1 .. N : \E trail :
        IsTrail(len, trail) /\ reconstruct_path(call.start, call.end) = PathOf(len, trail)
  BY <1>2, PathComesBack
<1>7. PICK trail :
        IsTrail(len, trail) /\ reconstruct_path(call.start, call.end) = PathOf(len, trail)
  BY <1>6
<1> DEFINE a == reconstruct_path(call.start, call.end)
<1> HIDE DEF a
<1>8. a = PathOf(len, trail)
  BY <1>7 DEF a
<1>9. len \in Nat \ {0} /\ len <= N
  BY NamesFinite
<1>10. a.edges \in Seq(EdgeData) /\ (\A e \in Range(a.edges) : e \in Followed) /\ Chain(a)
  BY <1>7, <1>8, <1>9, PathParts
<1>11. /\ LeastCost(call.end) \in Nat /\ PathCost(a) \in Nat
       /\ LeastCost(call.end) <= PathCost(a) /\ PathCost(a) <= dist[call.end]
  BY <1>7, <1>8, <1>9, PathCostBounds
<1>12. LeastCost(call.end) # Unreached
  BY <1>11 DEF Unreached
<1>13. dist[call.end] <= LeastCost(call.end)
  BY <1>1, <1>2, <1>5, <1>12, DistancesAreLeast
<1>14. PathCost(a) = LeastCost(call.end)
  BY <1>2, <1>11, <1>13
<1> QED
  BY <1>10, <1>12, <1>14 DEF PathAnswer, Cheapest, a

(* No path has no edges.                                                   *)
LEMMA NoAnswerTypes == NoAnswer.edges \in Seq(EdgeData) /\ Range(NoAnswer.edges) = {}
BY DEF NoAnswer, Range

(* find_path answers none only when no walk reaches the end.               *)
LEMMA NoPathAnswers ==
  ASSUME PathInv, NoPath
  PROVE  PathAnswer(NoAnswer)
<1>1. pc = "search" /\ todo = << >> /\ heap = {}
  BY DEF NoPath
<1>2. Linked /\ WellFormed /\ Reached /\ Relaxed
  BY <1>1 DEF PathInv
<1>3. \A x \in DOMAIN dist : ~ Pending(x)
  BY <1>1 DEF Pending
<1>4. call.end \in Names
  BY <1>2, CallTypes DEF Linked
<1>5. call.end \notin DOMAIN dist
  BY <1>2, <1>3 DEF Relaxed
<1>6. LeastCost(call.end) = Unreached
  <2> SUFFICES ASSUME LeastCost(call.end) # Unreached PROVE FALSE
    OBVIOUS
  <2>1. 0 \in Nat /\ \A x \in DOMAIN dist : Pending(x) => 0 <= dist[x]
    BY <1>3
  <2>2. LeastCost(call.end) \in Nat
    BY <1>1, <1>2, <1>4, <2>1, DistancesAreLeast
  <2> DEFINE c == LeastCost(call.end) + 1
  <2>3. c \in Nat /\ ~ (c <= LeastCost(call.end))
    BY <2>2
  <2>4. \A x \in DOMAIN dist : Pending(x) => c <= dist[x]
    BY <1>3
  <2> HIDE DEF c
  <2>5. \/ c <= LeastCost(call.end)
        \/ call.end \in DOMAIN dist /\ dist[call.end] <= LeastCost(call.end)
    BY <1>1, <1>2, <1>4, <2>3, <2>4, DistancesAreLeast
  <2> QED
    BY <1>5, <2>3, <2>5
<1> QED
  BY <1>6, NoAnswerTypes DEF PathAnswer, Cheapest

(* The path from a node to itself has no edge and costs nothing.           *)
LEMMA StartIsEnd ==
  ASSUME WellFormed, call.op = "find_path", call.start = call.end,
         NEW a, a = [nodes |-> <<call.start>>, edges |-> << >>]
  PROVE  PathAnswer(a)
<1>1. call.start \in Names /\ call.end \in Names
  BY CallTypes
<1>2. a.nodes = <<call.start>> /\ a.edges = << >> /\ Len(a.edges) = 0 /\ Len(a.edges) \in Nat
  OBVIOUS
<1>3. PICK cost : IsCost(cost, a.edges) /\ PathCost(a) = cost[Len(a.edges)]
  BY <1>2, PathCostSteps
<1>4. PathCost(a) = 0
  BY <1>2, <1>3 DEF IsCost
<1> DEFINE walk == [i \in 0 .. 0 |-> call.start]
           zero == [i \in 0 .. 0 |-> 0]
<1>5. IsWalk(0, walk, << >>, zero)
  BY <1>1 DEF IsWalk
<1>6. walk[0] = call.end /\ zero[0] = 0
  OBVIOUS
<1> HIDE DEF walk, zero
<1>7. LeastCost(call.end) \in Nat /\ LeastCost(call.end) <= 0
  <2>1. 0 \in Nat /\ 0 <= N
    BY NamesFinite
  <2> QED
    BY <1>5, <1>6, <2>1, WalksCostMore
<1>8. LeastCost(call.end) = 0 /\ LeastCost(call.end) # Unreached
  BY <1>7 DEF Unreached
<1>9. Chain(a)
  BY <1>2 DEF Chain
<1>10. a.edges \in Seq(EdgeData) /\ Range(a.edges) = {}
  BY <1>2 DEF Range
<1> QED
  BY <1>4, <1>8, <1>9, <1>10 DEF PathAnswer, Cheapest

HasCost(a)  == \E cost : IsCost(cost, a.edges) /\ PathCost(a) = cost[Len(a.edges)]
PathsHaveCosts == \A a : Len(a.edges) \in Nat => HasCost(a)

(* Every path has a cost.                                                  *)
LEMMA WellFormedCosts == WellFormed => PathsHaveCosts
BY PathCostSteps DEF PathsHaveCosts, HasCost

(* What a path costs does not change while the scores of nodes do not.     *)
LEMMA PathCostSame ==
  ASSUME WellFormed, WellFormed', \A x : edge_cost(x)' = edge_cost(x),
         NEW a, a.edges \in Seq(EdgeData)
  PROVE  PathCost(a)' = PathCost(a)
<1>1. PathsHaveCosts /\ PathsHaveCosts'
  <2>1. PathsHaveCosts
    BY WellFormedCosts
  <2>2. PathsHaveCosts'
    BY WellFormedCosts, PTL
  <2> QED
    BY <2>1, <2>2
<1> DEFINE n == Len(a.edges)
<1>2. n \in Nat
  OBVIOUS
<1>3. PICK f : IsCost(f, a.edges) /\ PathCost(a) = f[n]
  BY <1>1, <1>2 DEF PathsHaveCosts, HasCost
<1>4. PICK g : IsCost(g, a.edges)' /\ PathCost(a)' = g[n]
  BY <1>1, <1>2 DEF PathsHaveCosts, HasCost
<1> HIDE DEF n
<1> DEFINE costs == [i \in 1 .. n |-> edge_cost(a.edges[i].to)]
<1>5. \A i \in 1 .. n : costs[i] = edge_cost(a.edges[i].to)
  OBVIOUS
<1> HIDE DEF costs
<1>6. f[0] = 0 /\ \A i \in 1 .. n : f[i] = f[i - 1] + costs[i]
  BY <1>3, <1>5 DEF IsCost, n
<1>7. g[0] = 0 /\ \A i \in 1 .. n : g[i] = g[i - 1] + costs[i]
  <2>1. g[0] = 0 /\ \A i \in 1 .. n : g[i] = g[i - 1] + edge_cost(a.edges[i].to)'
    BY <1>4 DEF IsCost, n
  <2> QED
    BY <1>5, <2>1
<1>8. f[n] = g[n]
  <2>1. PICK c : c = costs
    OBVIOUS
  <2>2. AddsUp(f, n, c) /\ AddsUp(g, n, c)
    BY <1>6, <1>7, <2>1 DEF AddsUp
  <2> QED
    BY <1>2, <2>2, CostsAgree
<1> QED
  BY <1>3, <1>4, <1>8

(* An answer stays a cheapest path while the request sees the same edges   *)
(* and costs.                                                              *)
LEMMA PathAnswerKept ==
  ASSUME WellFormed, WellFormed', call' = call, Followed' = Followed,
         \A x : edge_cost(x)' = edge_cost(x), NEW a, PathAnswer(a), call.end \in Names
  PROVE  PathAnswer(a)'
<1>1. a.edges \in Seq(EdgeData) /\ (\A e \in Range(a.edges) : e \in Followed) /\ Cheapest(a)
  BY DEF PathAnswer
<1>2. PathCost(a)' = PathCost(a)
  BY <1>1, PathCostSame
<1>3. LeastCost(call.end)' = LeastCost(call.end)
  <2>1. \A y \in Names : LeastCost(y)' = LeastCost(y)
    BY LeastCostSame
  <2> QED
    BY <2>1
<1>4. Chain(a)' <=> Chain(a)
  BY DEF Chain
<1>5. Cheapest(a)'
  BY <1>1, <1>2, <1>3, <1>4 DEF Cheapest
<1> QED
  BY <1>1, <1>5 DEF PathAnswer

(* What find_path has returned, and that the other calls take other ways.  *)
FoundPath == pc = "done" /\ call.op = "find_path" => PathAnswer(answer)
OwnWay    == /\ pc = "search" => call.op = "find_path"
             /\ pc = "beams" => call.op \in {"beam_traverse", "multi_beam_intersection"}
             /\ pc = "seeds" => call.op = "contextual_subgraph"
CheapestInv == PathInv /\ OwnWay /\ FoundPath

(* Each operation keeps to its own steps.                                  *)
LEMMA OwnWayStep == OwnWay /\ [Next]_vars => OwnWay'
<1> SUFFICES ASSUME OwnWay, [Next]_vars PROVE OwnWay'
  OBVIOUS
<1>1. CASE UNCHANGED vars
  BY <1>1 DEF vars, OwnWay
<1>2. CASE BeginPath \/ Pop \/ Relax \/ NoPath
  BY <1>2 DEF BeginPath, Pop, Relax, NoPath, Return, OwnWay
<1>3. CASE \/ BeginBeams \/ (\E i \in DOMAIN beams : BeamLevel(i))
           \/ BeamReturns \/ IntersectionReturns
  BY <1>3 DEF BeginBeams, BeamLevel, BeamReturns, IntersectionReturns, Return, OwnWay
<1>4. CASE BeginSubgraph \/ Seed \/ SubgraphReturns
  BY <1>4 DEF BeginSubgraph, Seed, SubgraphReturns, Return, OwnWay
<1>5. CASE \E mode \in {"Owned", "Mmap"} : Compact(mode)
  BY <1>5 DEF Compact, OwnWay
<1> QED
  BY <1>1, <1>2, <1>3, <1>4, <1>5 DEF Next

(* Every step keeps that find_path's answer is a cheapest path.            *)
LEMMA CheapestStep == CheapestInv /\ [Next]_vars => CheapestInv'
<1> SUFFICES ASSUME CheapestInv, [Next]_vars PROVE CheapestInv'
  OBVIOUS
<1>1. PathInv' /\ OwnWay' /\ WellFormed /\ WellFormed'
  BY PathStep, OwnWayStep DEF CheapestInv, PathInv
<1>2. ASSUME UNCHANGED <<graph, ctx, call>>, call.op = "find_path",
             NEW a, PathAnswer(a), answer' = a
      PROVE  PathAnswer(answer)'
  <2>1. call.end \in Names
    BY <1>1, <1>2, CallTypes
  <2>2. PathAnswer(a)'
    BY <1>1, <1>2, <2>1, SameView, PathAnswerKept
  <2> QED
    BY <1>2, <2>2
<1>3. ASSUME pc' = "done", call'.op = "find_path" PROVE PathAnswer(answer)'
  <2>1. CASE UNCHANGED vars
    <3>1. PathAnswer(answer) /\ UNCHANGED <<graph, ctx, call, answer, pc>>
      BY <1>3, <2>1 DEF vars, CheapestInv, FoundPath
    <3> QED
      BY <1>2, <1>3, <3>1
  <2>2. CASE BeginPath
    <3>1. /\ UNCHANGED <<graph, ctx, call>> /\ call.op = "find_path" /\ call.start = call.end
          /\ answer' = [nodes |-> <<call.start>>, edges |-> << >>]
      BY <1>3, <2>2 DEF BeginPath, Return
    <3>2. PICK a : a = [nodes |-> <<call.start>>, edges |-> << >>]
      OBVIOUS
    <3>3. PathAnswer(a)
      BY <1>1, <3>1, <3>2, StartIsEnd
    <3> QED
      BY <1>2, <3>1, <3>2, <3>3
  <2>3. CASE Pop
    <3>1. /\ UNCHANGED <<graph, ctx, call>> /\ pc = "search" /\ todo = << >> /\ PathInv
          /\ call.op = "find_path"
      BY <1>3, <2>3 DEF Pop, CheapestInv
    <3>2. PICK least \in heap :
            /\ \A other \in heap : PopsFirst(least, other)
            /\ least.node = call.end /\ answer' = reconstruct_path(call.start, call.end)
      BY <1>3, <2>3 DEF Pop, Return
    <3>3. PICK a : a = reconstruct_path(call.start, call.end)
      OBVIOUS
    <3>4. PathAnswer(a)
      BY <3>1, <3>2, <3>3, PopAnswers
    <3> QED
      BY <1>2, <3>1, <3>2, <3>3, <3>4
  <2>4. CASE NoPath
    <3>1. /\ UNCHANGED <<graph, ctx, call>> /\ PathInv /\ answer' = NoAnswer
          /\ call.op = "find_path"
      BY <1>3, <2>4 DEF NoPath, CheapestInv, Return
    <3>2. PathAnswer(NoAnswer)
      BY <2>4, <3>1, NoPathAnswers
    <3> QED
      BY <1>2, <3>1, <3>2
  <2>5. CASE Relax \/ BeginBeams \/ (\E i \in DOMAIN beams : BeamLevel(i)) \/ BeginSubgraph \/ Seed
             \/ (\E mode \in {"Owned", "Mmap"} : Compact(mode))
    <3>1. pc' # "done"
      BY <2>5 DEF Relax, BeginBeams, BeamLevel, BeginSubgraph, Seed, Compact
    <3> QED
      BY <1>3, <3>1
  <2>6. CASE BeamReturns \/ IntersectionReturns \/ SubgraphReturns
    <3>1. call.op # "find_path" /\ call' = call
      BY <2>6 DEF BeamReturns, IntersectionReturns, SubgraphReturns, CheapestInv, OwnWay
    <3> QED
      BY <1>3, <3>1
  <2> QED
    BY <2>1, <2>2, <2>3, <2>4, <2>5, <2>6 DEF Next
<1> QED
  BY <1>1, <1>3 DEF CheapestInv, FoundPath

(* There is no answer yet.                                                 *)
LEMMA CheapestInit == Init => CheapestInv
<1> SUFFICES ASSUME Init PROVE CheapestInv
  OBVIOUS
<1>1. pc = "ready"
  BY DEF Init
<1> QED
  BY <1>1, PathInit DEF CheapestInv, OwnWay, FoundPath

(* find_path's answer is a cheapest path, with what the search knows       *)
(* before it answers, in every reachable state.                            *)
THEOREM CheapestInvariant == Spec => []CheapestInv
<1>1. Init => CheapestInv
  BY CheapestInit
<1>2. CheapestInv /\ [Next]_vars => CheapestInv'
  BY CheapestStep
<1> QED
  BY <1>1, <1>2, PTL DEF Spec

(* CheapestPath: whatever the graph, the context and the call, find_path   *)
(* returns a walk of allowed edges from start to end that no other walk    *)
(* undercuts, and none only when there is none. It is Dijkstra's search    *)
(* with stale heap entries skipped, and with the parent links              *)
(* reconstruct_path follows back (traversal.rs find_path).                 *)
THEOREM CheapestPathFound == Spec => []CheapestPath
<1>1. CheapestInv => CheapestPath
  <2> SUFFICES ASSUME CheapestInv, pc = "done", call.op = "find_path" PROVE Cheapest(answer)
    BY DEF CheapestPath, Cheapest, Chain
  <2> QED
    BY DEF CheapestInv, FoundPath, PathAnswer
<1> QED
  BY <1>1, CheapestInvariant, PTL

(***************************************************************************)
(* The orders the answers are in.                                          *)
(***************************************************************************)
BetterOrder == {p \in Names \X Names : Better(p[1], p[2])}
HotterOrder == {p \in Names \X Names : Hotter(p[1], p[2])}
BoostOrder  == {p \in Names \X Names : MoreBoosted(p[1], p[2])}

(* W_total is a number.                                                    *)
LEMMA WeightType ==
  ASSUME WellFormed, NEW x, IsNode(x)
  PROVE  W_total(x) \in Int
<1>1. Lookup(graph, ctx, x) \in NodeData
  <2>1. CASE x \in DOMAIN graph.get_node
    BY <2>1 DEF WellFormed, IsGraph, Lookup
  <2>2. CASE x \notin DOMAIN graph.get_node
    <3>1. x \in OverlayNames(ctx)
      BY <2>2 DEF IsNode, Known
    <3> QED
      BY <2>2, <3>1, IndexedNodeType DEF WellFormed, Lookup
  <2> QED
    BY <2>1, <2>2
<1> QED
  BY <1>1, ScoreType DEF WellFormed, W_total, Weight

(* The weight sum of a node that was hit is a number.                      *)
LEMMA WeightSumType ==
  ASSUME WellFormed, NEW x, IsNode(x), hit_count(x) \in Nat
  PROVE  weight_sum(x) \in Int
<1>1. W_total(x) \in Int
  BY WeightType
<1>2. \A a \in Nat : \A b \in Int : a * b \in Int
  OBVIOUS
<1> QED
  BY <1>1, <1>2 DEF weight_sum

(* Nodes from the best to the worst. *)
LEMMA BetterInOrder ==
  ASSUME WellFormed, NEW S, S \subseteq Names, \A x \in S : IsNode(x)
  PROVE  IsFiniteSet(S) /\ StrictOrder(BetterOrder, S) /\ Lists(InOrder(S, Better), S, BetterOrder)
<1>1. IsFiniteSet(S) /\ S \subseteq Names
  BY NamesFinite, FS_Subset
<1>2. \A x, y \in S : <<x, y>> \in BetterOrder <=> Better(x, y)
  BY <1>1 DEF BetterOrder
<1>3. StrictOrder(BetterOrder, S)
  <2>1. \A x \in S : W_total(x) \in Int /\ x \in Nat
    BY NamesFinite, WeightType
  <2>2. \A x \in S : ~ Better(x, x)
    BY <2>1 DEF Better
  <2>3. \A x, y, z \in S : Better(x, y) /\ Better(y, z) => Better(x, z)
    BY <2>1 DEF Better
  <2>4. \A x, y \in S : x = y \/ Better(x, y) \/ Better(y, x)
    BY <2>1 DEF Better
  <2> QED
    BY <1>2, <2>2, <2>3, <2>4 DEF StrictOrder
<1>4. \A x \in S : Rank(BetterOrder, S, x) = Cardinality({y \in S : Better(y, x)})
  <2> SUFFICES ASSUME NEW x \in S
               PROVE  Rank(BetterOrder, S, x) = Cardinality({y \in S : Better(y, x)})
    OBVIOUS
  <2>1. Below(BetterOrder, S, x) = {y \in S : Better(y, x)}
    BY <1>2 DEF Below
  <2> QED
    BY <2>1 DEF Rank
<1>5. ASSUME NEW i \in 1 .. Cardinality(S)
      PROVE  /\ InOrder(S, Better)[i] \in S
             /\ Rank(BetterOrder, S, InOrder(S, Better)[i]) = i - 1
  <2> DEFINE P(x) == Cardinality({y \in S : Better(y, x)}) = i - 1
  <2>1. InOrder(S, Better)[i] = CHOOSE x \in S : P(x)
    BY DEF InOrder
  <2>2. \E x \in S : P(x)
    <3>1. PICK x \in S : Rank(BetterOrder, S, x) = i - 1
      BY <1>1, <1>3, RankOnto
    <3>2. P(x)
      BY <1>4, <3>1
    <3> QED
      BY <3>2
  <2>3. InOrder(S, Better)[i] \in S /\ P(InOrder(S, Better)[i])
    <3> HIDE DEF P
    <3> QED
      BY <2>1, <2>2
  <2> QED
    BY <1>4, <2>3
<1>6. InOrder(S, Better) = [i \in 1 .. Cardinality(S) |-> InOrder(S, Better)[i]]
  <2> DEFINE g(i) == CHOOSE x \in S : Cardinality({y \in S : Better(y, x)}) = i - 1
             f    == InOrder(S, Better)
  <2>1. f = [i \in 1 .. Cardinality(S) |-> g(i)]
    BY DEF InOrder
  <2> HIDE DEF f, g
  <2>2. f = [i \in 1 .. Cardinality(S) |-> f[i]]
    BY <2>1
  <2> QED
    BY <2>2 DEF f
<1>7. InOrder(S, Better) \in [1 .. Cardinality(S) -> S]
  BY <1>5, <1>6
<1> QED
  BY <1>1, <1>3, <1>5, <1>7 DEF Lists

(* Nodes from the hottest to the coldest. *)
LEMMA HotterInOrder ==
  ASSUME WellFormed, NEW S, S \subseteq Names, \A x \in S : IsNode(x),
         \A x \in S : hit_count(x) \in Nat
  PROVE  IsFiniteSet(S) /\ StrictOrder(HotterOrder, S) /\ Lists(InOrder(S, Hotter), S, HotterOrder)
<1>1. IsFiniteSet(S) /\ S \subseteq Names
  BY NamesFinite, FS_Subset
<1>2. \A x, y \in S : <<x, y>> \in HotterOrder <=> Hotter(x, y)
  BY <1>1 DEF HotterOrder
<1>3. StrictOrder(HotterOrder, S)
  <2>1. \A x \in S : weight_sum(x) \in Int /\ x \in Nat
    BY NamesFinite, WeightSumType
  <2>2. \A x \in S : ~ Hotter(x, x)
    BY <2>1 DEF Hotter
  <2>3. \A x, y, z \in S : Hotter(x, y) /\ Hotter(y, z) => Hotter(x, z)
    BY <2>1 DEF Hotter
  <2>4. \A x, y \in S : x = y \/ Hotter(x, y) \/ Hotter(y, x)
    BY <2>1 DEF Hotter
  <2> QED
    BY <1>2, <2>2, <2>3, <2>4 DEF StrictOrder
<1>4. \A x \in S : Rank(HotterOrder, S, x) = Cardinality({y \in S : Hotter(y, x)})
  <2> SUFFICES ASSUME NEW x \in S
               PROVE  Rank(HotterOrder, S, x) = Cardinality({y \in S : Hotter(y, x)})
    OBVIOUS
  <2>1. Below(HotterOrder, S, x) = {y \in S : Hotter(y, x)}
    BY <1>2 DEF Below
  <2> QED
    BY <2>1 DEF Rank
<1>5. ASSUME NEW i \in 1 .. Cardinality(S)
      PROVE  /\ InOrder(S, Hotter)[i] \in S
             /\ Rank(HotterOrder, S, InOrder(S, Hotter)[i]) = i - 1
  <2> DEFINE P(x) == Cardinality({y \in S : Hotter(y, x)}) = i - 1
  <2>1. InOrder(S, Hotter)[i] = CHOOSE x \in S : P(x)
    BY DEF InOrder
  <2>2. \E x \in S : P(x)
    <3>1. PICK x \in S : Rank(HotterOrder, S, x) = i - 1
      BY <1>1, <1>3, RankOnto
    <3>2. P(x)
      BY <1>4, <3>1
    <3> QED
      BY <3>2
  <2>3. InOrder(S, Hotter)[i] \in S /\ P(InOrder(S, Hotter)[i])
    <3> HIDE DEF P
    <3> QED
      BY <2>1, <2>2
  <2> QED
    BY <1>4, <2>3
<1>6. InOrder(S, Hotter) = [i \in 1 .. Cardinality(S) |-> InOrder(S, Hotter)[i]]
  <2> DEFINE g(i) == CHOOSE x \in S : Cardinality({y \in S : Hotter(y, x)}) = i - 1
             f    == InOrder(S, Hotter)
  <2>1. f = [i \in 1 .. Cardinality(S) |-> g(i)]
    BY DEF InOrder
  <2> HIDE DEF f, g
  <2>2. f = [i \in 1 .. Cardinality(S) |-> f[i]]
    BY <2>1
  <2> QED
    BY <2>2 DEF f
<1>7. InOrder(S, Hotter) \in [1 .. Cardinality(S) -> S]
  BY <1>5, <1>6
<1> QED
  BY <1>1, <1>3, <1>5, <1>7 DEF Lists

(* Names from the most boosted to the least. *)
LEMMA MoreBoostedInOrder ==
  ASSUME WellFormed, NEW S, S = DOMAIN ctx.semantic_boosts
  PROVE  /\ IsFiniteSet(S) /\ StrictOrder(BoostOrder, S)
         /\ Lists(InOrder(S, MoreBoosted), S, BoostOrder)
<1>1. IsFiniteSet(S) /\ S \subseteq Names
  BY NamesFinite, FS_Subset DEF WellFormed, IsContext, IsEntries
<1>2. \A x, y \in S : <<x, y>> \in BoostOrder <=> MoreBoosted(x, y)
  BY <1>1 DEF BoostOrder
<1>3. StrictOrder(BoostOrder, S)
  <2>1. \A x \in S : ctx.semantic_boosts[x] \in Int /\ x \in Nat
    BY NamesFinite DEF WellFormed, IsContext, IsEntries
  <2>2. \A x \in S : ~ MoreBoosted(x, x)
    BY <2>1 DEF MoreBoosted
  <2>3. \A x, y, z \in S : MoreBoosted(x, y) /\ MoreBoosted(y, z) => MoreBoosted(x, z)
    BY <2>1 DEF MoreBoosted
  <2>4. \A x, y \in S : x = y \/ MoreBoosted(x, y) \/ MoreBoosted(y, x)
    BY <2>1 DEF MoreBoosted
  <2> QED
    BY <1>2, <2>2, <2>3, <2>4 DEF StrictOrder
<1>4. \A x \in S : Rank(BoostOrder, S, x) = Cardinality({y \in S : MoreBoosted(y, x)})
  <2> SUFFICES ASSUME NEW x \in S
               PROVE  Rank(BoostOrder, S, x) = Cardinality({y \in S : MoreBoosted(y, x)})
    OBVIOUS
  <2>1. Below(BoostOrder, S, x) = {y \in S : MoreBoosted(y, x)}
    BY <1>2 DEF Below
  <2> QED
    BY <2>1 DEF Rank
<1>5. ASSUME NEW i \in 1 .. Cardinality(S)
      PROVE  /\ InOrder(S, MoreBoosted)[i] \in S
             /\ Rank(BoostOrder, S, InOrder(S, MoreBoosted)[i]) = i - 1
  <2> DEFINE P(x) == Cardinality({y \in S : MoreBoosted(y, x)}) = i - 1
  <2>1. InOrder(S, MoreBoosted)[i] = CHOOSE x \in S : P(x)
    BY DEF InOrder
  <2>2. \E x \in S : P(x)
    <3>1. PICK x \in S : Rank(BoostOrder, S, x) = i - 1
      BY <1>1, <1>3, RankOnto
    <3>2. P(x)
      BY <1>4, <3>1
    <3> QED
      BY <3>2
  <2>3. InOrder(S, MoreBoosted)[i] \in S /\ P(InOrder(S, MoreBoosted)[i])
    <3> HIDE DEF P
    <3> QED
      BY <2>1, <2>2
  <2> QED
    BY <1>4, <2>3
<1>6. InOrder(S, MoreBoosted) = [i \in 1 .. Cardinality(S) |-> InOrder(S, MoreBoosted)[i]]
  <2> DEFINE g(i) == CHOOSE x \in S : Cardinality({y \in S : MoreBoosted(y, x)}) = i - 1
             f    == InOrder(S, MoreBoosted)
  <2>1. f = [i \in 1 .. Cardinality(S) |-> g(i)]
    BY DEF InOrder
  <2> HIDE DEF f, g
  <2>2. f = [i \in 1 .. Cardinality(S) |-> f[i]]
    BY <2>1
  <2> QED
    BY <2>2 DEF f
<1>7. InOrder(S, MoreBoosted) \in [1 .. Cardinality(S) -> S]
  BY <1>5, <1>6
<1> QED
  BY <1>1, <1>3, <1>5, <1>7 DEF Lists

(* Edges by key, no two of one key. *)
LEMMA KeyInOrder ==
  ASSUME WellFormed, NEW S, IsFiniteSet(S), S \subseteq EdgeData,
         \A e, f \in S : SameKey(e, f) => e = f
  PROVE  IsFiniteSet(S) /\ StrictOrder(KeyOrder, S) /\ Lists(InOrder(S, KeyBefore), S, KeyOrder)
<1>1. IsFiniteSet(S) /\ S \subseteq EdgeData
  OBVIOUS
<1>2. \A x, y \in S : <<x, y>> \in KeyOrder <=> KeyBefore(x, y)
  BY <1>1 DEF KeyOrder
<1>3. StrictOrder(KeyOrder, S)
  <2>1. \A x \in S : x.from \in Nat /\ x.to \in Nat /\ x.kind \in Nat
    BY EdgeTypes
  <2>2. \A x \in S : ~ KeyBefore(x, x)
    BY <2>1 DEF KeyBefore, SameKey
  <2>3. \A x, y, z \in S : KeyBefore(x, y) /\ KeyBefore(y, z) => KeyBefore(x, z)
    BY <2>1 DEF KeyBefore, SameKey
  <2>4. \A x, y \in S : x = y \/ KeyBefore(x, y) \/ KeyBefore(y, x)
    BY <2>1 DEF KeyBefore, SameKey
  <2> QED
    BY <1>2, <2>2, <2>3, <2>4 DEF StrictOrder
<1>4. \A x \in S : Rank(KeyOrder, S, x) = Cardinality({y \in S : KeyBefore(y, x)})
  <2> SUFFICES ASSUME NEW x \in S
               PROVE  Rank(KeyOrder, S, x) = Cardinality({y \in S : KeyBefore(y, x)})
    OBVIOUS
  <2>1. Below(KeyOrder, S, x) = {y \in S : KeyBefore(y, x)}
    BY <1>2 DEF Below
  <2> QED
    BY <2>1 DEF Rank
<1>5. ASSUME NEW i \in 1 .. Cardinality(S)
      PROVE  /\ InOrder(S, KeyBefore)[i] \in S
             /\ Rank(KeyOrder, S, InOrder(S, KeyBefore)[i]) = i - 1
  <2> DEFINE P(x) == Cardinality({y \in S : KeyBefore(y, x)}) = i - 1
  <2>1. InOrder(S, KeyBefore)[i] = CHOOSE x \in S : P(x)
    BY DEF InOrder
  <2>2. \E x \in S : P(x)
    <3>1. PICK x \in S : Rank(KeyOrder, S, x) = i - 1
      BY <1>1, <1>3, RankOnto
    <3>2. P(x)
      BY <1>4, <3>1
    <3> QED
      BY <3>2
  <2>3. InOrder(S, KeyBefore)[i] \in S /\ P(InOrder(S, KeyBefore)[i])
    <3> HIDE DEF P
    <3> QED
      BY <2>1, <2>2
  <2> QED
    BY <1>4, <2>3
<1>6. InOrder(S, KeyBefore) = [i \in 1 .. Cardinality(S) |-> InOrder(S, KeyBefore)[i]]
  <2> DEFINE g(i) == CHOOSE x \in S : Cardinality({y \in S : KeyBefore(y, x)}) = i - 1
             f    == InOrder(S, KeyBefore)
  <2>1. f = [i \in 1 .. Cardinality(S) |-> g(i)]
    BY DEF InOrder
  <2> HIDE DEF f, g
  <2>2. f = [i \in 1 .. Cardinality(S) |-> f[i]]
    BY <2>1
  <2> QED
    BY <2>2 DEF f
<1>7. InOrder(S, KeyBefore) \in [1 .. Cardinality(S) -> S]
  BY <1>5, <1>6
<1> QED
  BY <1>1, <1>3, <1>5, <1>7 DEF Lists

(***************************************************************************)
(* The beams.                                                              *)
(***************************************************************************)
NextTo(x, S) == \E e \in Followed : e.from \in S /\ e.to = x

BeamData == [visited: SUBSET Names, frontier: SUBSET Names, results: SUBSET Names,
             level: Nat]

NoWorse(x, S) == {y \in S : W_total(y) >= W_total(x)}

(* What a beam has found: nodes next to those it expanded, no more than k  *)
(* a level, and where it left one out, k that are no worse.                *)
BeamOk(b, start) ==
  /\ b \in BeamData /\ start \in Names
  /\ b.frontier \subseteq b.visited
  /\ b.visited = b.results \cup {start} /\ start \notin b.results
  /\ Cardinality(b.results) <= call.k * b.level
  /\ \A x \in b.results : IsNode(x) /\ NextTo(x, b.visited \ b.frontier)
  /\ \A x \in Names \ b.visited :
       IsNode(x) /\ NextTo(x, b.visited \ b.frontier) =>
         call.k <= Cardinality(NoWorse(x, b.results))

BeamsInv ==
  /\ WellFormed /\ OwnWay
  /\ pc = "beams" => DOMAIN beams = DOMAIN call.start_nodes
  /\ \A i \in DOMAIN beams :
       /\ call.op \in {"beam_traverse", "multi_beam_intersection"}
       /\ i \in DOMAIN call.start_nodes /\ BeamOk(beams[i], call.start_nodes[i])

(* The start nodes, width and depth of a beam call.                        *)
LEMMA StartNodes ==
  ASSUME WellFormed, call.op \in {"beam_traverse", "multi_beam_intersection"}
  PROVE  /\ call.start_nodes \in Seq(Names) /\ call.k \in Nat /\ call.depth \in Nat
         /\ \A i \in DOMAIN call.start_nodes : call.start_nodes[i] \in Names
         /\ IsFiniteSet(DOMAIN call.start_nodes)
<1>1. call.start_nodes \in Seq(Names) /\ call.k \in Nat /\ call.depth \in Nat
  BY CallTypes
<1>2. DOMAIN call.start_nodes = 1 .. Len(call.start_nodes) /\ Len(call.start_nodes) \in Nat
  BY <1>1
<1>3. IsFiniteSet(1 .. Len(call.start_nodes))
  BY <1>2, FS_Interval
<1> QED
  BY <1>1, <1>2, <1>3

(* A beam that has not grown holds its start alone.                        *)
LEMMA NewBeamOk ==
  ASSUME WellFormed, call.k \in Nat, NEW start \in Names
  PROVE  BeamOk(NewBeam(start), start)
<1> DEFINE b == NewBeam(start)
<1>1. /\ b.visited = {start} /\ b.frontier = {start} /\ b.results = {} /\ b.level = 0
      /\ b \in BeamData
  BY DEF NewBeam, BeamData
<1> HIDE DEF b
<1>2. Cardinality({}) = 0 /\ call.k * 0 = 0
  BY FS_EmptySet
<1>3. b.visited \ b.frontier = {}
  BY <1>1
<1>4. \A x : ~ NextTo(x, {})
  BY DEF NextTo
<1>5. Cardinality(b.results) <= call.k * b.level
  BY <1>1, <1>2
<1>6. \A x : ~ NextTo(x, b.visited \ b.frontier)
  BY <1>3, <1>4
<1>7. BeamOk(b, start)
  <2> HIDE <1>2, <1>3, <1>4
  <2>1. /\ b.frontier \subseteq b.visited /\ b.visited = b.results \cup {start}
        /\ start \notin b.results
    BY <1>1
  <2>2. \A x \in b.results : IsNode(x) /\ NextTo(x, b.visited \ b.frontier)
    BY <1>1
  <2> QED
    BY <1>1, <1>5, <1>6, <2>1, <2>2 DEF BeamOk
<1> QED
  BY <1>7 DEF b

(* The k first of a sorted set: each ahead of every other, k if others are. *)
LEMMA FirstFacts ==
  ASSUME NEW S, IsFiniteSet(S), NEW R, StrictOrder(R, S), NEW f, Lists(f, S, R),
         NEW k \in Nat
  PROVE  LET best == Range(Take(f, k))
         IN /\ best \subseteq S /\ IsFiniteSet(best) /\ Cardinality(best) <= k
            /\ \A x \in S \ best : /\ Cardinality(best) = k
                                   /\ \A y \in best : <<y, x>> \in R
<1> DEFINE t    == Take(f, k)
           best == Range(t)
           m    == Len(t)
<1>1. /\ t \in Seq(S) /\ m = SmallerOf(k, Cardinality(S))
      /\ \A i \in 1 .. m : t[i] = f[i]
      /\ best = {x \in S : Rank(R, S, x) < k}
  BY TakeFacts
<1>2. /\ Cardinality(S) \in Nat /\ DOMAIN f = 1 .. Cardinality(S)
      /\ \A i, j \in DOMAIN f : f[i] = f[j] => i = j
  BY ListingFacts
<1>3. DOMAIN t = 1 .. m /\ m \in Nat /\ \A i \in DOMAIN t : t[i] \in S
  BY <1>1
<1> HIDE DEF t, m
<1>4. best = {t[i] : i \in 1 .. m}
  BY <1>3 DEF Range
<1> HIDE DEF best
<1>5. best \subseteq S /\ IsFiniteSet(best)
  BY <1>1, FS_Subset
<1>6. m <= k /\ m <= Cardinality(S) /\ (k < Cardinality(S) => m = k)
  BY <1>1, <1>2 DEF SmallerOf
<1> DEFINE h == [i \in 1 .. m |-> t[i]]
<1>7. h \in Bijection(1 .. m, best)
  <2>1. h \in [1 .. m -> best]
    BY <1>4
  <2>2. \A x \in best : \E i \in 1 .. m : h[i] = x
    BY <1>4
  <2>3. \A i, j \in 1 .. m : h[i] = h[j] => i = j
    <3> SUFFICES ASSUME NEW i \in 1 .. m, NEW j \in 1 .. m, t[i] = t[j] PROVE i = j
      OBVIOUS
    <3>1. i \in DOMAIN f /\ j \in DOMAIN f /\ f[i] = f[j]
      BY <1>1, <1>2, <1>3, <1>6
    <3> QED
      BY <1>2, <3>1
  <2> HIDE DEF h
  <2> QED
    BY <2>1, <2>2, <2>3 DEF Bijection, Injection, Surjection, IsInjective
<1>8. IsFiniteSet(1 .. m) /\ Cardinality(1 .. m) = m
  BY <1>3, FS_Interval
<1>9. Cardinality(best) = m
  <2> HIDE DEF h
  <2>1. ExistsBijection(1 .. m, best)
    BY <1>7 DEF ExistsBijection
  <2> QED
    BY <1>8, <2>1, FS_Bijection
<1>10. ASSUME NEW x \in S \ best PROVE Cardinality(best) = k /\ \A y \in best : <<y, x>> \in R
  <2>1. Rank(R, S, x) \in Nat /\ Rank(R, S, x) < Cardinality(S)
    BY RankType
  <2>2. ~ (Rank(R, S, x) < k)
    BY <1>1, <1>10
  <2>3. Cardinality(best) = k
    BY <1>2, <1>6, <1>9, <2>1, <2>2
  <2>4. ASSUME NEW y \in best PROVE <<y, x>> \in R
    <3>1. y \in S /\ Rank(R, S, y) < k /\ Rank(R, S, y) \in Nat
      BY <1>1, <1>5, RankType
    <3>2. x # y
      BY <1>10, <2>4
    <3>3. <<x, y>> \notin R
      <4> SUFFICES ASSUME <<x, y>> \in R PROVE FALSE
        OBVIOUS
      <4>1. Rank(R, S, x) < Rank(R, S, y)
        BY <3>1, RankGrows
      <4> QED
        BY <2>1, <2>2, <3>1, <4>1
    <3> QED
      BY <3>1, <3>2, <3>3 DEF StrictOrder
  <2> QED
    BY <2>3, <2>4
<1>11. Cardinality(best) <= k
  BY <1>6, <1>9
<1> QED
  BY <1>5, <1>10, <1>11 DEF best, t

(* The nodes a level chooses from, and those it takes.                     *)
Candidates(b) ==
  {x \in {e.to : e \in UNION {Range(Neighbors(y)) : y \in b.frontier}} \ b.visited : IsNode(x)}
Best(b) == Range(Take(InOrder(Candidates(b), Better), call.k))

(* The candidates of a beam: nodes next to its frontier, not visited.      *)
LEMMA CandidatesExact ==
  ASSUME WellFormed, NEW b \in BeamData
  PROVE  /\ Candidates(b) \subseteq Names /\ \A x \in Candidates(b) : IsNode(x)
         /\ \A x : x \in Candidates(b) <=> NextTo(x, b.frontier) /\ x \notin b.visited /\ IsNode(x)
<1> DEFINE listed  == UNION {Range(Neighbors(y)) : y \in b.frontier}
           targets == {e.to : e \in listed}
<1>1. b.frontier \subseteq Names
  BY DEF BeamData
<1>2. \A e : e \in listed <=> e \in Followed /\ e.from \in b.frontier
  <2>1. \A e : e \in listed <=> \E y \in b.frontier : e \in Range(Neighbors(y))
    OBVIOUS
  <2> HIDE DEF listed
  <2> QED
    BY <1>1, <2>1, NeighborsExact
<1> HIDE DEF listed
<1>3. \A x : x \in targets <=> NextTo(x, b.frontier)
  BY <1>2 DEF NextTo
<1>4. \A x : x \in Candidates(b) <=> x \in targets /\ x \notin b.visited /\ IsNode(x)
  BY DEF Candidates, listed
<1> HIDE DEF targets
<1>5. \A x : NextTo(x, b.frontier) => x \in Names
  BY FollowedType DEF NextTo
<1> QED
  BY <1>3, <1>4, <1>5

(* The k best candidates: no candidate left out weighs more than one kept. *)
LEMMA BestFacts ==
  ASSUME WellFormed, call.k \in Nat, NEW b \in BeamData
  PROVE  /\ Best(b) \subseteq Candidates(b) /\ IsFiniteSet(Best(b))
         /\ Cardinality(Best(b)) <= call.k
         /\ \A x \in Candidates(b) \ Best(b) :
              /\ Cardinality(Best(b)) = call.k
              /\ \A y \in Best(b) : W_total(y) >= W_total(x)
<1> DEFINE S == Candidates(b)
<1>1. S \subseteq Names /\ \A x \in S : IsNode(x)
  BY CandidatesExact
<1>2. \A x, y \in S : <<y, x>> \in BetterOrder => W_total(y) >= W_total(x)
  <2> SUFFICES ASSUME NEW x \in S, NEW y \in S, <<y, x>> \in BetterOrder
               PROVE  W_total(y) >= W_total(x)
    OBVIOUS
  <2>1. W_total(x) \in Int /\ W_total(y) \in Int
    BY <1>1, WeightType
  <2>2. Better(y, x)
    BY DEF BetterOrder
  <2> QED
    BY <2>1, <2>2 DEF Better
<1> HIDE DEF S
<1>3. /\ IsFiniteSet(S) /\ StrictOrder(BetterOrder, S)
      /\ Lists(InOrder(S, Better), S, BetterOrder)
  BY <1>1, BetterInOrder
<1>4. PICK f : f = InOrder(S, Better)
  OBVIOUS
<1>5. Best(b) = Range(Take(f, call.k))
  BY <1>4 DEF Best, S
<1>6. PICK k \in Nat : k = call.k
  OBVIOUS
<1>7. /\ Best(b) \subseteq S /\ IsFiniteSet(Best(b)) /\ Cardinality(Best(b)) <= k
      /\ \A x \in S \ Best(b) : /\ Cardinality(Best(b)) = k
                                /\ \A y \in Best(b) : <<y, x>> \in BetterOrder
  BY <1>3, <1>4, <1>5, <1>6, FirstFacts
<1> QED
  BY <1>2, <1>6, <1>7 DEF S

(* The nodes that weigh no less than x are finitely many.                  *)
LEMMA NoWorseFinite ==
  ASSUME WellFormed, NEW x, NEW S, S \subseteq Names
  PROVE  IsFiniteSet(S) /\ IsFiniteSet(NoWorse(x, S)) /\ Cardinality(NoWorse(x, S)) \in Nat
<1>1. IsFiniteSet(S) /\ NoWorse(x, S) \subseteq S
  BY NamesFinite, FS_Subset DEF NoWorse
<1> QED
  BY <1>1, FS_Subset, FS_CardinalityType

(* What growing a beam by a level changes.                                 *)
LEMMA NextLevelParts ==
  ASSUME WellFormed, call.k \in Nat, NEW b \in BeamData
  PROVE  /\ NextLevel(b).visited = b.visited \cup Best(b) /\ NextLevel(b).frontier = Best(b)
         /\ NextLevel(b).results = b.results \cup Best(b) /\ NextLevel(b).level = b.level + 1
         /\ NextLevel(b) \in BeamData
<1> DEFINE made == [visited |-> b.visited \cup Best(b), frontier |-> Best(b),
                    results |-> b.results \cup Best(b), level |-> b.level + 1]
<1>1. NextLevel(b) = made
  BY DEF NextLevel, Best, Candidates
<1>2. Best(b) \subseteq Names
  BY CandidatesExact, BestFacts
<1>3. made \in BeamData
  BY <1>2 DEF BeamData
<1> QED
  BY <1>1, <1>3

(* A beam grown by a level still keeps the best.                           *)
LEMMA NextLevelOk ==
  ASSUME WellFormed, call.k \in Nat, NEW start, NEW b, BeamOk(b, start)
  PROVE  BeamOk(NextLevel(b), start)
<1>1. /\ b \in BeamData /\ start \in Names
      /\ b.frontier \subseteq b.visited
      /\ b.visited = b.results \cup {start} /\ start \notin b.results
      /\ Cardinality(b.results) <= call.k * b.level
      /\ \A x \in b.results : IsNode(x) /\ NextTo(x, b.visited \ b.frontier)
      /\ \A x \in Names \ b.visited :
           IsNode(x) /\ NextTo(x, b.visited \ b.frontier) =>
             call.k <= Cardinality(NoWorse(x, b.results))
  BY DEF BeamOk
<1> DEFINE c    == NextLevel(b)
           best == Best(b)
<1>2. /\ c.visited = b.visited \cup best /\ c.frontier = best
      /\ c.results = b.results \cup best /\ c.level = b.level + 1
      /\ c \in BeamData
  BY <1>1, NextLevelParts
<1>3. /\ best \subseteq Candidates(b) /\ IsFiniteSet(best) /\ Cardinality(best) <= call.k
      /\ \A x \in Candidates(b) \ best :
           /\ Cardinality(best) = call.k
           /\ \A y \in best : W_total(y) >= W_total(x)
  BY <1>1, BestFacts
<1>4. \A x : x \in Candidates(b) <=> NextTo(x, b.frontier) /\ x \notin b.visited /\ IsNode(x)
  BY <1>1, CandidatesExact
<1>5. /\ b.visited \subseteq Names /\ b.results \subseteq Names /\ b.level \in Nat
      /\ c.results \subseteq Names
  BY <1>1, <1>2 DEF BeamData
<1> HIDE DEF c, best
<1>6. c.visited \ c.frontier = b.visited
  BY <1>2, <1>3, <1>4
<1>7. \A x : NextTo(x, b.frontier) \/ NextTo(x, b.visited \ b.frontier) => NextTo(x, b.visited)
  BY <1>1 DEF NextTo
<1>8. \A x : NextTo(x, b.visited) => NextTo(x, b.frontier) \/ NextTo(x, b.visited \ b.frontier)
  BY DEF NextTo
<1>9. start \notin c.results /\ c.frontier \subseteq c.visited /\ c.visited = c.results \cup {start}
  BY <1>1, <1>2, <1>3, <1>4
<1>10. Cardinality(c.results) <= call.k * c.level
  <2>1. IsFiniteSet(b.results)
    BY <1>5, NoWorseFinite
  <2>2. b.results \cap best = {}
    BY <1>1, <1>3, <1>4
  <2>3. Cardinality(c.results) = Cardinality(b.results) + Cardinality(best)
    <3>1. Cardinality(b.results \cap best) = 0
      BY <2>2, FS_EmptySet
    <3>2. Cardinality(b.results) \in Nat /\ Cardinality(best) \in Nat
      BY <1>3, <2>1, FS_CardinalityType
    <3>3. Cardinality(b.results \cup best)
            = Cardinality(b.results) + Cardinality(best) - Cardinality(b.results \cap best)
      BY <1>3, <2>1, FS_Union
    <3> QED
      BY <1>2, <3>1, <3>2, <3>3
  <2>4. Cardinality(b.results) \in Nat /\ Cardinality(best) \in Nat
    BY <1>3, <2>1, FS_CardinalityType
  <2>5. \A k, l \in Nat : k * (l + 1) = k * l + k /\ k * l \in Nat
    OBVIOUS
  <2>6. call.k * c.level = call.k * b.level + call.k /\ call.k * b.level \in Nat
    BY <1>2, <1>5, <2>5
  <2> QED
    BY <1>1, <1>3, <2>3, <2>4, <2>6
<1>11. \A x \in c.results : IsNode(x) /\ NextTo(x, c.visited \ c.frontier)
  <2> SUFFICES ASSUME NEW x \in c.results PROVE IsNode(x) /\ NextTo(x, b.visited)
    BY <1>6
  <2>1. CASE x \in b.results
    BY <1>1, <1>7, <2>1
  <2>2. CASE x \in best
    <3>1. x \in Candidates(b)
      BY <1>3, <2>2
    <3> QED
      BY <1>4, <1>7, <3>1
  <2> QED
    BY <1>2, <2>1, <2>2
<1>12. ASSUME NEW x \in Names \ c.visited, IsNode(x), NextTo(x, c.visited \ c.frontier)
       PROVE  call.k <= Cardinality(NoWorse(x, c.results))
  <2>1. IsFiniteSet(NoWorse(x, c.results)) /\ Cardinality(NoWorse(x, c.results)) \in Nat
    BY <1>5, NoWorseFinite
  <2>2. CASE NextTo(x, b.frontier)
    <3>1. x \in Candidates(b) \ best
      BY <1>2, <1>4, <1>12, <2>2
    <3>2. Cardinality(best) = call.k
      BY <1>3, <3>1
    <3>3. best \subseteq NoWorse(x, c.results)
      BY <1>2, <1>3, <3>1 DEF NoWorse
    <3>4. Cardinality(best) <= Cardinality(NoWorse(x, c.results))
      BY <2>1, <3>3, FS_Subset
    <3> QED
      BY <3>2, <3>4
  <2>3. CASE NextTo(x, b.visited \ b.frontier)
    <3>1. call.k <= Cardinality(NoWorse(x, b.results))
      BY <1>1, <1>2, <1>12, <2>3
    <3>2. NoWorse(x, b.results) \subseteq NoWorse(x, c.results)
      BY <1>2 DEF NoWorse
    <3>3. Cardinality(NoWorse(x, b.results)) <= Cardinality(NoWorse(x, c.results))
      BY <2>1, <3>2, FS_Subset
    <3>4. Cardinality(NoWorse(x, b.results)) \in Nat
      BY <1>5, NoWorseFinite
    <3> QED
      BY <2>1, <3>1, <3>3, <3>4
  <2> QED
    BY <1>6, <1>8, <1>12, <2>2, <2>3
<1>13. BeamOk(c, start)
  BY <1>1, <1>2, <1>9, <1>10, <1>11, <1>12 DEF BeamOk
<1> QED
  BY <1>13 DEF c

(* Nothing of a beam changes while the view of the request does not.       *)
LEMMA BeamOkKept ==
  ASSUME Followed' = Followed, call' = call,
         \A x : W_total(x)' = W_total(x), \A x : IsNode(x)' <=> IsNode(x),
         NEW b, NEW start, BeamOk(b, start)
  PROVE  BeamOk(b, start)'
<1>1. \A x, S : NextTo(x, S)' <=> NextTo(x, S)
  BY DEF NextTo
<1>2. \A x, S : NoWorse(x, S)' = NoWorse(x, S)
  BY DEF NoWorse
<1> QED
  BY <1>1, <1>2 DEF BeamOk

(* There are no beams yet.                                                 *)
LEMMA BeamsInit == Init => BeamsInv
<1> SUFFICES ASSUME Init PROVE BeamsInv
  OBVIOUS
<1>1. pc = "ready" /\ DOMAIN beams = {}
  BY DEF Init
<1> QED
  BY <1>1, WellFormedInit DEF BeamsInv, OwnWay

(* No step but a compaction's reorders edges, and none changes which edges *)
(* and scores a request sees.                                              *)
LEMMA ViewKept ==
  ASSUME WellFormed, [Next]_vars
  PROVE  /\ Followed' = Followed /\ call' = call
         /\ \A x : edge_cost(x)' = edge_cost(x) /\ W_total(x)' = W_total(x)
         /\ \A x : IsNode(x)' <=> IsNode(x)
<1>1. CASE UNCHANGED <<graph, ctx, call>>
  BY <1>1, SameView
<1>2. ASSUME NEW mode, Compact(mode)
      PROVE  /\ Followed' = Followed /\ call' = call
             /\ \A x : edge_cost(x)' = edge_cost(x) /\ W_total(x)' = W_total(x)
             /\ \A x : IsNode(x)' <=> IsNode(x)
  <2>1. call' = call
    BY <1>2 DEF Compact
  <2> QED
    BY <1>2, <2>1, CompactKeepsView
<1> QED
  BY <1>1, <1>2, ViewStep

(* Every step keeps what is known of every beam.                           *)
LEMMA BeamsStep == BeamsInv /\ [Next]_vars => BeamsInv'
<1> SUFFICES ASSUME BeamsInv, [Next]_vars PROVE BeamsInv'
  OBVIOUS
<1>1. WellFormed /\ WellFormed' /\ OwnWay'
  BY WellFormedStep, OwnWayStep DEF BeamsInv
<1>2. /\ Followed' = Followed /\ call' = call
      /\ \A x : W_total(x)' = W_total(x)
      /\ \A x : IsNode(x)' <=> IsNode(x)
  BY <1>1, ViewKept
<1>3. \A b, start : BeamOk(b, start) => BeamOk(b, start)'
  BY <1>2, BeamOkKept
<1>4. ASSUME UNCHANGED beams, pc' = "beams" => pc = "beams" PROVE BeamsInv'
  BY <1>1, <1>2, <1>3, <1>4 DEF BeamsInv
<1>5. CASE BeginBeams
  <2>1. /\ call.op \in {"beam_traverse", "multi_beam_intersection"}
        /\ beams' = [i \in DOMAIN call.start_nodes |-> NewBeam(call.start_nodes[i])]
    BY <1>5 DEF BeginBeams
  <2>2. /\ \A i \in DOMAIN call.start_nodes : call.start_nodes[i] \in Names
        /\ call.k \in Nat
    BY <1>1, <2>1, StartNodes
  <2>3. ASSUME NEW i \in DOMAIN call.start_nodes
        PROVE  BeamOk(beams[i], call.start_nodes[i])'
    <3>1. PICK b : b = NewBeam(call.start_nodes[i])
      OBVIOUS
    <3>2. PICK s : s = call.start_nodes[i]
      OBVIOUS
    <3>3. BeamOk(b, s)
      BY <1>1, <2>2, <3>1, <3>2, NewBeamOk
    <3>4. BeamOk(b, s)'
      BY <1>3, <3>3
    <3>5. beams'[i] = b
      BY <2>1, <3>1
    <3> QED
      BY <1>2, <3>2, <3>4, <3>5
  <2>4. DOMAIN beams' = DOMAIN call.start_nodes
    BY <2>1
  <2> QED
    BY <1>1, <1>2, <2>1, <2>3, <2>4 DEF BeamsInv
<1>6. CASE \E i \in DOMAIN beams : BeamLevel(i)
  <2>1. PICK i \in DOMAIN beams : BeamLevel(i)
    BY <1>6
  <2>2. beams' = [beams EXCEPT ![i] = NextLevel(beams[i])] /\ pc' = pc
    BY <2>1 DEF BeamLevel
  <2>3. /\ call.op \in {"beam_traverse", "multi_beam_intersection"}
        /\ i \in DOMAIN call.start_nodes /\ BeamOk(beams[i], call.start_nodes[i])
    BY DEF BeamsInv
  <2>4. call.k \in Nat
    BY <1>1, <2>3, StartNodes
  <2>5. PICK b : b = NextLevel(beams[i])
    OBVIOUS
  <2>6. PICK s : s = call.start_nodes[i]
    OBVIOUS
  <2>7. BeamOk(b, s)
    BY <1>1, <2>3, <2>4, <2>5, <2>6, NextLevelOk
  <2>8. BeamOk(b, s)'
    BY <1>3, <2>7
  <2>9. DOMAIN beams' = DOMAIN beams /\ beams'[i] = b
    BY <2>2, <2>5
  <2>10. ASSUME NEW j \in DOMAIN beams'
         PROVE  /\ j \in DOMAIN call'.start_nodes
                /\ BeamOk(beams[j], call.start_nodes[j])'
    <3>1. CASE j = i
      BY <1>2, <2>3, <2>6, <2>8, <2>9, <3>1
    <3>2. CASE j # i
      <4>1. j \in DOMAIN beams /\ beams'[j] = beams[j]
        BY <2>2, <2>9, <3>2
      <4>2. PICK c, t : c = beams[j] /\ t = call.start_nodes[j]
        OBVIOUS
      <4>3. j \in DOMAIN call.start_nodes /\ BeamOk(c, t)
        BY <4>1, <4>2 DEF BeamsInv
      <4>4. BeamOk(c, t)'
        BY <1>3, <4>3
      <4> QED
        BY <1>2, <4>1, <4>2, <4>3, <4>4
    <3> QED
      BY <3>1, <3>2
  <2>11. pc' = "beams" => DOMAIN beams' = DOMAIN call'.start_nodes
    BY <1>2, <2>2, <2>9 DEF BeamsInv
  <2> QED
    BY <1>1, <1>2, <2>3, <2>10, <2>11 DEF BeamsInv
<1>7. CASE BeginPath \/ Pop \/ Relax \/ NoPath
  <2>1. UNCHANGED beams /\ pc' # "beams"
    BY <1>7 DEF BeginPath, Pop, Relax, NoPath, Return
  <2> QED
    BY <1>4, <2>1
<1>8. CASE BeamReturns \/ IntersectionReturns \/ BeginSubgraph \/ Seed \/ SubgraphReturns
  <2>1. UNCHANGED beams /\ pc' # "beams"
    BY <1>8 DEF BeamReturns, IntersectionReturns, BeginSubgraph, Seed, SubgraphReturns, Return
  <2> QED
    BY <1>4, <2>1
<1>9. CASE \E mode \in {"Owned", "Mmap"} : Compact(mode)
  <2>1. UNCHANGED beams /\ pc' # "beams"
    BY <1>9 DEF Compact
  <2> QED
    BY <1>4, <2>1
<1>10. CASE UNCHANGED vars
  BY <1>4, <1>10 DEF vars
<1> QED
  BY <1>5, <1>6, <1>7, <1>8, <1>9, <1>10 DEF Next

(* What is known of the beams holds in every reachable state.              *)
THEOREM BeamsInvariant == Spec => []BeamsInv
<1>1. Init => BeamsInv
  BY BeamsInit
<1>2. BeamsInv /\ [Next]_vars => BeamsInv'
  BY BeamsStep
<1> QED
  BY <1>1, <1>2, PTL DEF Spec

(* BeamKeepsTheBest: in any graph, at any width and depth, a beam of       *)
(* beam_traverse or multi_beam_intersection never returns its start nor    *)
(* more than k nodes a level, each result was next to a node it expanded,  *)
(* and what it left out there weighs no more than k of its results         *)
(* (traversal.rs beam_traverse, with the level_map that drops duplicates   *)
(* before truncate).                                                       *)
THEOREM BeamsKeepTheBest == Spec => []BeamKeepsTheBest
<1>1. BeamsInv => BeamKeepsTheBest
  <2> SUFFICES ASSUME BeamsInv, NEW i \in DOMAIN beams
               PROVE  LET b        == beams[i]
                          start    == call.start_nodes[i]
                          expanded == b.visited \ b.frontier
                          Next_(x) == \E e \in Followed : e.from \in expanded /\ e.to = x
                      IN /\ start \notin b.results /\ Cardinality(b.results) <= call.k * b.level
                         /\ \A x \in b.results : IsNode(x) /\ Next_(x)
                         /\ \A x \in Names \ b.visited :
                              IsNode(x) /\ Next_(x) =>
                                call.k <= Cardinality({y \in b.results : W_total(y) >= W_total(x)})
    BY DEF BeamKeepsTheBest
  <2>1. BeamOk(beams[i], call.start_nodes[i])
    BY DEF BeamsInv
  <2> QED
    BY <2>1 DEF BeamOk, NextTo, NoWorse
<1> QED
  BY <1>1, BeamsInvariant, PTL

(***************************************************************************)
(* The subgraph of the most boosted names.                                 *)
(***************************************************************************)
Boosted ==
  LET boost == ctx.semantic_boosts
  IN {x \in DOMAIN boost : Cardinality({y \in DOMAIN boost : MoreBoosted(y, x)}) < call.k}

Out(X) == {e \in Followed : e.from \in X}

(* What is gathered once the seeds of X are expanded.                      *)
Gathered(X) ==
  /\ \A x \in X : x \in Boosted /\ IsNode(x)
  /\ node_set = X \cup {e.to : e \in Out(X)}
  /\ nodes = {x \in node_set : IsNode(x)}
  /\ edges \in Seq(EdgeData) /\ Range(edges) = Out(X)

SubgraphOf(a) ==
  LET found == Range(a.nodes)
      kept  == Range(a.edges)
      top   == {x \in Boosted : IsNode(x)}
  IN /\ IsInjective(a.nodes) /\ top \subseteq found
     /\ \A x \in found \ top : \E e \in kept : e.to = x
     /\ \A e \in kept : e.from \in top /\ e.to \in found
     /\ \A x \in top : \/ {e \in Followed : e.from = x /\ e.to \in found} \subseteq kept
                       \/ \E e \in kept : e.to = x /\ e.from # x
     /\ kept \subseteq Followed

SeedsInv ==
  /\ WellFormed /\ OwnWay
  /\ pc = "seeds" =>
       /\ seeds \in Seq(Names) /\ Range(seeds) \subseteq Boosted
       /\ \E X : Gathered(X)
       /\ \A x \in Boosted : IsNode(x) => x \in node_set \/ x \in Range(seeds)
       /\ node_set \subseteq Names
  /\ pc = "done" /\ call.op = "contextual_subgraph" => SubgraphOf(answer)

(* The names a request boosts.                                             *)
LEMMA BoostedNames ==
  ASSUME WellFormed
  PROVE  DOMAIN ctx.semantic_boosts \subseteq Names /\ Boosted \subseteq Names
BY DEF WellFormed, IsContext, IsEntries, Boosted

(* A sequence over a set is one over a larger set.                         *)
LEMMA SeqWider ==
  ASSUME NEW A, NEW B, A \subseteq B, NEW s \in Seq(A)
  PROVE  s \in Seq(B)
OBVIOUS

(* contextual_subgraph begins with the most boosted names as its seeds.    *)
LEMMA BeginSubgraphKeeps ==
  ASSUME SeedsInv, BeginSubgraph
  PROVE  /\ seeds' \in Seq(Names) /\ Range(seeds') = Boosted
         /\ node_set' = {} /\ nodes' = {} /\ edges' = << >> /\ UNCHANGED <<graph, ctx, call>>
<1>1. /\ call.op = "contextual_subgraph" /\ WellFormed
      /\ seeds' = Take(InOrder(DOMAIN ctx.semantic_boosts, MoreBoosted), call.k)
      /\ node_set' = {} /\ nodes' = {} /\ edges' = << >> /\ UNCHANGED <<graph, ctx, call>>
  BY DEF BeginSubgraph, SeedsInv
<1>2. PICK S : S = DOMAIN ctx.semantic_boosts
  OBVIOUS
<1>3. /\ IsFiniteSet(S) /\ StrictOrder(BoostOrder, S)
      /\ Lists(InOrder(S, MoreBoosted), S, BoostOrder)
  BY <1>1, <1>2, MoreBoostedInOrder
<1>4. PICK f : f = InOrder(S, MoreBoosted)
  OBVIOUS
<1>5. PICK k \in Nat : k = call.k
  BY <1>1, CallTypes
<1>6. /\ Take(f, k) \in Seq(S)
      /\ Range(Take(f, k)) = {x \in S : Rank(BoostOrder, S, x) < k}
  BY <1>3, <1>4, TakeFacts
<1>7. S \subseteq Names
  BY <1>1, <1>2, BoostedNames
<1>8. seeds' = Take(f, k)
  BY <1>1, <1>2, <1>4, <1>5
<1>9. \A x \in S : Rank(BoostOrder, S, x) = Cardinality({y \in S : MoreBoosted(y, x)})
  <2> SUFFICES ASSUME NEW x \in S
               PROVE  Rank(BoostOrder, S, x) = Cardinality({y \in S : MoreBoosted(y, x)})
    OBVIOUS
  <2>1. Below(BoostOrder, S, x) = {y \in S : MoreBoosted(y, x)}
    BY <1>7 DEF Below, BoostOrder
  <2> QED
    BY <2>1 DEF Rank
<1>10. Boosted = {x \in S : Rank(BoostOrder, S, x) < k}
  BY <1>2, <1>5, <1>9 DEF Boosted
<1>11. seeds' \in Seq(Names)
  <2>1. seeds' \in Seq(S)
    BY <1>6, <1>8
  <2> QED
    BY <1>7, <2>1, SeqWider
<1> QED
  BY <1>1, <1>6, <1>8, <1>10, <1>11

(* A seed adds itself, its neighbors and the edges to them.                *)
LEMMA SeedKeeps ==
  ASSUME SeedsInv, Seed
  PROVE  /\ seeds' \in Seq(Names) /\ Range(seeds') \subseteq Boosted
         /\ \E X : Gathered(X)'
         /\ \A x \in Boosted : IsNode(x) => x \in node_set' \/ x \in Range(seeds')
         /\ node_set' \subseteq Names
<1>1. /\ pc = "seeds" /\ seeds # << >> /\ WellFormed /\ seeds' = Tail(seeds)
      /\ seeds \in Seq(Names) /\ Range(seeds) \subseteq Boosted
      /\ \A x \in Boosted : IsNode(x) => x \in node_set \/ x \in Range(seeds)
      /\ node_set \subseteq Names /\ UNCHANGED <<graph, ctx, call>>
  BY DEF SeedsInv, Seed
<1>2. PICK X : Gathered(X)
  BY <1>1 DEF SeedsInv
<1>3. PICK x : x = Head(seeds)
  OBVIOUS
<1>4. /\ x \in Range(seeds) /\ Tail(seeds) \in Seq(Names)
      /\ Range(Tail(seeds)) \subseteq Range(seeds)
      /\ Range(seeds) \subseteq Range(Tail(seeds)) \cup {x}
  BY <1>1, <1>3, HeadTail
<1>5. x \in Names /\ x \in Boosted
  BY <1>1, <1>4, BoostedNames
<1>6. /\ Followed' = Followed /\ Boosted' = Boosted
      /\ \A y : IsNode(y)' <=> IsNode(y)
  <2>1. Boosted' = Boosted
    BY <1>1 DEF Boosted, MoreBoosted
  <2> QED
    BY <1>1, <2>1, SameView
<1>7. CASE x \in node_set \/ ~ IsNode(x)
  <2>1. UNCHANGED <<node_set, nodes, edges>>
    BY <1>3, <1>7 DEF Seed
  <2>2. Gathered(X)'
    BY <1>2, <1>6, <2>1 DEF Gathered, Out
  <2> QED
    BY <1>1, <1>4, <1>7, <2>1, <2>2
<1>8. CASE x \notin node_set /\ IsNode(x)
  <2> DEFINE targets == {e.to : e \in Range(Neighbors(x))}
             Y       == X \cup {x}
  <2>1. /\ node_set' = node_set \cup {x} \cup targets
        /\ nodes' = nodes \cup {x} \cup {y \in targets \ node_set : IsNode(y)}
        /\ edges' = edges \o Neighbors(x)
    BY <1>3, <1>8 DEF Seed
  <2>2. /\ Neighbors(x) \in Seq(EdgeData)
        /\ \A e : e \in Range(Neighbors(x)) <=> e \in Followed /\ e.from = x
    BY <1>1, <1>5, NeighborsExact
  <2>3. /\ edges \in Seq(EdgeData) /\ Range(edges) = Out(X)
        /\ node_set = X \cup {e.to : e \in Out(X)}
        /\ nodes = {y \in node_set : IsNode(y)}
        /\ \A y \in X : y \in Boosted /\ IsNode(y)
    BY <1>2 DEF Gathered
  <2>4. Range(Neighbors(x)) = Out({x})
    BY <2>2 DEF Out
  <2>5. Out(Y) = Out(X) \cup Out({x})
    BY DEF Out
  <2>6. edges' \in Seq(EdgeData) /\ Range(edges') = Out(Y)
    <3>1. PICK s, t \in Seq(EdgeData) : s = edges /\ t = Neighbors(x)
      BY <2>2, <2>3
    <3>2. /\ s \o t \in Seq(EdgeData)
          /\ \A e : e \in Range(s \o t) <=> e \in Range(s) \/ e \in Range(t)
      BY RangeConcat
    <3> QED
      BY <2>1, <2>3, <2>4, <2>5, <3>1, <3>2
  <2>7. targets = {e.to : e \in Out({x})}
    BY <2>4
  <2> HIDE DEF targets
  <2>8. node_set' = Y \cup {e.to : e \in Out(Y)}
    BY <2>1, <2>3, <2>5, <2>7
  <2>9. nodes' = {y \in node_set' : IsNode(y)}
    BY <1>8, <2>1, <2>3
  <2>10. \A y \in Y : y \in Boosted /\ IsNode(y)
    BY <1>5, <1>8, <2>3
  <2>11. targets \subseteq Names
    BY <1>1, <2>7, FollowedType DEF Out
  <2>12. Gathered(Y)'
    <3> HIDE DEF Y
    <3>1. Out(Y)' = Out(Y)
      BY <1>6 DEF Out
    <3> QED
      BY <1>6, <2>6, <2>8, <2>9, <2>10, <3>1 DEF Gathered
  <2>13. \A y \in Boosted : IsNode(y) => y \in node_set' \/ y \in Range(seeds')
    BY <1>1, <1>4, <2>1
  <2>14. node_set' \subseteq Names
    BY <1>1, <1>5, <2>1, <2>11
  <2>15. \E Z : Gathered(Z)'
    <3> HIDE DEF Y
    <3> QED
      BY <2>12
  <2> QED
    BY <1>1, <1>4, <2>13, <2>14, <2>15
<1> QED
  BY <1>7, <1>8

(* A listing holds each element once.                                      *)
LEMMA ListedOnce ==
  ASSUME NEW S, IsFiniteSet(S), NEW R, StrictOrder(R, S), NEW f, Lists(f, S, R)
  PROVE  IsInjective(f) /\ Range(f) = S
BY ListingFacts DEF IsInjective

(* What is returned when the seeds are done is the subgraph of the seeds.  *)
LEMMA SubgraphReturnsOk ==
  ASSUME SeedsInv, pc = "seeds", seeds = << >>,
         NEW a, a = [nodes |-> InOrder(nodes, Better),
                     edges |-> Sorted(Retain(edges), KeyBefore)]
  PROVE  SubgraphOf(a)
<1>1. /\ WellFormed /\ node_set \subseteq Names
      /\ \A x \in Boosted : IsNode(x) => x \in node_set
  BY DEF SeedsInv, Range
<1>2. PICK X : Gathered(X)
  BY DEF SeedsInv
<1>3. /\ edges \in Seq(EdgeData) /\ Range(edges) = Out(X)
      /\ node_set = X \cup {e.to : e \in Out(X)}
      /\ nodes = {y \in node_set : IsNode(y)}
      /\ \A y \in X : y \in Boosted /\ IsNode(y)
  BY <1>2 DEF Gathered
<1>4. a.nodes = InOrder(nodes, Better) /\ a.edges = Sorted(Retain(edges), KeyBefore)
  OBVIOUS
<1>5. IsInjective(a.nodes) /\ Range(a.nodes) = nodes
  <2>1. PICK S : S = nodes
    OBVIOUS
  <2>2. S \subseteq Names /\ \A x \in S : IsNode(x)
    BY <1>1, <1>3, <2>1
  <2>3. /\ IsFiniteSet(S) /\ StrictOrder(BetterOrder, S)
        /\ Lists(InOrder(S, Better), S, BetterOrder)
    BY <1>1, <2>2, BetterInOrder
  <2>4. PICK f : f = InOrder(S, Better)
    OBVIOUS
  <2> QED
    BY <1>4, <2>1, <2>3, <2>4, ListedOnce
<1>6. \A e : e \in Range(a.edges) <=> e \in Out(X) /\ e.from \in nodes /\ e.to \in nodes
  <2>1. PICK s \in Seq(EdgeData) : s = edges
    BY <1>3
  <2>2. PICK S : S = {e \in EdgeData : e.from \in nodes /\ e.to \in nodes}
    OBVIOUS
  <2>3. PICK t : t = Pick(s, S)
    OBVIOUS
  <2>4. t \in Seq(EdgeData) /\ \A e : e \in Range(t) <=> e \in Range(s) /\ e \in S
    BY <2>3, PickFacts
  <2>5. Range(Sorted(t, KeyBefore)) = Range(t)
    BY <2>4, SortByKeyBefore
  <2>6. a.edges = Sorted(t, KeyBefore)
    BY <1>4, <2>1, <2>2, <2>3 DEF Retain
  <2>7. \A e \in Out(X) : e \in EdgeData
    BY <1>1, FollowedType DEF Out
  <2> QED
    BY <1>3, <2>1, <2>2, <2>4, <2>5, <2>6, <2>7
<1> DEFINE top == {x \in Boosted : IsNode(x)}
<1>7. top \subseteq nodes
  BY <1>1, <1>3
<1>8. X \subseteq top /\ X \subseteq nodes
  BY <1>3
<1>9. \A e : e \in Out(X) <=> e \in Followed /\ e.from \in X
  BY DEF Out
<1>10. \A e : e \in Range(a.edges) <=> e \in Followed /\ e.from \in X /\ e.to \in nodes
  BY <1>6, <1>8, <1>9
<1>11. \A y : y \in node_set <=> y \in X \/ \E e \in Followed : e.from \in X /\ e.to = y
  BY <1>3, <1>9
<1> HIDE DEF top
<1>12. \A x \in nodes \ top : \E e \in Range(a.edges) : e.to = x
  BY <1>3, <1>8, <1>10, <1>11
<1>13. \A e \in Range(a.edges) : e.from \in top /\ e.to \in nodes
  BY <1>8, <1>10
<1>14. ASSUME NEW x \in top
       PROVE  \/ {e \in Followed : e.from = x /\ e.to \in nodes} \subseteq Range(a.edges)
              \/ \E e \in Range(a.edges) : e.to = x /\ e.from # x
  <2>1. CASE x \in X
    BY <1>10, <2>1
  <2>2. CASE x \notin X
    <3>1. x \in nodes /\ x \in node_set
      BY <1>3, <1>7
    <3>2. PICK e \in Followed : e.from \in X /\ e.to = x
      BY <1>11, <2>2, <3>1
    <3> QED
      BY <1>10, <2>2, <3>1, <3>2
  <2> QED
    BY <2>1, <2>2
<1>15. Range(a.edges) \subseteq Followed
  BY <1>10
<1> QED
  BY <1>5, <1>7, <1>12, <1>13, <1>14, <1>15 DEF SubgraphOf, top

(* It stays so while graph, context and call are the same.                 *)
LEMMA SubgraphOfKept ==
  ASSUME Followed' = Followed, UNCHANGED <<ctx, call>>,
         \A x : IsNode(x)' <=> IsNode(x), NEW a, SubgraphOf(a)
  PROVE  SubgraphOf(a)'
<1>1. Boosted' = Boosted
  BY DEF Boosted, MoreBoosted
<1> QED
  BY <1>1 DEF SubgraphOf

(* Nothing is gathered yet.                                                *)
LEMMA SeedsInit == Init => SeedsInv
<1> SUFFICES ASSUME Init PROVE SeedsInv
  OBVIOUS
<1>1. pc = "ready"
  BY DEF Init
<1> QED
  BY <1>1, WellFormedInit DEF SeedsInv, OwnWay

(* Every step keeps what is known of the seeds done.                       *)
LEMMA SeedsStep == SeedsInv /\ [Next]_vars => SeedsInv'
<1> SUFFICES ASSUME SeedsInv, [Next]_vars PROVE SeedsInv'
  OBVIOUS
<1>1. WellFormed /\ WellFormed' /\ OwnWay /\ OwnWay'
  BY WellFormedStep, OwnWayStep DEF SeedsInv
<1>2. /\ Followed' = Followed /\ call' = call
      /\ \A x : IsNode(x)' <=> IsNode(x)
  BY <1>1, ViewKept
<1>3. CASE UNCHANGED vars
  <2>1. UNCHANGED <<ctx, call, pc, seeds, node_set, nodes, edges, answer>>
    BY <1>3 DEF vars, sub
  <2>2. Boosted' = Boosted
    BY <2>1 DEF Boosted, MoreBoosted
  <2>3. pc' = "seeds" => \E X : Gathered(X)'
    BY <1>2, <2>1, <2>2 DEF SeedsInv, Gathered, Out
  <2>4. pc' = "done" /\ call'.op = "contextual_subgraph" => SubgraphOf(answer)'
    <3> SUFFICES ASSUME pc' = "done", call'.op = "contextual_subgraph"
                 PROVE  SubgraphOf(answer)'
      OBVIOUS
    <3>1. PICK a : a = answer
      OBVIOUS
    <3>2. SubgraphOf(a)
      BY <2>1, <3>1 DEF SeedsInv
    <3>3. SubgraphOf(a)'
      BY <1>2, <2>1, <3>2, SubgraphOfKept
    <3> QED
      BY <2>1, <3>1, <3>3
  <2> QED
    BY <1>1, <1>2, <2>1, <2>2, <2>3, <2>4 DEF SeedsInv
<1>4. CASE BeginSubgraph
  <2>1. /\ seeds' \in Seq(Names) /\ Range(seeds') = Boosted
        /\ node_set' = {} /\ nodes' = {} /\ edges' = << >> /\ UNCHANGED <<graph, ctx, call>>
    BY <1>4, BeginSubgraphKeeps
  <2>2. Boosted' = Boosted
    BY <2>1 DEF Boosted, MoreBoosted
  <2>3. Gathered({})'
    BY <2>1 DEF Gathered, Out, Range
  <2>4. \E X : Gathered(X)'
    BY <2>3
  <2>5. pc' = "seeds"
    BY <1>4 DEF BeginSubgraph
  <2> QED
    BY <1>1, <2>1, <2>2, <2>4, <2>5 DEF SeedsInv
<1>5. CASE Seed
  <2>1. /\ seeds' \in Seq(Names) /\ Range(seeds') \subseteq Boosted
        /\ \E X : Gathered(X)'
        /\ \A x \in Boosted : IsNode(x) => x \in node_set' \/ x \in Range(seeds')
        /\ node_set' \subseteq Names
    BY <1>5, SeedKeeps
  <2>2. UNCHANGED <<ctx, call>> /\ pc' = "seeds"
    BY <1>5 DEF Seed
  <2>3. Boosted' = Boosted
    BY <2>2 DEF Boosted, MoreBoosted
  <2> QED
    BY <1>1, <1>2, <2>1, <2>2, <2>3 DEF SeedsInv
<1>6. CASE SubgraphReturns
  <2>1. PICK a : a = [nodes |-> InOrder(nodes, Better),
                      edges |-> Sorted(Retain(edges), KeyBefore)]
    OBVIOUS
  <2>2. /\ pc = "seeds" /\ seeds = << >> /\ answer' = a /\ UNCHANGED <<ctx, call>>
        /\ pc' = "done"
    BY <1>6, <2>1 DEF SubgraphReturns, Return
  <2>3. SubgraphOf(a)
    BY <2>1, <2>2, SubgraphReturnsOk
  <2>4. SubgraphOf(a)'
    BY <1>2, <2>2, <2>3, SubgraphOfKept
  <2>5. SubgraphOf(answer)'
    BY <2>2, <2>4
  <2> QED
    BY <1>1, <2>2, <2>5 DEF SeedsInv
<1>7. CASE BeginPath \/ Pop \/ Relax \/ NoPath
  <2>1. pc' # "seeds" /\ call'.op = "find_path"
    BY <1>1, <1>7 DEF BeginPath, Pop, Relax, NoPath, Return, OwnWay
  <2> QED
    BY <1>1, <2>1 DEF SeedsInv
<1>8. CASE \/ BeginBeams \/ (\E i \in DOMAIN beams : BeamLevel(i))
           \/ BeamReturns \/ IntersectionReturns
  <2>1. pc' # "seeds" /\ call'.op # "contextual_subgraph"
    BY <1>1, <1>8 DEF BeginBeams, BeamLevel, BeamReturns, IntersectionReturns, Return, OwnWay
  <2> QED
    BY <1>1, <2>1 DEF SeedsInv
<1>9. CASE \E mode \in {"Owned", "Mmap"} : Compact(mode)
  <2>1. pc' = "ready"
    BY <1>9 DEF Compact
  <2> QED
    BY <1>1, <2>1 DEF SeedsInv
<1> QED
  BY <1>3, <1>4, <1>5, <1>6, <1>7, <1>8, <1>9 DEF Next

(* What is known of the seeds holds in every reachable state.              *)
THEOREM SeedsInvariant == Spec => []SeedsInv
<1>1. Init => SeedsInv
  BY SeedsInit
<1>2. SeedsInv /\ [Next]_vars => SeedsInv'
  BY SeedsStep
<1> QED
  BY <1>1, <1>2, PTL DEF Spec

(* SubgraphFromSeeds: in any graph, for any boosts, contextual_subgraph    *)
(* returns the seeds that are nodes and what they reach, with no edge that *)
(* leads out, and leaves out an edge of a seed only if another seed leads  *)
(* there (traversal.rs contextual_subgraph, with the retain before it      *)
(* returns).                                                               *)
THEOREM SubgraphIsFromSeeds == Spec => []SubgraphFromSeeds
<1>1. SeedsInv => SubgraphFromSeeds
  <2> SUFFICES ASSUME SeedsInv, pc = "done", call.op = "contextual_subgraph"
               PROVE  SubgraphFromSeeds
    BY DEF SubgraphFromSeeds
  <2>1. SubgraphOf(answer)
    BY DEF SeedsInv
  <2> DEFINE boost == ctx.semantic_boosts
             ahead(x) == {y \in DOMAIN boost : \/ boost[y] > boost[x]
                                               \/ boost[y] = boost[x] /\ y < x}
             top   == {x \in DOMAIN boost : IsNode(x) /\ Cardinality(ahead(x)) < call.k}
  <2>2. \A x : ahead(x) = {y \in DOMAIN boost : MoreBoosted(y, x)}
    BY DEF MoreBoosted
  <2>3. top = {x \in Boosted : IsNode(x)}
    <3> HIDE DEF ahead
    <3> QED
      BY <2>2 DEF Boosted
  <2> HIDE DEF top, ahead
  <2>4. /\ IsInjective(answer.nodes) /\ top \subseteq Range(answer.nodes)
        /\ \A x \in Range(answer.nodes) \ top : \E e \in Range(answer.edges) : e.to = x
        /\ \A e \in Range(answer.edges) : e.from \in top /\ e.to \in Range(answer.nodes)
        /\ \A x \in top :
             \/ {e \in Followed : e.from = x /\ e.to \in Range(answer.nodes)}
                  \subseteq Range(answer.edges)
             \/ \E e \in Range(answer.edges) : e.to = x /\ e.from # x
    BY <2>1, <2>3 DEF SubgraphOf
  <2> QED
    BY <2>4 DEF SubgraphFromSeeds, top, ahead
<1> QED
  BY <1>1, SeedsInvariant, PTL

(***************************************************************************)
(* The edges of a heatmap.                                                 *)
(***************************************************************************)
LEMMA RangeFinite ==
  ASSUME NEW f, NEW n \in Nat, DOMAIN f = 1 .. n
  PROVE  IsFiniteSet(Range(f))
<1> DEFINE g == [i \in 1 .. n |-> f[i]]
<1>1. Range(f) = {f[i] : i \in 1 .. n}
  BY DEF Range
<1>2. PICK T : T = {f[i] : i \in 1 .. n}
  OBVIOUS
<1>3. g \in [1 .. n -> T] /\ \A t \in T : \E i \in 1 .. n : g[i] = t
  BY <1>2
<1>4. g \in Surjection(1 .. n, T)
  <2> HIDE DEF g
  <2> QED
    BY <1>3 DEF Surjection
<1>5. IsFiniteSet(1 .. n)
  BY FS_Interval
<1>6. IsFiniteSet(T)
  <2> HIDE DEF g
  <2> QED
    BY <1>4, <1>5, FS_Surjection
<1> QED
  BY <1>1, <1>2, <1>6

(* The image of a finite set is finite.                                    *)
LEMMA ImageFinite ==
  ASSUME NEW S, IsFiniteSet(S), NEW f, DOMAIN f = S
  PROVE  IsFiniteSet({f[x] : x \in S})
<1>1. PICK T : T = {f[x] : x \in S}
  OBVIOUS
<1> DEFINE g == [x \in S |-> f[x]]
<1>2. g \in [S -> T] /\ \A t \in T : \E x \in S : g[x] = t
  BY <1>1
<1>3. g \in Surjection(S, T)
  <2> HIDE DEF g
  <2> QED
    BY <1>2 DEF Surjection
<1>4. IsFiniteSet(T)
  <2> HIDE DEF g
  <2> QED
    BY <1>3, FS_Surjection
<1> QED
  BY <1>1, <1>4

Listing(x) ==
  Pick(graph.outgoing[x] \o edges_from(ctx, x),
       {e \in EdgeData : is_edge_visible(ctx, e) /\ e.to \in filtered_set})

(* An edge that a heatmap may return if it keeps both of its ends.         *)
Readable(e) == e \in EdgeData /\ is_edge_visible(ctx, e) /\ e \in Base(e.from) \cup Injected

(* What a node of the heatmap reads: its edges to filtered nodes.          *)
LEMMA ListingExact ==
  ASSUME WellFormed, NEW x \in Names
  PROVE  /\ Listing(x) \in Seq(EdgeData)
         /\ \A e : e \in Range(Listing(x)) <=> Readable(e) /\ e.from = x /\ e.to \in filtered_set
<1>1. /\ edges_from(ctx, x) \in Seq(EdgeData)
      /\ \A e : e \in Range(edges_from(ctx, x)) <=> e \in Injected /\ e.from = x
      /\ Injected \subseteq EdgeData
  BY OverlayEdges
<1>2. /\ graph.outgoing[x] \in Seq(EdgeData) /\ Base(x) \subseteq EdgeData
      /\ \A e \in Base(x) : e.from = x
  BY BaseEdges
<1>3. PICK s, t \in Seq(EdgeData) : s = graph.outgoing[x] /\ t = edges_from(ctx, x)
  BY <1>1, <1>2
<1>4. s \o t \in Seq(EdgeData) /\ \A e : e \in Range(s \o t) <=> e \in Range(s) \/ e \in Range(t)
  BY RangeConcat
<1>5. PICK S : S = {e \in EdgeData : is_edge_visible(ctx, e) /\ e.to \in filtered_set}
  OBVIOUS
<1>6. PICK u : u = s \o t
  OBVIOUS
<1>7. /\ Pick(u, S) \in Seq(EdgeData)
      /\ \A e : e \in Range(Pick(u, S)) <=> e \in Range(u) /\ e \in S
  BY <1>4, <1>6, PickFacts
<1>8. Listing(x) = Pick(u, S)
  BY <1>3, <1>5, <1>6 DEF Listing
<1>9. \A e : e \in Range(u) <=> e \in Base(x) \/ (e \in Injected /\ e.from = x)
  BY <1>1, <1>3, <1>4, <1>6 DEF Base
<1>10. ASSUME NEW e
       PROVE  e \in Range(Listing(x)) <=> Readable(e) /\ e.from = x /\ e.to \in filtered_set
  <2>1. e \in Range(Listing(x)) <=>
          (e \in Base(x) \/ (e \in Injected /\ e.from = x)) /\ e \in S
    BY <1>7, <1>8, <1>9
  <2>2. e \in S <=> e \in EdgeData /\ is_edge_visible(ctx, e) /\ e.to \in filtered_set
    BY <1>5
  <2>3. e \in Base(x) => e.from = x
    BY <1>2
  <2> QED
    BY <2>1, <2>2, <2>3 DEF Readable
<1> QED
  BY <1>7, <1>8, <1>10

(* Of the edges of one key, the listing keeps the first.                   *)
LEMMA RebuiltFacts ==
  ASSUME WellFormed, NEW x \in Names
  PROVE  /\ IsFiniteSet(Rebuilt(x))
         /\ \A e \in Rebuilt(x) : Readable(e) /\ e.from = x /\ e.to \in filtered_set
         /\ \A e, f \in Rebuilt(x) : SameKey(e, f) => e = f
         /\ \A e : Readable(e) /\ e.from = x /\ e.to \in filtered_set =>
              \E f \in Rebuilt(x) : SameKey(f, e)
<1>1. PICK s : s = Listing(x)
  OBVIOUS
<1>2. /\ s \in Seq(EdgeData)
      /\ \A e : e \in Range(s) <=> Readable(e) /\ e.from = x /\ e.to \in filtered_set
  BY <1>1, ListingExact
<1>3. DOMAIN s = 1 .. Len(s) /\ Len(s) \in Nat /\ \A i \in DOMAIN s : s[i] \in EdgeData
  BY <1>2, SeqElements
<1> DEFINE first == {i \in DOMAIN s : \A j \in 1 .. i - 1 : ~ SameKey(s[j], s[i])}
<1>4. Rebuilt(x) = {s[i] : i \in first}
  BY <1>1 DEF Rebuilt, Listing
<1>5. \A e : e \in Rebuilt(x) <=> \E i \in first : e = s[i]
  BY <1>4
<1>6. \A i : i \in first <=> i \in DOMAIN s /\ \A j \in 1 .. i - 1 : ~ SameKey(s[j], s[i])
  OBVIOUS
<1> HIDE DEF first
<1>7. Rebuilt(x) \subseteq Range(s)
  BY <1>5, <1>6 DEF Range
<1>8. IsFiniteSet(Rebuilt(x))
  <2>1. IsFiniteSet(Range(s))
    BY <1>3, RangeFinite
  <2> QED
    BY <1>7, <2>1, FS_Subset
<1>9. ASSUME NEW e \in Rebuilt(x), NEW f \in Rebuilt(x), SameKey(e, f) PROVE e = f
  <2>1. PICK i \in first : e = s[i]
    BY <1>5
  <2>2. PICK j \in first : f = s[j]
    BY <1>5
  <2>3. i \in Nat /\ j \in Nat /\ i >= 1 /\ j >= 1
    BY <1>3, <1>6
  <2>4. ~ (i < j)
    <3> SUFFICES ASSUME i < j PROVE FALSE
      OBVIOUS
    <3>1. i \in 1 .. j - 1
      BY <2>3
    <3> QED
      BY <1>6, <1>9, <2>1, <2>2, <3>1
  <2>5. ~ (j < i)
    <3> SUFFICES ASSUME j < i PROVE FALSE
      OBVIOUS
    <3>1. j \in 1 .. i - 1
      BY <2>3
    <3>2. SameKey(f, e)
      BY <1>9 DEF SameKey
    <3> QED
      BY <1>6, <2>1, <2>2, <3>1, <3>2
  <2>6. i = j
    BY <2>3, <2>4, <2>5
  <2> QED
    BY <2>1, <2>2, <2>6
<1>10. ASSUME NEW e, Readable(e), e.from = x, e.to \in filtered_set
       PROVE  \E f \in Rebuilt(x) : SameKey(f, e)
  <2> DEFINE alike == {i \in DOMAIN s : SameKey(s[i], e)}
  <2>1. PICK k \in DOMAIN s : s[k] = e
    BY <1>2, <1>10 DEF Range
  <2>2. k \in alike
    BY <2>1 DEF SameKey
  <2>3. alike \subseteq Nat /\ alike # {}
    BY <1>3, <2>2
  <2>4. PICK i \in alike : \A j \in alike : i <= j
    <3> HIDE DEF alike
    <3> QED
      BY <2>3, LeastNatural
  <2>5. i \in DOMAIN s /\ SameKey(s[i], e) /\ i \in Nat /\ i <= Len(s)
    BY <1>3, <2>4
  <2>6. ASSUME NEW j \in 1 .. i - 1, SameKey(s[j], s[i]) PROVE FALSE
    <3>1. j \in DOMAIN s /\ ~ (i <= j)
      BY <1>3, <2>5
    <3>2. SameKey(s[j], e)
      BY <2>5, <2>6 DEF SameKey
    <3>3. j \in alike
      BY <3>1, <3>2
    <3> HIDE DEF alike
    <3> QED
      BY <2>4, <3>1, <3>3
  <2>7. i \in first
    BY <1>6, <2>5, <2>6
  <2> QED
    BY <1>5, <2>5, <2>7
<1> QED
  BY <1>2, <1>7, <1>8, <1>9, <1>10

RebuiltEdges == UNION {Rebuilt(x) : x \in filtered_set}

(* hit_count counts the beams that returned a node.                        *)
LEMMA HitCountType ==
  ASSUME BeamsInv, NEW x
  PROVE  /\ hit_count(x) \in Nat
         /\ hit_count(x) > 0 <=> \E i \in DOMAIN beams : x \in beams[i].results
<1> DEFINE H == {i \in DOMAIN beams : x \in beams[i].results}
<1>1. IsFiniteSet(DOMAIN beams)
  <2>1. CASE DOMAIN beams = {}
    BY <2>1, FS_EmptySet
  <2>2. CASE DOMAIN beams # {}
    <3>1. call.op \in {"beam_traverse", "multi_beam_intersection"}
      BY <2>2 DEF BeamsInv
    <3>2. DOMAIN beams \subseteq DOMAIN call.start_nodes /\ WellFormed
      BY DEF BeamsInv
    <3>3. IsFiniteSet(DOMAIN call.start_nodes)
      BY <3>1, <3>2, StartNodes
    <3> QED
      BY <3>2, <3>3, FS_Subset
  <2> QED
    BY <2>1, <2>2
<1>2. IsFiniteSet(H)
  BY <1>1, FS_Subset
<1>3. hit_count(x) = Cardinality(H)
  BY DEF hit_count
<1>4. H # {} <=> \E i \in DOMAIN beams : x \in beams[i].results
  OBVIOUS
<1> HIDE DEF H
<1>5. Cardinality(H) \in Nat /\ (Cardinality(H) = 0 <=> H = {})
  BY <1>2, FS_EmptySet, FS_CardinalityType
<1>6. Cardinality(H) > 0 <=> H # {}
  BY <1>5
<1> QED
  BY <1>3, <1>4, <1>5, <1>6

(* filtered_set: the starts, and what enough beams returned.               *)
LEMMA FilteredExact ==
  ASSUME BeamsInv, call.op = "multi_beam_intersection"
  PROVE  /\ filtered_set \subseteq Names
         /\ \A x : x \in filtered_set <=>
              \/ x \in Range(call.start_nodes)
              \/ hit_count(x) > 0 /\ hit_count(x) >= call.threshold
         /\ \A x \in filtered_set : IsNode(x) \/ x \in Range(call.start_nodes)
<1>1. /\ \A i \in DOMAIN beams : BeamOk(beams[i], call.start_nodes[i])
      /\ WellFormed
  BY DEF BeamsInv
<1>2. \A i \in DOMAIN beams : /\ beams[i].results \subseteq Names
                              /\ \A x \in beams[i].results : IsNode(x)
  BY <1>1 DEF BeamOk, BeamData
<1>3. Range(call.start_nodes) \subseteq Names
  BY <1>1, StartNodes DEF Range
<1> DEFINE U == UNION {beams[i].results : i \in DOMAIN beams}
<1>4. \A x : x \in U <=> \E i \in DOMAIN beams : x \in beams[i].results
  OBVIOUS
<1>5. \A x : x \in filtered_set <=>
               x \in Range(call.start_nodes) \/ (x \in U /\ hit_count(x) >= call.threshold)
  BY DEF filtered_set
<1> HIDE DEF U
<1>6. \A x : x \in U <=> hit_count(x) > 0
  BY <1>4, HitCountType
<1> QED
  BY <1>2, <1>3, <1>4, <1>5, <1>6

(* The edges rebuilt: one for each key between filtered nodes.             *)
LEMMA RebuiltEdgesFacts ==
  ASSUME BeamsInv, call.op = "multi_beam_intersection"
  PROVE  /\ IsFiniteSet(RebuiltEdges) /\ RebuiltEdges \subseteq EdgeData
         /\ \A e \in RebuiltEdges : Readable(e) /\ e.from \in filtered_set /\ e.to \in filtered_set
         /\ \A e, f \in RebuiltEdges : SameKey(e, f) => e = f
         /\ \A e : Readable(e) /\ e.from \in filtered_set /\ e.to \in filtered_set =>
              \E f \in RebuiltEdges : SameKey(f, e)
<1>1. filtered_set \subseteq Names /\ WellFormed
  BY FilteredExact DEF BeamsInv
<1>2. PICK F : F = filtered_set
  OBVIOUS
<1>3. \A x \in F :
        /\ IsFiniteSet(Rebuilt(x))
        /\ \A e \in Rebuilt(x) : Readable(e) /\ e.from = x /\ e.to \in F
        /\ \A e, f \in Rebuilt(x) : SameKey(e, f) => e = f
        /\ \A e : Readable(e) /\ e.from = x /\ e.to \in F => \E f \in Rebuilt(x) : SameKey(f, e)
  BY <1>1, <1>2, RebuiltFacts
<1>4. \A e : e \in RebuiltEdges <=> \E x \in F : e \in Rebuilt(x)
  BY <1>2 DEF RebuiltEdges
<1>5. IsFiniteSet(RebuiltEdges)
  <2> DEFINE f == [x \in F |-> Rebuilt(x)]
  <2>1. IsFiniteSet(F)
    BY <1>1, <1>2, NamesFinite, FS_Subset
  <2>2. DOMAIN f = F /\ \A x \in F : f[x] = Rebuilt(x)
    OBVIOUS
  <2> HIDE DEF f
  <2>3. PICK T : T = {f[x] : x \in F}
    OBVIOUS
  <2>4. IsFiniteSet(T)
    BY <2>1, <2>2, <2>3, ImageFinite
  <2>5. \A t \in T : IsFiniteSet(t)
    BY <1>3, <2>2, <2>3
  <2>6. IsFiniteSet(UNION T)
    BY <2>4, <2>5, FS_UNION
  <2>7. UNION T = RebuiltEdges
    BY <1>4, <2>2, <2>3
  <2> QED
    BY <2>6, <2>7
<1>6. \A e \in RebuiltEdges : Readable(e) /\ e.from \in F /\ e.to \in F
  BY <1>3, <1>4
<1>7. RebuiltEdges \subseteq EdgeData
  BY <1>6 DEF Readable
<1>8. ASSUME NEW e \in RebuiltEdges, NEW f \in RebuiltEdges, SameKey(e, f) PROVE e = f
  <2>1. PICK x \in F : e \in Rebuilt(x)
    BY <1>4
  <2>2. PICK y \in F : f \in Rebuilt(y)
    BY <1>4
  <2>3. x = y
    BY <1>3, <1>8, <2>1, <2>2 DEF SameKey
  <2> QED
    BY <1>3, <1>8, <2>1, <2>2, <2>3
<1>9. ASSUME NEW e, Readable(e), e.from \in F, e.to \in F
      PROVE  \E f \in RebuiltEdges : SameKey(f, e)
  <2>1. PICK f \in Rebuilt(e.from) : SameKey(f, e)
    BY <1>3, <1>9
  <2> QED
    BY <1>4, <1>9, <2>1
<1> QED
  BY <1>2, <1>5, <1>6, <1>7, <1>8, <1>9

HeatOf(a) ==
  LET found  == Range(a.nodes)
      starts == Range(call.start_nodes)
      kept   == Range(a.edges)
  IN /\ IsInjective(a.nodes) /\ found \subseteq Names
     /\ \A x \in Names :
          x \in found <=>
            IsNode(x) /\ (x \in starts \/ (hit_count(x) > 0 /\ hit_count(x) >= call.threshold))
     /\ \A e \in kept : /\ Readable(e)
                        /\ {e.from, e.to} \subseteq found \cup {x \in starts : ~ IsNode(x)}
     /\ \A e \in EdgeData :
          Readable(e) /\ {e.from, e.to} \subseteq found =>
            Cardinality({i \in DOMAIN a.edges : SameKey(a.edges[i], e)}) = 1

HeatInv ==
  BeamsInv /\ (pc = "done" /\ call.op = "multi_beam_intersection" => HeatOf(answer))

(* A listing whose elements differ in their keys has each key once.        *)
LEMMA ListedKey ==
  ASSUME NEW S, IsFiniteSet(S), NEW R, StrictOrder(R, S), NEW f, Lists(f, S, R),
         \A x, y \in S : SameKey(x, y) => x = y, NEW e, NEW x \in S, SameKey(x, e)
  PROVE  Cardinality({i \in DOMAIN f : SameKey(f[i], e)}) = 1
<1>1. /\ DOMAIN f = 1 .. Cardinality(S) /\ Range(f) = S
      /\ \A i, j \in DOMAIN f : f[i] = f[j] => i = j
  BY ListingFacts
<1>2. PICK k \in DOMAIN f : f[k] = x
  BY <1>1 DEF Range
<1>3. \A i \in DOMAIN f : f[i] \in S
  BY <1>1 DEF Range
<1>4. ASSUME NEW i \in DOMAIN f, SameKey(f[i], e) PROVE i = k
  <2>1. SameKey(f[i], x)
    BY <1>4 DEF SameKey
  <2>2. f[i] = f[k]
    BY <1>2, <1>3, <2>1
  <2> QED
    BY <1>1, <2>2
<1>5. {i \in DOMAIN f : SameKey(f[i], e)} = {k}
  BY <1>2, <1>4
<1> QED
  BY <1>5, FS_Singleton

(* What the intersection returns is the heatmap of its beams.              *)
LEMMA IntersectionReturnsOk ==
  ASSUME BeamsInv, call.op = "multi_beam_intersection",
         NEW a, a = [nodes |-> InOrder({x \in filtered_set : IsNode(x)}, Hotter),
                     edges |-> InOrder(UNION {Rebuilt(x) : x \in filtered_set}, KeyBefore)]
  PROVE  HeatOf(a)
<1>1. WellFormed
  BY DEF BeamsInv
<1>2. PICK F : F = filtered_set
  OBVIOUS
<1>3. PICK S : S = {x \in F : IsNode(x)}
  OBVIOUS
<1>4. PICK U : U = RebuiltEdges
  OBVIOUS
<1>5. a.nodes = InOrder(S, Hotter) /\ a.edges = InOrder(U, KeyBefore)
  BY <1>2, <1>3, <1>4 DEF RebuiltEdges
<1>6. /\ F \subseteq Names
      /\ \A x : x \in F <=> \/ x \in Range(call.start_nodes)
                            \/ hit_count(x) > 0 /\ hit_count(x) >= call.threshold
      /\ \A x \in F : IsNode(x) \/ x \in Range(call.start_nodes)
  BY <1>2, FilteredExact
<1>7. /\ S \subseteq Names /\ \A x \in S : IsNode(x)
  BY <1>3, <1>6
<1>8. \A x \in S : hit_count(x) \in Nat
  BY HitCountType
<1>9. IsInjective(a.nodes) /\ Range(a.nodes) = S
  <2>1. /\ IsFiniteSet(S) /\ StrictOrder(HotterOrder, S)
        /\ Lists(InOrder(S, Hotter), S, HotterOrder)
    BY <1>1, <1>7, <1>8, HotterInOrder
  <2>2. PICK f : f = InOrder(S, Hotter)
    OBVIOUS
  <2> QED
    BY <1>5, <2>1, <2>2, ListedOnce
<1>10. /\ IsFiniteSet(U) /\ U \subseteq EdgeData
       /\ \A e \in U : Readable(e) /\ e.from \in F /\ e.to \in F
       /\ \A e, f \in U : SameKey(e, f) => e = f
       /\ \A e : Readable(e) /\ e.from \in F /\ e.to \in F => \E f \in U : SameKey(f, e)
  BY <1>2, <1>4, RebuiltEdgesFacts
<1>11. PICK g : g = InOrder(U, KeyBefore)
  OBVIOUS
<1>12. StrictOrder(KeyOrder, U) /\ Lists(g, U, KeyOrder)
  BY <1>1, <1>10, <1>11, KeyInOrder
<1>13. Range(a.edges) = U
  BY <1>5, <1>10, <1>11, <1>12, ListedOnce
<1>14. \A x \in Names :
         x \in S <=>
           IsNode(x) /\ (x \in Range(call.start_nodes)
                           \/ (hit_count(x) > 0 /\ hit_count(x) >= call.threshold))
  BY <1>3, <1>6
<1>15. \A e \in U : /\ Readable(e)
                    /\ {e.from, e.to} \subseteq S \cup {x \in Range(call.start_nodes) : ~ IsNode(x)}
  BY <1>3, <1>6, <1>10
<1>16. ASSUME NEW e \in EdgeData, Readable(e), {e.from, e.to} \subseteq S
       PROVE  Cardinality({i \in DOMAIN a.edges : SameKey(a.edges[i], e)}) = 1
  <2>1. e.from \in F /\ e.to \in F
    BY <1>3, <1>16
  <2>2. PICK f \in U : SameKey(f, e)
    BY <1>10, <1>16, <2>1
  <2>3. Cardinality({i \in DOMAIN g : SameKey(g[i], e)}) = 1
    BY <1>10, <1>12, <2>2, ListedKey
  <2> QED
    BY <1>5, <1>11, <2>3
<1> QED
  BY <1>7, <1>9, <1>13, <1>14, <1>15, <1>16 DEF HeatOf

(* It stays so while graph, context, call and beams are the same.          *)
LEMMA HeatOfKept ==
  ASSUME UNCHANGED <<graph, ctx, call, beams>>, NEW a, HeatOf(a)
  PROVE  HeatOf(a)'
<1>1. /\ \A x : IsNode(x)' <=> IsNode(x)
      /\ \A x : hit_count(x)' = hit_count(x)
      /\ \A e : Readable(e)' <=> Readable(e)
  BY DEF IsNode, hit_count, Readable, Base, Injected
<1> QED
  BY <1>1 DEF HeatOf

(* Every step keeps that the answer is the heatmap of the beams.           *)
LEMMA HeatStep == HeatInv /\ [Next]_vars => HeatInv'
<1> SUFFICES ASSUME HeatInv, [Next]_vars PROVE HeatInv'
  OBVIOUS
<1>1. BeamsInv /\ BeamsInv' /\ OwnWay
  BY BeamsStep DEF HeatInv, BeamsInv
<1>2. CASE UNCHANGED vars
  <2>1. UNCHANGED <<graph, ctx, call, beams, pc, answer>>
    BY <1>2 DEF vars
  <2>2. ASSUME pc' = "done", call'.op = "multi_beam_intersection" PROVE HeatOf(answer)'
    <3>1. PICK a : a = answer
      OBVIOUS
    <3>2. HeatOf(a)
      BY <2>1, <2>2, <3>1 DEF HeatInv
    <3>3. HeatOf(a)'
      BY <2>1, <3>2, HeatOfKept
    <3> QED
      BY <2>1, <3>1, <3>3
  <2> QED
    BY <1>1, <2>2 DEF HeatInv
<1>3. CASE IntersectionReturns
  <2>1. PICK a : a = [nodes |-> InOrder({x \in filtered_set : IsNode(x)}, Hotter),
                      edges |-> InOrder(UNION {Rebuilt(x) : x \in filtered_set}, KeyBefore)]
    OBVIOUS
  <2>2. UNCHANGED <<graph, ctx, call, beams>> /\ answer' = a /\ call.op = "multi_beam_intersection"
    BY <1>3, <2>1 DEF IntersectionReturns, Return
  <2>3. HeatOf(a)
    BY <1>1, <2>1, <2>2, IntersectionReturnsOk
  <2>4. HeatOf(a)'
    BY <2>2, <2>3, HeatOfKept
  <2> QED
    BY <1>1, <2>2, <2>4 DEF HeatInv
<1>4. CASE BeginPath \/ Pop \/ Relax \/ NoPath
  <2>1. call'.op = "find_path"
    BY <1>1, <1>4 DEF BeginPath, Pop, Relax, NoPath, OwnWay
  <2> QED
    BY <1>1, <2>1 DEF HeatInv
<1>5. CASE BeginBeams \/ (\E i \in DOMAIN beams : BeamLevel(i)) \/ BeginSubgraph \/ Seed
           \/ (\E mode \in {"Owned", "Mmap"} : Compact(mode))
  <2>1. pc' # "done"
    BY <1>5 DEF BeginBeams, BeamLevel, BeginSubgraph, Seed, Compact
  <2> QED
    BY <1>1, <2>1 DEF HeatInv
<1>6. CASE BeamReturns \/ SubgraphReturns
  <2>1. call'.op # "multi_beam_intersection"
    BY <1>1, <1>6 DEF BeamReturns, SubgraphReturns, OwnWay
  <2> QED
    BY <1>1, <2>1 DEF HeatInv
<1> QED
  BY <1>2, <1>3, <1>4, <1>5, <1>6 DEF Next

(* The answer of the intersection is the heatmap of its beams in every     *)
(* reachable state.                                                        *)
THEOREM HeatInvariant == Spec => []HeatInv
<1>1. Init => HeatInv
  BY BeamsInit DEF HeatInv, Init
<1>2. HeatInv /\ [Next]_vars => HeatInv'
  BY HeatStep
<1> QED
  BY <1>1, <1>2, PTL DEF Spec

(* HeatmapExact: for any starts, width, depth and threshold,               *)
(* multi_beam_intersection returns the starts and what enough beams        *)
(* reached, each node once, and every visible edge between them once for   *)
(* its key (traversal.rs multi_beam_intersection, with its seen_edges and  *)
(* the reread of the overlay edges).                                       *)
THEOREM HeatmapIsExact == Spec => []HeatmapExact
<1>1. HeatInv => HeatmapExact
  <2> SUFFICES ASSUME HeatInv, pc = "done", call.op = "multi_beam_intersection"
               PROVE  HeatmapExact
    BY DEF HeatmapExact
  <2>1. HeatOf(answer) /\ WellFormed
    BY DEF HeatInv, BeamsInv
  <2> DEFINE found   == Range(answer.nodes)
             starts  == Range(call.start_nodes)
             kept    == Range(answer.edges)
             Hits(x) == Cardinality({i \in DOMAIN beams : x \in beams[i].results})
  <2>2. \A x : Hits(x) = hit_count(x)
    BY DEF hit_count
  <2> HIDE DEF Hits
  <2>3. IsInjective(answer.nodes)
    BY <2>1 DEF HeatOf
  <2>4. \A x \in Names :
          x \in found <=> IsNode(x) /\ (x \in starts \/ (Hits(x) > 0 /\ Hits(x) >= call.threshold))
    BY <2>1, <2>2 DEF HeatOf
  <2>5. \A e \in kept : {e.from, e.to} \subseteq found \cup {x \in starts : ~ IsNode(x)}
    BY <2>1 DEF HeatOf
  <2>6. ASSUME NEW e \in (UNION {Base(x) : x \in found}) \cup Injected,
               is_edge_visible(ctx, e), {e.from, e.to} \subseteq found
        PROVE  Cardinality({i \in DOMAIN answer.edges : SameKey(answer.edges[i], e)}) = 1
    <3>1. found \subseteq Names
      BY <2>1 DEF HeatOf
    <3>2. e \in EdgeData /\ e \in Base(e.from) \cup Injected
      <4>1. CASE e \in Injected
        <5>1. Injected \subseteq EdgeData
          BY <2>1 DEF WellFormed, IsContext, Injected, Range
        <5> QED
          BY <4>1, <5>1
      <4>2. CASE e \notin Injected
        <5>1. PICK x \in found : e \in Base(x)
          BY <2>6, <4>2
        <5>2. x \in Names
          BY <3>1, <5>1
        <5>3. Base(x) \subseteq EdgeData /\ \A f \in Base(x) : f.from = x
          BY <2>1, <5>2, BaseEdges
        <5>4. e.from = x /\ e \in EdgeData
          BY <5>1, <5>3
        <5> QED
          BY <5>1, <5>4
      <4> QED
        BY <4>1, <4>2
    <3> QED
      BY <2>1, <2>6, <3>2 DEF HeatOf, Readable
  <2> QED
    BY <2>3, <2>4, <2>5, <2>6 DEF HeatmapExact, Hits
<1> QED
  BY <1>1, HeatInvariant, PTL

(***************************************************************************)
(* Every edge walked or returned is one the request may see.               *)
(***************************************************************************)
Walked ==
  /\ \A x \in DOMAIN parent : parent[x].edge \in Followed
  /\ edges \in Seq(EdgeData) /\ \A e \in Range(edges) : e \in Followed
  /\ pc # "done" => answer = NoAnswer
  /\ pc = "done" /\ call.op = "beam_traverse" => answer.edges = << >>

(* Every step walks only edges the request may follow.                     *)
LEMMA WalkedStep == CheapestInv /\ SeedsInv /\ Walked /\ [Next]_vars => Walked'
<1> SUFFICES ASSUME CheapestInv, SeedsInv, Walked, [Next]_vars PROVE Walked'
  OBVIOUS
<1>1. WellFormed /\ OwnWay
  BY DEF SeedsInv
<1>2. Followed' = Followed /\ call' = call
  BY <1>1, ViewKept
<1>3. CASE UNCHANGED vars
  <2>1. UNCHANGED <<parent, edges, pc, answer>>
    BY <1>3 DEF vars, search, sub
  <2> QED
    BY <1>2, <2>1 DEF Walked
<1>4. CASE BeginPath
  <2>1. /\ parent' = parent \/ DOMAIN parent' = {}
        /\ UNCHANGED edges /\ call.op = "find_path"
        /\ pc' # "done" => answer' = answer /\ pc # "done"
    BY <1>4 DEF BeginPath, Empty, search, sub, Return
  <2> QED
    BY <1>2, <2>1 DEF Walked
<1>5. CASE Pop \/ NoPath
  <2>1. /\ UNCHANGED <<parent, edges>> /\ pc = "search"
        /\ pc' # "done" => answer' = answer
    BY <1>5 DEF Pop, NoPath, search, sub, Return
  <2>2. call.op = "find_path"
    BY <1>1, <2>1 DEF OwnWay
  <2> QED
    BY <1>2, <2>1, <2>2 DEF Walked
<1>6. CASE Relax
  <2>1. /\ pc = "search" /\ todo # << >> /\ UNCHANGED <<edges, answer, pc>>
    BY <1>6 DEF Relax, sub
  <2>2. todo \in Seq(EdgeData) /\ \A e \in Range(todo) : e \in Followed
    BY <2>1 DEF CheapestInv, PathInv, Linked
  <2>3. PICK e : e = Head(todo)
    OBVIOUS
  <2>4. e \in Followed
    BY <2>1, <2>2, <2>3, HeadTail
  <2>5. parent' = parent \/ parent' = With(parent, e.to, [from |-> at.node, edge |-> e])
    BY <1>6, <2>3 DEF Relax
  <2>6. \A x \in DOMAIN parent' : parent'[x].edge \in Followed
    <3>1. CASE parent' = parent
      BY <3>1 DEF Walked
    <3>2. CASE parent' = With(parent, e.to, [from |-> at.node, edge |-> e])
      <4>1. PICK v : v = [from |-> at.node, edge |-> e]
        OBVIOUS
      <4>2. v.edge = e
        BY <4>1
      <4>3. parent' = [y \in DOMAIN parent \cup {e.to} |-> IF y = e.to THEN v ELSE parent[y]]
        BY <3>2, <4>1 DEF With
      <4> QED
        BY <2>4, <4>2, <4>3 DEF Walked
    <3> QED
      BY <2>5, <3>1, <3>2
  <2> QED
    BY <1>2, <2>1, <2>6 DEF Walked
<1>7. CASE BeginBeams \/ (\E i \in DOMAIN beams : BeamLevel(i))
  <2>1. UNCHANGED <<parent, edges, answer>> /\ pc # "done" /\ pc' # "done"
    BY <1>7 DEF BeginBeams, BeamLevel, search, sub
  <2> QED
    BY <1>2, <2>1 DEF Walked
<1>8. CASE BeamReturns \/ IntersectionReturns \/ SubgraphReturns
  <2>1. /\ UNCHANGED <<parent, edges>> /\ pc' = "done"
        /\ call.op = "beam_traverse" => answer'.edges = << >>
    BY <1>1, <1>8 DEF BeamReturns, IntersectionReturns, SubgraphReturns, search, sub, Return, OwnWay
  <2> QED
    BY <1>2, <2>1 DEF Walked
<1>9. CASE BeginSubgraph
  <2>1. UNCHANGED <<parent, answer>> /\ edges' = << >> /\ pc # "done" /\ pc' # "done"
    BY <1>9 DEF BeginSubgraph, search
  <2>2. Range(edges') = {} /\ edges' \in Seq(EdgeData)
    BY <2>1 DEF Range
  <2> QED
    BY <1>2, <2>1, <2>2 DEF Walked
<1>10. CASE Seed
  <2>1. UNCHANGED <<parent, answer>> /\ pc = "seeds" /\ pc' = pc
    BY <1>10 DEF Seed, search
  <2>2. PICK x : x = Head(seeds)
    OBVIOUS
  <2>3. edges' = edges \/ edges' = edges \o Neighbors(x)
    BY <1>10, <2>2 DEF Seed
  <2>4. x \in Names
    <3>1. seeds \in Seq(Names) /\ seeds # << >>
      BY <1>10, <2>1 DEF SeedsInv, Seed
    <3> QED
      BY <2>2, <3>1
  <2>5. /\ Neighbors(x) \in Seq(EdgeData)
        /\ \A e \in Range(Neighbors(x)) : e \in Followed
    BY <1>1, <2>4, NeighborsExact
  <2>6. PICK s, t \in Seq(EdgeData) : s = edges /\ t = Neighbors(x)
    BY <2>5 DEF Walked
  <2>7. s \o t \in Seq(EdgeData) /\ \A e : e \in Range(s \o t) <=> e \in Range(s) \/ e \in Range(t)
    BY RangeConcat
  <2>8. edges' \in Seq(EdgeData) /\ \A e \in Range(edges') : e \in Followed
    BY <2>3, <2>5, <2>6, <2>7 DEF Walked
  <2> QED
    BY <1>2, <2>1, <2>8 DEF Walked
<1>11. CASE \E mode \in {"Owned", "Mmap"} : Compact(mode)
  <2>1. UNCHANGED <<parent, edges>> /\ pc' # "done" /\ answer' = NoAnswer
    BY <1>11 DEF Compact, search, sub
  <2> QED
    BY <1>2, <2>1 DEF Walked
<1> QED
  BY <1>3, <1>4, <1>5, <1>6, <1>7, <1>8, <1>9, <1>10, <1>11 DEF Next

(* So every answer has only allowed edges.                                 *)
LEMMA WalkedAllowed == CheapestInv /\ SeedsInv /\ HeatInv /\ Walked => OnlyAllowedEdges
<1> SUFFICES ASSUME CheapestInv, SeedsInv, HeatInv, Walked PROVE OnlyAllowedEdges
  OBVIOUS
<1>1. WellFormed
  BY DEF SeedsInv
<1>2. \A e \in Followed : MayFollow(e)
  BY <1>1, FollowedType
<1>3. \A e \in Range(edges) \cup {parent[x].edge : x \in DOMAIN parent} : MayFollow(e)
  BY <1>2 DEF Walked
<1>4. ASSUME NEW e \in Range(answer.edges)
      PROVE  IF call.op = "multi_beam_intersection"
             THEN is_edge_visible(ctx, e) /\ e \in Base(e.from) \cup Injected
             ELSE MayFollow(e)
  <2>1. CASE pc # "done"
    <3>1. Range(answer.edges) = {}
      BY <2>1, NoAnswerTypes DEF Walked
    <3> QED
      BY <1>4, <3>1
  <2>2. CASE pc = "done" /\ call.op = "find_path"
    <3>1. e \in Followed
      BY <1>4, <2>2 DEF CheapestInv, FoundPath, PathAnswer
    <3> QED
      BY <1>2, <2>2, <3>1
  <2>3. CASE pc = "done" /\ call.op = "contextual_subgraph"
    <3>1. e \in Followed
      BY <1>4, <2>3 DEF SeedsInv, SubgraphOf
    <3> QED
      BY <1>2, <2>3, <3>1
  <2>4. CASE pc = "done" /\ call.op = "multi_beam_intersection"
    <3>1. Readable(e)
      BY <1>4, <2>4 DEF HeatInv, HeatOf
    <3> QED
      BY <2>4, <3>1 DEF Readable
  <2>5. CASE pc = "done" /\ call.op = "beam_traverse"
    <3>1. answer.edges = << >>
      BY <2>5 DEF Walked
    <3>2. Range(answer.edges) = {}
      BY <3>1 DEF Range
    <3> QED
      BY <1>4, <3>2
  <2> QED
    BY <1>1, <2>1, <2>2, <2>3, <2>4, <2>5, CallTypes
<1> QED
  BY <1>3, <1>4 DEF OnlyAllowedEdges

(* OnlyAllowedEdges: no operation, on any graph and for any context,       *)
(* returns or steps along an edge the context hides, and none but the      *)
(* heatmap one that the fan-out cut-off removes (overlay.rs                *)
(* neighbors_with_overlay_indexed and the second read in traversal.rs      *)
(* multi_beam_intersection).                                               *)
THEOREM OnlyAllowedEdgesUsed == Spec => []OnlyAllowedEdges
<1>1. Init => Walked
  BY DEF Init, Walked, Empty, Range
<1>2. CheapestInv /\ SeedsInv /\ Walked /\ [Next]_vars => Walked'
  BY WalkedStep
<1>3. CheapestInv /\ SeedsInv /\ HeatInv /\ Walked => OnlyAllowedEdges
  BY WalkedAllowed
<1> QED
  BY <1>1, <1>2, <1>3, CheapestInvariant, SeedsInvariant, HeatInvariant, PTL DEF Spec

(***************************************************************************)
(* A compaction does not change an answer.  What a request sees of a graph *)
(* is a value, View: the edges it may follow, the nodes, their weights,    *)
(* how often a listing names a key.  No step changes that value, and each  *)
(* answer is determined by it: beam by beam, seed by seed.                 *)
(***************************************************************************)
Triples    == Names \X Names \X Kinds
WithKey(t) == {e \in EdgeData : e.from = t[1] /\ e.to = t[2] /\ e.kind = t[3]}

SeedList == Take(InOrder(DOMAIN ctx.semantic_boosts, MoreBoosted), call.k)

View ==
  [call     |-> call,
   followed |-> Followed,
   is_node  |-> {x \in Names : IsNode(x)},
   weight   |-> [x \in Names |-> W_total(x)],
   better   |-> BetterOrder,
   counts   |-> [t \in Triples |-> Occurs(Neighbors(t[1]), WithKey(t))],
   readable |-> {e \in EdgeData : Readable(e)},
   seeds    |-> IF call.op = "contextual_subgraph" THEN SeedList ELSE << >>]

(* A compaction lists the same neighbors, as often.                        *)
LEMMA CompactKeepsCounts ==
  ASSUME WellFormed, NEW mode, Compact(mode), NEW x \in Names, NEW T
  PROVE  Occurs(Neighbors(x), T)' = Occurs(Neighbors(x), T)
<1> DEFINE S == {e \in EdgeData : is_edge_visible(ctx, e)}
           own == edges_from(ctx, x)
           b == BaseNeighbors(graph, ctx, x)
           c == BaseNeighbors(graph', ctx, x)
<1>1. /\ graph.outgoing[x] \in Seq(EdgeData) /\ own \in Seq(EdgeData)
  BY BaseEdges, OverlayEdges
<1>2. /\ ctx' = ctx /\ graph'.get_node = graph.get_node
      /\ graph'.outgoing[x] = Relisted(mode, graph.outgoing[x])
  BY DEF Compact
<1>3. /\ graph'.outgoing[x] \in Seq(EdgeData)
      /\ Len(graph'.outgoing[x]) = Len(graph.outgoing[x])
      /\ \A U : Occurs(graph'.outgoing[x], U) = Occurs(graph.outgoing[x], U)
  BY <1>1, <1>2, RelistedFacts
<1>4. CutOff(graph', ctx, x) <=> CutOff(graph, ctx, x)
  BY <1>2, <1>3 DEF CutOff
<1>5. /\ b \in Seq(EdgeData) /\ c \in Seq(EdgeData)
      /\ \A U : Occurs(c, U) = Occurs(b, U)
  BY <1>1, <1>2, <1>3, <1>4 DEF BaseNeighbors
<1>6. Neighbors(x) = Pick(b \o own, S) /\ Neighbors(x)' = Pick(c \o own, S)
  BY <1>2 DEF Neighbors, neighbors_with_overlay
<1> HIDE DEF b, c, own, S
<1>7. b \o own \in Seq(EdgeData) /\ c \o own \in Seq(EdgeData)
  BY <1>1, <1>5
<1>8. /\ Occurs(Pick(b \o own, S), T) = Occurs(b \o own, S \cap T)
      /\ Occurs(Pick(c \o own, S), T) = Occurs(c \o own, S \cap T)
  <2>1. ASSUME NEW s \in Seq(EdgeData) PROVE Occurs(Pick(s, S), T) = Occurs(s, S \cap T)
    BY OccursPick
  <2> QED
    BY <1>7, <2>1, Zenon
<1>9. Occurs(b \o own, S \cap T) = Occurs(c \o own, S \cap T)
  <2>1. Occurs(b \o own, S \cap T) = Occurs(b, S \cap T) + Occurs(own, S \cap T)
    BY <1>1, <1>5, OccursConcat
  <2>2. Occurs(c \o own, S \cap T) = Occurs(c, S \cap T) + Occurs(own, S \cap T)
    BY <1>1, <1>5, OccursConcat
  <2> QED
    BY <1>5, <2>1, <2>2
<1>10. Occurs(Neighbors(x), T)' = Occurs(Neighbors(x)', T)
  BY DEF Occurs, Places
<1> QED
  BY <1>6, <1>8, <1>9, <1>10

(* Nor does any other step change what the request sees.                   *)
LEMMA ViewFixed ==
  ASSUME WellFormed, [Next]_vars
  PROVE  View' = View
<1>1. /\ Followed' = Followed /\ call' = call
      /\ \A x : W_total(x)' = W_total(x)
      /\ \A x : IsNode(x)' <=> IsNode(x)
  BY ViewKept
<1>2. ctx' = ctx
  BY ViewStep DEF Compact
<1>3. \A T : \A x \in Names : Occurs(Neighbors(x), T)' = Occurs(Neighbors(x), T)
  <2>1. CASE UNCHANGED <<graph, ctx, call>>
    BY <2>1, SameView DEF Occurs, Places
  <2> QED
    BY <2>1, ViewStep, CompactKeepsCounts
<1>4. \A x \in Names : Base(x)' = Base(x) /\ Injected' = Injected
  <2>1. CASE UNCHANGED <<graph, ctx, call>>
    BY <2>1, SameView
  <2> QED
    BY <2>1, ViewStep, CompactKeepsView
<1>5. {x \in Names : IsNode(x)}' = {x \in Names : IsNode(x)}
  BY <1>1
<1>6. [x \in Names |-> W_total(x)]' = [x \in Names |-> W_total(x)]
  BY <1>1
<1>7. BetterOrder' = BetterOrder
  BY <1>1 DEF BetterOrder, Better
<1>8. [t \in Triples |-> Occurs(Neighbors(t[1]), WithKey(t))]'
        = [t \in Triples |-> Occurs(Neighbors(t[1]), WithKey(t))]
  BY <1>3 DEF Triples, WithKey
<1>9. {e \in EdgeData : Readable(e)}' = {e \in EdgeData : Readable(e)}
  <2>1. \A e \in EdgeData : Readable(e)' <=> Readable(e)
    <3> SUFFICES ASSUME NEW e \in EdgeData PROVE Readable(e)' <=> Readable(e)
      OBVIOUS
    <3>1. e.from \in Names
      BY EdgeTypes
    <3>2. Base(e.from)' = Base(e.from)
      BY <1>4, <3>1
    <3> QED
      BY <1>2, <1>4, <3>1, <3>2 DEF Readable, is_edge_visible
  <2> QED
    BY <2>1
<1>10. SeedList' = SeedList
  BY <1>1, <1>2 DEF SeedList, MoreBoosted, InOrder, Take
<1> QED
  BY <1>1, <1>5, <1>6, <1>7, <1>8, <1>9, <1>10 DEF View

(* A beam, level by level, as the view determines it.                      *)
Fresh(v, b) ==
  {x \in v.is_node \ b.visited : \E e \in v.followed : e.from \in b.frontier /\ e.to = x}
Taken(v, b) == {x \in Fresh(v, b) : Rank(v.better, Fresh(v, b), x) < v.call.k}

Grown(v, b) ==
  [visited |-> b.visited \cup Taken(v, b), frontier |-> Taken(v, b),
   results |-> b.results \cup Taken(v, b), level |-> b.level + 1]

Done(v, b) == b.level = v.call.depth \/ b.frontier = {}

IsRun(v, run, n, start) ==
  /\ n \in Nat /\ run[0] = NewBeam(start)
  /\ \A i \in 1 .. n : ~ Done(v, run[i - 1]) /\ run[i] = Grown(v, run[i - 1])

HasRun(v, b, start) == \E n, run : IsRun(v, run, n, start) /\ b = run[n]
Ends(v, b, start)   == HasRun(v, b, start) /\ Done(v, b)

(* A level of a beam is that of the view.                                  *)
LEMMA LevelOfView ==
  ASSUME WellFormed, call.k \in Nat, NEW b \in BeamData
  PROVE  NextLevel(b) = Grown(View, b)
<1> DEFINE S == Candidates(b)
<1>1. S = Fresh(View, b)
  <2>1. \A x : x \in S <=> NextTo(x, b.frontier) /\ x \notin b.visited /\ IsNode(x)
    BY CandidatesExact
  <2>2. S \subseteq Names
    BY CandidatesExact
  <2>3. \A x : x \in Fresh(View, b) <=>
                 x \in Names /\ IsNode(x) /\ x \notin b.visited /\ NextTo(x, b.frontier)
    BY DEF Fresh, View, NextTo
  <2> HIDE DEF S
  <2> QED
    BY <2>1, <2>2, <2>3
<1>2. /\ IsFiniteSet(S) /\ StrictOrder(BetterOrder, S)
      /\ Lists(InOrder(S, Better), S, BetterOrder)
  <2>1. S \subseteq Names /\ \A x \in S : IsNode(x)
    BY CandidatesExact
  <2> HIDE DEF S
  <2> QED
    BY <2>1, BetterInOrder
<1>3. Best(b) = {x \in S : Rank(BetterOrder, S, x) < call.k}
  <2>1. Best(b) = Range(Take(InOrder(S, Better), call.k))
    BY DEF Best
  <2>2. PICK f : f = InOrder(S, Better)
    OBVIOUS
  <2> HIDE DEF S
  <2>3. Range(Take(f, call.k)) = {x \in S : Rank(BetterOrder, S, x) < call.k}
    BY <1>2, <2>2, TakeFacts
  <2> QED
    BY <2>1, <2>2, <2>3
<1>4. Best(b) = Taken(View, b)
  <2> HIDE DEF S
  <2>1. View.better = BetterOrder /\ View.call = call
    BY DEF View
  <2> QED
    BY <1>1, <1>3, <2>1 DEF Taken
<1>5. NextLevel(b) = [visited |-> b.visited \cup Best(b), frontier |-> Best(b),
                      results |-> b.results \cup Best(b), level |-> b.level + 1]
  BY DEF NextLevel, Best, Candidates
<1> QED
  BY <1>4, <1>5 DEF Grown

(* A beam that has grown another level is on its way still.                *)
LEMMA RunGrows ==
  ASSUME NEW v, NEW b, NEW start, HasRun(v, b, start), ~ Done(v, b)
  PROVE  HasRun(v, Grown(v, b), start)
<1>1. PICK n, run : IsRun(v, run, n, start) /\ b = run[n]
  BY DEF HasRun
<1> DEFINE c   == Grown(v, b)
           way == [i \in 0 .. n + 1 |-> IF i = n + 1 THEN c ELSE run[i]]
<1>2. /\ n \in Nat /\ run[0] = NewBeam(start)
      /\ \A i \in 1 .. n : ~ Done(v, run[i - 1]) /\ run[i] = Grown(v, run[i - 1])
  BY <1>1 DEF IsRun
<1>3. way[n + 1] = c /\ \A i \in 0 .. n : way[i] = run[i]
  BY <1>2
<1> HIDE DEF way, c
<1>4. ASSUME NEW i \in 1 .. n + 1
      PROVE  ~ Done(v, way[i - 1]) /\ way[i] = Grown(v, way[i - 1])
  <2>1. CASE i = n + 1
    <3>1. i - 1 = n /\ n \in 0 .. n
      BY <1>2, <2>1
    <3>2. way[i - 1] = b /\ way[i] = c
      BY <1>1, <1>3, <2>1, <3>1
    <3> QED
      BY <3>2 DEF c
  <2>2. CASE i # n + 1
    <3>1. i \in 1 .. n /\ i \in 0 .. n /\ i - 1 \in 0 .. n
      BY <1>2, <2>2
    <3>2. way[i] = run[i] /\ way[i - 1] = run[i - 1]
      BY <1>3, <3>1
    <3> QED
      BY <1>2, <3>1, <3>2
  <2> QED
    BY <2>1, <2>2
<1>5. way[0] = NewBeam(start) /\ n + 1 \in Nat
  BY <1>2, <1>3
<1>6. IsRun(v, way, n + 1, start)
  BY <1>4, <1>5 DEF IsRun
<1> QED
  BY <1>3, <1>6 DEF HasRun, c

(* A run of a beam that has ended is the beginning of no longer one.       *)
LEMMA RunsEndTogether ==
  ASSUME NEW v, NEW start, NEW n, NEW f, IsRun(v, f, n, start), Done(v, f[n]),
         NEW m, NEW g, IsRun(v, g, m, start), n <= m
  PROVE  n = m /\ f[n] = g[m]
<1>1. /\ n \in Nat /\ m \in Nat /\ f[0] = g[0]
      /\ \A i \in 1 .. n : f[i] = Grown(v, f[i - 1])
      /\ \A i \in 1 .. m : ~ Done(v, g[i - 1]) /\ g[i] = Grown(v, g[i - 1])
  BY DEF IsRun
<1>2. \A i \in 1 .. n : f[i - 1] = g[i - 1] => f[i] = g[i]
  <2> SUFFICES ASSUME NEW i \in 1 .. n, f[i - 1] = g[i - 1] PROVE f[i] = g[i]
    OBVIOUS
  <2>1. i \in 1 .. m
    BY <1>1
  <2> QED
    BY <1>1, <2>1
<1>3. \A i \in 0 .. n : f[i] = g[i]
  BY <1>1, <1>2, RunsAgree
<1>4. f[n] = g[n]
  BY <1>1, <1>3
<1>5. n = m
  <2> SUFFICES ASSUME n # m PROVE FALSE
    OBVIOUS
  <2>1. n + 1 \in 1 .. m /\ (n + 1) - 1 = n
    BY <1>1
  <2>2. ~ Done(v, g[n])
    BY <1>1, <2>1
  <2> QED
    BY <1>4, <2>2
<1> QED
  BY <1>4, <1>5

(* So a beam ends in one way.                                              *)
LEMMA BeamsAgree ==
  ASSUME NEW v, NEW start, NEW b, Ends(v, b, start), NEW c, Ends(v, c, start)
  PROVE  b = c
<1>1. PICK n, f : IsRun(v, f, n, start) /\ b = f[n] /\ Done(v, f[n])
  BY DEF Ends, HasRun
<1>2. PICK m, g : IsRun(v, g, m, start) /\ c = g[m] /\ Done(v, g[m])
  BY DEF Ends, HasRun
<1>3. n \in Nat /\ m \in Nat
  BY <1>1, <1>2 DEF IsRun
<1>4. CASE n <= m
  BY <1>1, <1>2, <1>4, RunsEndTogether
<1>5. CASE m <= n
  BY <1>1, <1>2, <1>5, RunsEndTogether
<1> QED
  BY <1>3, <1>4, <1>5

(* The seeds, one by one: the names found, and the seeds expanded.         *)
Expanded(v, q, x) ==
  IF x \in q.set \/ x \notin v.is_node THEN q
  ELSE [set   |-> q.set \cup {x} \cup {e.to : e \in {f \in v.followed : f.from = x}},
        taken |-> q.taken \cup {x}]

IsGathering(v, q, n) ==
  /\ q[0] = [set |-> {}, taken |-> {}]
  /\ \A i \in 1 .. n : q[i] = Expanded(v, q[i - 1], v.seeds[i])

CountsOf(v, es, taken) ==
  /\ es \in Seq(EdgeData)
  /\ \A t \in Triples : Occurs(es, WithKey(t)) = IF t[1] \in taken THEN v.counts[t] ELSE 0

(* After i seeds: what is left, and what is gathered.                      *)
GatheredBy(v, q, i, left, found, known, es) ==
  /\ i \in Nat /\ IsGathering(v, q, i)
  /\ Len(v.seeds) = i + Len(left) /\ \A j \in 1 .. Len(left) : left[j] = v.seeds[i + j]
  /\ q[i].set = found /\ q[i].taken \subseteq found /\ known = found \cap v.is_node
  /\ CountsOf(v, es, q[i].taken)

Gathering(v, left, found, known, es) ==
  \E i, q : GatheredBy(v, q, i, left, found, known, es)

(* A list does not name what it does not hold.                             *)
LEMMA OccursNone ==
  ASSUME NEW s, NEW T, \A k \in DOMAIN s : s[k] \notin T
  PROVE  Occurs(s, T) = 0
<1>1. Places(s, T) = {}
  BY DEF Places
<1> QED
  BY <1>1, FS_EmptySet DEF Occurs

(* What the view has of a node: its neighbors, and how often each key.     *)
LEMMA NeighborsOfView ==
  ASSUME WellFormed, NEW x \in Names
  PROVE  /\ Neighbors(x) \in Seq(EdgeData)
         /\ {e.to : e \in Range(Neighbors(x))} = {e.to : e \in {f \in View.followed : f.from = x}}
         /\ {e.to : e \in Range(Neighbors(x))} \subseteq Names
         /\ \A t \in Triples :
              Occurs(Neighbors(x), WithKey(t)) = IF t[1] = x THEN View.counts[t] ELSE 0
<1>1. /\ Neighbors(x) \in Seq(EdgeData)
      /\ \A e : e \in Range(Neighbors(x)) <=> e \in Followed /\ e.from = x
  BY NeighborsExact
<1>2. Range(Neighbors(x)) = {f \in View.followed : f.from = x}
  BY <1>1 DEF View
<1>3. {e.to : e \in Range(Neighbors(x))} \subseteq Names
  BY <1>1, FollowedType
<1>4. ASSUME NEW t \in Triples
      PROVE  Occurs(Neighbors(x), WithKey(t)) = IF t[1] = x THEN View.counts[t] ELSE 0
  <2>1. CASE t[1] = x
    BY <2>1 DEF View
  <2>2. CASE t[1] # x
    <3>1. \A k \in DOMAIN Neighbors(x) : Neighbors(x)[k] \in Range(Neighbors(x))
      BY DEF Range
    <3>2. \A k \in DOMAIN Neighbors(x) : Neighbors(x)[k] \notin WithKey(t)
      BY <1>1, <2>2, <3>1 DEF WithKey
    <3> QED
      BY <2>2, <3>2, OccursNone
  <2> QED
    BY <2>1, <2>2
<1> QED
  BY <1>1, <1>2, <1>3, <1>4

(* Before the first seed nothing is gathered.                              *)
LEMMA GatheringBegins ==
  ASSUME NEW v, v.seeds \in Seq(Names)
  PROVE  Gathering(v, v.seeds, {}, {}, << >>)
<1> DEFINE q == [i \in {0} |-> [set |-> {}, taken |-> {}]]
<1>1. IsGathering(v, q, 0) /\ q[0].set = {} /\ q[0].taken = {}
  BY DEF IsGathering
<1>2. CountsOf(v, << >>, {})
  <2>1. << >> \in Seq(EdgeData) /\ \A t \in Triples : Occurs(<< >>, WithKey(t)) = 0
    <3>1. << >> \in Seq(EdgeData) /\ DOMAIN << >> = {}
      OBVIOUS
    <3> QED
      BY <3>1, OccursNone
  <2> QED
    BY <2>1 DEF CountsOf
<1> HIDE DEF q
<1>3. GatheredBy(v, q, 0, v.seeds, {}, {}, << >>)
  BY <1>1, <1>2 DEF GatheredBy
<1> QED
  BY <1>3 DEF Gathering

(* One seed more.                                                          *)
LEMMA GatheringGrows ==
  ASSUME NEW v, NEW left, NEW found, NEW known, NEW es, NEW x, NEW rest,
         NEW fnd, NEW kn, NEW ed, NEW i, NEW q,
         GatheredBy(v, q, i, left, found, known, es),
         left \in Seq(Names), left # << >>, x = Head(left), rest = Tail(left),
         LET p == Expanded(v, q[i], x)
         IN /\ p.set = fnd /\ p.taken \subseteq fnd /\ kn = fnd \cap v.is_node
            /\ CountsOf(v, ed, p.taken)
  PROVE  Gathering(v, rest, fnd, kn, ed)
<1> DEFINE p   == Expanded(v, q[i], x)
           way == [j \in 0 .. i + 1 |-> IF j = i + 1 THEN p ELSE q[j]]
<1>1. /\ i \in Nat /\ IsGathering(v, q, i) /\ Len(v.seeds) = i + Len(left)
      /\ \A j \in 1 .. Len(left) : left[j] = v.seeds[i + j]
  BY DEF GatheredBy
<1>2. /\ Len(left) \in Nat /\ Len(left) >= 1 /\ x = left[1]
      /\ Len(rest) = Len(left) - 1 /\ \A j \in 1 .. Len(rest) : rest[j] = left[j + 1]
  OBVIOUS
<1>3. way[i + 1] = p /\ \A j \in 0 .. i : way[j] = q[j]
  BY <1>1
<1>4. /\ q[0] = [set |-> {}, taken |-> {}]
      /\ \A j \in 1 .. i : q[j] = Expanded(v, q[j - 1], v.seeds[j])
  BY <1>1 DEF IsGathering
<1>5. x = v.seeds[i + 1]
  BY <1>1, <1>2
<1> HIDE DEF way
<1>6. ASSUME NEW j \in 1 .. i + 1 PROVE way[j] = Expanded(v, way[j - 1], v.seeds[j])
  <2>1. CASE j = i + 1
    <3>1. j - 1 = i /\ i \in 0 .. i
      BY <1>1, <2>1
    <3> QED
      BY <1>3, <1>5, <2>1, <3>1
  <2>2. CASE j # i + 1
    <3>1. j \in 1 .. i /\ j \in 0 .. i /\ j - 1 \in 0 .. i
      BY <1>1, <2>2
    <3> QED
      BY <1>3, <1>4, <3>1
  <2> QED
    BY <2>1, <2>2
<1>7. IsGathering(v, way, i + 1)
  BY <1>1, <1>3, <1>4, <1>6 DEF IsGathering
<1>8. /\ i + 1 \in Nat /\ Len(v.seeds) = (i + 1) + Len(rest)
      /\ \A j \in 1 .. Len(rest) : rest[j] = v.seeds[(i + 1) + j]
  <2>1. \A j \in 1 .. Len(rest) : j + 1 \in 1 .. Len(left) /\ i + (j + 1) = (i + 1) + j
    BY <1>1, <1>2
  <2>2. Len(v.seeds) = (i + 1) + Len(rest)
    BY <1>1, <1>2
  <2> QED
    BY <1>1, <1>2, <2>1, <2>2
<1>9. GatheredBy(v, way, i + 1, rest, fnd, kn, ed)
  <2> HIDE DEF p
  <2>1. p.set = fnd /\ p.taken \subseteq fnd /\ kn = fnd \cap v.is_node /\ CountsOf(v, ed, p.taken)
    BY DEF p
  <2> QED
    BY <1>3, <1>7, <1>8, <2>1 DEF GatheredBy
<1> QED
  BY <1>9 DEF Gathering

(* A seed of the model is a seed of the view.                              *)
LEMMA SeedOfView ==
  ASSUME SeedsInv, Seed, Gathering(View, seeds, node_set, nodes, edges)
  PROVE  Gathering(View, seeds', node_set', nodes', edges')
<1> DEFINE x == Head(seeds)
           targets == {e.to : e \in Range(Neighbors(x))}
<1>1. /\ seeds \in Seq(Names) /\ seeds # << >> /\ seeds' = Tail(seeds) /\ WellFormed
      /\ node_set \subseteq Names
  BY DEF Seed, SeedsInv
<1>2. x \in Names
  BY <1>1
<1>3. PICK i, q : GatheredBy(View, q, i, seeds, node_set, nodes, edges)
  BY DEF Gathering
<1>4. /\ q[i].set = node_set /\ q[i].taken \subseteq node_set
      /\ nodes = node_set \cap View.is_node /\ CountsOf(View, edges, q[i].taken)
  BY <1>3 DEF GatheredBy
<1>5. x \in View.is_node <=> IsNode(x)
  BY <1>2 DEF View
<1> DEFINE p == Expanded(View, q[i], x)
<1>6. CASE x \in node_set \/ ~ IsNode(x)
  <2>1. node_set' = node_set /\ nodes' = nodes /\ edges' = edges
    BY <1>6 DEF Seed
  <2>2. p = q[i]
    BY <1>4, <1>5, <1>6 DEF Expanded
  <2>3. /\ p.set = node_set' /\ p.taken \subseteq node_set'
        /\ nodes' = node_set' \cap View.is_node /\ CountsOf(View, edges', p.taken)
    BY <1>4, <2>1, <2>2
  <2> HIDE DEF x, targets
  <2> QED
    BY <1>1, <1>3, <2>3, GatheringGrows DEF x
<1>7. CASE ~ (x \in node_set \/ ~ IsNode(x))
  <2>1. /\ node_set' = node_set \cup {x} \cup targets
        /\ nodes' = nodes \cup {x} \cup {y \in targets \ node_set : IsNode(y)}
        /\ edges' = edges \o Neighbors(x)
    BY <1>7 DEF Seed
  <2> HIDE DEF x
  <2>2. /\ Neighbors(x) \in Seq(EdgeData) /\ targets \subseteq Names
        /\ targets = {e.to : e \in {f \in View.followed : f.from = x}}
        /\ \A t \in Triples :
             Occurs(Neighbors(x), WithKey(t)) = IF t[1] = x THEN View.counts[t] ELSE 0
    BY <1>1, <1>2, NeighborsOfView
  <2> HIDE DEF targets
  <2>3. p = [set |-> node_set \cup {x} \cup targets, taken |-> q[i].taken \cup {x}]
    BY <1>4, <1>5, <1>7, <2>2 DEF Expanded
  <2> HIDE DEF p
  <2>4. p.set = node_set' /\ p.taken = q[i].taken \cup {x} /\ p.taken \subseteq node_set'
    BY <1>4, <2>1, <2>3
  <2>5. nodes' = node_set' \cap View.is_node
    <3>1. \A y : y \in View.is_node <=> y \in Names /\ IsNode(y)
      BY DEF View
    <3> QED
      BY <1>1, <1>2, <1>4, <1>7, <2>1, <2>2, <3>1
  <2>6. CountsOf(View, edges', p.taken)
    <3>1. /\ edges \in Seq(EdgeData)
          /\ \A t \in Triples :
               Occurs(edges, WithKey(t)) = IF t[1] \in q[i].taken THEN View.counts[t] ELSE 0
      BY <1>4 DEF CountsOf
    <3>2. edges' \in Seq(EdgeData)
      BY <2>1, <2>2, <3>1, RangeConcat
    <3>3. ASSUME NEW t \in Triples
          PROVE  Occurs(edges', WithKey(t)) = IF t[1] \in p.taken THEN View.counts[t] ELSE 0
      <4>1. Occurs(edges', WithKey(t))
              = Occurs(edges, WithKey(t)) + Occurs(Neighbors(x), WithKey(t))
        BY <2>1, <2>2, <3>1, OccursConcat
      <4>2. Occurs(edges, WithKey(t)) \in Nat /\ Occurs(Neighbors(x), WithKey(t)) \in Nat
        BY <2>2, <3>1, OccursType
      <4>3. x \notin q[i].taken
        BY <1>4, <1>7
      <4> QED
        BY <2>2, <2>4, <3>1, <4>1, <4>2, <4>3
    <3> QED
      BY <3>2, <3>3 DEF CountsOf
  <2> QED
    BY <1>1, <1>3, <2>4, <2>5, <2>6, GatheringGrows DEF x, p
<1> QED
  BY <1>6, <1>7

(***************************************************************************)
(* What the view says of an answer.                                        *)
(***************************************************************************)
Listed(f, S, R) == IsFiniteSet(S) /\ StrictOrder(R, S) /\ Lists(f, S, R)

ByKey(es) ==
  es \in Seq(EdgeData) /\ \A i, j \in 1 .. Len(es) : i < j => ~ KeyBefore(es[j], es[i])

BeamAnswer(v, a) ==
  /\ a.edges = << >>
  /\ \E b : Ends(v, b, v.call.start_nodes[1]) /\ Listed(a.nodes, b.results, v.better)

SubgraphAnswer(v, a) ==
  \E q : LET n    == Len(v.seeds)
             kept == q[n].set \cap v.is_node
         IN /\ n \in Nat /\ IsGathering(v, q, n)
            /\ Listed(a.nodes, kept, v.better) /\ ByKey(a.edges)
            /\ \A t \in Triples :
                 Occurs(a.edges, WithKey(t)) =
                   IF t[1] \in q[n].taken /\ t[1] \in kept /\ t[2] \in kept
                   THEN v.counts[t] ELSE 0

(* What the beams of a heatmap come to.                                    *)
Hits(bs, x)    == Cardinality({i \in DOMAIN bs : x \in bs[i].results})
Heat(v, bs, x) == IF Hits(bs, x) = 0 THEN 0 ELSE Hits(bs, x) * v.weight[x]
HeatOrder(v, bs) ==
  {p \in Names \X Names : \/ Heat(v, bs, p[1]) > Heat(v, bs, p[2])
                          \/ Heat(v, bs, p[1]) = Heat(v, bs, p[2]) /\ p[1] < p[2]}
Hot(v, bs) ==
  Range(v.call.start_nodes)
    \cup {x \in UNION {bs[i].results : i \in DOMAIN bs} : Hits(bs, x) >= v.call.threshold}

HeatAnswer(v, a) ==
  \E bs : /\ bs = [i \in DOMAIN v.call.start_nodes |-> bs[i]]
          /\ \A i \in DOMAIN v.call.start_nodes : Ends(v, bs[i], v.call.start_nodes[i])
          /\ Listed(a.nodes, Hot(v, bs) \cap v.is_node, HeatOrder(v, bs))
          /\ ByKey(a.edges)
          /\ \A t \in Triples :
               Occurs(a.edges, WithKey(t)) =
                 IF /\ t[1] \in Hot(v, bs) /\ t[2] \in Hot(v, bs)
                    /\ v.readable \cap WithKey(t) # {}
                 THEN 1 ELSE 0

Determined(v, a) ==
  /\ v.call.op = "beam_traverse" => BeamAnswer(v, a)
  /\ v.call.op = "contextual_subgraph" => SubgraphAnswer(v, a)
  /\ v.call.op = "multi_beam_intersection" => HeatAnswer(v, a)

(***************************************************************************)
(* And it says so of no more than one.                                     *)
(***************************************************************************)
KeyTripleOrder ==
  {p \in Triples \X Triples :
     \/ p[1][1] < p[2][1]
     \/ p[1][1] = p[2][1] /\ p[1][2] < p[2][2]
     \/ p[1][1] = p[2][1] /\ p[1][2] = p[2][2] /\ p[1][3] < p[2][3]}

(* Keys are triples of numbers.                                            *)
LEMMA KeysTotal == TotalOn(KeyTripleOrder, Triples)
<1> SUFFICES ASSUME NEW s \in Triples, NEW t \in Triples
             PROVE  s = t \/ <<s, t>> \in KeyTripleOrder \/ <<t, s>> \in KeyTripleOrder
  BY DEF TotalOn
<1>1. /\ s[1] \in Nat /\ s[2] \in Nat /\ s[3] \in Nat
      /\ t[1] \in Nat /\ t[2] \in Nat /\ t[3] \in Nat
      /\ s = <<s[1], s[2], s[3]>> /\ t = <<t[1], t[2], t[3]>>
  <2>1. Names \subseteq Nat /\ Kinds \subseteq Nat
    BY OverlayAssumption
  <2>2. \A p \in Triples : /\ p[1] \in Names /\ p[2] \in Names /\ p[3] \in Kinds
                          /\ p = <<p[1], p[2], p[3]>>
    BY DEF Triples
  <2> QED
    BY <2>1, <2>2
<1>2. \/ s[1] < t[1] \/ t[1] < s[1]
      \/ s[1] = t[1] /\ (s[2] < t[2] \/ t[2] < s[2])
      \/ s[1] = t[1] /\ s[2] = t[2] /\ (s[3] < t[3] \/ t[3] < s[3] \/ s[3] = t[3])
  BY <1>1
<1> QED
  BY <1>1, <1>2 DEF KeyTripleOrder

(* The keys of edges in order are in order, and say what occurs.           *)
LEMMA KeysFacts ==
  ASSUME NEW es, ByKey(es)
  PROVE  /\ Keys(es) \in Seq(Triples) /\ InOrderBy(Keys(es), KeyTripleOrder)
         /\ \A t \in Triples : Occurs(Keys(es), {t}) = Occurs(es, WithKey(t))
<1> DEFINE ks == Keys(es)
<1>1. /\ es \in Seq(EdgeData) /\ DOMAIN es = 1 .. Len(es) /\ Len(es) \in Nat
      /\ \A i \in DOMAIN es : es[i] \in EdgeData
      /\ \A i, j \in 1 .. Len(es) : i < j => ~ KeyBefore(es[j], es[i])
  <2>1. es \in Seq(EdgeData)
    BY DEF ByKey
  <2> QED
    BY <2>1, SeqElements, Zenon DEF ByKey
<1>2. ks = [i \in DOMAIN es |-> <<es[i].from, es[i].to, es[i].kind>>]
  BY DEF Keys
<1>3. \A e \in EdgeData : e.from \in Names /\ e.to \in Names /\ e.kind \in Kinds
  BY DEF EdgeData
<1> HIDE DEF ks
<1>4. /\ ks \in Seq(Triples) /\ Len(ks) = Len(es) /\ DOMAIN ks = DOMAIN es
      /\ \A i \in DOMAIN es : ks[i] = <<es[i].from, es[i].to, es[i].kind>>
  <2>1. \A i \in 1 .. Len(es) : <<es[i].from, es[i].to, es[i].kind>> \in Triples
    BY <1>1, <1>3 DEF Triples
  <2> QED
    BY <1>1, <1>2, <2>1
<1>5. InOrderBy(ks, KeyTripleOrder)
  <2> SUFFICES ASSUME NEW i \in 1 .. Len(ks), NEW j \in 1 .. Len(ks), i < j
               PROVE  <<ks[j], ks[i]>> \notin KeyTripleOrder
    BY DEF InOrderBy
  <2>1. ~ KeyBefore(es[j], es[i]) /\ i \in DOMAIN es /\ j \in DOMAIN es
    BY <1>1, <1>4
  <2> QED
    BY <1>4, <2>1 DEF KeyBefore, KeyTripleOrder
<1>6. ASSUME NEW t \in Triples PROVE Occurs(ks, {t}) = Occurs(es, WithKey(t))
  <2>1. ASSUME NEW k \in DOMAIN es PROVE ks[k] \in {t} <=> es[k] \in WithKey(t)
    <3>1. es[k] \in EdgeData /\ ks[k] = <<es[k].from, es[k].to, es[k].kind>>
      BY <1>1, <1>4
    <3>2. t = <<t[1], t[2], t[3]>>
      BY DEF Triples
    <3>3. es[k] \in WithKey(t) <=> es[k].from = t[1] /\ es[k].to = t[2] /\ es[k].kind = t[3]
      BY <3>1 DEF WithKey
    <3>4. ks[k] = t <=> es[k].from = t[1] /\ es[k].to = t[2] /\ es[k].kind = t[3]
      BY <3>1, <3>2
    <3> QED
      BY <3>3, <3>4
  <2>2. Places(ks, {t}) = Places(es, WithKey(t))
    BY <1>4, <2>1 DEF Places
  <2> QED
    BY <2>2 DEF Occurs
<1> QED
  BY <1>4, <1>5, <1>6 DEF ks

(* Edges in order by their keys, each key as often, have the same keys.    *)
LEMMA KeysAgree ==
  ASSUME NEW s, ByKey(s), NEW t, ByKey(t),
         \A k \in Triples : Occurs(s, WithKey(k)) = Occurs(t, WithKey(k))
  PROVE  Keys(s) = Keys(t)
<1>1. /\ Keys(s) \in Seq(Triples) /\ InOrderBy(Keys(s), KeyTripleOrder)
      /\ \A k \in Triples : Occurs(Keys(s), {k}) = Occurs(s, WithKey(k))
  BY KeysFacts
<1>2. /\ Keys(t) \in Seq(Triples) /\ InOrderBy(Keys(t), KeyTripleOrder)
      /\ \A k \in Triples : Occurs(Keys(t), {k}) = Occurs(t, WithKey(k))
  BY KeysFacts
<1>3. SameCounts(Keys(s), Keys(t), Triples)
  BY <1>1, <1>2 DEF SameCounts
<1> QED
  BY <1>1, <1>2, <1>3, KeysTotal, InOrderUnique

(* The same set in the same order is the same list.                        *)
LEMMA ListedSame ==
  ASSUME NEW f, NEW g, NEW S, NEW R, Listed(f, S, R), Listed(g, S, R)
  PROVE  f = g
BY ListsUnique DEF Listed

SameAs(a, b) == a.nodes = b.nodes /\ Keys(a.edges) = Keys(b.edges)

(* One answer of a beam.                                                   *)
LEMMA BeamAnswersAgree ==
  ASSUME NEW v, NEW a, NEW b, BeamAnswer(v, a), BeamAnswer(v, b)
  PROVE  SameAs(a, b)
<1>1. PICK x : Ends(v, x, v.call.start_nodes[1]) /\ Listed(a.nodes, x.results, v.better)
  BY DEF BeamAnswer
<1>2. PICK y : Ends(v, y, v.call.start_nodes[1]) /\ Listed(b.nodes, y.results, v.better)
  BY DEF BeamAnswer
<1>3. x = y
  BY <1>1, <1>2, BeamsAgree
<1>4. a.nodes = b.nodes
  BY <1>1, <1>2, <1>3, ListedSame
<1> QED
  BY <1>4 DEF SameAs, BeamAnswer

(* One subgraph.                                                           *)
LEMMA SubgraphAnswersAgree ==
  ASSUME NEW v, NEW a, NEW b, SubgraphAnswer(v, a), SubgraphAnswer(v, b)
  PROVE  SameAs(a, b)
<1> DEFINE n == Len(v.seeds)
           Of(q, c) == LET kept == q[n].set \cap v.is_node
                       IN /\ n \in Nat /\ IsGathering(v, q, n)
                          /\ Listed(c.nodes, kept, v.better) /\ ByKey(c.edges)
                          /\ \A t \in Triples :
                               Occurs(c.edges, WithKey(t)) =
                                 IF t[1] \in q[n].taken /\ t[1] \in kept /\ t[2] \in kept
                                 THEN v.counts[t] ELSE 0
<1>1. PICK q : Of(q, a)
  BY DEF SubgraphAnswer
<1>2. PICK r : Of(r, b)
  BY DEF SubgraphAnswer
<1>3. q[n] = r[n]
  <2>1. n \in Nat /\ IsGathering(v, q, n) /\ IsGathering(v, r, n)
    BY <1>1, <1>2
  <2> HIDE DEF n, Of
  <2>2. q[0] = r[0] /\ \A i \in 1 .. n : q[i - 1] = r[i - 1] => q[i] = r[i]
    BY <2>1 DEF IsGathering
  <2>3. \A i \in 0 .. n : q[i] = r[i]
    BY <2>1, <2>2, RunsAgree
  <2> QED
    BY <2>1, <2>3
<1>4. a.nodes = b.nodes
  <2>1. Listed(a.nodes, q[n].set \cap v.is_node, v.better)
    BY <1>1
  <2>2. Listed(b.nodes, q[n].set \cap v.is_node, v.better)
    BY <1>2, <1>3
  <2> QED
    BY <2>1, <2>2, ListedSame
<1>5. /\ ByKey(a.edges) /\ ByKey(b.edges)
      /\ \A t \in Triples : Occurs(a.edges, WithKey(t)) = Occurs(b.edges, WithKey(t))
  BY <1>1, <1>2, <1>3
<1>6. Keys(a.edges) = Keys(b.edges)
  BY <1>5, KeysAgree
<1> QED
  BY <1>4, <1>6 DEF SameAs

(* One heatmap.                                                            *)
LEMMA HeatAnswersAgree ==
  ASSUME NEW v, NEW a, NEW b, HeatAnswer(v, a), HeatAnswer(v, b)
  PROVE  SameAs(a, b)
<1> DEFINE D == DOMAIN v.call.start_nodes
           Of(bs, c) ==
             /\ bs = [i \in D |-> bs[i]]
             /\ \A i \in D : Ends(v, bs[i], v.call.start_nodes[i])
             /\ Listed(c.nodes, Hot(v, bs) \cap v.is_node, HeatOrder(v, bs))
             /\ ByKey(c.edges)
             /\ \A t \in Triples :
                  Occurs(c.edges, WithKey(t)) =
                    IF /\ t[1] \in Hot(v, bs) /\ t[2] \in Hot(v, bs)
                       /\ v.readable \cap WithKey(t) # {}
                    THEN 1 ELSE 0
<1>1. PICK bs : Of(bs, a)
  BY DEF HeatAnswer
<1>2. PICK cs : Of(cs, b)
  BY DEF HeatAnswer
<1>3. bs = cs
  <2>1. \A i \in D : Ends(v, bs[i], v.call.start_nodes[i]) /\ Ends(v, cs[i], v.call.start_nodes[i])
    BY <1>1, <1>2
  <2>2. bs = [i \in D |-> bs[i]] /\ cs = [i \in D |-> cs[i]]
    BY <1>1, <1>2, Zenon
  <2> HIDE DEF D, Of
  <2>3. \A i \in D : bs[i] = cs[i]
    <3> SUFFICES ASSUME NEW i \in D PROVE bs[i] = cs[i]
      OBVIOUS
    <3>1. Ends(v, bs[i], v.call.start_nodes[i]) /\ Ends(v, cs[i], v.call.start_nodes[i])
      BY <2>1
    <3> QED
      BY <3>1, BeamsAgree
  <2> QED
    BY <2>2, <2>3
<1>4. a.nodes = b.nodes
  <2>1. Listed(a.nodes, Hot(v, bs) \cap v.is_node, HeatOrder(v, bs))
    BY <1>1
  <2>2. Listed(b.nodes, Hot(v, bs) \cap v.is_node, HeatOrder(v, bs))
    BY <1>2, <1>3
  <2> QED
    BY <2>1, <2>2, ListedSame
<1>5. /\ ByKey(a.edges) /\ ByKey(b.edges)
      /\ \A t \in Triples : Occurs(a.edges, WithKey(t)) = Occurs(b.edges, WithKey(t))
  <2>1. Of(bs, a) /\ Of(bs, b)
    <3> HIDE DEF Of
    <3> QED
      BY <1>1, <1>2, <1>3
  <2> QED
    BY <2>1
<1>6. Keys(a.edges) = Keys(b.edges)
  BY <1>5, KeysAgree
<1> QED
  BY <1>4, <1>6 DEF SameAs

(***************************************************************************)
(* Every answer is the one the view determines.                            *)
(***************************************************************************)
BeamsRun == \A i \in DOMAIN beams : HasRun(View, beams[i], call.start_nodes[i])

(* What beam_traverse returns.                                             *)
LEMMA BeamAnswered ==
  ASSUME BeamsInv, BeamsRun, pc = "beams", call.op = "beam_traverse", Finished(beams[1]),
         NEW a, a = [nodes |-> InOrder(beams[1].results, Better), edges |-> << >>]
  PROVE  BeamAnswer(View, a)
<1>1. /\ WellFormed /\ DOMAIN beams = DOMAIN call.start_nodes
      /\ \A i \in DOMAIN beams : BeamOk(beams[i], call.start_nodes[i])
  BY DEF BeamsInv
<1>2. 1 \in DOMAIN beams
  <2>1. call.start_nodes \in Seq(Names) /\ Len(call.start_nodes) = 1
    BY <1>1, CallTypes
  <2> QED
    BY <1>1, <2>1
<1>3. PICK b : b = beams[1]
  OBVIOUS
<1>4. BeamOk(b, call.start_nodes[1]) /\ HasRun(View, b, call.start_nodes[1])
  BY <1>1, <1>2, <1>3 DEF BeamsRun
<1>5. View.call = call /\ View.better = BetterOrder
  BY DEF View
<1>6. Done(View, b)
  BY <1>3, <1>5 DEF Done, Finished
<1>7. b.results \subseteq Names /\ \A x \in b.results : IsNode(x)
  BY <1>4 DEF BeamOk, BeamData
<1>8. PICK S : S = b.results
  OBVIOUS
<1>9. /\ IsFiniteSet(S) /\ StrictOrder(BetterOrder, S)
      /\ Lists(InOrder(S, Better), S, BetterOrder)
  BY <1>1, <1>7, <1>8, BetterInOrder
<1>10. a.nodes = InOrder(S, Better) /\ a.edges = << >>
  BY <1>3, <1>8
<1>11. Listed(a.nodes, b.results, View.better)
  BY <1>5, <1>8, <1>9, <1>10 DEF Listed
<1>12. Ends(View, b, View.call.start_nodes[1])
  BY <1>4, <1>5, <1>6 DEF Ends
<1> QED
  BY <1>10, <1>11, <1>12 DEF BeamAnswer

(* What contextual_subgraph returns.                                       *)
LEMMA SubgraphAnswered ==
  ASSUME SeedsInv, pc = "seeds", seeds = << >>,
         Gathering(View, seeds, node_set, nodes, edges),
         NEW a, a = [nodes |-> InOrder(nodes, Better),
                     edges |-> Sorted(Retain(edges), KeyBefore)]
  PROVE  SubgraphAnswer(View, a)
<1>1. WellFormed /\ node_set \subseteq Names
  BY DEF SeedsInv
<1>2. PICK i, q : GatheredBy(View, q, i, seeds, node_set, nodes, edges)
  BY DEF Gathering
<1>3. /\ i \in Nat /\ IsGathering(View, q, i) /\ Len(View.seeds) = i
      /\ q[i].set = node_set /\ nodes = node_set \cap View.is_node
      /\ CountsOf(View, edges, q[i].taken)
  <2>1. Len(seeds) = 0
    OBVIOUS
  <2> QED
    BY <1>2, <2>1 DEF GatheredBy
<1>4. PICK kept : kept = nodes
  OBVIOUS
<1>5. kept = q[i].set \cap View.is_node
  BY <1>3, <1>4
<1>6. Listed(a.nodes, kept, View.better)
  <2>1. kept \subseteq Names /\ \A x \in kept : IsNode(x)
    BY <1>1, <1>3, <1>4 DEF View
  <2>2. /\ IsFiniteSet(kept) /\ StrictOrder(BetterOrder, kept)
        /\ Lists(InOrder(kept, Better), kept, BetterOrder)
    BY <1>1, <2>1, BetterInOrder
  <2>3. a.nodes = InOrder(kept, Better)
    BY <1>4
  <2>4. View.better = BetterOrder
    BY DEF View
  <2> QED
    BY <2>2, <2>3, <2>4 DEF Listed
<1>7. PICK s \in Seq(EdgeData) : s = edges
  BY <1>3 DEF CountsOf
<1>8. PICK T : T = {e \in EdgeData : e.from \in kept /\ e.to \in kept}
  OBVIOUS
<1>9. PICK p : p = Pick(s, T)
  OBVIOUS
<1>10. p \in Seq(EdgeData) /\ \A U : Occurs(p, U) = Occurs(s, T \cap U)
  BY <1>9, PickFacts, OccursPick
<1>11. PICK f : f = Sorted(p, KeyBefore)
  OBVIOUS
<1>12. a.edges = f
  BY <1>4, <1>7, <1>8, <1>9, <1>11 DEF Retain
<1>13. /\ SortOf(f, p, EdgeData, KeyOrder) /\ f \in Seq(EdgeData)
       /\ \A k, l \in DOMAIN f : k < l => ~ KeyBefore(f[l], f[k])
  BY <1>10, <1>11, SortByKeyBefore
<1>14. ByKey(a.edges)
  BY <1>12, <1>13 DEF ByKey
<1>15. \A U : Occurs(f, U) = Occurs(p, U)
  BY <1>10, <1>13, OccursReordered
<1>16. ASSUME NEW t \in Triples
       PROVE  Occurs(a.edges, WithKey(t)) =
                IF t[1] \in q[i].taken /\ t[1] \in kept /\ t[2] \in kept
                THEN View.counts[t] ELSE 0
  <2>1. Occurs(a.edges, WithKey(t)) = Occurs(s, T \cap WithKey(t))
    BY <1>10, <1>12, <1>15
  <2>2. CASE t[1] \in kept /\ t[2] \in kept
    <3>1. T \cap WithKey(t) = WithKey(t)
      BY <1>8, <2>2 DEF WithKey
    <3>2. Occurs(s, WithKey(t)) = IF t[1] \in q[i].taken THEN View.counts[t] ELSE 0
      BY <1>3, <1>7 DEF CountsOf
    <3> QED
      BY <2>1, <2>2, <3>1, <3>2
  <2>3. CASE ~ (t[1] \in kept /\ t[2] \in kept)
    <3>1. T \cap WithKey(t) = {}
      BY <1>8, <2>3 DEF WithKey
    <3>2. Occurs(s, {}) = 0
      BY OccursNone
    <3> QED
      BY <2>1, <2>3, <3>1, <3>2
  <2> QED
    BY <2>2, <2>3
<1> QED
  BY <1>3, <1>5, <1>6, <1>14, <1>16 DEF SubgraphAnswer

(* What is in order by its keys, with no two of one key.                   *)
LEMMA ListedByKey ==
  ASSUME NEW U, IsFiniteSet(U), U \subseteq EdgeData, StrictOrder(KeyOrder, U),
         \A e, f \in U : SameKey(e, f) => e = f, NEW g, Lists(g, U, KeyOrder)
  PROVE  /\ ByKey(g)
         /\ \A t \in Triples :
              Occurs(g, WithKey(t)) = IF \E e \in U : e \in WithKey(t) THEN 1 ELSE 0
<1>1. /\ g \in Seq(U) /\ DOMAIN g = 1 .. Len(g) /\ Range(g) = U
      /\ \A i, j \in DOMAIN g : i < j => <<g[i], g[j]>> \in KeyOrder
  BY ListingFacts
<1>2. g \in Seq(EdgeData)
  BY <1>1, SeqWider
<1>3. \A i \in DOMAIN g : g[i] \in U /\ g[i] \in EdgeData
  BY <1>1 DEF Range
<1>4. ByKey(g)
  <2>1. \A x, y \in EdgeData : <<x, y>> \in KeyOrder => <<y, x>> \notin KeyOrder
    BY KeyOrderWeak DEF WeakOrder
  <2>2. \A x, y \in EdgeData : <<x, y>> \in KeyOrder => ~ KeyBefore(y, x)
    BY <2>1 DEF KeyOrder
  <2> QED
    BY <1>1, <1>2, <1>3, <2>2 DEF ByKey
<1>5. ASSUME NEW t \in Triples, NEW e \in U, e \in WithKey(t) PROVE Occurs(g, WithKey(t)) = 1
  <2>1. SameKey(e, e)
    BY DEF SameKey
  <2>2. Cardinality({i \in DOMAIN g : SameKey(g[i], e)}) = 1
    BY <2>1, ListedKey
  <2>3. \A i \in DOMAIN g : SameKey(g[i], e) <=> g[i] \in WithKey(t)
    BY <1>3, <1>5 DEF SameKey, WithKey
  <2>4. {i \in DOMAIN g : SameKey(g[i], e)} = Places(g, WithKey(t))
    BY <2>3 DEF Places
  <2> QED
    BY <2>2, <2>4 DEF Occurs
<1>6. ASSUME NEW t \in Triples, ~ \E e \in U : e \in WithKey(t) PROVE Occurs(g, WithKey(t)) = 0
  <2>1. \A i \in DOMAIN g : g[i] \notin WithKey(t)
    BY <1>3, <1>6
  <2> QED
    BY <2>1, OccursNone
<1> QED
  BY <1>4, <1>5, <1>6

(* What the intersection returns.                                          *)
LEMMA HeatAnswered ==
  ASSUME BeamsInv, BeamsRun, pc = "beams", call.op = "multi_beam_intersection",
         \A i \in DOMAIN beams : Finished(beams[i]),
         NEW a, a = [nodes |-> InOrder({x \in filtered_set : IsNode(x)}, Hotter),
                     edges |-> InOrder(UNION {Rebuilt(x) : x \in filtered_set}, KeyBefore)]
  PROVE  HeatAnswer(View, a)
<1>1. WellFormed /\ DOMAIN beams = DOMAIN call.start_nodes
  BY DEF BeamsInv
<1> DEFINE D == DOMAIN call.start_nodes
<1>2. PICK bs : bs = [i \in D |-> beams[i]]
  OBVIOUS
<1>3. DOMAIN bs = DOMAIN beams /\ \A i \in D : bs[i] = beams[i]
  BY <1>1, <1>2
<1>4. View.call = call /\ View.better = BetterOrder
  BY DEF View
<1>5. \A i \in D : Ends(View, bs[i], call.start_nodes[i])
  <2> SUFFICES ASSUME NEW i \in D PROVE Ends(View, bs[i], call.start_nodes[i])
    OBVIOUS
  <2>1. bs[i] = beams[i] /\ HasRun(View, beams[i], call.start_nodes[i]) /\ Finished(beams[i])
    BY <1>1, <1>3 DEF BeamsRun
  <2>2. Done(View, beams[i])
    BY <1>4, <2>1 DEF Done, Finished
  <2> QED
    BY <2>1, <2>2 DEF Ends
<1>6. \A x : Hits(bs, x) = hit_count(x)
  BY <1>1, <1>3 DEF Hits, hit_count
<1>7. PICK F : F = filtered_set
  OBVIOUS
<1>8. Hot(View, bs) = F
  BY <1>1, <1>3, <1>4, <1>6, <1>7 DEF Hot, filtered_set
<1>9. F \subseteq Names
  BY <1>7, FilteredExact
<1>10. HeatOrder(View, bs) = HotterOrder
  <2>1. \A x \in Names : Heat(View, bs, x) = weight_sum(x)
    BY <1>6 DEF Heat, weight_sum, View
  <2> QED
    BY <2>1 DEF HeatOrder, HotterOrder, Hotter
<1>11. PICK S : S = {x \in F : IsNode(x)}
  OBVIOUS
<1>12. S = Hot(View, bs) \cap View.is_node
  BY <1>8, <1>9, <1>11 DEF View
<1>13. /\ IsFiniteSet(S) /\ StrictOrder(HotterOrder, S)
       /\ Lists(InOrder(S, Hotter), S, HotterOrder)
  <2>1. S \subseteq Names /\ \A x \in S : IsNode(x)
    BY <1>9, <1>11
  <2>2. \A x \in S : hit_count(x) \in Nat
    BY HitCountType
  <2> QED
    BY <1>1, <2>1, <2>2, HotterInOrder
<1>14. PICK U : U = RebuiltEdges
  OBVIOUS
<1>15. a.nodes = InOrder(S, Hotter) /\ a.edges = InOrder(U, KeyBefore)
  BY <1>7, <1>11, <1>14 DEF RebuiltEdges
<1>16. Listed(a.nodes, Hot(View, bs) \cap View.is_node, HeatOrder(View, bs))
  BY <1>10, <1>12, <1>13, <1>15 DEF Listed
<1>17. /\ IsFiniteSet(U) /\ U \subseteq EdgeData
       /\ \A e \in U : Readable(e) /\ e.from \in F /\ e.to \in F
       /\ \A e, f \in U : SameKey(e, f) => e = f
       /\ \A e : Readable(e) /\ e.from \in F /\ e.to \in F => \E f \in U : SameKey(f, e)
  BY <1>7, <1>14, RebuiltEdgesFacts
<1>18. StrictOrder(KeyOrder, U) /\ Lists(InOrder(U, KeyBefore), U, KeyOrder)
  BY <1>1, <1>17, KeyInOrder
<1>19. PICK g : g = InOrder(U, KeyBefore)
  OBVIOUS
<1>20. /\ ByKey(g)
       /\ \A t \in Triples :
            Occurs(g, WithKey(t)) = IF \E e \in U : e \in WithKey(t) THEN 1 ELSE 0
  BY <1>17, <1>18, <1>19, ListedByKey
<1>21. ASSUME NEW t \in Triples
       PROVE  (\E e \in U : e \in WithKey(t)) <=>
                t[1] \in F /\ t[2] \in F /\ View.readable \cap WithKey(t) # {}
  <2>1. \A e : e \in View.readable <=> e \in EdgeData /\ Readable(e)
    BY DEF View
  <2>2. ASSUME NEW e \in U, e \in WithKey(t)
        PROVE  t[1] \in F /\ t[2] \in F /\ View.readable \cap WithKey(t) # {}
    <3>1. e \in View.readable /\ e.from = t[1] /\ e.to = t[2]
      BY <1>17, <2>1, <2>2 DEF WithKey
    <3> QED
      BY <1>17, <2>2, <3>1
  <2>3. ASSUME t[1] \in F, t[2] \in F, View.readable \cap WithKey(t) # {}
        PROVE  \E e \in U : e \in WithKey(t)
    <3>1. PICK e : e \in View.readable /\ e \in WithKey(t)
      BY <2>3
    <3>2. Readable(e) /\ e.from = t[1] /\ e.to = t[2] /\ e.kind = t[3]
      BY <2>1, <3>1 DEF WithKey
    <3>3. PICK f \in U : SameKey(f, e)
      BY <1>17, <2>3, <3>2
    <3>4. f \in WithKey(t)
      BY <1>17, <3>2, <3>3 DEF SameKey, WithKey
    <3> QED
      BY <3>4
  <2> QED
    BY <2>2, <2>3
<1>22. \A t \in Triples :
         Occurs(a.edges, WithKey(t)) =
           IF /\ t[1] \in Hot(View, bs) /\ t[2] \in Hot(View, bs)
              /\ View.readable \cap WithKey(t) # {}
           THEN 1 ELSE 0
  BY <1>8, <1>15, <1>19, <1>20, <1>21
<1>23. ByKey(a.edges) /\ bs = [i \in DOMAIN View.call.start_nodes |-> bs[i]]
  BY <1>2, <1>4, <1>15, <1>19, <1>20
<1>24. \A i \in DOMAIN View.call.start_nodes : Ends(View, bs[i], View.call.start_nodes[i])
  BY <1>4, <1>5
<1> QED
  BY <1>16, <1>22, <1>23, <1>24 DEF HeatAnswer

(* A cheapest path is one after a compaction, too.                         *)
LEMMA PathAnswerStays ==
  ASSUME WellFormed, [Next]_vars, call.op = "find_path", NEW a, PathAnswer(a)
  PROVE  PathAnswer(a)'
<1>1. call.end \in Names
  BY CallTypes
<1> QED
  BY <1>1, WellFormedStep, ViewKept, PathAnswerKept

(* Both answers are determined by what the request sees; so are the beams  *)
(* and what is gathered on the way to them.                                *)
Answered ==
  /\ pc = "beams" => BeamsRun
  /\ pc = "seeds" => Gathering(View, seeds, node_set, nodes, edges)
  /\ pc = "done" => Determined(View, answer)
  /\ round = 2 => Determined(View, earlier) /\ (call.op = "find_path" => PathAnswer(earlier))

(* No beam is under way at first, nor any answer given.                    *)
LEMMA AnsweredInit == Init => Answered
BY DEF Init, Answered

(* A new beam is on its way.                                               *)
LEMMA RunBegins ==
  ASSUME NEW v, NEW start
  PROVE  HasRun(v, NewBeam(start), start)
<1> DEFINE run == [i \in {0} |-> NewBeam(start)]
<1>1. IsRun(v, run, 0, start) /\ run[0] = NewBeam(start)
  BY DEF IsRun
<1> HIDE DEF run
<1> QED
  BY <1>1 DEF HasRun

(* The beams stay on their ways.                                           *)
LEMMA BeamsRunStep ==
  ASSUME BeamsInv, Answered, [Next]_vars, pc' = "beams"
  PROVE  BeamsRun'
<1>1. WellFormed /\ View' = View /\ call' = call
  BY ViewFixed, ViewKept DEF BeamsInv
<1>2. ASSUME UNCHANGED beams, pc = "beams" PROVE BeamsRun'
  BY <1>1, <1>2 DEF Answered, BeamsRun
<1>3. CASE BeginBeams
  <2>1. beams' = [i \in DOMAIN call.start_nodes |-> NewBeam(call.start_nodes[i])]
    BY <1>3 DEF BeginBeams
  <2>2. ASSUME NEW i \in DOMAIN beams' PROVE HasRun(View, beams'[i], call.start_nodes[i])
    BY <2>1, RunBegins
  <2> QED
    BY <1>1, <2>2 DEF BeamsRun
<1>4. ASSUME NEW i \in DOMAIN beams, BeamLevel(i) PROVE BeamsRun'
  <2>1. /\ pc = "beams" /\ ~ Finished(beams[i])
        /\ beams' = [beams EXCEPT ![i] = NextLevel(beams[i])]
    BY <1>4 DEF BeamLevel
  <2>2. PICK b : b = beams[i]
    OBVIOUS
  <2>3. /\ call.op \in {"beam_traverse", "multi_beam_intersection"}
        /\ b \in BeamData /\ HasRun(View, b, call.start_nodes[i])
    BY <2>1, <2>2 DEF BeamsInv, BeamOk, Answered, BeamsRun
  <2>4. ~ Done(View, b)
    BY <2>1, <2>2 DEF Done, Finished, View
  <2>5. NextLevel(b) = Grown(View, b)
    <3>1. call.k \in Nat
      BY <1>1, <2>3, StartNodes
    <3> QED
      BY <1>1, <2>3, <3>1, LevelOfView
  <2>6. HasRun(View, NextLevel(b), call.start_nodes[i])
    BY <2>3, <2>4, <2>5, RunGrows
  <2>7. PICK c : c = NextLevel(b)
    OBVIOUS
  <2>8. /\ DOMAIN beams' = DOMAIN beams /\ beams'[i] = c
        /\ \A j \in DOMAIN beams : j # i => beams'[j] = beams[j]
    BY <2>1, <2>2, <2>7
  <2>9. ASSUME NEW j \in DOMAIN beams' PROVE HasRun(View, beams'[j], call.start_nodes[j])
    BY <2>1, <2>6, <2>7, <2>8 DEF Answered, BeamsRun
  <2> QED
    BY <1>1, <2>9 DEF BeamsRun
<1>5. CASE UNCHANGED vars
  BY <1>2, <1>5 DEF vars
<1>6. ASSUME \/ BeginPath \/ Pop \/ Relax \/ NoPath \/ BeamReturns \/ IntersectionReturns
             \/ BeginSubgraph \/ Seed \/ SubgraphReturns
             \/ \E mode \in {"Owned", "Mmap"} : Compact(mode)
      PROVE  pc' # "beams"
  BY <1>6 DEF BeginPath, Pop, Relax, NoPath, BeamReturns, IntersectionReturns, BeginSubgraph,
              Seed, SubgraphReturns, Compact, Return
<1> QED
  BY <1>3, <1>4, <1>5, <1>6 DEF Next

(* The seeds are gathered as the view says.                                *)
LEMMA GatheringStep ==
  ASSUME SeedsInv, Answered, [Next]_vars, pc' = "seeds"
  PROVE  Gathering(View, seeds, node_set, nodes, edges)'
<1>1. WellFormed /\ View' = View
  BY ViewFixed DEF SeedsInv
<1>2. CASE BeginSubgraph
  <2>1. /\ seeds' \in Seq(Names) /\ node_set' = {} /\ nodes' = {} /\ edges' = << >>
    BY <1>2, BeginSubgraphKeeps
  <2>2. seeds' = View.seeds
    BY <1>2 DEF BeginSubgraph, View, SeedList
  <2>3. Gathering(View, View.seeds, {}, {}, << >>)
    BY <2>1, <2>2, GatheringBegins
  <2> QED
    BY <1>1, <2>1, <2>2, <2>3
<1>3. CASE Seed
  <2>1. Gathering(View, seeds, node_set, nodes, edges)
    BY <1>3 DEF Seed, Answered
  <2>2. Gathering(View, seeds', node_set', nodes', edges')
    BY <1>3, <2>1, SeedOfView
  <2> QED
    BY <1>1, <2>2
<1>4. CASE UNCHANGED vars
  <2>1. UNCHANGED <<pc, seeds, node_set, nodes, edges>>
    BY <1>4 DEF vars, sub
  <2> QED
    BY <1>1, <2>1 DEF Answered
<1>5. ASSUME \/ BeginPath \/ Pop \/ Relax \/ NoPath \/ BeginBeams \/ BeamReturns
             \/ (\E i \in DOMAIN beams : BeamLevel(i)) \/ IntersectionReturns
             \/ SubgraphReturns \/ \E mode \in {"Owned", "Mmap"} : Compact(mode)
      PROVE  pc' # "seeds"
  BY <1>5 DEF BeginPath, Pop, Relax, NoPath, BeginBeams, BeamReturns, BeamLevel,
              IntersectionReturns, SubgraphReturns, Compact, Return
<1> QED
  BY <1>2, <1>3, <1>4, <1>5 DEF Next

(* Every answer is determined.                                             *)
LEMMA AnswerStep ==
  ASSUME BeamsInv, SeedsInv, Answered, [Next]_vars, pc' = "done"
  PROVE  Determined(View, answer)'
<1>1. WellFormed /\ View' = View /\ OwnWay
  BY ViewFixed DEF BeamsInv
<1>2. View.call = call
  BY DEF View
<1>3. CASE BeginPath \/ Pop \/ Relax \/ NoPath
  <2>1. call.op = "find_path"
    BY <1>1, <1>3 DEF BeginPath, Pop, Relax, NoPath, OwnWay
  <2>2. Determined(View, answer')
    BY <1>2, <2>1 DEF Determined
  <2> QED
    BY <1>1, <2>2
<1>4. CASE BeamReturns
  <2>1. PICK a : a = [nodes |-> InOrder(beams[1].results, Better), edges |-> << >>]
    OBVIOUS
  <2>2. pc = "beams" /\ call.op = "beam_traverse" /\ Finished(beams[1]) /\ answer' = a
    BY <1>4, <2>1 DEF BeamReturns, Return
  <2>3. BeamAnswer(View, a)
    BY <2>1, <2>2, BeamAnswered DEF Answered
  <2>4. Determined(View, answer')
    BY <1>2, <2>2, <2>3 DEF Determined
  <2> QED
    BY <1>1, <2>4
<1>5. CASE IntersectionReturns
  <2>1. PICK a : a = [nodes |-> InOrder({x \in filtered_set : IsNode(x)}, Hotter),
                      edges |-> InOrder(UNION {Rebuilt(x) : x \in filtered_set}, KeyBefore)]
    OBVIOUS
  <2>2. /\ pc = "beams" /\ call.op = "multi_beam_intersection" /\ answer' = a
        /\ \A i \in DOMAIN beams : Finished(beams[i])
    BY <1>5, <2>1 DEF IntersectionReturns, Return
  <2>3. HeatAnswer(View, a)
    BY <2>1, <2>2, HeatAnswered DEF Answered
  <2>4. Determined(View, answer')
    BY <1>2, <2>2, <2>3 DEF Determined
  <2> QED
    BY <1>1, <2>4
<1>6. CASE SubgraphReturns
  <2>1. PICK a : a = [nodes |-> InOrder(nodes, Better),
                      edges |-> Sorted(Retain(edges), KeyBefore)]
    OBVIOUS
  <2>2. pc = "seeds" /\ seeds = << >> /\ answer' = a
    BY <1>6, <2>1 DEF SubgraphReturns, Return
  <2>3. SubgraphAnswer(View, a) /\ call.op = "contextual_subgraph"
    BY <1>1, <2>1, <2>2, SubgraphAnswered DEF Answered, OwnWay
  <2>4. Determined(View, answer')
    BY <1>2, <2>2, <2>3 DEF Determined
  <2> QED
    BY <1>1, <2>4
<1>7. CASE UNCHANGED vars
  <2>1. UNCHANGED <<pc, answer>>
    BY <1>7 DEF vars
  <2> QED
    BY <1>1, <2>1 DEF Answered
<1>8. ASSUME \/ BeginBeams \/ (\E i \in DOMAIN beams : BeamLevel(i)) \/ BeginSubgraph \/ Seed
             \/ \E mode \in {"Owned", "Mmap"} : Compact(mode)
      PROVE  pc' # "done"
  BY <1>8 DEF BeginBeams, BeamLevel, BeginSubgraph, Seed, Compact
<1> QED
  BY <1>3, <1>4, <1>5, <1>6, <1>7, <1>8 DEF Next

(* The first round's answer stays the one it was.                          *)
LEMMA EarlierStep ==
  ASSUME CheapestInv, Answered, [Next]_vars, round' = 2
  PROVE  Determined(View, earlier)' /\ (call'.op = "find_path" => PathAnswer(earlier)')
<1>1. WellFormed /\ View' = View /\ call' = call
  BY ViewFixed, ViewKept DEF CheapestInv, PathInv
<1>2. ASSUME NEW a, a = earlier', Determined(View, a), call.op = "find_path" => PathAnswer(a)
      PROVE  Determined(View, earlier)' /\ (call'.op = "find_path" => PathAnswer(earlier)')
  <2>1. call.op = "find_path" => PathAnswer(a)'
    BY <1>1, <1>2, PathAnswerStays
  <2> QED
    BY <1>1, <1>2, <2>1
<1>3. CASE \E mode \in {"Owned", "Mmap"} : Compact(mode)
  <2>1. pc = "done" /\ earlier' = answer
    BY <1>3 DEF Compact
  <2>2. Determined(View, answer) /\ (call.op = "find_path" => PathAnswer(answer))
    BY <2>1 DEF Answered, CheapestInv, FoundPath
  <2>3. PICK a : a = answer
    OBVIOUS
  <2> QED
    BY <1>2, <2>1, <2>2, <2>3
<1>4. CASE UNCHANGED <<round, earlier>>
  <2>1. Determined(View, earlier) /\ (call.op = "find_path" => PathAnswer(earlier))
    BY <1>4 DEF Answered
  <2>2. PICK a : a = earlier
    OBVIOUS
  <2> QED
    BY <1>2, <1>4, <2>1, <2>2
<1>5. ASSUME \/ BeginPath \/ Pop \/ Relax \/ NoPath
             \/ BeginBeams \/ (\E i \in DOMAIN beams : BeamLevel(i)) \/ BeamReturns
             \/ IntersectionReturns \/ BeginSubgraph \/ Seed \/ SubgraphReturns
             \/ UNCHANGED vars
      PROVE  UNCHANGED <<round, earlier>>
  BY <1>5 DEF BeginPath, Pop, Relax, NoPath, BeginBeams, BeamLevel, BeamReturns,
              IntersectionReturns, BeginSubgraph, Seed, SubgraphReturns, vars
<1> QED
  BY <1>3, <1>4, <1>5 DEF Next

(* So everything on the way to an answer and every answer is determined    *)
(* after each step, too.                                                   *)
LEMMA AnsweredStep ==
  CheapestInv /\ BeamsInv /\ SeedsInv /\ Answered /\ [Next]_vars => Answered'
<1> SUFFICES ASSUME CheapestInv, BeamsInv, SeedsInv, Answered, [Next]_vars PROVE Answered'
  OBVIOUS
<1>1. pc' = "beams" => BeamsRun'
  BY BeamsRunStep
<1>2. pc' = "seeds" => Gathering(View, seeds, node_set, nodes, edges)'
  BY GatheringStep
<1>3. pc' = "done" => Determined(View, answer)'
  BY AnswerStep
<1>4. round' = 2 =>
        Determined(View, earlier)' /\ (call'.op = "find_path" => PathAnswer(earlier)')
  BY EarlierStep
<1> QED
  BY <1>1, <1>2, <1>3, <1>4 DEF Answered

(* SameAnswerAfterCompaction: on any graph, for any context and call, the  *)
(* answer given after a compaction has rewritten and reordered the base,   *)
(* be it mapped or owned, has the nodes and the edge keys, in their order, *)
(* that the answer before it had; a path costs the same (traversal.rs, the *)
(* sorts before every return, over persist/mod.rs compact).                *)
THEOREM SameAnswerAfterwards == Spec => []SameAnswerAfterCompaction
<1>1. Init => Answered
  BY AnsweredInit
<1>2. CheapestInv /\ BeamsInv /\ SeedsInv /\ Answered /\ [Next]_vars => Answered'
  BY AnsweredStep
<1>3. CheapestInv /\ Answered => SameAnswerAfterCompaction
  <2> SUFFICES ASSUME CheapestInv, Answered, pc = "done", round = 2
               PROVE  IF call.op = "find_path"
                      THEN PathCost(answer) = PathCost(earlier)
                             /\ (answer.nodes = << >>) = (earlier.nodes = << >>)
                      ELSE answer.nodes = earlier.nodes /\ Keys(answer.edges) = Keys(earlier.edges)
    BY DEF SameAnswerAfterCompaction
  <2>1. CASE call.op = "find_path"
    <3>1. PathAnswer(answer) /\ PathAnswer(earlier)
      BY <2>1 DEF CheapestInv, FoundPath, Answered
    <3>2. Cheapest(answer) /\ Cheapest(earlier)
      BY <3>1 DEF PathAnswer
    <3>3. CASE LeastCost(call.end) = Unreached
      <4>1. answer = NoAnswer /\ earlier = NoAnswer
        BY <3>2, <3>3 DEF Cheapest
      <4> QED
        BY <2>1, <4>1
    <3>4. CASE LeastCost(call.end) # Unreached
      <4>1. /\ Chain(answer) /\ PathCost(answer) = LeastCost(call.end)
            /\ Chain(earlier) /\ PathCost(earlier) = LeastCost(call.end)
        BY <3>2, <3>4 DEF Cheapest
      <4>2. Len(answer.nodes) > 0 /\ Len(earlier.nodes) > 0
        BY <4>1 DEF Chain
      <4>3. answer.nodes # << >> /\ earlier.nodes # << >>
        BY <4>2
      <4> QED
        BY <2>1, <4>1, <4>3
    <3> QED
      BY <3>3, <3>4
  <2>2. CASE call.op # "find_path"
    <3>1. /\ Determined(View, answer) /\ Determined(View, earlier) /\ View.call = call
          /\ WellFormed
      BY DEF Answered, CheapestInv, PathInv, View
    <3>2. call.op \in {"beam_traverse", "contextual_subgraph", "multi_beam_intersection"}
      BY <2>2, <3>1, CallTypes
    <3>3. SameAs(answer, earlier)
      BY <3>1, <3>2, BeamAnswersAgree, SubgraphAnswersAgree, HeatAnswersAgree DEF Determined
    <3> QED
      BY <2>2, <3>3 DEF SameAs
  <2> QED
    BY <2>1, <2>2
<1> QED
  BY <1>1, <1>2, <1>3, CheapestInvariant, BeamsInvariant, SeedsInvariant, PTL DEF Spec
==============================================================================
