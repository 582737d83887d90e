--------------------------- MODULE BookFeedProofs ---------------------------
(***************************************************************************)
(* What a receiver can rely on, for any book, any updates and any losses:  *)
(* the packets of an update are framed and ordered as documented, the      *)
(* decoder refuses none of them, and a level whose update arrived whole is *)
(* known with its quantity.                                                *)
(***************************************************************************)
EXTENDS BookFeed, PacketBuilderProofs, OrderLemmas, SequenceTheorems

(***************************************************************************)
(* Sorting and filtering.                                                  *)
(***************************************************************************)

\* R is a strict total order on S.
TotalOrder(S, R) ==
  /\ \A x \in S : << x, x >> \notin R
  /\ \A x, y, z \in S : << x, y >> \in R /\ << y, z >> \in R => << x, z >> \in R
  /\ \A x, y \in S : x = y \/ << x, y >> \in R \/ << y, x >> \in R

\* e lists every element of S once, in the order of R.
Listing(e, S, R) ==
  /\ Cardinality(S) \in Nat
  /\ e \in [1 .. Cardinality(S) -> S]
  /\ \A x \in S : \E i \in 1 .. Cardinality(S) : e[i] = x
  /\ \A i, j \in 1 .. Cardinality(S) : i < j => << e[i], e[j] >> \in R

\* InOrder lists every element of a finite set once, in the given order.
LEMMA InOrderLists ==
  ASSUME NEW S, IsFiniteSet(S), NEW R, TotalOrder(S, R)
  PROVE  Listing(InOrder(S, R), S, R)
<1>0. /\ \A x \in S : << x, x >> \notin R
      /\ \A x, y, z \in S : << x, y >> \in R /\ << y, z >> \in R => << x, z >> \in R
      /\ \A x, y \in S : x = y \/ << x, y >> \in R \/ << y, x >> \in R
  BY DEF TotalOrder
<1> USE <1>0
<1> DEFINE n == Cardinality(S)
           Lower(x) == {y \in S : << y, x >> \in R}
           rank == [x \in S |-> Cardinality(Lower(x)) + 1]
           e == InOrder(S, R)
<1>1. n \in Nat
  BY FS_CardinalityType
<1>2. ASSUME NEW x \in S
      PROVE  /\ IsFiniteSet(Lower(x)) /\ Cardinality(Lower(x)) \in Nat
             /\ Cardinality(Lower(x)) + 1 \in 1 .. n
  <2>1. Lower(x) \in SUBSET (S \ {x})
    OBVIOUS
  <2>2. IsFiniteSet(S \ {x}) /\ Cardinality(S \ {x}) = n - 1
    BY FS_RemoveElement
  <2> HIDE DEF Lower, n
  <2>3. IsFiniteSet(Lower(x)) /\ Cardinality(Lower(x)) <= n - 1
    BY <2>1, <2>2, FS_Subset
  <2>4. Cardinality(Lower(x)) \in Nat
    BY <2>3, FS_CardinalityType
  <2> QED BY <1>1, <2>3, <2>4
<1>3. ASSUME NEW x \in S, NEW y \in S, << x, y >> \in R
      PROVE  rank[x] < rank[y]
  <2>1. Lower(x) \in SUBSET Lower(y) /\ Lower(x) # Lower(y)
    <3>1. \A z \in Lower(x) : z \in Lower(y)
      BY <1>3
    <3>2. x \in Lower(y) /\ x \notin Lower(x)
      BY <1>3
    <3> QED BY <3>1, <3>2
  <2>2. /\ Cardinality(Lower(x)) \in Nat /\ Cardinality(Lower(y)) \in Nat
        /\ IsFiniteSet(Lower(y))
    BY <1>2
  <2>3. Cardinality(Lower(x)) <= Cardinality(Lower(y))
        /\ Cardinality(Lower(y)) # Cardinality(Lower(x))
    <3> HIDE DEF Lower
    <3> QED BY <2>1, <2>2, FS_Subset
  <2>4. rank[x] = Cardinality(Lower(x)) + 1 /\ rank[y] = Cardinality(Lower(y)) + 1
    OBVIOUS
  <2> HIDE DEF rank, Lower
  <2> QED BY <2>2, <2>3, <2>4
<1>4. rank \in [S -> 1 .. n]
  BY <1>2
<1>5. \A x, y \in S : rank[x] = rank[y] => x = y
  <2> SUFFICES ASSUME NEW x \in S, NEW y \in S, rank[x] = rank[y] PROVE x = y
    OBVIOUS
  <2>1. rank[x] \in Nat /\ rank[y] \in Nat
    BY <1>4
  <2>2. ~(rank[x] < rank[y]) /\ ~(rank[y] < rank[x])
    BY <2>1
  <2> HIDE DEF rank
  <2> QED BY <1>3, <2>2
<1>6. \A i \in 1 .. n : \E x \in S : rank[x] = i
  <2>1. rank \in Injection(S, 1 .. n)
    BY <1>4, <1>5 DEF Injection, IsInjective
  <2>2. IsFiniteSet(1 .. n) /\ Cardinality(1 .. n) = n
    BY <1>1, FS_Interval
  <2> HIDE DEF rank
  <2>3. rank \in Surjection(S, 1 .. n)
    BY <2>1, <2>2, FS_Injection
  <2> QED BY <2>3 DEF Surjection
<1>7. ASSUME NEW i \in 1 .. n
      PROVE  e[i] \in S /\ rank[e[i]] = i
  <2>1. e[i] = CHOOSE x \in S : Cardinality(Lower(x)) = i - 1
    BY DEF InOrder
  <2>2. PICK x \in S : rank[x] = i
    BY <1>6
  <2>3. Cardinality(Lower(x)) = i - 1
    <3>1. Cardinality(Lower(x)) \in Nat
      BY <1>2
    <3>2. rank[x] = Cardinality(Lower(x)) + 1
      OBVIOUS
    <3> HIDE <1>0 DEF rank, Lower
    <3> QED BY <1>1, <2>2, <3>1, <3>2
  <2>4. e[i] \in S /\ Cardinality(Lower(e[i])) = i - 1
    BY <2>1, <2>3
  <2> QED BY <1>1, <2>4
<1>8. e \in [1 .. n -> S]
  BY <1>7 DEF InOrder
<1>9. ASSUME NEW x \in S
      PROVE  \E i \in 1 .. n : e[i] = x
  <2>1. rank[x] \in 1 .. n
    BY <1>4
  <2>2. e[rank[x]] \in S /\ rank[e[rank[x]]] = rank[x]
    BY <1>7, <2>1
  <2> HIDE DEF rank, e
  <2> QED BY <1>5, <2>1, <2>2
<1>10. ASSUME NEW i \in 1 .. n, NEW j \in 1 .. n, i < j
       PROVE  << e[i], e[j] >> \in R
  <2>1. e[i] \in S /\ e[j] \in S /\ rank[e[i]] = i /\ rank[e[j]] = j
    BY <1>7
  <2> HIDE DEF rank, e
  <2>2. ~(rank[e[j]] < rank[e[i]]) /\ rank[e[i]] # rank[e[j]]
    BY <1>1, <1>10, <2>1
  <2> QED BY <1>3, <2>1, <2>2
<1> QED BY <1>1, <1>8, <1>9, <1>10 DEF Listing

\* R orders the places 1 to N by price in direction d, and then by place.
ByPrice(R, N, price, d) ==
  \A x, y \in 1 .. N : << x, y >> \in R <=>
    d * price[x] < d * price[y] \/ (price[x] = price[y] /\ x < y)

\* Places ordered by price in either direction, and by place at the same price,
\* are in a strict total order.
LEMMA PriceOrder ==
  ASSUME NEW N \in Nat, NEW price \in [1 .. N -> Nat], NEW d \in {-1, 1}, NEW R,
         ByPrice(R, N, price, d)
  PROVE  TotalOrder(1 .. N, R)
<1>0. \A x, y \in 1 .. N : << x, y >> \in R <=>
        d * price[x] < d * price[y] \/ (price[x] = price[y] /\ x < y)
  BY DEF ByPrice
<1> USE <1>0
<1>1. \A x \in 1 .. N : price[x] \in Nat /\ x \in Nat
  OBVIOUS
<1>2. \A a, b \in Nat : d * a < d * b => a # b
  OBVIOUS
<1>3. \A a, b, c \in Nat : d * a < d * b /\ d * b < d * c => d * a < d * c
  OBVIOUS
<1>4. \A a, b \in Nat : a = b \/ d * a < d * b \/ d * b < d * a
  <2>1. CASE d = 1
    BY <2>1
  <2>2. CASE d = -1
    BY <2>2
  <2> QED BY <2>1, <2>2
<1>5. ASSUME NEW x \in 1 .. N PROVE << x, x >> \notin R
  BY <1>1, <1>2
<1>6. ASSUME NEW x \in 1 .. N, NEW y \in 1 .. N, NEW z \in 1 .. N,
             << x, y >> \in R, << y, z >> \in R
      PROVE  << x, z >> \in R
  <2>1. /\ d * price[x] < d * price[y] \/ (price[x] = price[y] /\ x < y)
        /\ d * price[y] < d * price[z] \/ (price[y] = price[z] /\ y < z)
    BY <1>6
  <2>2. x < y /\ y < z => x < z
    OBVIOUS
  <2>3. d * price[x] < d * price[z] \/ (price[x] = price[z] /\ x < z)
    BY <1>1, <1>3, <2>1, <2>2
  <2> QED BY <2>3
<1>7. ASSUME NEW x \in 1 .. N, NEW y \in 1 .. N
      PROVE  x = y \/ << x, y >> \in R \/ << y, x >> \in R
  <2>1. x = y \/ x < y \/ y < x
    OBVIOUS
  <2> QED BY <1>1, <1>4, <2>1
<1> HIDE <1>0
<1> QED BY <1>5, <1>6, <1>7 DEF TotalOrder

\* The levels that are sent of one side: those with a positive quantity, each
\* once, by price and, at the same price, as the update lists them.
LEMMA SideSorted ==
  ASSUME NEW f \in Seq(OrderBookLevel), NEW d \in {-1, 1}
  PROVE  \E m \in Nat : \E o \in [1 .. m -> 1 .. Len(f)] :
           /\ PositiveLevels(sort_by(f, d)) = [i \in 1 .. m |-> f[o[i]]]
           /\ \A i \in 1 .. m : f[o[i]].quantity > 0
           /\ \A p \in 1 .. Len(f) : f[p].quantity > 0 => \E i \in 1 .. m : o[i] = p
           /\ \A i, j \in 1 .. m : i < j => << o[i], o[j] >> \in SortsBefore(f, d)
<1> DEFINE N == Len(f)
           R == SortsBefore(f, d)
           order == InOrder(DOMAIN f, R)
           g == sort_by(f, d)
           K == {i \in DOMAIN g : g[i].quantity > 0}
           L == {x \in (DOMAIN g) \X (DOMAIN g) : x[1] < x[2]}
           kept == InOrder(K, L)
           m == Cardinality(K)
           o == [i \in 1 .. m |-> order[kept[i]]]
<1>1. N \in Nat /\ DOMAIN f = 1 .. N /\ IsFiniteSet(1 .. N) /\ Cardinality(1 .. N) = N
  <2>1. N \in Nat /\ DOMAIN f = 1 .. N
    OBVIOUS
  <2> QED BY <2>1, FS_Interval
<1>2. \A i \in 1 .. N : f[i].price \in Nat /\ f[i].quantity \in Nat
  <2>1. \A i \in 1 .. N : f[i] \in OrderBookLevel
    OBVIOUS
  <2> QED BY <2>1, BookAssumption DEF OrderBookLevel
<1>3. \A x, y \in 1 .. N : << x, y >> \in R <=>
        d * f[x].price < d * f[y].price \/ (f[x].price = f[y].price /\ x < y)
  BY <1>1 DEF SortsBefore
<1>4. TotalOrder(1 .. N, R)
  <2> DEFINE price == [x \in 1 .. N |-> f[x].price]
  <2>1. price \in [1 .. N -> Nat]
    BY <1>2
  <2>2. \A x \in 1 .. N : price[x] = f[x].price
    OBVIOUS
  <2> HIDE DEF R, N, price
  <2>3. ASSUME NEW x \in 1 .. N, NEW y \in 1 .. N
        PROVE  << x, y >> \in R <=>
                 d * price[x] < d * price[y] \/ (price[x] = price[y] /\ x < y)
    <3>1. price[x] = f[x].price /\ price[y] = f[y].price
      BY <2>2
    <3>2. << x, y >> \in R <=>
            d * f[x].price < d * f[y].price \/ (f[x].price = f[y].price /\ x < y)
      BY <1>3
    <3> QED BY <3>1, <3>2, Zenon
  <2>4. ByPrice(R, N, price, d)
    BY <2>3, Zenon DEF ByPrice
  <2>5. N \in Nat /\ d \in {-1, 1}
    BY <1>1
  <2> QED BY <2>1, <2>4, <2>5, PriceOrder
<1>5. /\ order \in [1 .. N -> 1 .. N]
      /\ \A x \in 1 .. N : \E i \in 1 .. N : order[i] = x
      /\ \A i, j \in 1 .. N : i < j => << order[i], order[j] >> \in R
  <2>1. order = InOrder(1 .. N, R)
    BY <1>1
  <2> HIDE DEF order, R, N
  <2>2. PICK S : S = 1 .. N
    OBVIOUS
  <2>3. IsFiniteSet(S) /\ Cardinality(S) = N /\ TotalOrder(S, R)
    BY <1>1, <1>4, <2>2
  <2>4. Listing(InOrder(S, R), S, R)
    BY <2>3, InOrderLists
  <2> QED BY <2>1, <2>2, <2>3, <2>4 DEF Listing
<1>6. g = [i \in 1 .. N |-> f[order[i]]]
  BY <1>1 DEF sort_by
<1> HIDE DEF order, R, g, N
<1>7. DOMAIN g = 1 .. N /\ \A i \in 1 .. N : g[i] = f[order[i]]
  BY <1>6
<1>8. K \in SUBSET (1 .. N) /\ IsFiniteSet(K)
  <2>1. K \in SUBSET (1 .. N)
    BY <1>7
  <2> HIDE DEF K
  <2> QED BY <1>1, <2>1, FS_Subset
<1>9. \A x, y \in K : << x, y >> \in L <=> x < y
  BY <1>7, <1>8
<1>10. /\ m \in Nat /\ kept \in [1 .. m -> K]
       /\ \A x \in K : \E i \in 1 .. m : kept[i] = x
       /\ \A i, j \in 1 .. m : i < j => << kept[i], kept[j] >> \in L
  <2>1. \A x \in K : x \in Nat
    BY <1>8
  <2> HIDE DEF K, L, kept
  <2>2. TotalOrder(K, L)
    BY <1>9, <2>1 DEF TotalOrder
  <2>3. Listing(kept, K, L)
    BY <1>8, <2>2, InOrderLists DEF kept
  <2> QED BY <2>3 DEF Listing
<1>11. PositiveLevels(g) = [i \in DOMAIN kept |-> g[kept[i]]]
  BY DEF PositiveLevels
<1>12. \A i \in 1 .. m : kept[i] \in 1 .. N /\ g[kept[i]].quantity > 0
  BY <1>8, <1>10
<1> HIDE DEF kept, m, L
<1>13. o \in [1 .. m -> 1 .. N]
  BY <1>5, <1>12
<1>14. \A i \in 1 .. m : o[i] = order[kept[i]] /\ f[o[i]] = g[kept[i]]
  BY <1>7, <1>12
<1> HIDE DEF o
<1>15. PositiveLevels(g) = [i \in 1 .. m |-> f[o[i]]]
  BY <1>10, <1>11, <1>14
<1>16. \A i \in 1 .. m : f[o[i]].quantity > 0
  BY <1>12, <1>14
<1>17. ASSUME NEW p \in 1 .. N, f[p].quantity > 0
       PROVE  \E i \in 1 .. m : o[i] = p
  <2>1. PICK x \in 1 .. N : order[x] = p
    BY <1>5
  <2>2. x \in K
    BY <1>7, <1>17, <2>1
  <2>3. PICK i \in 1 .. m : kept[i] = x
    BY <1>10, <2>2
  <2> QED BY <1>14, <2>1, <2>3
<1>18. ASSUME NEW i \in 1 .. m, NEW j \in 1 .. m, i < j
       PROVE  << o[i], o[j] >> \in R
  <2>1. kept[i] < kept[j]
    BY <1>9, <1>10, <1>18
  <2> QED BY <1>5, <1>12, <1>14, <2>1
<1> QED BY <1>10, <1>13, <1>15, <1>16, <1>17, <1>18 DEF g, N, R

-----------------------------------------------------------------------------
(***************************************************************************)
(* Items.                                                                  *)
(***************************************************************************)

\* Scaling stays below the flag bit, keeps what is positive positive and is as exact
\* as the floating-point numbers are.
LEMMA ScaleBounds ==
  ASSUME NEW k \in Prices \cup Quantities
  PROVE  /\ scale(k) \in 0 .. SideBit - 1
         /\ k > 0 => scale(k) > 0
         /\ \E t \in ScaleRange(k) : scale(k) = Saturated(t)
<1>1. SideBit \in Nat \ {0, 1}
  BY BookAssumption
<1>2. PICK t \in Nat : t = Product[k]
  BY BookAssumption
<1>3. t \in ScaleRange(k) /\ (k > 0 => t > 0)
  BY <1>2, BookAssumption
<1>4. scale(k) = Saturated(t)
  BY <1>2 DEF scale
<1>5. Saturated(t) \in 0 .. SideBit - 1 /\ (t > 0 => Saturated(t) > 0)
  BY <1>1 DEF Saturated
<1> QED BY <1>3, <1>4, <1>5

\* Scaling keeps the order of prices.
LEMMA ScaleMonotone ==
  ASSUME NEW a \in Prices \cup Quantities, NEW b \in Prices \cup Quantities, a <= b
  PROVE  scale(a) <= scale(b)
<1>1. SideBit \in Nat \ {0, 1}
  BY BookAssumption
<1>2. PICK ta \in Nat : ta = Product[a]
  BY BookAssumption
<1>3. PICK tb \in Nat : tb = Product[b]
  BY BookAssumption
<1>4. ta <= tb
  BY <1>2, <1>3, BookAssumption
<1>5. Saturated(ta) <= Saturated(tb)
  BY <1>1, <1>4 DEF Saturated
<1> QED BY <1>2, <1>3, <1>5 DEF scale

\* Side and quantity of a level are read back from its item.
LEMMA ItemSound ==
  ASSUME NEW level \in OrderBookLevel, NEW ask \in BOOLEAN
  PROVE  /\ OrderBookItem(level, ask) \in Item
         /\ OrderBookItem(level, ask).price = scale(level.price)
         /\ is_ask(OrderBookItem(level, ask)) <=> ask
         /\ quantity(OrderBookItem(level, ask)) = scale(level.quantity)
<1> DEFINE item == OrderBookItem(level, ask)
           q == scale(level.quantity)
<1>1. level.price \in Prices /\ level.quantity \in Quantities /\ SideBit \in Nat \ {0, 1}
  BY BookAssumption DEF OrderBookLevel
<1>2. q \in 0 .. SideBit - 1 /\ scale(level.price) \in Nat
  BY <1>1, ScaleBounds
<1>3. item.price = scale(level.price) /\ item.quantity_with_flags = set_quantity_and_flag(q, ask)
  BY DEF OrderBookItem
<1>4. item = [price |-> scale(level.price),
              quantity_with_flags |-> set_quantity_and_flag(q, ask)]
  BY DEF OrderBookItem
<1> HIDE DEF item, q
<1>5. q % SideBit = q
  BY <1>1, <1>2
<1>6. CASE ask
  <2>1. set_quantity_and_flag(q, ask) = q + SideBit
    BY <1>5, <1>6 DEF set_quantity_and_flag
  <2>2. (q + SideBit) % SideBit = q
    BY <1>1, <1>2
  <2>3. q + SideBit \in Nat /\ q + SideBit >= SideBit
    BY <1>1, <1>2
  <2> QED BY <1>2, <1>3, <1>4, <1>6, <2>1, <2>2, <2>3 DEF Item, is_ask, quantity, item, q
<1>7. CASE ~ask
  <2>1. set_quantity_and_flag(q, ask) = q
    BY <1>1, <1>2, <1>5, <1>7 DEF set_quantity_and_flag
  <2>2. q \in Nat /\ ~(q >= SideBit)
    BY <1>1, <1>2
  <2> QED BY <1>2, <1>3, <1>4, <1>5, <1>7, <2>1, <2>2 DEF Item, is_ask, quantity, item, q
<1> QED BY <1>6, <1>7

\* The order in which the levels of an update are sent: bids before asks, bids by
\* falling and asks by rising price, and at the same price as listed.
SentBefore(u, x, y) ==
  \/ x[1] = "bid" /\ y[1] = "ask"
  \/ x[1] = "bid" /\ y[1] = "bid" /\ << x[2], y[2] >> \in SortsBefore(u.bids, -1)
  \/ x[1] = "ask" /\ y[1] = "ask" /\ << x[2], y[2] >> \in SortsBefore(u.asks, 1)

\* src names the level, by side and place in the update, of every item that is
\* sent: every level with a positive quantity once, in order.
Sources(u, m, src) ==
  /\ \A i \in 1 .. m :
       /\ src[i][1] \in Sides
       /\ src[i][2] \in DOMAIN LevelsOf(u, src[i][1])
       /\ LevelsOf(u, src[i][1])[src[i][2]].quantity > 0
       /\ all_items(u)[i] = OrderBookItem(LevelsOf(u, src[i][1])[src[i][2]], src[i][1] = "ask")
  /\ \A side \in Sides : \A p \in DOMAIN LevelsOf(u, side) :
       LevelsOf(u, side)[p].quantity > 0 => \E i \in 1 .. m : src[i] = << side, p >>
  /\ \A i, j \in 1 .. m : i < j => SentBefore(u, src[i], src[j])

\* The items of an update have such sources.
LEMMA ItemSources ==
  ASSUME NEW u \in Updates
  PROVE  /\ all_items(u) \in Seq(Item)
         /\ \E src : Sources(u, Len(all_items(u)), src)
<1>1. u.bids \in Seq(OrderBookLevel) /\ u.asks \in Seq(OrderBookLevel)
  BY BookAssumption
<1>2. PICK mb \in Nat : \E o \in [1 .. mb -> 1 .. Len(u.bids)] :
        /\ PositiveLevels(sort_by(u.bids, -1)) = [i \in 1 .. mb |-> u.bids[o[i]]]
        /\ \A i \in 1 .. mb : u.bids[o[i]].quantity > 0
        /\ \A p \in 1 .. Len(u.bids) : u.bids[p].quantity > 0 => \E i \in 1 .. mb : o[i] = p
        /\ \A i, j \in 1 .. mb : i < j => << o[i], o[j] >> \in SortsBefore(u.bids, -1)
  BY <1>1, SideSorted
<1>3. PICK ob \in [1 .. mb -> 1 .. Len(u.bids)] :
        /\ PositiveLevels(sort_by(u.bids, -1)) = [i \in 1 .. mb |-> u.bids[ob[i]]]
        /\ \A i \in 1 .. mb : u.bids[ob[i]].quantity > 0
        /\ \A p \in 1 .. Len(u.bids) : u.bids[p].quantity > 0 => \E i \in 1 .. mb : ob[i] = p
        /\ \A i, j \in 1 .. mb : i < j => << ob[i], ob[j] >> \in SortsBefore(u.bids, -1)
  BY <1>2
<1>4. PICK ma \in Nat : \E o \in [1 .. ma -> 1 .. Len(u.asks)] :
        /\ PositiveLevels(sort_by(u.asks, 1)) = [i \in 1 .. ma |-> u.asks[o[i]]]
        /\ \A i \in 1 .. ma : u.asks[o[i]].quantity > 0
        /\ \A p \in 1 .. Len(u.asks) : u.asks[p].quantity > 0 => \E i \in 1 .. ma : o[i] = p
        /\ \A i, j \in 1 .. ma : i < j => << o[i], o[j] >> \in SortsBefore(u.asks, 1)
  BY <1>1, SideSorted
<1>5. PICK oa \in [1 .. ma -> 1 .. Len(u.asks)] :
        /\ PositiveLevels(sort_by(u.asks, 1)) = [i \in 1 .. ma |-> u.asks[oa[i]]]
        /\ \A i \in 1 .. ma : u.asks[oa[i]].quantity > 0
        /\ \A p \in 1 .. Len(u.asks) : u.asks[p].quantity > 0 => \E i \in 1 .. ma : oa[i] = p
        /\ \A i, j \in 1 .. ma : i < j => << oa[i], oa[j] >> \in SortsBefore(u.asks, 1)
  BY <1>4
<1> DEFINE B == [i \in 1 .. mb |-> OrderBookItem(u.bids[ob[i]], FALSE)]
           A == [i \in 1 .. ma |-> OrderBookItem(u.asks[oa[i]], TRUE)]
           m == mb + ma
           src == [i \in 1 .. m |-> IF i <= mb THEN << "bid", ob[i] >>
                                               ELSE << "ask", oa[i - mb] >>]
<1>6. all_items(u) = B \o A
  <2>1. ItemsOf(PositiveLevels(sort_by(u.bids, -1)), FALSE) = B
    BY <1>3 DEF ItemsOf
  <2>2. ItemsOf(PositiveLevels(sort_by(u.asks, 1)), TRUE) = A
    BY <1>5 DEF ItemsOf
  <2> HIDE DEF A, B
  <2> QED BY <2>1, <2>2 DEF all_items
<1>7. /\ \A i \in 1 .. mb : OrderBookItem(u.bids[ob[i]], FALSE) \in Item
      /\ \A i \in 1 .. ma : OrderBookItem(u.asks[oa[i]], TRUE) \in Item
  <2>1. ASSUME NEW i \in 1 .. mb PROVE u.bids[ob[i]] \in OrderBookLevel
    <3>1. ob[i] \in 1 .. Len(u.bids)
      OBVIOUS
    <3> QED BY <1>1, <3>1
  <2>2. ASSUME NEW i \in 1 .. ma PROVE u.asks[oa[i]] \in OrderBookLevel
    <3>1. oa[i] \in 1 .. Len(u.asks)
      OBVIOUS
    <3> QED BY <1>1, <3>1
  <2> QED BY <2>1, <2>2, ItemSound
<1>8. B \in Seq(Item) /\ A \in Seq(Item) /\ Len(B) = mb /\ Len(A) = ma
  <2>1. B \in [1 .. mb -> Item] /\ A \in [1 .. ma -> Item]
    BY <1>7
  <2> HIDE DEF A, B
  <2> QED BY <2>1
<1>9. /\ \A i \in 1 .. mb : B[i] = OrderBookItem(u.bids[ob[i]], FALSE)
      /\ \A i \in 1 .. ma : A[i] = OrderBookItem(u.asks[oa[i]], TRUE)
  OBVIOUS
<1> HIDE DEF A, B
<1>10. /\ all_items(u) \in Seq(Item) /\ Len(all_items(u)) = m /\ m \in Nat
       /\ \A i \in 1 .. m : all_items(u)[i] = IF i <= mb THEN B[i] ELSE A[i - mb]
  <2>1. m \in Nat /\ B \o A \in Seq(Item) /\ Len(B \o A) = m
    <3>1. m \in Nat /\ m = Len(B) + Len(A)
      BY <1>8
    <3>2. B \o A \in Seq(Item) /\ Len(B \o A) = Len(B) + Len(A)
      BY <1>8, ConcatProperties, Zenon
    <3> QED BY <3>1, <3>2
  <2>2. ASSUME NEW i \in 1 .. m
        PROVE  (B \o A)[i] = IF i <= mb THEN B[i] ELSE A[i - mb]
    BY <1>8, <2>1, ConcatProperties
  <2> QED BY <1>6, <2>1, <2>2
<1>11. \A i \in 1 .. m : \/ i \in 1 .. mb /\ src[i] = << "bid", ob[i] >>
                         \/ i - mb \in 1 .. ma /\ ~(i <= mb) /\ src[i] = << "ask", oa[i - mb] >>
  BY <1>10
<1>12. /\ \A i \in 1 .. mb : i \in 1 .. m /\ src[i] = << "bid", ob[i] >>
       /\ \A i \in 1 .. ma : mb + i \in 1 .. m /\ src[mb + i] = << "ask", oa[i] >>
  BY <1>10
<1> HIDE DEF src
<1>13. LevelsOf(u, "bid") = u.bids /\ LevelsOf(u, "ask") = u.asks
  BY DEF LevelsOf
<1>14. ASSUME NEW i \in 1 .. m
       PROVE  /\ src[i][1] \in Sides
              /\ src[i][2] \in DOMAIN LevelsOf(u, src[i][1])
              /\ LevelsOf(u, src[i][1])[src[i][2]].quantity > 0
              /\ all_items(u)[i] =
                   OrderBookItem(LevelsOf(u, src[i][1])[src[i][2]], src[i][1] = "ask")
  <2>1. CASE i \in 1 .. mb /\ src[i] = << "bid", ob[i] >>
    <3>1. src[i][1] = "bid" /\ src[i][2] = ob[i] /\ (src[i][1] = "ask") = FALSE
      BY <2>1
    <3>2. ob[i] \in DOMAIN u.bids /\ u.bids[ob[i]].quantity > 0
      BY <1>1, <1>3, <2>1
    <3>3. all_items(u)[i] = OrderBookItem(u.bids[ob[i]], FALSE)
      <4>1. i <= mb
        BY <2>1
      <4>2. all_items(u)[i] = B[i]
        BY <1>10, <4>1
      <4> QED BY <1>9, <2>1, <4>2
    <3> QED BY <1>13, <3>1, <3>2, <3>3 DEF Sides
  <2>2. CASE i - mb \in 1 .. ma /\ ~(i <= mb) /\ src[i] = << "ask", oa[i - mb] >>
    <3>1. src[i][1] = "ask" /\ src[i][2] = oa[i - mb] /\ (src[i][1] = "ask") = TRUE
      BY <2>2
    <3>2. oa[i - mb] \in DOMAIN u.asks /\ u.asks[oa[i - mb]].quantity > 0
      BY <1>1, <1>5, <2>2
    <3>3. all_items(u)[i] = OrderBookItem(u.asks[oa[i - mb]], TRUE)
      BY <1>9, <1>10, <2>2
    <3> QED BY <1>13, <3>1, <3>2, <3>3 DEF Sides
  <2> QED BY <1>11, <2>1, <2>2
<1>15. ASSUME NEW side \in Sides, NEW p \in DOMAIN LevelsOf(u, side),
              LevelsOf(u, side)[p].quantity > 0
       PROVE  \E i \in 1 .. m : src[i] = << side, p >>
  <2>1. CASE side = "bid"
    <3>1. p \in 1 .. Len(u.bids) /\ u.bids[p].quantity > 0
      BY <1>1, <1>13, <1>15, <2>1
    <3>2. PICK i \in 1 .. mb : ob[i] = p
      BY <1>3, <3>1
    <3> QED BY <1>12, <2>1, <3>2
  <2>2. CASE side = "ask"
    <3>1. p \in 1 .. Len(u.asks) /\ u.asks[p].quantity > 0
      BY <1>1, <1>13, <1>15, <2>2
    <3>2. PICK i \in 1 .. ma : oa[i] = p
      BY <1>5, <3>1
    <3> QED BY <1>12, <2>2, <3>2
  <2> QED BY <2>1, <2>2 DEF Sides
<1>16. ASSUME NEW i \in 1 .. m, NEW j \in 1 .. m, i < j
       PROVE  SentBefore(u, src[i], src[j])
  <2>1. CASE i \in 1 .. mb /\ j \in 1 .. mb
    <3>1. src[i] = << "bid", ob[i] >> /\ src[j] = << "bid", ob[j] >>
      BY <1>12, <2>1
    <3>2. << ob[i], ob[j] >> \in SortsBefore(u.bids, -1)
      BY <1>3, <1>16, <2>1
    <3> QED BY <3>1, <3>2 DEF SentBefore
  <2>2. CASE i \in 1 .. mb /\ ~(j <= mb)
    BY <1>11, <1>12, <2>2 DEF SentBefore
  <2>3. CASE ~(i <= mb) /\ ~(j <= mb)
    <3>1. /\ i - mb \in 1 .. ma /\ j - mb \in 1 .. ma /\ i - mb < j - mb
      BY <1>10, <1>16, <2>3
    <3>2. src[i] = << "ask", oa[i - mb] >> /\ src[j] = << "ask", oa[j - mb] >>
      BY <1>11, <2>3
    <3>3. << oa[i - mb], oa[j - mb] >> \in SortsBefore(u.asks, 1)
      BY <1>5, <3>1
    <3> QED BY <3>2, <3>3 DEF SentBefore
  <2> QED BY <1>10, <1>16, <2>1, <2>2, <2>3
<1>17. Sources(u, m, src)
  BY <1>14, <1>15, <1>16 DEF Sources
<1> QED BY <1>10, <1>17

-----------------------------------------------------------------------------
(***************************************************************************)
(* Packets.                                                                *)
(***************************************************************************)

\* The place in an update of the q-th item of its i-th packet.
Place(i, q) == (i - 1) * ChunkSize + q

\* Places grow from packet to packet and within a packet.
LEMMA PlacesGrow ==
  ASSUME NEW i \in Nat \ {0}, NEW j \in Nat \ {0},
         NEW q \in 1 .. ChunkSize, NEW r \in 1 .. ChunkSize,
         i < j \/ (i = j /\ q < r)
  PROVE  Place(i, q) < Place(j, r)
<1>1. ChunkSize \in Nat \ {0}
  BY BookAssumption DEF LevelsPerPacket
<1>2. CASE i = j
  <2>1. (i - 1) * ChunkSize \in Nat
    BY <1>1
  <2> QED BY <1>1, <1>2, <2>1 DEF Place
<1>3. CASE i < j
  <2>1. i <= j - 1 /\ j - 1 \in Nat
    BY <1>3
  <2>2. i * ChunkSize <= (j - 1) * ChunkSize
    BY <1>1, <2>1
  <2>3. /\ (i - 1) * ChunkSize = i * ChunkSize - ChunkSize
        /\ i * ChunkSize \in Nat /\ (j - 1) * ChunkSize \in Nat
    BY <1>1, <2>1
  <2> QED BY <1>1, <2>2, <2>3 DEF Place
<1> QED BY <1>2, <1>3

\* Every item has its place in a packet.
LEMMA PlaceExists ==
  ASSUME NEW n \in Nat, NEW j \in 1 .. n
  PROVE  \E i \in 1 .. total_chunks(n, ChunkSize) :
           \E q \in 1 .. chunk_len(n, ChunkSize, i) : Place(i, q) = j
<1> DEFINE K == ChunkSize
           t == total_chunks(n, K)
<1>1. K \in Nat \ {0}
  BY BookAssumption DEF LevelsPerPacket
<1>2. PICK a \in Nat : a = j - 1
  OBVIOUS
<1>3. PICK b \in Nat : b = a \div K
  BY <1>1
<1>4. b * K <= a /\ a < b * K + K /\ b * K \in Nat
  BY <1>1, <1>3
<1>5. t \in Nat /\ n <= t * K
  BY <1>1, ChunkArithmetic
<1>6. b + 1 \in 1 .. t
  <2>1. b < t
    <3> SUFFICES ASSUME t <= b PROVE FALSE
      BY <1>5
    <3>1. t * K <= b * K
      BY <1>1, <1>5
    <3>2. t * K \in Nat
      BY <1>1, <1>5
    <3> QED BY <1>2, <1>4, <1>5, <3>1, <3>2
  <2> QED BY <1>5, <2>1
<1>7. j - b * K \in 1 .. chunk_len(n, K, b + 1)
  <2>1. (b + 1) * K = b * K + K /\ ((b + 1) - 1) * K = b * K
    BY <1>1
  <2>2. CASE (b + 1) * K <= n
    <3>1. chunk_len(n, K, b + 1) = K
      BY <2>2 DEF chunk_len
    <3> QED BY <1>1, <1>2, <1>4, <3>1
  <2>3. CASE ~((b + 1) * K <= n)
    <3>1. chunk_len(n, K, b + 1) = n - b * K
      BY <2>1, <2>3 DEF chunk_len
    <3> QED BY <1>1, <1>2, <1>4, <3>1
  <2> QED BY <2>2, <2>3
<1>8. Place(b + 1, j - b * K) = j
  <2>1. ((b + 1) - 1) * K = b * K
    BY <1>1
  <2> QED BY <1>4, <2>1 DEF Place
<1> QED BY <1>6, <1>7, <1>8

\* pk are packets of update u with number n: what they hold, and what their headers
\* say.
Packed(u, n, pk) ==
  /\ pk \in Seq(BookPacket)
  /\ \A i \in 1 .. Len(pk) :
       /\ pk[i].update = n
       /\ pk[i].frame.message_type = MESSAGE_TYPE_ORDER_BOOK
       /\ Len(pk[i].items) \in 1 .. ChunkSize
       /\ item_count(pk[i].frame.flags_and_count) = Len(pk[i].items)
       /\ is_last(pk[i].frame.flags_and_count) <=> i = Len(pk)
       /\ PayloadSuffices(pk[i].frame)
       /\ \A q \in 1 .. Len(pk[i].items) :
            /\ Place(i, q) \in 1 .. Len(all_items(u))
            /\ pk[i].items[q] = all_items(u)[Place(i, q)]
  /\ \A j \in 1 .. Len(all_items(u)) :
       \E i \in 1 .. Len(pk) : \E q \in 1 .. Len(pk[i].items) : Place(i, q) = j

\* So are the packets that are built of an update.
LEMMA PacketsOfUpdate ==
  ASSUME NEW u \in Updates, NEW n \in Nat \ {0}, NEW pk, pk = order_book_packets(u, n)
  PROVE  Packed(u, n, pk)
<1> DEFINE K == ChunkSize
           items == all_items(u)
           m == Len(items)
           fs == chunk_frames(MESSAGE_TYPE_ORDER_BOOK, m, K, OrderBookItemSize)
           t == total_chunks(m, K)
<1>1. K \in Nat \ {0} /\ K \in 1 .. 80
  BY BookAssumption DEF LevelsPerPacket
<1>2. items \in Seq(Item) /\ m \in Nat
  BY ItemSources
<1>3. /\ t \in Nat
      /\ \A i \in 1 .. t : chunk_len(m, K, i) \in 1 .. K /\ (i - 1) * K + chunk_len(m, K, i) <= m
  BY <1>1, <1>2, ChunkArithmetic
<1>4. /\ fs \in Seq(Frame)
      /\ fs = [i \in 1 .. t |-> create_packet(MESSAGE_TYPE_ORDER_BOOK, i = t,
                                             chunk_len(m, K, i), OrderBookItemSize)]
  <2>1. fs \in Seq(Frame)
    BY <1>1, <1>2, BuilderConstants, ChunkFramesType
  <2> QED BY <2>1 DEF chunk_frames
<1>5. pk = [i \in 1 .. t |-> [frame |-> fs[i], items |-> chunk(items, i), update |-> n]]
  <2>1. DOMAIN fs = 1 .. t
    BY <1>4
  <2> QED BY <2>1 DEF order_book_packets
<1>6. ASSUME NEW i \in 1 .. t
      PROVE  /\ fs[i] \in Frame
             /\ fs[i].message_type = MESSAGE_TYPE_ORDER_BOOK
             /\ item_count(fs[i].flags_and_count) = chunk_len(m, K, i)
             /\ is_last(fs[i].flags_and_count) <=> i = t
             /\ PayloadSuffices(fs[i])
  <2> DEFINE c == chunk_len(m, K, i)
  <2>1. c \in 0 .. 80 /\ c \in Nat
    <3>1. c \in 1 .. K
      BY <1>3
    <3> HIDE DEF c, K
    <3> QED BY <1>1, <3>1
  <2>2. fs[i] = create_packet(MESSAGE_TYPE_ORDER_BOOK, i = t, c, OrderBookItemSize)
    BY <1>4
  <2>3. fs[i] \in Frame
    <3>1. DOMAIN fs = 1 .. t
      BY <1>4
    <3>2. fs \in Seq(Frame)
      BY <1>4
    <3> HIDE DEF fs, t
    <3>3. \A j \in DOMAIN fs : fs[j] \in Frame
      BY <3>2
    <3> QED BY <3>1, <3>3
  <2> HIDE DEF fs, c, t
  <2>4. /\ fs[i].message_type = MESSAGE_TYPE_ORDER_BOOK
        /\ fs[i].flags_and_count = set_flags_and_count(i = t, c)
        /\ fs[i].size = PacketHeaderSize + c * OrderBookItemSize
    BY <2>2 DEF create_packet
  <2>5. (i = t) \in BOOLEAN
    OBVIOUS
  <2>6. /\ item_count(set_flags_and_count(i = t, c)) = c
        /\ is_last(set_flags_and_count(i = t, c)) <=> i = t
    BY <2>1, <2>5, FlagsRoundTrip
  <2>7. item_count(fs[i].flags_and_count) = c /\ (is_last(fs[i].flags_and_count) <=> i = t)
    BY <2>4, <2>6, Zenon
  <2>8. ItemsInPayload(fs[i]) = c
    BY <2>1, <2>4 DEF ItemsInPayload, PacketHeaderSize, OrderBookItemSize
  <2>9. PayloadSuffices(fs[i])
    BY <2>1, <2>7, <2>8 DEF PayloadSuffices
  <2> QED BY <2>3, <2>4, <2>7, <2>9 DEF c
<1> HIDE DEF fs, t
<1>7. ASSUME NEW i \in 1 .. t
      PROVE  /\ chunk(items, i) \in Seq(Item)
             /\ Len(chunk(items, i)) = chunk_len(m, K, i)
             /\ \A q \in 1 .. chunk_len(m, K, i) :
                  Place(i, q) \in 1 .. m /\ chunk(items, i)[q] = items[Place(i, q)]
  <2>1. PICK a : a = (i - 1) * K
    OBVIOUS
  <2>2. PICK c : c = chunk_len(m, K, i)
    OBVIOUS
  <2>3. a \in Nat /\ c \in Nat /\ a + c <= m
    BY <1>1, <1>3, <2>1, <2>2
  <2>4. chunk(items, i) = SubSeq(items, a + 1, a + c)
    BY <2>1, <2>2 DEF chunk
  <2> HIDE DEF items, m
  <2>5. /\ SubSeq(items, a + 1, a + c) \in Seq(Item)
        /\ Len(SubSeq(items, a + 1, a + c)) = c
        /\ \A q \in 1 .. c : SubSeq(items, a + 1, a + c)[q] = items[a + q]
    <3>1. a + 1 \in 1 .. m + 1 /\ a + c \in a .. m /\ m = Len(items)
      BY <1>2, <2>3 DEF m
    <3> QED BY <1>2, <2>3, <3>1
  <2>6. \A q \in 1 .. c : Place(i, q) = a + q /\ a + q \in 1 .. m
    BY <1>2, <2>1, <2>3 DEF Place
  <2> QED BY <2>2, <2>4, <2>5, <2>6
<1> HIDE DEF items, m
<1>8. ASSUME NEW i \in 1 .. t
      PROVE  /\ pk[i].frame = fs[i] /\ pk[i].items = chunk(items, i) /\ pk[i].update = n
             /\ pk[i] \in BookPacket
  <2>1. pk[i] = [frame |-> fs[i], items |-> chunk(items, i), update |-> n]
    BY <1>5
  <2> QED BY <1>6, <1>7, <2>1 DEF BookPacket
<1>9. pk \in Seq(BookPacket) /\ Len(pk) = t
  <2>1. pk \in [1 .. t -> BookPacket]
    BY <1>5, <1>8
  <2> QED BY <1>3, <2>1
<1>10. ASSUME NEW j \in 1 .. m
       PROVE  \E i \in 1 .. Len(pk) : \E q \in 1 .. Len(pk[i].items) : Place(i, q) = j
  <2>1. PICK i \in 1 .. t : \E q \in 1 .. chunk_len(m, K, i) : Place(i, q) = j
    BY <1>2, PlaceExists DEF t
  <2>2. Len(pk[i].items) = chunk_len(m, K, i)
    BY <1>7, <1>8
  <2> QED BY <1>9, <2>1, <2>2
<1>11. ASSUME NEW i \in 1 .. Len(pk)
       PROVE  /\ pk[i].update = n
              /\ pk[i].frame.message_type = MESSAGE_TYPE_ORDER_BOOK
              /\ Len(pk[i].items) \in 1 .. ChunkSize
              /\ item_count(pk[i].frame.flags_and_count) = Len(pk[i].items)
              /\ is_last(pk[i].frame.flags_and_count) <=> i = Len(pk)
              /\ PayloadSuffices(pk[i].frame)
              /\ \A q \in 1 .. Len(pk[i].items) :
                   /\ Place(i, q) \in 1 .. m
                   /\ pk[i].items[q] = items[Place(i, q)]
  <2>1. i \in 1 .. t /\ Len(pk) = t
    BY <1>9
  <2>2. /\ pk[i].frame = fs[i] /\ pk[i].items = chunk(items, i) /\ pk[i].update = n
        /\ Len(pk[i].items) = chunk_len(m, K, i)
    BY <1>7, <1>8, <2>1
  <2>3. chunk_len(m, K, i) \in 1 .. K
    BY <1>3, <2>1
  <2>4. /\ pk[i].frame.message_type = MESSAGE_TYPE_ORDER_BOOK
        /\ item_count(pk[i].frame.flags_and_count) = Len(pk[i].items)
        /\ is_last(pk[i].frame.flags_and_count) <=> i = Len(pk)
        /\ PayloadSuffices(pk[i].frame)
    BY <1>6, <2>1, <2>2
  <2>5. \A q \in 1 .. Len(pk[i].items) :
          Place(i, q) \in 1 .. m /\ pk[i].items[q] = items[Place(i, q)]
    BY <1>7, <2>1, <2>2
  <2> QED BY <2>2, <2>3, <2>4, <2>5
<1> QED BY <1>9, <1>10, <1>11 DEF items, m, Packed

\* An item stands for a level of an update: the one at place p of its side.
StandsFor(u, side, p, item) ==
  LET level == LevelsOf(u, side)[p]
  IN  /\ side \in Sides /\ p \in DOMAIN LevelsOf(u, side)
      /\ level \in OrderBookLevel
      /\ << side, level.price >> \in Levels
      /\ KeyOf(item) = Key(<< side, level.price >>)
      /\ is_ask(item) <=> side = "ask"
      /\ item.price = scale(level.price)
      /\ quantity(item) = scale(level.quantity)

\* The key, quantity and side of a sent item are those of the level it stands for.
LEMMA ItemOfSource ==
  ASSUME NEW u \in Updates, NEW src, Sources(u, Len(all_items(u)), src),
         NEW a \in 1 .. Len(all_items(u))
  PROVE  StandsFor(u, src[a][1], src[a][2], all_items(u)[a])
<1>p. PICK side, p, level, item :
        /\ side = src[a][1] /\ p = src[a][2]
        /\ level = LevelsOf(u, side)[p] /\ item = all_items(u)[a]
  OBVIOUS
<1>1. u.bids \in Seq(OrderBookLevel) /\ u.asks \in Seq(OrderBookLevel)
  BY BookAssumption
<1>2. /\ side \in Sides /\ p \in DOMAIN LevelsOf(u, side)
      /\ item = OrderBookItem(level, side = "ask")
  BY <1>p DEF Sources
<1>3. LevelsOf(u, side) \in Seq(OrderBookLevel)
  BY <1>1 DEF LevelsOf
<1>4. level \in OrderBookLevel
  BY <1>p, <1>2, <1>3
<1>5. (side = "ask") \in BOOLEAN
  OBVIOUS
<1>6. /\ item.price = scale(level.price)
      /\ is_ask(item) <=> side = "ask"
      /\ quantity(item) = scale(level.quantity)
  BY <1>2, <1>4, <1>5, ItemSound
<1>7. level.price \in Prices
  BY <1>4 DEF OrderBookLevel
<1>8. KeyOf(item) = Key(<< side, level.price >>)
  <2>1. CASE side = "ask"
    BY <1>6, <2>1 DEF KeyOf, Key
  <2>2. CASE side = "bid"
    BY <1>6, <2>2 DEF KeyOf, Key
  <2> QED BY <1>2, <2>1, <2>2 DEF Sides
<1>9. StandsFor(u, side, p, item)
  BY <1>p, <1>2, <1>4, <1>6, <1>7, <1>8 DEF Levels, StandsFor
<1> QED BY <1>p, <1>9

\* The items of an update are in the documented order across its packets.
LEMMA PacketsInOrder ==
  ASSUME NEW u \in Updates, NEW n \in Nat \ {0}, NEW pk, Packed(u, n, pk),
         NEW i \in 1 .. Len(pk), NEW j \in 1 .. Len(pk),
         NEW q \in 1 .. Len(pk[i].items), NEW r \in 1 .. Len(pk[j].items),
         i < j \/ (i = j /\ q < r)
  PROVE  InBookOrder(pk[i].items[q], pk[j].items[r])
<1>1. PICK src : Sources(u, Len(all_items(u)), src)
  BY ItemSources
<1>2. /\ Len(pk[i].items) \in 1 .. ChunkSize /\ Len(pk[j].items) \in 1 .. ChunkSize
      /\ Place(i, q) \in 1 .. Len(all_items(u)) /\ pk[i].items[q] = all_items(u)[Place(i, q)]
      /\ Place(j, r) \in 1 .. Len(all_items(u)) /\ pk[j].items[r] = all_items(u)[Place(j, r)]
  BY DEF Packed
<1>3. i \in Nat \ {0} /\ j \in Nat \ {0} /\ q \in 1 .. ChunkSize /\ r \in 1 .. ChunkSize
  <2>1. ChunkSize \in Nat /\ Len(pk) \in Nat
    BY BookAssumption DEF Packed, LevelsPerPacket
  <2>2. i \in Nat \ {0} /\ j \in Nat \ {0}
    BY <2>1
  <2>3. PICK x \in 1 .. ChunkSize : x = Len(pk[i].items)
    BY <1>2
  <2>4. PICK y \in 1 .. ChunkSize : y = Len(pk[j].items)
    BY <1>2
  <2>5. q \in 1 .. x /\ r \in 1 .. y
    BY <2>3, <2>4
  <2>6. q \in 1 .. ChunkSize /\ r \in 1 .. ChunkSize
    BY <2>1, <2>5
  <2> QED BY <2>2, <2>6
<1>4. PICK a \in 1 .. Len(all_items(u)) : a = Place(i, q)
  BY <1>2
<1>5. PICK b \in 1 .. Len(all_items(u)) : b = Place(j, r)
  BY <1>2
<1>6. a < b
  BY <1>3, <1>4, <1>5, PlacesGrow
<1>7. SentBefore(u, src[a], src[b])
  BY <1>1, <1>6 DEF Sources
<1>8. PICK la : la = LevelsOf(u, src[a][1])[src[a][2]]
  OBVIOUS
<1>9. PICK lb : lb = LevelsOf(u, src[b][1])[src[b][2]]
  OBVIOUS
<1>x. PICK x : x = all_items(u)[a]
  OBVIOUS
<1>y. PICK y : y = all_items(u)[b]
  OBVIOUS
<1>10. /\ la \in OrderBookLevel /\ src[a][2] \in DOMAIN LevelsOf(u, src[a][1])
       /\ is_ask(x) <=> src[a][1] = "ask"
       /\ x.price = scale(la.price)
  <2>1. StandsFor(u, src[a][1], src[a][2], all_items(u)[a])
    BY <1>1, ItemOfSource
  <2> QED BY <1>8, <1>x, <2>1 DEF StandsFor
<1>11. /\ lb \in OrderBookLevel /\ src[b][2] \in DOMAIN LevelsOf(u, src[b][1])
       /\ is_ask(y) <=> src[b][1] = "ask"
       /\ y.price = scale(lb.price)
  <2>1. StandsFor(u, src[b][1], src[b][2], all_items(u)[b])
    BY <1>1, ItemOfSource
  <2> QED BY <1>9, <1>y, <2>1 DEF StandsFor
<1>12. /\ la.price \in Prices /\ lb.price \in Prices
       /\ la.price \in Nat /\ lb.price \in Nat
  BY <1>10, <1>11, BookAssumption DEF OrderBookLevel
<1>13. /\ x.price \in Nat /\ y.price \in Nat
       /\ la.price <= lb.price => x.price <= y.price
       /\ lb.price <= la.price => y.price <= x.price
  <2>1. scale(la.price) \in Nat /\ scale(lb.price) \in Nat
    <3>1. SideBit \in Nat
      BY BookAssumption
    <3>2. scale(la.price) \in 0 .. SideBit - 1
      BY <1>12, ScaleBounds
    <3>3. scale(lb.price) \in 0 .. SideBit - 1
      BY <1>12, ScaleBounds
    <3> QED BY <3>1, <3>2, <3>3
  <2> QED BY <1>10, <1>11, <1>12, <2>1, ScaleMonotone
<1>14. InBookOrder(x, y)
  <2>1. CASE src[a][1] = "bid" /\ src[b][1] = "ask"
    BY <1>10, <1>11, <2>1 DEF InBookOrder
  <2>2. CASE src[a][1] = "bid" /\ src[b][1] = "bid" /\
             << src[a][2], src[b][2] >> \in SortsBefore(u.bids, -1)
    <3>1. la = u.bids[src[a][2]] /\ lb = u.bids[src[b][2]]
      BY <1>8, <1>9, <2>2 DEF LevelsOf
    <3>2. (-1) * la.price < (-1) * lb.price \/ la.price = lb.price
      BY <2>2, <3>1 DEF SortsBefore
    <3>3. lb.price <= la.price
      BY <1>12, <3>2
    <3> QED BY <1>10, <1>11, <1>13, <2>2, <3>3 DEF InBookOrder
  <2>3. CASE src[a][1] = "ask" /\ src[b][1] = "ask" /\
             << src[a][2], src[b][2] >> \in SortsBefore(u.asks, 1)
    <3>1. la = u.asks[src[a][2]] /\ lb = u.asks[src[b][2]]
      BY <1>8, <1>9, <2>3 DEF LevelsOf
    <3>2. 1 * la.price < 1 * lb.price \/ la.price = lb.price
      BY <2>3, <3>1 DEF SortsBefore
    <3>3. la.price <= lb.price
      BY <1>12, <3>2
    <3> QED BY <1>10, <1>11, <1>13, <2>3, <3>3 DEF InBookOrder
  <2> QED BY <1>7, <2>1, <2>2, <2>3 DEF SentBefore
<1> QED BY <1>2, <1>4, <1>5, <1>14, <1>x, <1>y

\* The update names the level.
Names(u, l) == PlacesIn(u, l) # {}

\* Every item of an update is about a level that the update names.
LEMMA PacketsNameLevels ==
  ASSUME NEW u \in Updates, NEW n \in Nat \ {0}, NEW pk, Packed(u, n, pk),
         NEW i \in 1 .. Len(pk), NEW q \in 1 .. Len(pk[i].items)
  PROVE  \E l \in Levels : Names(u, l) /\ KeyOf(pk[i].items[q]) = Key(l)
<1>1. PICK src : Sources(u, Len(all_items(u)), src)
  BY ItemSources
<1>2. Place(i, q) \in 1 .. Len(all_items(u)) /\ pk[i].items[q] = all_items(u)[Place(i, q)]
  BY DEF Packed
<1>3. PICK a \in 1 .. Len(all_items(u)) : a = Place(i, q)
  BY <1>2
<1>4. PICK level : level = LevelsOf(u, src[a][1])[src[a][2]]
  OBVIOUS
<1>5. PICK l : l = << src[a][1], level.price >>
  OBVIOUS
<1>6. /\ src[a][2] \in DOMAIN LevelsOf(u, src[a][1])
      /\ l \in Levels /\ KeyOf(all_items(u)[a]) = Key(l)
  <2>1. StandsFor(u, src[a][1], src[a][2], all_items(u)[a])
    BY <1>1, ItemOfSource
  <2> QED BY <1>4, <1>5, <2>1 DEF StandsFor
<1>7. src[a][2] \in PlacesIn(u, l)
  BY <1>4, <1>5, <1>6 DEF PlacesIn
<1> QED BY <1>2, <1>3, <1>6, <1>7 DEF Names

\* The quantity that the update gives the level.
NewQuantity(u, l) == LevelsOf(u, l[1])[Max(PlacesIn(u, l))].quantity

\* What an update says of a level is in its packets, and nothing behind it there
\* contradicts it.
LEMMA PacketsDeliver ==
  ASSUME NEW u \in Updates, NEW n \in Nat \ {0}, NEW pk, Packed(u, n, pk),
         NEW l \in Levels, Names(u, l), Alone(l), NewQuantity(u, l) > 0
  PROVE  LastFor(pk, Key(l), n, scale(NewQuantity(u, l)))
<1>0. PICK new : new = NewQuantity(u, l)
  OBVIOUS
<1> DEFINE m == Len(all_items(u))
<1>1. PICK src : Sources(u, m, src)
  BY ItemSources
<1>2. PICK f : f = LevelsOf(u, l[1])
  OBVIOUS
<1>3. f \in Seq(OrderBookLevel) /\ Len(f) \in Nat
  BY <1>2, BookAssumption DEF LevelsOf
<1>4. PlacesIn(u, l) \in SUBSET (1 .. Len(f))
  BY <1>2, <1>3 DEF PlacesIn
<1>5. PICK p : p = Max(PlacesIn(u, l))
  OBVIOUS
<1>6. p \in PlacesIn(u, l) /\ \A x \in PlacesIn(u, l) : x <= p
  BY <1>3, <1>4, <1>5, MaxPlace DEF Names
<1>7. p \in 1 .. Len(f) /\ f[p].price = l[2] /\ f[p].quantity = new /\ new > 0
  BY <1>0, <1>2, <1>3, <1>4, <1>5, <1>6 DEF PlacesIn, NewQuantity
<1>8. l[1] \in Sides /\ l = << l[1], l[2] >>
  BY DEF Levels
<1>9. PICK a \in 1 .. m : src[a] = << l[1], p >>
  <2>1. p \in DOMAIN LevelsOf(u, l[1]) /\ LevelsOf(u, l[1])[p].quantity > 0
    BY <1>2, <1>3, <1>7
  <2> QED BY <1>1, <1>8, <2>1, Zenon DEF Sources
<1>10. PICK i \in 1 .. Len(pk) : \E q \in 1 .. Len(pk[i].items) : Place(i, q) = a
  <2>1. \A j \in 1 .. m :
          \E i \in 1 .. Len(pk) : \E q \in 1 .. Len(pk[i].items) : Place(i, q) = j
    BY DEF Packed
  <2> QED BY <2>1, Zenon
<1>11. PICK q \in 1 .. Len(pk[i].items) : Place(i, q) = a
  BY <1>10
<1>12. /\ Len(pk[i].items) \in 1 .. ChunkSize
       /\ pk[i].items[q] = all_items(u)[a]
  BY <1>11 DEF Packed
<1>13. src[a][1] = l[1] /\ src[a][2] = p
  BY <1>9
<1>14. KeyOf(all_items(u)[a]) = Key(l) /\ quantity(all_items(u)[a]) = scale(new)
  <2>1. PICK level : level = LevelsOf(u, src[a][1])[src[a][2]]
    OBVIOUS
  <2>2. level.price = l[2] /\ level.quantity = new
    BY <1>2, <1>7, <1>13, <2>1
  <2>3. /\ KeyOf(all_items(u)[a]) = Key(<< src[a][1], level.price >>)
        /\ quantity(all_items(u)[a]) = scale(level.quantity)
    <3>1. StandsFor(u, src[a][1], src[a][2], all_items(u)[a])
      BY <1>1, ItemOfSource
    <3> QED BY <2>1, <3>1 DEF StandsFor
  <2> QED BY <1>8, <1>13, <2>2, <2>3
<1>15. ASSUME NEW j \in 1 .. Len(pk), NEW r \in 1 .. Len(pk[j].items),
              KeyOf(pk[j].items[r]) = Key(l), Before(i, q, j, r)
       PROVE  FALSE
  <2>1. /\ Len(pk[j].items) \in 1 .. ChunkSize
        /\ Place(j, r) \in 1 .. m /\ pk[j].items[r] = all_items(u)[Place(j, r)]
    BY DEF Packed
  <2>2. PICK b \in 1 .. m : b = Place(j, r)
    BY <2>1
  <2>3. i \in Nat \ {0} /\ j \in Nat \ {0} /\ q \in 1 .. ChunkSize /\ r \in 1 .. ChunkSize
    <3>1. ChunkSize \in Nat /\ Len(pk) \in Nat
      BY BookAssumption DEF Packed, LevelsPerPacket
    <3>2. i \in Nat \ {0} /\ j \in Nat \ {0}
      BY <3>1
    <3>3. q \in 1 .. ChunkSize
      BY <1>12, <3>1
    <3>4. r \in 1 .. ChunkSize
      BY <2>1, <3>1
    <3> QED BY <3>2, <3>3, <3>4
  <2>4. a < b
    BY <1>11, <1>15, <2>2, <2>3, PlacesGrow DEF Before
  <2>5. SentBefore(u, src[a], src[b])
    BY <1>1, <2>4 DEF Sources
  <2>6. PICK level : level = LevelsOf(u, src[b][1])[src[b][2]]
    OBVIOUS
  <2>7. PICK k : k = << src[b][1], level.price >>
    OBVIOUS
  <2>8. /\ src[b][2] \in DOMAIN LevelsOf(u, src[b][1])
        /\ k \in Levels /\ KeyOf(all_items(u)[b]) = Key(k)
    <3>1. StandsFor(u, src[b][1], src[b][2], all_items(u)[b])
      BY <1>1, ItemOfSource
    <3> QED BY <2>6, <2>7, <3>1 DEF StandsFor
  <2>9. k = l
    BY <1>15, <2>1, <2>2, <2>8 DEF Alone
  <2>10. src[b][1] = l[1] /\ level.price = l[2]
    BY <2>7, <2>9
  <2>11. src[b][2] \in PlacesIn(u, l)
    BY <2>6, <2>8, <2>10 DEF PlacesIn
  <2>12. src[b][2] <= p /\ src[b][2] \in 1 .. Len(f) /\ f[src[b][2]].price = f[p].price
    BY <1>2, <1>4, <1>6, <1>7, <2>6, <2>10, <2>11
  <2>13. f[p].price \in Nat
    <3>1. f[p] \in OrderBookLevel
      BY <1>3, <1>7
    <3> QED BY <3>1, BookAssumption DEF OrderBookLevel
  <2>14. CASE l[1] = "bid"
    <3>1. << p, src[b][2] >> \in SortsBefore(f, -1)
      BY <1>2, <1>13, <2>5, <2>10, <2>14 DEF SentBefore, LevelsOf
    <3>2. (-1) * f[p].price < (-1) * f[src[b][2]].price \/ p < src[b][2]
      BY <3>1 DEF SortsBefore
    <3> QED BY <1>7, <2>12, <2>13, <3>2
  <2>15. CASE l[1] = "ask"
    <3>1. << p, src[b][2] >> \in SortsBefore(f, 1)
      BY <1>2, <1>13, <2>5, <2>10, <2>15 DEF SentBefore, LevelsOf
    <3>2. 1 * f[p].price < 1 * f[src[b][2]].price \/ p < src[b][2]
      BY <3>1 DEF SortsBefore
    <3> QED BY <1>7, <2>12, <2>13, <3>2
  <2> QED BY <1>8, <2>14, <2>15 DEF Sides
<1>16. pk[i].update = n
  BY DEF Packed
<1> QED BY <1>0, <1>12, <1>14, <1>15, <1>16 DEF LastFor

-----------------------------------------------------------------------------
(***************************************************************************)
(* What a step of the channel does to the parts of BookInv.                *)
(***************************************************************************)

\* The packets of t are those of ch without the first.
LEMMA TailPackets ==
  ASSUME NEW ch \in Seq(BookPacket), ch # << >>, NEW t, t = Tail(ch)
  PROVE  /\ t \in Seq(BookPacket) /\ Head(ch) = ch[1] /\ ch[1] \in BookPacket
         /\ Len(t) \in Nat /\ Len(ch) = Len(t) + 1
         /\ \A i \in 1 .. Len(t) : i + 1 \in 1 .. Len(ch) /\ t[i] = ch[i + 1]
         /\ \A i \in 1 .. Len(ch) : i = 1 \/ i - 1 \in 1 .. Len(t)
<1>1. t \in Seq(BookPacket) /\ Len(t) = Len(ch) - 1 /\ Len(ch) \in Nat \ {0}
  OBVIOUS
<1>2. Head(ch) = ch[1] /\ ch[1] \in BookPacket
  BY <1>1
<1>3. \A i \in 1 .. Len(t) : t[i] = ch[i + 1]
  BY <1>1
<1> QED BY <1>1, <1>2, <1>3

\* The packets of c are those of ch and then those of pk.
LEMMA AppendedPackets ==
  ASSUME NEW ch \in Seq(BookPacket), NEW pk \in Seq(BookPacket), NEW c, c = ch \o pk
  PROVE  /\ c \in Seq(BookPacket) /\ Len(ch) \in Nat /\ Len(pk) \in Nat
         /\ Len(c) = Len(ch) + Len(pk)
         /\ \A i \in 1 .. Len(ch) : i \in 1 .. Len(c) /\ c[i] = ch[i]
         /\ \A i \in 1 .. Len(pk) : Len(ch) + i \in 1 .. Len(c) /\ c[Len(ch) + i] = pk[i]
         /\ \A i \in 1 .. Len(c) : i \in 1 .. Len(ch) \/ i - Len(ch) \in 1 .. Len(pk)
<1>1. Len(ch) \in Nat /\ Len(pk) \in Nat
  OBVIOUS
<1>2. c \in Seq(BookPacket) /\ Len(c) = Len(ch) + Len(pk)
  OBVIOUS
<1>3. \A i \in 1 .. Len(c) : c[i] = IF i <= Len(ch) THEN ch[i] ELSE pk[i - Len(ch)]
  BY <1>1, <1>2
<1>4. \A i \in 1 .. Len(ch) : i \in 1 .. Len(c) /\ c[i] = ch[i]
  BY <1>1, <1>2, <1>3
<1>5. ASSUME NEW i \in 1 .. Len(pk)
      PROVE  Len(ch) + i \in 1 .. Len(c) /\ c[Len(ch) + i] = pk[i]
  <2>1. Len(ch) + i \in 1 .. Len(c) /\ ~(Len(ch) + i <= Len(ch)) /\ (Len(ch) + i) - Len(ch) = i
    BY <1>1, <1>2
  <2> QED BY <1>3, <2>1
<1> QED BY <1>1, <1>2, <1>4, <1>5

\* A packet less: the rest is still sound, in order and ended.
LEMMA TailFramed ==
  ASSUME NEW ch \in Seq(BookPacket), ch # << >>, NEW t, t = Tail(ch)
  PROVE  /\ \A n : SoundChannel(ch, n) => SoundChannel(t, n)
         /\ OrderedChannel(ch) => OrderedChannel(t)
         /\ EndsChannel(ch) => EndsChannel(t)
<1>1. /\ Len(t) \in Nat /\ Len(ch) = Len(t) + 1
      /\ \A i \in 1 .. Len(t) : i + 1 \in 1 .. Len(ch) /\ t[i] = ch[i + 1]
  BY TailPackets
<1>2. \A n : SoundChannel(ch, n) => SoundChannel(t, n)
  BY <1>1 DEF SoundChannel
<1>3. ASSUME OrderedChannel(ch) PROVE OrderedChannel(t)
  <2>1. ASSUME NEW i \in 1 .. Len(t), NEW j \in 1 .. Len(t),
               NEW q \in 1 .. Len(t[i].items), NEW r \in 1 .. Len(t[j].items),
               Before(i, q, j, r) /\ t[i].update = t[j].update
        PROVE  InBookOrder(t[i].items[q], t[j].items[r])
    <3>1. Before(i + 1, q, j + 1, r)
      BY <1>1, <2>1 DEF Before
    <3> QED BY <1>1, <1>3, <2>1, <3>1 DEF OrderedChannel
  <2> QED BY <2>1, Zenon DEF OrderedChannel
<1>4. ASSUME EndsChannel(ch) PROVE EndsChannel(t)
  <2> SUFFICES ASSUME NEW i \in 1 .. Len(t), t[i].update # 0
               PROVE  is_last(t[i].frame.flags_and_count)
                        <=> \A j \in i + 1 .. Len(t) : t[j].update # t[i].update
    BY DEF EndsChannel
  <2>1. is_last(t[i].frame.flags_and_count)
          <=> \A j \in (i + 1) + 1 .. Len(ch) : ch[j].update # t[i].update
    BY <1>1, <1>4 DEF EndsChannel
  <2>2. ASSUME NEW j \in i + 1 .. Len(t)
        PROVE  j + 1 \in (i + 1) + 1 .. Len(ch) /\ t[j] = ch[j + 1]
    BY <1>1
  <2>3. ASSUME NEW j \in (i + 1) + 1 .. Len(ch)
        PROVE  j - 1 \in i + 1 .. Len(t) /\ t[j - 1] = ch[j]
    <3>1. j - 1 \in 1 .. Len(t) /\ j - 1 \in i + 1 .. Len(t) /\ (j - 1) + 1 = j
      BY <1>1
    <3> QED BY <1>1, <3>1
  <2>4. (\A j \in (i + 1) + 1 .. Len(ch) : ch[j].update # t[i].update)
          <=> \A j \in i + 1 .. Len(t) : t[j].update # t[i].update
    BY <2>2, <2>3
  <2> QED BY <2>1, <2>4, Zenon
<1> QED BY <1>2, <1>3, <1>4

\* An update made so far is not the one made next.
LEMMA NotTheNext == \A m, n \in Nat : m <= n => m # n + 1 /\ m <= n + 1
OBVIOUS

\* The packets of a new update behind the others: still sound, in order and ended.
LEMMA AppendFramed ==
  ASSUME NEW ch \in Seq(BookPacket), NEW n \in Nat, SoundChannel(ch, n),
         NEW u \in Updates, NEW pk, Packed(u, n + 1, pk), NEW c, c = ch \o pk
  PROVE  /\ SoundChannel(c, n + 1)
         /\ OrderedChannel(ch) => OrderedChannel(c)
         /\ EndsChannel(ch) => EndsChannel(c)
<1>1. pk \in Seq(BookPacket)
  BY DEF Packed
<1>2. PICK N \in Nat : N = Len(ch)
  OBVIOUS
<1>3. PICK M \in Nat : M = Len(pk)
  BY <1>1
<1>4. /\ c \in Seq(BookPacket) /\ Len(c) = N + M
      /\ \A i \in 1 .. N : i \in 1 .. N + M /\ c[i] = ch[i]
      /\ \A i \in 1 .. M : N + i \in 1 .. N + M /\ c[N + i] = pk[i]
      /\ \A i \in 1 .. N + M : i \in 1 .. N \/ i - N \in 1 .. M
  BY <1>1, <1>2, <1>3, AppendedPackets
<1>5. ASSUME NEW i \in 1 .. N
      PROVE  PacketSound(c[i], n) /\ c[i].update # n + 1 /\ c[i].update <= n + 1
  <2>1. PacketSound(ch[i], n) /\ ch[i] \in BookPacket
    BY <1>2 DEF SoundChannel
  <2>2. ch[i].update \in Nat /\ ch[i].update <= n
    BY <2>1 DEF PacketSound, BookPacket
  <2>3. c[i] = ch[i]
    BY <1>4
  <2>4. ch[i].update # n + 1 /\ ch[i].update <= n + 1
    BY <2>2, NotTheNext
  <2> QED BY <2>1, <2>3, <2>4
<1>6. ASSUME NEW i \in 1 .. N + M, ~(i \in 1 .. N)
      PROVE  i - N \in 1 .. M /\ c[i] = pk[i - N]
  <2>1. i - N \in 1 .. M /\ N + (i - N) = i
    BY <1>4, <1>6
  <2> QED BY <1>4, <2>1
<1>7. ASSUME NEW i \in 1 .. M
      PROVE  /\ pk[i].update = n + 1
             /\ PacketSound(pk[i], n + 1)
             /\ is_last(pk[i].frame.flags_and_count) <=> i = M
  <2>1. /\ pk[i].update = n + 1
        /\ pk[i].frame.message_type = MESSAGE_TYPE_ORDER_BOOK
        /\ Len(pk[i].items) \in 1 .. ChunkSize
        /\ item_count(pk[i].frame.flags_and_count) = Len(pk[i].items)
        /\ is_last(pk[i].frame.flags_and_count) <=> i = M
        /\ PayloadSuffices(pk[i].frame)
    BY <1>3 DEF Packed
  <2> QED BY <2>1 DEF PacketSound
<1>8. SoundChannel(c, n + 1)
  <2> SUFFICES ASSUME NEW i \in 1 .. N + M PROVE PacketSound(c[i], n + 1)
    BY <1>4 DEF SoundChannel
  <2>1. CASE i \in 1 .. N
    <3>1. PacketSound(c[i], n) /\ c[i].update <= n + 1
      BY <1>5, <2>1
    <3> QED BY <3>1, Zenon DEF PacketSound
  <2>2. CASE ~(i \in 1 .. N)
    BY <1>6, <1>7, <2>2
  <2> QED BY <2>1, <2>2
<1>9. ASSUME OrderedChannel(ch) PROVE OrderedChannel(c)
  <2>1. ASSUME NEW i \in 1 .. Len(c), NEW j \in 1 .. Len(c),
               NEW q \in 1 .. Len(c[i].items), NEW r \in 1 .. Len(c[j].items),
               Before(i, q, j, r) /\ c[i].update = c[j].update
        PROVE  InBookOrder(c[i].items[q], c[j].items[r])
    <3>1. i \in 1 .. N + M /\ j \in 1 .. N + M /\ i <= j
      BY <1>4, <2>1 DEF Before
    <3>2. CASE i \in 1 .. N /\ j \in 1 .. N
      BY <1>2, <1>4, <1>9, <2>1, <3>2 DEF OrderedChannel
    <3>3. CASE ~(i \in 1 .. N) /\ ~(j \in 1 .. N)
      <4>1. /\ i - N \in 1 .. M /\ c[i] = pk[i - N]
            /\ j - N \in 1 .. M /\ c[j] = pk[j - N]
        BY <1>6, <3>1, <3>3
      <4>2. PICK a \in 1 .. M : a = i - N
        BY <4>1
      <4>3. PICK b \in 1 .. M : b = j - N
        BY <4>1
      <4>4. a < b \/ (a = b /\ q < r)
        BY <2>1, <3>1, <4>2, <4>3 DEF Before
      <4>5. InBookOrder(pk[a].items[q], pk[b].items[r])
        <5>1. n + 1 \in Nat \ {0} /\ a \in 1 .. Len(pk) /\ b \in 1 .. Len(pk)
          BY <1>3
        <5>2. q \in 1 .. Len(pk[a].items) /\ r \in 1 .. Len(pk[b].items)
          BY <4>1, <4>2, <4>3
        <5> QED BY <4>4, <5>1, <5>2, PacketsInOrder, Zenon
      <4> QED BY <4>1, <4>2, <4>3, <4>5
    <3>4. CASE i \in 1 .. N /\ ~(j \in 1 .. N)
      <4>1. c[i].update # n + 1
        BY <1>5, <3>4
      <4>2. c[j].update = n + 1
        BY <1>6, <1>7, <3>1, <3>4
      <4> QED BY <2>1, <4>1, <4>2
    <3> QED BY <3>1, <3>2, <3>3, <3>4
  <2> QED BY <2>1, Zenon DEF OrderedChannel
<1>10. ASSUME EndsChannel(ch) PROVE EndsChannel(c)
  <2>1. ASSUME NEW i \in 1 .. Len(c), c[i].update # 0
        PROVE  is_last(c[i].frame.flags_and_count)
                 <=> \A j \in i + 1 .. Len(c) : c[j].update # c[i].update
    <3>0. i \in 1 .. N + M
      BY <1>4
    <3>1. CASE i \in 1 .. N
      <4>1. is_last(c[i].frame.flags_and_count)
              <=> \A j \in i + 1 .. N : ch[j].update # c[i].update
        BY <1>2, <1>4, <1>10, <2>1, <3>1 DEF EndsChannel
      <4>2. ASSUME NEW j \in i + 1 .. N
            PROVE  j \in i + 1 .. N + M /\ c[j] = ch[j]
        BY <1>4, <3>1
      <4>3. ASSUME NEW j \in i + 1 .. N + M, ~(j \in i + 1 .. N)
            PROVE  c[j].update # c[i].update
        <5>1. j \in 1 .. N + M /\ ~(j \in 1 .. N)
          BY <3>1, <4>3
        <5>2. c[j].update = n + 1
          BY <1>6, <1>7, <5>1
        <5> QED BY <1>5, <3>1, <5>2
      <4>4. (\A j \in i + 1 .. N : ch[j].update # c[i].update)
              <=> \A j \in i + 1 .. N + M : c[j].update # c[i].update
        BY <4>2, <4>3
      <4> QED BY <1>4, <4>1, <4>4, Zenon
    <3>2. CASE ~(i \in 1 .. N)
      <4>1. PICK a \in 1 .. M : a = i - N
        BY <1>6, <3>0, <3>2
      <4>2. c[i] = pk[a]
        BY <1>6, <3>0, <3>2, <4>1
      <4>3. (is_last(c[i].frame.flags_and_count) <=> a = M) /\ c[i].update = n + 1
        BY <1>7, <4>2
      <4>4. ASSUME NEW j \in i + 1 .. N + M
            PROVE  c[j].update = n + 1
        <5>1. j \in 1 .. N + M /\ ~(j \in 1 .. N)
          BY <3>0, <3>2, <4>4
        <5> QED BY <1>6, <1>7, <5>1
      <4>5. CASE a = M
        <5>1. i + 1 .. N + M = {}
          BY <3>0, <4>1, <4>5
        <5> QED BY <1>4, <4>3, <4>5, <5>1, Zenon
      <4>6. CASE a # M
        <5>1. i + 1 \in i + 1 .. N + M
          BY <3>0, <4>1, <4>6
        <5>2. c[i + 1].update = c[i].update
          BY <4>3, <4>4, <5>1
        <5> QED BY <1>4, <4>3, <4>6, <5>1, <5>2, Zenon
      <4> QED BY <4>5, <4>6
    <3> QED BY <3>1, <3>2
  <2> QED BY <2>1, Zenon DEF EndsChannel
<1> QED BY <1>8, <1>9, <1>10

\* The receiver's book after the items of a packet (ApplyItems).
Applied(rep, items) ==
  LET At(k) == {i \in DOMAIN items : KeyOf(items[i]) = k}
  IN  [k \in DOMAIN rep \cup {KeyOf(items[i]) : i \in DOMAIN items} |->
         IF At(k) = {} THEN rep[k] ELSE quantity(items[Max(At(k))])]

\* A level that no item names keeps its quantity.
LEMMA AppliedElsewhere ==
  ASSUME NEW items \in Seq(Item), NEW rep, NEW k \in DOMAIN rep,
         \A q \in 1 .. Len(items) : KeyOf(items[q]) # k
  PROVE  k \in DOMAIN Applied(rep, items) /\ Applied(rep, items)[k] = rep[k]
<1>1. {i \in DOMAIN items : KeyOf(items[i]) = k} = {}
  OBVIOUS
<1> QED BY <1>1, Zenon DEF Applied

\* Any other has the quantity of the last item that names it.
LEMMA AppliedLast ==
  ASSUME NEW items \in Seq(Item), NEW rep, NEW q \in 1 .. Len(items),
         \A r \in 1 .. Len(items) : KeyOf(items[r]) = KeyOf(items[q]) => ~(q < r)
  PROVE  /\ KeyOf(items[q]) \in DOMAIN Applied(rep, items)
         /\ Applied(rep, items)[KeyOf(items[q])] = quantity(items[q])
<1>1. PICK k : k = KeyOf(items[q])
  OBVIOUS
<1>2. PICK at : at = {i \in DOMAIN items : KeyOf(items[i]) = k}
  OBVIOUS
<1>3. DOMAIN items = 1 .. Len(items) /\ Len(items) \in Nat
  OBVIOUS
<1>4. q \in at /\ \A x \in at : x \in 1 .. Len(items) /\ KeyOf(items[x]) = k
  BY <1>1, <1>2, <1>3
<1>5. \A x \in at : x <= q
  BY <1>1, <1>3, <1>4
<1>6. at # {} /\ at \in SUBSET (1 .. Len(items))
  BY <1>4
<1>7. at \in SUBSET Int
  BY <1>3, <1>6
<1>8. Max(at) = q
  BY <1>4, <1>5, <1>7, MaxIs
<1>9. k \in DOMAIN rep \cup {KeyOf(items[i]) : i \in DOMAIN items}
  BY <1>1, <1>3
<1>10. /\ k \in DOMAIN Applied(rep, items)
       /\ Applied(rep, items)[k] = IF at = {} THEN rep[k] ELSE quantity(items[Max(at)])
  BY <1>2, <1>9 DEF Applied
<1> QED BY <1>1, <1>6, <1>8, <1>10

\* It stays a book: by side and price, with quantities below the flag bit.
LEMMA AppliedType ==
  ASSUME NEW items \in Seq(Item), NEW rep,
         DOMAIN rep \subseteq Sides \X Nat,
         \A k \in DOMAIN rep : rep[k] \in 0 .. SideBit - 1
  PROVE  /\ DOMAIN Applied(rep, items) \subseteq Sides \X Nat
         /\ \A k \in DOMAIN Applied(rep, items) :
              Applied(rep, items)[k] \in 0 .. SideBit - 1
<1>1. SideBit \in Nat \ {0} /\ DOMAIN items = 1 .. Len(items) /\ Len(items) \in Nat
  BY BookAssumption
<1>2. ASSUME NEW i \in DOMAIN items
      PROVE  KeyOf(items[i]) \in Sides \X Nat /\ quantity(items[i]) \in 0 .. SideBit - 1
  <2>1. items[i] \in Item
    OBVIOUS
  <2>2. items[i].price \in Nat /\ items[i].quantity_with_flags \in Nat
    BY <2>1 DEF Item
  <2>3. KeyOf(items[i]) \in Sides \X Nat
    BY <2>2 DEF KeyOf, Sides
  <2>4. quantity(items[i]) \in 0 .. SideBit - 1
    BY <1>1, <2>2 DEF quantity
  <2> QED BY <2>3, <2>4
<1>3. DOMAIN Applied(rep, items) = DOMAIN rep \cup {KeyOf(items[i]) : i \in DOMAIN items}
  BY Zenon DEF Applied
<1>4. ASSUME NEW k \in DOMAIN Applied(rep, items)
      PROVE  Applied(rep, items)[k] \in 0 .. SideBit - 1
  <2>1. PICK at : at = {i \in DOMAIN items : KeyOf(items[i]) = k}
    OBVIOUS
  <2>2. Applied(rep, items)[k] = IF at = {} THEN rep[k] ELSE quantity(items[Max(at)])
    BY <1>3, <1>4, <2>1 DEF Applied
  <2>3. CASE at = {}
    <3>1. k \in DOMAIN rep
      BY <1>3, <1>4, <2>1, <2>3
    <3> QED BY <2>2, <2>3, <3>1
  <2>4. CASE at # {}
    <3>1. at \in SUBSET (1 .. Len(items))
      BY <1>1, <2>1
    <3>2. Max(at) \in at
      BY <1>1, <2>4, <3>1, MaxPlace
    <3>3. Max(at) \in DOMAIN items
      BY <1>1, <3>1, <3>2
    <3> QED BY <1>2, <2>2, <2>4, <3>3
  <2> QED BY <2>3, <2>4
<1>5. DOMAIN Applied(rep, items) \subseteq Sides \X Nat
  BY <1>2, <1>3
<1> QED BY <1>4, <1>5

\* The last item for k is not in the first packet: it is the last without that.
LEMMA TailLast ==
  ASSUME NEW ch \in Seq(BookPacket), ch # << >>, NEW t, t = Tail(ch), NEW k, NEW n, NEW v,
         NEW i \in 1 .. Len(ch), i # 1, NEW q \in 1 .. Len(ch[i].items),
         KeyOf(ch[i].items[q]) = k, ch[i].update = n, quantity(ch[i].items[q]) = v,
         \A j \in 1 .. Len(ch) : \A r \in 1 .. Len(ch[j].items) :
           KeyOf(ch[j].items[r]) = k => ~Before(i, q, j, r)
  PROVE  LastFor(t, k, n, v)
<1>1. /\ Len(t) \in Nat /\ Len(ch) = Len(t) + 1
      /\ \A j \in 1 .. Len(t) : j + 1 \in 1 .. Len(ch) /\ t[j] = ch[j + 1]
  BY TailPackets
<1>2. PICK a \in 1 .. Len(t) : a + 1 = i
  <2>1. i - 1 \in 1 .. Len(t) /\ (i - 1) + 1 = i
    BY <1>1
  <2> QED BY <2>1
<1>3. t[a] = ch[i]
  BY <1>1, <1>2
<1>4. ASSUME NEW j \in 1 .. Len(t), NEW r \in 1 .. Len(t[j].items),
             KeyOf(t[j].items[r]) = k
      PROVE  ~Before(a, q, j, r)
  <2>1. j + 1 \in 1 .. Len(ch) /\ t[j] = ch[j + 1]
    BY <1>1
  <2>2. ~Before(i, q, j + 1, r)
    BY <1>4, <2>1
  <2> QED BY <1>1, <1>2, <2>2 DEF Before
<1>5. q \in 1 .. Len(t[a].items) /\ KeyOf(t[a].items[q]) = k /\ t[a].update = n
      /\ quantity(t[a].items[q]) = v
  BY <1>3
<1> QED BY <1>4, <1>5, Zenon DEF LastFor

\* A packet that gets lost takes nothing along that matters for a level, if it is
\* not of the update that set the level, or has no items.
LEMMA TailDelivered ==
  ASSUME NEW ch \in Seq(BookPacket), ch # << >>, NEW t, t = Tail(ch),
         NEW rep, NEW k, NEW n, NEW v, Delivered(ch, rep, k, n, v),
         ch[1].items = << >> \/ ch[1].update # n
  PROVE  Delivered(t, rep, k, n, v)
<1>1. /\ Len(t) \in Nat /\ Len(ch) = Len(t) + 1
      /\ \A j \in 1 .. Len(t) : j + 1 \in 1 .. Len(ch) /\ t[j] = ch[j + 1]
  BY TailPackets
<1>2. CASE NothingFor(ch, k) /\ k \in DOMAIN rep /\ rep[k] = v
  <2>1. NothingFor(t, k)
    BY <1>1, <1>2 DEF NothingFor
  <2> QED BY <1>2, <2>1 DEF Delivered
<1>3. CASE LastFor(ch, k, n, v)
  <2>1. PICK i \in 1 .. Len(ch) : \E q \in 1 .. Len(ch[i].items) :
          /\ KeyOf(ch[i].items[q]) = k
          /\ ch[i].update = n
          /\ quantity(ch[i].items[q]) = v
          /\ \A j \in 1 .. Len(ch) : \A r \in 1 .. Len(ch[j].items) :
               KeyOf(ch[j].items[r]) = k => ~Before(i, q, j, r)
    BY <1>3 DEF LastFor
  <2>2. i # 1
    BY <2>1
  <2>3. LastFor(t, k, n, v)
    BY <2>1, <2>2, TailLast
  <2> QED BY <2>3 DEF Delivered
<1> QED BY <1>2, <1>3 DEF Delivered

\* A packet that is decoded brings what it has for a level.
LEMMA DecodedDelivered ==
  ASSUME NEW ch \in Seq(BookPacket), ch # << >>, NEW t, t = Tail(ch),
         NEW rep, NEW k, NEW n, NEW v, Delivered(ch, rep, k, n, v),
         NEW items, items = ch[1].items
  PROVE  Delivered(t, Applied(rep, items), k, n, v)
<1>1. /\ Len(t) \in Nat /\ Len(ch) = Len(t) + 1 /\ ch[1] \in BookPacket
      /\ \A j \in 1 .. Len(t) : j + 1 \in 1 .. Len(ch) /\ t[j] = ch[j + 1]
  BY TailPackets
<1>2. items \in Seq(Item) /\ 1 \in 1 .. Len(ch)
  BY <1>1 DEF BookPacket
<1>3. CASE NothingFor(ch, k) /\ k \in DOMAIN rep /\ rep[k] = v
  <2>1. NothingFor(t, k)
    BY <1>1, <1>3 DEF NothingFor
  <2>2. \A q \in 1 .. Len(items) : KeyOf(items[q]) # k
    BY <1>2, <1>3 DEF NothingFor
  <2>3. k \in DOMAIN Applied(rep, items) /\ Applied(rep, items)[k] = rep[k]
    BY <1>2, <1>3, <2>2, AppliedElsewhere
  <2> QED BY <1>3, <2>1, <2>3 DEF Delivered
<1>4. CASE LastFor(ch, k, n, v)
  <2>1. PICK i \in 1 .. Len(ch) : \E q \in 1 .. Len(ch[i].items) :
          /\ KeyOf(ch[i].items[q]) = k
          /\ ch[i].update = n
          /\ quantity(ch[i].items[q]) = v
          /\ \A j \in 1 .. Len(ch) : \A r \in 1 .. Len(ch[j].items) :
               KeyOf(ch[j].items[r]) = k => ~Before(i, q, j, r)
    BY <1>4 DEF LastFor
  <2>2. CASE i # 1
    <3>1. LastFor(t, k, n, v)
      BY <2>1, <2>2, TailLast
    <3> QED BY <3>1 DEF Delivered
  <2>3. CASE i = 1
    <3>1. PICK q \in 1 .. Len(items) :
          /\ KeyOf(items[q]) = k
          /\ quantity(items[q]) = v
          /\ \A j \in 1 .. Len(ch) : \A r \in 1 .. Len(ch[j].items) :
               KeyOf(ch[j].items[r]) = k => ~Before(1, q, j, r)
      BY <2>1, <2>3
    <3>2. \A r \in 1 .. Len(items) : KeyOf(items[r]) = KeyOf(items[q]) => ~(q < r)
      BY <1>2, <3>1 DEF Before
    <3>3. k \in DOMAIN Applied(rep, items) /\ Applied(rep, items)[k] = v
      BY <1>2, <3>1, <3>2, AppliedLast
    <3>4. ASSUME NEW j \in 1 .. Len(t), NEW r \in 1 .. Len(t[j].items)
          PROVE  KeyOf(t[j].items[r]) # k
      <4>1. j + 1 \in 1 .. Len(ch) /\ t[j] = ch[j + 1] /\ 1 < j + 1
        BY <1>1
      <4>2. Before(1, q, j + 1, r)
        BY <4>1 DEF Before
      <4> QED BY <3>1, <4>1, <4>2
    <3> QED BY <3>3, <3>4 DEF Delivered, NothingFor
  <2> QED BY <2>2, <2>3
<1> QED BY <1>3, <1>4 DEF Delivered

\* A new update does not disturb a level that it does not name.
LEMMA AppendUntouched ==
  ASSUME NEW ch \in Seq(BookPacket), NEW n \in Nat \ {0}, NEW u \in Updates,
         NEW pk, Packed(u, n, pk), NEW c, c = ch \o pk,
         NEW l \in Levels, ~Names(u, l), Alone(l),
         NEW rep, NEW m, NEW v, Delivered(ch, rep, Key(l), m, v)
  PROVE  Delivered(c, rep, Key(l), m, v)
<1>1. pk \in Seq(BookPacket)
  BY DEF Packed
<1>2. PICK N \in Nat : N = Len(ch)
  OBVIOUS
<1>3. PICK M \in Nat : M = Len(pk)
  BY <1>1
<1>4. /\ c \in Seq(BookPacket) /\ Len(c) = N + M
      /\ \A i \in 1 .. N : i \in 1 .. N + M /\ c[i] = ch[i]
      /\ \A i \in 1 .. M : N + i \in 1 .. N + M /\ c[N + i] = pk[i]
      /\ \A i \in 1 .. N + M : i \in 1 .. N \/ i - N \in 1 .. M
  BY <1>1, <1>2, <1>3, AppendedPackets
<1>5. ASSUME NEW i \in 1 .. N + M, ~(i \in 1 .. N), NEW q \in 1 .. Len(c[i].items)
      PROVE  KeyOf(c[i].items[q]) # Key(l)
  <2>1. PICK a \in 1 .. M : N + a = i
    <3>1. i - N \in 1 .. M /\ N + (i - N) = i
      BY <1>4, <1>5
    <3> QED BY <3>1
  <2>2. c[i] = pk[a]
    BY <1>4, <2>1
  <2>3. q \in 1 .. Len(pk[a].items) /\ a \in 1 .. Len(pk)
    BY <1>3, <2>2
  <2>4. PICK k \in Levels : Names(u, k) /\ KeyOf(pk[a].items[q]) = Key(k)
    <3>1. Packed(u, n, pk)
      OBVIOUS
    <3>2. \A x \in 1 .. Len(pk) : \A y \in 1 .. Len(pk[x].items) :
            \E k \in Levels : Names(u, k) /\ KeyOf(pk[x].items[y]) = Key(k)
      BY <3>1, PacketsNameLevels
    <3> QED BY <2>3, <3>2, Zenon
  <2> QED BY <2>2, <2>4 DEF Alone
<1>6. CASE NothingFor(ch, Key(l)) /\ Key(l) \in DOMAIN rep /\ rep[Key(l)] = v
  <2>1. ASSUME NEW i \in 1 .. N + M, NEW q \in 1 .. Len(c[i].items)
        PROVE  KeyOf(c[i].items[q]) # Key(l)
    <3>1. CASE i \in 1 .. N
      BY <1>2, <1>4, <1>6, <3>1 DEF NothingFor
    <3> QED BY <1>5, <3>1
  <2>2. NothingFor(c, Key(l))
    BY <1>4, <2>1 DEF NothingFor
  <2> QED BY <1>6, <2>2 DEF Delivered
<1>7. CASE LastFor(ch, Key(l), m, v)
  <2>1. PICK i \in 1 .. N : \E q \in 1 .. Len(ch[i].items) :
          /\ KeyOf(ch[i].items[q]) = Key(l)
          /\ ch[i].update = m
          /\ quantity(ch[i].items[q]) = v
          /\ \A j \in 1 .. Len(ch) : \A r \in 1 .. Len(ch[j].items) :
               KeyOf(ch[j].items[r]) = Key(l) => ~Before(i, q, j, r)
    BY <1>2, <1>7 DEF LastFor
  <2>2. i \in 1 .. N + M /\ c[i] = ch[i]
    BY <1>4
  <2>3. PICK q \in 1 .. Len(c[i].items) :
          /\ KeyOf(c[i].items[q]) = Key(l)
          /\ c[i].update = m
          /\ quantity(c[i].items[q]) = v
          /\ \A j \in 1 .. Len(ch) : \A r \in 1 .. Len(ch[j].items) :
               KeyOf(ch[j].items[r]) = Key(l) => ~Before(i, q, j, r)
    BY <2>1, <2>2
  <2>4. ASSUME NEW j \in 1 .. N + M, NEW r \in 1 .. Len(c[j].items),
               KeyOf(c[j].items[r]) = Key(l)
        PROVE  ~Before(i, q, j, r)
    <3>1. j \in 1 .. N
      BY <1>5, <2>4
    <3>2. c[j] = ch[j] /\ j \in 1 .. Len(ch)
      BY <1>2, <1>4, <3>1
    <3> QED BY <2>3, <2>4, <3>2
  <2>5. LastFor(c, Key(l), m, v)
    BY <1>4, <2>2, <2>3, <2>4, Zenon DEF LastFor
  <2> QED BY <2>5 DEF Delivered
<1> QED BY <1>6, <1>7 DEF Delivered

\* A level that it names is on its way with its new quantity.
LEMMA AppendTouched ==
  ASSUME NEW ch \in Seq(BookPacket), NEW n \in Nat \ {0}, NEW u \in Updates,
         NEW pk, Packed(u, n, pk), NEW c, c = ch \o pk,
         NEW l \in Levels, Names(u, l), Alone(l), NewQuantity(u, l) > 0
  PROVE  LastFor(c, Key(l), n, scale(NewQuantity(u, l)))
<1>0. PICK v : v = scale(NewQuantity(u, l))
  OBVIOUS
<1>1. pk \in Seq(BookPacket)
  BY DEF Packed
<1>2. PICK N \in Nat : N = Len(ch)
  OBVIOUS
<1>3. PICK M \in Nat : M = Len(pk)
  BY <1>1
<1>4. /\ c \in Seq(BookPacket) /\ Len(c) = N + M
      /\ \A i \in 1 .. N : i \in 1 .. N + M /\ c[i] = ch[i]
      /\ \A i \in 1 .. M : N + i \in 1 .. N + M /\ c[N + i] = pk[i]
      /\ \A i \in 1 .. N + M : i \in 1 .. N \/ i - N \in 1 .. M
  BY <1>1, <1>2, <1>3, AppendedPackets
<1>5. PICK a \in 1 .. M : \E q \in 1 .. Len(pk[a].items) :
        /\ KeyOf(pk[a].items[q]) = Key(l)
        /\ pk[a].update = n
        /\ quantity(pk[a].items[q]) = v
        /\ \A j \in 1 .. M : \A r \in 1 .. Len(pk[j].items) :
             KeyOf(pk[j].items[r]) = Key(l) => ~Before(a, q, j, r)
  <2>1. LastFor(pk, Key(l), n, v)
    BY <1>0, PacketsDeliver
  <2> QED BY <1>3, <2>1 DEF LastFor
<1>6. PICK i \in 1 .. N + M : i = N + a
  BY <1>4
<1>7. c[i] = pk[a] /\ pk[a].update = n
  BY <1>3, <1>4, <1>6 DEF Packed
<1>8. PICK q \in 1 .. Len(c[i].items) :
        /\ KeyOf(c[i].items[q]) = Key(l)
        /\ quantity(c[i].items[q]) = v
        /\ \A j \in 1 .. M : \A r \in 1 .. Len(pk[j].items) :
             KeyOf(pk[j].items[r]) = Key(l) => ~Before(a, q, j, r)
  BY <1>5, <1>7
<1>9. ASSUME NEW j \in 1 .. N + M, NEW r \in 1 .. Len(c[j].items),
             KeyOf(c[j].items[r]) = Key(l)
      PROVE  ~Before(i, q, j, r)
  <2>1. CASE j \in 1 .. N
    BY <1>6, <2>1 DEF Before
  <2>2. CASE ~(j \in 1 .. N)
    <3>1. PICK b \in 1 .. M : N + b = j
      <4>1. j - N \in 1 .. M /\ N + (j - N) = j
        BY <1>4, <2>2
      <4> QED BY <4>1
    <3>2. c[j] = pk[b]
      BY <1>4, <3>1
    <3>3. ~Before(a, q, b, r)
      BY <1>8, <1>9, <3>2
    <3> QED BY <1>6, <3>1, <3>3 DEF Before
  <2> QED BY <2>1, <2>2
<1>10. LastFor(c, Key(l), n, v)
  BY <1>4, <1>7, <1>8, <1>9, Zenon DEF LastFor
<1> QED BY <1>0, <1>10

-----------------------------------------------------------------------------
(***************************************************************************)
(* The steps.                                                              *)
(***************************************************************************)

\* What an update gives a level is a quantity.
LEMMA NewQuantityType ==
  ASSUME NEW u \in Updates, NEW l \in Levels, Names(u, l)
  PROVE  NewQuantity(u, l) \in Quantities
<1>1. PICK f : f = LevelsOf(u, l[1])
  OBVIOUS
<1>2. f \in Seq(OrderBookLevel) /\ Len(f) \in Nat
  BY <1>1, BookAssumption DEF LevelsOf
<1>3. PlacesIn(u, l) \in SUBSET (1 .. Len(f)) /\ PlacesIn(u, l) # {}
  BY <1>1, <1>2 DEF PlacesIn, Names
<1>4. PICK p : p = Max(PlacesIn(u, l))
  OBVIOUS
<1>5. p \in 1 .. Len(f)
  <2>1. p \in PlacesIn(u, l)
    BY <1>2, <1>3, <1>4, MaxPlace
  <2> QED BY <1>3, <2>1
<1>6. f[p] \in OrderBookLevel
  BY <1>2, <1>5
<1> QED BY <1>1, <1>4, <1>6 DEF NewQuantity, OrderBookLevel

\* The book of the exchange after an update.
LEMMA BookChanged ==
  ASSUME TypeOK, NEW u \in Updates, BookChanges(u)
  PROVE  /\ book' \in [Levels -> Quantities]
         /\ updates' \in 0 .. MaxUpdates
         /\ updates + 1 \in 1 .. MaxUpdates
         /\ changed' \in [Levels -> 0 .. MaxUpdates]
         /\ \A l \in Levels : Names(u, l) =>
              book'[l] = NewQuantity(u, l) /\ changed'[l] = updates + 1
         /\ \A l \in Levels : ~Names(u, l) =>
              book'[l] = book[l] /\ changed'[l] = changed[l]
<1>1. MaxUpdates \in Nat /\ updates \in 0 .. MaxUpdates /\ updates < MaxUpdates
      /\ updates' = updates + 1
  BY BookAssumption DEF TypeOK, BookChanges
<1>2. updates' \in 0 .. MaxUpdates /\ updates + 1 \in 1 .. MaxUpdates
  BY <1>1
<1>3. /\ book' = [l \in Levels |-> IF ~Names(u, l) THEN book[l] ELSE NewQuantity(u, l)]
      /\ changed' = [l \in Levels |-> IF ~Names(u, l) THEN changed[l] ELSE updates + 1]
  BY DEF BookChanges, Names, NewQuantity
<1>4. book' \in [Levels -> Quantities]
  BY <1>3, NewQuantityType DEF TypeOK
<1>5. changed' \in [Levels -> 0 .. MaxUpdates]
  <2>1. updates + 1 \in 0 .. MaxUpdates
    BY <1>1
  <2> QED BY <1>3, <2>1 DEF TypeOK
<1> QED BY <1>2, <1>3, <1>4, <1>5

\* The first state.
LEMMA BookStart == Init => TypeOK /\ BookInv
<1> SUFFICES ASSUME Init PROVE TypeOK /\ BookInv
  OBVIOUS
<1>1. TypeOK
  BY BookAssumption DEF Init, TypeOK
<1>2. DecoderAgrees
  <2>1. ChunkSize \in Nat
    BY BookAssumption DEF LevelsPerPacket
  <2>2. ChunkSize * 0 = 0
    BY <2>1
  <2> QED BY <2>2 DEF Init, DecoderAgrees
<1>3. SoundChannel(channel, updates) /\ OrderedChannel(channel) /\ EndsChannel(channel)
  <2>1. 1 .. Len(channel) = {}
    BY DEF Init
  <2> QED BY <2>1, Zenon DEF SoundChannel, OrderedChannel, EndsChannel
<1>4. LevelsDelivered
  BY DEF Init, LevelsDelivered
<1> QED BY <1>1, <1>2, <1>3, <1>4 DEF BookInv

\* An update is sent.
LEMMA DepthUpdateStep ==
  ASSUME TypeOK, BookInv, NEW u \in Updates, DepthUpdate(u)
  PROVE  TypeOK' /\ BookInv'
<1>1. PICK n \in Nat : n = updates
  BY BookAssumption DEF TypeOK
<1>2. PICK pk : pk = order_book_packets(u, n + 1)
  OBVIOUS
<1>3. PICK ch \in Seq(BookPacket) : ch = channel
  BY DEF TypeOK
<1>4. PICK c : c = ch \o pk
  OBVIOUS
<1>5. n + 1 \in Nat \ {0} /\ Packed(u, n + 1, pk)
  <2>1. n + 1 \in Nat \ {0}
    OBVIOUS
  <2> QED BY <1>2, <2>1, PacketsOfUpdate
<1>6. channel' = c /\ updates' = n + 1 /\ UNCHANGED << replica, stats, errors, lost >>
  BY <1>1, <1>2, <1>3, <1>4 DEF DepthUpdate, BookChanges
<1>7. pk \in Seq(BookPacket) /\ c \in Seq(BookPacket)
  <2>1. pk \in Seq(BookPacket)
    BY <1>5 DEF Packed
  <2> QED BY <1>4, <2>1
<1>8. BookChanges(u)
  BY DEF DepthUpdate
<1>9. TypeOK'
  BY <1>6, <1>7, <1>8, BookChanged DEF TypeOK
<1>10. SoundChannel(c, n + 1) /\ OrderedChannel(c) /\ EndsChannel(c)
  <2>1. SoundChannel(ch, n) /\ OrderedChannel(ch) /\ EndsChannel(ch)
    BY <1>1, <1>3 DEF BookInv
  <2> QED BY <1>4, <1>5, <2>1, AppendFramed
<1>11. DecoderAgrees'
  BY <1>6 DEF BookInv, DecoderAgrees
<1>12. ASSUME NEW l \in Levels, book'[l] > 0, Alone(l), changed'[l] \notin lost
       PROVE  Delivered(c, replica, Key(l), changed'[l], scale(book'[l]))
  <2>1. CASE Names(u, l)
    <3>1. book'[l] = NewQuantity(u, l) /\ changed'[l] = n + 1
      BY <1>1, <1>8, <2>1, BookChanged
    <3>2. LastFor(c, Key(l), n + 1, scale(NewQuantity(u, l)))
      BY <1>4, <1>5, <1>12, <2>1, <3>1, AppendTouched
    <3> QED BY <3>1, <3>2 DEF Delivered
  <2>2. CASE ~Names(u, l)
    <3>1. book'[l] = book[l] /\ changed'[l] = changed[l]
      BY <1>8, <2>2, BookChanged
    <3>2. Delivered(ch, replica, Key(l), changed[l], scale(book[l]))
      BY <1>3, <1>12, <3>1 DEF BookInv, LevelsDelivered
    <3>3. Delivered(c, replica, Key(l), changed[l], scale(book[l]))
      BY <1>4, <1>5, <1>12, <2>2, <3>2, AppendUntouched
    <3> QED BY <3>1, <3>3
  <2> QED BY <2>1, <2>2
<1>13. LevelsDelivered'
  BY <1>6, <1>12 DEF LevelsDelivered
<1> QED BY <1>6, <1>9, <1>10, <1>11, <1>13 DEF BookInv

\* An update is not sent: it counts as lost.
LEMMA UpdateMissedStep ==
  ASSUME TypeOK, BookInv, NEW u \in Updates, UpdateMissed(u)
  PROVE  TypeOK' /\ BookInv'
<1>1. /\ BookChanges(u) /\ lost' = lost \cup {updates + 1}
      /\ UNCHANGED << channel, replica, stats, errors >> /\ updates' = updates + 1
  BY DEF UpdateMissed, BookChanges
<1>2. TypeOK'
  <2>1. lost' \subseteq 1 .. MaxUpdates
    BY <1>1, BookChanged DEF TypeOK
  <2> QED BY <1>1, <2>1, BookChanged DEF TypeOK
<1>3. SoundChannel(channel, updates + 1)
  <2> SUFFICES ASSUME NEW i \in 1 .. Len(channel)
               PROVE  PacketSound(channel[i], updates + 1)
    BY DEF SoundChannel
  <2>1. PacketSound(channel[i], updates)
    BY DEF BookInv, SoundChannel
  <2>2. channel[i] \in BookPacket /\ updates \in Nat
    BY BookAssumption DEF TypeOK
  <2>3. channel[i].update \in Nat /\ channel[i].update <= updates
    BY <2>1, <2>2 DEF BookPacket, PacketSound
  <2>4. channel[i].update <= updates + 1
    BY <2>2, <2>3
  <2> QED BY <2>1, <2>4, Zenon DEF PacketSound
<1>4. OrderedChannel(channel)' /\ EndsChannel(channel)' /\ SoundChannel(channel, updates)'
  BY <1>1, <1>3 DEF BookInv
<1>5. DecoderAgrees'
  BY <1>1 DEF BookInv, DecoderAgrees
<1>6. ASSUME NEW l \in Levels, book'[l] > 0, Alone(l), changed'[l] \notin lost'
      PROVE  Delivered(channel, replica, Key(l), changed'[l], scale(book'[l]))
  <2>1. ~Names(u, l)
    BY <1>1, <1>6, BookChanged
  <2>2. book'[l] = book[l] /\ changed'[l] = changed[l]
    BY <1>1, <2>1, BookChanged
  <2>3. Delivered(channel, replica, Key(l), changed[l], scale(book[l]))
    BY <1>1, <1>6, <2>2 DEF BookInv, LevelsDelivered
  <2> QED BY <2>2, <2>3
<1>7. LevelsDelivered'
  BY <1>1, <1>6 DEF LevelsDelivered
<1> QED BY <1>2, <1>4, <1>5, <1>7 DEF BookInv

\* The packets of other kinds hold one item and are long enough for it.
LEMMA OtherFramesSound ==
  ASSUME NEW f \in OtherFrames
  PROVE  /\ f \in Frame
         /\ f.message_type # MESSAGE_TYPE_ORDER_BOOK
         /\ item_count(f.flags_and_count) = 1
         /\ f.message_type = MESSAGE_TYPE_TRADE_TICK => PayloadSuffices(f)
<1>1. item_count(set_flags_and_count(TRUE, 1)) = 1
  BY DEF item_count, set_flags_and_count
<1>2. build_trade_packets[1] = create_packet(MESSAGE_TYPE_TRADE_TICK, TRUE, 1, TradeTickItemSize)
  <2>1. total_chunks(1, TradesPerPacket) = 1 /\ chunk_len(1, TradesPerPacket, 1) = 1
    BY DEF total_chunks, chunk_len, TradesPerPacket
  <2>2. build_trade_packets =
          [i \in 1 .. 1 |-> create_packet(MESSAGE_TYPE_TRADE_TICK, i = 1,
                                          chunk_len(1, TradesPerPacket, i), TradeTickItemSize)]
    BY <2>1 DEF build_trade_packets, chunk_frames
  <2>3. build_trade_packets[1] =
          create_packet(MESSAGE_TYPE_TRADE_TICK, 1 = 1, 1, TradeTickItemSize)
    BY <2>1, <2>2
  <2>4. (1 = 1) = TRUE
    OBVIOUS
  <2> QED BY <2>3, <2>4
<1>3. ASSUME NEW type \in MessageTypes, NEW size \in Nat
      PROVE  /\ create_packet(type, TRUE, 1, size) \in Frame
             /\ create_packet(type, TRUE, 1, size).message_type = type
             /\ item_count(create_packet(type, TRUE, 1, size).flags_and_count) = 1
             /\ create_packet(type, TRUE, 1, size).size = PacketHeaderSize + size
  <2>1. create_packet(type, TRUE, 1, size) \in Frame
    BY CreatePacketType
  <2>2. 1 * size = size
    OBVIOUS
  <2> QED BY <1>1, <2>1, <2>2 DEF create_packet
<1>4. CASE f = build_trade_packets[1]
  <2>1. /\ f \in Frame /\ f.message_type = MESSAGE_TYPE_TRADE_TICK
        /\ item_count(f.flags_and_count) = 1
        /\ f.size = PacketHeaderSize + TradeTickItemSize
    <3>1. MESSAGE_TYPE_TRADE_TICK \in MessageTypes /\ TradeTickItemSize \in Nat
      BY BuilderConstants
    <3>2. f = create_packet(MESSAGE_TYPE_TRADE_TICK, TRUE, 1, TradeTickItemSize)
      BY <1>2, <1>4
    <3> QED BY <1>3, <3>1, <3>2, Zenon
  <2>2. PayloadSuffices(f)
    BY <2>1 DEF PayloadSuffices, ItemsInPayload, PacketHeaderSize, TradeTickItemSize,
                OrderBookItemSize
  <2> QED BY <2>1, <2>2 DEF MESSAGE_TYPE_TRADE_TICK, MESSAGE_TYPE_ORDER_BOOK
<1>5. CASE f = build_single_value_packet(MESSAGE_TYPE_MARK_PRICE)
  <2>1. /\ f \in Frame /\ f.message_type = MESSAGE_TYPE_MARK_PRICE
        /\ item_count(f.flags_and_count) = 1
    <3>1. MESSAGE_TYPE_MARK_PRICE \in MessageTypes /\ PriceValueItemSize \in Nat
          /\ FundingRateItemSize \in Nat
      BY BuilderConstants
    <3> QED BY <1>3, <1>5, <3>1 DEF build_single_value_packet
  <2> QED BY <2>1 DEF MESSAGE_TYPE_TRADE_TICK, MESSAGE_TYPE_ORDER_BOOK, MESSAGE_TYPE_MARK_PRICE
<1>6. CASE f = build_event_packet_with_exchange
  <2>1. /\ f \in Frame /\ f.message_type = MESSAGE_TYPE_CONNECTION_STATUS
        /\ item_count(f.flags_and_count) = 1
    <3>1. MESSAGE_TYPE_CONNECTION_STATUS \in MessageTypes /\ ConnectionStatusSize \in Nat
      BY BuilderConstants
    <3> QED BY <1>3, <1>6, <3>1 DEF build_event_packet_with_exchange
  <2> QED BY <2>1 DEF MESSAGE_TYPE_TRADE_TICK, MESSAGE_TYPE_ORDER_BOOK,
                      MESSAGE_TYPE_CONNECTION_STATUS
<1> QED BY <1>4, <1>5, <1>6 DEF OtherFrames

\* A packet of another kind is sent.
LEMMA OtherPacketStep ==
  ASSUME TypeOK, BookInv, NEW f \in OtherFrames, OtherPacket(f)
  PROVE  TypeOK' /\ BookInv'
<1>1. PICK p : p = [frame |-> f, items |-> << >>, update |-> 0]
  OBVIOUS
<1>2. PICK c : c = << p >>
  OBVIOUS
<1>3. /\ channel = << >> /\ channel' = c
      /\ UNCHANGED << book, replica, stats, errors, updates, changed, lost >>
  BY <1>1, <1>2 DEF OtherPacket
<1>4. /\ p.frame = f /\ p.items = << >> /\ p.update = 0 /\ p \in BookPacket
  BY <1>1, OtherFramesSound DEF BookPacket
<1>5. c \in Seq(BookPacket) /\ Len(c) = 1 /\ c[1] = p
  BY <1>2, <1>4
<1>6. TypeOK'
  BY <1>3, <1>5 DEF TypeOK
<1>7. updates \in Nat
  BY BookAssumption DEF TypeOK
<1>8. PacketSound(p, updates)
  <2>1. 0 <= updates
    BY <1>7
  <2>2. /\ f.message_type # MESSAGE_TYPE_ORDER_BOOK
        /\ item_count(f.flags_and_count) = 1
        /\ f.message_type = MESSAGE_TYPE_TRADE_TICK => PayloadSuffices(f)
    BY OtherFramesSound
  <2> QED BY <1>4, <2>1, <2>2 DEF PacketSound
<1>9. \A i \in 1 .. Len(c) : i = 1 /\ Len(c[i].items) = 0 /\ c[i].update = 0
  BY <1>4, <1>5
<1>10. SoundChannel(c, updates)
  BY <1>5, <1>8, <1>9 DEF SoundChannel
<1>11. OrderedChannel(c) /\ EndsChannel(c)
  BY <1>9 DEF OrderedChannel, EndsChannel
<1>12. ASSUME NEW rep, NEW k, NEW n, NEW v, Delivered(channel, rep, k, n, v)
       PROVE  Delivered(c, rep, k, n, v)
  <2>1. ~LastFor(channel, k, n, v)
    BY <1>3 DEF LastFor
  <2>2. NothingFor(c, k)
    BY <1>9 DEF NothingFor
  <2> QED BY <1>12, <2>1, <2>2 DEF Delivered
<1>13. LevelsDelivered'
  BY <1>3, <1>12 DEF BookInv, LevelsDelivered
<1>14. DecoderAgrees'
  BY <1>3 DEF BookInv, DecoderAgrees
<1> QED BY <1>3, <1>6, <1>10, <1>11, <1>13, <1>14 DEF BookInv

\* A packet is lost: its update has not arrived whole.
LEMMA PacketLostStep ==
  ASSUME TypeOK, BookInv, PacketLost
  PROVE  TypeOK' /\ BookInv'
<1>1. PICK ch \in Seq(BookPacket) : ch = channel
  BY DEF TypeOK
<1>2. PICK t : t = Tail(ch)
  OBVIOUS
<1>3. ch # << >> /\ channel' = t
      /\ UNCHANGED << book, replica, stats, errors, updates, changed >>
  BY <1>1, <1>2 DEF PacketLost
<1>4. PICK p \in BookPacket : p = ch[1] /\ p = Head(ch)
  BY <1>2, <1>3, TailPackets
<1>5. t \in Seq(BookPacket) /\ 1 \in 1 .. Len(ch)
  BY <1>2, <1>3, TailPackets
<1>6. lost' = lost \cup ({p.update} \ {0})
  BY <1>1, <1>4 DEF PacketLost
<1>7. PacketSound(p, updates) /\ p.update \in Nat /\ updates \in 0 .. MaxUpdates /\ MaxUpdates \in Nat
  BY <1>1, <1>4, <1>5, BookAssumption DEF BookInv, SoundChannel, BookPacket, TypeOK
<1>8. p.update <= updates /\ (p.update = 0 => p.items = << >>)
  BY <1>7 DEF PacketSound
<1>9. lost' \subseteq 1 .. MaxUpdates
  <2>1. p.update # 0 => p.update \in 1 .. MaxUpdates
    BY <1>7, <1>8
  <2>2. lost \subseteq 1 .. MaxUpdates
    BY DEF TypeOK
  <2> QED BY <1>6, <2>1, <2>2
<1>10. TypeOK'
  BY <1>3, <1>5, <1>9 DEF TypeOK
<1>11. SoundChannel(t, updates) /\ OrderedChannel(t) /\ EndsChannel(t)
  <2>1. SoundChannel(ch, updates) /\ OrderedChannel(ch) /\ EndsChannel(ch)
    BY <1>1 DEF BookInv
  <2>2. PICK n : n = updates
    OBVIOUS
  <2>3. SoundChannel(t, n) /\ OrderedChannel(t) /\ EndsChannel(t)
    BY <1>2, <1>3, <2>1, <2>2, TailFramed
  <2> QED BY <2>2, <2>3
<1>12. DecoderAgrees'
  BY <1>3 DEF BookInv, DecoderAgrees
<1>13. ASSUME NEW l \in Levels, book[l] > 0, Alone(l), changed[l] \notin lost'
       PROVE  Delivered(t, replica, Key(l), changed[l], scale(book[l]))
  <2>1. changed[l] \notin lost /\ (p.update = changed[l] => p.update = 0)
    BY <1>6, <1>13
  <2>2. Delivered(ch, replica, Key(l), changed[l], scale(book[l]))
    BY <1>1, <1>13, <2>1 DEF BookInv, LevelsDelivered
  <2>3. ch[1].items = << >> \/ ch[1].update # changed[l]
    BY <1>4, <1>8, <2>1
  <2> QED BY <1>2, <1>3, <2>2, <2>3, TailDelivered
<1>14. LevelsDelivered'
  BY <1>3, <1>13 DEF LevelsDelivered
<1> QED BY <1>3, <1>10, <1>11, <1>12, <1>14 DEF BookInv

\* The decoder's counters after a packet: its kind, n items.
LEMMA CountersAgree ==
  ASSUME NEW K \in Nat, NEW packets \in Nat, NEW items \in Nat, NEW n \in 1 .. K,
         packets <= items, items <= K * packets
  PROVE  packets + 1 <= items + n /\ items + n <= K * (packets + 1)
<1>1. K * (packets + 1) = K * packets + K /\ K * packets \in Nat
  OBVIOUS
<1> QED BY <1>1

\* A packet is decoded.
LEMMA DecodeStep ==
  ASSUME TypeOK, BookInv, decode_packet
  PROVE  TypeOK' /\ BookInv'
<1>1. PICK ch \in Seq(BookPacket) : ch = channel
  BY DEF TypeOK
<1>2. PICK t : t = Tail(ch)
  OBVIOUS
<1>3. ch # << >> /\ channel' = t /\ UNCHANGED << book, updates, changed, lost >>
  BY <1>1, <1>2 DEF decode_packet
<1>4. PICK p \in BookPacket : p = ch[1] /\ p = Head(ch)
  BY <1>2, <1>3, TailPackets
<1>5. t \in Seq(BookPacket) /\ 1 \in 1 .. Len(ch)
  BY <1>2, <1>3, TailPackets
<1>6. PacketSound(p, updates) /\ p.update \in Nat /\ p.items \in Seq(Item)
  BY <1>1, <1>4, <1>5 DEF BookInv, SoundChannel, BookPacket
<1>7. PICK count : count = item_count(p.frame.flags_and_count)
  OBVIOUS
<1>8. PICK type : type = p.frame.message_type
  OBVIOUS
<1>9. /\ stats' = [stats EXCEPT
            !.total_packets = @ + 1,
            !.orderbook_packets = IF type = MESSAGE_TYPE_ORDER_BOOK THEN @ + 1 ELSE @,
            !.orderbook_items = IF type = MESSAGE_TYPE_ORDER_BOOK THEN @ + count ELSE @,
            !.tradetick_packets = IF type = MESSAGE_TYPE_TRADE_TICK THEN @ + 1 ELSE @,
            !.tradetick_items = IF type = MESSAGE_TYPE_TRADE_TICK THEN @ + count ELSE @]
      /\ errors' = IF (type = MESSAGE_TYPE_ORDER_BOOK \/ type = MESSAGE_TYPE_TRADE_TICK)
                        /\ ~PayloadSuffices(p.frame)
                   THEN errors + 1 ELSE errors
      /\ IF type = MESSAGE_TYPE_ORDER_BOOK THEN ApplyItems(ItemsRead(p)) ELSE UNCHANGED replica
  BY <1>1, <1>4, <1>7, <1>8 DEF decode_packet
<1>10. errors' = errors
  BY <1>6, <1>8, <1>9 DEF PacketSound
<1>11. MESSAGE_TYPE_ORDER_BOOK # MESSAGE_TYPE_TRADE_TICK
  BY DEF MESSAGE_TYPE_ORDER_BOOK, MESSAGE_TYPE_TRADE_TICK
<1>12. /\ type = MESSAGE_TYPE_ORDER_BOOK => count = Len(p.items) /\ count \in 1 .. ChunkSize
       /\ type # MESSAGE_TYPE_ORDER_BOOK => count = 1 /\ p.items = << >>
  BY <1>6, <1>7, <1>8 DEF PacketSound
<1>13. ChunkSize \in Nat /\ count \in Nat
  BY <1>12, BookAssumption DEF LevelsPerPacket
<1>14. PICK tp \in Nat, bp \in Nat, tt \in Nat, bi \in Nat, ti \in Nat :
         stats = [total_packets |-> tp, orderbook_packets |-> bp, tradetick_packets |-> tt,
                  orderbook_items |-> bi, tradetick_items |-> ti]
  <2>1. stats \in [total_packets : Nat, orderbook_packets : Nat, tradetick_packets : Nat,
                   orderbook_items : Nat, tradetick_items : Nat]
    BY DEF TypeOK
  <2> QED BY <2>1
<1>15. /\ errors = 0 /\ bp <= bi /\ bi <= ChunkSize * bp /\ ti = tt
  BY <1>14 DEF BookInv, DecoderAgrees
<1>16. stats' = [total_packets |-> tp + 1,
                 orderbook_packets |-> IF type = MESSAGE_TYPE_ORDER_BOOK THEN bp + 1 ELSE bp,
                 tradetick_packets |-> IF type = MESSAGE_TYPE_TRADE_TICK THEN tt + 1 ELSE tt,
                 orderbook_items |-> IF type = MESSAGE_TYPE_ORDER_BOOK THEN bi + count ELSE bi,
                 tradetick_items |-> IF type = MESSAGE_TYPE_TRADE_TICK THEN ti + count ELSE ti]
  BY <1>9, <1>14
<1>17. stats' \in [total_packets : Nat, orderbook_packets : Nat, tradetick_packets : Nat,
                   orderbook_items : Nat, tradetick_items : Nat]
  BY <1>13, <1>16
<1>18. DecoderAgrees'
  <2>1. CASE type = MESSAGE_TYPE_ORDER_BOOK
    <3>1. /\ stats'.orderbook_packets = bp + 1 /\ stats'.orderbook_items = bi + count
          /\ stats'.tradetick_packets = tt /\ stats'.tradetick_items = ti
      BY <1>11, <1>16, <2>1
    <3>2. count \in 1 .. ChunkSize
      BY <1>12, <2>1
    <3>3. bp + 1 <= bi + count /\ bi + count <= ChunkSize * (bp + 1)
      BY <1>13, <1>15, <3>2, CountersAgree
    <3> QED BY <1>10, <1>15, <3>1, <3>3 DEF DecoderAgrees
  <2>2. CASE type # MESSAGE_TYPE_ORDER_BOOK
    <3>1. /\ stats'.orderbook_packets = bp /\ stats'.orderbook_items = bi
      BY <1>16, <2>2
    <3>2. stats'.tradetick_packets = stats'.tradetick_items
      BY <1>12, <1>15, <1>16, <2>2
    <3> QED BY <1>10, <1>15, <3>1, <3>2 DEF DecoderAgrees
  <2> QED BY <2>1, <2>2
<1>19. SoundChannel(t, updates) /\ OrderedChannel(t) /\ EndsChannel(t)
  <2>1. SoundChannel(ch, updates) /\ OrderedChannel(ch) /\ EndsChannel(ch)
    BY <1>1 DEF BookInv
  <2>2. PICK n : n = updates
    OBVIOUS
  <2>3. SoundChannel(t, n) /\ OrderedChannel(t) /\ EndsChannel(t)
    BY <1>2, <1>3, <2>1, <2>2, TailFramed
  <2> QED BY <2>2, <2>3
<1>20. CASE type = MESSAGE_TYPE_ORDER_BOOK
  <2>1. ItemsRead(p) = p.items
    <3>1. PayloadSuffices(p.frame) /\ count = Len(p.items)
      BY <1>6, <1>8, <1>12, <1>20 DEF PacketSound
    <3>2. SubSeq(p.items, 1, Len(p.items)) = p.items
      BY <1>6
    <3> QED BY <1>7, <3>1, <3>2 DEF ItemsRead
  <2>2. replica' = Applied(replica, p.items)
    <3>1. ApplyItems(p.items)
      BY <1>9, <1>20, <2>1
    <3> QED BY <3>1, Zenon DEF ApplyItems, Applied
  <2>3. PICK rep : rep = replica
    OBVIOUS
  <2>4. PICK items : items = p.items
    OBVIOUS
  <2>5. TypeOK'
    <3>1. /\ DOMAIN replica' \subseteq Sides \X Nat
          /\ \A k \in DOMAIN replica' : replica'[k] \in 0 .. SideBit - 1
      <4>1. /\ DOMAIN rep \subseteq Sides \X Nat
            /\ \A k \in DOMAIN rep : rep[k] \in 0 .. SideBit - 1
        BY <2>3 DEF TypeOK
      <4> QED BY <1>6, <2>2, <2>3, <4>1, AppliedType
    <3> QED BY <1>3, <1>5, <1>10, <1>17, <3>1 DEF TypeOK
  <2>6. ASSUME NEW l \in Levels, book[l] > 0, Alone(l), changed[l] \notin lost
        PROVE  Delivered(t, Applied(rep, items), Key(l), changed[l], scale(book[l]))
    <3>1. Delivered(ch, rep, Key(l), changed[l], scale(book[l]))
      BY <1>1, <2>3, <2>6 DEF BookInv, LevelsDelivered
    <3> QED BY <1>2, <1>3, <1>4, <2>4, <3>1, DecodedDelivered
  <2>7. LevelsDelivered'
    BY <1>3, <2>2, <2>3, <2>4, <2>6 DEF LevelsDelivered
  <2> QED BY <1>3, <1>18, <1>19, <2>5, <2>7 DEF BookInv
<1>21. CASE type # MESSAGE_TYPE_ORDER_BOOK
  <2>1. replica' = replica
    BY <1>9, <1>21
  <2>2. TypeOK'
    BY <1>3, <1>5, <1>10, <1>17, <2>1 DEF TypeOK
  <2>3. ASSUME NEW l \in Levels, book[l] > 0, Alone(l), changed[l] \notin lost
        PROVE  Delivered(t, replica, Key(l), changed[l], scale(book[l]))
    <3>1. Delivered(ch, replica, Key(l), changed[l], scale(book[l]))
      BY <1>1, <2>3 DEF BookInv, LevelsDelivered
    <3>2. ch[1].items = << >>
      BY <1>4, <1>12, <1>21
    <3> QED BY <1>2, <1>3, <3>1, <3>2, TailDelivered
  <2>4. LevelsDelivered'
    BY <1>3, <2>1, <2>3 DEF LevelsDelivered
  <2> QED BY <1>3, <1>18, <1>19, <2>2, <2>4 DEF BookInv
<1> QED BY <1>20, <1>21

-----------------------------------------------------------------------------
(***************************************************************************)
(* The theorems.                                                           *)
(***************************************************************************)

\* The inductive invariant holds in every state: what is on its way is framed and
\* sound, the decoder's counters agree with it, and of every level the last item
\* that was sent is on its way or applied, unless its update was lost (Spec).
THEOREM BookInvariant == Spec => [](TypeOK /\ BookInv)
<1>1. Init => TypeOK /\ BookInv
  BY BookStart
<1>2. TypeOK /\ BookInv /\ [Next]_vars => TypeOK' /\ BookInv'
  <2> SUFFICES ASSUME TypeOK, BookInv, [Next]_vars PROVE TypeOK' /\ BookInv'
    OBVIOUS
  <2>1. ASSUME NEW u \in Updates, DepthUpdate(u) PROVE TypeOK' /\ BookInv'
    BY <2>1, DepthUpdateStep
  <2>2. ASSUME NEW u \in Updates, UpdateMissed(u) PROVE TypeOK' /\ BookInv'
    BY <2>2, UpdateMissedStep
  <2>3. ASSUME NEW f \in OtherFrames, OtherPacket(f) PROVE TypeOK' /\ BookInv'
    BY <2>3, OtherPacketStep
  <2>4. CASE PacketLost
    BY <2>4, PacketLostStep
  <2>5. CASE decode_packet
    BY <2>5, DecodeStep
  <2>6. CASE UNCHANGED vars
    <3>1. TypeOK'
      BY <2>6 DEF vars, TypeOK
    <3>2. BookInv'
      BY <2>6 DEF vars, BookInv, DecoderAgrees, LevelsDelivered
    <3> QED BY <3>1, <3>2
  <2> QED BY <2>1, <2>2, <2>3, <2>4, <2>5, <2>6 DEF Next
<1> QED BY <1>1, <1>2, PTL DEF Spec

\* Every variable keeps its type; in particular, the receiver's quantities stay
\* below the flag bit (OrderBookItem, decode_packet).
THEOREM TypeCorrect == Spec => []TypeOK
BY BookInvariant, PTL

\* The packets of an update are in the documented order and framed, whatever the
\* update, whatever got lost before them (build_order_book_packets).
THEOREM UpdatesAreFramedTheorem == Spec => []UpdatesAreFramed
<1>1. TypeOK /\ BookInv => UpdatesAreFramed
  <2> SUFFICES ASSUME TypeOK, BookInv PROVE UpdatesAreFramed
    OBVIOUS
  <2>1. ASSUME NEW i \in DOMAIN channel, channel[i].update # 0
        PROVE  /\ item_count(channel[i].frame.flags_and_count) = Len(channel[i].items)
               /\ channel[i].items # << >>
    <3>1. DOMAIN channel = 1 .. Len(channel)
      BY DEF TypeOK
    <3>2. PacketSound(channel[i], updates)
      BY <3>1 DEF BookInv, SoundChannel
    <3>3. /\ Len(channel[i].items) \in 1 .. ChunkSize
          /\ item_count(channel[i].frame.flags_and_count) = Len(channel[i].items)
      BY <2>1, <3>2 DEF PacketSound
    <3>4. Len(channel[i].items) # 0
      BY <3>3, BookAssumption DEF LevelsPerPacket
    <3> QED BY <3>3, <3>4
  <2> QED BY <2>1 DEF BookInv, UpdatesAreFramed
<1> QED BY <1>1, BookInvariant, PTL

\* The decoder refuses no packet of the feeder, and its counters fit together
\* (decode_packet).
THEOREM DecoderAgreesTheorem == Spec => []DecoderAgrees
<1>1. TypeOK /\ BookInv => DecoderAgrees
  BY DEF BookInv
<1> QED BY <1>1, BookInvariant, PTL

\* A level of the book whose update arrived whole is known to the receiver, on its
\* side and with its quantity up to scaling (build_order_book_packets,
\* decode_order_book_items).
THEOREM LiveLevelsArriveTheorem == Spec => []LiveLevelsArrive
<1>1. TypeOK /\ BookInv => LiveLevelsArrive
  <2> SUFFICES ASSUME TypeOK, BookInv, NEW l \in Levels, book[l] > 0, Alone(l),
                      changed[l] \notin lost, ~InFlight(changed[l])
               PROVE  /\ Key(l) \in DOMAIN replica
                      /\ replica[Key(l)] > 0
                      /\ \E t \in ScaleRange(book[l]) : replica[Key(l)] = Saturated(t)
    BY DEF LiveLevelsArrive
  <2>1. Delivered(channel, replica, Key(l), changed[l], scale(book[l]))
    BY DEF BookInv, LevelsDelivered
  <2>2. DOMAIN channel = 1 .. Len(channel)
    BY DEF TypeOK
  <2>3. ~LastFor(channel, Key(l), changed[l], scale(book[l]))
    BY <2>2 DEF LastFor, InFlight
  <2>4. Key(l) \in DOMAIN replica /\ replica[Key(l)] = scale(book[l])
    BY <2>1, <2>3 DEF Delivered
  <2>5. book[l] \in Prices \cup Quantities
    BY DEF TypeOK
  <2> QED BY <2>4, <2>5, ScaleBounds
<1> QED BY <1>1, BookInvariant, PTL
=============================================================================
