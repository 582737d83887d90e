----------------------------- MODULE SumLemmas -----------------------------
(***************************************************************************)
(* Sums over finite sets: what SumFunction of the module Functions, a fold *)
(* that takes the elements in an arbitrary order, comes to.  The induction *)
(* over the size of a set is spelled out as a least counterexample.        *)
(***************************************************************************)
EXTENDS OrderLemmas, Functions

\* The element that the fold takes next.
Pick(s) == CHOOSE x \in s : TRUE

\* g is the fold's table of sums of f over the subsets of D.
Adds(f, D, g) ==
  g = [s \in SUBSET D |-> IF s = {} THEN 0 ELSE f[Pick(s)] + g[s \ {Pick(s)}]]

\* One element less.
LEMMA OneLess ==
  ASSUME NEW D, IsFiniteSet(D), NEW s \in SUBSET D, NEW y \in s
  PROVE  /\ s \ {y} \in SUBSET D
         /\ Cardinality(s) \in Nat \ {0} /\ Cardinality(s \ {y}) = Cardinality(s) - 1
<1>1. IsFiniteSet(s)
  BY FS_Subset
<1>2. Cardinality(s) \in Nat /\ Cardinality(s) # 0
  BY <1>1, FS_CardinalityType, FS_EmptySet
<1>3. Cardinality(s \ {y}) = Cardinality(s) - 1
  BY <1>1, FS_RemoveElement
<1> QED BY <1>2, <1>3

\* There is such a table.
LEMMA TableExists ==
  ASSUME NEW D, IsFiniteSet(D), NEW f \in [D -> Nat]
  PROVE  \E g \in [SUBSET D -> Nat] : Adds(f, D, g)
<1> DEFINE Small(n) == {s \in SUBSET D : Cardinality(s) <= n}
           Table(n, g) == \A s \in Small(n) :
             g[s] = IF s = {} THEN 0 ELSE f[Pick(s)] + g[s \ {Pick(s)}]
           Bad == {n \in Nat : ~ \E g \in [Small(n) -> Nat] : Table(n, g)}
<1>1. \A s \in SUBSET D : s # {} => Pick(s) \in s /\ Pick(s) \in D
  BY DEF Pick
<1>2. \A s \in SUBSET D : Cardinality(s) \in Nat
  BY FS_Subset, FS_CardinalityType
<1>3. Bad = {}
  <2> SUFFICES ASSUME Bad # {} PROVE FALSE
    OBVIOUS
  <2>1. PICK n \in Bad : \A x \in Bad : n <= x
    <3>1. Bad \in SUBSET Nat
      OBVIOUS
    <3> HIDE DEF Bad
    <3> QED BY <3>1, LeastNatural
  <2>2. n \in Nat
    OBVIOUS
  <2>3. CASE n = 0
    <3> DEFINE g == [s \in Small(0) |-> 0]
    <3>1. g \in [Small(0) -> Nat]
      OBVIOUS
    <3>2. ASSUME NEW s \in Small(0) PROVE s = {}
      <4>1. CASE s # {}
        <5>1. Pick(s) \in s
          BY <1>1, <4>1
        <5>2. Cardinality(s) \in Nat \ {0}
          BY <5>1, OneLess
        <5> QED BY <5>2
      <4> QED BY <4>1
    <3>3. Table(0, g)
      BY <3>2
    <3> QED BY <2>1, <2>3, <3>1, <3>3
  <2>4. CASE n # 0
    <3>1. PICK m \in Nat : m + 1 = n
      <4>1. n - 1 \in Nat /\ (n - 1) + 1 = n
        BY <2>2, <2>4
      <4> QED BY <4>1
    <3>2. m \notin Bad
      <4> HIDE DEF Bad
      <4>1. ~(n <= m)
        BY <2>2, <3>1
      <4> QED BY <2>1, <4>1
    <3>3. PICK g \in [Small(m) -> Nat] : Table(m, g)
      BY <3>2
    <3> DEFINE h == [s \in Small(n) |-> IF s \in Small(m) THEN g[s]
                                        ELSE f[Pick(s)] + g[s \ {Pick(s)}]]
    <3>4. ASSUME NEW s \in Small(n), s # {}
          PROVE  Pick(s) \in D /\ s \ {Pick(s)} \in Small(m) /\ s \ {Pick(s)} \in Small(n)
      <4>1. s \in SUBSET D /\ Pick(s) \in s /\ Pick(s) \in D
        BY <1>1, <3>4
      <4>2. /\ s \ {Pick(s)} \in SUBSET D /\ Cardinality(s) \in Nat
            /\ Cardinality(s \ {Pick(s)}) = Cardinality(s) - 1
        BY <4>1, OneLess
      <4>3. Cardinality(s) <= m + 1
        BY <3>1
      <4> QED BY <2>2, <3>1, <4>1, <4>2, <4>3
    <3>5. {} \in Small(m)
      BY FS_EmptySet
    <3>6. h \in [Small(n) -> Nat]
      <4> SUFFICES ASSUME NEW s \in Small(n) PROVE h[s] \in Nat
        OBVIOUS
      <4>1. CASE s \in Small(m)
        BY <3>3, <4>1
      <4>2. CASE s \notin Small(m)
        <5>1. s # {}
          BY <3>5, <4>2
        <5>2. f[Pick(s)] \in Nat /\ g[s \ {Pick(s)}] \in Nat
          BY <3>3, <3>4, <5>1
        <5>3. h[s] = f[Pick(s)] + g[s \ {Pick(s)}]
          BY <4>2
        <5> QED BY <5>2, <5>3
      <4> QED BY <4>1, <4>2
    <3>7. ASSUME NEW s \in Small(n)
          PROVE  h[s] = IF s = {} THEN 0 ELSE f[Pick(s)] + h[s \ {Pick(s)}]
      <4>1. CASE s = {}
        <5>1. h[s] = g[s] /\ g[s] = 0
          BY <3>3, <3>5, <4>1
        <5> QED BY <4>1, <5>1
      <4>2. CASE s # {}
        <5>1. h[s \ {Pick(s)}] = g[s \ {Pick(s)}]
          BY <3>4, <4>2
        <5>2. h[s] = f[Pick(s)] + g[s \ {Pick(s)}]
          BY <3>3, <4>2
        <5> QED BY <4>2, <5>1, <5>2
      <4> QED BY <4>1, <4>2
    <3> QED BY <2>1, <3>6, <3>7
  <2> QED BY <2>3, <2>4
<1>4. PICK n \in Nat : n = Cardinality(D)
  BY FS_CardinalityType
<1>5. Small(n) = SUBSET D
  <2>1. \A s \in SUBSET D : Cardinality(s) <= n
    BY <1>4, FS_Subset
  <2> QED BY <2>1
<1>6. PICK g \in [Small(n) -> Nat] : Table(n, g)
  BY <1>3
<1> QED BY <1>5, <1>6 DEF Adds

\* Any element may be taken first.
Sums(f, D, g) ==
  g[{}] = 0 /\ \A s \in SUBSET D : \A y \in s : g[s] = f[y] + g[s \ {y}]

\* This is so for the fold's table.
LEMMA TakeAny ==
  ASSUME NEW D, IsFiniteSet(D), NEW f \in [D -> Nat], NEW g \in [SUBSET D -> Nat],
         Adds(f, D, g)
  PROVE  Sums(f, D, g)
<1> DEFINE Bad == {n \in Nat : \E s \in SUBSET D : Cardinality(s) = n
                                 /\ \E y \in s : g[s] # f[y] + g[s \ {y}]}
<1>0. g[{}] = 0 /\ \A s \in SUBSET D : s # {} => g[s] = f[Pick(s)] + g[s \ {Pick(s)}]
  <2>1. {} \in SUBSET D
    OBVIOUS
  <2>2. \A s \in SUBSET D : g[s] = IF s = {} THEN 0 ELSE f[Pick(s)] + g[s \ {Pick(s)}]
    BY DEF Adds
  <2> QED BY <2>1, <2>2
<1>1. Bad = {}
  <2> SUFFICES ASSUME Bad # {} PROVE FALSE
    OBVIOUS
  <2>1. PICK n \in Bad : \A x \in Bad : n <= x
    <3>1. Bad \in SUBSET Nat
      OBVIOUS
    <3> HIDE DEF Bad
    <3> QED BY <3>1, LeastNatural
  <2>2. PICK s \in SUBSET D : Cardinality(s) = n /\ \E y \in s : g[s] # f[y] + g[s \ {y}]
    OBVIOUS
  <2>3. PICK y \in s : g[s] # f[y] + g[s \ {y}]
    BY <2>2
  <2>4. PICK x \in s : x = Pick(s)
    BY <2>3 DEF Pick
  <2>5. g[s] = f[x] + g[s \ {x}]
    BY <1>0, <2>3, <2>4
  <2>6. x # y
    BY <2>3, <2>5
  <2>7. n \in Nat /\ n - 1 \in Nat /\ ~(n <= n - 1)
        /\ s \ {x} \in SUBSET D /\ Cardinality(s \ {x}) = n - 1
        /\ s \ {y} \in SUBSET D /\ Cardinality(s \ {y}) = n - 1
    <3>1. n \in Nat \ {0} /\ Cardinality(s \ {x}) = n - 1 /\ Cardinality(s \ {y}) = n - 1
      BY <2>2, OneLess
    <3> QED BY <3>1
  <2>8. n - 1 \notin Bad
    <3> HIDE DEF Bad
    <3> QED BY <2>1, <2>7
  <2>9. g[s \ {x}] = f[y] + g[(s \ {x}) \ {y}]
    <3>1. y \in s \ {x}
      BY <2>6
    <3> QED BY <2>7, <2>8, <3>1
  <2>10. g[s \ {y}] = f[x] + g[(s \ {y}) \ {x}]
    <3>1. x \in s \ {y}
      BY <2>6
    <3> QED BY <2>7, <2>8, <3>1
  <2>11. PICK r \in SUBSET D : r = (s \ {x}) \ {y} /\ r = (s \ {y}) \ {x}
    OBVIOUS
  <2>12. f[x] \in Nat /\ f[y] \in Nat /\ g[r] \in Nat
    OBVIOUS
  <2>13. g[s \ {x}] = f[y] + g[r] /\ g[s \ {y}] = f[x] + g[r]
    BY <2>9, <2>10, <2>11
  <2>14. f[x] + (f[y] + g[r]) = f[y] + (f[x] + g[r])
    BY <2>12
  <2> QED BY <2>3, <2>5, <2>13, <2>14, Zenon
<1>2. ASSUME NEW s \in SUBSET D, NEW y \in s
      PROVE  g[s] = f[y] + g[s \ {y}]
  <2>1. PICK n \in Nat : n = Cardinality(s)
    BY OneLess
  <2>2. n \notin Bad
    BY <1>1
  <2> QED BY <2>1, <2>2
<1> QED BY <1>0, <1>2 DEF Sums

\* g is the table of the sums of f, a function on the finite set D.
SumTable(f, D, g) ==
  IsFiniteSet(D) /\ f \in [D -> Nat] /\ g \in [SUBSET D -> Nat] /\ Adds(f, D, g)

Agree(f, e, t) == \A x \in t : f[x] = e[x]

\* The sum depends only on the values of the elements.
LEMMA SumsAgree ==
  ASSUME NEW D, NEW f, NEW g, SumTable(f, D, g), NEW E, NEW e, NEW h, SumTable(e, E, h),
         NEW t, t \in SUBSET D, t \in SUBSET E, Agree(f, e, t)
  PROVE  g[t] = h[t]
<1> USE DEF SumTable, Agree
<1> DEFINE Bad == {n \in Nat : \E s \in SUBSET t : Cardinality(s) = n /\ g[s] # h[s]}
<1>1. Sums(f, D, g)
  BY TakeAny
<1>2. Sums(e, E, h)
  BY TakeAny
<1>3. Bad = {}
  <2> SUFFICES ASSUME Bad # {} PROVE FALSE
    OBVIOUS
  <2>1. PICK n \in Bad : \A x \in Bad : n <= x
    <3>1. Bad \in SUBSET Nat
      OBVIOUS
    <3> HIDE DEF Bad
    <3> QED BY <3>1, LeastNatural
  <2>2. PICK s \in SUBSET t : Cardinality(s) = n /\ g[s] # h[s]
    OBVIOUS
  <2>3. PICK y \in s : TRUE
    BY <1>1, <1>2, <2>2 DEF Sums
  <2>4. /\ s \in SUBSET D /\ s \ {y} \in SUBSET t
        /\ n - 1 \in Nat /\ ~(n <= n - 1) /\ Cardinality(s \ {y}) = n - 1
    <3>1. n \in Nat \ {0} /\ Cardinality(s \ {y}) = n - 1
      BY <2>2, <2>3, OneLess
    <3> QED BY <3>1
  <2>5. n - 1 \notin Bad
    <3> HIDE DEF Bad
    <3> QED BY <2>1, <2>4
  <2>6. g[s \ {y}] = h[s \ {y}]
    BY <2>4, <2>5
  <2>7. g[s] = f[y] + g[s \ {y}] /\ h[s] = e[y] + h[s \ {y}] /\ f[y] = e[y]
    BY <1>1, <1>2, <2>3 DEF Sums
  <2> QED BY <2>2, <2>6, <2>7
<1>4. Cardinality(t) \in Nat
  BY FS_Subset, FS_CardinalityType
<1> QED BY <1>3, <1>4

\* SumFunction reads the last entry of such a table.
LEMMA SumFunctionTable ==
  ASSUME NEW D, IsFiniteSet(D), NEW f \in [D -> Nat]
  PROVE  \E g \in [SUBSET D -> Nat] : Adds(f, D, g) /\ SumFunction(f) = g[D]
<1> DEFINE IsTable(g) ==
             g = [s \in SUBSET D |-> IF s = {} THEN 0
                                     ELSE f[CHOOSE x \in s : TRUE]
                                            + g[s \ {CHOOSE x \in s : TRUE}]]
           iter == CHOOSE g : IsTable(g)
<1>1. DOMAIN f = D
  OBVIOUS
<1>2. SumFunction(f) = iter[D]
  BY <1>1, Zenon DEF SumFunction, SumFunctionOnSet, FoldFunctionOnSet, MapThenFoldSet
<1>3. \A g : IsTable(g) <=> Adds(f, D, g)
  BY Zenon DEF Adds, Pick
<1>4. PICK g \in [SUBSET D -> Nat] : Adds(f, D, g)
  BY TableExists
<1>5. \E h : IsTable(h)
  <2>1. IsTable(g)
    <3> HIDE DEF IsTable
    <3> QED BY <1>3, <1>4
  <2> HIDE DEF IsTable
  <2> QED BY <2>1
<1>6. IsTable(iter)
  <2> HIDE DEF IsTable
  <2> QED BY <1>5
<1> HIDE DEF iter, IsTable
<1>7. Adds(f, D, iter)
  BY <1>3, <1>6
<1>8. ASSUME NEW s \in SUBSET D PROVE iter[s] = g[s]
  <2> DEFINE Bad == {n \in Nat : \E r \in SUBSET D : Cardinality(r) = n /\ iter[r] # g[r]}
  <2>1. Bad = {}
    <3> SUFFICES ASSUME Bad # {} PROVE FALSE
      OBVIOUS
    <3>1. PICK n \in Bad : \A x \in Bad : n <= x
      <4>1. Bad \in SUBSET Nat
        OBVIOUS
      <4> HIDE DEF Bad
      <4> QED BY <4>1, LeastNatural
    <3>2. PICK r \in SUBSET D : Cardinality(r) = n /\ iter[r] # g[r]
      OBVIOUS
    <3>3. /\ iter[r] = IF r = {} THEN 0 ELSE f[Pick(r)] + iter[r \ {Pick(r)}]
          /\ g[r] = IF r = {} THEN 0 ELSE f[Pick(r)] + g[r \ {Pick(r)}]
      BY <1>4, <1>7 DEF Adds
    <3>4. Pick(r) \in r
      BY <3>2, <3>3 DEF Pick
    <3>5. /\ n - 1 \in Nat /\ ~(n <= n - 1)
          /\ r \ {Pick(r)} \in SUBSET D /\ Cardinality(r \ {Pick(r)}) = n - 1
      <4>1. /\ n \in Nat \ {0} /\ r \ {Pick(r)} \in SUBSET D
            /\ Cardinality(r \ {Pick(r)}) = n - 1
        BY <3>2, <3>4, OneLess
      <4> QED BY <4>1
    <3>6. n - 1 \notin Bad
      <4> HIDE DEF Bad
      <4> QED BY <3>1, <3>5
    <3>7. iter[r \ {Pick(r)}] = g[r \ {Pick(r)}]
      BY <3>5, <3>6
    <3> QED BY <3>2, <3>3, <3>7
  <2>2. PICK n \in Nat : n = Cardinality(s)
    BY FS_Subset, FS_CardinalityType
  <2>3. n \notin Bad
    BY <2>1
  <2> QED BY <2>2, <2>3
<1> QED BY <1>2, <1>4, <1>8

\* A sum of natural numbers is one.
LEMMA SumType ==
  ASSUME NEW D, IsFiniteSet(D), NEW f \in [D -> Nat]
  PROVE  SumFunction(f) \in Nat
<1>1. PICK g \in [SUBSET D -> Nat] : Adds(f, D, g) /\ SumFunction(f) = g[D]
  BY SumFunctionTable
<1> QED BY <1>1

\* A sum without summands.
LEMMA SumEmpty ==
  ASSUME NEW f \in [{} -> Nat]
  PROVE  SumFunction(f) = 0
<1>1. IsFiniteSet({})
  BY FS_EmptySet
<1>2. PICK g \in [SUBSET {} -> Nat] : Adds(f, {}, g) /\ SumFunction(f) = g[{}]
  BY <1>1, SumFunctionTable
<1>3. Sums(f, {}, g)
  BY <1>1, <1>2, TakeAny
<1> QED BY <1>2, <1>3 DEF Sums

\* Two functions that agree but at y: their sums differ as their values at y do.
LEMMA SumChange ==
  ASSUME NEW D, IsFiniteSet(D), NEW f \in [D -> Nat], NEW e \in [D -> Nat], NEW y \in D,
         Agree(f, e, D \ {y})
  PROVE  SumFunction(f) + e[y] = SumFunction(e) + f[y]
<1>1. PICK g \in [SUBSET D -> Nat] : Adds(f, D, g) /\ SumFunction(f) = g[D]
  BY SumFunctionTable
<1>2. PICK h \in [SUBSET D -> Nat] : Adds(e, D, h) /\ SumFunction(e) = h[D]
  BY SumFunctionTable
<1>3. PICK t \in SUBSET D : t = D \ {y}
  OBVIOUS
<1>4. g[t] = h[t]
  <2>1. Agree(f, e, t)
    BY <1>3 DEF Agree
  <2>2. SumTable(f, D, g) /\ SumTable(e, D, h)
    BY <1>1, <1>2 DEF SumTable
  <2> QED BY <2>1, <2>2, SumsAgree
<1>5. Sums(f, D, g) /\ Sums(e, D, h) /\ D \in SUBSET D
  BY <1>1, <1>2, TakeAny
<1>6. g[D] = f[y] + g[t] /\ h[D] = e[y] + h[t]
  BY <1>3, <1>5 DEF Sums
<1>7. f[y] \in Nat /\ e[y] \in Nat /\ h[t] \in Nat
  OBVIOUS
<1> QED BY <1>1, <1>2, <1>4, <1>6, <1>7

\* One more summand.
LEMMA SumGrow ==
  ASSUME NEW D, IsFiniteSet(D), NEW f \in [D -> Nat], NEW y, y \notin D,
         NEW e \in [D \cup {y} -> Nat], Agree(f, e, D)
  PROVE  SumFunction(e) = SumFunction(f) + e[y]
<1>1. PICK E : E = D \cup {y}
  OBVIOUS
<1>2. IsFiniteSet(E) /\ D \in SUBSET E /\ D \in SUBSET D /\ y \in E /\ E \ {y} = D
        /\ e \in [E -> Nat]
  BY <1>1, FS_AddElement
<1>3. PICK g \in [SUBSET D -> Nat] : Adds(f, D, g) /\ SumFunction(f) = g[D]
  BY SumFunctionTable
<1>4. PICK h \in [SUBSET E -> Nat] : Adds(e, E, h) /\ SumFunction(e) = h[E]
  BY <1>2, SumFunctionTable
<1>5. g[D] = h[D]
  <2>1. SumTable(f, D, g) /\ SumTable(e, E, h)
    BY <1>2, <1>3, <1>4 DEF SumTable
  <2> QED BY <1>2, <2>1, SumsAgree
<1>6. Sums(e, E, h) /\ E \in SUBSET E
  BY <1>2, <1>4, TakeAny
<1>7. h[E] = e[y] + h[D]
  BY <1>2, <1>6 DEF Sums
<1>8. e[y] \in Nat /\ h[D] \in Nat
  BY <1>2
<1> QED BY <1>3, <1>4, <1>5, <1>7, <1>8

\* A sum of zeros.
LEMMA SumZero ==
  ASSUME NEW D, IsFiniteSet(D), NEW f \in [D -> Nat], \A x \in D : f[x] = 0
  PROVE  SumFunction(f) = 0
<1>1. PICK g \in [SUBSET D -> Nat] : Adds(f, D, g) /\ SumFunction(f) = g[D]
  BY SumFunctionTable
<1>2. Sums(f, D, g)
  BY <1>1, TakeAny
<1> DEFINE Bad == {n \in Nat : \E s \in SUBSET D : Cardinality(s) = n /\ g[s] # 0}
<1>3. Bad = {}
  <2> SUFFICES ASSUME Bad # {} PROVE FALSE
    OBVIOUS
  <2>1. PICK n \in Bad : \A x \in Bad : n <= x
    <3>1. Bad \in SUBSET Nat
      OBVIOUS
    <3> HIDE DEF Bad
    <3> QED BY <3>1, LeastNatural
  <2>2. PICK s \in SUBSET D : Cardinality(s) = n /\ g[s] # 0
    OBVIOUS
  <2>3. PICK y \in s : TRUE
    BY <1>2, <2>2 DEF Sums
  <2>4. /\ s \ {y} \in SUBSET D /\ n - 1 \in Nat /\ ~(n <= n - 1)
        /\ Cardinality(s \ {y}) = n - 1
    <3>1. n \in Nat \ {0} /\ Cardinality(s \ {y}) = n - 1
      BY <2>2, <2>3, OneLess
    <3> QED BY <3>1
  <2>5. n - 1 \notin Bad
    <3> HIDE DEF Bad
    <3> QED BY <2>1, <2>4
  <2>6. g[s \ {y}] = 0
    BY <2>4, <2>5
  <2>7. g[s] = f[y] + g[s \ {y}] /\ f[y] = 0
    BY <1>2, <2>3 DEF Sums
  <2> QED BY <2>2, <2>6, <2>7
<1>4. PICK n \in Nat : n = Cardinality(D)
  BY FS_CardinalityType
<1>5. n \notin Bad /\ D \in SUBSET D
  BY <1>3
<1> QED BY <1>1, <1>4, <1>5
=============================================================================
