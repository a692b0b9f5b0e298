---------------------------- MODULE Totals_proofs ----------------------------
(* What the totals and the amounts are, for every value of the constants.    *)
(* MapThenSumSet is a fold over a finite set: the lemmas unfold it at any of *)
(* its members, bound it, and carry it along a bijection.  They are proved   *)
(* by a least counterexample under strict inclusion.                         *)
EXTENDS Serial_proofs

\* Sums over the subsets of S, as MapThenSumSet computes them.
IsSum(sum, f, S) ==
    sum = [s \in SUBSET S |->
              IF s = {} THEN 0
              ELSE f[CHOOSE x \in s : TRUE] + sum[s \ {CHOOSE x \in s : TRUE}]]

LEMMA SubsetInduction ==
    ASSUME NEW S, IsFiniteSet(S), NEW G \in SUBSET (SUBSET S), {} \in G,
           \A s \in SUBSET S : s # {} /\ (\A x \in s : s \ {x} \in G) => s \in G
    PROVE  G = SUBSET S
<1>1. SUFFICES ASSUME (SUBSET S) \ G # {}
               PROVE  FALSE
  OBVIOUS
<1>2. FiniteSubsetsOf(S) = SUBSET S
  BY FS_FiniteSubsetsOfFinite
<1>3. IsWellFoundedOn(StrictSubsetOrdering(S), SUBSET S)
  BY <1>2, FS_StrictSubsetOrderingWellFounded
<1> DEFINE T == (SUBSET S) \ G
           R == StrictSubsetOrdering(S)
<1>4. PICK s \in T : \A t \in T : ~(<<t, s>> \in R)
  <2> HIDE DEF R
  <2>1. T \subseteq SUBSET S /\ T # {} /\ IsWellFoundedOn(R, SUBSET S)
    BY <1>1, <1>3 DEF R
  <2> HIDE DEF T
  <2> QED
    BY <2>1, WFMin
<1>5. ASSUME NEW x \in s
      PROVE  s \ {x} \in G
  <2>1. s \in SUBSET S /\ s \ {x} \in SUBSET S /\ s \ {x} # s
    BY <1>4, <1>5
  <2>2. <<s \ {x}, s>> \in R
    BY <2>1 DEF StrictSubsetOrdering
  <2> QED
    BY <1>4, <2>1, <2>2
<1> QED
  BY <1>4, <1>5

LEMMA SumExists ==
    ASSUME NEW f, NEW S, IsFiniteSet(S)
    PROVE  \E sum : IsSum(sum, f, S)
<1> DEFINE Small(n) == {s \in SUBSET S : Cardinality(s) <= n}
           Sums(sum, n) ==
              sum = [s \in Small(n) |->
                       IF s = {} THEN 0
                       ELSE f[CHOOSE x \in s : TRUE] + sum[s \ {CHOOSE x \in s : TRUE}]]
           G == {t \in SUBSET S : \E sum : Sums(sum, Cardinality(t))}
<1>0. \A s \in SUBSET S : IsFiniteSet(s) /\ Cardinality(s) \in Nat
  BY FS_Subset, FS_CardinalityType
<1>1. {} \in G
  <2>1. \A s \in Small(0) : s = {}
    BY <1>0, FS_EmptySet
  <2>2. Sums([s \in Small(0) |-> 0], 0)
    BY <2>1
  <2> QED
    BY <2>2, FS_EmptySet
<1>2. ASSUME NEW t \in SUBSET S, t # {}, \A x \in t : t \ {x} \in G
      PROVE  t \in G
  <2> DEFINE n == Cardinality(t)
  <2>0. n \in Nat
    BY <1>0
  <2>1. PICK sum : Sums(sum, n - 1)
    <3>1. PICK x \in t : TRUE
      BY <1>2
    <3>2. Cardinality(t \ {x}) = n - 1
      BY <1>0, FS_RemoveElement
    <3>3. t \ {x} \in G
      BY <1>2
    <3> HIDE DEF Sums, n
    <3> QED
      BY <3>2, <3>3
  <2> HIDE DEF n
  <2> DEFINE more == [s \in Small(n) |->
                        IF s = {} THEN 0
                        ELSE f[CHOOSE x \in s : TRUE] + sum[s \ {CHOOSE x \in s : TRUE}]]
  <2>2. Small(n - 1) \subseteq Small(n)
    BY <1>0, <2>0
  <2>3. \A s \in Small(n - 1) : more[s] = sum[s]
    <3> HIDE DEF Small
    <3> QED
      BY <2>1, <2>2
  <2>4. ASSUME NEW s \in Small(n), s # {}
        PROVE  s \ {CHOOSE x \in s : TRUE} \in Small(n - 1)
    <3>1. (CHOOSE x \in s : TRUE) \in s
      BY <2>4
    <3>2. Cardinality(s \ {CHOOSE x \in s : TRUE}) = Cardinality(s) - 1
      BY <1>0, <3>1, FS_RemoveElement
    <3> QED
      BY <1>0, <2>0, <3>2
  <2>5. Sums(more, n)
    <3> HIDE DEF Small
    <3> DEFINE first(s) == CHOOSE x \in s : TRUE
               before == [s \in Small(n) |-> IF s = {} THEN 0
                                             ELSE f[first(s)] + sum[s \ {first(s)}]]
               after == [s \in Small(n) |-> IF s = {} THEN 0
                                            ELSE f[first(s)] + more[s \ {first(s)}]]
    <3>1. \A s \in Small(n) : s # {} => s \ {first(s)} \in Small(n - 1)
      BY <2>4
    <3>2. more = before
      OBVIOUS
    <3> HIDE DEF first, more
    <3>3. before = after
      BY <2>3, <3>1
    <3> QED
      BY <3>2, <3>3 DEF first
  <2> QED
    BY <2>5 DEF n
<1>3. G = SUBSET S
  <2>1. G \in SUBSET (SUBSET S)
    OBVIOUS
  <2> HIDE DEF G
  <2> QED
    BY <1>1, <1>2, <2>1, SubsetInduction
<1>4. PICK sum : Sums(sum, Cardinality(S))
  BY <1>3
<1>5. Small(Cardinality(S)) = SUBSET S
  BY <1>0, FS_Subset
<1> QED
  BY <1>4, <1>5 DEF IsSum

LEMMA SumUnfolds ==
    ASSUME NEW f, NEW S, NEW sum, IsSum(sum, f, S), NEW s \in SUBSET S
    PROVE  /\ s = {} => sum[s] = 0
           /\ s # {} => \E x \in s : sum[s] = f[x] + sum[s \ {x}]
<1>1. CASE s = {}
  BY <1>1 DEF IsSum
<1>2. CASE s # {}
  <2> DEFINE x == CHOOSE x \in s : TRUE
  <2>1. x \in s
    BY <1>2
  <2>2. sum[s] = f[x] + sum[s \ {x}]
    BY <1>2 DEF IsSum
  <2> QED
    BY <1>2, <2>1, <2>2
<1> QED
  BY <1>1, <1>2

LEMMA SumIsInt ==
    ASSUME NEW S, IsFiniteSet(S), NEW f \in [S -> Int], NEW sum, IsSum(sum, f, S)
    PROVE  \A s \in SUBSET S : sum[s] \in Int
<1> DEFINE G == {s \in SUBSET S : sum[s] \in Int}
<1>1. {} \in G
  BY SumUnfolds
<1>2. ASSUME NEW s \in SUBSET S, s # {}, \A x \in s : s \ {x} \in G
      PROVE  s \in G
  <2>1. PICK x \in s : sum[s] = f[x] + sum[s \ {x}]
    BY <1>2, SumUnfolds
  <2>2. f[x] \in Int /\ s \ {x} \in G
    BY <1>2, <2>1
  <2>3. sum[s \ {x}] \in Int
    BY <2>2
  <2>4. sum[s] \in Int
    BY <2>1, <2>2, <2>3
  <2> QED
    BY <2>4
<1>3. G \in SUBSET (SUBSET S)
  OBVIOUS
<1>4. G = SUBSET S
  <2> HIDE DEF G
  <2> QED
    BY <1>1, <1>2, <1>3, SubsetInduction
<1> QED
  BY <1>4

\* In whatever order a sum is computed any element may be taken out of it.
LEMMA SumTakesOut ==
    ASSUME NEW S, IsFiniteSet(S), NEW f \in [S -> Int], NEW sum, IsSum(sum, f, S)
    PROVE  \A s \in SUBSET S : \A y \in s : sum[s] = f[y] + sum[s \ {y}]
<1> DEFINE G == {s \in SUBSET S : \A y \in s : sum[s] = f[y] + sum[s \ {y}]}
<1>0. \A s \in SUBSET S : sum[s] \in Int
  BY SumIsInt
<1>1. {} \in G
  OBVIOUS
<1>2. ASSUME NEW s \in SUBSET S, s # {}, \A x \in s : s \ {x} \in G
      PROVE  s \in G
  <2>1. PICK x \in s : sum[s] = f[x] + sum[s \ {x}]
    BY <1>2, SumUnfolds
  <2>2. ASSUME NEW y \in s, y # x
        PROVE  sum[s] = f[y] + sum[s \ {y}]
    <3>1. sum[s \ {x}] = f[y] + sum[(s \ {x}) \ {y}]
      BY <1>2, <2>2
    <3>2. sum[s \ {y}] = f[x] + sum[(s \ {y}) \ {x}]
      BY <1>2, <2>2
    <3>3. (s \ {x}) \ {y} = (s \ {y}) \ {x}
      OBVIOUS
    <3>4. f[x] \in Int /\ f[y] \in Int /\ sum[(s \ {x}) \ {y}] \in Int
      BY <1>0, <1>2, <2>2
    <3>5. sum[s] = f[x] + (f[y] + sum[(s \ {x}) \ {y}])
      BY <2>1, <3>1
    <3>6. sum[s \ {y}] = f[x] + sum[(s \ {x}) \ {y}]
      BY <3>2, <3>3
    <3> HIDE DEF G
    <3> QED
      BY <3>4, <3>5, <3>6
  <2> QED
    BY <2>1, <2>2
<1>3. G \in SUBSET (SUBSET S)
  OBVIOUS
<1>4. G = SUBSET S
  <2> HIDE DEF G
  <2> QED
    BY <1>1, <1>2, <1>3, SubsetInduction
<1> QED
  BY <1>4

\* No term of a sum of naturals is larger than the sum.
LEMMA SumBounds ==
    ASSUME NEW S, IsFiniteSet(S), NEW f \in [S -> Nat], NEW sum, IsSum(sum, f, S)
    PROVE  /\ sum[S] \in Nat
           /\ \A y \in S : f[y] <= sum[S]
<1> DEFINE G == {s \in SUBSET S : sum[s] \in Nat}
<1>0. f \in [S -> Int]
  OBVIOUS
<1>1. {} \in G
  BY SumUnfolds
<1>2. ASSUME NEW s \in SUBSET S, s # {}, \A x \in s : s \ {x} \in G
      PROVE  s \in G
  <2>1. PICK x \in s : sum[s] = f[x] + sum[s \ {x}]
    BY <1>2, SumUnfolds
  <2>2. f[x] \in Nat /\ s \ {x} \in G
    BY <1>2, <2>1
  <2>3. sum[s \ {x}] \in Nat
    BY <2>2
  <2>4. sum[s] \in Nat
    BY <2>1, <2>2, <2>3
  <2> QED
    BY <2>4
<1>3. G \in SUBSET (SUBSET S)
  OBVIOUS
<1>4. G = SUBSET S
  <2> HIDE DEF G
  <2> QED
    BY <1>1, <1>2, <1>3, SubsetInduction
<1>5. ASSUME NEW y \in S
      PROVE  f[y] <= sum[S]
  <2>1. sum[S] = f[y] + sum[S \ {y}]
    BY <1>0, SumTakesOut
  <2>2. sum[S \ {y}] \in Nat
    BY <1>4
  <2> QED
    BY <2>1, <2>2
<1> QED
  BY <1>4, <1>5

\* Sums whose terms correspond one to one are equal.
LEMMA SumOfBijection ==
    ASSUME NEW S, IsFiniteSet(S), NEW T, IsFiniteSet(T),
           NEW f \in [S -> Int], NEW g \in [T -> Int],
           NEW b \in Bijection(S, T), f = [x \in S |-> g[b[x]]],
           NEW sum, IsSum(sum, f, S), NEW other, IsSum(other, g, T)
    PROVE  sum[S] = other[T]
<1> DEFINE img(s) == {b[x] : x \in s}
           G == {s \in SUBSET S : sum[s] = other[img(s)]}
<1>0. /\ b \in [S -> T] /\ \A x, y \in S : b[x] = b[y] => x = y
      /\ \A y \in T : \E x \in S : y = b[x]
  BY DEF Bijection, Injection, Surjection, IsInjective
<1>1. {} \in G
  <2>1. {b[x] : x \in {}} = {}
    OBVIOUS
  <2>2. sum[{}] = 0 /\ other[{}] = 0
    BY SumUnfolds
  <2> QED
    BY <2>1, <2>2
<1>2. ASSUME NEW s \in SUBSET S, s # {}, \A x \in s : s \ {x} \in G
      PROVE  s \in G
  <2> DEFINE t == {b[x] : x \in s}
  <2>1. PICK x \in s : sum[s] = f[x] + sum[s \ {x}]
    BY <1>2, SumUnfolds
  <2>2. t \in SUBSET T /\ b[x] \in t
    BY <1>0
  <2>3. other[t] = g[b[x]] + other[t \ {b[x]}]
    <3> HIDE DEF t
    <3> QED
      BY <2>2, SumTakesOut
  <2>4. t \ {b[x]} = {b[y] : y \in s \ {x}}
    BY <1>0
  <2>5. sum[s \ {x}] = other[{b[y] : y \in s \ {x}}]
    BY <1>2
  <2>6. f[x] = g[b[x]]
    OBVIOUS
  <2> QED
    BY <2>1, <2>3, <2>4, <2>5, <2>6
<1>3. G \in SUBSET (SUBSET S)
  OBVIOUS
<1> HIDE DEF G, img
<1>4. G = SUBSET S
  <2>1. \A s \in SUBSET S : s # {} /\ (\A x \in s : s \ {x} \in G) => s \in G
    BY <1>2
  <2> QED
    BY <1>1, <1>3, <2>1, SubsetInduction, Zenon
<1>5. S \in G
  BY <1>4
<1>6. img(S) = T
  <2>1. img(S) = {b[x] : x \in S}
    BY DEF img
  <2> QED
    BY <1>0, <2>1
<1> QED
  BY <1>5, <1>6 DEF G

-----------------------------------------------------------------------------
(* The two totals: of the lines of a request, and of the items of an order.  *)

\* calculateTotalPrice, of items instead of lines.
TotalOf(rows, ids) == MapThenSumSet(LAMBDA i : rows[i].amount * Price[rows[i].product], ids)

LinePrices(lines) == [l \in lines |-> l.amount * Price[l.product]]
ItemPrices(rows, ids) == [i \in ids |-> rows[i].amount * Price[rows[i].product]]

LEMMA TotalPriceIsASum ==
    ASSUME NEW lines, IsFiniteSet(lines)
    PROVE  \E sum : IsSum(sum, LinePrices(lines), lines) /\ TotalPrice(lines) = sum[lines]
<1> DEFINE first(s) == CHOOSE x \in s : TRUE
           f == LinePrices(lines)
           IsFold(sum) ==
              sum = [s \in SUBSET lines |->
                       IF s = {} THEN 0
                       ELSE first(s).amount * Price[first(s).product] + sum[s \ {first(s)}]]
<1>1. TotalPrice(lines) = (CHOOSE sum : IsFold(sum))[lines]
  BY DEF TotalPrice, MapThenSumSet, MapThenFoldSet
<1>2. ASSUME NEW sum
      PROVE  IsFold(sum) <=> IsSum(sum, f, lines)
  <2>1. \A s \in SUBSET lines : s # {} => f[first(s)] = first(s).amount * Price[first(s).product]
    BY DEF LinePrices
  <2> HIDE DEF f
  <2> QED
    BY <2>1 DEF IsSum
<1> HIDE DEF IsFold, f
<1>3. \E sum : IsFold(sum)
  BY <1>2, SumExists
<1>4. IsFold(CHOOSE sum : IsFold(sum))
  BY <1>3
<1> QED
  BY <1>1, <1>2, <1>4 DEF f

LEMMA TotalOfIsASum ==
    ASSUME NEW rows, NEW ids, IsFiniteSet(ids)
    PROVE  \E sum : IsSum(sum, ItemPrices(rows, ids), ids) /\ TotalOf(rows, ids) = sum[ids]
<1> DEFINE first(s) == CHOOSE x \in s : TRUE
           f == ItemPrices(rows, ids)
           IsFold(sum) ==
              sum = [s \in SUBSET ids |->
                       IF s = {} THEN 0
                       ELSE rows[first(s)].amount * Price[rows[first(s)].product]
                               + sum[s \ {first(s)}]]
<1>1. TotalOf(rows, ids) = (CHOOSE sum : IsFold(sum))[ids]
  BY DEF TotalOf, MapThenSumSet, MapThenFoldSet
<1>2. ASSUME NEW sum
      PROVE  IsFold(sum) <=> IsSum(sum, f, ids)
  <2>1. \A s \in SUBSET ids : s # {} =>
           f[first(s)] = rows[first(s)].amount * Price[rows[first(s)].product]
    BY DEF ItemPrices
  <2> HIDE DEF f
  <2> QED
    BY <2>1 DEF IsSum
<1> HIDE DEF IsFold, f
<1>3. \E sum : IsFold(sum)
  BY <1>2, SumExists
<1>4. IsFold(CHOOSE sum : IsFold(sum))
  BY <1>3
<1> QED
  BY <1>1, <1>2, <1>4 DEF f

-----------------------------------------------------------------------------
(* Amounts, whatever overlaps and whatever fails.                            *)

\* A handler that has saved its order goes on to save its items.
SavedPcs == {"saveItems", "deleteItems", "createItems", "findItems", "updateItems", "respond"}

AmountsShapeOf(r) ==
    /\ IsFiniteSet(oreq[r].lines)
    /\ oreq[r].pc = "saveOrder" => AcceptsLines(oreq[r].lines)
    /\ oreq[r].pc \in SavedPcs /\ oreq[r].cmd # "delete" =>
          \A l \in oreq[r].lines : Storable(l.amount)

AmountsInv == AmountsStorable /\ \A r \in OrderRequests : AmountsShapeOf(r)

\* What a step may do to the amounts.
AmountsStay ==
    \A i \in ItemIds : items'[i] # Null =>
        \/ items[i] # Null /\ items'[i].amount = items[i].amount
        \/ Storable(items'[i].amount)

\* A product costs something, so no amount is larger than the total.
LEMMA TotalBoundsAmounts ==
    ASSUME NEW lines \in SUBSET Line, IsFiniteSet(lines), AcceptsLines(lines),
           Storable(TotalPrice(lines))
    PROVE  \A l \in lines : Storable(l.amount)
<1>1. ASSUME NEW l \in lines
      PROVE  /\ l.amount \in Nat /\ Price[l.product] \in Nat /\ Price[l.product] # 0
             /\ l.amount * Price[l.product] \in Nat
  BY CatalogueAssumption DEF Line, AcceptsLines
<1>2. LinePrices(lines) \in [lines -> Nat]
  BY <1>1 DEF LinePrices
<1>3. PICK sum : IsSum(sum, LinePrices(lines), lines) /\ TotalPrice(lines) = sum[lines]
  BY TotalPriceIsASum
<1>4. ASSUME NEW l \in lines
      PROVE  Storable(l.amount)
  <2>1. l.amount * Price[l.product] <= TotalPrice(lines) /\ TotalPrice(lines) \in Nat
    <3>1. LinePrices(lines)[l] = l.amount * Price[l.product]
      BY DEF LinePrices
    <3> HIDE DEF LinePrices
    <3> QED
      BY <1>2, <1>3, <3>1, SumBounds
  <2> DEFINE a == l.amount
             c == Price[l.product]
             t == TotalPrice(lines)
  <2>2. a \in Nat /\ c \in Nat /\ c # 0 /\ t \in Nat /\ a * c <= t /\ t <= MaxInt /\ MaxInt \in Nat
    BY <1>1, <2>1, CatalogueAssumption DEF Storable
  <2> HIDE DEF a, c, t
  <2>3. a <= a * c
    BY <2>2
  <2>4. a \in 0 .. MaxInt
    BY <2>2, <2>3
  <2> QED
    BY <2>4 DEF Storable, a
<1> QED
  BY <1>4

LEMMA StepKeepsAmountsInv ==
    ASSUME AmountsInv, AmountsStay, NEW r \in OrderRequests, Alone(r), AmountsShapeOf(r)'
    PROVE  AmountsInv'
<1>1. ASSUME NEW s \in OrderRequests, s # r
      PROVE  AmountsShapeOf(s)'
  BY <1>1 DEF AmountsInv, AmountsShapeOf, Alone
<1>2. AmountsStorable'
  BY DEF AmountsInv, AmountsStorable, AmountsStay, Storable
<1> QED
  BY <1>1, <1>2 DEF AmountsInv

LEMMA EndKeepsAmountsInv ==
    ASSUME IInv, AmountsInv, AmountsStay, NEW r \in OrderRequests,
           NEW outcome \in EndPcs, End(r, outcome)
    PROVE  AmountsInv'
<1>1. oreq'[r].lines = oreq[r].lines /\ oreq'[r].pc = outcome /\ Alone(r)
  BY DEF End, IInv, TypeOK, OrdersTypeOK, OrderRequest, Alone
<1>2. AmountsShapeOf(r)'
  BY <1>1 DEF AmountsShapeOf, AmountsInv, EndPcs, SavedPcs
<1> QED
  BY <1>1, <1>2, StepKeepsAmountsInv

\* A request that goes on, with its lines accepted or stored when it must.
LEMMA GoOnKeepsAmountsInv ==
    ASSUME AmountsInv, AmountsStay, NEW r \in OrderRequests, Alone(r),
           oreq'[r].lines = oreq[r].lines, oreq'[r].cmd = oreq[r].cmd,
           oreq'[r].pc = "saveOrder" => AcceptsLines(oreq[r].lines),
           \/ oreq'[r].pc \notin SavedPcs \/ oreq[r].cmd = "delete"
           \/ oreq[r].pc \in SavedPcs
           \/ \A l \in oreq[r].lines : Storable(l.amount)
    PROVE  AmountsInv'
<1>1. AmountsShapeOf(r)'
  BY DEF AmountsInv, AmountsShapeOf
<1> QED
  BY <1>1, StepKeepsAmountsInv

LEMMA GotoKeepsAmountsInv ==
    ASSUME IInv, AmountsInv, AmountsStay, NEW r \in OrderRequests, NEW pc, Goto(r, pc),
           pc = "saveOrder" => AcceptsLines(oreq[r].lines),
           \/ pc \notin SavedPcs \/ oreq[r].cmd = "delete"
           \/ oreq[r].pc \in SavedPcs
           \/ \A l \in oreq[r].lines : Storable(l.amount)
    PROVE  AmountsInv'
<1>1. /\ oreq'[r].lines = oreq[r].lines /\ oreq'[r].cmd = oreq[r].cmd /\ oreq'[r].pc = pc
      /\ Alone(r)
  BY DEF Goto, IInv, TypeOK, OrdersTypeOK, OrderRequest, Alone
<1> QED
  BY <1>1, GoOnKeepsAmountsInv

\* What the writes do to the amounts.
LEMMA UnchangedAmounts ==
    ASSUME UNCHANGED items
    PROVE  AmountsStay
BY DEF AmountsStay

LEMMA DeletionStaysInRange ==
    ASSUME NEW ids, DeleteItems(ids)
    PROVE  AmountsStay
BY DEF AmountsStay, DeleteItems

LEMMA InsertionStaysInRange ==
    ASSUME NEW r, NEW o, NEW lines, InsertItems(r, o, lines),
           \A l \in lines : Storable(l.amount)
    PROVE  AmountsStay
<1>1. ASSUME NEW i \in ItemIds, items'[i] # Null
      PROVE  \/ items[i] # Null /\ items'[i].amount = items[i].amount
             \/ Storable(items'[i].amount)
  <2>1. CASE \E l \in lines : i = <<r, l.product>>
    <3> DEFINE l == CHOOSE l \in lines : i = <<r, l.product>>
    <3>1. l \in lines
      BY <2>1
    <3>2. items'[i].amount = l.amount
      BY <2>1 DEF InsertItems
    <3> QED
      BY <3>1, <3>2
  <2>2. CASE ~\E l \in lines : i = <<r, l.product>>
    BY <1>1, <2>2 DEF InsertItems
  <2> QED
    BY <2>1, <2>2
<1> QED
  BY <1>1 DEF AmountsStay

LEMMA SavedOrderStaysInRange ==
    ASSUME IInv, NEW o, NEW row, NEW loaded, SaveLoadedOrder(o, row, loaded)
    PROVE  AmountsStay
<1>1. \A i \in ItemIds : items[i] # Null => items[i] \in ItemRow
  BY DEF IInv, TypeOK, DatabaseTypeOK
<1> QED
  BY <1>1 DEF AmountsStay, SaveLoadedOrder, ItemRow

LEMMA SavedItemsStayInRange ==
    ASSUME IInv, NEW amounts, SaveLoadedItems(amounts),
           \A i \in DOMAIN amounts : Storable(amounts[i])
    PROVE  AmountsStay
<1>1. \A i \in ItemIds : items[i] # Null => items[i] \in ItemRow
  BY DEF IInv, TypeOK, DatabaseTypeOK
<1> QED
  BY <1>1 DEF AmountsStay, SaveLoadedItems, ItemRow

-----------------------------------------------------------------------------
(* The handlers.                                                             *)

LEMMA CreationKeepsAmountsInv ==
    ASSUME IInv, AmountsInv, NEW r \in OrderRequests,
           CreateCheck(r) \/ CreateSaveOrder(r) \/ CreateSaveItems(r) \/ Respond(r)
    PROVE  AmountsInv'
<1>1. CASE CreateCheck(r)
  <2>1. /\ UNCHANGED items
        /\ \/ End(r, "failed") \/ End(r, "rejected")
           \/ AcceptsLines(oreq[r].lines) /\ Goto(r, "saveOrder")
    BY <1>1 DEF CreateCheck, database
  <2> QED
    BY <2>1, UnchangedAmounts, EndKeepsAmountsInv, GotoKeepsAmountsInv DEF EndPcs, SavedPcs
<1>2. CASE CreateSaveOrder(r)
  <2>1. /\ UNCHANGED items /\ oreq[r].pc = "saveOrder"
        /\ End(r, "failed") \/ (Storable(TotalPrice(oreq[r].lines)) /\ Goto(r, "saveItems"))
    BY <1>2 DEF CreateSaveOrder, At
  <2>2. oreq[r].lines \in SUBSET Line /\ IsFiniteSet(oreq[r].lines) /\ AcceptsLines(oreq[r].lines)
    BY <2>1 DEF AmountsInv, AmountsShapeOf, IInv, TypeOK, OrdersTypeOK, OrderRequest
  <2> QED
    BY <2>1, <2>2, UnchangedAmounts, EndKeepsAmountsInv, GotoKeepsAmountsInv, TotalBoundsAmounts
       DEF EndPcs, SavedPcs
<1>3. CASE CreateSaveItems(r)
  <2>1. /\ oreq[r].pc \in SavedPcs
        /\ \A l \in oreq[r].lines : Storable(l.amount)
        /\ \/ End(r, "failed") /\ UNCHANGED items
           \/ InsertItems(r, r, oreq[r].lines) /\ Goto(r, "respond")
    BY <1>3 DEF CreateSaveItems, At, AmountsInv, AmountsShapeOf, SavedPcs
  <2> QED
    BY <2>1, UnchangedAmounts, InsertionStaysInRange, EndKeepsAmountsInv, GotoKeepsAmountsInv
       DEF EndPcs
<1>4. CASE Respond(r)
  <2>1. UNCHANGED items /\ (End(r, "empty") \/ End(r, "done"))
    BY <1>4 DEF Respond, database
  <2> QED
    BY <2>1, UnchangedAmounts, EndKeepsAmountsInv DEF EndPcs
<1> QED
  BY <1>1, <1>2, <1>3, <1>4

LEMMA FindKeepsAmountsInv ==
    ASSUME IInv, AmountsInv, NEW r \in OrderRequests, NEW pc, FindUnfinished(r, pc),
           UNCHANGED items, pc \notin SavedPcs \/ oreq[r].cmd = "delete", pc # "saveOrder"
    PROVE  AmountsInv'
<1>1. CASE End(r, "rejected")
  BY <1>1, UnchangedAmounts, EndKeepsAmountsInv DEF EndPcs
<1>2. CASE ~End(r, "rejected")
  <2> DEFINE row == orders[oreq[r].order]
             loaded == ItemsOf(oreq[r].order)
             bare == {i \in loaded : items[i].product = Null}
  <2>1. oreq' = [oreq EXCEPT ![r] = [@ EXCEPT !.pc = pc, !.row = row, !.loaded = loaded,
                                             !.bare = bare]]
    BY <1>2 DEF FindUnfinished
  <2> HIDE DEF row, loaded, bare
  <2>2. /\ oreq'[r].lines = oreq[r].lines /\ oreq'[r].cmd = oreq[r].cmd /\ oreq'[r].pc = pc
        /\ Alone(r)
    BY <2>1 DEF IInv, TypeOK, OrdersTypeOK, OrderRequest, Alone
  <2> QED
    BY <2>2, UnchangedAmounts, GoOnKeepsAmountsInv
<1> QED
  BY <1>1, <1>2

LEMMA UpdateKeepsAmountsInv ==
    ASSUME IInv, AmountsInv, NEW r \in OrderRequests,
           \/ UpdateFind(r) \/ UpdateCheck(r) \/ UpdateSaveOrder(r)
           \/ UpdateDeleteItems(r) \/ UpdateCreateItems(r)
           \/ UpdateFindItems(r) \/ UpdateSaveItems(r)
    PROVE  AmountsInv'
<1>0. oreq[r].cmd = "update" /\ oreq[r].pc \in SavedPcs => \A l \in oreq[r].lines : Storable(l.amount)
  BY DEF AmountsInv, AmountsShapeOf
<1>1. CASE UpdateFind(r)
  BY <1>1, FindKeepsAmountsInv DEF UpdateFind, database, SavedPcs
<1>2. CASE UpdateCheck(r)
  <2>1. /\ UNCHANGED items
        /\ \/ End(r, "failed") \/ End(r, "rejected")
           \/ AcceptsLines(oreq[r].lines) /\ Goto(r, "saveOrder")
    BY <1>2 DEF UpdateCheck, database
  <2> QED
    BY <2>1, UnchangedAmounts, EndKeepsAmountsInv, GotoKeepsAmountsInv DEF EndPcs, SavedPcs
<1>3. CASE UpdateSaveOrder(r)
  <2> DEFINE row == [oreq[r].row EXCEPT
                       !.clientName = IF oreq[r].clientName # Null THEN oreq[r].clientName
                                      ELSE oreq[r].row.clientName,
                       !.totalPrice = TotalPrice(oreq[r].lines)]
  <2>1. /\ oreq[r].pc = "saveOrder"
        /\ \/ End(r, "failed") /\ UNCHANGED items
           \/ /\ Storable(TotalPrice(oreq[r].lines)) /\ Goto(r, "deleteItems")
              /\ SaveLoadedOrder(oreq[r].order, row, oreq[r].loaded)
    BY <1>3 DEF UpdateSaveOrder, At
  <2>2. oreq[r].lines \in SUBSET Line /\ IsFiniteSet(oreq[r].lines) /\ AcceptsLines(oreq[r].lines)
    BY <2>1 DEF AmountsInv, AmountsShapeOf, IInv, TypeOK, OrdersTypeOK, OrderRequest
  <2> HIDE DEF row
  <2>3. AmountsStay
    BY <2>1, UnchangedAmounts, SavedOrderStaysInRange
  <2> QED
    BY <2>1, <2>2, <2>3, EndKeepsAmountsInv, GotoKeepsAmountsInv, TotalBoundsAmounts
       DEF EndPcs, SavedPcs
<1>4. CASE UpdateDeleteItems(r)
  <2>1. oreq[r].pc \in SavedPcs /\ Goto(r, "createItems") /\ \E ids : DeleteItems(ids)
    BY <1>4 DEF UpdateDeleteItems, At, SavedPcs
  <2> QED
    BY <2>1, DeletionStaysInRange, GotoKeepsAmountsInv
<1>5. CASE UpdateCreateItems(r)
  <2>1. /\ oreq[r].pc \in SavedPcs /\ oreq[r].cmd = "update"
        /\ \/ End(r, "failed") /\ UNCHANGED items
           \/ /\ Goto(r, "findItems")
              /\ \E new \in SUBSET oreq[r].lines : InsertItems(r, oreq[r].order, new)
    BY <1>5 DEF UpdateCreateItems, At, SavedPcs
  <2>2. AmountsStay
    BY <1>0, <2>1, UnchangedAmounts, InsertionStaysInRange
  <2> QED
    BY <2>1, <2>2, EndKeepsAmountsInv, GotoKeepsAmountsInv DEF EndPcs
<1>6. CASE UpdateFindItems(r)
  <2>1. oreq[r].pc \in SavedPcs /\ UNCHANGED items
    BY <1>6 DEF UpdateFindItems, At, database, SavedPcs
  <2>2. /\ oreq'[r].lines = oreq[r].lines /\ oreq'[r].cmd = oreq[r].cmd
        /\ oreq'[r].pc = "updateItems" /\ Alone(r)
    BY <1>6 DEF UpdateFindItems, IInv, TypeOK, OrdersTypeOK, OrderRequest, Alone
  <2> QED
    BY <2>1, <2>2, UnchangedAmounts, GoOnKeepsAmountsInv
<1>7. CASE UpdateSaveItems(r)
  <2>1. oreq[r].pc \in SavedPcs /\ oreq[r].cmd = "update" /\ Goto(r, "respond")
    BY <1>7 DEF UpdateSaveItems, At, SavedPcs
  <2>2. PICK line \in [oreq[r].loaded -> oreq[r].lines] :
           SaveLoadedItems([i \in oreq[r].loaded |-> line[i].amount])
    BY <1>7 DEF UpdateSaveItems
  <2>3. AmountsStay
    <3> DEFINE amounts == [i \in oreq[r].loaded |-> line[i].amount]
    <3>1. \A i \in DOMAIN amounts : Storable(amounts[i])
      BY <1>0, <2>1
    <3>2. SaveLoadedItems(amounts)
      BY <2>2
    <3> HIDE DEF amounts
    <3> QED
      BY <3>1, <3>2, SavedItemsStayInRange
  <2> QED
    BY <2>1, <2>3, GotoKeepsAmountsInv
<1> QED
  BY <1>1, <1>2, <1>3, <1>4, <1>5, <1>6, <1>7

LEMMA DeletionKeepsAmountsInv ==
    ASSUME IInv, AmountsInv, NEW r \in OrderRequests,
           DeleteFind(r) \/ DeleteDeleteItems(r) \/ DeleteDeleteOrder(r)
    PROVE  AmountsInv'
<1>1. CASE DeleteFind(r)
  BY <1>1, FindKeepsAmountsInv DEF DeleteFind, At, database
<1>2. CASE DeleteDeleteItems(r)
  <2>1. /\ oreq[r].cmd = "delete" /\ \E ids : DeleteItems(ids)
        /\ End(r, "failed") \/ Goto(r, "deleteOrder")
    BY <1>2 DEF DeleteDeleteItems, At
  <2> QED
    BY <2>1, DeletionStaysInRange, EndKeepsAmountsInv, GotoKeepsAmountsInv DEF EndPcs, SavedPcs
<1>3. CASE DeleteDeleteOrder(r)
  <2>1. UNCHANGED items /\ (End(r, "failed") \/ End(r, "done"))
    BY <1>3 DEF DeleteDeleteOrder
  <2> QED
    BY <2>1, UnchangedAmounts, EndKeepsAmountsInv DEF EndPcs
<1> QED
  BY <1>1, <1>2, <1>3

\* A request that arrives has finitely many lines, not accepted yet.
LEMMA ReceiveKeepsAmountsInv ==
    ASSUME IInv, AmountsInv, NEW r \in OrderRequests, NEW request, Receive(r, request),
           IsFiniteSet(request.lines), request.pc \in {"find", "checkName"}
    PROVE  AmountsInv'
<1>1. oreq'[r] = request /\ Alone(r) /\ UNCHANGED items
  BY DEF Receive, IInv, TypeOK, OrdersTypeOK, Alone, database
<1>2. AmountsShapeOf(r)'
  BY <1>1 DEF AmountsShapeOf, SavedPcs
<1> QED
  BY <1>1, <1>2, UnchangedAmounts, StepKeepsAmountsInv

LEMMA OrdersReceiveKeepsAmountsInv ==
    ASSUME IInv, AmountsInv, OrdersReceive
    PROVE  AmountsInv'
<1>1. PICK r \in OrderRequests, org \in Organisations :
         \/ \E name \in ClientNames \cup {Null}, cart \in Carts :
               ReceiveCreate(r, org, name, cart)
         \/ \E o \in Known, name \in ClientNames \cup {Null}, cart \in Carts :
               \E lines \in LinesFor(o, cart) : ReceiveUpdate(r, o, org, name, lines)
         \/ \E o \in Known : ReceiveDelete(r, o, org)
  BY DEF OrdersReceive
<1>2. ASSUME NEW name, NEW cart \in Carts, ReceiveCreate(r, org, name, cart)
      PROVE  AmountsInv'
  <2> DEFINE lines == {[product |-> c.product, amount |-> c.amount, item |-> Null] : c \in cart}
             request == [NoOrderRequest EXCEPT
                 !.cmd = "create", !.pc = "checkName", !.organisation = org,
                 !.order = r, !.clientName = name, !.lines = lines]
  <2>1. Receive(r, request)
    BY <1>2 DEF ReceiveCreate
  <2>2. IsFiniteSet(lines)
    <3> DEFINE line == [c \in cart |-> [product |-> c.product, amount |-> c.amount, item |-> Null]]
    <3>1. IsFiniteSet(cart)
      BY OrdersAssumption
    <3>2. line \in Surjection(cart, lines)
      BY DEF Surjection
    <3> HIDE DEF line, lines
    <3> QED
      BY <3>1, <3>2, FS_Surjection
  <2> HIDE DEF lines
  <2>3. request.lines = lines /\ request.pc = "checkName"
    BY DEF NoOrderRequest
  <2> HIDE DEF request
  <2> QED
    BY <2>1, <2>2, <2>3, ReceiveKeepsAmountsInv
<1>3. ASSUME NEW o, NEW name, NEW cart \in Carts, NEW lines \in LinesFor(o, cart),
             ReceiveUpdate(r, o, org, name, lines)
      PROVE  AmountsInv'
  <2> DEFINE request == [NoOrderRequest EXCEPT
                 !.cmd = "update", !.pc = "find", !.organisation = org,
                 !.order = o, !.clientName = name, !.lines = lines]
  <2>1. Receive(r, request)
    BY <1>3 DEF ReceiveUpdate
  <2>2. request.lines = lines /\ request.pc = "find"
    BY DEF NoOrderRequest
  <2>3. IsFiniteSet(lines)
    <3>1. PICK id : lines = {[product |-> c.product, amount |-> c.amount, item |-> id[c]] : c \in cart}
      BY LinesForShape
    <3> DEFINE line == [c \in cart |-> [product |-> c.product, amount |-> c.amount, item |-> id[c]]]
    <3>2. IsFiniteSet(cart)
      BY OrdersAssumption
    <3>3. line \in Surjection(cart, lines)
      BY <3>1 DEF Surjection
    <3> HIDE DEF line
    <3> QED
      BY <3>2, <3>3, FS_Surjection
  <2> HIDE DEF request
  <2> QED
    BY <2>1, <2>2, <2>3, ReceiveKeepsAmountsInv
<1>4. ASSUME NEW o, ReceiveDelete(r, o, org)
      PROVE  AmountsInv'
  <2> DEFINE request == [NoOrderRequest EXCEPT
                 !.cmd = "delete", !.pc = "find", !.organisation = org, !.order = o]
  <2>1. Receive(r, request)
    BY <1>4 DEF ReceiveDelete
  <2>2. request.lines = {} /\ request.pc = "find"
    BY DEF NoOrderRequest
  <2> HIDE DEF request
  <2> QED
    BY <2>1, <2>2, FS_EmptySet, ReceiveKeepsAmountsInv
<1> QED
  BY <1>1, <1>2, <1>3, <1>4

\* Payments and callbacks have no items.
LEMMA OthersKeepAmountsInv ==
    ASSUME AmountsInv, UNCHANGED <<oreq, items>>
    PROVE  AmountsInv'
<1>1. \A r \in OrderRequests : AmountsShapeOf(r)'
  BY DEF AmountsInv, AmountsShapeOf
<1>2. AmountsStorable'
  BY DEF AmountsInv, AmountsStorable, Storable
<1> QED
  BY <1>1, <1>2 DEF AmountsInv

LEMMA InitAmountsInv == Init => AmountsInv
<1> SUFFICES ASSUME Init
             PROVE  AmountsInv
  OBVIOUS
<1>1. \A r \in OrderRequests : oreq[r] = NoOrderRequest
  BY DEF Init, OrdersInit
<1>2. \A r \in OrderRequests : AmountsShapeOf(r)
  BY <1>1, FS_EmptySet DEF AmountsShapeOf, NoOrderRequest, SavedPcs
<1>3. AmountsStorable
  BY DEF Init, DatabaseInit, AmountsStorable
<1> QED
  BY <1>2, <1>3 DEF AmountsInv

LEMMA NextKeepsAmountsInv == IInv /\ AmountsInv /\ [Next]_vars => AmountsInv'
<1> SUFFICES ASSUME IInv, AmountsInv, [Next]_vars
             PROVE  AmountsInv'
  OBVIOUS
<1>1. CASE UNCHANGED <<oreq, items>>
  BY <1>1, OthersKeepAmountsInv
<1>2. CASE OrdersReceive
  BY <1>2, OrdersReceiveKeepsAmountsInv
<1>3. ASSUME NEW r \in OrderRequests, OrderStep(r)
      PROVE  AmountsInv'
  BY <1>3, CreationKeepsAmountsInv, UpdateKeepsAmountsInv, DeletionKeepsAmountsInv DEF OrderStep
<1>4. ASSUME NEW r \in OrderRequests, OrderAbort(r)
      PROVE  AmountsInv'
  <2>1. UNCHANGED items /\ End(r, "failed")
    BY <1>4 DEF OrderAbort, database
  <2> QED
    BY <2>1, UnchangedAmounts, EndKeepsAmountsInv DEF EndPcs
<1>5. CASE Receives
  BY <1>1, <1>2, <1>5 DEF Receives, PaymentsReceive, PaymentReceive, WebhooksReceive,
     WebhookReceive, database
<1>6. CASE Steps
  <2>1. ASSUME NEW p \in PaymentRequests, PaymentStep(p)
        PROVE  UNCHANGED items
    BY <2>1 DEF PaymentStep, CreatePaymentFind, CreatePaymentCallPayconiq, CreatePaymentSave,
       CreatePaymentFinishOrder, PayconiqRespond, CancelFind, CancelCallPayconiq,
       CancelUpdatePayment, database
  <2>2. ASSUME NEW d \in Deliveries, WebhookStep(d)
        PROVE  UNCHANGED items
    BY <2>2 DEF WebhookStep, WebhookFind, WebhookUpdatePayment, WebhookFinishOrder, database
  <2> QED
    BY <1>1, <1>3, <1>6, <2>1, <2>2 DEF Steps
<1>7. CASE Aborts
  BY <1>1, <1>4, <1>7 DEF Aborts, PaymentAbort, WebhookAbort, database
<1>8. CASE PayconiqMoves \/ UNCHANGED vars
  BY <1>1, <1>8 DEF PayconiqMoves, vars, database
<1> QED
  BY <1>5, <1>6, <1>7, <1>8 DEF Next

\* Whatever overlaps and whatever fails, the lines of a handler that has saved
\* its order fit their column, each of them.
THEOREM AmountsInvariantHolds == Spec => []AmountsInv
BY InvariantHolds, InitAmountsInv, NextKeepsAmountsInv, PTL DEF Spec

\* So no item overflows its column: the total was stored before, and a product
\* costs something.
THEOREM AmountsStorableAlways == Spec => []AmountsStorable
<1>1. AmountsInv => AmountsStorable
  BY DEF AmountsInv
<1> QED
  BY <1>1, AmountsInvariantHolds, PTL

------------------------------------------------------------------------------
(* Totals, in a serial execution of careful clients without failures and     *)
(* without Payconiq payments.                                                *)

Priced(o) ==
    IsFiniteSet(ItemsOf(o)) /\ orders[o].totalPrice = TotalOf(items, ItemsOf(o))

\* The handler has saved the total and not yet answered, or deleted the items
\* and not yet the order.
Saved(r) == oreq[r].cmd # "delete" /\ oreq[r].pc \in SavedPcs
HalfWay(r) == Saved(r) \/ At(r, "delete", "deleteOrder")

TotalShapeOf(r) ==
    /\ Saved(r) => orders[oreq[r].order].totalPrice = TotalPrice(oreq[r].lines)
    /\ At(r, "delete", "deleteOrder") => ItemsOf(oreq[r].order) = {}

\* No payment waits for Payconiq, so none keeps an unfinished order from being
\* deleted after its items were.
NoPayconiq ==
    \A p \in PaymentIds :
        preq[p].cmd # "PAYCONIQ" /\ (payments[p] # Null => payments[p].type # "PAYCONIQ")

TotalsInv ==
    /\ NoPayconiq
    /\ \A r \in OrderRequests : TotalShapeOf(r)
    /\ \A o \in OrderIds : orders[o] # Null =>
          Priced(o) \/ \E r \in OrderRequests : oreq[r].order = o /\ HalfWay(r)

LEMMA HalfWayIsOpen ==
    ASSUME NEW r \in OrderRequests, HalfWay(r)
    PROVE  r \in OrderOpen
BY DEF HalfWay, Saved, SavedPcs, At, OrderOpen, OrderOpenPcs

\* There is one sum.
LEMMA SumIsUnique ==
    ASSUME NEW f, NEW S, IsFiniteSet(S), NEW sum, IsSum(sum, f, S), NEW also, IsSum(also, f, S)
    PROVE  sum[S] = also[S]
<1> DEFINE G == {s \in SUBSET S : sum[s] = also[s]}
<1>1. {} \in G
  BY SumUnfolds
<1>2. ASSUME NEW s \in SUBSET S, s # {}, \A x \in s : s \ {x} \in G
      PROVE  s \in G
  <2> DEFINE first == CHOOSE x \in s : TRUE
  <2>1. first \in s
    BY <1>2
  <2>2. sum[s] = f[first] + sum[s \ {first}] /\ also[s] = f[first] + also[s \ {first}]
    BY <1>2 DEF IsSum
  <2> HIDE DEF first
  <2>3. sum[s \ {first}] = also[s \ {first}]
    BY <1>2, <2>1
  <2> QED
    BY <2>2, <2>3
<1>3. G \in SUBSET (SUBSET S)
  OBVIOUS
<1>4. G = SUBSET S
  <2> HIDE DEF G
  <2> QED
    BY <1>1, <1>2, <1>3, SubsetInduction
<1> QED
  BY <1>4

\* A sum over the same items of the same amounts and products is the same.
LEMMA SameTotal ==
    ASSUME NEW rows, NEW other, NEW ids, IsFiniteSet(ids), \A i \in ids : other[i] = rows[i]
    PROVE  TotalOf(other, ids) = TotalOf(rows, ids)
<1>1. ItemPrices(other, ids) = ItemPrices(rows, ids)
  BY DEF ItemPrices
<1>2. PICK sum : IsSum(sum, ItemPrices(rows, ids), ids) /\ TotalOf(rows, ids) = sum[ids]
  BY TotalOfIsASum
<1>3. PICK also : IsSum(also, ItemPrices(other, ids), ids) /\ TotalOf(other, ids) = also[ids]
  BY TotalOfIsASum
<1> QED
  BY <1>1, <1>2, <1>3, SumIsUnique

\* What a step grants to the orders it is not about.
Untouched(o) ==
    /\ orders'[o] = orders[o]
    /\ ItemsOf(o)' = ItemsOf(o)
    /\ \A i \in ItemsOf(o) : items'[i] = items[i]

\* An order whose items and total stay is as priced as it was.
LEMMA PricedStays ==
    ASSUME NEW o, Priced(o),
           orders'[o].totalPrice = orders[o].totalPrice, ItemsOf(o)' = ItemsOf(o),
           \A i \in ItemsOf(o) : items'[i] = items[i]
    PROVE  Priced(o)'
<1>1. TotalOf(items', ItemsOf(o)) = TotalOf(items, ItemsOf(o))
  BY SameTotal DEF Priced
<1> QED
  BY <1>1 DEF Priced

\* An order is priced when its items are those of lines that add up to its
\* total, one for each.
LEMMA ItemsOfLinesArePriced ==
    ASSUME NEW o, NEW lines \in SUBSET Line, IsFiniteSet(lines), AcceptsLines(lines),
           orders[o].totalPrice = TotalPrice(lines), NEW item \in [lines -> ItemIds],
           \A i : i \in ItemsOf(o) <=> \E l \in lines : i = item[l],
           \A l \in lines : /\ item[l][2] = l.product
                            /\ items[item[l]].product = l.product
                            /\ items[item[l]].amount = l.amount
    PROVE  Priced(o)
<1> DEFINE ids == ItemsOf(o)
           f == LinePrices(lines)
           g == ItemPrices(items, ids)
<1>1. item \in [lines -> ids]
  OBVIOUS
<1>2. item \in Bijection(lines, ids)
  <2>1. \A k, l \in lines : item[k] = item[l] => k = l
    BY DEF AcceptsLines
  <2> QED
    BY <1>1, <2>1 DEF Bijection, Injection, Surjection, IsInjective
<1> HIDE DEF ids
<1>3. IsFiniteSet(ids)
  BY <1>2, FS_Bijection DEF ExistsBijection
<1>4. PICK sum : IsSum(sum, f, lines) /\ TotalPrice(lines) = sum[lines]
  BY TotalPriceIsASum
<1>5. PICK also : IsSum(also, g, ids) /\ TotalOf(items, ids) = also[ids]
  BY <1>3, TotalOfIsASum
<1>6. \A l \in lines : l.amount \in Int /\ Price[l.product] \in Int
                       /\ l.amount * Price[l.product] \in Int
  BY CatalogueAssumption DEF Line, AcceptsLines
<1>7. \A l \in lines : f[l] = l.amount * Price[l.product] /\ g[item[l]] = l.amount * Price[l.product]
  BY <1>1 DEF LinePrices, ItemPrices
<1>8. f \in [lines -> Int]
  BY <1>6 DEF LinePrices
<1>9. g \in [ids -> Int]
  <2>1. \A i \in ids : g[i] \in Int
    BY <1>2, <1>6, <1>7 DEF Bijection, Surjection
  <2>2. g = [i \in ids |-> g[i]]
    BY DEF ItemPrices
  <2> HIDE DEF g
  <2> QED
    BY <2>1, <2>2
<1>10. f = [l \in lines |-> g[item[l]]]
  BY <1>7 DEF LinePrices
<1> HIDE DEF f, g
<1>11. sum[lines] = also[ids]
  BY <1>2, <1>3, <1>4, <1>5, <1>8, <1>9, <1>10, SumOfBijection
<1> QED
  BY <1>3, <1>4, <1>5, <1>11 DEF Priced, ids

\* A creation that is about to be answered has one item for each line, and so
\* has an update.
LEMMA CreationIsPriced ==
    ASSUME IInv, ItemInv, AnswerInv, AmountsInv, NEW r \in OrderRequests,
           At(r, "create", "respond"), TotalShapeOf(r)
    PROVE  Priced(r)
<1> DEFINE lines == oreq[r].lines
           item == [l \in lines |-> <<r, l.product>>]
<1>1. /\ lines \in SUBSET Line /\ IsFiniteSet(lines) /\ oreq[r].order = r
      /\ orders[r].totalPrice = TotalPrice(lines)
  BY DEF IInv, TypeOK, OrdersTypeOK, OrderRequest, AmountsInv, AmountsShapeOf, TotalShapeOf, Saved,
     SavedPcs, At, ItemInv, HomeShape, HomeShapeOf
<1>2. /\ AcceptsLines(lines)
      /\ \A l \in lines : items[<<r, l.product>>] =
            [amount |-> l.amount, product |-> l.product, order |-> r]
  BY DEF AnswerInv, CreationShape, CreationShapeOf, At
<1>3. \A i \in ItemIds : i \in ItemsOf(r) <=> i[1] = r /\ \E l \in lines : l.product = i[2]
  BY ItemsOfACreation
<1>4. \A l \in lines : <<r, l.product>> \in ItemIds
  BY <1>1 DEF Line, ItemIds
<1>5. \A i : i \in ItemsOf(r) <=> \E l \in lines : i = item[l]
  <2>1. ASSUME NEW i \in ItemsOf(r)
        PROVE  \E l \in lines : i = item[l]
    <3>1. i \in ItemIds /\ i = <<i[1], i[2]>>
      BY OwnerIsRequest DEF ItemsOf
    <3> QED
      BY <1>3, <3>1
  <2>2. ASSUME NEW l \in lines
        PROVE  item[l] \in ItemsOf(r)
    <3>1. item[l] \in ItemIds /\ item[l][1] = r /\ item[l][2] = l.product
      BY <1>4
    <3> HIDE DEF item
    <3> QED
      BY <1>3, <3>1
  <2> QED
    BY <2>1, <2>2
<1>6. \A l \in lines : /\ item[l][2] = l.product
                       /\ items[item[l]].product = l.product
                       /\ items[item[l]].amount = l.amount
  <2> SUFFICES ASSUME NEW l \in lines
               PROVE  /\ item[l][2] = l.product
                      /\ items[item[l]].product = l.product
                      /\ items[item[l]].amount = l.amount
    OBVIOUS
  <2>1. item[l] = <<r, l.product>>
    OBVIOUS
  <2>2. items[<<r, l.product>>] = [amount |-> l.amount, product |-> l.product, order |-> r]
    BY <1>2
  <2> HIDE DEF item, lines
  <2> QED
    BY <2>1, <2>2
<1>7. item \in [lines -> ItemIds]
  BY <1>4
<1> HIDE DEF lines, item
<1> QED
  BY <1>1, <1>2, <1>5, <1>6, <1>7, ItemsOfLinesArePriced

LEMMA UpdateIsPriced ==
    ASSUME IInv, SerialInv, UpdateInv, AmountsInv, NEW r \in OrderRequests,
           At(r, "update", "respond"), TotalShapeOf(r)
    PROVE  Priced(oreq[r].order)
<1> DEFINE lines == oreq[r].lines
           o == oreq[r].order
           item == [l \in lines |-> ItemFor(r, l)]
<1>1. /\ lines \in SUBSET Line /\ IsFiniteSet(lines)
      /\ orders[o].totalPrice = TotalPrice(lines)
  BY DEF IInv, TypeOK, OrdersTypeOK, OrderRequest, AmountsInv, AmountsShapeOf, TotalShapeOf, Saved,
     SavedPcs, At
<1>2. /\ AcceptsLines(lines) /\ ItemIsOfItsProduct /\ oreq[r].pc = "respond"
      /\ ItemsAreOfLines(r)
      /\ \A l \in lines : l.item # Null => l.item[2] = l.product
  BY OpenUpdate DEF At, OrderOpenPcs, UpdateShapeOf
<1>3. ASSUME NEW l \in lines
      PROVE  /\ ItemFor(r, l) \in ItemsOf(o) /\ ItemFor(r, l)[2] = l.product
             /\ items[ItemFor(r, l)].amount = l.amount
             /\ items[ItemFor(r, l)].product = l.product
  <2>1. ItemFor(r, l) \in ItemsOf(o) /\ items[ItemFor(r, l)].amount = l.amount
    BY <1>2 DEF ItemsAreOfLines
  <2>2. ItemFor(r, l)[2] = l.product
    <3>1. <<r, l.product>>[2] = l.product
      OBVIOUS
    <3> QED
      BY <1>2, <3>1 DEF ItemFor
  <2> QED
    BY <1>2, <2>1, <2>2 DEF ItemIsOfItsProduct, ItemsOf
<1>4. \A i : i \in ItemsOf(o) <=> \E l \in lines : i = item[l]
  BY <1>2, <1>3 DEF ItemsAreOfLines
<1>5. \A l \in lines : /\ item[l][2] = l.product
                       /\ items[item[l]].product = l.product
                       /\ items[item[l]].amount = l.amount
  BY <1>3
<1>6. item \in [lines -> ItemIds]
  BY <1>3 DEF ItemsOf
<1> HIDE DEF lines, item, o
<1> QED
  BY <1>1, <1>2, <1>4, <1>5, <1>6, ItemsOfLinesArePriced DEF o

-----------------------------------------------------------------------------
(* What TotalsInv needs of a step of an orders handler.                      *)

LEMMA OnlyOneIsHalfWay ==
    ASSUME SerialInv, NEW r \in OrderOpen, NEW q \in OrderRequests, q # r
    PROVE  ~HalfWay(q) /\ oreq[q].pc \notin OrderOpenPcs
BY HalfWayIsOpen DEF SerialInv, OneHandler, OrderOpen

\* The handler of order o leaves the others alone, and o itself priced unless
\* it is half-way.
LEMMA HandlerKeepsTotalsInv ==
    ASSUME SerialInv, TotalsInv, NEW r \in OrderRequests, oreq[r].pc \in OrderOpenPcs, Alone(r),
           oreq'[r].order = oreq[r].order, UNCHANGED <<payments, preq>>, TotalShapeOf(r)',
           \A o \in OrderIds : o # oreq[r].order => Untouched(o),
           LET o == oreq[r].order IN orders'[o] = Null \/ HalfWay(r)' \/ Priced(o)'
    PROVE  TotalsInv'
<1>1. r \in OrderOpen
  BY DEF OrderOpen
<1>2. ASSUME NEW q \in OrderRequests
      PROVE  TotalShapeOf(q)'
  <2>1. CASE q # r
    <3>1. oreq'[q] = oreq[q] /\ ~HalfWay(q)
      BY <1>1, <2>1, OnlyOneIsHalfWay DEF Alone
    <3> QED
      BY <3>1 DEF TotalShapeOf, HalfWay, Saved, At
  <2> QED
    BY <2>1
<1>3. ASSUME NEW o \in OrderIds, orders'[o] # Null
      PROVE  Priced(o)' \/ \E q \in OrderRequests : oreq'[q].order = o /\ HalfWay(q)'
  <2>1. CASE o = oreq[r].order
    BY <1>3, <2>1
  <2>2. CASE o # oreq[r].order
    <3>1. Untouched(o) /\ orders[o] # Null
      BY <1>3, <2>2 DEF Untouched
    <3>2. Priced(o)
      BY <1>1, <2>2, <3>1, OnlyOneIsHalfWay DEF TotalsInv
    <3> QED
      BY <3>1, <3>2, PricedStays DEF Untouched
  <2> QED
    BY <2>1, <2>2
<1>4. NoPayconiq'
  BY DEF TotalsInv, NoPayconiq
<1> QED
  BY <1>2, <1>3, <1>4 DEF TotalsInv

\* A handler that reads the tables, and is or is not half-way before and after.
LEMMA ReadKeepsTotalsInv ==
    ASSUME IInv, SerialInv, TotalsInv,
           NEW r \in OrderRequests, oreq[r].pc \in OrderOpenPcs, Alone(r),
           oreq'[r].order = oreq[r].order, oreq'[r].lines = oreq[r].lines,
           UNCHANGED <<database, preq>>, At(r, "delete", "deleteOrder")' => FALSE,
           Saved(r)' => Saved(r), HalfWay(r) => HalfWay(r)' \/ Priced(oreq[r].order)
    PROVE  TotalsInv'
<1> DEFINE o == oreq[r].order
<1>1. UNCHANGED <<orders, items, payments>>
  BY DEF database
<1>2. \A x : Untouched(x)
  BY <1>1 DEF Untouched, ItemsOf
<1>3. TotalShapeOf(r)'
  BY <1>1 DEF TotalsInv, TotalShapeOf
<1>4. ASSUME orders'[o] # Null, ~HalfWay(r)'
      PROVE  Priced(o)'
  <2>1. o \in OrderIds
    BY DEF IInv, OrderShape, OrderOpenPcs
  <2>2. Priced(o)
    BY <1>1, <1>4, <2>1, OnlyOneIsHalfWay DEF TotalsInv, OrderOpen
  <2> QED
    BY <1>2, <2>2, PricedStays DEF Untouched
<1> QED
  BY <1>1, <1>2, <1>3, <1>4, HandlerKeepsTotalsInv

-----------------------------------------------------------------------------
(* The handlers.                                                             *)

LEMMA EndKeepsTotalsInv ==
    ASSUME IInv, SerialInv, TotalsInv, NEW r \in OrderRequests, oreq[r].pc \in OrderOpenPcs,
           NEW outcome \in EndPcs, End(r, outcome), UNCHANGED <<database, preq>>,
           HalfWay(r) => Priced(oreq[r].order)
    PROVE  TotalsInv'
<1>1. /\ Alone(r) /\ oreq'[r].pc = outcome
      /\ oreq'[r].order = oreq[r].order /\ oreq'[r].lines = oreq[r].lines
  BY EndGoesOn DEF GoesOn, OrderOpenPcs
<1>2. ~HalfWay(r)'
  BY <1>1 DEF HalfWay, Saved, SavedPcs, At, EndPcs
<1> QED
  BY <1>1, <1>2, ReadKeepsTotalsInv DEF HalfWay

\* A handler that goes on without writing.
LEMMA GotoKeepsTotalsInv ==
    ASSUME IInv, SerialInv, TotalsInv, NEW r \in OrderRequests, oreq[r].pc \in OrderOpenPcs,
           NEW pc \in OrderOpenPcs, Goto(r, pc), UNCHANGED <<database, preq>>,
           pc \notin SavedPcs, pc # "deleteOrder", ~HalfWay(r)
    PROVE  TotalsInv'
<1>1. /\ Alone(r) /\ oreq'[r].pc = pc
      /\ oreq'[r].order = oreq[r].order /\ oreq'[r].lines = oreq[r].lines
  BY GotoKeepsRequest
<1> QED
  BY <1>1, ReadKeepsTotalsInv DEF Saved, At

LEMMA CreationKeepsTotalsInv ==
    ASSUME IInv, ItemInv, AnswerInv, SerialInv, TotalsInv, UNCHANGED preq,
           NEW r \in OrderRequests, CreateCheck(r) \/ CreateSaveOrder(r) \/ CreateSaveItems(r)
    PROVE  TotalsInv'
<1>1. oreq[r].cmd = "create" /\ oreq[r].pc \in OrderOpenPcs /\ oreq[r].order = r
  BY DEF CreateCheck, CreateSaveOrder, CreateSaveItems, At, OrderOpenPcs, ItemInv, HomeShape,
     HomeShapeOf
<1>2. oreq[r].pc \in {"checkName", "saveOrder"} => ~HalfWay(r)
  BY DEF HalfWay, Saved, SavedPcs, At
<1>3. CASE CreateCheck(r)
  <2>1. /\ UNCHANGED database /\ oreq[r].pc = "checkName"
        /\ End(r, "failed") \/ End(r, "rejected") \/ Goto(r, "saveOrder")
    BY <1>3 DEF CreateCheck, At
  <2> QED
    BY <1>1, <1>2, <2>1, EndKeepsTotalsInv, GotoKeepsTotalsInv DEF EndPcs, OrderOpenPcs, SavedPcs
<1>4. CASE CreateSaveOrder(r)
  <2> DEFINE row == [clientName |-> oreq[r].clientName, totalPrice |-> TotalPrice(oreq[r].lines),
                     isFinished |-> FALSE, organisation |-> oreq[r].organisation]
  <2>1. /\ oreq[r].pc = "saveOrder" /\ UNCHANGED <<items, payments>>
        /\ \/ End(r, "failed") /\ UNCHANGED orders
           \/ Goto(r, "saveItems") /\ InsertOrder(r, row)
    BY <1>4 DEF CreateSaveOrder, At
  <2>2. row.totalPrice = TotalPrice(oreq[r].lines)
    OBVIOUS
  <2> HIDE DEF row
  <2>3. CASE End(r, "failed") /\ UNCHANGED orders
    BY <1>1, <1>2, <2>1, <2>3, EndKeepsTotalsInv DEF EndPcs, database
  <2>4. CASE Goto(r, "saveItems") /\ InsertOrder(r, row)
    <3>1. /\ Alone(r) /\ oreq'[r].pc = "saveItems" /\ oreq'[r].cmd = "create"
          /\ oreq'[r].order = r /\ oreq'[r].lines = oreq[r].lines
      BY <1>1, <2>4, GotoKeepsRequest DEF OrderOpenPcs
    <3>2. orders'[r].totalPrice = TotalPrice(oreq[r].lines)
          /\ \A o \in OrderIds : o # r => orders'[o] = orders[o]
      BY <2>2, <2>4 DEF InsertOrder, IInv, TypeOK, DatabaseTypeOK, OrderIds
    <3>3. \A o \in OrderIds : o # r => Untouched(o)
      BY <2>1, <3>2 DEF Untouched, ItemsOf
    <3>4. TotalShapeOf(r)' /\ HalfWay(r)'
      BY <3>1, <3>2 DEF TotalShapeOf, HalfWay, Saved, SavedPcs, At
    <3> QED
      BY <1>1, <2>1, <3>1, <3>3, <3>4, HandlerKeepsTotalsInv
  <2> QED
    BY <2>1, <2>3, <2>4
<1>5. CASE CreateSaveItems(r)
  <2>1. /\ oreq[r].pc = "saveItems" /\ UNCHANGED <<orders, payments>>
        /\ \A p \in Products : items[<<r, p>>] = Null
        /\ InsertItems(r, r, oreq[r].lines) /\ Goto(r, "respond")
    BY <1>5 DEF CreateSaveItems, At, OrderExists, AnswerInv, CreationShape, CreationShapeOf
  <2>2. /\ Alone(r) /\ oreq'[r].pc = "respond" /\ oreq'[r].cmd = "create"
        /\ oreq'[r].order = r /\ oreq'[r].lines = oreq[r].lines
    BY <1>1, <2>1, GotoKeepsRequest DEF OrderOpenPcs
  <2>3. TotalShapeOf(r)' /\ HalfWay(r)'
    BY <1>1, <2>1, <2>2 DEF TotalsInv, TotalShapeOf, HalfWay, Saved, SavedPcs, At
  <2>4. ASSUME NEW i \in ItemIds
        PROVE  \/ items'[i] = items[i]
               \/ items[i] = Null /\ items'[i].order = r
    BY <2>1, OwnerIsRequest DEF InsertItems
  <2>5. \A o \in OrderIds : o # r => Untouched(o)
    BY <2>1, <2>4 DEF Untouched, ItemsOf
  <2> QED
    BY <1>1, <2>1, <2>2, <2>3, <2>5, HandlerKeepsTotalsInv
<1> QED
  BY <1>3, <1>4, <1>5

LEMMA RespondKeepsTotalsInv ==
    ASSUME IInv, ItemInv, AnswerInv, SerialInv, UpdateInv, AmountsInv, TotalsInv, UNCHANGED preq,
           NEW r \in OrderRequests, Respond(r)
    PROVE  TotalsInv'
<1>1. /\ oreq[r].pc = "respond" /\ oreq[r].pc \in OrderOpenPcs /\ UNCHANGED database
      /\ End(r, "empty") \/ End(r, "done")
  BY DEF Respond, OrderOpenPcs
<1>2. oreq[r].cmd \in {"create", "update", "delete"} /\ TotalShapeOf(r)
  BY <1>1 DEF IInv, TypeOK, OrdersTypeOK, OrderRequest, OrderShape, TotalsInv
<1>3. HalfWay(r) => Priced(oreq[r].order)
  <2>1. CASE oreq[r].cmd = "create"
    BY <1>1, <1>2, <2>1, CreationIsPriced DEF At, ItemInv, HomeShape, HomeShapeOf
  <2>2. CASE oreq[r].cmd = "update"
    BY <1>1, <1>2, <2>2, UpdateIsPriced DEF At
  <2>3. CASE oreq[r].cmd = "delete"
    BY <1>1, <2>3 DEF HalfWay, Saved, At
  <2> QED
    BY <1>2, <2>1, <2>2, <2>3
<1> QED
  BY <1>1, <1>3, EndKeepsTotalsInv DEF EndPcs

\* What an update or a deletion finds is not written yet.
LEMMA FindKeepsTotalsInv ==
    ASSUME IInv, SerialInv, TotalsInv, NEW r \in OrderRequests,
           UpdateFind(r) \/ DeleteFind(r), UNCHANGED preq
    PROVE  TotalsInv'
<1>1. /\ oreq[r].pc = "find" /\ oreq[r].pc \in OrderOpenPcs /\ UNCHANGED database
      /\ oreq[r].cmd = "update" \/ oreq[r].cmd = "delete"
  BY DEF UpdateFind, DeleteFind, At, OrderOpenPcs
<1>2. ~HalfWay(r)
  BY <1>1 DEF HalfWay, Saved, SavedPcs, At
<1>3. CASE End(r, "rejected")
  BY <1>1, <1>2, <1>3, EndKeepsTotalsInv DEF EndPcs
<1>4. ASSUME NEW pc, NEW row, NEW loaded, NEW bare,
             pc = "checkName" \/ (pc = "deleteItems" /\ oreq[r].cmd = "delete"),
             oreq' = [oreq EXCEPT ![r] = [@ EXCEPT !.pc = pc, !.row = row, !.loaded = loaded,
                                                   !.bare = bare]]
      PROVE  TotalsInv'
  <2>1. /\ Alone(r) /\ oreq'[r].pc = pc /\ oreq'[r].cmd = oreq[r].cmd
        /\ oreq'[r].order = oreq[r].order /\ oreq'[r].lines = oreq[r].lines
    BY <1>4 DEF IInv, TypeOK, OrdersTypeOK, OrderRequest, Alone
  <2>2. ~HalfWay(r)'
    BY <1>4, <2>1 DEF HalfWay, Saved, SavedPcs, At
  <2> QED
    BY <1>1, <1>2, <2>1, <2>2, ReadKeepsTotalsInv DEF HalfWay
<1>5. CASE UpdateFind(r)
  BY <1>3, <1>4, <1>5 DEF UpdateFind, FindUnfinished
<1>6. CASE DeleteFind(r)
  <2>1. oreq[r].cmd = "delete" /\ FindUnfinished(r, "deleteItems")
    BY <1>6 DEF DeleteFind, At
  <2> QED
    BY <1>3, <1>4, <2>1 DEF FindUnfinished
<1> QED
  BY <1>5, <1>6

\* The handler of an update or a deletion writes items of its order only.
LEMMA ItemsStepKeepsTotalsInv ==
    ASSUME IInv, SerialInv, TotalsInv, NEW r \in OrderRequests, oreq[r].pc \in OrderOpenPcs,
           NEW pc \in OrderOpenPcs, Goto(r, pc), UNCHANGED <<orders, payments, preq>>,
           \A i \in ItemIds :
               \/ items'[i] = items[i]
               \/ /\ items[i] = Null \/ items[i].order \in {oreq[r].order, Null}
                  /\ items'[i] = Null \/ items'[i].order \in {oreq[r].order, Null},
           \/ Saved(r) /\ pc \in SavedPcs
           \/ /\ oreq[r].cmd = "delete" /\ pc = "deleteOrder"
              /\ \A i \in ItemIds : items'[i] = Null \/ items'[i].order # oreq[r].order
    PROVE  TotalsInv'
<1>1. /\ Alone(r) /\ oreq'[r].pc = pc /\ oreq'[r].cmd = oreq[r].cmd
      /\ oreq'[r].order = oreq[r].order /\ oreq'[r].lines = oreq[r].lines
  BY GotoKeepsRequest
<1>2. oreq[r].order \in OrderIds
  BY DEF IInv, OrderShape, OrderOpenPcs
<1>3. \A o \in OrderIds : o # oreq[r].order => Untouched(o)
  BY NullAssumption DEF Untouched, ItemsOf
<1>4. CASE Saved(r) /\ pc \in SavedPcs
  <2>1. TotalShapeOf(r)' /\ HalfWay(r)'
    BY <1>1, <1>4 DEF TotalsInv, TotalShapeOf, HalfWay, Saved, At
  <2> QED
    BY <1>1, <1>3, <2>1, HandlerKeepsTotalsInv
<1>5. CASE /\ oreq[r].cmd = "delete" /\ pc = "deleteOrder"
           /\ \A i \in ItemIds : items'[i] = Null \/ items'[i].order # oreq[r].order
  <2>1. ItemsOf(oreq[r].order)' = {}
    BY <1>1, <1>5 DEF ItemsOf
  <2>2. TotalShapeOf(r)' /\ HalfWay(r)'
    BY <1>1, <1>5, <2>1 DEF TotalShapeOf, HalfWay, Saved, SavedPcs, At
  <2> QED
    BY <1>1, <1>3, <2>2, HandlerKeepsTotalsInv
<1> QED
  BY <1>4, <1>5

LEMMA UpdateKeepsTotalsInv ==
    ASSUME IInv, ItemInv, SerialInv, UpdateInv, TotalsInv, UNCHANGED <<preq, hreq>>,
           NEW r \in OrderRequests,
           \/ UpdateCheck(r) \/ UpdateSaveOrder(r) \/ UpdateDeleteItems(r)
           \/ UpdateCreateItems(r) \/ UpdateFindItems(r) \/ UpdateSaveItems(r)
    PROVE  TotalsInv'
<1> DEFINE o == oreq[r].order
<1>1. oreq[r].cmd = "update" /\ oreq[r].pc \in OrderOpenPcs
  BY DEF UpdateCheck, UpdateSaveOrder, UpdateDeleteItems, UpdateCreateItems, UpdateFindItems,
     UpdateSaveItems, At, OrderOpenPcs
<1>2. /\ oreq[r].pc \in SavedPcs => Saved(r)
      /\ oreq[r].pc \in {"checkName", "saveOrder"} => ~HalfWay(r)
  BY <1>1 DEF HalfWay, Saved, SavedPcs, At
<1>3. CASE UpdateCheck(r)
  <2>1. /\ UNCHANGED database /\ oreq[r].pc = "checkName"
        /\ End(r, "failed") \/ End(r, "rejected") \/ Goto(r, "saveOrder")
    BY <1>3 DEF UpdateCheck, At
  <2> QED
    BY <1>1, <1>2, <2>1, EndKeepsTotalsInv, GotoKeepsTotalsInv DEF EndPcs, OrderOpenPcs, SavedPcs
<1>4. CASE UpdateSaveOrder(r)
  <2> DEFINE name == IF oreq[r].clientName # Null THEN oreq[r].clientName
                     ELSE oreq[r].row.clientName
             total == TotalPrice(oreq[r].lines)
             row == [oreq[r].row EXCEPT !.clientName = name, !.totalPrice = total]
  <2>1. /\ oreq[r].pc = "saveOrder" /\ UNCHANGED payments
        /\ \/ End(r, "failed") /\ UNCHANGED <<orders, items>>
           \/ /\ Goto(r, "deleteItems") /\ SaveLoadedOrder(o, row, oreq[r].loaded)
              /\ total \in 0 .. MaxInt
    BY <1>4 DEF UpdateSaveOrder, At, Storable
  <2>2. CASE End(r, "failed") /\ UNCHANGED <<orders, items>>
    BY <1>1, <1>2, <2>1, <2>2, EndKeepsTotalsInv DEF EndPcs, database
  <2>3. CASE /\ Goto(r, "deleteItems") /\ SaveLoadedOrder(o, row, oreq[r].loaded)
             /\ total \in 0 .. MaxInt
    <3>1. /\ Alone(r) /\ oreq'[r].pc = "deleteItems" /\ oreq'[r].cmd = "update"
          /\ oreq'[r].order = o /\ oreq'[r].lines = oreq[r].lines
      BY <1>1, <2>3, GotoKeepsRequest DEF OrderOpenPcs
    <3>2. /\ oreq[r].loaded = ItemsOf(o) /\ o \in OrderIds /\ oreq[r].row = orders[o]
          /\ orders[o] \in OrderRow
      BY <1>1, <2>1, OpenUpdate DEF OrderCurrent, At, FoundUnfinished, OrderFound, IInv, TypeOK,
         DatabaseTypeOK, OrderOpenPcs
    <3>3. UNCHANGED items
      BY <2>3, <3>2, SavesTheSameItems
    <3>4. row.totalPrice = total
      BY <3>2 DEF OrderRow
    <3>5. /\ orders'[o].totalPrice = total
          /\ \A x \in OrderIds : x # o => orders'[x] = orders[x]
      <4> DEFINE org == IF orders[o] = Null THEN Null ELSE orders[o].organisation
      <4>1. orders' = [orders EXCEPT ![o] = [row EXCEPT !.organisation = org]]
        BY <2>3 DEF SaveLoadedOrder
      <4>2. [row EXCEPT !.organisation = org].totalPrice = row.totalPrice
        BY <3>2 DEF OrderRow
      <4> HIDE DEF org, row, total
      <4> QED
        BY <3>2, <3>4, <4>1, <4>2 DEF IInv, TypeOK, DatabaseTypeOK
    <3>6. \A x \in OrderIds : x # o => Untouched(x)
      BY <3>3, <3>5 DEF Untouched, ItemsOf
    <3>7. TotalShapeOf(r)' /\ HalfWay(r)'
      BY <3>1, <3>5 DEF TotalShapeOf, HalfWay, Saved, SavedPcs, At
    <3> QED
      BY <1>1, <2>1, <3>1, <3>6, <3>7, HandlerKeepsTotalsInv
  <2> QED
    BY <2>1, <2>2, <2>3
<1>5. CASE UpdateDeleteItems(r)
  <2>1. /\ oreq[r].pc = "deleteItems" /\ UNCHANGED <<orders, payments>>
        /\ Goto(r, "createItems")
        /\ DeleteItems(oreq[r].loaded \ {l.item : l \in oreq[r].lines})
    BY <1>5 DEF UpdateDeleteItems, At
  <2>2. oreq[r].loaded = ItemsOf(o)
    BY <1>1, <2>1, OpenUpdate DEF OrderCurrent, At
  <2>3. \A i \in ItemIds : items'[i] = items[i] \/ (items[i].order = o /\ items'[i] = Null)
    BY <2>1, <2>2 DEF DeleteItems, ItemsOf
  <2> QED
    BY <1>1, <1>2, <2>1, <2>3, ItemsStepKeepsTotalsInv DEF SavedPcs, OrderOpenPcs
<1>6. CASE UpdateCreateItems(r)
  <2>1. oreq[r].pc = "createItems" /\ UNCHANGED <<orders, payments>>
    BY <1>6 DEF UpdateCreateItems, At
  <2>2. oreq[r].bare = {} /\ OrderExists(o)
    BY <1>1, <2>1, OpenUpdate DEF UpdateShapeOf, OrderCurrent, At, FoundUnfinished, OrderFound,
       OrderExists, OrderOpenPcs
  <2>3. PICK new : InsertItems(r, o, new) /\ Goto(r, "findItems")
    BY <1>6, <2>2 DEF UpdateCreateItems
  <2>4. \A i \in ItemIds :
           \/ items'[i] = items[i]
           \/ /\ items[i] = Null \/ items[i].order \in {o, Null}
              /\ items'[i].order = o
    <3> SUFFICES ASSUME NEW i \in ItemIds, items'[i] # items[i]
                 PROVE  /\ items[i] = Null \/ items[i].order \in {o, Null}
                        /\ items'[i].order = o
      OBVIOUS
    <3>1. i[1] = r /\ items'[i].order = o
      BY <2>3, OwnerIsRequest DEF InsertItems
    <3> QED
      BY <3>1, OwnItems
  <2> QED
    BY <1>1, <1>2, <2>1, <2>3, <2>4, ItemsStepKeepsTotalsInv DEF SavedPcs, OrderOpenPcs
<1>7. CASE UpdateFindItems(r)
  <2> DEFINE found == {i \in ItemIds : items[i] # Null /\ \E l \in oreq[r].lines : l.item = i}
  <2>1. /\ oreq[r].pc = "findItems" /\ UNCHANGED database
        /\ oreq' = [oreq EXCEPT ![r] = [@ EXCEPT !.pc = "updateItems", !.bare = {},
                                                 !.loaded = found]]
    BY <1>7 DEF UpdateFindItems, At
  <2> HIDE DEF found
  <2>2. /\ oreq'[r].pc = "updateItems" /\ Alone(r) /\ oreq'[r].cmd = oreq[r].cmd
        /\ oreq'[r].order = oreq[r].order /\ oreq'[r].lines = oreq[r].lines
    BY <2>1 DEF IInv, TypeOK, OrdersTypeOK, OrderRequest, Alone
  <2>3. Saved(r) /\ HalfWay(r)'
    BY <1>1, <2>1, <2>2 DEF HalfWay, Saved, SavedPcs, At
  <2> QED
    BY <1>1, <2>1, <2>2, <2>3, ReadKeepsTotalsInv DEF At
<1>8. CASE UpdateSaveItems(r)
  <2>1. /\ oreq[r].pc = "updateItems" /\ UNCHANGED <<orders, payments>> /\ Goto(r, "respond")
    BY <1>8 DEF UpdateSaveItems, At
  <2>2. PICK amounts : SaveLoadedItems(amounts) /\ DOMAIN amounts = oreq[r].loaded
    BY <1>8 DEF UpdateSaveItems
  <2>3. \A i \in oreq[r].loaded : i \in ItemsOf(o)
    BY <1>1, <2>1, OpenUpdate, NullAssumption DEF OrderCurrent, At, OrderRequest
  <2>4. \A i \in ItemIds :
           \/ items'[i] = items[i]
           \/ items[i].order = o /\ items'[i].order = o
    <3> SUFFICES ASSUME NEW i \in ItemIds, items'[i] # items[i]
                 PROVE  items[i].order = o /\ items'[i].order = o
      OBVIOUS
    <3>1. i \in oreq[r].loaded
      BY <2>2 DEF SaveLoadedItems
    <3>2. items[i] # Null /\ items[i].order = o /\ items[i] \in ItemRow
      BY <2>3, <3>1 DEF ItemsOf, IInv, TypeOK, DatabaseTypeOK
    <3>3. items'[i] = [items[i] EXCEPT !.amount = amounts[i]]
      BY <2>2, <3>1, <3>2 DEF SaveLoadedItems
    <3> QED
      BY <3>2, <3>3 DEF ItemRow
  <2> QED
    BY <1>1, <1>2, <2>1, <2>4, ItemsStepKeepsTotalsInv DEF SavedPcs, OrderOpenPcs
<1> QED
  BY <1>3, <1>4, <1>5, <1>6, <1>7, <1>8

\* An order that is being deleted has no payment: by hand it would be finished,
\* or its handler would run.
LEMMA DeletedHasNoPayment ==
    ASSUME ~Failures, IInv, SerialInv, TotalsInv, NEW r \in OrderRequests,
           oreq[r].cmd = "delete", oreq[r].pc = "deleteOrder"
    PROVE  PaymentsOf(oreq[r].order) = {}
<1> SUFFICES ASSUME NEW p \in PaymentsOf(oreq[r].order)
             PROVE  FALSE
  OBVIOUS
<1>1. ~orders[oreq[r].order].isFinished
  BY DEF SerialInv, OrderCurrent, OrderOpenPcs, FoundUnfinished
<1>2. p \in PaymentIds /\ payments[p] # Null /\ payments[p].order = oreq[r].order
  BY DEF PaymentsOf
<1>3. payments[p].type \in PaymentTypes
  BY <1>2 DEF IInv, TypeOK, DatabaseTypeOK, PaymentRow
<1>4. PaidByHand(p)
  BY <1>2, <1>3 DEF TotalsInv, NoPayconiq, PaidByHand, PaymentTypes
<1>5. preq[p].pc = "finishOrder"
  BY <1>1, <1>2, <1>4 DEF SerialInv, HandsPayTheTotal
<1>6. p \in PaymentOpen /\ r \in OrderOpen
  BY <1>2, <1>5 DEF PaymentOpen, PaymentOpenPcs, PaymentIds, OrderOpen, OrderOpenPcs
<1> QED
  BY <1>6 DEF SerialInv, OneHandler

LEMMA DeletionKeepsTotalsInv ==
    ASSUME ~Failures, IInv, SerialInv, TotalsInv, UNCHANGED <<preq, hreq>>,
           NEW r \in OrderRequests, DeleteDeleteItems(r) \/ DeleteDeleteOrder(r)
    PROVE  TotalsInv'
<1> DEFINE o == oreq[r].order
<1>1. /\ oreq[r].cmd = "delete" /\ oreq[r].pc \in OrderOpenPcs /\ UNCHANGED payments
      /\ SerialInv => OrderCurrent(r)
  BY DEF DeleteDeleteItems, DeleteDeleteOrder, At, OrderOpenPcs, SerialInv
<1>2. o \in OrderIds
  BY <1>1 DEF IInv, OrderShape, OrderOpenPcs
<1>3. CASE DeleteDeleteItems(r)
  <2>1. /\ oreq[r].pc = "deleteItems" /\ DeleteItems(oreq[r].loaded) /\ UNCHANGED orders
        /\ IF oreq[r].loaded = {} THEN End(r, "failed") ELSE Goto(r, "deleteOrder")
    BY <1>3 DEF DeleteDeleteItems, At
  <2>2. oreq[r].loaded = ItemsOf(o)
    BY <1>1, <2>1 DEF OrderCurrent
  <2>3. \A i \in ItemIds :
           \/ items'[i] = items[i] /\ i \notin ItemsOf(o)
           \/ items[i].order = o /\ items'[i] = Null
    BY <2>1, <2>2 DEF DeleteItems, ItemsOf
  <2>4. CASE oreq[r].loaded = {}
    <3>1. UNCHANGED items
      BY <2>1, <2>4 DEF DeleteItems, IInv, TypeOK, DatabaseTypeOK
    <3>2. ~HalfWay(r)
      BY <1>1, <2>1 DEF HalfWay, Saved, At
    <3> QED
      BY <1>1, <2>1, <2>4, <3>1, <3>2, EndKeepsTotalsInv DEF EndPcs, database
  <2>5. CASE oreq[r].loaded # {}
    <3>1. \A i \in ItemIds : items'[i] = Null \/ items'[i].order # o
      BY <2>3 DEF ItemsOf
    <3> QED
      BY <1>1, <2>1, <2>3, <2>5, <3>1, ItemsStepKeepsTotalsInv DEF OrderOpenPcs
  <2> QED
    BY <2>4, <2>5
<1>4. CASE DeleteDeleteOrder(r)
  <2>1. /\ oreq[r].pc = "deleteOrder" /\ UNCHANGED items
    BY <1>4 DEF DeleteDeleteOrder, At
  <2>2. ItemsOf(o) = {} /\ PaymentsOf(o) = {}
    BY <1>1, <2>1, DeletedHasNoPayment DEF TotalsInv, TotalShapeOf, At
  <2>3. End(r, "done") /\ DeleteOrder(o)
    BY <1>4, <2>2 DEF DeleteDeleteOrder, Referenced
  <2>4. /\ Alone(r) /\ oreq'[r].pc = "done" /\ oreq'[r].order = o
    BY <1>1, <2>3, EndGoesOn DEF EndPcs, GoesOn, OrderOpenPcs
  <2>5. TotalShapeOf(r)'
    BY <2>4 DEF TotalShapeOf, Saved, SavedPcs, At
  <2>6. orders'[o] = Null /\ \A x \in OrderIds : x # o => orders'[x] = orders[x]
    BY <1>2, <2>3 DEF DeleteOrder, IInv, TypeOK, DatabaseTypeOK
  <2>7. \A x \in OrderIds : x # o => Untouched(x)
    BY <2>1, <2>6 DEF Untouched, ItemsOf
  <2> QED
    BY <1>1, <2>4, <2>5, <2>6, <2>7, HandlerKeepsTotalsInv
<1> QED
  BY <1>3, <1>4

-----------------------------------------------------------------------------
(* The other handlers, and requests.                                         *)

\* When no orders handler runs, orders may be finished and items stay.
LEMMA OthersKeepTotalsInv ==
    ASSUME TotalsInv, OrderOpen = {}, RowsFinish, NoPayconiq',
           \A r \in OrderRequests : ~HalfWay(r)'
    PROVE  TotalsInv'
<1>1. \A r \in OrderRequests : TotalShapeOf(r)'
  BY DEF TotalShapeOf, HalfWay
<1>2. ASSUME NEW o \in OrderIds, orders'[o] # Null
      PROVE  Priced(o)'
  <2>1. orders[o] # Null /\ orders'[o].totalPrice = orders[o].totalPrice /\ UNCHANGED items
    BY <1>2 DEF RowsFinish
  <2>2. Priced(o)
    BY <2>1, HalfWayIsOpen DEF TotalsInv
  <2> QED
    BY <2>1, <2>2, PricedStays DEF ItemsOf
<1> QED
  BY <1>1, <1>2 DEF TotalsInv

LEMMA NobodyIsHalfWay ==
    ASSUME OrderOpen = {}, UNCHANGED oreq
    PROVE  \A r \in OrderRequests : ~HalfWay(r)'
<1>1. \A r \in OrderRequests : ~HalfWay(r)
  BY HalfWayIsOpen
<1> QED
  BY <1>1 DEF HalfWay, Saved, At

\* A payments handler keeps its command and saves payments of that type.
LEMMA PaymentStepKeepsTotalsInv ==
    ASSUME IInv, SerialInv, TotalsInv, NEW p \in PaymentRequests, PaymentStep(p), UNCHANGED oreq
    PROVE  TotalsInv'
<1>1. p \in PaymentOpen
  BY DEF PaymentStep, CreatePaymentFind, CreatePaymentCallPayconiq, CreatePaymentSave,
     CreatePaymentFinishOrder, PayconiqRespond, CancelFind, CancelCallPayconiq,
     CancelUpdatePayment, PaymentAt, PaymentOpen, PaymentOpenPcs
<1>2. OrderOpen = {}
  BY <1>1 DEF SerialInv, OneHandler
<1>3. RowsFinish
  <2>1. CASE CreatePaymentFinishOrder(p)
    <3>1. preq[p].order \in OrderIds
      BY <2>1 DEF CreatePaymentFinishOrder, PaymentAt, IInv, PaymentShape, PaymentShapeOf,
         PaymentTypes
    <3> QED
      BY <2>1, <3>1, FinishOrderFinishesRows DEF CreatePaymentFinishOrder
  <2>2. CASE ~CreatePaymentFinishOrder(p)
    BY <2>2, RowsStay DEF PaymentStep, CreatePaymentFind, CreatePaymentCallPayconiq,
       CreatePaymentSave, PayconiqRespond, CancelFind, CancelCallPayconiq,
       CancelUpdatePayment, database
  <2> QED
    BY <2>1, <2>2
<1>4. \A q \in PaymentIds : preq'[q].cmd = preq[q].cmd
  <2>1. preq \in [PaymentRequests -> PaymentRequest]
    BY DEF IInv, TypeOK, PaymentsTypeOK
  <2>2. CASE \E pc : PaymentGoto(p, pc) \/ PaymentEnd(p, pc)
    <3>1. CASE \E pc : preq' = [preq EXCEPT ![p] = [@ EXCEPT !.pc = pc]]
      BY <2>1, <3>1 DEF PaymentRequest, PaymentIds
    <3>2. CASE \E pc : preq' = [preq EXCEPT ![p] = [@ EXCEPT !.pc = pc, !.total = Null,
                                                             !.data = Null]]
      BY <2>1, <3>2 DEF PaymentRequest, PaymentIds
    <3> QED
      BY <2>2, <3>1, <3>2 DEF PaymentGoto, PaymentEnd
  <2>3. CASE CreatePaymentFind(p) \/ CreatePaymentCallPayconiq(p)
    <3>1. CASE \E pc, x : preq' = [preq EXCEPT ![p] = [@ EXCEPT !.pc = pc, !.total = x]]
      BY <2>1, <3>1 DEF PaymentRequest, PaymentIds
    <3>2. CASE \E pc, x : preq' = [preq EXCEPT ![p] = [@ EXCEPT !.pc = pc, !.data = x]]
      BY <2>1, <3>2 DEF PaymentRequest, PaymentIds
    <3> QED
      BY <2>2, <2>3, <3>1, <3>2 DEF CreatePaymentFind, CreatePaymentCallPayconiq
  <2> QED
    BY <2>2, <2>3 DEF PaymentStep, CreatePaymentSave, CreatePaymentFinishOrder, PayconiqRespond,
       CancelFind, CancelCallPayconiq, CancelUpdatePayment
<1>5. CASE BillsStay
  <2>1. NoPayconiq'
    BY <1>4, <1>5 DEF BillsStay, TotalsInv, NoPayconiq
  <2> QED
    BY <1>2, <1>3, <2>1, NobodyIsHalfWay, OthersKeepTotalsInv
<1>6. CASE CreatePaymentSave(p)
  <2>1. CASE UNCHANGED payments
    BY <1>5, <2>1, BillsUnchanged
  <2>2. CASE \E row : InsertPayment(p, row) /\ row.type = preq[p].cmd
    <3>1. NoPayconiq'
      BY <1>4, <2>2 DEF InsertPayment, TotalsInv, NoPayconiq, IInv, TypeOK, DatabaseTypeOK,
         PaymentIds
    <3> QED
      BY <1>2, <1>3, <3>1, NobodyIsHalfWay, OthersKeepTotalsInv
  <2>3. ASSUME NEW status,
               InsertPayment(p, [amount |-> preq[p].total, type |-> preq[p].cmd,
                   status |-> status, data |-> preq[p].data, order |-> preq[p].order,
                   organisation |-> preq[p].organisation])
        PROVE  TotalsInv'
    <3> DEFINE row == [amount |-> preq[p].total, type |-> preq[p].cmd,
                       status |-> status, data |-> preq[p].data, order |-> preq[p].order,
                       organisation |-> preq[p].organisation]
    <3>1. InsertPayment(p, row) /\ row.type = preq[p].cmd
      BY <2>3
    <3> HIDE DEF row
    <3> QED
      BY <2>2, <3>1
  <2> QED
    BY <1>6, <2>1, <2>3 DEF CreatePaymentSave
<1>7. CASE CancelUpdatePayment(p)
  <2>1. preq[p].payment \in PaymentIds /\ payments[preq[p].payment] # Null
    BY <1>7 DEF CancelUpdatePayment, PaymentAt, IInv, PaymentShape, PaymentShapeOf
  <2>2. BillsStay
    BY <1>7, <2>1, UpdatePaymentKeepsBill DEF CancelUpdatePayment, PaymentStatuses, PayconiqStatuses
  <2> QED
    BY <1>5, <2>2
<1>8. CASE UNCHANGED payments
  BY <1>5, <1>8, BillsUnchanged
<1> QED
  BY <1>6, <1>7, <1>8 DEF PaymentStep, CreatePaymentFind, CreatePaymentCallPayconiq,
     CreatePaymentFinishOrder, PayconiqRespond, CancelFind, CancelCallPayconiq, database

LEMMA WebhookStepKeepsTotalsInv ==
    ASSUME IInv, SerialInv, TotalsInv, NEW d \in Deliveries, WebhookStep(d),
           UNCHANGED <<oreq, preq>>
    PROVE  TotalsInv'
<1>1. d \in WebhookOpen
  BY DEF WebhookStep, WebhookFind, WebhookUpdatePayment, WebhookFinishOrder, WebhookOpen,
     WebhookOpenPcs
<1>2. OrderOpen = {}
  BY <1>1 DEF SerialInv, OneHandler
<1>3. RowsFinish /\ BillsStay
  <2>1. CASE WebhookFind(d)
    BY <2>1, RowsStay, BillsUnchanged DEF WebhookFind, database
  <2>2. CASE WebhookUpdatePayment(d)
    <3> DEFINE q == DeliveredPayment(d)
    <3>1. hreq[d].callback \in Callback /\ q \in PaymentsOf(hreq[d].order)
      BY <2>2 DEF IInv, WebhookShape, WebhookUpdatePayment
    <3>2. /\ q \in PaymentIds /\ payments[q] # Null
          /\ DeliveredStatus(d) \in PaymentStatuses
          /\ hreq[d].callback.status \in PayconiqStatuses
      BY <3>1, PaymentStatusFromType DEF PaymentsOf, DeliveredStatus, Callback
    <3> QED
      BY <2>2, <3>2, UpdatePaymentKeepsBill, RowsStay DEF WebhookUpdatePayment
  <2>3. CASE WebhookFinishOrder(d)
    <3>1. hreq[d].order \in OrderIds
      BY <2>3 DEF IInv, WebhookShape, WebhookFinishOrder
    <3> QED
      BY <2>3, <3>1, FinishOrderFinishesRows, BillsUnchanged DEF WebhookFinishOrder
  <2> QED
    BY <2>1, <2>2, <2>3 DEF WebhookStep
<1>4. NoPayconiq'
  BY <1>3 DEF BillsStay, TotalsInv, NoPayconiq
<1> QED
  BY <1>2, <1>3, <1>4, NobodyIsHalfWay, OthersKeepTotalsInv

\* Requests and callbacks arrive when nothing else runs.
LEMMA ReceivesKeepTotalsInv ==
    ASSUME MaxOverlap = 1, "PAYCONIQ" \notin PaymentCommands, IInv, SerialInv, TotalsInv, Receives
    PROVE  TotalsInv'
<1>1. OrderOpen = {}
  BY NobodyRuns DEF SerialInv, Receives
<1>2. UNCHANGED <<orders, items, payments>>
  BY ReceivesWriteNothing
<1>3. RowsFinish /\ BillsStay
  BY <1>2, RowsStay, BillsUnchanged
<1>4. CASE OrdersReceive /\ UNCHANGED preq
  <2>1. PICK r \in OrderRequests : \E request :
           Receive(r, request) /\ request.pc \in {"checkName", "find"}
    <3>1. PICK r \in OrderRequests, org \in Organisations :
             \/ \E name \in ClientNames \cup {Null}, cart \in Carts :
                   ReceiveCreate(r, org, name, cart)
             \/ \E o \in Known, name \in ClientNames \cup {Null}, cart \in Carts :
                   \E lines \in LinesFor(o, cart) : ReceiveUpdate(r, o, org, name, lines)
             \/ \E o \in Known : ReceiveDelete(r, o, org)
      BY <1>4 DEF OrdersReceive
    <3>2. ASSUME NEW request, Receive(r, request), request.pc \in {"checkName", "find"}
          PROVE  \E any : Receive(r, any) /\ any.pc \in {"checkName", "find"}
      BY <3>2
    <3>3. ASSUME NEW cmd, NEW pc \in {"checkName", "find"}, NEW o, NEW name, NEW lines,
                 Receive(r, [NoOrderRequest EXCEPT !.cmd = cmd, !.pc = pc, !.organisation = org,
                                 !.order = o, !.clientName = name, !.lines = lines])
          PROVE  \E any : Receive(r, any) /\ any.pc \in {"checkName", "find"}
      <4> DEFINE request == [NoOrderRequest EXCEPT !.cmd = cmd, !.pc = pc, !.organisation = org,
                                 !.order = o, !.clientName = name, !.lines = lines]
      <4>1. Receive(r, request) /\ request.pc = pc
        BY <3>3 DEF NoOrderRequest
      <4> HIDE DEF request
      <4> QED
        BY <3>2, <4>1
    <3>4. ASSUME NEW o, ReceiveDelete(r, o, org)
          PROVE  \E any : Receive(r, any) /\ any.pc \in {"checkName", "find"}
      <4> DEFINE request == [NoOrderRequest EXCEPT !.cmd = "delete", !.pc = "find",
                                 !.organisation = org, !.order = o]
      <4>1. Receive(r, request) /\ request.pc = "find"
        BY <3>4 DEF NoOrderRequest, ReceiveDelete
      <4> HIDE DEF request
      <4> QED
        BY <3>2, <4>1
    <3> QED
      BY <3>1, <3>3, <3>4 DEF ReceiveCreate, ReceiveUpdate
  <2>2. oreq'[r].pc \in {"checkName", "find"} /\ Alone(r)
    BY <2>1 DEF Receive, Alone, IInv, TypeOK, OrdersTypeOK
  <2>3. \A q \in OrderRequests : ~HalfWay(q)'
    BY <1>1, <2>2, HalfWayIsOpen DEF HalfWay, Saved, SavedPcs, At, Alone
  <2>4. NoPayconiq'
    BY <1>2, <1>4 DEF TotalsInv, NoPayconiq
  <2> QED
    BY <1>1, <1>3, <2>3, <2>4, OthersKeepTotalsInv
<1>5. CASE PaymentsReceive /\ UNCHANGED oreq
  <2>1. PICK p \in PaymentRequests :
           \E request : PaymentReceive(p, request) /\ request.cmd \in PaymentCommands
    BY <1>5 DEF PaymentsReceive, PaymentReceive
  <2>2. \A q \in PaymentIds : preq'[q].cmd = preq[q].cmd \/ preq'[q].cmd \in PaymentCommands
    BY <2>1 DEF PaymentReceive, IInv, TypeOK, PaymentsTypeOK, PaymentIds
  <2>3. NoPayconiq'
    BY <1>2, <2>2 DEF TotalsInv, NoPayconiq
  <2> QED
    BY <1>1, <1>3, <1>5, <2>3, NobodyIsHalfWay, OthersKeepTotalsInv
<1>6. CASE UNCHANGED <<oreq, preq>>
  <2>1. NoPayconiq'
    BY <1>2, <1>6 DEF TotalsInv, NoPayconiq
  <2> QED
    BY <1>1, <1>3, <1>6, <2>1, NobodyIsHalfWay, OthersKeepTotalsInv
<1> QED
  BY <1>4, <1>5, <1>6 DEF Receives

\* Nothing that the totals depend on changes.
LEMMA StutterKeepsTotalsInv ==
    ASSUME TotalsInv, UNCHANGED <<database, oreq, preq>>
    PROVE  TotalsInv'
<1>1. UNCHANGED <<orders, items, payments>>
  BY DEF database
<1>2. \A o : ItemsOf(o)' = ItemsOf(o)
  BY <1>1 DEF ItemsOf
<1>3. \A o : Priced(o) => Priced(o)'
  BY <1>1, <1>2, PricedStays
<1>4. \A r \in OrderRequests : (HalfWay(r) <=> HalfWay(r)') /\ (TotalShapeOf(r) => TotalShapeOf(r)')
  BY <1>1, <1>2 DEF HalfWay, TotalShapeOf, Saved, At
<1> QED
  BY <1>1, <1>3, <1>4 DEF TotalsInv, NoPayconiq

LEMMA InitTotalsInv == Init => TotalsInv
<1> SUFFICES ASSUME Init
             PROVE  TotalsInv
  OBVIOUS
<1>1. /\ \A r \in OrderRequests : oreq[r].pc = "idle"
      /\ \A p \in PaymentRequests : preq[p].cmd = "none"
      /\ \A o \in OrderIds : orders[o] = Null
      /\ \A p \in PaymentIds : payments[p] = Null
  BY DEF Init, DatabaseInit, OrdersInit, PaymentsInit, NoOrderRequest, NoPaymentRequest
<1> QED
  BY <1>1 DEF TotalsInv, NoPayconiq, TotalShapeOf, Saved, SavedPcs, At, PaymentIds

LEMMA NextKeepsTotalsInv ==
    ASSUME MaxOverlap = 1, ~Failures, "PAYCONIQ" \notin PaymentCommands
    PROVE  /\ IInv /\ ItemInv /\ AnswerInv /\ SerialInv /\ UpdateInv /\ AmountsInv
           /\ TotalsInv /\ [Next]_vars
           => TotalsInv'
<1> SUFFICES ASSUME IInv, ItemInv, AnswerInv, SerialInv, UpdateInv, AmountsInv, TotalsInv,
                    [Next]_vars
             PROVE  TotalsInv'
  OBVIOUS
<1>1. CASE Receives
  BY <1>1, ReceivesKeepTotalsInv
<1>2. ASSUME NEW r \in OrderRequests, OrderStep(r), UNCHANGED <<preq, hreq>>
      PROVE  TotalsInv'
  BY <1>2, CreationKeepsTotalsInv, RespondKeepsTotalsInv, FindKeepsTotalsInv,
     UpdateKeepsTotalsInv, DeletionKeepsTotalsInv DEF OrderStep
<1>3. CASE Steps
  BY <1>2, <1>3, PaymentStepKeepsTotalsInv, WebhookStepKeepsTotalsInv DEF Steps
<1>4. CASE Aborts
  BY <1>4 DEF Aborts, OrderAbort, PaymentAbort, WebhookAbort
<1>5. CASE PayconiqMoves \/ UNCHANGED vars
  BY <1>5, StutterKeepsTotalsInv DEF PayconiqMoves, vars, database
<1> QED
  BY <1>1, <1>3, <1>4, <1>5 DEF Next

\* When requests are handled one at a time, clients send the ids of the items
\* they keep, no call fails and no payment waits for Payconiq, the total of an
\* order is the price of its items, unless its handler is half-way through.
THEOREM TotalsInvariantHolds ==
    ASSUME MaxOverlap = 1, CarefulClients, ~Failures, "PAYCONIQ" \notin PaymentCommands
    PROVE  Spec => []TotalsInv
BY InvariantHolds, ItemInvariantHolds, AnswerInvariantHolds, SerialInvariantHolds,
   UpdateInvariantHolds, AmountsInvariantHolds, InitTotalsInv, NextKeepsTotalsInv, PTL DEF Spec

\* So it is whenever no handler runs, for orders that were created, updated and
\* paid in any sequence.
THEOREM TotalMatchesItemsAlways ==
    ASSUME MaxOverlap = 1, CarefulClients, ~Failures, "PAYCONIQ" \notin PaymentCommands
    PROVE  Spec => []TotalMatchesItems
<1>1. ASSUME SerialInv, TotalsInv
      PROVE  TotalMatchesItems
  <2>1. Quiet => OrderOpen = {}
    BY <1>1, NobodyRuns DEF SerialInv, Quiet
  <2>2. ASSUME Quiet, NEW o \in OrderIds, orders[o] # Null
        PROVE  Priced(o)
    BY <1>1, <2>1, <2>2, HalfWayIsOpen DEF TotalsInv
  <2> QED
    BY <2>2 DEF TotalMatchesItems, Priced, TotalOf
<1> QED
  BY <1>1, SerialInvariantHolds, TotalsInvariantHolds, PTL
=============================================================================
