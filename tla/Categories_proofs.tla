------------------------- MODULE Categories_proofs -------------------------
(* Proofs about Categories, for every set of categories, products, lists and *)
(* requests: the sorts are permutations in the order of the lists, so an     *)
(* answer shows everything once and as the lists say while nobody edits the  *)
(* tables, and nothing strange when somebody does.                           *)
EXTENDS Categories, FiniteSetTheorems, WellFoundedInduction, TLAPS

-----------------------------------------------------------------------------
(* Sequences without repeats.                                                *)

Distinct(seq) == \A j, k \in DOMAIN seq : seq[j] = seq[k] => j = k

\* The definition by cardinality, and the one by positions.
LEMMA NoRepeatsIsDistinct ==
    ASSUME NEW S, NEW seq \in Seq(S)
    PROVE  NoRepeats(seq) <=> Distinct(seq)
<1> DEFINE n == Len(seq)
<1>1. n \in Nat /\ DOMAIN seq = 1 .. n
  OBVIOUS
<1>2. IsFiniteSet(1 .. n) /\ Cardinality(1 .. n) = n
  <2>1. IsFiniteSet(1 .. n) /\ Cardinality(1 .. n) = IF 1 > n THEN 0 ELSE n - 1 + 1
    BY <1>1, FS_Interval
  <2> QED
    BY <1>1, <2>1
<1>3. seq \in Surjection(1 .. n, ToSet(seq))
  BY <1>1 DEF Surjection, ToSet
<1>4. Cardinality(ToSet(seq)) = Cardinality(1 .. n) <=> seq \in Injection(1 .. n, ToSet(seq))
  BY <1>2, <1>3, FS_Surjection
<1>5. seq \in Injection(1 .. n, ToSet(seq)) <=> Distinct(seq)
  BY <1>1, <1>3 DEF Injection, IsInjective, Surjection, Distinct
<1> QED
  BY <1>2, <1>4, <1>5 DEF NoRepeats

\* What the query returns: every member once.
LEMMA SetToSeqsEnumerates ==
    ASSUME NEW S, IsFiniteSet(S), NEW seq \in SetToSeqs(S)
    PROVE  /\ seq \in Seq(S) /\ Distinct(seq) /\ ToSet(seq) = S
           /\ S # {} => seq # <<>>
<1> DEFINE n == Cardinality(S)
<1>1. n \in Nat
  BY FS_CardinalityType
<1>2. /\ seq \in [1 .. n -> S]
      /\ \A i, j \in 1 .. n : i # j => seq[i] # seq[j]
  BY DEF SetToSeqs
<1>3. seq \in Seq(S) /\ DOMAIN seq = 1 .. n
  BY <1>1, <1>2
<1>4. IsFiniteSet(1 .. n) /\ Cardinality(1 .. n) = n
  <2>1. IsFiniteSet(1 .. n) /\ Cardinality(1 .. n) = IF 1 > n THEN 0 ELSE n - 1 + 1
    BY <1>1, FS_Interval
  <2> QED
    BY <1>1, <2>1
<1>5. seq \in Injection(1 .. n, S)
  BY <1>2 DEF Injection, IsInjective
<1>6. seq \in Surjection(1 .. n, S)
  BY <1>4, <1>5, FS_Injection
<1>7. ToSet(seq) = S
  BY <1>3, <1>6 DEF Surjection, ToSet
<1>8. S # {} => seq # <<>>
  BY <1>7 DEF ToSet
<1> QED
  BY <1>2, <1>3, <1>7, <1>8 DEF Distinct

-----------------------------------------------------------------------------
(* The sort.                                                                 *)

\* indexOf finds the first place, if there is one.
LEMMA PositionIsFirst ==
    ASSUME NEW ids, ids \in Seq(ToSet(ids)), NEW x
    PROVE  /\ Position(ids, x) \in Nat
           /\ x \notin ToSet(ids) => Position(ids, x) = 0
           /\ x \in ToSet(ids) =>
                 /\ Position(ids, x) \in DOMAIN ids
                 /\ ids[Position(ids, x)] = x
                 /\ \A j \in DOMAIN ids : ids[j] = x => Position(ids, x) <= j
<1> DEFINE at == {k \in DOMAIN ids : ids[k] = x}
<1>1. DOMAIN ids = 1 .. Len(ids) /\ Len(ids) \in Nat
  OBVIOUS
<1>2. at \subseteq Nat
  BY <1>1
<1>3. CASE at = {}
  <2>1. x \notin ToSet(ids)
    BY <1>3 DEF ToSet
  <2> QED
    BY <1>3, <2>1 DEF Position
<1>4. CASE at # {}
  <2> HIDE DEF at
  <2> DEFINE R == OpToRel(<, Nat)
  <2>5. \A i, j \in Nat : i < j => <<i, j>> \in R
    BY DEF OpToRel
  <2>6. IsWellFoundedOn(R, Nat)
    BY NatLessThanWellFounded
  <2> HIDE DEF R
  <2>1. PICK m \in at : \A k \in at : ~(<<k, m>> \in R)
    BY <1>2, <1>4, <2>6, WFMin
  <2>2. ASSUME NEW k \in at
        PROVE  m <= k
    <3>1. k \in Nat /\ m \in Nat
      BY <1>2
    <3>2. ~(<<k, m>> \in R)
      BY <2>1
    <3>3. ~(k < m)
      BY <2>5, <3>1, <3>2
    <3> QED
      BY <3>1, <3>3
  <2>3. Min(at) \in at /\ \A k \in at : Min(at) <= k
    BY <2>2 DEF Min
  <2> USE DEF at
  <2>4. Position(ids, x) = Min(at)
    BY <1>4 DEF Position
  <2>7. x \in ToSet(ids)
    BY <1>4 DEF ToSet
  <2> QED
    BY <1>2, <2>3, <2>4, <2>7
<1> QED
  BY <1>3, <1>4

\* Places are told apart, in the order of what comes before what.
LEMMA PlacesDiffer ==
    ASSUME NEW n \in Nat, NEW keys, DOMAIN keys = 1 .. n,
           NEW ids, ids \in Seq(ToSet(ids)),
           NEW j \in 1 .. n, NEW k \in 1 .. n
    PROVE  /\ Place(keys, ids, k) \in 1 .. n
           /\ Precedes(keys, ids, j, k) \/ Precedes(keys, ids, k, j)
           /\ j # k /\ Precedes(keys, ids, j, k) => Place(keys, ids, j) < Place(keys, ids, k)
<1> DEFINE At(i) == Position(ids, keys[i])
           Before(i) == {h \in 1 .. n : Precedes(keys, ids, h, i)}
<1>1. \A i \in 1 .. n : At(i) \in Nat
  BY PositionIsFirst
<1>2. \A h, i \in 1 .. n :
         Precedes(keys, ids, h, i) <=> At(h) < At(i) \/ (At(h) = At(i) /\ h <= i)
  BY DEF Precedes
<1> HIDE DEF At
<1>3. IsFiniteSet(1 .. n) /\ Cardinality(1 .. n) = n
  <2>1. IsFiniteSet(1 .. n) /\ Cardinality(1 .. n) = IF 1 > n THEN 0 ELSE n - 1 + 1
    BY FS_Interval
  <2> QED
    BY <2>1
<1>4. \A i \in 1 .. n : /\ IsFiniteSet(Before(i)) /\ Cardinality(Before(i)) \in Nat
                        /\ Cardinality(Before(i)) <= n
                        /\ Place(keys, ids, i) = Cardinality(Before(i))
  BY <1>3, FS_Subset, FS_CardinalityType DEF Place
<1>5. k \in Before(k)
  BY <1>1, <1>2
<1>6. Cardinality(Before(k)) # 0
  BY <1>4, <1>5, FS_EmptySet
<1>7. Precedes(keys, ids, j, k) \/ Precedes(keys, ids, k, j)
  BY <1>1, <1>2
<1>8. ASSUME j # k, Precedes(keys, ids, j, k)
      PROVE  Cardinality(Before(j)) < Cardinality(Before(k))
  <2>1. Before(j) \subseteq Before(k)
    BY <1>1, <1>2, <1>8
  <2>2. k \notin Before(j)
    BY <1>1, <1>2, <1>8
  <2>3. /\ Cardinality(Before(j)) <= Cardinality(Before(k))
        /\ Cardinality(Before(k)) = Cardinality(Before(j)) => Before(k) = Before(j)
    BY <1>4, <2>1, FS_Subset
  <2> HIDE DEF Before
  <2> QED
    BY <1>4, <1>5, <2>2, <2>3
<1> HIDE DEF Before
<1> QED
  BY <1>4, <1>6, <1>7, <1>8

\* The sort moves the elements to their places, and so in order.
LEMMA SortedPermutes ==
    ASSUME NEW S, NEW seq \in Seq(S), NEW keys, DOMAIN keys = DOMAIN seq,
           NEW ids, ids \in Seq(ToSet(ids))
    PROVE  \E p \in [DOMAIN seq -> DOMAIN seq] :
              /\ Sorted(seq, keys, ids) = [n \in DOMAIN seq |-> seq[p[n]]]
              /\ \A k \in DOMAIN seq : \E n \in DOMAIN seq : p[n] = k
              /\ Distinct(p)
              /\ \A m, n \in DOMAIN seq :
                    m < n => Position(ids, keys[p[m]]) <= Position(ids, keys[p[n]])
<1> DEFINE D == DOMAIN seq
           place == [k \in D |-> Place(keys, ids, k)]
           p == [n \in D |-> CHOOSE k \in D : Place(keys, ids, k) = n]
<1>1. Len(seq) \in Nat /\ D = 1 .. Len(seq) /\ IsFiniteSet(D)
  BY FS_Interval
<1>2. \A k \in D : place[k] \in D
  BY <1>1, PlacesDiffer
<1>3. \A j, k \in D : /\ Precedes(keys, ids, j, k) \/ Precedes(keys, ids, k, j)
                      /\ j # k /\ Precedes(keys, ids, j, k) => place[j] < place[k]
  BY <1>1, PlacesDiffer
<1>4. \A j, k \in D : place[j] = place[k] => j = k
  BY <1>1, <1>2, <1>3
<1>5. \A k \in D : Position(ids, keys[k]) \in Nat
  BY PositionIsFirst
<1>6. Sorted(seq, keys, ids) = [n \in D |-> seq[p[n]]]
  BY DEF Sorted
<1>7. place \in Injection(D, D)
  <2> HIDE DEF D
  <2>1. place \in [D -> D]
    BY <1>2
  <2> QED
    BY <1>4, <2>1 DEF Injection, IsInjective
<1>8. place \in Surjection(D, D)
  BY <1>1, <1>7, FS_Injection
<1>9. \A n \in D : p[n] \in D /\ place[p[n]] = n
  <2> HIDE DEF D
  <2>1. \A n \in D : \E k \in D : place[k] = n
    <3> HIDE DEF place
    <3> QED
      BY <1>8 DEF Surjection
  <2>2. \A n \in D : \E k \in D : Place(keys, ids, k) = n
    BY <2>1
  <2> QED
    BY <2>2
<1>10. \A k \in D : p[place[k]] = k
  <2> HIDE DEF place, p, D
  <2> QED
    BY <1>2, <1>4, <1>9
<1>11. ASSUME NEW m \in D, NEW n \in D, m < n
       PROVE  Position(ids, keys[p[m]]) <= Position(ids, keys[p[n]])
  <2>1. p[m] \in D /\ p[n] \in D /\ place[p[m]] = m /\ place[p[n]] = n
    BY <1>9
  <2>2. Precedes(keys, ids, p[m], p[n])
    <3> HIDE DEF place, p, D
    <3> QED
      BY <1>1, <1>3, <1>11, <2>1
  <2> HIDE DEF p
  <2> QED
    BY <1>5, <2>1, <2>2 DEF Precedes
<1>12. p \in [D -> D] /\ Distinct(p)
  <2> HIDE DEF D, place
  <2>1. p \in [D -> D]
    BY <1>9
  <2> QED
    BY <1>9, <2>1 DEF Distinct
<1>13. \A k \in D : \E n \in D : p[n] = k
  <2> HIDE DEF p, place
  <2> QED
    BY <1>2, <1>10
<1> HIDE DEF p
<1> QED
  BY <1>6, <1>11, <1>12, <1>13

\* Without repeats, in the order of the positions: that is in the order of ids.
LEMMA InOrderOfPositions ==
    ASSUME NEW S, NEW seq \in Seq(S), Distinct(seq), NEW ids, ids \in Seq(ToSet(ids)),
           \A j, k \in DOMAIN seq :
              j < k => Position(ids, seq[j]) <= Position(ids, seq[k])
    PROVE  OrderedBy(seq, ToSet(seq), ids)
<1>1. NoRepeats(seq)
  BY NoRepeatsIsDistinct
<1>2. ASSUME NEW j \in DOMAIN seq, NEW k \in DOMAIN seq, j < k, seq[j] \in ToSet(ids)
      PROVE  \E m \in DOMAIN ids : ids[m] = seq[j] /\ \A n \in 1 .. m : ids[n] # seq[k]
  <2> DEFINE m == Position(ids, seq[j])
  <2>1. m \in DOMAIN ids /\ ids[m] = seq[j]
    BY <1>2, PositionIsFirst
  <2>2. ASSUME NEW n \in 1 .. m, ids[n] = seq[k]
        PROVE  FALSE
    <3>1. DOMAIN ids = 1 .. Len(ids) /\ Len(ids) \in Nat /\ DOMAIN seq = 1 .. Len(seq)
      OBVIOUS
    <3>2. n \in DOMAIN ids
      BY <2>1, <3>1
    <3>3. seq[k] \in ToSet(ids)
      BY <2>2, <3>2 DEF ToSet
    <3>4. Position(ids, seq[k]) \in Nat /\ Position(ids, seq[k]) <= n
      BY <2>2, <3>2, <3>3, PositionIsFirst
    <3>5. m <= Position(ids, seq[k])
      BY <1>2
    <3>6. m = n
      <4> HIDE DEF m
      <4> QED
        BY <2>1, <2>2, <3>1, <3>4, <3>5
    <3>7. seq[j] = seq[k]
      BY <2>1, <2>2, <3>6
    <3> QED
      BY <1>2, <3>1, <3>7 DEF Distinct
  <2> HIDE DEF m
  <2> QED
    BY <2>1, <2>2
<1> QED
  BY <1>1, <1>2 DEF OrderedBy

LEMMA InAnyOrder ==
    ASSUME NEW S, NEW seq \in Seq(S), Distinct(seq)
    PROVE  OrderedBy(seq, ToSet(seq), <<>>)
<1>1. NoRepeats(seq)
  BY NoRepeatsIsDistinct
<1>2. ToSet(<<>>) = {}
  BY DEF ToSet
<1> QED
  BY <1>1, <1>2 DEF OrderedBy

-----------------------------------------------------------------------------
(* The answer.                                                               *)

\* A function on 1 .. n is a sequence: what the answer of Sorted is.
LEMMA FunctionIsSequence ==
    ASSUME NEW S, NEW n \in Nat, NEW f \in [1 .. n -> S]
    PROVE  f \in Seq(S)
  OBVIOUS

\* Products, which are their own keys, stay the same and come in order.
LEMMA SortedByItself ==
    ASSUME NEW S, NEW seq \in Seq(S), Distinct(seq), NEW ids, ids \in Seq(ToSet(ids))
    PROVE  LET sorted == Sorted(seq, seq, ids)
           IN  /\ sorted \in Seq(S) /\ (seq # <<>> => sorted # <<>>)
               /\ Distinct(sorted) /\ OrderedBy(sorted, ToSet(seq), ids)
<1> DEFINE D == DOMAIN seq
           sorted == Sorted(seq, seq, ids)
<1>1. D = 1 .. Len(seq) /\ Len(seq) \in Nat
  OBVIOUS
<1>2. PICK p \in [D -> D] :
         /\ sorted = [n \in D |-> seq[p[n]]]
         /\ \A k \in D : \E n \in D : p[n] = k
         /\ Distinct(p)
         /\ \A m, n \in D : m < n => Position(ids, seq[p[m]]) <= Position(ids, seq[p[n]])
  BY SortedPermutes
<1> HIDE DEF sorted
<1>3. DOMAIN sorted = D /\ \A n \in D : sorted[n] = seq[p[n]] /\ p[n] \in D
  BY <1>2
<1>4. sorted \in Seq(S) /\ (seq # <<>> => sorted # <<>>)
  <2>1. \A n \in D : seq[p[n]] \in S
    BY <1>2
  <2>2. sorted \in [1 .. Len(seq) -> S]
    BY <1>1, <1>2, <2>1
  <2>3. sorted \in Seq(S)
    BY <1>1, <2>2, FunctionIsSequence
  <2>4. seq # <<>> => 1 \in D
    BY <1>1
  <2>5. seq # <<>> => sorted # <<>>
    BY <1>3, <2>4
  <2> QED
    BY <2>3, <2>5
<1>5. Distinct(sorted)
  BY <1>2, <1>3 DEF Distinct
<1>6. ToSet(sorted) = ToSet(seq)
  BY <1>2, <1>3 DEF ToSet
<1>7. OrderedBy(sorted, ToSet(sorted), ids)
  BY <1>2, <1>3, <1>4, <1>5, InOrderOfPositions
<1> QED
  BY <1>4, <1>5, <1>6, <1>7 DEF sorted

LEMMA ProductsAreSorted ==
    ASSUME TypeOK, NEW row \in Row, Distinct(row.products)
    PROVE  LET sorted == SortedProducts(row)
           IN  /\ sorted \in Row
               /\ sorted.category = row.category
               /\ Distinct(sorted.products)
               /\ OrderedBy(sorted.products, ToSet(row.products),
                            Listed(productSorting[row.category]))
<1> DEFINE ids == productSorting[row.category]
<1>1. row.products \in Seq(Products) \ {<<>>} /\ row.category \in CategoryIds
  BY DEF Row
<1>2. CASE ids \in {Null, NoRow}
  BY <1>1, <1>2, InAnyOrder DEF SortedProducts, Listed
<1>3. CASE ids \notin {Null, NoRow}
  <2> DEFINE sorted == Sorted(row.products, row.products, ids)
  <2>1. ids \in Seq(ToSet(ids))
    BY <1>1, <1>3, CategoriesAssumption DEF TypeOK
  <2>2. SortedProducts(row) = [row EXCEPT !.products = sorted] /\ Listed(ids) = ids
    BY <1>3 DEF SortedProducts, Listed
  <2> HIDE DEF ids
  <2>3. /\ sorted \in Seq(Products) \ {<<>>}
        /\ Distinct(sorted) /\ OrderedBy(sorted, ToSet(row.products), ids)
    BY <1>1, <2>1, SortedByItself
  <2> HIDE DEF sorted
  <2>4. /\ [row EXCEPT !.products = sorted] \in Row
        /\ [row EXCEPT !.products = sorted].products = sorted
        /\ [row EXCEPT !.products = sorted].category = row.category
    BY <2>3 DEF Row
  <2> QED
    BY <2>2, <2>3, <2>4 DEF ids
<1> QED
  BY <1>2, <1>3

\* The rows of the answer are those that were read, with their products sorted.
LEMMA CategoriesAreSorted ==
    ASSUME TypeOK, NEW rows \in Seq(Row), Distinct(Ids(rows)),
           \A k \in DOMAIN rows : Distinct(rows[k].products),
           NEW ids \in CategoryLists \cup {Null}
    PROVE  LET answer == SortedCategories(rows, ids)
           IN  /\ answer \in Seq(Row) /\ Distinct(Ids(answer))
               /\ OrderedBy(Ids(answer), ToSet(Ids(rows)), Listed(ids))
               /\ \A n \in DOMAIN answer : \E k \in DOMAIN rows :
                     answer[n] = SortedProducts(rows[k])
<1> DEFINE D == DOMAIN rows
           sorted == [k \in D |-> SortedProducts(rows[k])]
           answer == SortedCategories(rows, ids)
<1>1. D = 1 .. Len(rows) /\ Len(rows) \in Nat /\ \A k \in D : rows[k] \in Row
  OBVIOUS
<1>2. \A k \in D : sorted[k] \in Row /\ sorted[k].category = rows[k].category
  BY <1>1, ProductsAreSorted
<1>3. sorted \in Seq(Row) /\ DOMAIN sorted = D
  <2>1. sorted \in [1 .. Len(rows) -> Row]
    BY <1>1, <1>2
  <2> QED
    BY <1>1, <2>1
<1>4. /\ Ids(rows) \in Seq(CategoryIds) /\ DOMAIN Ids(rows) = D
      /\ \A k \in D : Ids(rows)[k] = rows[k].category
  <2>1. Ids(rows) \in [1 .. Len(rows) -> CategoryIds]
    BY <1>1 DEF Ids, Row
  <2> QED
    BY <1>1, <2>1 DEF Ids
<1>5. CASE ids = Null
  <2>1. answer = sorted /\ Listed(ids) = <<>>
    BY <1>5 DEF SortedCategories, Listed
  <2>2. Ids(answer) = Ids(rows)
    <3> HIDE DEF sorted, answer
    <3> QED
      BY <1>2, <1>3, <2>1 DEF Ids
  <2>3. OrderedBy(Ids(rows), ToSet(Ids(rows)), <<>>)
    BY <1>4, InAnyOrder
  <2> QED
    BY <1>3, <2>1, <2>2, <2>3
<1>6. CASE ids # Null
  <2>1. ids \in Seq(ToSet(ids)) /\ Listed(ids) = ids
    BY <1>6, CategoriesAssumption DEF Listed
  <2>2. answer = Sorted(sorted, Ids(rows), ids)
    BY <1>6 DEF SortedCategories
  <2> DEFINE keys == Ids(rows)
             ordered == Ids(answer)
  <2> HIDE DEF sorted, answer, D, keys
  <2>11. keys \in Seq(CategoryIds) /\ DOMAIN keys = D /\ \A k \in D : keys[k] = rows[k].category
    BY <1>4 DEF keys
  <2>12. answer = Sorted(sorted, keys, ids)
    BY <2>2 DEF keys
  <2>3. PICK p \in [D -> D] :
           /\ answer = [n \in D |-> sorted[p[n]]]
           /\ \A k \in D : \E n \in D : p[n] = k
           /\ Distinct(p)
           /\ \A m, n \in D :
                 m < n => Position(ids, keys[p[m]]) <= Position(ids, keys[p[n]])
    <3>1. DOMAIN keys = DOMAIN sorted
      BY <1>3, <2>11
    <3>2. \E p \in [DOMAIN sorted -> DOMAIN sorted] :
             /\ Sorted(sorted, keys, ids) = [n \in DOMAIN sorted |-> sorted[p[n]]]
             /\ \A k \in DOMAIN sorted : \E n \in DOMAIN sorted : p[n] = k
             /\ Distinct(p)
             /\ \A m, n \in DOMAIN sorted :
                   m < n => Position(ids, keys[p[m]]) <= Position(ids, keys[p[n]])
      BY <1>3, <2>1, <3>1, SortedPermutes, ZenonT(40)
    <3> QED
      BY <1>3, <2>12, <3>2
  <2>4. DOMAIN answer = D /\ \A n \in D : answer[n] = sorted[p[n]] /\ p[n] \in D
    BY <2>3
  <2>5. answer \in Seq(Row)
    <3>1. answer \in [1 .. Len(rows) -> Row]
      BY <1>1, <1>2, <2>3, <2>4
    <3> QED
      BY <1>1, <3>1
  <2>6. /\ ordered \in Seq(CategoryIds) /\ DOMAIN ordered = D
        /\ \A n \in D : ordered[n] = keys[p[n]]
    <3>1. DOMAIN ordered = D /\ \A n \in D : ordered[n] = answer[n].category
      BY <2>4 DEF Ids
    <3>2. \A n \in D : ordered[n] = keys[p[n]] /\ ordered[n] \in CategoryIds
      <4> HIDE DEF ordered
      <4> SUFFICES ASSUME NEW n \in D
                   PROVE  ordered[n] = keys[p[n]] /\ ordered[n] \in CategoryIds
        OBVIOUS
      <4>1. ordered[n] = sorted[p[n]].category /\ p[n] \in D
        BY <2>4, <3>1
      <4>2. sorted[p[n]].category = rows[p[n]].category /\ rows[p[n]] \in Row
        BY <1>1, <1>2, <4>1
      <4>3. rows[p[n]].category \in CategoryIds
        BY <4>2 DEF Row
      <4> QED
        BY <2>11, <4>1, <4>2, <4>3
    <3>3. ordered \in [D -> CategoryIds]
      <4>1. ordered = [n \in D |-> answer[n].category]
        BY <2>4 DEF Ids
      <4> HIDE DEF ordered
      <4> QED
        BY <3>1, <3>2, <4>1
    <3> HIDE DEF ordered
    <3> QED
      BY <1>1, <3>1, <3>2, <3>3 DEF D
  <2> HIDE DEF ordered
  <2>7. Distinct(keys)
    BY DEF keys
  <2>8. Distinct(ordered)
    BY <2>3, <2>4, <2>6, <2>7, <2>11 DEF Distinct
  <2>9. ToSet(ordered) = ToSet(keys)
    BY <2>3, <2>4, <2>6, <2>11 DEF ToSet
  <2>13. OrderedBy(ordered, ToSet(ordered), ids)
    BY <2>1, <2>3, <2>6, <2>8, InOrderOfPositions, ZenonT(40)
  <2>10. \A n \in D : \E k \in D : answer[n] = SortedProducts(rows[k])
    BY <2>4 DEF sorted
  <2> QED
    BY <2>1, <2>4, <2>5, <2>8, <2>9, <2>10, <2>13 DEF D, keys, ordered, answer
<1> QED
  BY <1>5, <1>6

-----------------------------------------------------------------------------
(* The inductive invariant behind TypeOK and UntouchedAnswer: what a request *)
(* has read is of its organisation and free of repeats, and, as long as      *)
(* nobody has edited the tables, what they still say.                        *)

RowsShape(r) ==
    LET request == creq[r]
        org == request.organisation
    IN  /\ request.pc # "idle" => org \in Organisations
        /\ request.pc \in {"readCategorySorting", "readProductSorting", "done"} =>
              /\ Distinct(Ids(request.rows))
              /\ \A k \in DOMAIN request.rows :
                    /\ OwnerOf[request.rows[k].category] = org
                    /\ Distinct(request.rows[k].products)
        /\ request.pc \in {"readCategorySorting", "readProductSorting"} /\ r \notin touched =>
              /\ ToSet(Ids(request.rows)) = Sold(org)
              /\ \A k \in DOMAIN request.rows :
                    ToSet(request.rows[k].products) =
                        categories[request.rows[k].category] \cap active
        /\ request.pc = "readProductSorting" /\ r \notin touched =>
              request.categoryIds = categorySorting[org]

CategoriesInv == TypeOK /\ \A r \in Requests : RowsShape(r)

LEMMA InitGivesCategoriesInv ==
    ASSUME Init
    PROVE  CategoriesInv
<1>1. <<>> \in Seq(Row)
  OBVIOUS
<1> QED
  BY <1>1, CategoriesAssumption
  DEF Init, CategoriesInv, TypeOK, RowsShape, Request, Pcs

\* A step of one request leaves the tables and the others alone.
LEMMA RequestStepKeepsInv ==
    ASSUME CategoriesInv, NEW r \in Requests, NEW rec \in Request,
           creq' = [creq EXCEPT ![r] = rec],
           UNCHANGED <<tables, edits, touched>>,
           RowsShape(r)'
    PROVE  CategoriesInv'
<1>1. TypeOK'
  BY DEF CategoriesInv, TypeOK, tables
<1>2. ASSUME NEW q \in Requests, q # r
      PROVE  RowsShape(q)'
  <2>1. creq'[q] = creq[q]
    BY <1>2 DEF CategoriesInv, TypeOK
  <2>2. Sold(creq[q].organisation)' = Sold(creq'[q].organisation)
    BY <2>1 DEF Sold, tables
  <2> QED
    BY <1>2, <2>1 DEF CategoriesInv, RowsShape, tables, Sold
<1> QED
  BY <1>1, <1>2 DEF CategoriesInv

LEMMA ReceiveKeepsInv ==
    ASSUME CategoriesInv, NEW r \in Requests, NEW org \in Organisations, Receive(r, org)
    PROVE  CategoriesInv'
<1> DEFINE rec == [creq[r] EXCEPT !.pc = "readCategories", !.organisation = org]
<1>1. creq[r] \in Request
  BY DEF CategoriesInv, TypeOK
<1>2. rec \in Request /\ rec.pc = "readCategories" /\ rec.organisation = org
  BY <1>1 DEF Request, Pcs
<1>3. creq' = [creq EXCEPT ![r] = rec] /\ UNCHANGED <<tables, edits, touched>>
  BY DEF Receive
<1>4. creq'[r] = rec
  BY <1>3 DEF CategoriesInv, TypeOK
<1> HIDE DEF rec
<1>5. RowsShape(r)'
  BY <1>2, <1>4 DEF RowsShape
<1> QED
  BY <1>2, <1>3, <1>5, RequestStepKeepsInv

\* What the first query gives.
RowsOf(order, products) ==
    [k \in DOMAIN order |-> [category |-> order[k], products |-> products[k]]]

LEMMA RowsAreSold ==
    ASSUME TypeOK, NEW org \in Organisations, NEW order \in SetToSeqs(Sold(org)),
           NEW products,
           \A k \in DOMAIN order :
              products[k] \in SetToSeqs(categories[order[k]] \cap active)
    PROVE  LET rows == RowsOf(order, products)
           IN  /\ rows \in Seq(Row)
               /\ Distinct(Ids(rows)) /\ ToSet(Ids(rows)) = Sold(org)
               /\ \A k \in DOMAIN rows :
                     /\ OwnerOf[rows[k].category] = org
                     /\ Distinct(rows[k].products)
                     /\ ToSet(rows[k].products) = categories[rows[k].category] \cap active
<1> DEFINE D == DOMAIN order
           rows == RowsOf(order, products)
<1>1. Sold(org) \subseteq CategoryIds /\ IsFiniteSet(Sold(org))
  <2>1. Sold(org) \subseteq CategoryIds
    BY DEF Sold
  <2> QED
    BY <2>1, CategoriesAssumption, FS_Subset
<1>2. order \in Seq(Sold(org)) /\ Distinct(order) /\ ToSet(order) = Sold(org)
  BY <1>1, SetToSeqsEnumerates
<1>3. D = 1 .. Len(order) /\ Len(order) \in Nat /\ \A k \in D : order[k] \in Sold(org)
  BY <1>2
<1>4. ASSUME NEW k \in D
      PROVE  /\ rows[k] \in Row
             /\ rows[k].category = order[k]
             /\ OwnerOf[rows[k].category] = org
             /\ Distinct(rows[k].products)
             /\ ToSet(rows[k].products) = categories[rows[k].category] \cap active
  <2> DEFINE sold == categories[order[k]] \cap active
  <2>1. /\ order[k] \in CategoryIds /\ OwnerOf[order[k]] = org
        /\ sold # {} /\ sold \subseteq Products
    BY <1>3 DEF Sold, TypeOK
  <2>2. IsFiniteSet(sold)
    BY <2>1, CategoriesAssumption, FS_Subset
  <2>3. products[k] \in SetToSeqs(sold)
    OBVIOUS
  <2> HIDE DEF sold
  <2>4. /\ products[k] \in Seq(sold) /\ Distinct(products[k])
        /\ ToSet(products[k]) = sold /\ products[k] # <<>>
    BY <2>1, <2>2, <2>3, SetToSeqsEnumerates
  <2>5. products[k] \in Seq(Products) \ {<<>>}
    <3>1. Seq(sold) \subseteq Seq(Products)
      BY <2>1
    <3> QED
      BY <2>4, <3>1
  <2>6. rows[k] = [category |-> order[k], products |-> products[k]]
    BY <1>4 DEF RowsOf
  <2> HIDE DEF rows
  <2> QED
    BY <2>1, <2>4, <2>5, <2>6 DEF Row, sold
<1>5. rows \in Seq(Row)
  <2>1. rows \in [1 .. Len(order) -> Row]
    BY <1>3, <1>4 DEF RowsOf
  <2> QED
    BY <1>3, <2>1
<1>6. Ids(rows) = order
  <2>1. DOMAIN rows = D /\ \A k \in D : rows[k].category = order[k]
    BY <1>4 DEF RowsOf
  <2> HIDE DEF rows
  <2>2. Ids(rows) = [k \in D |-> order[k]]
    BY <2>1 DEF Ids
  <2>3. order \in [D -> Sold(org)]
    BY <1>2
  <2> QED
    BY <2>2, <2>3
<1>7. DOMAIN rows = D
  BY DEF RowsOf
<1> HIDE DEF rows
<1> QED
  BY <1>2, <1>4, <1>5, <1>6, <1>7 DEF rows

LEMMA ReadCategoriesKeepsInv ==
    ASSUME CategoriesInv, NEW r \in Requests, ReadCategories(r)
    PROVE  CategoriesInv'
<1> DEFINE org == creq[r].organisation
<1>1. creq[r] \in Request /\ org \in Organisations /\ TypeOK
  BY DEF CategoriesInv, TypeOK, RowsShape, ReadCategories
<1>2. PICK order \in SetToSeqs(Sold(org)) :
         \E products \in [DOMAIN order -> UNION {SetToSeqs(s) : s \in SUBSET active}] :
            /\ \A k \in DOMAIN order :
                  products[k] \in SetToSeqs(categories[order[k]] \cap active)
            /\ creq' = [creq EXCEPT ![r] = [@ EXCEPT
                   !.pc = "readCategorySorting",
                   !.rows = [k \in DOMAIN order |->
                               [category |-> order[k], products |-> products[k]]]]]
  BY DEF ReadCategories
<1>3. PICK products :
         /\ \A k \in DOMAIN order :
               products[k] \in SetToSeqs(categories[order[k]] \cap active)
         /\ creq' = [creq EXCEPT ![r] = [@ EXCEPT
                !.pc = "readCategorySorting",
                !.rows = [k \in DOMAIN order |->
                            [category |-> order[k], products |-> products[k]]]]]
  BY <1>2
<1> DEFINE rows == RowsOf(order, products)
           rec == [creq[r] EXCEPT !.pc = "readCategorySorting", !.rows = rows]
<1>4. /\ rows \in Seq(Row)
      /\ Distinct(Ids(rows)) /\ ToSet(Ids(rows)) = Sold(org)
      /\ \A k \in DOMAIN rows :
            /\ OwnerOf[rows[k].category] = org
            /\ Distinct(rows[k].products)
            /\ ToSet(rows[k].products) = categories[rows[k].category] \cap active
  <2>1. \A k \in DOMAIN order :
           products[k] \in SetToSeqs(categories[order[k]] \cap active)
    BY <1>3
  <2> HIDE DEF org
  <2> QED
    BY <1>1, <2>1, RowsAreSold
<1>5. creq' = [creq EXCEPT ![r] = rec] /\ UNCHANGED <<tables, edits, touched>>
  BY <1>3 DEF ReadCategories, RowsOf
<1> HIDE DEF rows
<1>6. /\ rec \in Request /\ rec.pc = "readCategorySorting"
      /\ rec.organisation = org /\ rec.rows = rows
  BY <1>1, <1>4 DEF Request, Pcs
<1>7. creq'[r] = rec
  BY <1>5 DEF CategoriesInv, TypeOK
<1> HIDE DEF rec, org
<1>8. RowsShape(r)'
  BY <1>1, <1>4, <1>5, <1>6, <1>7 DEF RowsShape, Sold, tables
<1> QED
  BY <1>5, <1>6, <1>8, RequestStepKeepsInv

LEMMA ReadCategorySortingKeepsInv ==
    ASSUME CategoriesInv, NEW r \in Requests, ReadCategorySorting(r)
    PROVE  CategoriesInv'
<1> DEFINE org == creq[r].organisation
           rec == [creq[r] EXCEPT !.pc = "readProductSorting",
                                  !.categoryIds = categorySorting[org]]
<1>1. creq[r] \in Request /\ org \in Organisations /\ creq[r].pc = "readCategorySorting"
  BY DEF CategoriesInv, TypeOK, RowsShape, ReadCategorySorting
<1>2. categorySorting[org] \in CategoryLists \cup {Null, NoRow}
  BY <1>1 DEF CategoriesInv, TypeOK
<1>3. /\ rec \in Request /\ rec.pc = "readProductSorting"
      /\ rec.organisation = org /\ rec.rows = creq[r].rows
      /\ rec.categoryIds = categorySorting[org]
  BY <1>1, <1>2 DEF Request, Pcs
<1>4. creq' = [creq EXCEPT ![r] = rec] /\ UNCHANGED <<tables, edits, touched>>
  BY DEF ReadCategorySorting
<1>5. creq'[r] = rec
  BY <1>4 DEF CategoriesInv, TypeOK
<1>6. RowsShape(r)
  BY DEF CategoriesInv
<1> HIDE DEF rec
<1>7. RowsShape(r)'
  BY <1>1, <1>3, <1>4, <1>5, <1>6 DEF RowsShape, Sold, tables
<1> QED
  BY <1>3, <1>4, <1>7, RequestStepKeepsInv

\* What the last step of a request gives.
LEMMA AnswerIsSorted ==
    ASSUME CategoriesInv, NEW r \in Requests, ReadProductSorting(r),
           creq[r].categoryIds # NoRow
    PROVE  LET org == creq[r].organisation
               rows == creq[r].rows
               ids == creq[r].categoryIds
               answer == SortedCategories(rows, ids)
           IN  /\ creq' = [creq EXCEPT ![r] = [@ EXCEPT !.pc = "done", !.rows = answer]]
               /\ answer \in Seq(Row) /\ Distinct(Ids(answer))
               /\ OrderedBy(Ids(answer), ToSet(Ids(rows)), Listed(ids))
               /\ \A n \in DOMAIN answer :
                     /\ OwnerOf[answer[n].category] = org
                     /\ Distinct(answer[n].products)
                     /\ \E k \in DOMAIN rows :
                           /\ answer[n].category = rows[k].category
                           /\ OrderedBy(answer[n].products, ToSet(rows[k].products),
                                        Listed(productSorting[rows[k].category]))
<1> DEFINE org == creq[r].organisation
           rows == creq[r].rows
           ids == creq[r].categoryIds
           answer == SortedCategories(rows, ids)
<1>1. /\ creq[r] \in Request /\ creq[r].pc = "readProductSorting" /\ TypeOK
      /\ rows \in Seq(Row) /\ ids \in CategoryLists \cup {Null}
  BY DEF CategoriesInv, TypeOK, Request, ReadProductSorting
<1>2. creq' = [creq EXCEPT ![r] = [@ EXCEPT !.pc = "done", !.rows = answer]]
  <2>1. creq' = [creq EXCEPT ![r] =
                    [creq[r] EXCEPT !.pc = "done",
                                    !.rows = SortedCategories(creq[r].rows, creq[r].categoryIds)]]
    BY DEF ReadProductSorting
  <2> QED
    BY <2>1
<1>3. /\ Distinct(Ids(rows))
      /\ \A k \in DOMAIN rows : OwnerOf[rows[k].category] = org /\ Distinct(rows[k].products)
  BY <1>1 DEF CategoriesInv, RowsShape
<1> HIDE DEF rows, ids, answer, org
<1>4. /\ answer \in Seq(Row) /\ Distinct(Ids(answer))
      /\ OrderedBy(Ids(answer), ToSet(Ids(rows)), Listed(ids))
      /\ \A n \in DOMAIN answer : \E k \in DOMAIN rows : answer[n] = SortedProducts(rows[k])
  BY <1>1, <1>3, CategoriesAreSorted DEF answer
<1>5. ASSUME NEW n \in DOMAIN answer
      PROVE  /\ OwnerOf[answer[n].category] = org
             /\ Distinct(answer[n].products)
             /\ \E k \in DOMAIN rows :
                   /\ answer[n].category = rows[k].category
                   /\ OrderedBy(answer[n].products, ToSet(rows[k].products),
                                Listed(productSorting[rows[k].category]))
  <2>1. PICK k \in DOMAIN rows : answer[n] = SortedProducts(rows[k])
    BY <1>4
  <2>2. rows[k] \in Row
    BY <1>1
  <2>3. /\ answer[n].category = rows[k].category
        /\ Distinct(answer[n].products)
        /\ OrderedBy(answer[n].products, ToSet(rows[k].products),
                     Listed(productSorting[rows[k].category]))
    BY <1>1, <1>3, <2>1, <2>2, ProductsAreSorted
  <2> QED
    BY <1>3, <2>3
<1> QED
  BY <1>2, <1>4, <1>5 DEF rows, ids, answer, org

LEMMA ReadProductSortingKeepsInv ==
    ASSUME CategoriesInv, NEW r \in Requests, ReadProductSorting(r)
    PROVE  CategoriesInv'
<1>1. /\ creq[r] \in Request /\ creq[r].pc = "readProductSorting"
      /\ creq[r].organisation \in Organisations
      /\ creq \in [Requests -> Request]
  BY DEF CategoriesInv, TypeOK, RowsShape, ReadProductSorting
<1>2. UNCHANGED <<tables, edits, touched>>
  BY DEF ReadProductSorting
<1>3. CASE creq[r].categoryIds = NoRow
  <2> DEFINE rec == [creq[r] EXCEPT !.pc = "failed", !.rows = <<>>]
  <2>1. creq' = [creq EXCEPT ![r] = rec]
    BY <1>1, <1>3 DEF ReadProductSorting
  <2>2. <<>> \in Seq(Row)
    OBVIOUS
  <2>3. rec \in Request /\ rec.pc = "failed" /\ rec.organisation \in Organisations
    BY <1>1, <2>2 DEF Request, Pcs
  <2>4. creq'[r] = rec
    BY <1>1, <2>1
  <2> HIDE DEF rec
  <2>5. RowsShape(r)'
    BY <2>3, <2>4 DEF RowsShape
  <2> QED
    BY <1>2, <2>1, <2>3, <2>5, RequestStepKeepsInv
<1>4. CASE creq[r].categoryIds # NoRow
  <2> DEFINE answer == SortedCategories(creq[r].rows, creq[r].categoryIds)
             rec == [creq[r] EXCEPT !.pc = "done", !.rows = answer]
  <2>1. /\ creq' = [creq EXCEPT ![r] = rec]
        /\ answer \in Seq(Row) /\ Distinct(Ids(answer))
        /\ \A n \in DOMAIN answer : /\ OwnerOf[answer[n].category] = creq[r].organisation
                                    /\ Distinct(answer[n].products)
    BY <1>4, AnswerIsSorted
  <2> HIDE DEF answer
  <2>2. /\ rec \in Request /\ rec.pc = "done" /\ rec.rows = answer
        /\ rec.organisation = creq[r].organisation
    BY <1>1, <2>1 DEF Request, Pcs
  <2>3. creq'[r] = rec
    BY <1>1, <2>1
  <2> HIDE DEF rec
  <2>4. RowsShape(r)'
    BY <1>1, <2>1, <2>2, <2>3 DEF RowsShape
  <2> QED
    BY <1>2, <2>1, <2>2, <2>4, RequestStepKeepsInv
<1> QED
  BY <1>3, <1>4

\* Whoever is under way when the tables are edited has been touched.
LEMMA EditKeepsInv ==
    ASSUME CategoriesInv, Edit
    PROVE  CategoriesInv'
<1>1. TypeOK /\ edits < MaxEdits /\ MaxEdits \in Nat
  BY CategoriesAssumption DEF CategoriesInv, Edit
<1>2. /\ creq' = creq /\ edits' = edits + 1 /\ touched' = touched \cup Open
  BY DEF Edit
<1>3. /\ categories' \in [CategoryIds -> (SUBSET Products) \cup {NoRow}]
      /\ active' \subseteq Products
      /\ categorySorting' \in [Organisations -> CategoryLists \cup {Null, NoRow}]
      /\ productSorting' \in [CategoryIds -> ProductLists \cup {Null, NoRow}]
  BY <1>1 DEF Edit, TypeOK
<1>4. TypeOK'
  BY <1>1, <1>2, <1>3 DEF TypeOK, Open
<1>5. ASSUME NEW r \in Requests
      PROVE  RowsShape(r)'
  <2>1. RowsShape(r)
    BY DEF CategoriesInv
  <2>2. creq[r].pc \in {"readCategorySorting", "readProductSorting"} => r \in touched'
    BY <1>2 DEF Open
  <2> QED
    BY <1>2, <2>1, <2>2 DEF RowsShape
<1> QED
  BY <1>4, <1>5 DEF CategoriesInv

-----------------------------------------------------------------------------
(* The theorems.                                                             *)

\* What requests have read has no repeats and is, unless the tables have been
\* edited since, what they still say.
THEOREM CategoriesInvariant == Spec => []CategoriesInv
<1>1. Init => CategoriesInv
  BY InitGivesCategoriesInv
<1>2. CategoriesInv /\ [Next]_vars => CategoriesInv'
  <2> SUFFICES ASSUME CategoriesInv, [Next]_vars
               PROVE  CategoriesInv'
    OBVIOUS
  <2>1. CASE Edit
    BY <2>1, EditKeepsInv
  <2>2. ASSUME NEW r \in Requests, NEW org \in Organisations, Receive(r, org)
        PROVE  CategoriesInv'
    BY <2>2, ReceiveKeepsInv
  <2>3. ASSUME NEW r \in Requests, ReadCategories(r)
        PROVE  CategoriesInv'
    BY <2>3, ReadCategoriesKeepsInv
  <2>4. ASSUME NEW r \in Requests, ReadCategorySorting(r)
        PROVE  CategoriesInv'
    BY <2>4, ReadCategorySortingKeepsInv
  <2>5. ASSUME NEW r \in Requests, ReadProductSorting(r)
        PROVE  CategoriesInv'
    BY <2>5, ReadProductSortingKeepsInv
  <2>6. CASE UNCHANGED vars
    BY <2>6 DEF CategoriesInv, TypeOK, RowsShape, Sold, vars, tables
  <2> QED
    BY <2>1, <2>2, <2>3, <2>4, <2>5, <2>6 DEF Next
<1> QED
  BY <1>1, <1>2, PTL DEF Spec

\* Tables and requests keep their types; in particular no category is shown
\* without products (get-categories.query.ts:38, an inner join).
THEOREM CategoriesTypeCorrect == Spec => []TypeOK
<1>1. CategoriesInv => TypeOK
  BY DEF CategoriesInv
<1> QED
  BY <1>1, CategoriesInvariant, PTL

\* While nobody edits the tables an answer shows what is sold, all of it and
\* once, in the order of the stored lists, whatever these leave out, repeat or
\* still name; only an organisation without a list gets no answer.
THEOREM UntouchedAnswerAlways == Spec => UntouchedAnswer
<1> DEFINE Answered(r) ==
        creq[r].pc = "readProductSorting" /\ creq'[r] # creq[r] /\ r \notin touched =>
           LET org == creq[r].organisation
               rows == creq'[r].rows
           IN  /\ creq'[r].pc = "failed" <=> categorySorting[org] = NoRow
               /\ creq'[r].pc = "done" =>
                  /\ OrderedBy(Ids(rows), Sold(org), Listed(categorySorting[org]))
                  /\ \A k \in DOMAIN rows :
                        OrderedBy(rows[k].products,
                                  categories[rows[k].category] \cap active,
                                  Listed(productSorting[rows[k].category]))
<1>1. ASSUME CategoriesInv, [Next]_vars, NEW r \in Requests
      PROVE  Answered(r)
  <2> SUFFICES ASSUME creq[r].pc = "readProductSorting", creq'[r] # creq[r], r \notin touched
               PROVE  Answered(r)
    OBVIOUS
  <2>1. ReadProductSorting(r)
    BY <1>1 DEF Next, vars, Edit, Receive, ReadCategories, ReadCategorySorting,
                ReadProductSorting, CategoriesInv, TypeOK
  <2>2. /\ creq[r].organisation \in Organisations
        /\ ToSet(Ids(creq[r].rows)) = Sold(creq[r].organisation)
        /\ \A k \in DOMAIN creq[r].rows :
              ToSet(creq[r].rows[k].products) =
                  categories[creq[r].rows[k].category] \cap active
        /\ creq[r].categoryIds = categorySorting[creq[r].organisation]
    BY <1>1 DEF CategoriesInv, RowsShape
  <2>3. CASE creq[r].categoryIds = NoRow
    <3>1. creq'[r].pc = "failed"
      BY <1>1, <2>1, <2>3 DEF ReadProductSorting, CategoriesInv, TypeOK, Request
    <3> QED
      BY <2>2, <2>3, <3>1
  <2>4. CASE creq[r].categoryIds # NoRow
    <3> DEFINE answer == SortedCategories(creq[r].rows, creq[r].categoryIds)
    <3>1. /\ creq' = [creq EXCEPT ![r] = [@ EXCEPT !.pc = "done", !.rows = answer]]
          /\ OrderedBy(Ids(answer), ToSet(Ids(creq[r].rows)), Listed(creq[r].categoryIds))
          /\ \A n \in DOMAIN answer : \E k \in DOMAIN creq[r].rows :
                /\ answer[n].category = creq[r].rows[k].category
                /\ OrderedBy(answer[n].products, ToSet(creq[r].rows[k].products),
                             Listed(productSorting[creq[r].rows[k].category]))
      BY <1>1, <2>1, <2>4, AnswerIsSorted
    <3> HIDE DEF answer
    <3>2. creq'[r].pc = "done" /\ creq'[r].rows = answer
      BY <1>1, <3>1 DEF CategoriesInv, TypeOK, Request
    <3>3. OrderedBy(Ids(answer), Sold(creq[r].organisation),
                    Listed(categorySorting[creq[r].organisation]))
      BY <2>2, <3>1
    <3>4. \A n \in DOMAIN answer :
             OrderedBy(answer[n].products, categories[answer[n].category] \cap active,
                       Listed(productSorting[answer[n].category]))
      BY <2>2, <3>1
    <3> QED
      BY <2>2, <2>4, <3>2, <3>3, <3>4
  <2> QED
    BY <2>3, <2>4
<1>2. CategoriesInv /\ [Next]_vars => [\A r \in Requests : Answered(r)]_<<creq>>
  BY <1>1
<1> QED
  BY <1>2, CategoriesInvariant, PTL DEF Spec, UntouchedAnswer

=============================================================================
