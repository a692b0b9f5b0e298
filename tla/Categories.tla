----------------------------- MODULE Categories -----------------------------
(* The categories API (apps/api/src/categories): GET /categories answers     *)
(* with the categories of the organisation and their active products, in the *)
(* order of two lists of ids that are stored beside them and that nothing    *)
(* keeps in step with them.                                                  *)
(*                                                                           *)
(* The handler reads three times and writes nothing.  The tables are edited  *)
(* by an administrator, also between two of its reads.                       *)
EXTENDS Naturals, FiniteSets, SequencesExt

CONSTANTS
    Null,               \* an absent value, the json value null
    NoRow,              \* a sorting that is not stored
    Organisations,
    CategoryIds,
    OwnerOf,            \* the organisation of each category
    Products,
    FirstProducts,      \* the products each category is seeded with
    CategoryLists,      \* the lists of category ids a row may hold
    ProductLists,       \* the lists of product ids a row may hold
    Requests,
    MaxEdits            \* bound on the edits of the tables

ASSUME CategoriesAssumption ==
    /\ OwnerOf \in [CategoryIds -> Organisations]
    /\ FirstProducts \in [CategoryIds -> SUBSET Products]
    /\ IsFiniteSet(CategoryIds) /\ IsFiniteSet(Products)
    /\ \A ids \in CategoryLists \cup ProductLists : ids \in Seq(ToSet(ids))
    /\ NoRow \notin CategoryLists \cup ProductLists \cup {Null}
    /\ Null \notin Organisations
    /\ MaxEdits \in Nat

VARIABLES
    categories,         \* the products of each category that exists, else NoRow
    active,             \* the products with isActive
    categorySorting,    \* the list of each organisation
    productSorting,     \* the list of each category
    creq,
    edits,              \* how often the tables have been edited
    touched             \* the requests that ran when they were

tables == <<categories, active, categorySorting, productSorting>>
vars == <<tables, creq, edits, touched>>

\* A category as the query returns it, with its products.
Row == [category : CategoryIds, products : Seq(Products) \ {<<>>}]

Pcs == {"idle", "readCategories", "readCategorySorting", "readProductSorting",
        "done", "failed"}

\* rows are the categories the handler goes on with and answers in the end.
Request == [pc : Pcs, organisation : Organisations \cup {Null}, rows : Seq(Row),
            categoryIds : CategoryLists \cup {Null, NoRow}]

TypeOK ==
    /\ categories \in [CategoryIds -> (SUBSET Products) \cup {NoRow}]
    /\ active \subseteq Products
    /\ categorySorting \in [Organisations -> CategoryLists \cup {Null, NoRow}]
    /\ productSorting \in [CategoryIds -> ProductLists \cup {Null, NoRow}]
    /\ creq \in [Requests -> Request]
    /\ edits \in 0 .. MaxEdits
    /\ touched \subseteq Requests

\* Every organisation and category has its list or not, from the start.
Init ==
    /\ categories = FirstProducts
    /\ active = Products
    /\ categorySorting \in [Organisations -> CategoryLists \cup {NoRow}]
    /\ productSorting \in [CategoryIds -> ProductLists \cup {NoRow}]
    /\ creq = [r \in Requests |-> [pc |-> "idle", organisation |-> Null,
                                   rows |-> <<>>, categoryIds |-> NoRow]]
    /\ edits = 0
    /\ touched = {}

-----------------------------------------------------------------------------
(* Sorting.                                                                  *)

\* Mutant: lastIndexOf.
LastPosition(ids, x) ==
    LET at == {k \in DOMAIN ids : ids[k] = x} IN IF at = {} THEN 0 ELSE Max(at)

\* indexOf: where x is in the list first, and before all else when it is not.
Position(ids, x) ==
    LET at == {k \in DOMAIN ids : ids[k] = x} IN IF at = {} THEN 0 ELSE Min(at)

\* Array.sort by the difference of two positions: it is stable, so elements
\* the list does not name stay as they were, in front.  keys are the ids of
\* the elements; the place of one is how many come before it, itself included.
Precedes(keys, ids, j, k) ==
    \/ Position(ids, keys[j]) < Position(ids, keys[k])
    \/ Position(ids, keys[j]) = Position(ids, keys[k]) /\ j <= k

Place(keys, ids, k) == Cardinality({j \in DOMAIN keys : Precedes(keys, ids, j, k)})

Sorted(seq, keys, ids) ==
    [n \in DOMAIN seq |-> seq[CHOOSE k \in DOMAIN seq : Place(keys, ids, k) = n]]

SortedProducts(row) ==
    LET ids == productSorting[row.category]
    IN  IF ids \in {Null, NoRow} THEN row
        ELSE [row EXCEPT !.products = Sorted(@, @, ids)]

Ids(rows) == [k \in DOMAIN rows |-> rows[k].category]

\* The answer: with the json value null for a list, the categories keep the
\* order in which they were read.
SortedCategories(rows, ids) ==
    LET sorted == [k \in DOMAIN rows |-> SortedProducts(rows[k])]
    IN  IF ids = Null THEN sorted ELSE Sorted(sorted, Ids(rows), ids)

-----------------------------------------------------------------------------
(* GetCategoriesHandler.                                                     *)

\* Mutant: a left join keeps categories without a product.
AllCategories(org) == {c \in CategoryIds : OwnerOf[c] = org /\ categories[c] # NoRow}

\* The inner join: the categories of the organisation that have an active
\* product.
Sold(org) ==
    {c \in CategoryIds : /\ OwnerOf[c] = org /\ categories[c] # NoRow
                         /\ categories[c] \cap active # {}}

Receive(r, org) ==
    /\ creq[r].pc = "idle"
    /\ creq' = [creq EXCEPT ![r] = [@ EXCEPT !.pc = "readCategories", !.organisation = org]]
    /\ UNCHANGED <<tables, edits, touched>>

\* getMany, in any order.
ReadCategories(r) ==
    /\ creq[r].pc = "readCategories"
    /\ \E order \in SetToSeqs(Sold(creq[r].organisation)) :
          \E products \in [DOMAIN order -> UNION {SetToSeqs(s) : s \in SUBSET active}] :
             /\ \A k \in DOMAIN order :
                   products[k] \in SetToSeqs(categories[order[k]] \cap active)
             /\ creq' = [creq EXCEPT ![r] = [@ EXCEPT
                    !.pc = "readCategorySorting",
                    !.rows = [k \in DOMAIN order |->
                                [category |-> order[k], products |-> products[k]]]]]
    /\ UNCHANGED <<tables, edits, touched>>

ReadCategorySorting(r) ==
    /\ creq[r].pc = "readCategorySorting"
    /\ creq' = [creq EXCEPT ![r] = [@ EXCEPT
                    !.pc = "readProductSorting",
                    !.categoryIds = categorySorting[creq[r].organisation]]]
    /\ UNCHANGED <<tables, edits, touched>>

\* Without a row for the organisation reading its list throws: 500.
ReadProductSorting(r) ==
    /\ creq[r].pc = "readProductSorting"
    /\ creq' = [creq EXCEPT ![r] =
          IF @.categoryIds = NoRow THEN [@ EXCEPT !.pc = "failed", !.rows = <<>>]
          ELSE [@ EXCEPT !.pc = "done",
                         !.rows = SortedCategories(creq[r].rows, creq[r].categoryIds)]]
    /\ UNCHANGED <<tables, edits, touched>>

-----------------------------------------------------------------------------
(* The administrator.                                                        *)

Open == {r \in Requests : creq[r].pc \notin {"idle", "done", "failed"}}

\* One edit of one table.
Edit ==
    /\ edits < MaxEdits
    /\ \/ \E p \in Products :
             /\ active' = IF p \in active THEN active \ {p} ELSE active \cup {p}
             /\ UNCHANGED <<categories, categorySorting, productSorting>>
       \/ \E c \in CategoryIds, products \in SUBSET Products :
             /\ products # categories[c]
             /\ categories' = [categories EXCEPT ![c] = products]
             /\ UNCHANGED <<active, categorySorting, productSorting>>
       \/ \E c \in CategoryIds :    \* refused while a sorting refers to it
             /\ categories[c] # NoRow /\ productSorting[c] = NoRow
             /\ categories' = [categories EXCEPT ![c] = NoRow]
             /\ UNCHANGED <<active, categorySorting, productSorting>>
       \/ \E org \in Organisations, ids \in CategoryLists \cup {Null, NoRow} :
             /\ ids # categorySorting[org]
             /\ categorySorting' = [categorySorting EXCEPT ![org] = ids]
             /\ UNCHANGED <<categories, active, productSorting>>
       \/ \E c \in CategoryIds, ids \in ProductLists \cup {Null, NoRow} :
             /\ categories[c] # NoRow /\ ids # productSorting[c]
             /\ productSorting' = [productSorting EXCEPT ![c] = ids]
             /\ UNCHANGED <<categories, active, categorySorting>>
    /\ edits' = edits + 1
    /\ touched' = touched \cup Open
    /\ UNCHANGED creq

Next ==
    \/ Edit
    \/ \E r \in Requests :
          \/ \E org \in Organisations : Receive(r, org)
          \/ ReadCategories(r) \/ ReadCategorySorting(r) \/ ReadProductSorting(r)

Spec == Init /\ [][Next]_vars

-----------------------------------------------------------------------------
(* Properties.                                                               *)

NoRepeats(seq) == Cardinality(ToSet(seq)) = Len(seq)

\* seq names each member of S once, first those that ids does not name, then
\* the others as ids first names them.
OrderedBy(seq, S, ids) ==
    /\ NoRepeats(seq) /\ ToSet(seq) = S
    /\ \A j, k \in DOMAIN seq : j < k =>
          \/ seq[j] \notin ToSet(ids)
          \/ \E m \in DOMAIN ids : /\ ids[m] = seq[j]
                                   /\ \A n \in 1 .. m : ids[n] # seq[k]

\* The list for an order nothing is said about.
Listed(ids) == IF ids \in {Null, NoRow} THEN <<>> ELSE ids

\* While nobody edits the tables an answer shows each category that sells
\* something once, each of its active products once, and both as the stored
\* lists say, whatever these leave out or still name (get-categories.query.ts:58
\* "Return the sorted categories and products"); only an organisation without
\* a list gets none.
UntouchedAnswer ==
    [][\A r \in Requests :
          creq[r].pc = "readProductSorting" /\ creq'[r] # creq[r] /\ r \notin touched =>
             LET org == creq[r].organisation
                 rows == creq'[r].rows
             IN  /\ creq'[r].pc = "failed" <=> categorySorting[org] = NoRow
                 /\ creq'[r].pc = "done" =>
                    /\ OrderedBy(Ids(rows), Sold(org), Listed(categorySorting[org]))
                    /\ \A k \in DOMAIN rows :
                          OrderedBy(rows[k].products,
                                    categories[rows[k].category] \cap active,
                                    Listed(productSorting[rows[k].category]))]_<<creq>>

=============================================================================
