------------------------------- MODULE Models -------------------------------
(* The tables of libs/models that the API writes (order, order_item,         *)
(* payment) and the repository calls its handlers make on them.              *)
(*                                                                           *)
(* Every call is one statement or one TypeORM transaction on a READ          *)
(* COMMITTED Postgres database, so it is atomic here; what a handler does    *)
(* between two calls is not.  A table is a function from ids to rows, Null   *)
(* where there is no row.                                                    *)
(*                                                                           *)
(* The uuids that entities draw (Order.create, OrderItem.create, uuid()) are *)
(* named after the request that draws them: request r can create the one     *)
(* order r, and for each product p the one item <<r, p>>.                    *)
EXTENDS Integers, FiniteSets, FiniteSetsExt

CONSTANTS
    Null,               \* SQL NULL, a missing row, an absent field
    Organisations,
    ClientNames,
    Products,           \* product ids a client may send
    Price,              \* the product table: prices of the stored products
    Active,             \* the stored products with isActive
    MaxInt,             \* largest value of a Postgres "integer" column
    OrderRequests,      \* calls of the orders API; each can be made once
    PaymentRequests,    \* calls of the payments API; each can be made once
    Failures            \* TRUE: a call may fail and a worker may die

Catalogue == DOMAIN Price

\* The seeds store 150 to 800 cents; only that a price is positive matters.
ASSUME CatalogueAssumption ==
    /\ Catalogue \subseteq Products
    /\ Price \in [Catalogue -> Nat \ {0}]
    /\ Active \subseteq Catalogue
    /\ MaxInt \in Nat \ {0}
    /\ Failures \in BOOLEAN

OrderIds == OrderRequests
ItemIds == OrderRequests \X Products
PaymentIds == PaymentRequests

PaymentTypes == {"CASH", "FREE", "PAYCONIQ"}
PaymentStatuses == {"CANCELLED", "FAILED", "PENDING", "SUCCEEDED"}

\* The statuses of libs/payconiq; a Payconiq payment row keeps one in "data".
PayconiqStatuses == {"AUTHORIZATION_FAILED", "AUTHORIZED", "CANCELLED",
                     "EXPIRED", "FAILED", "IDENTIFIED", "PENDING", "SUCCEEDED"}

OrderRow == [clientName   : ClientNames \cup {Null},
             totalPrice   : 0 .. MaxInt,
             isFinished   : BOOLEAN,
             organisation : Organisations \cup {Null}]

ItemRow == [amount  : Nat \ {0},
            product : Products \cup {Null},
            order   : OrderIds \cup {Null}]

PaymentRow == [amount       : 0 .. MaxInt,
               type         : PaymentTypes,
               status       : PaymentStatuses,
               data         : PayconiqStatuses \cup {Null},
               order        : OrderIds,
               organisation : Organisations]

\* Null is a value of its own: neither a row nor an id.
ASSUME NullAssumption ==
    /\ Null \notin OrderRow \cup ItemRow \cup PaymentRow
    /\ Null \notin Organisations \cup ClientNames \cup Products \cup OrderIds
    /\ Null \notin ItemIds \cup PaymentIds \cup PayconiqStatuses
    /\ Null \notin 0 .. MaxInt

VARIABLES orders, items, payments

database == <<orders, items, payments>>

DatabaseTypeOK ==
    /\ orders \in [OrderIds -> OrderRow \cup {Null}]
    /\ items \in [ItemIds -> ItemRow \cup {Null}]
    /\ payments \in [PaymentIds -> PaymentRow \cup {Null}]

DatabaseInit ==
    /\ orders = [o \in OrderIds |-> Null]
    /\ items = [i \in ItemIds |-> Null]
    /\ payments = [p \in PaymentIds |-> Null]

-----------------------------------------------------------------------------
(* Reads.                                                                    *)

\* Mutant: the join on the order is missing.
AllItems(o) == {i \in ItemIds : items[i] # Null /\ o \in OrderIds}

\* The items linked to an order.
ItemsOf(o) == {i \in ItemIds : items[i] # Null /\ items[i].order = o}

\* Mutant: the organisation of the session is not part of the condition.
FoundAnywhere(o, org) == orders[o] # Null /\ org \in Organisations

\* findOneOrThrow({id, organisation}) finds a row.
OrderFound(o, org) == orders[o] # Null /\ orders[o].organisation = org

PaymentsOf(o) == {p \in PaymentIds : payments[p] # Null /\ payments[p].order = o}

\* findOneOrThrow({id, type: PAYCONIQ, organisation}) finds a row.
PayconiqPaymentFound(p, org) ==
    payments[p] # Null /\ payments[p].type = "PAYCONIQ" /\ payments[p].organisation = org

\* A row that the update, delete and payment handlers go on with: found, or
\* else 404, and not finished, or else 405.
FoundUnfinished(o, org) == OrderFound(o, org) /\ ~orders[o].isFinished

\* Mutant: only finished orders are compared.
FinishedWithClientName(name) ==
    {o \in OrderIds : name # Null /\ orders[o] # Null
                      /\ orders[o].clientName = name /\ orders[o].isFinished}

\* The rows findUnfinishedOrderWithClientName may return one of: none without
\* a client name, else any order with the name.  It passes findOne the name as
\* the conditions and { isFinished: false, organisationId } in the options, and
\* the conditions replace the "where" of the options.
OrdersWithClientName(name) ==
    {o \in OrderIds : name # Null /\ orders[o] # Null /\ orders[o].clientName = name}

\* No column of order is called organisationId, so TypeORM may also refuse the
\* options: with a client name the call may throw.
NameQueryMayThrow(name) == name # Null

\* GetOrder joins items and products with inner joins: an order without an
\* item that has a product is not found, and Null goes back to the client.
GetOrder(o, org) ==
    LET lines == {[product |-> items[i].product, amount |-> items[i].amount] :
                    i \in {j \in ItemsOf(o) : items[j].product # Null}}
    IN  IF OrderFound(o, org) /\ lines # {} THEN lines ELSE Null

-----------------------------------------------------------------------------
(* Writes.                                                                   *)

InsertOrder(o, row) == orders' = [orders EXCEPT ![o] = row]

\* save() of an order that was loaded with its items but not its organisation:
\* every loaded column is written, as it was when it was loaded or as the
\* handler set it since.  The items of the order become the loaded ones that
\* still exist.  A row that has gone meanwhile is inserted again, without the
\* organisation.
SaveLoadedOrder(o, row, loaded) ==
    /\ orders' = [orders EXCEPT ![o] = [row EXCEPT
                    !.organisation = IF orders[o] = Null THEN Null
                                     ELSE orders[o].organisation]]
    /\ items' = [i \in ItemIds |->
                    IF items[i] = Null THEN Null
                    ELSE IF i \in loaded THEN [items[i] EXCEPT !.order = o]
                    ELSE IF items[i].order = o THEN [items[i] EXCEPT !.order = Null]
                    ELSE items[i]]

FinishOrder(o) ==
    orders' = IF orders[o] = Null THEN orders
              ELSE [orders EXCEPT ![o] = [@ EXCEPT !.isFinished = TRUE]]

\* Insert one item per line, drawn by request r and linked to order o.
InsertItems(r, o, lines) ==
    items' = [i \in ItemIds |->
                IF \E l \in lines : i = <<r, l.product>>
                THEN [amount  |-> (CHOOSE l \in lines : i = <<r, l.product>>).amount,
                      product |-> i[2],
                      order   |-> o]
                ELSE items[i]]

DeleteItems(ids) ==
    items' = [i \in ItemIds |-> IF i \in ids THEN Null ELSE items[i]]

\* save() of items loaded without relations: only the amount is written; an
\* item that has gone meanwhile is inserted again, linked to nothing.
SaveLoadedItems(amounts) ==
    items' = [i \in ItemIds |->
                IF i \notin DOMAIN amounts THEN items[i]
                ELSE IF items[i] # Null THEN [items[i] EXCEPT !.amount = amounts[i]]
                ELSE [amount |-> amounts[i], product |-> Null, order |-> Null]]

DeleteOrder(o) == orders' = [orders EXCEPT ![o] = Null]

InsertPayment(p, row) == payments' = [payments EXCEPT ![p] = row]

UpdatePayment(p, status, data) ==
    payments' = [payments EXCEPT ![p] =
                    [@ EXCEPT !.status = status, !.data = data]]

-----------------------------------------------------------------------------
(* Constraints of the tables: a write that breaks one fails and changes      *)
(* nothing.                                                                  *)

\* An integer column takes no larger value.
Storable(price) == price \in 0 .. MaxInt

\* A row may refer to an order only while the order exists.
OrderExists(o) == orders[o] # Null

\* Mutant: payment has no foreign key on order.
ReferencedByItem(o) == ItemsOf(o) # {}

\* order_item and payment refer to order with ON DELETE NO ACTION.
Referenced(o) == ItemsOf(o) # {} \/ PaymentsOf(o) # {}

=============================================================================
