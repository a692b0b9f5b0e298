------------------------------- MODULE Orders -------------------------------
(* The orders API (apps/api/src/orders): create, update and delete.          *)
(*                                                                           *)
(* A request is a record; its pc names the next database call its handler    *)
(* awaits.  Between two awaits the event loop and the other cluster workers  *)
(* run any other handler.  A request ends                                    *)
(*   done      answered with 200, 201 or 204                                 *)
(*   empty     a creation answered with 201 and no body                      *)
(*   rejected  answered with 400, 404 or 405                                 *)
(*   failed    answered with 500, or its worker died.                        *)
EXTENDS Models

CONSTANTS
    Commands,           \* the operations clients call
    Carts,              \* the item lists clients send (product and amount)
    CarefulClients      \* TRUE: clients send the id of every item they keep

ASSUME OrdersAssumption ==
    /\ Commands \subseteq {"create", "update", "delete"}
    /\ \A cart \in Carts :
          /\ cart # {} /\ IsFiniteSet(cart)
          /\ \A c \in cart : c \in [product : Products, amount : Nat \ {0}]
    /\ CarefulClients \in BOOLEAN

VARIABLE oreq

OrderOpenPcs == {"find", "checkName", "saveOrder", "saveItems", "deleteItems",
                 "createItems", "findItems", "updateItems", "deleteOrder",
                 "respond"}
EndPcs == {"done", "empty", "rejected", "failed"}

\* One entry of the request's "items"; item is its optional id.
Line == [product : Products, amount : Nat \ {0}, item : ItemIds \cup {Null}]

\* row and loaded are the order and the items the handler last read, bare the
\* loaded items without a product.
OrderRequest == [cmd          : {"none", "create", "update", "delete"},
                 pc           : {"idle"} \cup OrderOpenPcs \cup EndPcs,
                 organisation : Organisations \cup {Null},
                 order        : OrderIds \cup {Null},
                 clientName   : ClientNames \cup {Null},
                 lines        : SUBSET Line,
                 row          : OrderRow \cup {Null},
                 loaded       : SUBSET ItemIds,
                 bare         : SUBSET ItemIds]

NoOrderRequest == [cmd |-> "none", pc |-> "idle", organisation |-> Null,
                   order |-> Null, clientName |-> Null, lines |-> {},
                   row |-> Null, loaded |-> {}, bare |-> {}]

OrdersTypeOK == oreq \in [OrderRequests -> OrderRequest]

OrdersInit == oreq = [r \in OrderRequests |-> NoOrderRequest]

At(r, cmd, pc) == oreq[r].cmd = cmd /\ oreq[r].pc = pc

Goto(r, pc) == oreq' = [oreq EXCEPT ![r] = [@ EXCEPT !.pc = pc]]

\* What the handler read is of no use any more once it has ended.
End(r, outcome) ==
    oreq' = [oreq EXCEPT ![r] = [@ EXCEPT !.pc = outcome, !.row = Null,
                                          !.loaded = {}, !.bare = {}]]

OrderOpen == {r \in OrderRequests : oreq[r].pc \in OrderOpenPcs}

-----------------------------------------------------------------------------
(* Requests.                                                                 *)

\* A client learns the id of an order from the answer to its creation.
Known == {r \in OrderRequests : At(r, "create", "done")}

\* Item ids that some answer may have shown: those of the lines of a request
\* that was answered, and those an update has stored under an order whose id is
\* known.
SeenItems ==
    {i \in ItemIds :
        \/ oreq[i[1]].pc = "done" /\ \E l \in oreq[i[1]].lines : l.product = i[2]
        \/ oreq[i[1]].cmd = "update" /\ items[i] # Null}

\* The ids a client may put beside product p when it updates order o.  The API
\* takes any uuid, be it that of an item of another product or another order.
ItemIdChoices(o, p) ==
    LET kept == {i \in ItemsOf(o) : i[2] = p}
    IN  IF ~CarefulClients THEN SeenItems \cup {Null}
        ELSE IF kept = {} THEN {Null} ELSE kept

Receive(r, request) ==
    /\ oreq[r].pc = "idle"
    /\ request.cmd \in Commands
    /\ oreq' = [oreq EXCEPT ![r] = request]
    /\ UNCHANGED database

ReceiveCreate(r, org, name, cart) ==
    Receive(r, [NoOrderRequest EXCEPT
        !.cmd = "create", !.pc = "checkName", !.organisation = org,
        !.order = r, !.clientName = name,
        !.lines = {[product |-> c.product, amount |-> c.amount, item |-> Null] :
                     c \in cart}])

ReceiveUpdate(r, o, org, name, lines) ==
    Receive(r, [NoOrderRequest EXCEPT
        !.cmd = "update", !.pc = "find", !.organisation = org,
        !.order = o, !.clientName = name, !.lines = lines])

ReceiveDelete(r, o, org) ==
    Receive(r, [NoOrderRequest EXCEPT
        !.cmd = "delete", !.pc = "find", !.organisation = org, !.order = o])

\* The item lists of an update: a cart with an item id, or none, per line.
LinesFor(o, cart) ==
    LET ids == {f \in [cart -> UNION {ItemIdChoices(o, c.product) : c \in cart}] :
                  \A c \in cart : f[c] \in ItemIdChoices(o, c.product)}
    IN  {{[product |-> c.product, amount |-> c.amount, item |-> id[c]] : c \in cart} : id \in ids}

OrdersReceive ==
    \E r \in OrderRequests, org \in Organisations :
        \/ \E name \in ClientNames \cup {Null}, cart \in Carts :
              ReceiveCreate(r, org, name, cart)
        \/ \E o \in Known, name \in ClientNames \cup {Null}, cart \in Carts :
              \E lines \in LinesFor(o, cart) : ReceiveUpdate(r, o, org, name, lines)
        \/ \E o \in Known : ReceiveDelete(r, o, org)

-----------------------------------------------------------------------------
(* OrdersService.                                                            *)

\* validateAndGetProducts: as many stored products as lines (404), all of
\* them active (400).  The product table never changes.
AcceptsLines(lines) ==
    /\ \A l \in lines : l.product \in Catalogue /\ l.product \in Active
    /\ \A k, l \in lines : k.product = l.product => k = l

\* Mutant: the amounts are left out.
TotalPriceOfOneEach(lines) == MapThenSumSet(LAMBDA l : Price[l.product], lines)

\* calculateTotalPrice
TotalPrice(lines) == MapThenSumSet(LAMBDA l : l.amount * Price[l.product], lines)

-----------------------------------------------------------------------------
(* CreateOrderHandler.                                                       *)

\* Mutant: the order is saved before it is checked.
CreateCheckSaved(r) ==
    /\ At(r, "create", "checkName")
    /\ InsertOrder(r, [clientName |-> oreq[r].clientName, totalPrice |-> 0,
                       isFinished |-> FALSE, organisation |-> oreq[r].organisation])
    /\ LET taken == OrdersWithClientName(oreq[r].clientName)
       IN  IF taken # {} \/ ~AcceptsLines(oreq[r].lines)
           THEN End(r, "rejected") ELSE Goto(r, "saveOrder")
    /\ UNCHANGED <<items, payments>>

\* No order must be found with the name (400) and the lines be acceptable.
CreateCheck(r) ==
    /\ At(r, "create", "checkName")
    /\ LET request == oreq[r]
           taken == OrdersWithClientName(request.clientName)
       IN  \/ NameQueryMayThrow(request.clientName) /\ End(r, "failed")
           \/ (taken # {} \/ ~AcceptsLines(request.lines)) /\ End(r, "rejected")
           \/ taken = {} /\ AcceptsLines(request.lines) /\ Goto(r, "saveOrder")
    /\ UNCHANGED database

CreateSaveOrder(r) ==
    /\ At(r, "create", "saveOrder")
    /\ LET request == oreq[r]
           total == TotalPrice(request.lines)
       IN  IF Storable(total)
           THEN /\ InsertOrder(r, [clientName   |-> request.clientName,
                                   totalPrice   |-> total,
                                   isFinished   |-> FALSE,
                                   organisation |-> request.organisation])
                /\ Goto(r, "saveItems")
           ELSE /\ End(r, "failed")
                /\ UNCHANGED orders
    /\ UNCHANGED <<items, payments>>

\* Mutant: the items are not saved when the answer is read.
CreateSkipItems(r) ==
    At(r, "create", "saveItems") /\ Goto(r, "respond") /\ UNCHANGED database

\* Mutant: the items are saved one by one.
CreateSaveOneItem(r) ==
    /\ At(r, "create", "saveItems")
    /\ \E l \in oreq[r].lines :
          /\ items[<<r, l.product>>] = Null
          /\ InsertItems(r, r, {l})
          /\ IF \A k \in oreq[r].lines \ {l} : items[<<r, k.product>>] # Null
             THEN Goto(r, "respond") ELSE UNCHANGED oreq
    /\ UNCHANGED <<orders, payments>>

\* Save one item per line, all in one transaction.
CreateSaveItems(r) ==
    /\ At(r, "create", "saveItems")
    /\ IF OrderExists(r)
       THEN InsertItems(r, r, oreq[r].lines) /\ Goto(r, "respond")
       ELSE End(r, "failed") /\ UNCHANGED items
    /\ UNCHANGED <<orders, payments>>

Answer(r) == GetOrder(oreq[r].order, oreq[r].organisation)

\* The controller answers with GetOrder, for a creation and for an update.  A
\* creation whose answer is empty tells the client no order id.
Respond(r) ==
    /\ oreq[r].pc = "respond"
    /\ End(r, IF oreq[r].cmd = "create" /\ Answer(r) = Null THEN "empty" ELSE "done")
    /\ UNCHANGED database

-----------------------------------------------------------------------------
(* UpdateOrderHandler.                                                       *)

\* findOneOrThrow with the items, then the check on isFinished: 404 or 405, or
\* the handler goes on with what it has loaded.
FindUnfinished(r, pc) ==
    LET request == oreq[r]
        linked == ItemsOf(request.order)
    IN  IF FoundUnfinished(request.order, request.organisation)
        THEN oreq' = [oreq EXCEPT ![r] = [@ EXCEPT
                        !.pc = pc, !.row = orders[request.order],
                        !.loaded = linked,
                        !.bare = {i \in linked : items[i].product = Null}]]
        ELSE End(r, "rejected")

UpdateFind(r) ==
    /\ At(r, "update", "find")
    /\ FindUnfinished(r, "checkName")
    /\ UNCHANGED database

\* findOne returns any one of the orders with the name; only the order itself
\* passes.
UpdateCheck(r) ==
    /\ At(r, "update", "checkName")
    /\ LET request == oreq[r]
           taken == OrdersWithClientName(request.clientName)
       IN  \/ NameQueryMayThrow(request.clientName) /\ End(r, "failed")
           \/ /\ taken \ {request.order} # {} \/ ~AcceptsLines(request.lines)
              /\ End(r, "rejected")
           \/ /\ taken = {} \/ request.order \in taken
              /\ AcceptsLines(request.lines)
              /\ Goto(r, "saveOrder")
    /\ UNCHANGED database

UpdateSaveOrder(r) ==
    /\ At(r, "update", "saveOrder")
    /\ LET request == oreq[r]
           total == TotalPrice(request.lines)
           name == IF request.clientName # Null THEN request.clientName
                   ELSE request.row.clientName
       IN  IF Storable(total)
           THEN /\ SaveLoadedOrder(request.order,
                        [request.row EXCEPT !.clientName = name,
                                            !.totalPrice = total],
                        request.loaded)
                /\ Goto(r, "deleteItems")
           ELSE /\ End(r, "failed")
                /\ UNCHANGED <<orders, items>>
    /\ UNCHANGED payments

\* Mutant: the items that left the list are not deleted.
UpdateKeepItems(r) ==
    At(r, "update", "deleteItems") /\ Goto(r, "createItems") /\ UNCHANGED database

\* Delete the loaded items the request does not name.
UpdateDeleteItems(r) ==
    /\ At(r, "update", "deleteItems")
    /\ DeleteItems(oreq[r].loaded \ {l.item : l \in oreq[r].lines})
    /\ Goto(r, "createItems")
    /\ UNCHANGED <<orders, payments>>

\* Create an item per line whose product no loaded item has; a deleted item
\* still counts.  Reading the product of an item without one throws, unless
\* the search stops at another item first.
UpdateCreateItems(r) ==
    /\ At(r, "update", "createItems")
    /\ LET request == oreq[r]
           stocked == {i[2] : i \in request.loaded \ request.bare}
           new == {l \in request.lines : l.product \notin stocked}
       IN  \E throws \in BOOLEAN :
             /\ throws => request.bare # {}
             /\ request.bare # {} /\ new # {} => throws
             /\ IF throws \/ (new # {} /\ ~OrderExists(request.order))
                THEN End(r, "failed") /\ UNCHANGED items
                ELSE InsertItems(r, request.order, new) /\ Goto(r, "findItems")
    /\ UNCHANGED <<orders, payments>>

\* Read the items the request names.
UpdateFindItems(r) ==
    /\ At(r, "update", "findItems")
    /\ oreq' = [oreq EXCEPT ![r] = [@ EXCEPT !.pc = "updateItems", !.bare = {},
          !.loaded = {i \in ItemIds : /\ items[i] # Null
                                      /\ \E l \in oreq[r].lines : l.item = i}]]
    /\ UNCHANGED database

\* Write the amounts of the lines that name them.
UpdateSaveItems(r) ==
    /\ At(r, "update", "updateItems")
    /\ \E line \in [oreq[r].loaded -> oreq[r].lines] :
          /\ \A i \in oreq[r].loaded : line[i].item = i
          /\ SaveLoadedItems([i \in oreq[r].loaded |-> line[i].amount])
    /\ Goto(r, "respond")
    /\ UNCHANGED <<orders, payments>>

-----------------------------------------------------------------------------
(* DeleteOrderHandler.                                                       *)

DeleteFind(r) ==
    /\ At(r, "delete", "find")
    /\ FindUnfinished(r, "deleteItems")
    /\ UNCHANGED database

\* delete() refuses an empty list of ids.
DeleteDeleteItems(r) ==
    /\ At(r, "delete", "deleteItems")
    /\ IF oreq[r].loaded = {}
       THEN End(r, "failed")
       ELSE Goto(r, "deleteOrder")
    /\ DeleteItems(oreq[r].loaded)
    /\ UNCHANGED <<orders, payments>>

DeleteDeleteOrder(r) ==
    /\ At(r, "delete", "deleteOrder")
    /\ IF Referenced(oreq[r].order)
       THEN End(r, "failed") /\ UNCHANGED orders
       ELSE End(r, "done") /\ DeleteOrder(oreq[r].order)
    /\ UNCHANGED <<items, payments>>

-----------------------------------------------------------------------------
\* A call fails, or the worker dies before it: the rest never runs.
OrderAbort(r) ==
    /\ Failures
    /\ oreq[r].pc \in OrderOpenPcs
    /\ End(r, "failed")
    /\ UNCHANGED database

OrderStep(r) ==
    \/ CreateCheck(r) \/ CreateSaveOrder(r) \/ CreateSaveItems(r)
    \/ UpdateFind(r) \/ UpdateCheck(r) \/ UpdateSaveOrder(r)
    \/ UpdateDeleteItems(r) \/ UpdateCreateItems(r)
    \/ UpdateFindItems(r) \/ UpdateSaveItems(r)
    \/ DeleteFind(r) \/ DeleteDeleteItems(r) \/ DeleteDeleteOrder(r)
    \/ Respond(r)

=============================================================================
