---------------------------- MODULE Tapapp_proofs ----------------------------
(* Proofs about module Tapapp: for every set of requests and deliveries,     *)
(* every catalogue and every overlap, IInv is an inductive invariant, so the *)
(* types are right and a finished order has been paid.                       *)
EXTENDS Tapapp, TLAPS

-----------------------------------------------------------------------------
(* The inductive invariant behind TypeOK and FinishedIsPaid: what each       *)
(* handler may rely on at each pc.                                           *)

\* An orders handler works on an order; what it has read was not finished.
OrderShape ==
    \A r \in OrderRequests :
        /\ oreq[r].pc # "idle" => oreq[r].cmd # "none" /\ oreq[r].order \in OrderIds
        /\ oreq[r].row # Null => ~oreq[r].row.isFinished
        /\ At(r, "update", "checkName") \/ At(r, "update", "saveOrder") => oreq[r].row # Null

\* A payments handler knows what it needs for its next call; its own payment
\* is neither registered nor saved before it has done so itself.
PaymentShapeOf(p) ==
    /\ preq[p].pc # "idle" => preq[p].organisation \in Organisations
    /\ preq[p].pc # "idle" /\ preq[p].cmd \in PaymentTypes => preq[p].order \in OrderIds
    /\ preq[p].pc # "idle" /\ preq[p].cmd = "CANCEL" => preq[p].payment \in PaymentIds
    /\ preq[p].pc = "savePayment" \/ PaymentAt(p, {"PAYCONIQ"}, "callPayconiq")
          => preq[p].total # Null
    /\ PaymentAt(p, {"PAYCONIQ"}, "savePayment") => preq[p].data # Null
    /\ PaymentAt(p, {"CANCEL"}, "callPayconiq") \/ PaymentAt(p, {"CANCEL"}, "updatePayment")
          => payments[preq[p].payment] # Null
    /\ preq[p].pc = "finishOrder" =>
          p \in PaymentsOf(preq[p].order) /\ payments[p].type \in {"CASH", "FREE"}
    /\ preq[p].pc \in {"idle", "find", "callPayconiq"} \/ preq[p].cmd # "PAYCONIQ"
          => payconiq[p] = Null
    /\ preq[p].pc \in {"idle", "find", "callPayconiq", "savePayment"} => payments[p] = Null

PaymentShape == \A p \in PaymentRequests : PaymentShapeOf(p)

\* A callback never claims more than Payconiq did.
Truthful(callback) ==
    callback.status = "SUCCEEDED" =>
        PaidAtPayconiq(InternalPaymentIdFromReference(callback.reference))

WebhookShape ==
    /\ \A callback \in callbacks : Truthful(callback)
    /\ \A d \in Deliveries :
          /\ hreq[d].pc # "idle" => hreq[d].callback \in Callback /\ Truthful(hreq[d].callback)
          /\ hreq[d].pc \in {"updatePayment", "finishOrder"} =>
                /\ hreq[d].order \in OrderIds
                /\ DeliveredPayment(d) \in PaymentsOf(hreq[d].order)
          /\ hreq[d].pc = "finishOrder" => hreq[d].callback.status = "SUCCEEDED"

\* The foreign key of payment on order.
PaymentHasOrder == \A p \in PaymentIds : payments[p] # Null => orders[payments[p].order] # Null

IInv ==
    /\ TypeOK
    /\ OrderShape
    /\ PaymentShape
    /\ WebhookShape
    /\ FinishedIsPaid
    /\ PaymentHasOrder

-----------------------------------------------------------------------------
(* Steps of an orders handler that only change its own record.               *)

\* A request that ends needs nothing any more.
LEMMA EndKeepsOrderShape ==
    ASSUME OrdersTypeOK, OrderShape,
           NEW r \in OrderRequests, NEW outcome \in EndPcs,
           oreq[r].pc # "idle", End(r, outcome)
    PROVE  OrdersTypeOK' /\ OrderShape'
<1>1. oreq[r] \in OrderRequest
  BY DEF OrdersTypeOK
<1>2. oreq'[r] = [oreq[r] EXCEPT !.pc = outcome, !.row = Null, !.loaded = {}, !.bare = {}]
  BY DEF End, OrdersTypeOK
<1>3. oreq'[r] \in OrderRequest
  BY <1>1, <1>2 DEF OrderRequest
<1>4. OrdersTypeOK'
  BY <1>3 DEF OrdersTypeOK, End
<1>5. OrderShape'
  <2> SUFFICES ASSUME NEW s \in OrderRequests
               PROVE  /\ oreq'[s].pc # "idle" => oreq'[s].cmd # "none" /\ oreq'[s].order \in OrderIds
                      /\ oreq'[s].row # Null => ~oreq'[s].row.isFinished
                      /\ At(s, "update", "checkName")' \/ At(s, "update", "saveOrder")'
                            => oreq'[s].row # Null
    BY DEF OrderShape
  <2>1. CASE s = r
    BY <1>1, <1>2, <2>1 DEF OrderShape, At, OrderRequest, EndPcs
  <2>2. CASE s # r
    <3>1. oreq'[s] = oreq[s]
      BY <2>2 DEF End, OrdersTypeOK
    <3> QED
      BY <3>1 DEF OrderShape, At
  <2> QED
    BY <2>1, <2>2
<1> QED
  BY <1>4, <1>5

\* A request that only moves on to its next call keeps its shape.
LEMMA GotoKeepsOrderShape ==
    ASSUME OrdersTypeOK, OrderShape,
           NEW r \in OrderRequests, NEW pc \in OrderOpenPcs,
           oreq[r].pc # "idle", Goto(r, pc),
           oreq[r].cmd = "update" /\ pc \in {"checkName", "saveOrder"} => oreq[r].row # Null
    PROVE  OrdersTypeOK' /\ OrderShape'
<1>1. oreq[r] \in OrderRequest
  BY DEF OrdersTypeOK
<1>2. oreq'[r] = [oreq[r] EXCEPT !.pc = pc]
  BY DEF Goto, OrdersTypeOK
<1>3. oreq'[r] \in OrderRequest
  BY <1>1, <1>2 DEF OrderRequest
<1>4. OrdersTypeOK'
  BY <1>3 DEF OrdersTypeOK, Goto
<1>5. OrderShape'
  <2> SUFFICES ASSUME NEW s \in OrderRequests
               PROVE  /\ oreq'[s].pc # "idle" => oreq'[s].cmd # "none" /\ oreq'[s].order \in OrderIds
                      /\ oreq'[s].row # Null => ~oreq'[s].row.isFinished
                      /\ At(s, "update", "checkName")' \/ At(s, "update", "saveOrder")'
                            => oreq'[s].row # Null
    BY DEF OrderShape
  <2>1. CASE s = r
    BY <1>1, <1>2, <2>1 DEF OrderShape, At, OrderRequest, OrderOpenPcs
  <2>2. CASE s # r
    <3>1. oreq'[s] = oreq[s]
      BY <2>2 DEF Goto, OrdersTypeOK
    <3> QED
      BY <3>1 DEF OrderShape, At
  <2> QED
    BY <2>1, <2>2
<1> QED
  BY <1>4, <1>5

-----------------------------------------------------------------------------
(* What a step of an orders handler owes the rest of the invariant.          *)

\* What is not its own record an orders handler can only disturb by finishing
\* an order or by deleting one that has payments: none does.
LEMMA OrderStepKeepsIInv ==
    ASSUME IInv,
           OrdersTypeOK', OrderShape',
           orders' \in [OrderIds -> OrderRow \cup {Null}],
           items' \in [ItemIds -> ItemRow \cup {Null}],
           UNCHANGED <<payments, preq, hreq, payconiq, callbacks>>,
           \A o \in OrderIds : orders'[o] # Null /\ orders'[o].isFinished =>
                                   orders[o] # Null /\ orders[o].isFinished,
           \A o \in OrderIds : orders[o] # Null /\ orders'[o] = Null => PaymentsOf(o) = {}
    PROVE  IInv'
<1>1. TypeOK'
  BY DEF IInv, TypeOK, DatabaseTypeOK, PaymentsTypeOK, WebhooksTypeOK, PayconiqTypeOK
<1>2. PaymentShape'
  BY DEF IInv, PaymentShape, PaymentShapeOf, PaymentAt, PaymentsOf
<1>3. WebhookShape'
  BY DEF IInv, WebhookShape, PaymentsOf, Truthful, PaidAtPayconiq, DeliveredPayment
<1>4. FinishedIsPaid'
  <2>1. \A o \in OrderIds : PaymentsOf(o)' = PaymentsOf(o)
    BY DEF PaymentsOf
  <2> QED
    BY <2>1 DEF IInv, FinishedIsPaid, PaidAtPayconiq
<1>5. PaymentHasOrder'
  <2> SUFFICES ASSUME NEW p \in PaymentIds, payments'[p] # Null
               PROVE  orders'[payments'[p].order] # Null
    BY DEF PaymentHasOrder
  <2>1. payments[p] # Null /\ payments'[p] = payments[p]
    OBVIOUS
  <2>2. payments[p].order \in OrderIds /\ orders[payments[p].order] # Null
    BY <2>1 DEF IInv, TypeOK, DatabaseTypeOK, PaymentRow, PaymentHasOrder
  <2>3. PaymentsOf(payments[p].order) # {}
    BY <2>1 DEF PaymentsOf
  <2> QED
    BY <2>1, <2>2, <2>3
<1> QED
  BY <1>1, <1>2, <1>3, <1>4, <1>5 DEF IInv

\* A step that leaves the tables alone owes nothing but its own record.
LEMMA OrderReadKeepsIInv ==
    ASSUME IInv, OrdersTypeOK', OrderShape',
           UNCHANGED database, UNCHANGED <<preq, hreq, payconiqVars>>
    PROVE  IInv'
<1>1. UNCHANGED <<orders, items, payments, preq, hreq, payconiq, callbacks>>
  BY DEF database, payconiqVars
<1>2. orders \in [OrderIds -> OrderRow \cup {Null}] /\ items \in [ItemIds -> ItemRow \cup {Null}]
  BY DEF IInv, TypeOK, DatabaseTypeOK
<1> QED
  BY <1>1, <1>2, OrderStepKeepsIInv

-----------------------------------------------------------------------------
(* CreateOrderHandler.                                                       *)

\* The check reads the tables only.
LEMMA CreateCheckKeepsIInv ==
    ASSUME IInv, NEW r \in OrderRequests, CreateCheck(r), UNCHANGED <<preq, hreq, payconiqVars>>
    PROVE  IInv'
<1>1. OrdersTypeOK /\ OrderShape /\ oreq[r].pc # "idle" /\ oreq[r].cmd # "update"
  BY DEF IInv, TypeOK, CreateCheck, At
<1>2. End(r, "failed") \/ End(r, "rejected") \/ Goto(r, "saveOrder")
  BY DEF CreateCheck
<1>3. OrdersTypeOK' /\ OrderShape'
  BY <1>1, <1>2, EndKeepsOrderShape, GotoKeepsOrderShape DEF EndPcs, OrderOpenPcs
<1> QED
  BY <1>3, OrderReadKeepsIInv DEF CreateCheck

\* A new order is not finished, and its total has been found to fit.
LEMMA CreateSaveOrderKeepsIInv ==
    ASSUME IInv, NEW r \in OrderRequests, CreateSaveOrder(r), UNCHANGED <<preq, hreq, payconiqVars>>
    PROVE  IInv'
<1> DEFINE total == TotalPrice(oreq[r].lines)
           row == [clientName |-> oreq[r].clientName, totalPrice |-> total,
                   isFinished |-> FALSE, organisation |-> oreq[r].organisation]
<1>1. OrdersTypeOK /\ OrderShape /\ oreq[r].pc # "idle" /\ oreq[r].cmd # "update"
  BY DEF IInv, TypeOK, CreateSaveOrder, At
<1>2. orders \in [OrderIds -> OrderRow \cup {Null}] /\ items \in [ItemIds -> ItemRow \cup {Null}]
  BY DEF IInv, TypeOK, DatabaseTypeOK
<1>3. UNCHANGED <<items, payments, preq, hreq, payconiq, callbacks>>
  BY DEF CreateSaveOrder, payconiqVars
<1>4. CASE Storable(total)
  <2>1. InsertOrder(r, row) /\ Goto(r, "saveItems")
    BY <1>4 DEF CreateSaveOrder
  <2>2. OrdersTypeOK' /\ OrderShape'
    BY <1>1, <2>1, GotoKeepsOrderShape DEF OrderOpenPcs
  <2>3. oreq[r].clientName \in ClientNames \cup {Null}
        /\ oreq[r].organisation \in Organisations \cup {Null}
    BY <1>1 DEF OrdersTypeOK, OrderRequest
  <2>4. total \in 0 .. MaxInt
    BY <1>4 DEF Storable
  <2> HIDE DEF total
  <2>5. row \in OrderRow /\ ~row.isFinished
    BY <2>3, <2>4 DEF OrderRow
  <2> HIDE DEF row
  <2>6. orders' \in [OrderIds -> OrderRow \cup {Null}]
    BY <1>2, <2>1, <2>5 DEF InsertOrder
  <2>. row # Null
    BY <2>5, NullAssumption
  <2>7. \A o \in OrderIds : /\ orders'[o] # Null /\ orders'[o].isFinished =>
                                  orders[o] # Null /\ orders[o].isFinished
                            /\ orders[o] # Null => orders'[o] # Null
    BY <1>2, <2>1, <2>5 DEF InsertOrder
  <2> QED
    BY <1>2, <1>3, <2>2, <2>6, <2>7, OrderStepKeepsIInv
<1>5. CASE ~Storable(total)
  <2>1. End(r, "failed") /\ UNCHANGED orders
    BY <1>5 DEF CreateSaveOrder
  <2>2. OrdersTypeOK' /\ OrderShape'
    BY <1>1, <2>1, EndKeepsOrderShape DEF EndPcs
  <2> QED
    BY <1>3, <2>1, <2>2, OrderReadKeepsIInv DEF database, payconiqVars
<1> QED
  BY <1>4, <1>5

\* What InsertItems stores are items.
LEMMA InsertItemsType ==
    ASSUME NEW r \in OrderRequests, NEW o \in OrderIds, NEW lines \in SUBSET Line,
           items \in [ItemIds -> ItemRow \cup {Null}], InsertItems(r, o, lines)
    PROVE  items' \in [ItemIds -> ItemRow \cup {Null}]
<1> SUFFICES ASSUME NEW i \in ItemIds,
                    \E l \in lines : i = <<r, l.product>>
             PROVE  [amount  |-> (CHOOSE l \in lines : i = <<r, l.product>>).amount,
                     product |-> i[2], order |-> o] \in ItemRow
  BY DEF InsertItems
<1>1. (CHOOSE l \in lines : i = <<r, l.product>>) \in lines
  OBVIOUS
<1>2. i[2] \in Products
  BY DEF ItemIds
<1> QED
  BY <1>1, <1>2 DEF Line, ItemRow

\* The items of a new order have the types of their lines.
LEMMA CreateSaveItemsKeepsIInv ==
    ASSUME IInv, NEW r \in OrderRequests, CreateSaveItems(r), UNCHANGED <<preq, hreq, payconiqVars>>
    PROVE  IInv'
<1>1. OrdersTypeOK /\ OrderShape /\ oreq[r].pc # "idle" /\ oreq[r].cmd # "update"
  BY DEF IInv, TypeOK, CreateSaveItems, At
<1>2. orders \in [OrderIds -> OrderRow \cup {Null}] /\ items \in [ItemIds -> ItemRow \cup {Null}]
  BY DEF IInv, TypeOK, DatabaseTypeOK
<1>3. UNCHANGED <<orders, payments, preq, hreq, payconiq, callbacks>>
  BY DEF CreateSaveItems, payconiqVars
<1>4. CASE OrderExists(r)
  <2>1. InsertItems(r, r, oreq[r].lines) /\ Goto(r, "respond")
    BY <1>4 DEF CreateSaveItems
  <2>2. OrdersTypeOK' /\ OrderShape'
    BY <1>1, <2>1, GotoKeepsOrderShape DEF OrderOpenPcs
  <2>3. oreq[r].lines \in SUBSET Line /\ r \in OrderIds
    BY <1>1 DEF OrdersTypeOK, OrderRequest, OrderIds
  <2>4. items' \in [ItemIds -> ItemRow \cup {Null}]
    BY <1>2, <2>1, <2>3, InsertItemsType
  <2> QED
    BY <1>2, <1>3, <2>2, <2>4, OrderStepKeepsIInv
<1>5. CASE ~OrderExists(r)
  <2>1. End(r, "failed") /\ UNCHANGED items
    BY <1>5 DEF CreateSaveItems
  <2>2. OrdersTypeOK' /\ OrderShape'
    BY <1>1, <2>1, EndKeepsOrderShape DEF EndPcs
  <2> QED
    BY <1>3, <2>1, <2>2, OrderReadKeepsIInv DEF database, payconiqVars
<1> QED
  BY <1>4, <1>5

\* The answer is a read.
LEMMA RespondKeepsIInv ==
    ASSUME IInv, NEW r \in OrderRequests, Respond(r), UNCHANGED <<preq, hreq, payconiqVars>>
    PROVE  IInv'
<1>1. OrdersTypeOK /\ OrderShape /\ oreq[r].pc # "idle"
  BY DEF IInv, TypeOK, Respond
<1>2. \E outcome \in {"done", "empty"} : End(r, outcome)
  BY DEF Respond
<1>3. OrdersTypeOK' /\ OrderShape'
  BY <1>1, <1>2, EndKeepsOrderShape DEF EndPcs
<1> QED
  BY <1>3, OrderReadKeepsIInv DEF Respond

-----------------------------------------------------------------------------
(* UpdateOrderHandler.                                                       *)

\* A snapshot is taken of an order that is not finished.
LEMMA FindUnfinishedKeepsOrderShape ==
    ASSUME IInv, NEW r \in OrderRequests, NEW pc \in OrderOpenPcs,
           oreq[r].pc # "idle", FindUnfinished(r, pc)
    PROVE  OrdersTypeOK' /\ OrderShape'
<1> DEFINE o == oreq[r].order
           bare == {i \in ItemsOf(o) : items[i].product = Null}
<1>1. OrdersTypeOK /\ OrderShape /\ oreq[r] \in OrderRequest /\ o \in OrderIds
  BY DEF IInv, TypeOK, OrdersTypeOK, OrderShape
<1>2. CASE FoundUnfinished(o, oreq[r].organisation)
  <2>1. oreq' = [oreq EXCEPT ![r] = [@ EXCEPT !.pc = pc, !.row = orders[o],
                                              !.loaded = ItemsOf(o), !.bare = bare]]
    BY <1>2 DEF FindUnfinished
  <2>2. ItemsOf(o) \subseteq ItemIds /\ bare \subseteq ItemIds
    BY DEF ItemsOf
  <2>3. orders[o] \in OrderRow /\ orders[o] # Null /\ ~orders[o].isFinished
    BY <1>1, <1>2 DEF IInv, TypeOK, DatabaseTypeOK, FoundUnfinished, OrderFound
  <2> HIDE DEF bare, o
  <2>4. oreq'[r] = [oreq[r] EXCEPT !.pc = pc, !.row = orders[o],
                                   !.loaded = ItemsOf(o), !.bare = bare]
    BY <1>1, <2>1 DEF OrdersTypeOK
  <2>5. oreq'[r] \in OrderRequest
    BY <1>1, <2>2, <2>3, <2>4 DEF OrderRequest
  <2>6. OrdersTypeOK'
    BY <1>1, <2>1, <2>5 DEF OrdersTypeOK
  <2>7. /\ oreq'[r].cmd = oreq[r].cmd /\ oreq'[r].order = oreq[r].order
        /\ oreq'[r].row = orders[o]
    BY <1>1, <2>4 DEF OrderRequest
  <2>8. \A s \in OrderRequests : s # r => oreq'[s] = oreq[s]
    BY <1>1, <2>1 DEF OrdersTypeOK
  <2>9. OrderShape'
    BY <1>1, <2>3, <2>7, <2>8 DEF OrderShape, At
  <2> QED
    BY <2>6, <2>9
<1>3. CASE ~FoundUnfinished(o, oreq[r].organisation)
  <2>1. End(r, "rejected")
    BY <1>3 DEF FindUnfinished
  <2> QED
    BY <1>1, <2>1, EndKeepsOrderShape DEF EndPcs
<1> QED
  BY <1>2, <1>3

\* The update goes on with a row that was not finished when it was read.
LEMMA UpdateFindKeepsIInv ==
    ASSUME IInv, NEW r \in OrderRequests, UpdateFind(r), UNCHANGED <<preq, hreq, payconiqVars>>
    PROVE  IInv'
<1>1. OrdersTypeOK' /\ OrderShape'
  BY FindUnfinishedKeepsOrderShape DEF UpdateFind, At, OrderOpenPcs
<1> QED
  BY <1>1, OrderReadKeepsIInv DEF UpdateFind

\* The check of an update reads the tables only.
LEMMA UpdateCheckKeepsIInv ==
    ASSUME IInv, NEW r \in OrderRequests, UpdateCheck(r), UNCHANGED <<preq, hreq, payconiqVars>>
    PROVE  IInv'
<1>1. /\ OrdersTypeOK /\ OrderShape /\ oreq[r].pc # "idle"
      /\ oreq[r].row # Null
  BY DEF IInv, TypeOK, UpdateCheck, At, OrderShape
<1>2. End(r, "failed") \/ End(r, "rejected") \/ Goto(r, "saveOrder")
  BY DEF UpdateCheck
<1>3. OrdersTypeOK' /\ OrderShape'
  BY <1>1, <1>2, EndKeepsOrderShape, GotoKeepsOrderShape DEF EndPcs, OrderOpenPcs
<1> QED
  BY <1>3, OrderReadKeepsIInv DEF UpdateCheck

\* Saving a snapshot may bring an order back or take "finished" from it, but
\* never finishes or removes one.
LEMMA SaveLoadedOrderType ==
    ASSUME orders \in [OrderIds -> OrderRow \cup {Null}],
           items \in [ItemIds -> ItemRow \cup {Null}],
           NEW o \in OrderIds, NEW row \in OrderRow, NEW loaded, ~row.isFinished,
           SaveLoadedOrder(o, row, loaded)
    PROVE  /\ orders' \in [OrderIds -> OrderRow \cup {Null}]
           /\ items' \in [ItemIds -> ItemRow \cup {Null}]
           /\ \A q \in OrderIds :
                 /\ orders'[q] # Null /\ orders'[q].isFinished =>
                       orders[q] # Null /\ orders[q].isFinished
                 /\ orders[q] # Null => orders'[q] # Null
<1> DEFINE org == IF orders[o] = Null THEN Null ELSE orders[o].organisation
           saved == [row EXCEPT !.organisation = org]
<1>1. org \in Organisations \cup {Null}
  BY DEF OrderRow
<1>2. orders' = [orders EXCEPT ![o] = saved]
  BY DEF SaveLoadedOrder
<1> HIDE DEF org
<1>3. saved \in OrderRow /\ ~saved.isFinished
  BY <1>1 DEF OrderRow
<1>4. saved # Null
  BY <1>3, NullAssumption
<1> HIDE DEF saved
<1>5. orders' \in [OrderIds -> OrderRow \cup {Null}]
  BY <1>2, <1>3
<1>6. \A q \in OrderIds :
         /\ orders'[q] # Null /\ orders'[q].isFinished => orders[q] # Null /\ orders[q].isFinished
         /\ orders[q] # Null => orders'[q] # Null
  BY <1>2, <1>3, <1>4
<1>7. items' \in [ItemIds -> ItemRow \cup {Null}]
  <2>1. \A i \in ItemIds : items[i] # Null =>
           /\ [items[i] EXCEPT !.order = o] \in ItemRow
           /\ [items[i] EXCEPT !.order = Null] \in ItemRow
    BY DEF ItemRow
  <2> QED
    BY <2>1 DEF SaveLoadedOrder
<1> QED
  BY <1>5, <1>6, <1>7

\* The saved row is the loaded one, which was not finished: this is where an
\* order may lose its isFinished, and never gains it.
LEMMA UpdateSaveOrderKeepsIInv ==
    ASSUME IInv, NEW r \in OrderRequests, UpdateSaveOrder(r), UNCHANGED <<preq, hreq, payconiqVars>>
    PROVE  IInv'
<1> DEFINE total == TotalPrice(oreq[r].lines)
           name == IF oreq[r].clientName # Null THEN oreq[r].clientName
                   ELSE oreq[r].row.clientName
           row == [oreq[r].row EXCEPT !.clientName = name, !.totalPrice = total]
<1>1. /\ OrdersTypeOK /\ OrderShape /\ oreq[r] \in OrderRequest /\ oreq[r].pc # "idle"
      /\ oreq[r].order \in OrderIds /\ oreq[r].row # Null /\ ~oreq[r].row.isFinished
  BY DEF IInv, TypeOK, OrdersTypeOK, UpdateSaveOrder, At, OrderShape
<1>2. orders \in [OrderIds -> OrderRow \cup {Null}] /\ items \in [ItemIds -> ItemRow \cup {Null}]
  BY DEF IInv, TypeOK, DatabaseTypeOK
<1>3. UNCHANGED <<payments, preq, hreq, payconiq, callbacks>>
  BY DEF UpdateSaveOrder, payconiqVars
<1>4. CASE Storable(total)
  <2>1. SaveLoadedOrder(oreq[r].order, row, oreq[r].loaded) /\ Goto(r, "deleteItems")
    BY <1>4 DEF UpdateSaveOrder
  <2>2. OrdersTypeOK' /\ OrderShape'
    BY <1>1, <2>1, GotoKeepsOrderShape DEF OrderOpenPcs
  <2>3. oreq[r].row \in OrderRow /\ name \in ClientNames \cup {Null}
    BY <1>1 DEF OrderRequest, OrderRow
  <2>4. total \in 0 .. MaxInt
    BY <1>4 DEF Storable
  <2> HIDE DEF total, name
  <2>5. row \in OrderRow /\ ~row.isFinished
    BY <1>1, <2>3, <2>4 DEF OrderRow
  <2> HIDE DEF row
  <2> QED
    BY <1>1, <1>2, <1>3, <2>1, <2>2, <2>5, SaveLoadedOrderType, OrderStepKeepsIInv
<1>5. CASE ~Storable(total)
  <2>1. End(r, "failed") /\ UNCHANGED <<orders, items>>
    BY <1>5 DEF UpdateSaveOrder
  <2>2. OrdersTypeOK' /\ OrderShape'
    BY <1>1, <2>1, EndKeepsOrderShape DEF EndPcs
  <2> QED
    BY <1>3, <2>1, <2>2, OrderReadKeepsIInv DEF database, payconiqVars
<1> QED
  BY <1>4, <1>5

\* A step that only writes items owes the types of the items.
LEMMA ItemsStepKeepsIInv ==
    ASSUME IInv, OrdersTypeOK', OrderShape',
           UNCHANGED <<orders, payments>>, UNCHANGED <<preq, hreq, payconiqVars>>,
           items' \in [ItemIds -> ItemRow \cup {Null}]
    PROVE  IInv'
<1>1. UNCHANGED <<orders, payments, preq, hreq, payconiq, callbacks>>
  BY DEF payconiqVars
<1>2. orders \in [OrderIds -> OrderRow \cup {Null}]
  BY DEF IInv, TypeOK, DatabaseTypeOK
<1> QED
  BY <1>1, <1>2, OrderStepKeepsIInv

\* Deleting items leaves rows or Null.
LEMMA DeleteItemsType ==
    ASSUME items \in [ItemIds -> ItemRow \cup {Null}], NEW ids, DeleteItems(ids)
    PROVE  items' \in [ItemIds -> ItemRow \cup {Null}]
BY DEF DeleteItems

\* An update deletes items and no order.
LEMMA UpdateDeleteItemsKeepsIInv ==
    ASSUME IInv, NEW r \in OrderRequests, UpdateDeleteItems(r),
           UNCHANGED <<preq, hreq, payconiqVars>>
    PROVE  IInv'
<1>1. OrdersTypeOK /\ OrderShape /\ oreq[r].pc # "idle"
  BY DEF IInv, TypeOK, UpdateDeleteItems, At
<1>2. OrdersTypeOK' /\ OrderShape'
  BY <1>1, GotoKeepsOrderShape DEF OrderOpenPcs, UpdateDeleteItems
<1>3. items' \in [ItemIds -> ItemRow \cup {Null}]
  BY DeleteItemsType DEF IInv, TypeOK, DatabaseTypeOK, UpdateDeleteItems
<1> QED
  BY <1>2, <1>3, ItemsStepKeepsIInv DEF UpdateDeleteItems

\* An update inserts items of the types of its lines, or fails.
LEMMA UpdateCreateItemsKeepsIInv ==
    ASSUME IInv, NEW r \in OrderRequests, UpdateCreateItems(r),
           UNCHANGED <<preq, hreq, payconiqVars>>
    PROVE  IInv'
<1> DEFINE stocked == {i[2] : i \in oreq[r].loaded \ oreq[r].bare}
           new == {l \in oreq[r].lines : l.product \notin stocked}
<1>1. /\ OrdersTypeOK /\ OrderShape /\ oreq[r] \in OrderRequest /\ oreq[r].pc # "idle"
      /\ oreq[r].order \in OrderIds
  BY DEF IInv, TypeOK, OrdersTypeOK, OrderShape, UpdateCreateItems, At
<1>2. items \in [ItemIds -> ItemRow \cup {Null}]
  BY DEF IInv, TypeOK, DatabaseTypeOK
<1>3. \/ End(r, "failed") /\ UNCHANGED items
      \/ InsertItems(r, oreq[r].order, new) /\ Goto(r, "findItems")
  BY DEF UpdateCreateItems
<1>4. OrdersTypeOK' /\ OrderShape'
  BY <1>1, <1>3, EndKeepsOrderShape, GotoKeepsOrderShape DEF EndPcs, OrderOpenPcs
<1>5. new \in SUBSET Line
  BY <1>1 DEF OrderRequest
<1> HIDE DEF new
<1>6. items' \in [ItemIds -> ItemRow \cup {Null}]
  BY <1>1, <1>2, <1>3, <1>5, InsertItemsType
<1> QED
  BY <1>4, <1>6, ItemsStepKeepsIInv DEF UpdateCreateItems

\* Reading the named items changes the record of the request only.
LEMMA UpdateFindItemsKeepsIInv ==
    ASSUME IInv, NEW r \in OrderRequests, UpdateFindItems(r),
           UNCHANGED <<preq, hreq, payconiqVars>>
    PROVE  IInv'
<1> DEFINE found == {i \in ItemIds : items[i] # Null /\ \E l \in oreq[r].lines : l.item = i}
<1>1. /\ OrdersTypeOK /\ OrderShape /\ oreq[r] \in OrderRequest /\ oreq[r].pc = "findItems"
  BY DEF IInv, TypeOK, OrdersTypeOK, UpdateFindItems, At
<1>2. oreq' = [oreq EXCEPT ![r] = [@ EXCEPT !.pc = "updateItems", !.bare = {}, !.loaded = found]]
  BY DEF UpdateFindItems
<1>3. found \subseteq ItemIds
  OBVIOUS
<1> HIDE DEF found
<1>4. oreq'[r] = [oreq[r] EXCEPT !.pc = "updateItems", !.bare = {}, !.loaded = found]
  BY <1>1, <1>2 DEF OrdersTypeOK
<1>5. oreq'[r] \in OrderRequest
  BY <1>1, <1>3, <1>4 DEF OrderRequest, OrderOpenPcs
<1>6. OrdersTypeOK'
  BY <1>1, <1>2, <1>5 DEF OrdersTypeOK
<1>7. /\ oreq'[r].cmd = oreq[r].cmd /\ oreq'[r].order = oreq[r].order
      /\ oreq'[r].row = oreq[r].row /\ oreq'[r].pc = "updateItems"
  BY <1>1, <1>4 DEF OrderRequest
<1>8. \A s \in OrderRequests : s # r => oreq'[s] = oreq[s]
  BY <1>1, <1>2 DEF OrdersTypeOK
<1>9. OrderShape'
  BY <1>1, <1>7, <1>8 DEF OrderShape, At
<1> QED
  BY <1>6, <1>9, OrderReadKeepsIInv DEF UpdateFindItems

\* Saved amounts come from the lines, also for an item that had gone.
LEMMA UpdateSaveItemsKeepsIInv ==
    ASSUME IInv, NEW r \in OrderRequests, UpdateSaveItems(r),
           UNCHANGED <<preq, hreq, payconiqVars>>
    PROVE  IInv'
<1>1. OrdersTypeOK /\ OrderShape /\ oreq[r] \in OrderRequest /\ oreq[r].pc # "idle"
  BY DEF IInv, TypeOK, OrdersTypeOK, UpdateSaveItems, At
<1>2. items \in [ItemIds -> ItemRow \cup {Null}]
  BY DEF IInv, TypeOK, DatabaseTypeOK
<1>3. OrdersTypeOK' /\ OrderShape'
  BY <1>1, GotoKeepsOrderShape DEF OrderOpenPcs, UpdateSaveItems
<1>4. PICK line \in [oreq[r].loaded -> oreq[r].lines] :
         SaveLoadedItems([i \in oreq[r].loaded |-> line[i].amount])
  BY DEF UpdateSaveItems
<1>5. \A i \in oreq[r].loaded : line[i].amount \in Nat \ {0}
  BY <1>1 DEF OrderRequest, Line
<1>6. items' = [i \in ItemIds |->
                  IF i \notin oreq[r].loaded THEN items[i]
                  ELSE IF items[i] # Null THEN [items[i] EXCEPT !.amount = line[i].amount]
                  ELSE [amount |-> line[i].amount, product |-> Null, order |-> Null]]
  BY <1>4 DEF SaveLoadedItems
<1>7. ASSUME NEW i \in ItemIds PROVE items'[i] \in ItemRow \cup {Null}
  <2>1. CASE i \notin oreq[r].loaded
    BY <1>2, <1>6, <2>1
  <2>2. CASE i \in oreq[r].loaded /\ items[i] # Null
    BY <1>2, <1>5, <1>6, <2>2 DEF ItemRow
  <2>3. CASE i \in oreq[r].loaded /\ items[i] = Null
    BY <1>5, <1>6, <2>3 DEF ItemRow
  <2> QED
    BY <2>1, <2>2, <2>3
<1>8. items' \in [ItemIds -> ItemRow \cup {Null}]
  BY <1>6, <1>7
<1> QED
  BY <1>3, <1>8, ItemsStepKeepsIInv DEF UpdateSaveItems

-----------------------------------------------------------------------------
(* DeleteOrderHandler, and failures.                                         *)

\* A deletion starts with a row that was not finished when it was read.
LEMMA DeleteFindKeepsIInv ==
    ASSUME IInv, NEW r \in OrderRequests, DeleteFind(r), UNCHANGED <<preq, hreq, payconiqVars>>
    PROVE  IInv'
<1>1. OrdersTypeOK' /\ OrderShape'
  BY FindUnfinishedKeepsOrderShape DEF DeleteFind, At, OrderOpenPcs
<1> QED
  BY <1>1, OrderReadKeepsIInv DEF DeleteFind

\* A deletion that has no items to delete fails.
LEMMA DeleteDeleteItemsKeepsIInv ==
    ASSUME IInv, NEW r \in OrderRequests, DeleteDeleteItems(r),
           UNCHANGED <<preq, hreq, payconiqVars>>
    PROVE  IInv'
<1>1. OrdersTypeOK /\ OrderShape /\ oreq[r].pc # "idle"
  BY DEF IInv, TypeOK, DeleteDeleteItems, At
<1>2. End(r, "failed") \/ Goto(r, "deleteOrder")
  BY DEF DeleteDeleteItems
<1>3. OrdersTypeOK' /\ OrderShape'
  BY <1>1, <1>2, EndKeepsOrderShape, GotoKeepsOrderShape DEF EndPcs, OrderOpenPcs
<1>4. items' \in [ItemIds -> ItemRow \cup {Null}]
  BY DeleteItemsType DEF IInv, TypeOK, DatabaseTypeOK, DeleteDeleteItems
<1> QED
  BY <1>3, <1>4, ItemsStepKeepsIInv DEF DeleteDeleteItems

\* The foreign key of payment keeps an order that has a payment.
LEMMA DeleteDeleteOrderKeepsIInv ==
    ASSUME IInv, NEW r \in OrderRequests, DeleteDeleteOrder(r),
           UNCHANGED <<preq, hreq, payconiqVars>>
    PROVE  IInv'
<1> DEFINE o == oreq[r].order
<1>1. OrdersTypeOK /\ OrderShape /\ oreq[r].pc # "idle" /\ o \in OrderIds
  BY DEF IInv, TypeOK, DeleteDeleteOrder, At, OrderShape
<1>2. orders \in [OrderIds -> OrderRow \cup {Null}] /\ items \in [ItemIds -> ItemRow \cup {Null}]
  BY DEF IInv, TypeOK, DatabaseTypeOK
<1>3. UNCHANGED <<items, payments, preq, hreq, payconiq, callbacks>>
  BY DEF DeleteDeleteOrder, payconiqVars
<1>4. OrdersTypeOK' /\ OrderShape'
  BY <1>1, EndKeepsOrderShape DEF EndPcs, DeleteDeleteOrder
<1>5. CASE Referenced(o)
  <2>1. UNCHANGED orders
    BY <1>5 DEF DeleteDeleteOrder
  <2> QED
    BY <1>3, <1>4, <2>1, OrderReadKeepsIInv DEF database, payconiqVars
<1>6. CASE ~Referenced(o)
  <2>1. orders' = [orders EXCEPT ![o] = Null] /\ PaymentsOf(o) = {}
    BY <1>6 DEF DeleteDeleteOrder, DeleteOrder, Referenced
  <2> HIDE DEF o
  <2>2. orders' \in [OrderIds -> OrderRow \cup {Null}]
    BY <1>2, <2>1
  <2>3. \A q \in OrderIds : /\ orders'[q] # Null /\ orders'[q].isFinished =>
                                  orders[q] # Null /\ orders[q].isFinished
                            /\ orders[q] # Null /\ orders'[q] = Null => PaymentsOf(q) = {}
    BY <1>1, <1>2, <2>1
  <2> QED
    BY <1>2, <1>3, <1>4, <2>2, <2>3, OrderStepKeepsIInv
<1> QED
  BY <1>5, <1>6

\* An orders handler may stop anywhere.
LEMMA OrderAbortKeepsIInv ==
    ASSUME IInv, NEW r \in OrderRequests, OrderAbort(r), UNCHANGED <<preq, hreq, payconiqVars>>
    PROVE  IInv'
<1>1. OrdersTypeOK /\ OrderShape /\ oreq[r].pc # "idle"
  BY DEF IInv, TypeOK, OrderAbort, OrderOpenPcs
<1>2. OrdersTypeOK' /\ OrderShape'
  BY <1>1, EndKeepsOrderShape DEF EndPcs, OrderAbort
<1> QED
  BY <1>2, OrderReadKeepsIInv DEF OrderAbort

-----------------------------------------------------------------------------
(* A new request of the orders API.                                          *)

\* A request that is made has an order and has read nothing yet.
LEMMA ReceiveKeepsIInv ==
    ASSUME IInv, NEW r \in OrderRequests, NEW request \in OrderRequest,
           request.cmd # "none", request.order \in OrderIds, request.row = Null,
           request.pc = "checkName" => request.cmd = "create",
           request.pc # "saveOrder",
           Receive(r, request), UNCHANGED <<preq, hreq, payconiqVars>>
    PROVE  IInv'
<1>1. OrdersTypeOK /\ OrderShape
  BY DEF IInv, TypeOK
<1>2. oreq' = [oreq EXCEPT ![r] = request]
  BY DEF Receive
<1>3. OrdersTypeOK'
  BY <1>1, <1>2 DEF OrdersTypeOK
<1>4. oreq'[r] = request /\ \A s \in OrderRequests : s # r => oreq'[s] = oreq[s]
  BY <1>1, <1>2 DEF OrdersTypeOK
<1>5. OrderShape'
  BY <1>1, <1>4 DEF OrderShape, At
<1> QED
  BY <1>3, <1>5, OrderReadKeepsIInv DEF Receive

\* What arrives is only noted: no row, and nothing at Payconiq, is written.
LEMMA ReceivesWriteNothing ==
    ASSUME Receives
    PROVE  UNCHANGED <<orders, items, payments, payconiq>>
<1>1. CASE OrdersReceive /\ UNCHANGED payconiqVars
  <2>1. ASSUME NEW r, NEW request, Receive(r, request)
        PROVE  UNCHANGED <<orders, items, payments>>
    BY <2>1 DEF Receive, database
  <2> QED
    BY <1>1, <2>1 DEF OrdersReceive, ReceiveCreate, ReceiveUpdate, ReceiveDelete, payconiqVars
<1>2. CASE PaymentsReceive
  <2>1. ASSUME NEW p, NEW request, PaymentReceive(p, request)
        PROVE  UNCHANGED <<orders, items, payments, payconiq>>
    BY <2>1 DEF PaymentReceive, database, payconiqVars
  <2> QED
    BY <1>2, <2>1 DEF PaymentsReceive
<1>3. CASE WebhooksReceive
  BY <1>3 DEF WebhooksReceive, WebhookReceive, database, payconiqVars
<1> QED
  BY <1>1, <1>2, <1>3 DEF Receives

\* An update is sent its cart, with an item id or none for each of its lines.
LEMMA LinesForShape ==
    ASSUME NEW o, NEW cart, NEW lines \in LinesFor(o, cart)
    PROVE  \E id :
             /\ lines = {[product |-> c.product, amount |-> c.amount, item |-> id[c]] : c \in cart}
             /\ \A c \in cart : id[c] \in ItemIdChoices(o, c.product)
BY DEF LinesFor

LEMMA LinesForChoices ==
    ASSUME NEW o, NEW cart, NEW lines \in LinesFor(o, cart), NEW l \in lines
    PROVE  \E c \in cart : \E i \in ItemIdChoices(o, c.product) :
             l = [product |-> c.product, amount |-> c.amount, item |-> i]
BY LinesForShape

\* Creations, updates and deletions start in the right shape.
LEMMA OrdersReceiveKeepsIInv ==
    ASSUME IInv, OrdersReceive, UNCHANGED <<preq, hreq, payconiqVars>>
    PROVE  IInv'
<1>1. PICK r \in OrderRequests, org \in Organisations :
         \/ \E name \in ClientNames \cup {Null}, cart \in Carts :
               ReceiveCreate(r, org, name, cart)
         \/ \E o \in Known, name \in ClientNames \cup {Null}, cart \in Carts :
               \E lines \in LinesFor(o, cart) : ReceiveUpdate(r, o, org, name, lines)
         \/ \E o \in Known : ReceiveDelete(r, o, org)
  BY DEF OrdersReceive
<1>2. Known \subseteq OrderIds /\ r \in OrderIds
  BY DEF Known, OrderIds
<1>3. CASE \E name \in ClientNames \cup {Null}, cart \in Carts : ReceiveCreate(r, org, name, cart)
  <2>1. PICK name \in ClientNames \cup {Null}, cart \in Carts : ReceiveCreate(r, org, name, cart)
    BY <1>3
  <2> DEFINE lines == {[product |-> c.product, amount |-> c.amount, item |-> Null] : c \in cart}
             request == [NoOrderRequest EXCEPT
                 !.cmd = "create", !.pc = "checkName", !.organisation = org,
                 !.order = r, !.clientName = name, !.lines = lines]
  <2>2. lines \subseteq Line
    BY OrdersAssumption DEF Line
  <2>3. Receive(r, request)
    BY <2>1 DEF ReceiveCreate
  <2> HIDE DEF lines
  <2>4. /\ request \in OrderRequest /\ request.cmd = "create" /\ request.order = r
        /\ request.row = Null /\ request.pc = "checkName"
    BY <1>2, <2>2 DEF OrderRequest, NoOrderRequest, OrderOpenPcs
  <2> HIDE DEF request
  <2> QED
    BY <1>2, <2>3, <2>4, ReceiveKeepsIInv
<1>4. CASE \E o \in Known, name \in ClientNames \cup {Null}, cart \in Carts :
              \E lines \in LinesFor(o, cart) : ReceiveUpdate(r, o, org, name, lines)
  <2>1. PICK o \in Known, name \in ClientNames \cup {Null}, cart \in Carts :
              \E lines \in LinesFor(o, cart) : ReceiveUpdate(r, o, org, name, lines)
    BY <1>4
  <2>2. PICK lines \in LinesFor(o, cart) : ReceiveUpdate(r, o, org, name, lines)
    BY <2>1
  <2>3. \A p \in Products : ItemIdChoices(o, p) \subseteq ItemIds \cup {Null}
    BY DEF ItemIdChoices, SeenItems, ItemsOf
  <2>4. lines \subseteq Line
    <3>1. \A c \in cart : c.product \in Products /\ c.amount \in Nat \ {0}
      BY OrdersAssumption
    <3> QED
      BY <2>3, <3>1, LinesForChoices DEF Line
  <2> DEFINE request == [NoOrderRequest EXCEPT
                 !.cmd = "update", !.pc = "find", !.organisation = org,
                 !.order = o, !.clientName = name, !.lines = lines]
  <2>5. Receive(r, request)
    BY <2>2 DEF ReceiveUpdate
  <2>6. /\ request \in OrderRequest /\ request.cmd = "update" /\ request.order = o
        /\ request.row = Null /\ request.pc = "find"
    BY <1>2, <2>4 DEF OrderRequest, NoOrderRequest, OrderOpenPcs
  <2> HIDE DEF request
  <2> QED
    BY <1>2, <2>5, <2>6, ReceiveKeepsIInv
<1>5. CASE \E o \in Known : ReceiveDelete(r, o, org)
  <2>1. PICK o \in Known : ReceiveDelete(r, o, org)
    BY <1>5
  <2> DEFINE request == [NoOrderRequest EXCEPT
                 !.cmd = "delete", !.pc = "find", !.organisation = org, !.order = o]
  <2>2. Receive(r, request)
    BY <2>1 DEF ReceiveDelete
  <2>3. /\ request \in OrderRequest /\ request.cmd = "delete" /\ request.order = o
        /\ request.row = Null /\ request.pc = "find"
    BY <1>2 DEF OrderRequest, NoOrderRequest, OrderOpenPcs
  <2> HIDE DEF request
  <2> QED
    BY <1>2, <2>2, <2>3, ReceiveKeepsIInv
<1> QED
  BY <1>1, <1>3, <1>4, <1>5

-----------------------------------------------------------------------------
(* Payconiq, and the payments and webhook handlers.                          *)

\* A payment that is settled at Payconiq stays so, and the callbacks that
\* are announced are true.
LEMMA PayconiqMoveKeepsIInv ==
    ASSUME IInv, NEW p \in PaymentIds, NEW status \in PayconiqStatuses,
           PayconiqMove(p, status), UNCHANGED <<database, oreq, preq, hreq>>
    PROVE  IInv'
<1>1. UNCHANGED <<orders, items, payments, oreq, preq, hreq>>
  BY DEF database
<1>2. payconiq \in [PaymentIds -> PayconiqRow \cup {Null}] /\ payconiq[p] # Null
  BY DEF IInv, TypeOK, PayconiqTypeOK, PayconiqMove, Unsettled
<1>3. payconiq' = [payconiq EXCEPT ![p] = [@ EXCEPT !.status = status]]
  BY DEF PayconiqMove
<1>4. payconiq[p] \in PayconiqRow /\ payconiq'[p] \in PayconiqRow /\ payconiq'[p].status = status
  BY <1>2, <1>3 DEF PayconiqRow
<1>5. payconiq' \in [PaymentIds -> PayconiqRow \cup {Null}]
  BY <1>2, <1>3, <1>4
<1>6. payconiq'[p] # Null
  BY <1>4, PayconiqAssumption
<1>7. payconiq[p].status # "SUCCEEDED"
  BY DEF PayconiqMove, Unsettled, PaymentStatusFrom
<1>8. \A q \in PaymentIds : PaidAtPayconiq(q) => PaidAtPayconiq(q)'
  BY <1>2, <1>3, <1>7 DEF PaidAtPayconiq
<1>9. \A q \in PaymentIds : payconiq[q] = Null <=> payconiq'[q] = Null
  BY <1>2, <1>3, <1>6
<1>10. PayconiqTypeOK'
  BY <1>5 DEF IInv, TypeOK, PayconiqTypeOK, PayconiqMove, Announce, Callback, References
<1>11. TypeOK'
  BY <1>1, <1>10 DEF IInv, TypeOK, DatabaseTypeOK, OrdersTypeOK, PaymentsTypeOK, WebhooksTypeOK
<1>12. OrderShape'
  BY <1>1 DEF IInv, OrderShape, At
<1>13. PaymentShape'
  BY <1>1, <1>9 DEF IInv, PaymentShape, PaymentShapeOf, PaymentAt, PaymentsOf, PaymentIds
<1>14. WebhookShape'
  <2>1. \A c \in Callback : Truthful(c) => Truthful(c)'
    BY <1>8 DEF Truthful, Callback, References, ReferenceFromInternalPaymentId,
                InternalPaymentIdFromReference
  <2>2. ASSUME NEW c \in callbacks' PROVE Truthful(c)'
    <3>1. CASE c \in callbacks
      BY <2>1, <3>1 DEF IInv, TypeOK, PayconiqTypeOK, WebhookShape
    <3>2. CASE c = [reference |-> ReferenceFromInternalPaymentId(p), status |-> status]
      BY <1>4, <1>6, <3>2 DEF Truthful, PaidAtPayconiq, ReferenceFromInternalPaymentId,
                              InternalPaymentIdFromReference
    <3> QED
      BY <3>1, <3>2 DEF PayconiqMove, Announce
  <2>3. \A d \in Deliveries : hreq'[d] = hreq[d] /\ PaymentsOf(hreq[d].order)' = PaymentsOf(hreq[d].order)
    BY <1>1 DEF PaymentsOf
  <2>4. \A d \in Deliveries : hreq[d].pc # "idle" =>
            hreq[d].callback \in Callback /\ Truthful(hreq[d].callback)'
    BY <2>1 DEF IInv, WebhookShape
  <2>5. \A d \in Deliveries : DeliveredPayment(d)' = DeliveredPayment(d)
    BY <1>1 DEF DeliveredPayment
  <2> QED
    BY <1>1, <2>2, <2>3, <2>4, <2>5 DEF IInv, WebhookShape
<1>15. FinishedIsPaid'
  BY <1>1, <1>8 DEF IInv, FinishedIsPaid, PaymentsOf
<1>16. PaymentHasOrder'
  BY <1>1 DEF IInv, PaymentHasOrder
<1> QED
  BY <1>11, <1>12, <1>13, <1>14, <1>15, <1>16 DEF IInv

-----------------------------------------------------------------------------
(* What a step of a payments or webhook handler owes the invariant.          *)

\* No payment row goes, or changes what it is a payment of.
PaymentsPersist ==
    \A q \in PaymentIds : payments[q] # Null =>
        /\ payments'[q] # Null
        /\ payments'[q].order = payments[q].order
        /\ payments'[q].type = payments[q].type

PaidPersists == \A q \in PaymentIds : PaidAtPayconiq(q) => PaidAtPayconiq(q)'

\* Orders are only changed by finishing one that has been paid.
OrdersOnlyFinish ==
    \A o \in OrderIds :
        /\ orders[o] # Null => orders'[o] # Null
        /\ orders'[o] # Null /\ orders'[o].isFinished =>
              \/ orders[o] # Null /\ orders[o].isFinished
              \/ \E q \in PaymentsOf(o) : payments[q].type \in {"CASH", "FREE"} \/ PaidAtPayconiq(q)

\* A payment stays with its order and keeps its type.
LEMMA PaymentsOfPersist ==
    ASSUME PaymentsPersist, NEW o, NEW q \in PaymentsOf(o)
    PROVE  q \in PaymentsOf(o)' /\ payments'[q].type = payments[q].type
BY DEF PaymentsPersist, PaymentsOf

\* What a payments or webhook handler, or Payconiq, owes the invariant beyond
\* the shapes: payments persist, settled ones stay settled, orders are only
\* finished when they have been paid, and new payments have an order.
LEMMA PaymentStepKeepsIInv ==
    ASSUME IInv, UNCHANGED oreq,
           DatabaseTypeOK', PaymentsTypeOK', WebhooksTypeOK', PayconiqTypeOK',
           PaymentShape', WebhookShape',
           PaymentsPersist, PaidPersists, OrdersOnlyFinish,
           \A q \in PaymentIds : payments[q] = Null /\ payments'[q] # Null =>
               orders[payments'[q].order] # Null
    PROVE  IInv'
<1>1. TypeOK'
  BY DEF IInv, TypeOK, OrdersTypeOK
<1>2. OrderShape'
  BY DEF IInv, OrderShape, At
<1>3. FinishedIsPaid'
  <2> SUFFICES ASSUME NEW o \in OrderIds, orders'[o] # Null, orders'[o].isFinished
               PROVE  \E q \in PaymentsOf(o)' :
                         payments'[q].type \in {"CASH", "FREE"} \/ PaidAtPayconiq(q)'
    BY DEF FinishedIsPaid
  <2>1. PICK q \in PaymentsOf(o) : payments[q].type \in {"CASH", "FREE"} \/ PaidAtPayconiq(q)
    BY DEF IInv, FinishedIsPaid, OrdersOnlyFinish
  <2>2. q \in PaymentsOf(o)' /\ payments'[q].type = payments[q].type
    BY PaymentsOfPersist
  <2>3. PaidAtPayconiq(q) => PaidAtPayconiq(q)'
    BY DEF PaidPersists, PaymentsOf
  <2> QED
    BY <2>1, <2>2, <2>3
<1>4. PaymentHasOrder'
  <2> SUFFICES ASSUME NEW q \in PaymentIds, payments'[q] # Null
               PROVE  orders'[payments'[q].order] # Null
    BY DEF PaymentHasOrder
  <2>1. payments'[q].order \in OrderIds
    BY DEF DatabaseTypeOK, PaymentRow
  <2>2. orders[payments'[q].order] # Null
    BY DEF IInv, PaymentHasOrder, PaymentsPersist
  <2> QED
    BY <2>1, <2>2 DEF OrdersOnlyFinish
<1> QED
  BY <1>1, <1>2, <1>3, <1>4 DEF IInv

\* Deliveries do not notice what the other handlers do.
LEMMA WebhookShapeKept ==
    ASSUME IInv, UNCHANGED hreq, \A c \in callbacks' : Truthful(c)',
           PaymentsPersist, PaidPersists
    PROVE  WebhookShape'
<1>1. \A c \in Callback : Truthful(c) => Truthful(c)'
  BY DEF PaidPersists, Truthful, Callback, References, ReferenceFromInternalPaymentId,
         InternalPaymentIdFromReference
<1>2. \A d \in Deliveries : hreq'[d] = hreq[d] /\ DeliveredPayment(d)' = DeliveredPayment(d)
  BY DEF DeliveredPayment
<1>3. \A d \in Deliveries : DeliveredPayment(d) \in PaymentsOf(hreq[d].order) =>
                               DeliveredPayment(d) \in PaymentsOf(hreq[d].order)'
  BY PaymentsOfPersist, <1>2
<1>4. \A d \in Deliveries : hreq[d].pc # "idle" =>
          hreq[d].callback \in Callback /\ Truthful(hreq[d].callback)'
  BY <1>1 DEF IInv, WebhookShape
<1> QED
  BY <1>2, <1>3, <1>4 DEF IInv, WebhookShape

\* Another request of the payments API.
LEMMA OtherPaymentShapeKept ==
    ASSUME IInv, NEW s \in PaymentRequests, preq'[s] = preq[s], PaymentsPersist,
           payments[s] = Null => payments'[s] = Null,
           payconiq[s] = Null => payconiq'[s] = Null
    PROVE  PaymentShapeOf(s)'
<1>1. PaymentShapeOf(s)
  BY DEF IInv, PaymentShape
<1>2. preq[s].pc = "finishOrder" =>
         s \in PaymentsOf(preq[s].order)' /\ payments'[s].type \in {"CASH", "FREE"}
  BY <1>1, PaymentsOfPersist DEF PaymentShapeOf
<1>3. PaymentAt(s, {"CANCEL"}, "callPayconiq") \/ PaymentAt(s, {"CANCEL"}, "updatePayment")
         => payments'[preq[s].payment] # Null
  BY <1>1 DEF PaymentShapeOf, PaymentAt, PaymentsPersist
<1> QED
  BY <1>1, <1>2, <1>3 DEF PaymentShapeOf, PaymentAt

\* A payments handler that ends.
LEMMA PaymentEndKeepsShape ==
    ASSUME IInv, NEW p \in PaymentRequests, NEW outcome \in EndPcs, preq[p].pc # "idle",
           PaymentEnd(p, outcome), PaymentsPersist,
           \A s \in PaymentRequests : payments[s] = Null => payments'[s] = Null,
           \A s \in PaymentRequests : s # p \/ preq[p].cmd # "PAYCONIQ" =>
               (payconiq[s] = Null => payconiq'[s] = Null)
    PROVE  PaymentsTypeOK' /\ PaymentShape'
<1>1. preq \in [PaymentRequests -> PaymentRequest] /\ preq[p] \in PaymentRequest /\ PaymentShapeOf(p)
  BY DEF IInv, TypeOK, PaymentsTypeOK, PaymentShape
<1>2. preq'[p] = [preq[p] EXCEPT !.pc = outcome, !.total = Null, !.data = Null]
  BY <1>1 DEF PaymentEnd
<1>3. preq'[p] \in PaymentRequest
  BY <1>1, <1>2 DEF PaymentRequest
<1>4. PaymentsTypeOK'
  BY <1>1, <1>3 DEF PaymentsTypeOK, PaymentEnd
<1>5. /\ preq'[p].cmd = preq[p].cmd /\ preq'[p].pc = outcome
      /\ preq'[p].organisation = preq[p].organisation
      /\ preq'[p].order = preq[p].order /\ preq'[p].payment = preq[p].payment
  BY <1>1, <1>2 DEF PaymentRequest
<1>6. PaymentShapeOf(p)'
  BY <1>1, <1>5 DEF PaymentShapeOf, PaymentAt, EndPcs
<1>7. \A s \in PaymentRequests : s # p => preq'[s] = preq[s]
  BY <1>1 DEF PaymentEnd
<1>8. \A s \in PaymentRequests : s # p => PaymentShapeOf(s)'
  BY <1>7, OtherPaymentShapeKept
<1> QED
  BY <1>4, <1>6, <1>8 DEF PaymentShape

\* A step that leaves the payments alone keeps them.
LEMMA PaymentsUnchangedPersist ==
    ASSUME UNCHANGED payments
    PROVE  PaymentsPersist /\ \A s \in PaymentRequests : payments[s] = Null => payments'[s] = Null
BY DEF PaymentsPersist

\* A step that leaves the orders alone finishes none.
LEMMA OrdersUnchangedOnlyFinish ==
    ASSUME UNCHANGED orders
    PROVE  OrdersOnlyFinish
BY DEF OrdersOnlyFinish

\* A step that leaves Payconiq alone unsettles no payment.
LEMMA PayconiqUnchanged ==
    ASSUME IInv, UNCHANGED payconiqVars
    PROVE  PayconiqTypeOK' /\ PaidPersists /\ UNCHANGED payconiq
           /\ \A c \in callbacks' : Truthful(c)'
<1>1. UNCHANGED <<payconiq, callbacks>>
  BY DEF payconiqVars
<1>2. PaidPersists
  BY <1>1 DEF PaidPersists, PaidAtPayconiq
<1>3. \A c \in callbacks' : Truthful(c)'
  BY <1>1 DEF IInv, WebhookShape, Truthful, PaidAtPayconiq
<1> QED
  BY <1>1, <1>2, <1>3 DEF IInv, TypeOK, PayconiqTypeOK

\* A payments handler that reads, or ends, and writes no table.
LEMMA PaymentReadKeepsIInv ==
    ASSUME IInv, PaymentsTypeOK', PaymentShape',
           UNCHANGED <<database, payconiqVars>>, UNCHANGED <<oreq, hreq>>
    PROVE  IInv'
<1>1. UNCHANGED <<orders, items, payments>> /\ UNCHANGED payconiqVars
  BY DEF database
<1>2. DatabaseTypeOK' /\ WebhooksTypeOK'
  BY <1>1 DEF IInv, TypeOK, DatabaseTypeOK, WebhooksTypeOK
<1>3. WebhookShape'
  BY <1>1, PaymentsUnchangedPersist, PayconiqUnchanged, WebhookShapeKept
<1> QED
  BY <1>1, <1>2, <1>3, PaymentsUnchangedPersist, OrdersUnchangedOnlyFinish,
     PayconiqUnchanged, PaymentStepKeepsIInv

\* A payments handler that ends and writes no table.
LEMMA PaymentEndKeepsIInv ==
    ASSUME IInv, NEW p \in PaymentRequests, NEW outcome \in EndPcs, preq[p].pc # "idle",
           PaymentEnd(p, outcome),
           UNCHANGED <<database, payconiqVars>>, UNCHANGED <<oreq, hreq>>
    PROVE  IInv'
<1>1. UNCHANGED payments /\ UNCHANGED payconiqVars
  BY DEF database
<1>2. PaymentsTypeOK' /\ PaymentShape'
  BY <1>1, PaymentsUnchangedPersist, PayconiqUnchanged, PaymentEndKeepsShape
<1> QED
  BY <1>2, PaymentReadKeepsIInv

\* A payments request that is made has what its first call needs.
LEMMA PaymentReceiveKeepsIInv ==
    ASSUME IInv, NEW p \in PaymentRequests, NEW request \in PaymentRequest,
           request.pc = "find", request.organisation \in Organisations,
           request.cmd \in PaymentTypes => request.order \in OrderIds,
           request.cmd = "CANCEL" => request.payment \in PaymentIds,
           PaymentReceive(p, request), UNCHANGED <<oreq, hreq>>
    PROVE  IInv'
<1>1. /\ preq \in [PaymentRequests -> PaymentRequest] /\ PaymentShapeOf(p)
      /\ preq[p].pc = "idle"
  BY DEF IInv, TypeOK, PaymentsTypeOK, PaymentShape, PaymentReceive
<1>2. preq' = [preq EXCEPT ![p] = request] /\ UNCHANGED payments /\ UNCHANGED payconiq
  BY DEF PaymentReceive, database, payconiqVars
<1>3. PaymentsTypeOK'
  BY <1>1, <1>2 DEF PaymentsTypeOK
<1>4. preq'[p] = request /\ \A s \in PaymentRequests : s # p => preq'[s] = preq[s]
  BY <1>1, <1>2
<1>5. payments[p] = Null /\ payconiq[p] = Null
  BY <1>1 DEF PaymentShapeOf
<1>6. PaymentShapeOf(p)'
  BY <1>2, <1>4, <1>5 DEF PaymentShapeOf, PaymentAt
<1>7. \A s \in PaymentRequests : s # p => PaymentShapeOf(s)'
  BY <1>2, <1>4, PaymentsUnchangedPersist, OtherPaymentShapeKept
<1>8. PaymentShape'
  BY <1>6, <1>7 DEF PaymentShape
<1> QED
  BY <1>3, <1>8, PaymentReadKeepsIInv DEF PaymentReceive

\* New payments and cancellations start in the right shape.
LEMMA PaymentsReceiveKeepsIInv ==
    ASSUME IInv, PaymentsReceive, UNCHANGED <<oreq, hreq>>
    PROVE  IInv'
<1>1. PICK p \in PaymentRequests, org \in Organisations :
         \/ \E cmd \in PaymentTypes, o \in Known :
               PaymentReceive(p, [NoPaymentRequest EXCEPT
                   !.cmd = cmd, !.pc = "find", !.organisation = org, !.order = o])
         \/ \E q \in KnownPayments :
               PaymentReceive(p, [NoPaymentRequest EXCEPT
                   !.cmd = "CANCEL", !.pc = "find", !.organisation = org, !.payment = q])
  BY DEF PaymentsReceive
<1>2. CASE \E cmd \in PaymentTypes, o \in Known :
               PaymentReceive(p, [NoPaymentRequest EXCEPT
                   !.cmd = cmd, !.pc = "find", !.organisation = org, !.order = o])
  <2>1. PICK cmd \in PaymentTypes, o \in Known :
               PaymentReceive(p, [NoPaymentRequest EXCEPT
                   !.cmd = cmd, !.pc = "find", !.organisation = org, !.order = o])
    BY <1>2
  <2> DEFINE request == [NoPaymentRequest EXCEPT
                   !.cmd = cmd, !.pc = "find", !.organisation = org, !.order = o]
  <2>2. o \in OrderIds
    BY DEF Known, OrderIds
  <2>3. /\ request \in PaymentRequest /\ request.pc = "find" /\ request.cmd = cmd
        /\ request.organisation = org /\ request.order = o
    BY <2>2 DEF PaymentRequest, NoPaymentRequest, PaymentOpenPcs
  <2>4. PaymentReceive(p, request)
    BY <2>1
  <2> HIDE DEF request
  <2> QED
    BY <2>2, <2>3, <2>4, PaymentReceiveKeepsIInv DEF PaymentTypes
<1>3. CASE \E q \in KnownPayments :
               PaymentReceive(p, [NoPaymentRequest EXCEPT
                   !.cmd = "CANCEL", !.pc = "find", !.organisation = org, !.payment = q])
  <2>1. PICK q \in KnownPayments :
               PaymentReceive(p, [NoPaymentRequest EXCEPT
                   !.cmd = "CANCEL", !.pc = "find", !.organisation = org, !.payment = q])
    BY <1>3
  <2> DEFINE request == [NoPaymentRequest EXCEPT
                   !.cmd = "CANCEL", !.pc = "find", !.organisation = org, !.payment = q]
  <2>2. q \in PaymentIds
    BY DEF KnownPayments, PaymentIds
  <2>3. /\ request \in PaymentRequest /\ request.pc = "find" /\ request.cmd = "CANCEL"
        /\ request.organisation = org /\ request.payment = q
    BY <2>2 DEF PaymentRequest, NoPaymentRequest, PaymentOpenPcs
  <2>4. PaymentReceive(p, request)
    BY <2>1
  <2> HIDE DEF request
  <2> QED
    BY <2>2, <2>3, <2>4, PaymentReceiveKeepsIInv DEF PaymentTypes
<1> QED
  BY <1>1, <1>2, <1>3

-----------------------------------------------------------------------------
(* CreatePaymentHandler and CreatePayconiqPaymentHandler.                    *)

\* A payment goes on with the total of an order, whichever it has read.
LEMMA PaymentGoesOnKeepsIInv ==
    ASSUME IInv, NEW p \in PaymentRequests, NEW total \in 0 .. MaxInt,
           PaymentAt(p, PaymentTypes, "find"),
           preq' = [preq EXCEPT ![p] = [@ EXCEPT !.pc = FirstCall(preq[p].cmd), !.total = total]],
           UNCHANGED <<database, payconiqVars>>, UNCHANGED <<oreq, hreq>>
    PROVE  IInv'
<1> DEFINE pc == FirstCall(preq[p].cmd)
<1>1. /\ preq \in [PaymentRequests -> PaymentRequest] /\ preq[p] \in PaymentRequest
      /\ PaymentShapeOf(p) /\ preq[p].pc = "find" /\ preq[p].cmd \in PaymentTypes
  BY DEF IInv, TypeOK, PaymentsTypeOK, PaymentShape, PaymentAt
<1>2. /\ pc \in PaymentOpenPcs
      /\ \/ pc = "callPayconiq" /\ preq[p].cmd = "PAYCONIQ"
         \/ pc = "savePayment" /\ preq[p].cmd # "PAYCONIQ"
  BY DEF FirstCall, PaymentOpenPcs
<1>3. payments[p] = Null /\ payconiq[p] = Null
  BY <1>1 DEF PaymentShapeOf
<1>4. preq' = [preq EXCEPT ![p] = [@ EXCEPT !.pc = pc, !.total = total]]
  OBVIOUS
<1> HIDE DEF pc
<1>5. preq'[p] = [preq[p] EXCEPT !.pc = pc, !.total = total]
  BY <1>1, <1>4
<1>6. preq'[p] \in PaymentRequest
  BY <1>1, <1>2, <1>5 DEF PaymentRequest
<1>7. PaymentsTypeOK'
  BY <1>1, <1>4, <1>6 DEF PaymentsTypeOK
<1>8. /\ preq'[p].cmd = preq[p].cmd /\ preq'[p].pc = pc /\ preq'[p].total = total
      /\ preq'[p].organisation = preq[p].organisation /\ preq'[p].order = preq[p].order
  BY <1>1, <1>5 DEF PaymentRequest
<1>9. total # Null
  BY NullAssumption
<1>10. PaymentShapeOf(p)'
  BY <1>1, <1>2, <1>3, <1>8, <1>9 DEF PaymentShapeOf, PaymentAt, PaymentTypes, database,
     payconiqVars
<1>11. \A s \in PaymentRequests : s # p => preq'[s] = preq[s]
  BY <1>1, <1>4
<1>12. \A s \in PaymentRequests : s # p => PaymentShapeOf(s)'
  BY <1>11, PaymentsUnchangedPersist, OtherPaymentShapeKept DEF database, payconiqVars
<1>13. PaymentShape'
  BY <1>10, <1>12 DEF PaymentShape
<1> QED
  BY <1>7, <1>13, PaymentReadKeepsIInv

LEMMA CreatePaymentFindKeepsIInv ==
    ASSUME IInv, NEW p \in PaymentRequests, CreatePaymentFind(p), UNCHANGED <<oreq, hreq>>
    PROVE  IInv'
<1> DEFINE o == preq[p].order
<1>1. /\ PaymentShapeOf(p) /\ preq[p].pc = "find" /\ preq[p].cmd \in PaymentTypes
      /\ PaymentAt(p, PaymentTypes, "find") /\ UNCHANGED <<database, payconiqVars>>
  BY DEF IInv, PaymentShape, CreatePaymentFind, PaymentAt
<1>2. CASE FoundUnfinished(o, preq[p].organisation)
  <2>1. preq' = [preq EXCEPT ![p] = [@ EXCEPT !.pc = FirstCall(preq[p].cmd),
                                              !.total = orders[o].totalPrice]]
    BY <1>2 DEF CreatePaymentFind
  <2>2. o \in OrderIds /\ orders[o] \in OrderRow
    BY <1>1, <1>2 DEF PaymentShapeOf, IInv, TypeOK, DatabaseTypeOK, FoundUnfinished, OrderFound
  <2>3. orders[o].totalPrice \in 0 .. MaxInt
    BY <2>2 DEF OrderRow
  <2> QED
    BY <1>1, <2>1, <2>3, PaymentGoesOnKeepsIInv
<1>3. CASE ~FoundUnfinished(o, preq[p].organisation)
  <2>1. PaymentEnd(p, "rejected")
    BY <1>3 DEF CreatePaymentFind
  <2> QED
    BY <1>1, <2>1, PaymentEndKeepsIInv DEF EndPcs
<1> QED
  BY <1>2, <1>3

\* Registering a payment at Payconiq, where it was not known.
LEMMA PayconiqCreateKeeps ==
    ASSUME IInv, NEW p \in PaymentIds, NEW amount \in 0 .. MaxInt, payconiq[p] = Null,
           PayconiqCreate(p, amount)
    PROVE  /\ PayconiqTypeOK' /\ PaidPersists /\ \A c \in callbacks' : Truthful(c)'
           /\ \A s \in PaymentIds : s # p => payconiq'[s] = payconiq[s]
<1> DEFINE row == [status |-> "PENDING", amount |-> amount]
<1>1. payconiq \in [PaymentIds -> PayconiqRow \cup {Null}] /\ row \in PayconiqRow
  BY DEF IInv, TypeOK, PayconiqTypeOK, PayconiqRow, PayconiqStatuses
<1>2. payconiq' = [payconiq EXCEPT ![p] = row] /\ UNCHANGED callbacks
  BY DEF PayconiqCreate
<1> HIDE DEF row
<1>3. PayconiqTypeOK'
  BY <1>1, <1>2 DEF IInv, TypeOK, PayconiqTypeOK
<1>4. \A s \in PaymentIds : s # p => payconiq'[s] = payconiq[s]
  BY <1>1, <1>2
<1>5. PaidPersists
  BY <1>4 DEF PaidPersists, PaidAtPayconiq
<1>6. \A c \in callbacks' : Truthful(c)'
  BY <1>2, <1>5 DEF IInv, TypeOK, PayconiqTypeOK, WebhookShape, Truthful, PaidPersists, Callback,
     References, ReferenceFromInternalPaymentId, InternalPaymentIdFromReference
<1> QED
  BY <1>3, <1>4, <1>5, <1>6

\* Payconiq registers a payment once, before the row is saved.
LEMMA CreatePaymentCallPayconiqKeepsIInv ==
    ASSUME IInv, NEW p \in PaymentRequests, CreatePaymentCallPayconiq(p), UNCHANGED <<oreq, hreq>>
    PROVE  IInv'
<1>1. /\ preq \in [PaymentRequests -> PaymentRequest] /\ preq[p] \in PaymentRequest
      /\ PaymentShapeOf(p) /\ preq[p].pc = "callPayconiq" /\ preq[p].cmd = "PAYCONIQ"
      /\ p \in PaymentIds
  BY DEF IInv, TypeOK, PaymentsTypeOK, PaymentShape, CreatePaymentCallPayconiq, PaymentAt, PaymentIds
<1>2. preq[p].total \in 0 .. MaxInt /\ payconiq[p] = Null /\ payments[p] = Null
  BY <1>1 DEF PaymentShapeOf, PaymentAt, PaymentRequest
<1>3. PayconiqCreate(p, preq[p].total) /\ UNCHANGED <<orders, items, payments>>
  BY DEF CreatePaymentCallPayconiq, database
<1>4. /\ PayconiqTypeOK' /\ PaidPersists /\ \A c \in callbacks' : Truthful(c)'
      /\ \A s \in PaymentIds : s # p => payconiq'[s] = payconiq[s]
  BY <1>1, <1>2, <1>3, PayconiqCreateKeeps
<1>5. PaymentsTypeOK' /\ PaymentShape'
  <2>1. CASE PaymentEnd(p, "failed")
    BY <1>1, <1>3, <1>4, <2>1, PaymentsUnchangedPersist, PaymentEndKeepsShape DEF EndPcs, PaymentIds
  <2>2. CASE preq' = [preq EXCEPT ![p] = [@ EXCEPT !.pc = "savePayment", !.data = "PENDING"]]
    <3>1. preq'[p] = [preq[p] EXCEPT !.pc = "savePayment", !.data = "PENDING"]
      BY <1>1, <2>2
    <3>2. preq'[p] \in PaymentRequest
      BY <1>1, <3>1 DEF PaymentRequest, PaymentOpenPcs, PayconiqStatuses
    <3>3. PaymentsTypeOK'
      BY <1>1, <2>2, <3>2 DEF PaymentsTypeOK
    <3>4. /\ preq'[p].cmd = "PAYCONIQ" /\ preq'[p].pc = "savePayment" /\ preq'[p].data = "PENDING"
          /\ preq'[p].total = preq[p].total /\ preq'[p].order = preq[p].order
          /\ preq'[p].organisation = preq[p].organisation
      BY <1>1, <3>1 DEF PaymentRequest
    <3>5. "PENDING" # Null /\ preq[p].total # Null
      BY <1>2, NullAssumption DEF PayconiqStatuses
    <3>6. PaymentShapeOf(p)'
      BY <1>1, <1>2, <1>3, <3>4, <3>5 DEF PaymentShapeOf, PaymentAt
    <3>7. \A s \in PaymentRequests : s # p => preq'[s] = preq[s]
      BY <1>1, <2>2
    <3>8. \A s \in PaymentRequests : s # p => PaymentShapeOf(s)'
      BY <1>3, <1>4, <3>7, PaymentsUnchangedPersist, OtherPaymentShapeKept DEF PaymentIds
    <3> QED
      BY <3>3, <3>6, <3>8 DEF PaymentShape
  <2> QED
    BY <2>1, <2>2 DEF CreatePaymentCallPayconiq
<1>6. DatabaseTypeOK' /\ WebhooksTypeOK'
  BY <1>3 DEF IInv, TypeOK, DatabaseTypeOK, WebhooksTypeOK
<1>7. WebhookShape'
  BY <1>3, <1>4, PaymentsUnchangedPersist, WebhookShapeKept
<1> QED
  BY <1>3, <1>4, <1>5, <1>6, <1>7, PaymentsUnchangedPersist, OrdersUnchangedOnlyFinish,
     PaymentStepKeepsIInv

\* Every status of Payconiq has one of ours.
LEMMA PaymentStatusFromType ==
    ASSUME NEW status \in PayconiqStatuses
    PROVE  PaymentStatusFrom(status) \in PaymentStatuses
BY DEF PaymentStatusFrom, PayconiqStatuses, PaymentStatuses

\* A payment is only saved while its order exists, by the request that
\* registered it; a cash payment is there before the order is finished.
LEMMA CreatePaymentSaveKeepsIInv ==
    ASSUME IInv, NEW p \in PaymentRequests, CreatePaymentSave(p), UNCHANGED <<oreq, hreq>>
    PROVE  IInv'
<1> DEFINE o == preq[p].order
           pc == IF preq[p].cmd = "PAYCONIQ" THEN "fetchPayconiq" ELSE "finishOrder"
           status == IF preq[p].cmd = "PAYCONIQ" THEN PaymentStatusFrom(preq[p].data)
                     ELSE "SUCCEEDED"
           row == [amount |-> preq[p].total, type |-> preq[p].cmd, status |-> status,
                   data |-> preq[p].data, order |-> o, organisation |-> preq[p].organisation]
<1>1. /\ preq \in [PaymentRequests -> PaymentRequest] /\ preq[p] \in PaymentRequest
      /\ PaymentShapeOf(p) /\ preq[p].pc = "savePayment" /\ preq[p].cmd \in PaymentTypes
      /\ p \in PaymentIds
  BY DEF IInv, TypeOK, PaymentsTypeOK, PaymentShape, CreatePaymentSave, PaymentAt, PaymentIds
<1>2. /\ preq[p].total \in 0 .. MaxInt /\ payments[p] = Null /\ o \in OrderIds
      /\ preq[p].organisation \in Organisations
      /\ preq[p].cmd = "PAYCONIQ" => preq[p].data \in PayconiqStatuses
      /\ preq[p].data \in PayconiqStatuses \cup {Null}
      /\ preq[p].cmd # "PAYCONIQ" => payconiq[p] = Null
  BY <1>1 DEF PaymentShapeOf, PaymentAt, PaymentRequest
<1>3. UNCHANGED <<orders, items>> /\ UNCHANGED payconiqVars
  BY DEF CreatePaymentSave
<1>4. payments \in [PaymentIds -> PaymentRow \cup {Null}]
  BY DEF IInv, TypeOK, DatabaseTypeOK
<1>5. CASE OrderExists(o)
  <2>1. payments' = [payments EXCEPT ![p] = row] /\ preq' = [preq EXCEPT ![p] = [@ EXCEPT !.pc = pc]]
    BY <1>5 DEF CreatePaymentSave, InsertPayment, PaymentGoto
  <2>2. status \in PaymentStatuses
    BY <1>2, PaymentStatusFromType DEF PaymentStatuses
  <2> HIDE DEF status
  <2>3. /\ row \in PaymentRow /\ row.order = o /\ row.type = preq[p].cmd
    BY <1>1, <1>2, <2>2 DEF PaymentRow
  <2> HIDE DEF row
  <2>4. row # Null
    BY <2>3, NullAssumption
  <2>5. payments' \in [PaymentIds -> PaymentRow \cup {Null}] /\ payments'[p] = row
    BY <1>1, <1>4, <2>1, <2>3
  <2>6. \A q \in PaymentIds : q # p => payments'[q] = payments[q]
    BY <1>4, <2>1
  <2>7. PaymentsPersist
    BY <1>2, <2>6 DEF PaymentsPersist
  <2>8. DatabaseTypeOK' /\ WebhooksTypeOK'
    BY <1>3, <2>5 DEF IInv, TypeOK, DatabaseTypeOK, WebhooksTypeOK
  <2>9. preq'[p] = [preq[p] EXCEPT !.pc = pc]
    BY <1>1, <2>1
  <2>10. pc \in PaymentOpenPcs
    BY DEF PaymentOpenPcs
  <2>11. preq'[p] \in PaymentRequest
    BY <1>1, <2>9, <2>10 DEF PaymentRequest
  <2>12. PaymentsTypeOK'
    BY <1>1, <2>1, <2>11 DEF PaymentsTypeOK
  <2>13. /\ preq'[p].cmd = preq[p].cmd /\ preq'[p].pc = pc /\ preq'[p].order = o
         /\ preq'[p].organisation = preq[p].organisation
    BY <1>1, <2>9 DEF PaymentRequest
  <2>14. p \in PaymentsOf(o)'
    BY <1>1, <2>3, <2>4, <2>5, <2>13 DEF PaymentsOf
  <2>15. UNCHANGED payconiq
    BY <1>3 DEF payconiqVars
  <2>16. PaymentShapeOf(p)'
    BY <1>1, <1>2, <2>3, <2>5, <2>13, <2>14, <2>15 DEF PaymentShapeOf, PaymentAt, PaymentTypes
  <2>17. \A s \in PaymentRequests : s # p => preq'[s] = preq[s]
    BY <1>1, <2>1
  <2>18. \A s \in PaymentRequests : s # p => PaymentShapeOf(s)'
    BY <2>6, <2>7, <2>15, <2>17, OtherPaymentShapeKept DEF PaymentIds
  <2>19. PaymentShape'
    BY <2>16, <2>18 DEF PaymentShape
  <2>20. WebhookShape'
    BY <1>3, <2>7, PayconiqUnchanged, WebhookShapeKept
  <2>21. \A q \in PaymentIds : payments[q] = Null /\ payments'[q] # Null =>
             orders[payments'[q].order] # Null
    BY <1>5, <2>3, <2>5, <2>6 DEF OrderExists
  <2> QED
    BY <1>3, <2>7, <2>8, <2>12, <2>19, <2>20, <2>21, OrdersUnchangedOnlyFinish, PayconiqUnchanged,
       PaymentStepKeepsIInv
<1>6. CASE ~OrderExists(o)
  <2>1. PaymentEnd(p, "failed") /\ UNCHANGED payments
    BY <1>6 DEF CreatePaymentSave
  <2> QED
    BY <1>1, <1>3, <2>1, PaymentEndKeepsIInv DEF EndPcs, database
<1> QED
  BY <1>5, <1>6

\* Finishing an order that has been paid.
LEMMA FinishOrderKeeps ==
    ASSUME IInv, NEW o \in OrderIds, FinishOrder(o), NEW q \in PaymentsOf(o),
           payments[q].type \in {"CASH", "FREE"} \/ PaidAtPayconiq(q)
    PROVE  orders' \in [OrderIds -> OrderRow \cup {Null}] /\ OrdersOnlyFinish
<1>1. orders \in [OrderIds -> OrderRow \cup {Null}]
  BY DEF IInv, TypeOK, DatabaseTypeOK
<1>2. CASE orders[o] = Null
  BY <1>1, <1>2, OrdersUnchangedOnlyFinish DEF FinishOrder
<1>3. CASE orders[o] # Null
  <2> DEFINE row == [orders[o] EXCEPT !.isFinished = TRUE]
  <2>1. orders' = [orders EXCEPT ![o] = row]
    BY <1>3 DEF FinishOrder
  <2>2. row \in OrderRow
    BY <1>1, <1>3 DEF OrderRow
  <2> HIDE DEF row
  <2>3. row # Null
    BY <2>2, NullAssumption
  <2>4. orders' \in [OrderIds -> OrderRow \cup {Null}]
    BY <1>1, <2>1, <2>2
  <2>5. OrdersOnlyFinish
    BY <1>1, <1>3, <2>1, <2>3 DEF OrdersOnlyFinish
  <2> QED
    BY <2>4, <2>5
<1> QED
  BY <1>2, <1>3

\* The order that is finished has the payment that has just been saved.
LEMMA CreatePaymentFinishOrderKeepsIInv ==
    ASSUME IInv, NEW p \in PaymentRequests, CreatePaymentFinishOrder(p), UNCHANGED <<oreq, hreq>>
    PROVE  IInv'
<1> DEFINE o == preq[p].order
<1>1. /\ PaymentShapeOf(p) /\ preq[p].pc = "finishOrder" /\ preq[p].cmd \in PaymentTypes
  BY DEF IInv, PaymentShape, CreatePaymentFinishOrder, PaymentAt, PaymentTypes
<1>2. o \in OrderIds /\ p \in PaymentsOf(o) /\ payments[p].type \in {"CASH", "FREE"}
  BY <1>1 DEF PaymentShapeOf
<1>3. /\ FinishOrder(o) /\ PaymentEnd(p, "done")
      /\ UNCHANGED <<items, payments>> /\ UNCHANGED payconiqVars
  BY DEF CreatePaymentFinishOrder
<1>4. orders' \in [OrderIds -> OrderRow \cup {Null}] /\ OrdersOnlyFinish
  BY <1>2, <1>3, FinishOrderKeeps
<1>5. DatabaseTypeOK' /\ WebhooksTypeOK'
  BY <1>3, <1>4 DEF IInv, TypeOK, DatabaseTypeOK, WebhooksTypeOK
<1>6. PaymentsTypeOK' /\ PaymentShape'
  BY <1>1, <1>3, PaymentsUnchangedPersist, PayconiqUnchanged, PaymentEndKeepsShape DEF EndPcs
<1>7. WebhookShape'
  BY <1>3, PaymentsUnchangedPersist, PayconiqUnchanged, WebhookShapeKept
<1> QED
  BY <1>3, <1>4, <1>5, <1>6, <1>7, PaymentsUnchangedPersist, PayconiqUnchanged, PaymentStepKeepsIInv

\* The answer asks Payconiq and writes nothing.
LEMMA PayconiqRespondKeepsIInv ==
    ASSUME IInv, NEW p \in PaymentRequests, PayconiqRespond(p), UNCHANGED <<oreq, hreq>>
    PROVE  IInv'
<1>1. \E outcome \in EndPcs : PaymentEnd(p, outcome)
  BY DEF PayconiqRespond, EndPcs
<1> QED
  BY <1>1, PaymentEndKeepsIInv DEF PayconiqRespond, PaymentAt

\* A payments handler may stop anywhere.
LEMMA PaymentAbortKeepsIInv ==
    ASSUME IInv, NEW p \in PaymentRequests, PaymentAbort(p), UNCHANGED <<oreq, hreq>>
    PROVE  IInv'
BY PaymentEndKeepsIInv DEF PaymentAbort, PaymentOpenPcs, EndPcs

-----------------------------------------------------------------------------
(* CancelPayconiqPaymentHandler.                                             *)

\* A cancellation goes on to its next call.
LEMMA CancelGotoKeepsShape ==
    ASSUME IInv, NEW p \in PaymentRequests, NEW pc \in {"callPayconiq", "updatePayment"},
           preq[p].cmd = "CANCEL", preq[p].pc \in {"find", "callPayconiq"},
           payments[preq[p].payment] # Null, PaymentGoto(p, pc), UNCHANGED payments,
           \A s \in PaymentRequests : payconiq[s] = Null => payconiq'[s] = Null
    PROVE  PaymentsTypeOK' /\ PaymentShape'
<1>1. preq \in [PaymentRequests -> PaymentRequest] /\ preq[p] \in PaymentRequest /\ PaymentShapeOf(p)
  BY DEF IInv, TypeOK, PaymentsTypeOK, PaymentShape
<1>2. preq'[p] = [preq[p] EXCEPT !.pc = pc]
  BY <1>1 DEF PaymentGoto
<1>3. preq'[p] \in PaymentRequest
  BY <1>1, <1>2 DEF PaymentRequest, PaymentOpenPcs
<1>4. PaymentsTypeOK'
  BY <1>1, <1>3 DEF PaymentsTypeOK, PaymentGoto
<1>5. /\ preq'[p].cmd = "CANCEL" /\ preq'[p].pc = pc /\ preq'[p].payment = preq[p].payment
      /\ preq'[p].organisation = preq[p].organisation
  BY <1>1, <1>2 DEF PaymentRequest
<1>6. payconiq'[p] = Null /\ payments'[p] = Null
  BY <1>1 DEF PaymentShapeOf, PaymentTypes
<1>7. PaymentShapeOf(p)'
  BY <1>1, <1>5, <1>6 DEF PaymentShapeOf, PaymentAt, PaymentTypes
<1>8. \A s \in PaymentRequests : s # p => preq'[s] = preq[s]
  BY <1>1 DEF PaymentGoto
<1>9. \A s \in PaymentRequests : s # p => PaymentShapeOf(s)'
  BY <1>8, PaymentsUnchangedPersist, OtherPaymentShapeKept
<1> QED
  BY <1>4, <1>7, <1>9 DEF PaymentShape

\* A cancellation goes on with a payment that exists.
LEMMA CancelFindKeepsIInv ==
    ASSUME IInv, NEW p \in PaymentRequests, CancelFind(p), UNCHANGED <<oreq, hreq>>
    PROVE  IInv'
<1>1. preq[p].pc = "find" /\ preq[p].cmd = "CANCEL" /\ UNCHANGED <<database, payconiqVars>>
  BY DEF CancelFind, PaymentAt
<1>2. CASE PaymentEnd(p, "rejected")
  BY <1>1, <1>2, PaymentEndKeepsIInv DEF EndPcs
<1>3. CASE payments[preq[p].payment] # Null /\ PaymentGoto(p, "callPayconiq")
  <2>1. PaymentsTypeOK' /\ PaymentShape'
    BY <1>1, <1>3, CancelGotoKeepsShape DEF database, payconiqVars
  <2> QED
    BY <1>1, <2>1, PaymentReadKeepsIInv
<1> QED
  BY <1>2, <1>3 DEF CancelFind, PayconiqPaymentFound

\* Cancelling at Payconiq a payment that is not settled.
LEMMA PayconiqCancelKeeps ==
    ASSUME IInv, NEW q \in PaymentIds, PayconiqCancel(q)
    PROVE  /\ PayconiqTypeOK' /\ PaidPersists /\ \A c \in callbacks' : Truthful(c)'
           /\ \A s \in PaymentIds : payconiq[s] = Null => payconiq'[s] = Null
<1> DEFINE row == [payconiq[q] EXCEPT !.status = "CANCELLED"]
<1>1. /\ payconiq \in [PaymentIds -> PayconiqRow \cup {Null}] /\ callbacks \subseteq Callback
      /\ payconiq[q] # Null /\ payconiq[q].status # "SUCCEEDED"
  BY DEF IInv, TypeOK, PayconiqTypeOK, PayconiqCancel, Unsettled, PaymentStatusFrom
<1>2. row \in PayconiqRow
  BY <1>1 DEF PayconiqRow, PayconiqStatuses
<1>3. payconiq' = [payconiq EXCEPT ![q] = row]
  BY DEF PayconiqCancel
<1>4. callbacks' = callbacks \cup
         {[reference |-> ReferenceFromInternalPaymentId(q), status |-> "CANCELLED"]}
  BY DEF PayconiqCancel, Announce
<1> HIDE DEF row
<1>5. PayconiqTypeOK'
  BY <1>1, <1>2, <1>3, <1>4 DEF PayconiqTypeOK, Callback, References, PayconiqStatuses
<1>6. \A s \in PaymentIds : s # q => payconiq'[s] = payconiq[s]
  BY <1>1, <1>3
<1>7. PaidPersists
  BY <1>1, <1>6 DEF PaidPersists, PaidAtPayconiq
<1>8. \A c \in callbacks' : Truthful(c)'
  BY <1>1, <1>4, <1>7 DEF IInv, WebhookShape, Truthful, PaidPersists, Callback, References,
     ReferenceFromInternalPaymentId, InternalPaymentIdFromReference
<1> QED
  BY <1>1, <1>5, <1>6, <1>7, <1>8

\* Payconiq cancels a payment that is not settled, or refuses.
LEMMA CancelCallPayconiqKeepsIInv ==
    ASSUME IInv, NEW p \in PaymentRequests, CancelCallPayconiq(p), UNCHANGED <<oreq, hreq>>
    PROVE  IInv'
<1> DEFINE q == preq[p].payment
<1>1. /\ PaymentShapeOf(p) /\ preq[p].pc = "callPayconiq" /\ preq[p].cmd = "CANCEL"
      /\ UNCHANGED database
  BY DEF IInv, PaymentShape, CancelCallPayconiq, PaymentAt
<1>2. q \in PaymentIds /\ payments[q] # Null
  BY <1>1 DEF PaymentShapeOf, PaymentAt
<1>3. UNCHANGED <<orders, items, payments>>
  BY <1>1 DEF database
<1>4. CASE PaymentEnd(p, "failed") /\ UNCHANGED payconiqVars
  BY <1>1, <1>4, PaymentEndKeepsIInv DEF EndPcs
<1>5. CASE PayconiqCancel(q) /\ (PaymentGoto(p, "updatePayment") \/ PaymentEnd(p, "failed"))
  <2>1. /\ PayconiqTypeOK' /\ PaidPersists /\ \A c \in callbacks' : Truthful(c)'
        /\ \A s \in PaymentRequests : payconiq[s] = Null => payconiq'[s] = Null
    BY <1>2, <1>5, PayconiqCancelKeeps DEF PaymentIds
  <2>2. PaymentsTypeOK' /\ PaymentShape'
    <3>1. CASE PaymentGoto(p, "updatePayment")
      BY <1>1, <1>2, <1>3, <2>1, <3>1, CancelGotoKeepsShape
    <3>2. CASE PaymentEnd(p, "failed")
      BY <1>1, <1>3, <2>1, <3>2, PaymentsUnchangedPersist, PaymentEndKeepsShape DEF EndPcs
    <3> QED
      BY <1>5, <3>1, <3>2
  <2>3. DatabaseTypeOK' /\ WebhooksTypeOK'
    BY <1>3 DEF IInv, TypeOK, DatabaseTypeOK, WebhooksTypeOK
  <2>4. WebhookShape'
    BY <1>3, <2>1, PaymentsUnchangedPersist, WebhookShapeKept
  <2> QED
    BY <1>3, <2>1, <2>2, <2>3, <2>4, PaymentsUnchangedPersist, OrdersUnchangedOnlyFinish,
       PaymentStepKeepsIInv
<1> QED
  BY <1>4, <1>5 DEF CancelCallPayconiq

\* A new status for a payment row.
LEMMA UpdatePaymentKeeps ==
    ASSUME IInv, NEW q \in PaymentIds, payments[q] # Null, NEW status \in PaymentStatuses,
           NEW data \in PayconiqStatuses, UpdatePayment(q, status, data)
    PROVE  /\ payments' \in [PaymentIds -> PaymentRow \cup {Null}] /\ PaymentsPersist
           /\ \A s \in PaymentIds : payments[s] = Null => payments'[s] = Null
<1> DEFINE row == [payments[q] EXCEPT !.status = status, !.data = data]
<1>1. payments \in [PaymentIds -> PaymentRow \cup {Null}]
  BY DEF IInv, TypeOK, DatabaseTypeOK
<1>2. row \in PaymentRow /\ row.order = payments[q].order /\ row.type = payments[q].type
  BY <1>1 DEF PaymentRow
<1>3. payments' = [payments EXCEPT ![q] = row]
  BY DEF UpdatePayment
<1> HIDE DEF row
<1>4. row # Null
  BY <1>2, NullAssumption
<1>5. payments' \in [PaymentIds -> PaymentRow \cup {Null}]
  BY <1>1, <1>2, <1>3
<1>6. PaymentsPersist
  BY <1>1, <1>2, <1>3, <1>4 DEF PaymentsPersist
<1>7. \A s \in PaymentIds : payments[s] = Null => payments'[s] = Null
  BY <1>1, <1>3
<1> QED
  BY <1>5, <1>6, <1>7

\* The row of a cancelled payment is updated in place.
LEMMA CancelUpdatePaymentKeepsIInv ==
    ASSUME IInv, NEW p \in PaymentRequests, CancelUpdatePayment(p), UNCHANGED <<oreq, hreq>>
    PROVE  IInv'
<1> DEFINE q == preq[p].payment
<1>1. PaymentShapeOf(p) /\ preq[p].pc = "updatePayment" /\ preq[p].cmd = "CANCEL"
  BY DEF IInv, PaymentShape, CancelUpdatePayment, PaymentAt
<1>2. q \in PaymentIds /\ payments[q] # Null
  BY <1>1 DEF PaymentShapeOf, PaymentAt
<1>3. /\ UpdatePayment(q, "CANCELLED", "CANCELLED") /\ PaymentEnd(p, "done")
      /\ UNCHANGED <<orders, items>> /\ UNCHANGED payconiqVars
  BY DEF CancelUpdatePayment
<1>4. /\ payments' \in [PaymentIds -> PaymentRow \cup {Null}] /\ PaymentsPersist
      /\ \A s \in PaymentIds : payments[s] = Null => payments'[s] = Null
  BY <1>2, <1>3, UpdatePaymentKeeps DEF PaymentStatuses, PayconiqStatuses
<1>5. DatabaseTypeOK' /\ WebhooksTypeOK'
  BY <1>3, <1>4 DEF IInv, TypeOK, DatabaseTypeOK, WebhooksTypeOK
<1>6. PaymentsTypeOK' /\ PaymentShape'
  BY <1>1, <1>3, <1>4, PayconiqUnchanged, PaymentEndKeepsShape DEF EndPcs, PaymentIds
<1>7. WebhookShape'
  BY <1>3, <1>4, PayconiqUnchanged, WebhookShapeKept
<1> QED
  BY <1>3, <1>4, <1>5, <1>6, <1>7, OrdersUnchangedOnlyFinish, PayconiqUnchanged, PaymentStepKeepsIInv

-----------------------------------------------------------------------------
(* PayconiqUpdateHandler.                                                    *)

\* What the invariant says of one delivery.
DeliveryShape(d) ==
    /\ hreq[d].pc # "idle" => hreq[d].callback \in Callback /\ Truthful(hreq[d].callback)
    /\ hreq[d].pc \in {"updatePayment", "finishOrder"} =>
          /\ hreq[d].order \in OrderIds
          /\ DeliveredPayment(d) \in PaymentsOf(hreq[d].order)
    /\ hreq[d].pc = "finishOrder" => hreq[d].callback.status = "SUCCEEDED"

\* A delivery does not notice the steps of another one.
LEMMA OtherDeliveryShapeKept ==
    ASSUME IInv, NEW d \in Deliveries, hreq'[d] = hreq[d], PaymentsPersist, UNCHANGED payconiqVars
    PROVE  DeliveryShape(d)'
<1>1. DeliveryShape(d)
  BY DEF IInv, WebhookShape, DeliveryShape
<1>2. DeliveredPayment(d)' = DeliveredPayment(d)
  BY DEF DeliveredPayment
<1>3. DeliveredPayment(d) \in PaymentsOf(hreq[d].order) =>
         DeliveredPayment(d) \in PaymentsOf(hreq[d].order)'
  BY PaymentsOfPersist
<1>4. \A c : Truthful(c) => Truthful(c)'
  BY DEF Truthful, PaidAtPayconiq, payconiqVars
<1> QED
  BY <1>1, <1>2, <1>3, <1>4 DEF DeliveryShape

\* A step of one delivery, if that delivery keeps its shape.
LEMMA WebhookStepKeepsIInv ==
    ASSUME IInv, NEW d \in Deliveries, NEW row \in Delivery, hreq' = [hreq EXCEPT ![d] = row],
           DeliveryShape(d)', DatabaseTypeOK', PaymentsPersist, OrdersOnlyFinish,
           \A s \in PaymentIds : payments[s] = Null => payments'[s] = Null,
           UNCHANGED payconiqVars, UNCHANGED <<oreq, preq>>
    PROVE  IInv'
<1>1. hreq \in [Deliveries -> Delivery]
  BY DEF IInv, TypeOK, WebhooksTypeOK
<1>2. WebhooksTypeOK'
  BY <1>1 DEF WebhooksTypeOK
<1>3. \A e \in Deliveries : e # d => DeliveryShape(e)'
  BY <1>1, OtherDeliveryShapeKept
<1>4. WebhookShape'
  BY <1>3, PayconiqUnchanged DEF WebhookShape, DeliveryShape
<1>5. PaymentsTypeOK'
  BY DEF IInv, TypeOK, PaymentsTypeOK
<1>6. PaymentShape'
  BY OtherPaymentShapeKept, PayconiqUnchanged DEF PaymentShape, PaymentIds
<1> QED
  BY <1>2, <1>4, <1>5, <1>6, PayconiqUnchanged, PaymentStepKeepsIInv

\* A delivered callback is one that Payconiq has sent.
LEMMA WebhookReceiveKeepsIInv ==
    ASSUME IInv, NEW d \in Deliveries, NEW callback \in callbacks, WebhookReceive(d, callback),
           UNCHANGED <<oreq, preq>>
    PROVE  IInv'
<1> DEFINE row == [hreq[d] EXCEPT !.pc = "find", !.reply = 200, !.callback = callback]
<1>1. hreq \in [Deliveries -> Delivery] /\ callback \in Callback /\ Truthful(callback)
  BY DEF IInv, TypeOK, WebhooksTypeOK, PayconiqTypeOK, WebhookShape
<1>2. UNCHANGED <<orders, items, payments>> /\ UNCHANGED payconiqVars
  BY DEF WebhookReceive, database
<1>3. hreq' = [hreq EXCEPT ![d] = row]
  BY DEF WebhookReceive
<1>4. row \in Delivery /\ row.pc = "find" /\ row.callback = callback
  <2>1. hreq[d] \in Delivery
    BY <1>1
  <2>2. row.pc = "find" /\ row.callback = callback
    BY <2>1 DEF Delivery
  <2>3. "find" \in WebhookPcs /\ 200 \in Replies
    BY DEF WebhookPcs, WebhookOpenPcs, Replies
  <2>4. row \in Delivery
    BY <1>1, <2>1, <2>3 DEF Delivery
  <2> QED
    BY <2>2, <2>4
<1> HIDE DEF row
<1>5. hreq'[d] = row
  BY <1>1, <1>3
<1>6. Truthful(callback)'
  BY <1>1, <1>2 DEF Truthful, PaidAtPayconiq, payconiqVars
<1>7. DeliveryShape(d)'
  BY <1>1, <1>4, <1>5, <1>6 DEF DeliveryShape
<1>8. DatabaseTypeOK'
  BY <1>2 DEF IInv, TypeOK, DatabaseTypeOK
<1> QED
  BY <1>2, <1>3, <1>4, <1>7, <1>8, PaymentsUnchangedPersist, OrdersUnchangedOnlyFinish,
     WebhookStepKeepsIInv DEF PaymentIds

\* A delivery only changes its pc.
LEMMA WebhookGotoType ==
    ASSUME IInv, NEW d \in Deliveries, NEW pc \in {"done", "failed", "finishOrder"},
           WebhookGoto(d, pc)
    PROVE  \E row \in Delivery :
              /\ hreq' = [hreq EXCEPT ![d] = row] /\ hreq'[d] = row
              /\ row.pc = pc /\ row.callback = hreq[d].callback /\ row.order = hreq[d].order
<1> DEFINE row == [hreq[d] EXCEPT !.pc = pc]
<1>1. hreq \in [Deliveries -> Delivery]
  BY DEF IInv, TypeOK, WebhooksTypeOK
<1>2. hreq' = [hreq EXCEPT ![d] = row]
  BY DEF WebhookGoto
<1>3. row \in Delivery /\ row.pc = pc /\ row.callback = hreq[d].callback /\ row.order = hreq[d].order
  BY <1>1 DEF Delivery, WebhookPcs, WebhookOpenPcs
<1> HIDE DEF row
<1>4. hreq'[d] = row
  BY <1>1, <1>2
<1> QED
  BY <1>2, <1>3, <1>4

\* A delivery that ends and writes no table.
LEMMA WebhookEndKeepsIInv ==
    ASSUME IInv, NEW d \in Deliveries, hreq[d].pc # "idle", WebhookGoto(d, "failed"),
           UNCHANGED <<database, payconiqVars>>, UNCHANGED <<oreq, preq>>
    PROVE  IInv'
<1>1. PICK row \in Delivery :
         /\ hreq' = [hreq EXCEPT ![d] = row] /\ hreq'[d] = row
         /\ row.pc = "failed" /\ row.callback = hreq[d].callback
  BY WebhookGotoType
<1>2. UNCHANGED <<orders, items, payments>> /\ UNCHANGED payconiqVars
  BY DEF database
<1>3. DeliveryShape(d)'
  BY <1>1, <1>2 DEF IInv, WebhookShape, DeliveryShape, Truthful, PaidAtPayconiq, payconiqVars
<1>4. DatabaseTypeOK'
  BY <1>2 DEF IInv, TypeOK, DatabaseTypeOK
<1> QED
  BY <1>1, <1>2, <1>3, <1>4, PaymentsUnchangedPersist, OrdersUnchangedOnlyFinish,
     WebhookStepKeepsIInv DEF PaymentIds

\* A delivery that goes on with an order keeps its type and its callback.
LEMMA DeliveryWithOrder ==
    ASSUME NEW e \in Delivery, NEW o \in OrderIds
    PROVE  /\ [e EXCEPT !.pc = "updatePayment", !.order = o] \in Delivery
           /\ [e EXCEPT !.pc = "updatePayment", !.order = o].pc = "updatePayment"
           /\ [e EXCEPT !.pc = "updatePayment", !.order = o].callback = e.callback
           /\ [e EXCEPT !.pc = "updatePayment", !.order = o].order = o
<1>1. "updatePayment" \in WebhookPcs
  BY DEF WebhookPcs, WebhookOpenPcs
<1> QED
  BY <1>1 DEF Delivery

\* The reference of a callback names a payment.
LEMMA DeliveredIsPayment ==
    ASSUME NEW d \in Deliveries, hreq[d].callback \in Callback
    PROVE  DeliveredPayment(d) \in PaymentIds
BY DEF DeliveredPayment, Callback, References, ReferenceFromInternalPaymentId,
   InternalPaymentIdFromReference

\* The handler goes on with the order of a payment that exists.
LEMMA DeliveryGoesOnKeepsIInv ==
    ASSUME IInv, NEW d \in Deliveries, hreq[d].pc = "find", payments[DeliveredPayment(d)] # Null,
           hreq' = [hreq EXCEPT ![d] = [@ EXCEPT
                       !.pc = "updatePayment", !.order = payments[DeliveredPayment(d)].order]],
           UNCHANGED <<database, payconiqVars>>, UNCHANGED <<oreq, preq>>
    PROVE  IInv'
<1> DEFINE q == DeliveredPayment(d)
           row == [hreq[d] EXCEPT !.pc = "updatePayment", !.order = payments[q].order]
<1>1. /\ hreq[d].callback \in Callback /\ Truthful(hreq[d].callback)
      /\ hreq \in [Deliveries -> Delivery] /\ hreq[d] \in Delivery
  BY DEF IInv, TypeOK, WebhooksTypeOK, WebhookShape
<1>2. q \in PaymentIds
  BY <1>1, DeliveredIsPayment
<1>3. hreq' = [hreq EXCEPT ![d] = row]
  OBVIOUS
<1>4. payments[q].order \in OrderIds /\ q \in PaymentsOf(payments[q].order)
  BY <1>2 DEF IInv, TypeOK, DatabaseTypeOK, PaymentRow, PaymentsOf
<1>5. /\ row \in Delivery /\ row.pc = "updatePayment" /\ row.callback = hreq[d].callback
      /\ row.order = payments[q].order
  BY <1>1, <1>4, DeliveryWithOrder, Zenon
<1> HIDE DEF row
<1>6. hreq'[d] = row
  BY <1>1, <1>3
<1>7. UNCHANGED <<orders, items, payments>> /\ UNCHANGED payconiqVars
  BY DEF database
<1>8. DeliveredPayment(d)' = q
  BY <1>5, <1>6 DEF DeliveredPayment
<1>9. q \in PaymentsOf(hreq[d].order)'
  BY <1>4, <1>5, <1>6, <1>7 DEF PaymentsOf
<1>10. Truthful(hreq[d].callback)'
  BY <1>1, <1>5, <1>6, <1>7 DEF Truthful, PaidAtPayconiq, payconiqVars
<1>11. DeliveryShape(d)'
  BY <1>1, <1>4, <1>5, <1>6, <1>8, <1>9, <1>10 DEF DeliveryShape
<1>12. DatabaseTypeOK'
  BY <1>7 DEF IInv, TypeOK, DatabaseTypeOK
<1> QED
  BY <1>3, <1>5, <1>7, <1>11, <1>12, PaymentsUnchangedPersist, OrdersUnchangedOnlyFinish,
     WebhookStepKeepsIInv DEF PaymentIds

\* Or it fails.
LEMMA WebhookFindKeepsIInv ==
    ASSUME IInv, NEW d \in Deliveries, WebhookFind(d), UNCHANGED <<oreq, preq>>
    PROVE  IInv'
<1>1. hreq[d].pc = "find" /\ UNCHANGED <<database, payconiqVars>>
  BY DEF WebhookFind
<1>2. CASE payments[DeliveredPayment(d)] = Null
  <2>1. WebhookGoto(d, "failed")
    BY <1>2 DEF WebhookFind
  <2> QED
    BY <1>1, <2>1, WebhookEndKeepsIInv
<1>3. CASE payments[DeliveredPayment(d)] # Null
  BY <1>1, <1>3, DeliveryGoesOnKeepsIInv DEF WebhookFind
<1> QED
  BY <1>2, <1>3

\* The order is finished next only if the callback said SUCCEEDED.
LEMMA WebhookUpdatePaymentKeepsIInv ==
    ASSUME IInv, NEW d \in Deliveries, WebhookUpdatePayment(d), UNCHANGED <<oreq, preq>>
    PROVE  IInv'
<1> DEFINE q == DeliveredPayment(d)
           status == hreq[d].callback.status
           pc == AfterUpdate(DeliveredStatus(d))
<1>1. /\ hreq[d].pc = "updatePayment" /\ hreq[d].callback \in Callback
      /\ Truthful(hreq[d].callback) /\ hreq[d].order \in OrderIds
      /\ q \in PaymentsOf(hreq[d].order)
  BY DEF IInv, WebhookShape, WebhookUpdatePayment
<1>2. /\ UpdatePayment(q, DeliveredStatus(d), status) /\ WebhookGoto(d, pc)
      /\ UNCHANGED <<orders, items>> /\ UNCHANGED payconiqVars
  BY DEF WebhookUpdatePayment
<1>3. /\ q \in PaymentIds /\ payments[q] # Null /\ status \in PayconiqStatuses
      /\ DeliveredStatus(d) \in PaymentStatuses
  BY <1>1, PaymentStatusFromType DEF PaymentsOf, Callback, DeliveredStatus
<1>4. /\ payments' \in [PaymentIds -> PaymentRow \cup {Null}] /\ PaymentsPersist
      /\ \A s \in PaymentIds : payments[s] = Null => payments'[s] = Null
  BY <1>2, <1>3, UpdatePaymentKeeps
<1>5. pc \in {"done", "finishOrder"} /\ (pc = "finishOrder" => status = "SUCCEEDED")
  BY <1>3 DEF AfterUpdate, DeliveredStatus, PaymentStatusFrom, PayconiqStatuses
<1> HIDE DEF pc
<1>6. PICK row \in Delivery :
         /\ hreq' = [hreq EXCEPT ![d] = row] /\ hreq'[d] = row
         /\ row.pc = pc /\ row.callback = hreq[d].callback /\ row.order = hreq[d].order
  BY <1>2, <1>5, WebhookGotoType
<1>7. DeliveredPayment(d)' = q
  BY <1>6 DEF DeliveredPayment
<1>8. q \in PaymentsOf(hreq[d].order)'
  BY <1>1, <1>4, <1>6, PaymentsOfPersist
<1>9. Truthful(hreq[d].callback)'
  BY <1>1, <1>2, <1>6 DEF Truthful, PaidAtPayconiq, payconiqVars
<1>10. DeliveryShape(d)'
  BY <1>1, <1>5, <1>6, <1>7, <1>8, <1>9 DEF DeliveryShape
<1>11. DatabaseTypeOK'
  BY <1>2, <1>4 DEF IInv, TypeOK, DatabaseTypeOK
<1> QED
  BY <1>2, <1>4, <1>6, <1>10, <1>11, OrdersUnchangedOnlyFinish, WebhookStepKeepsIInv

\* The order that is finished has a payment that Payconiq has settled.
LEMMA WebhookFinishOrderKeepsIInv ==
    ASSUME IInv, NEW d \in Deliveries, WebhookFinishOrder(d), UNCHANGED <<oreq, preq>>
    PROVE  IInv'
<1> DEFINE q == DeliveredPayment(d)
           o == hreq[d].order
<1>1. /\ hreq[d].pc = "finishOrder" /\ hreq[d].callback \in Callback
      /\ Truthful(hreq[d].callback) /\ o \in OrderIds /\ q \in PaymentsOf(o)
      /\ hreq[d].callback.status = "SUCCEEDED"
  BY DEF IInv, WebhookShape, WebhookFinishOrder
<1>2. /\ FinishOrder(o) /\ WebhookGoto(d, "done")
      /\ UNCHANGED <<items, payments>> /\ UNCHANGED payconiqVars
  BY DEF WebhookFinishOrder
<1>3. PaidAtPayconiq(q)
  BY <1>1 DEF Truthful, DeliveredPayment
<1>4. orders' \in [OrderIds -> OrderRow \cup {Null}] /\ OrdersOnlyFinish
  BY <1>1, <1>2, <1>3, FinishOrderKeeps
<1>5. PICK row \in Delivery :
         /\ hreq' = [hreq EXCEPT ![d] = row] /\ hreq'[d] = row
         /\ row.pc = "done" /\ row.callback = hreq[d].callback
  BY <1>2, WebhookGotoType
<1>6. Truthful(hreq[d].callback)'
  BY <1>1, <1>2, <1>5 DEF Truthful, PaidAtPayconiq, payconiqVars
<1>7. DeliveryShape(d)'
  BY <1>1, <1>5, <1>6 DEF DeliveryShape
<1>8. DatabaseTypeOK'
  BY <1>2, <1>4 DEF IInv, TypeOK, DatabaseTypeOK
<1> QED
  BY <1>2, <1>4, <1>5, <1>7, <1>8, PaymentsUnchangedPersist, WebhookStepKeepsIInv DEF PaymentIds

\* A webhook handler may stop anywhere.
LEMMA WebhookAbortKeepsIInv ==
    ASSUME IInv, NEW d \in Deliveries, WebhookAbort(d), UNCHANGED <<oreq, preq>>
    PROVE  IInv'
BY WebhookEndKeepsIInv DEF WebhookAbort, WebhookOpenPcs

-----------------------------------------------------------------------------
(* The invariant.                                                            *)

\* Empty tables and requests that have not been made satisfy the invariant.
LEMMA InitIInv == Init => IInv
<1> SUFFICES ASSUME Init
             PROVE  IInv
  OBVIOUS
<1> USE DEF Init, DatabaseInit, OrdersInit, PaymentsInit, WebhooksInit, PayconiqInit
<1>1. DatabaseTypeOK
  BY DEF DatabaseTypeOK
<1>2. OrdersTypeOK
  BY DEF OrdersTypeOK, OrderRequest, NoOrderRequest
<1>3. PaymentsTypeOK
  BY DEF PaymentsTypeOK, PaymentRequest, NoPaymentRequest
<1>4. WebhooksTypeOK
  BY DEF WebhooksTypeOK, Delivery, NoDelivery, WebhookPcs, Replies
<1>5. PayconiqTypeOK
  BY DEF PayconiqTypeOK
<1>6. OrderShape
  BY DEF OrderShape, At, NoOrderRequest
<1>7. PaymentShape
  BY DEF PaymentShape, PaymentShapeOf, PaymentAt, NoPaymentRequest, PaymentIds
<1>8. WebhookShape
  BY DEF WebhookShape, NoDelivery
<1>9. FinishedIsPaid /\ PaymentHasOrder
  BY DEF FinishedIsPaid, PaymentHasOrder
<1> QED
  BY <1>1, <1>2, <1>3, <1>4, <1>5, <1>6, <1>7, <1>8, <1>9 DEF IInv, TypeOK

\* Every step of an orders handler keeps the invariant.
LEMMA OrderStepsKeepIInv ==
    ASSUME IInv, NEW r \in OrderRequests, OrderStep(r), UNCHANGED <<preq, hreq, payconiqVars>>
    PROVE  IInv'
<1>1. CASE CreateCheck(r)
  BY <1>1, CreateCheckKeepsIInv
<1>2. CASE CreateSaveOrder(r)
  BY <1>2, CreateSaveOrderKeepsIInv
<1>3. CASE CreateSaveItems(r)
  BY <1>3, CreateSaveItemsKeepsIInv
<1>4. CASE UpdateFind(r)
  BY <1>4, UpdateFindKeepsIInv
<1>5. CASE UpdateCheck(r)
  BY <1>5, UpdateCheckKeepsIInv
<1>6. CASE UpdateSaveOrder(r)
  BY <1>6, UpdateSaveOrderKeepsIInv
<1>7. CASE UpdateDeleteItems(r)
  BY <1>7, UpdateDeleteItemsKeepsIInv
<1>8. CASE UpdateCreateItems(r)
  BY <1>8, UpdateCreateItemsKeepsIInv
<1>9. CASE UpdateFindItems(r)
  BY <1>9, UpdateFindItemsKeepsIInv
<1>10. CASE UpdateSaveItems(r)
  BY <1>10, UpdateSaveItemsKeepsIInv
<1>11. CASE DeleteFind(r)
  BY <1>11, DeleteFindKeepsIInv
<1>12. CASE DeleteDeleteItems(r)
  BY <1>12, DeleteDeleteItemsKeepsIInv
<1>13. CASE DeleteDeleteOrder(r)
  BY <1>13, DeleteDeleteOrderKeepsIInv
<1>14. CASE Respond(r)
  BY <1>14, RespondKeepsIInv
<1> QED
  BY <1>1, <1>2, <1>3, <1>4, <1>5, <1>6, <1>7, <1>8, <1>9, <1>10, <1>11, <1>12, <1>13, <1>14
     DEF OrderStep

\* Every step of a payments handler keeps the invariant.
LEMMA PaymentStepsKeepIInv ==
    ASSUME IInv, NEW p \in PaymentRequests, PaymentStep(p), UNCHANGED <<oreq, hreq>>
    PROVE  IInv'
<1>1. CASE CreatePaymentFind(p)
  BY <1>1, CreatePaymentFindKeepsIInv
<1>2. CASE CreatePaymentCallPayconiq(p)
  BY <1>2, CreatePaymentCallPayconiqKeepsIInv
<1>3. CASE CreatePaymentSave(p)
  BY <1>3, CreatePaymentSaveKeepsIInv
<1>4. CASE CreatePaymentFinishOrder(p)
  BY <1>4, CreatePaymentFinishOrderKeepsIInv
<1>5. CASE PayconiqRespond(p)
  BY <1>5, PayconiqRespondKeepsIInv
<1>6. CASE CancelFind(p)
  BY <1>6, CancelFindKeepsIInv
<1>7. CASE CancelCallPayconiq(p)
  BY <1>7, CancelCallPayconiqKeepsIInv
<1>8. CASE CancelUpdatePayment(p)
  BY <1>8, CancelUpdatePaymentKeepsIInv
<1> QED
  BY <1>1, <1>2, <1>3, <1>4, <1>5, <1>6, <1>7, <1>8 DEF PaymentStep

\* The delivery of a callback and every step of its handler keep it.
LEMMA WebhookStepsKeepIInv ==
    ASSUME IInv, NEW d \in Deliveries, UNCHANGED <<oreq, preq>>,
           WebhookStep(d) \/ \E callback \in callbacks : WebhookReceive(d, callback)
    PROVE  IInv'
<1>1. CASE WebhookFind(d)
  BY <1>1, WebhookFindKeepsIInv
<1>2. CASE WebhookUpdatePayment(d)
  BY <1>2, WebhookUpdatePaymentKeepsIInv
<1>3. CASE WebhookFinishOrder(d)
  BY <1>3, WebhookFinishOrderKeepsIInv
<1>4. CASE \E callback \in callbacks : WebhookReceive(d, callback)
  BY <1>4, WebhookReceiveKeepsIInv
<1> QED
  BY <1>1, <1>2, <1>3, <1>4 DEF WebhookStep

\* The invariant is inductive.
LEMMA NextKeepsIInv == IInv /\ [Next]_vars => IInv'
<1> SUFFICES ASSUME IInv, [Next]_vars
             PROVE  IInv'
  OBVIOUS
<1>1. CASE Receives
  <2>1. CASE OrdersReceive /\ UNCHANGED <<preq, hreq, payconiqVars>>
    BY <2>1, OrdersReceiveKeepsIInv
  <2>2. CASE PaymentsReceive /\ UNCHANGED <<oreq, hreq>>
    BY <2>2, PaymentsReceiveKeepsIInv
  <2>3. CASE WebhooksReceive /\ UNCHANGED <<oreq, preq>>
    BY <2>3, WebhookStepsKeepIInv DEF WebhooksReceive
  <2> QED
    BY <1>1, <2>1, <2>2, <2>3 DEF Receives
<1>2. CASE Steps
  BY <1>2, OrderStepsKeepIInv, PaymentStepsKeepIInv, WebhookStepsKeepIInv DEF Steps
<1>3. CASE Aborts
  BY <1>3, OrderAbortKeepsIInv, PaymentAbortKeepsIInv, WebhookAbortKeepsIInv DEF Aborts
<1>4. CASE PayconiqMoves
  BY <1>4, PayconiqMoveKeepsIInv, TapappAssumption DEF PayconiqMoves
<1>5. CASE UNCHANGED vars
  <2>1. UNCHANGED <<database, oreq>> /\ UNCHANGED <<preq, hreq, payconiqVars>>
    BY <1>5 DEF vars, database, payconiqVars
  <2>2. OrdersTypeOK' /\ OrderShape'
    BY <2>1 DEF IInv, TypeOK, OrdersTypeOK, OrderShape, At
  <2> QED
    BY <2>1, <2>2, OrderReadKeepsIInv
<1> QED
  BY <1>1, <1>2, <1>3, <1>4, <1>5 DEF Next

\* Whatever overlaps and whatever fails, every handler can rely on what IInv
\* says of the tables at each of its database and Payconiq calls.
THEOREM InvariantHolds == Spec => []IInv
<1> QED
  BY InitIInv, NextKeepsIInv, PTL DEF Spec

\* Every table, request and callback keeps its type: the rows the handlers
\* write fit their columns, and no update is made to a row that is not there.
THEOREM TypeCorrect == Spec => []TypeOK
<1>1. IInv => TypeOK
  BY DEF IInv
<1> QED
  BY <1>1, InvariantHolds, PTL

\* An order is only ever finished by a payment: a cash or free payment that
\* has been saved, or a Payconiq payment that Payconiq has settled.
THEOREM FinishedIsPaidAlways == Spec => []FinishedIsPaid
<1>1. IInv => FinishedIsPaid
  BY DEF IInv
<1> QED
  BY <1>1, InvariantHolds, PTL

=============================================================================
