---------------------------- MODULE Serial_proofs ----------------------------
(* Proofs about serial executions: with MaxOverlap = 1 what the one open     *)
(* handler has read is what the tables still have (SerialInv), so that open  *)
(* client names are unique, finished orders keep their row and items,        *)
(* payments stay in the organisation of their order, and cash pays the total *)
(* once; and the items of an order become the lines of its last update       *)
(* (UpdateInv).                                                              *)
EXTENDS Items_proofs, FiniteSetTheorems

-----------------------------------------------------------------------------
(* The inductive invariant of executions that are serial, relative to IInv   *)
(* and ItemInv, behind UniqueOpenNames, PaymentKeepsOrganisation,            *)
(* FinishedKeepsItems and CashPaysTheTotal: what the one open handler has    *)
(* read is what the tables still have.                                       *)

OneHandler ==
    /\ \A q, r \in OrderOpen : q = r
    /\ \A p, q \in PaymentOpen : p = q
    /\ \A c, d \in WebhookOpen : c = d
    /\ OrderOpen = {} \/ PaymentOpen = {}
    /\ OrderOpen = {} \/ WebhookOpen = {}
    /\ PaymentOpen = {} \/ WebhookOpen = {}

\* No two orders share a client name, be they of different organisations or
\* finished: any order with the name turns a request away.
UniqueNames ==
    \A a, b \in OrderIds :
        /\ orders[a] # Null /\ orders[b] # Null
        /\ orders[a].clientName # Null
        /\ orders[a].clientName = orders[b].clientName
        => a = b

\* An update or deletion that has found its order still finds it, with the
\* items it loaded; a name that was free is free.
OrderCurrent(r) ==
    LET request == oreq[r]
        named == OrdersWithClientName(request.clientName)
    IN  /\ At(r, "create", "saveOrder") => named = {}
        /\ At(r, "create", "saveItems") => ~orders[r].isFinished
        /\ request.cmd \in {"update", "delete"} /\ request.pc \in OrderOpenPcs \ {"find"} =>
              FoundUnfinished(request.order, request.organisation)
        /\ At(r, "update", "checkName") \/ At(r, "update", "saveOrder") =>
              request.row = orders[request.order]
        /\ At(r, "update", "saveOrder") => named \subseteq {request.order}
        /\ request.pc \in {"checkName", "saveOrder", "deleteItems"} /\ request.cmd # "create" =>
              request.loaded = ItemsOf(request.order)
        /\ At(r, "update", "updateItems") =>
              \A i \in request.loaded :
                  items[i] # Null /\ \E l \in request.lines : l.item = i

\* So does a payment that has found its order, with the total it has read.
PaymentCurrent(p) ==
    LET request == preq[p]
    IN  PaymentAt(p, PaymentTypes, "callPayconiq") \/ PaymentAt(p, PaymentTypes, "savePayment") =>
            /\ FoundUnfinished(request.order, request.organisation)
            /\ request.total = orders[request.order].totalPrice

PaidByHand(p) == payments[p] # Null /\ payments[p].type \in {"CASH", "FREE"}

\* A payment by hand is of the total of an order that has no other, and its
\* handler, when it has ended, has finished the order.
HandsPayTheTotal ==
    \A p \in PaymentIds : PaidByHand(p) =>
        LET o == payments[p].order
        IN  /\ payments[p].amount = orders[o].totalPrice
            /\ preq[p].pc = "finishOrder" \/ orders[o].isFinished
            /\ \A q \in PaymentsOf(o) : PaidByHand(q) => q = p

SerialInv ==
    /\ OneHandler
    /\ \A r \in OrderRequests : OrderCurrent(r)
    /\ \A p \in PaymentRequests : PaymentCurrent(p)
    /\ UniqueNames
    /\ PaymentKeepsOrganisation
    /\ ~Failures => HandsPayTheTotal

-----------------------------------------------------------------------------
(* Beside that, when clients are careful, behind UpdateAnswersItsLines.      *)

\* The item that shows a line of update r in the end.
ItemFor(r, l) == IF l.item = Null THEN <<r, l.product>> ELSE l.item

ItemIsOfItsProduct == \A i \in ItemIds : items[i] # Null => items[i].product = i[2]

\* No item of a set has the product of a line without one.
NoneHasNewProduct(r, ids) ==
    \A l \in oreq[r].lines, i \in ids : l.item = Null => i[2] # l.product

\* The items of the order are those of the lines: the new ones as they were
\* sent, and in the end all of them.
ItemsAreOfLines(r) ==
    LET linked == ItemsOf(oreq[r].order)
    IN  /\ \A i \in linked : \E l \in oreq[r].lines : i = ItemFor(r, l)
        /\ \A l \in oreq[r].lines :
              /\ ItemFor(r, l) \in linked
              /\ l.item = Null \/ oreq[r].pc = "respond" =>
                    items[ItemFor(r, l)].amount = l.amount

\* A line of an update names an item of the order with its product, or the
\* order has none; that item is kept, and the others make way for new ones.
UpdateShapeOf(r) ==
    LET request == oreq[r]
        linked == ItemsOf(request.order)
    IN  request.cmd = "update" /\ request.pc \in OrderOpenPcs =>
        /\ request.lines # {}
        /\ request.pc \notin {"find", "checkName"} => AcceptsLines(request.lines)
        /\ request.pc \in {"checkName", "saveOrder", "deleteItems", "createItems"} =>
              request.bare = {}
        /\ \A l \in request.lines : l.item # Null =>
              /\ l.item \in linked /\ l.item[2] = l.product
              /\ request.pc \in {"createItems", "updateItems"} => l.item \in request.loaded
        /\ request.pc \in {"find", "checkName", "saveOrder", "deleteItems"} =>
              NoneHasNewProduct(r, linked)
        /\ request.pc = "createItems" =>
              /\ NoneHasNewProduct(r, request.loaded)
              /\ \A i \in linked : \E l \in request.lines : l.item = i
        /\ request.pc \in {"findItems", "updateItems", "respond"} => ItemsAreOfLines(r)

UpdateInv == ItemIsOfItsProduct /\ \A r \in OrderRequests : UpdateShapeOf(r)

-----------------------------------------------------------------------------
\* What a step leaves of an order: its row and its items with their products.
KeepsOrder(o) ==
    /\ orders'[o] = orders[o]
    /\ ItemsOf(o)' = ItemsOf(o)
    /\ \A i \in ItemsOf(o) : items'[i].product = items[i].product

\* What every step grants to the orders that are finished.
KeepsFinished ==
    \A o \in OrderIds : orders[o] # Null /\ orders[o].isFinished => KeepsOrder(o)

\* A step that leaves of an item all but its amount.
KeepsItem(i) ==
    \/ items'[i] = items[i]
    \/ /\ items[i] # Null /\ items'[i] # Null
       /\ items'[i].order = items[i].order /\ items'[i].product = items[i].product

\* What every step of an orders handler grants to the orders that have payments.
PaidOrdersStay ==
    \A o \in OrderIds : PaymentsOf(o) # {} =>
        orders'[o] # Null /\ orders'[o].organisation = orders[o].organisation

\* The step of one payments handler, or of one delivery.
PaysAlone(p) == \A q \in PaymentRequests : q # p => preq'[q] = preq[q]

DeliversAlone(d) == \A c \in Deliveries : c # d => hreq'[c] = hreq[c]

-----------------------------------------------------------------------------
(* One handler at a time.                                                    *)

LEMMA ClosedOrderIsCurrent ==
    ASSUME NEW r \in OrderRequests, oreq'[r].pc \notin OrderOpenPcs
    PROVE  OrderCurrent(r)'
BY DEF OrderCurrent, At, OrderOpenPcs

LEMMA ClosedPaymentIsCurrent ==
    ASSUME NEW p \in PaymentRequests, preq'[p].pc \notin PaymentOpenPcs
    PROVE  PaymentCurrent(p)'
BY DEF PaymentCurrent, PaymentAt, PaymentOpenPcs

\* A handler may start only when no other runs.
LEMMA NobodyRuns ==
    ASSUME MaxOverlap = 1, OneHandler, OpenHandlers < MaxOverlap
    PROVE  OrderOpen = {} /\ PaymentOpen = {} /\ WebhookOpen = {}
<1>1. ASSUME NEW S, \A x, y \in S : x = y
      PROVE  Cardinality(S) \in Nat /\ (Cardinality(S) = 0 => S = {})
  <2>1. CASE S = {}
    BY <2>1, FS_EmptySet
  <2>2. CASE S # {}
    <3>1. PICK x \in S : TRUE
      BY <2>2
    <3>2. S = {x}
      BY <1>1, <3>1
    <3> QED
      BY <3>2, FS_Singleton
  <2> QED
    BY <2>1, <2>2
<1>2. /\ Cardinality(OrderOpen) \in Nat /\ (Cardinality(OrderOpen) = 0 => OrderOpen = {})
      /\ Cardinality(PaymentOpen) \in Nat /\ (Cardinality(PaymentOpen) = 0 => PaymentOpen = {})
      /\ Cardinality(WebhookOpen) \in Nat /\ (Cardinality(WebhookOpen) = 0 => WebhookOpen = {})
  BY <1>1 DEF OneHandler
<1>3. \A a, b, c \in Nat : a + b + c < 1 => a = 0 /\ b = 0 /\ c = 0
  OBVIOUS
<1>4. Cardinality(OrderOpen) + Cardinality(PaymentOpen) + Cardinality(WebhookOpen) < 1
  BY DEF OpenHandlers
<1> QED
  BY <1>2, <1>3, <1>4

\* The step of the open orders handler.
LEMMA OrderStepIsCurrent ==
    ASSUME SerialInv, NEW r \in OrderOpen, Alone(r), UNCHANGED <<preq, hreq>>, OrderCurrent(r)'
    PROVE  /\ OneHandler'
           /\ \A q \in OrderRequests : OrderCurrent(q)'
           /\ \A p \in PaymentRequests : PaymentCurrent(p)'
<1>1. /\ \A q \in OrderRequests : q # r => oreq'[q].pc \notin OrderOpenPcs
      /\ PaymentOpen' = {} /\ WebhookOpen' = {}
  BY DEF SerialInv, OneHandler, OrderOpen, PaymentOpen, WebhookOpen, Alone
<1>2. OneHandler'
  BY <1>1 DEF OneHandler, OrderOpen
<1>3. \A p \in PaymentRequests : PaymentCurrent(p)'
  BY <1>1, ClosedPaymentIsCurrent DEF PaymentOpen
<1> QED
  BY <1>1, <1>2, <1>3, ClosedOrderIsCurrent

\* The step of the open payments handler.
LEMMA PaymentStepIsCurrent ==
    ASSUME SerialInv, NEW p \in PaymentOpen, PaysAlone(p), UNCHANGED <<oreq, hreq>>,
           PaymentCurrent(p)'
    PROVE  /\ OneHandler'
           /\ \A q \in OrderRequests : OrderCurrent(q)'
           /\ \A q \in PaymentRequests : PaymentCurrent(q)'
<1>1. /\ \A q \in PaymentRequests : q # p => preq'[q].pc \notin PaymentOpenPcs
      /\ OrderOpen' = {} /\ WebhookOpen' = {}
  BY DEF SerialInv, OneHandler, OrderOpen, PaymentOpen, WebhookOpen, PaysAlone
<1>2. OneHandler'
  BY <1>1 DEF OneHandler, PaymentOpen
<1>3. \A q \in OrderRequests : OrderCurrent(q)'
  BY <1>1, ClosedOrderIsCurrent DEF OrderOpen
<1> QED
  BY <1>1, <1>2, <1>3, ClosedPaymentIsCurrent

\* The step of the open delivery.
LEMMA WebhookStepIsCurrent ==
    ASSUME SerialInv, NEW d \in WebhookOpen, DeliversAlone(d), UNCHANGED <<oreq, preq>>
    PROVE  /\ OneHandler'
           /\ \A q \in OrderRequests : OrderCurrent(q)'
           /\ \A q \in PaymentRequests : PaymentCurrent(q)'
<1>1. /\ \A c \in Deliveries : c # d => hreq'[c].pc \notin WebhookOpenPcs
      /\ OrderOpen' = {} /\ PaymentOpen' = {}
  BY DEF SerialInv, OneHandler, OrderOpen, PaymentOpen, WebhookOpen, DeliversAlone
<1>2. OneHandler'
  BY <1>1 DEF OneHandler, WebhookOpen
<1> QED
  BY <1>1, <1>2, ClosedOrderIsCurrent, ClosedPaymentIsCurrent DEF OrderOpen, PaymentOpen

-----------------------------------------------------------------------------
(* The tables.                                                               *)

\* Orders that are removed or finished take no name.
LEMMA NamesStayUnique ==
    ASSUME UniqueNames,
           \A o \in OrderIds : orders'[o] # Null =>
               orders[o] # Null /\ orders'[o].clientName = orders[o].clientName
    PROVE  UniqueNames'
BY DEF UniqueNames

\* An order that is saved takes a name that no other one has.
LEMMA NewNameIsUnique ==
    ASSUME UniqueNames, NEW o \in OrderIds, NEW name,
           \A x \in OrderIds : x # o => orders'[x] = orders[x],
           orders'[o].clientName = name,
           name # Null => \A x \in OrderIds : x # o /\ orders[x] # Null =>
                              orders[x].clientName # name
    PROVE  UniqueNames'
BY DEF UniqueNames

\* What SerialInv needs of the step of an orders handler.
LEMMA OrderStepKeepsSerialInv ==
    ASSUME IInv, SerialInv, NEW r \in OrderOpen, Alone(r), UNCHANGED <<payments, preq, hreq>>,
           OrderCurrent(r)', KeepsFinished, PaidOrdersStay, UniqueNames'
    PROVE  SerialInv'
<1>1. PaymentKeepsOrganisation'
  BY DEF SerialInv, PaymentKeepsOrganisation, PaidOrdersStay, PaymentsOf, IInv, TypeOK,
     DatabaseTypeOK, PaymentRow
<1>2. ASSUME HandsPayTheTotal
      PROVE  HandsPayTheTotal'
  <2>1. \A p \in PaymentIds : preq[p].pc # "finishOrder"
    BY DEF SerialInv, OneHandler, PaymentOpen, PaymentOpenPcs, PaymentIds
  <2>2. ASSUME NEW p \in PaymentIds, PaidByHand(p)
        PROVE  /\ payments[p].order \in OrderIds
               /\ orders'[payments[p].order] = orders[payments[p].order]
    <3>1. payments[p].order \in OrderIds /\ orders[payments[p].order] # Null
      BY <2>2 DEF PaidByHand, IInv, TypeOK, DatabaseTypeOK, PaymentRow, PaymentHasOrder
    <3> QED
      BY <1>2, <2>1, <2>2, <3>1 DEF HandsPayTheTotal, KeepsFinished, KeepsOrder
  <2> QED
    BY <1>2, <2>2 DEF HandsPayTheTotal, PaidByHand, PaymentsOf
<1> QED
  BY <1>1, <1>2, OrderStepIsCurrent DEF SerialInv

\* A step that changes no table.
LEMMA NoTableChanges ==
    ASSUME IInv, SerialInv, UNCHANGED database
    PROVE  /\ KeepsFinished /\ PaidOrdersStay /\ UniqueNames' /\ PaymentKeepsOrganisation'
           /\ UNCHANGED <<orders, items, payments>>
<1>1. UNCHANGED <<orders, items, payments>>
  BY DEF database
<1>2. KeepsFinished
  BY <1>1 DEF KeepsFinished, KeepsOrder, ItemsOf
<1>3. PaidOrdersStay
  BY <1>1 DEF PaidOrdersStay, PaymentsOf, IInv, PaymentHasOrder
<1> QED
  BY <1>1, <1>2, <1>3 DEF SerialInv, UniqueNames, PaymentKeepsOrganisation

\* A step about an order that is not finished, which changes items of that order
\* or of none, and of others amounts only.
LEMMA ItemsStepKeepsFinished ==
    ASSUME UNCHANGED orders, NEW o \in OrderIds, ~orders[o].isFinished,
           \A i \in ItemIds :
               \/ KeepsItem(i)
               \/ /\ items[i] = Null \/ items[i].order \in {o, Null}
                  /\ items'[i] = Null \/ items'[i].order \in {o, Null}
    PROVE  KeepsFinished
<1> SUFFICES ASSUME NEW x \in OrderIds, orders[x] # Null, orders[x].isFinished
             PROVE  KeepsOrder(x)
  BY DEF KeepsFinished
<1>1. x # o /\ x # Null
  BY NullAssumption
<1>2. ASSUME NEW i \in ItemIds
      PROVE  KeepsItem(i) \/ (i \notin ItemsOf(x) /\ i \notin ItemsOf(x)')
  BY <1>1 DEF ItemsOf
<1>3. ItemsOf(x)' = ItemsOf(x)
  BY <1>2 DEF ItemsOf, KeepsItem
<1> QED
  BY <1>2, <1>3 DEF KeepsOrder, ItemsOf, KeepsItem

-----------------------------------------------------------------------------
(* Orders handlers that end or go on.                                        *)

LEMMA EndKeepsSerialInv ==
    ASSUME IInv, SerialInv, NEW r \in OrderRequests, oreq[r].pc \in OrderOpenPcs,
           NEW outcome \in EndPcs, End(r, outcome), UNCHANGED <<payments, preq, hreq>>,
           KeepsFinished, PaidOrdersStay, UniqueNames'
    PROVE  SerialInv'
<1>1. oreq'[r].pc = outcome /\ Alone(r) /\ r \in OrderOpen
  BY EndGoesOn DEF OrderOpen
<1>2. OrderCurrent(r)'
  BY <1>1, ClosedOrderIsCurrent DEF EndPcs, OrderOpenPcs
<1> QED
  BY <1>1, <1>2, OrderStepKeepsSerialInv

LEMMA EndOnReadKeepsSerialInv ==
    ASSUME IInv, SerialInv, NEW r \in OrderRequests, oreq[r].pc \in OrderOpenPcs,
           NEW outcome \in EndPcs, End(r, outcome), UNCHANGED <<database, preq, hreq>>
    PROVE  SerialInv' /\ KeepsFinished
BY NoTableChanges, EndKeepsSerialInv

LEMMA GotoKeepsRequest ==
    ASSUME IInv, NEW r \in OrderRequests, NEW pc \in OrderOpenPcs, Goto(r, pc)
    PROVE  /\ Alone(r) /\ oreq'[r].pc = pc
           /\ oreq'[r].cmd = oreq[r].cmd /\ oreq'[r].organisation = oreq[r].organisation
           /\ oreq'[r].order = oreq[r].order /\ oreq'[r].clientName = oreq[r].clientName
           /\ oreq'[r].lines = oreq[r].lines /\ oreq'[r].row = oreq[r].row
           /\ oreq'[r].loaded = oreq[r].loaded /\ oreq'[r].bare = oreq[r].bare
BY DEF Goto, IInv, TypeOK, OrdersTypeOK, OrderRequest, Alone

-----------------------------------------------------------------------------
(* Creations.                                                                *)

LEMMA CreateCheckKeepsSerialInv ==
    ASSUME IInv, SerialInv, NEW r \in OrderRequests, CreateCheck(r), UNCHANGED <<preq, hreq>>
    PROVE  SerialInv' /\ KeepsFinished
<1>1. At(r, "create", "checkName") /\ oreq[r].pc \in OrderOpenPcs /\ UNCHANGED database
  BY DEF CreateCheck, At, OrderOpenPcs
<1>2. CASE End(r, "failed") \/ End(r, "rejected")
  BY <1>1, <1>2, EndOnReadKeepsSerialInv DEF EndPcs
<1>3. CASE /\ OrdersWithClientName(oreq[r].clientName) = {}
           /\ Goto(r, "saveOrder")
  <2>1. "saveOrder" \in OrderOpenPcs
    BY DEF OrderOpenPcs
  <2>2. /\ At(r, "create", "saveOrder")' /\ Alone(r)
        /\ oreq'[r].clientName = oreq[r].clientName
        /\ oreq'[r].organisation = oreq[r].organisation
    BY <1>1, <1>3, <2>1, GotoKeepsRequest DEF At
  <2>3. OrderCurrent(r)'
    BY <1>1, <1>3, <2>2 DEF OrderCurrent, At, OrdersWithClientName, database
  <2> QED
    BY <1>1, <2>2, <2>3, NoTableChanges, OrderStepKeepsSerialInv DEF OrderOpen
<1> QED
  BY <1>2, <1>3 DEF CreateCheck

LEMMA CreateSaveOrderKeepsSerialInv ==
    ASSUME IInv, ItemInv, SerialInv, NEW r \in OrderRequests, CreateSaveOrder(r),
           UNCHANGED <<preq, hreq>>
    PROVE  SerialInv' /\ KeepsFinished
<1>1. /\ At(r, "create", "saveOrder") /\ oreq[r].pc \in OrderOpenPcs
      /\ UNCHANGED <<items, payments>> /\ r \in OrderIds
  BY DEF CreateSaveOrder, At, OrderOpenPcs, OrderIds
<1>2. CASE End(r, "failed") /\ UNCHANGED orders
  BY <1>1, <1>2, EndOnReadKeepsSerialInv DEF EndPcs, database
<1>3. ASSUME NEW total, Goto(r, "saveItems"),
             InsertOrder(r, [clientName |-> oreq[r].clientName, totalPrice |-> total,
                             isFinished |-> FALSE, organisation |-> oreq[r].organisation])
      PROVE  SerialInv' /\ KeepsFinished
  <2>1. "saveItems" \in OrderOpenPcs
    BY DEF OrderOpenPcs
  <2>2. At(r, "create", "saveItems")' /\ Alone(r)
    BY <1>1, <1>3, <2>1, GotoKeepsRequest DEF At
  <2>3. /\ ~orders'[r].isFinished
        /\ orders'[r].clientName = oreq[r].clientName
        /\ orders'[r].organisation = oreq[r].organisation
        /\ \A x \in OrderIds : x # r => orders'[x] = orders[x]
    BY <1>1, <1>3 DEF InsertOrder, IInv, TypeOK, DatabaseTypeOK
  <2>4. orders[r] = Null
    BY <1>1 DEF ItemInv, WrittenByOwner, NoOrderYet, At
  <2>5. KeepsFinished
    BY <1>1, <2>3, <2>4 DEF KeepsFinished, KeepsOrder, ItemsOf
  <2>6. PaidOrdersStay
    BY <2>3, <2>4 DEF PaidOrdersStay, PaymentsOf, IInv, PaymentHasOrder
  <2>7. OrdersWithClientName(oreq[r].clientName) = {}
    BY <1>1 DEF SerialInv, OrderCurrent
  <2>8. UniqueNames'
    BY <1>1, <2>3, <2>7, NewNameIsUnique DEF OrdersWithClientName, SerialInv
  <2>9. OrderCurrent(r)'
    BY <2>2, <2>3 DEF OrderCurrent, At
  <2> QED
    BY <1>1, <2>2, <2>5, <2>6, <2>8, <2>9, OrderStepKeepsSerialInv DEF OrderOpen
<1> QED
  BY <1>2, <1>3 DEF CreateSaveOrder

\* The items of a request are at home, or not there.
LEMMA OwnItems ==
    ASSUME ItemInv, NEW r \in OrderRequests, NEW i \in ItemIds, oreq[i[1]].order = oreq[r].order
    PROVE  items[i] = Null \/ items[i].order \in {oreq[r].order, Null}
BY DEF ItemInv, ItemsStayHome

\* Items are inserted for an order that is not finished.
LEMMA InsertItemsKeepsFinished ==
    ASSUME IInv, ItemInv, NEW r \in OrderRequests, NEW lines, oreq[r].order \in OrderIds,
           ~orders[oreq[r].order].isFinished, UNCHANGED orders,
           InsertItems(r, oreq[r].order, lines)
    PROVE  KeepsFinished
<1> DEFINE o == oreq[r].order
<1>1. ASSUME NEW i \in ItemIds
      PROVE  \/ KeepsItem(i)
             \/ /\ items[i] = Null \/ items[i].order \in {o, Null}
                /\ items'[i] = Null \/ items'[i].order \in {o, Null}
  <2>1. CASE \E l \in lines : i = <<r, l.product>>
    <3>1. i[1] = r /\ items'[i].order = o
      BY <2>1 DEF InsertItems
    <3> QED
      BY <3>1, OwnItems
  <2>2. CASE ~\E l \in lines : i = <<r, l.product>>
    BY <2>2 DEF InsertItems, KeepsItem
  <2> QED
    BY <2>1, <2>2
<1> QED
  BY <1>1, ItemsStepKeepsFinished

\* A step that writes items only.
LEMMA OnlyItemsChange ==
    ASSUME IInv, SerialInv, UNCHANGED <<orders, payments>>
    PROVE  PaidOrdersStay /\ UniqueNames'
<1>1. PaidOrdersStay
  BY DEF PaidOrdersStay, PaymentsOf, IInv, PaymentHasOrder
<1> QED
  BY <1>1 DEF SerialInv, UniqueNames

LEMMA CreateSaveItemsKeepsSerialInv ==
    ASSUME IInv, ItemInv, SerialInv, NEW r \in OrderRequests, CreateSaveItems(r),
           UNCHANGED <<preq, hreq>>
    PROVE  SerialInv' /\ KeepsFinished
<1>1. /\ At(r, "create", "saveItems") /\ oreq[r].pc \in OrderOpenPcs
      /\ UNCHANGED <<orders, payments>>
      /\ oreq[r].order = r /\ r \in OrderIds /\ ~orders[r].isFinished
  BY DEF CreateSaveItems, At, OrderOpenPcs, ItemInv, HomeShape, HomeShapeOf, OrderIds,
     SerialInv, OrderCurrent
<1>2. CASE End(r, "failed") /\ UNCHANGED items
  BY <1>1, <1>2, EndOnReadKeepsSerialInv DEF EndPcs, database
<1>3. CASE InsertItems(r, r, oreq[r].lines) /\ Goto(r, "respond")
  <2>1. "respond" \in OrderOpenPcs
    BY DEF OrderOpenPcs
  <2>2. At(r, "create", "respond")' /\ Alone(r)
    BY <1>1, <1>3, <2>1, GotoKeepsRequest DEF At
  <2>3. KeepsFinished
    BY <1>1, <1>3, InsertItemsKeepsFinished
  <2>4. OrderCurrent(r)'
    BY <2>2 DEF OrderCurrent, At
  <2> QED
    BY <1>1, <2>2, <2>3, <2>4, OnlyItemsChange, OrderStepKeepsSerialInv DEF OrderOpen
<1> QED
  BY <1>2, <1>3 DEF CreateSaveItems

LEMMA RespondKeepsSerialInv ==
    ASSUME IInv, SerialInv, NEW r \in OrderRequests, Respond(r), UNCHANGED <<preq, hreq>>
    PROVE  SerialInv' /\ KeepsFinished
<1>1. oreq[r].pc \in OrderOpenPcs /\ UNCHANGED database
  BY DEF Respond, OrderOpenPcs
<1>2. End(r, "empty") \/ End(r, "done")
  BY DEF Respond
<1> QED
  BY <1>1, <1>2, EndOnReadKeepsSerialInv DEF EndPcs

-----------------------------------------------------------------------------
(* Updates and deletions.                                                    *)

LEMMA FindUnfinishedKeepsSerialInv ==
    ASSUME IInv, SerialInv, UNCHANGED <<database, preq, hreq>>,
           NEW r \in OrderRequests, oreq[r].cmd \in {"update", "delete"}, oreq[r].pc = "find",
           NEW pc \in {"checkName", "deleteItems"},
           oreq[r].cmd = "delete" => pc = "deleteItems", FindUnfinished(r, pc)
    PROVE  SerialInv' /\ KeepsFinished
<1> DEFINE linked == ItemsOf(oreq[r].order)
<1>1. oreq[r].pc \in OrderOpenPcs /\ oreq[r] \in OrderRequest /\ OrderCurrent(r)
  BY DEF OrderOpenPcs, IInv, TypeOK, OrdersTypeOK, SerialInv
<1>2. CASE End(r, "rejected")
  BY <1>1, <1>2, EndOnReadKeepsSerialInv DEF EndPcs
<1>3. CASE /\ FoundUnfinished(oreq[r].order, oreq[r].organisation)
           /\ oreq' = [oreq EXCEPT ![r] = [@ EXCEPT
                  !.pc = pc, !.row = orders[oreq[r].order], !.loaded = linked,
                  !.bare = {i \in linked : items[i].product = Null}]]
  <2>1. /\ oreq'[r].pc = pc /\ oreq'[r].loaded = linked /\ Alone(r)
        /\ oreq'[r].row = orders[oreq[r].order]
        /\ oreq'[r].cmd = oreq[r].cmd /\ oreq'[r].order = oreq[r].order
        /\ oreq'[r].lines = oreq[r].lines /\ oreq'[r].organisation = oreq[r].organisation
    <3> HIDE DEF linked
    <3> QED
      BY <1>1, <1>3 DEF IInv, TypeOK, OrdersTypeOK, OrderRequest, Alone
  <2>2. /\ FoundUnfinished(oreq[r].order, oreq[r].organisation)'
        /\ oreq'[r].loaded = ItemsOf(oreq[r].order)'
        /\ oreq'[r].row = orders'[oreq'[r].order]
    BY <1>3, <2>1 DEF FoundUnfinished, OrderFound, ItemsOf, database
  <2> HIDE DEF linked
  <2>4. OrderCurrent(r)'
    BY <2>1, <2>2 DEF OrderCurrent, At
  <2> QED
    BY <1>1, <2>1, <2>4, NoTableChanges, OrderStepKeepsSerialInv DEF OrderOpen
<1> QED
  BY <1>2, <1>3 DEF FindUnfinished

LEMMA UpdateCheckKeepsSerialInv ==
    ASSUME IInv, SerialInv, NEW r \in OrderRequests, UpdateCheck(r), UNCHANGED <<preq, hreq>>
    PROVE  SerialInv' /\ KeepsFinished
<1> DEFINE request == oreq[r]
           named == OrdersWithClientName(request.clientName)
<1>1. /\ At(r, "update", "checkName") /\ oreq[r].pc \in OrderOpenPcs /\ UNCHANGED database
      /\ OrderCurrent(r)
  BY DEF UpdateCheck, At, OrderOpenPcs, SerialInv
<1>2. CASE End(r, "failed") \/ End(r, "rejected")
  BY <1>1, <1>2, EndOnReadKeepsSerialInv DEF EndPcs
<1>3. CASE (named = {} \/ request.order \in named) /\ Goto(r, "saveOrder")
  <2>1. "saveOrder" \in OrderOpenPcs
    BY DEF OrderOpenPcs
  <2>2. /\ At(r, "update", "saveOrder")' /\ Alone(r)
        /\ oreq'[r].organisation = oreq[r].organisation /\ oreq'[r].order = oreq[r].order
        /\ oreq'[r].clientName = oreq[r].clientName /\ oreq'[r].lines = oreq[r].lines
        /\ oreq'[r].row = oreq[r].row /\ oreq'[r].loaded = oreq[r].loaded
    BY <1>1, <1>3, <2>1, GotoKeepsRequest DEF At
  <2>3. named \subseteq {request.order}
    BY <1>3 DEF SerialInv, UniqueNames, OrdersWithClientName
  <2>4. /\ OrdersWithClientName(oreq[r].clientName)' \subseteq {oreq'[r].order}
        /\ FoundUnfinished(oreq[r].order, oreq[r].organisation)'
        /\ oreq'[r].loaded = ItemsOf(oreq[r].order)'
        /\ oreq'[r].row = orders'[oreq'[r].order]
    BY <1>1, <2>2, <2>3 DEF OrderCurrent, At, OrdersWithClientName, FoundUnfinished,
       OrderFound, ItemsOf, database
  <2>6. OrderCurrent(r)'
    BY <2>2, <2>4 DEF OrderCurrent, At
  <2> QED
    BY <1>1, <2>2, <2>6, NoTableChanges, OrderStepKeepsSerialInv DEF OrderOpen
<1> QED
  BY <1>2, <1>3 DEF UpdateCheck

\* The items that an update has loaded are linked to the order already.
LEMMA SavesTheSameItems ==
    ASSUME IInv, NEW o \in OrderIds, NEW row, SaveLoadedOrder(o, row, ItemsOf(o))
    PROVE  UNCHANGED items
<1>1. ASSUME NEW i \in ItemIds
      PROVE  items'[i] = items[i]
  <2>1. items[i] \in ItemRow \cup {Null}
    BY DEF IInv, TypeOK, DatabaseTypeOK
  <2>2. CASE i \in ItemsOf(o)
    <3>1. items[i] \in ItemRow /\ items[i].order = o
      BY <2>1, <2>2 DEF ItemsOf
    <3>2. items'[i] = [items[i] EXCEPT !.order = o]
      BY <2>2 DEF SaveLoadedOrder, ItemsOf
    <3> QED
      BY <3>1, <3>2 DEF ItemRow
  <2>3. CASE i \notin ItemsOf(o)
    BY <2>3 DEF SaveLoadedOrder, ItemsOf
  <2> QED
    BY <2>2, <2>3
<1>2. items' = [i \in ItemIds |-> items'[i]]
  BY DEF SaveLoadedOrder
<1>3. items = [i \in ItemIds |-> items[i]]
  BY DEF IInv, TypeOK, DatabaseTypeOK
<1> QED
  BY <1>1, <1>2, <1>3

\* The order keeps its organisation, stays open, and takes the name it had or
\* one that is free.
LEMMA SavesTheOrder ==
    ASSUME IInv, NEW r \in OrderRequests, At(r, "update", "saveOrder"), OrderCurrent(r),
           NEW name \in ClientNames \cup {Null}, NEW total \in 0 .. MaxInt,
           SaveLoadedOrder(oreq[r].order,
               [oreq[r].row EXCEPT !.clientName = name, !.totalPrice = total], oreq[r].loaded)
    PROVE  /\ oreq[r].order \in OrderIds
           /\ UNCHANGED items
           /\ orders[oreq[r].order] # Null /\ ~orders[oreq[r].order].isFinished
           /\ orders'[oreq[r].order] # Null
           /\ orders'[oreq[r].order].organisation = oreq[r].organisation
           /\ orders[oreq[r].order].organisation = oreq[r].organisation
           /\ orders'[oreq[r].order].clientName = name
           /\ ~orders'[oreq[r].order].isFinished
           /\ \A x \in OrderIds : x # oreq[r].order => orders'[x] = orders[x]
<1> DEFINE o == oreq[r].order
           saved == [oreq[r].row EXCEPT !.clientName = name, !.totalPrice = total]
<1>1. o \in OrderIds /\ oreq[r].loaded = ItemsOf(o) /\ oreq[r].row = orders[o]
      /\ FoundUnfinished(o, oreq[r].organisation)
  BY DEF At, IInv, OrderShape, OrderCurrent, OrderOpenPcs
<1>2. /\ orders[o] \in OrderRow /\ orders[o] # Null /\ ~orders[o].isFinished
      /\ orders[o].organisation = oreq[r].organisation
  BY <1>1 DEF IInv, TypeOK, DatabaseTypeOK, FoundUnfinished, OrderFound
<1>3. UNCHANGED items
  BY <1>1, SavesTheSameItems
<1>4. orders' = [orders EXCEPT ![o] = [saved EXCEPT !.organisation = orders[o].organisation]]
  BY <1>2 DEF SaveLoadedOrder
<1>5. orders'[o] = [clientName |-> name, totalPrice |-> total, isFinished |-> FALSE,
                    organisation |-> oreq[r].organisation]
  BY <1>1, <1>2, <1>4 DEF OrderRow, IInv, TypeOK, DatabaseTypeOK
<1>6. \A x \in OrderIds : x # o => orders'[x] = orders[x]
  BY <1>4 DEF IInv, TypeOK, DatabaseTypeOK
<1>7. orders'[o] \in OrderRow
  BY <1>2, <1>5 DEF OrderRow
<1>8. orders'[o] # Null
  BY <1>7, NullAssumption
<1> QED
  BY <1>1, <1>2, <1>3, <1>5, <1>6, <1>8

LEMMA UpdateSaveOrderKeepsSerialInv ==
    ASSUME IInv, SerialInv, NEW r \in OrderRequests, UpdateSaveOrder(r), UNCHANGED <<preq, hreq>>
    PROVE  SerialInv' /\ KeepsFinished
<1> DEFINE request == oreq[r]
           o == request.order
           org == request.organisation
           name == IF request.clientName # Null THEN request.clientName
                   ELSE request.row.clientName
           total == TotalPrice(request.lines)
<1>1. /\ At(r, "update", "saveOrder") /\ oreq[r].pc \in OrderOpenPcs /\ UNCHANGED payments
      /\ OrderCurrent(r) /\ request \in OrderRequest
      /\ FoundUnfinished(o, org) /\ request.row = orders[o]
  BY DEF UpdateSaveOrder, At, OrderOpenPcs, SerialInv, IInv, TypeOK, OrdersTypeOK, OrderCurrent
<1>2. CASE End(r, "failed") /\ UNCHANGED <<orders, items>>
  BY <1>1, <1>2, EndOnReadKeepsSerialInv DEF EndPcs, database
<1>3. CASE /\ total \in 0 .. MaxInt /\ Goto(r, "deleteItems")
           /\ SaveLoadedOrder(o, [request.row EXCEPT !.clientName = name, !.totalPrice = total],
                              request.loaded)
  <2>1. "deleteItems" \in OrderOpenPcs
    BY DEF OrderOpenPcs
  <2>2. /\ At(r, "update", "deleteItems")' /\ Alone(r)
        /\ oreq'[r].organisation = org /\ oreq'[r].order = o
        /\ oreq'[r].lines = request.lines /\ oreq'[r].loaded = request.loaded
    BY <1>1, <1>3, <2>1, GotoKeepsRequest DEF At
  <2>3. /\ orders[o] \in OrderRow /\ name \in ClientNames \cup {Null}
    BY <1>1 DEF IInv, TypeOK, DatabaseTypeOK, FoundUnfinished, OrderFound, OrderShape, At,
       OrderRequest, OrderRow
  <2> HIDE DEF total, name
  <2>4. /\ o \in OrderIds /\ UNCHANGED items
        /\ orders[o] # Null /\ ~orders[o].isFinished
        /\ orders'[o] # Null /\ orders'[o].organisation = org /\ orders[o].organisation = org
        /\ orders'[o].clientName = name /\ ~orders'[o].isFinished
        /\ \A x \in OrderIds : x # o => orders'[x] = orders[x]
    BY <1>1, <1>3, <2>3, SavesTheOrder
  <2>5. KeepsFinished
    BY <2>4 DEF KeepsFinished, KeepsOrder, ItemsOf
  <2>6. PaidOrdersStay
    BY <1>1, <2>4 DEF PaidOrdersStay, PaymentsOf, IInv, PaymentHasOrder
  <2>7. ASSUME NEW x \in OrderIds, x # o, orders[x] # Null, name # Null
        PROVE  orders[x].clientName # name
    <3>1. CASE request.clientName # Null
      <4>1. name = request.clientName
        BY <3>1 DEF name
      <4>2. OrdersWithClientName(request.clientName) \subseteq {o}
        BY <1>1 DEF OrderCurrent
      <4> QED
        BY <2>7, <3>1, <4>1, <4>2 DEF OrdersWithClientName
    <3>2. CASE request.clientName = Null
      <4>1. name = orders[o].clientName
        BY <1>1, <3>2 DEF name
      <4> QED
        BY <2>4, <2>7, <4>1 DEF SerialInv, UniqueNames
    <3> QED
      BY <3>1, <3>2
  <2>8. UniqueNames'
    BY <2>4, <2>7, NewNameIsUnique DEF SerialInv
  <2>9. /\ FoundUnfinished(oreq[r].order, oreq[r].organisation)'
        /\ oreq'[r].loaded = ItemsOf(oreq[r].order)'
    BY <1>1, <2>2, <2>4 DEF OrderCurrent, At, FoundUnfinished, OrderFound, ItemsOf
  <2>11. OrderCurrent(r)'
    BY <2>2, <2>9 DEF OrderCurrent, At
  <2> QED
    BY <1>1, <2>2, <2>5, <2>6, <2>8, <2>11, OrderStepKeepsSerialInv DEF OrderOpen
<1> QED
  BY <1>2, <1>3 DEF UpdateSaveOrder, Storable

\* An update or deletion that writes items of its order and goes on.
LEMMA ItemsStepKeepsSerialInv ==
    ASSUME IInv, SerialInv, NEW r \in OrderRequests, UNCHANGED <<orders, payments, preq, hreq>>,
           oreq[r].cmd \in {"update", "delete"}, oreq[r].pc \in OrderOpenPcs \ {"find"},
           NEW pc \in OrderOpenPcs \ {"find", "checkName", "saveOrder", "deleteItems", "updateItems"},
           Goto(r, pc),
           \A i \in ItemIds :
               \/ KeepsItem(i)
               \/ /\ items[i] = Null \/ items[i].order \in {oreq[r].order, Null}
                  /\ items'[i] = Null \/ items'[i].order \in {oreq[r].order, Null}
    PROVE  SerialInv' /\ KeepsFinished
<1>1. /\ OrderCurrent(r) /\ oreq[r].order \in OrderIds
      /\ FoundUnfinished(oreq[r].order, oreq[r].organisation)
  BY DEF SerialInv, OrderCurrent, IInv, OrderShape, OrderOpenPcs
<1>2. /\ Alone(r) /\ oreq'[r].pc = pc /\ oreq'[r].cmd = oreq[r].cmd
      /\ oreq'[r].organisation = oreq[r].organisation /\ oreq'[r].order = oreq[r].order
      /\ oreq'[r].lines = oreq[r].lines
  BY GotoKeepsRequest
<1>3. KeepsFinished
  BY <1>1, ItemsStepKeepsFinished DEF FoundUnfinished
<1>4. FoundUnfinished(oreq[r].order, oreq[r].organisation)'
  BY <1>1, <1>2 DEF FoundUnfinished, OrderFound
<1>6. OrderCurrent(r)'
  BY <1>2, <1>4 DEF OrderCurrent, At
<1> QED
  BY <1>2, <1>3, <1>6, OnlyItemsChange, OrderStepKeepsSerialInv DEF OrderOpen

LEMMA UpdateDeleteItemsKeepsSerialInv ==
    ASSUME IInv, SerialInv, NEW r \in OrderRequests, UpdateDeleteItems(r),
           UNCHANGED <<preq, hreq>>
    PROVE  SerialInv' /\ KeepsFinished
<1>1. /\ At(r, "update", "deleteItems") /\ Goto(r, "createItems")
      /\ UNCHANGED <<orders, payments>>
      /\ DeleteItems(oreq[r].loaded \ {l.item : l \in oreq[r].lines})
  BY DEF UpdateDeleteItems
<1>2. oreq[r].loaded = ItemsOf(oreq[r].order)
  BY <1>1 DEF SerialInv, OrderCurrent, At
<1>3. \A i \in ItemIds :
         KeepsItem(i) \/ (items'[i] = Null /\ items[i].order = oreq[r].order)
  BY <1>1, <1>2 DEF DeleteItems, ItemsOf, KeepsItem
<1> QED
  BY <1>1, <1>3, ItemsStepKeepsSerialInv DEF OrderOpenPcs, At

LEMMA UpdateCreateItemsKeepsSerialInv ==
    ASSUME IInv, ItemInv, SerialInv, NEW r \in OrderRequests, UpdateCreateItems(r),
           UNCHANGED <<preq, hreq>>
    PROVE  SerialInv' /\ KeepsFinished
<1>1. /\ At(r, "update", "createItems") /\ UNCHANGED <<orders, payments>>
      /\ oreq[r].pc \in OrderOpenPcs
  BY DEF UpdateCreateItems, At, OrderOpenPcs
<1>2. CASE End(r, "failed") /\ UNCHANGED items
  BY <1>1, <1>2, EndOnReadKeepsSerialInv DEF EndPcs, database
<1>3. ASSUME NEW lines, InsertItems(r, oreq[r].order, lines), Goto(r, "findItems")
      PROVE  SerialInv' /\ KeepsFinished
  <2>1. ASSUME NEW i \in ItemIds
        PROVE  \/ KeepsItem(i)
               \/ /\ items[i] = Null \/ items[i].order \in {oreq[r].order, Null}
                  /\ items'[i] = Null \/ items'[i].order \in {oreq[r].order, Null}
    <3>1. CASE \E l \in lines : i = <<r, l.product>>
      <4>1. i[1] = r /\ items'[i].order = oreq[r].order
        BY <1>3, <3>1 DEF InsertItems
      <4> QED
        BY <4>1, OwnItems
    <3>2. CASE ~\E l \in lines : i = <<r, l.product>>
      BY <1>3, <3>2 DEF InsertItems, KeepsItem
    <3> QED
      BY <3>1, <3>2
  <2> QED
    BY <1>1, <1>3, <2>1, ItemsStepKeepsSerialInv DEF OrderOpenPcs, At
<1> QED
  BY <1>2, <1>3 DEF UpdateCreateItems

LEMMA UpdateFindItemsKeepsSerialInv ==
    ASSUME IInv, SerialInv, NEW r \in OrderRequests, UpdateFindItems(r), UNCHANGED <<preq, hreq>>
    PROVE  SerialInv' /\ KeepsFinished
<1> DEFINE found == {i \in ItemIds : items[i] # Null /\ \E l \in oreq[r].lines : l.item = i}
<1>1. /\ UNCHANGED database /\ oreq[r].pc = "findItems" /\ oreq[r].cmd = "update"
      /\ oreq[r].pc \in OrderOpenPcs /\ OrderCurrent(r)
      /\ FoundUnfinished(oreq[r].order, oreq[r].organisation)
      /\ oreq' = [oreq EXCEPT ![r] = [@ EXCEPT !.pc = "updateItems", !.bare = {},
                                               !.loaded = found]]
  BY DEF UpdateFindItems, At, SerialInv, OrderCurrent, OrderOpenPcs
<1> HIDE DEF found
<1>2. /\ oreq'[r].pc = "updateItems" /\ oreq'[r].loaded = found /\ Alone(r)
      /\ oreq'[r].cmd = oreq[r].cmd /\ oreq'[r].order = oreq[r].order
      /\ oreq'[r].lines = oreq[r].lines /\ oreq'[r].organisation = oreq[r].organisation
  BY <1>1 DEF IInv, TypeOK, OrdersTypeOK, OrderRequest, Alone
<1>3. \A i \in oreq'[r].loaded : items'[i] # Null /\ \E l \in oreq'[r].lines : l.item = i
  BY <1>1, <1>2 DEF found, database
<1>4. FoundUnfinished(oreq[r].order, oreq[r].organisation)'
  BY <1>1, <1>2 DEF FoundUnfinished, OrderFound, database
<1>6. OrderCurrent(r)'
  BY <1>1, <1>2, <1>3, <1>4 DEF OrderCurrent, At
<1> QED
  BY <1>1, <1>2, <1>6, NoTableChanges, OrderStepKeepsSerialInv DEF OrderOpen

LEMMA UpdateSaveItemsKeepsSerialInv ==
    ASSUME IInv, ItemInv, SerialInv, NEW r \in OrderRequests, UpdateSaveItems(r),
           UNCHANGED <<preq, hreq>>
    PROVE  SerialInv' /\ KeepsFinished
<1>1. /\ At(r, "update", "updateItems") /\ UNCHANGED <<orders, payments>> /\ Goto(r, "respond")
      /\ OrderCurrent(r) /\ oreq[r].pc \in OrderOpenPcs
  BY DEF UpdateSaveItems, SerialInv, At, OrderOpenPcs
<1>2. PICK line \in [oreq[r].loaded -> oreq[r].lines] :
         SaveLoadedItems([i \in oreq[r].loaded |-> line[i].amount])
  BY DEF UpdateSaveItems
<1> DEFINE amounts == [i \in oreq[r].loaded |-> line[i].amount]
<1>5. \A i \in oreq[r].loaded : amounts[i] \in Nat \ {0}
  BY <1>2 DEF IInv, TypeOK, OrdersTypeOK, OrderRequest, Line
<1>6. DOMAIN amounts = oreq[r].loaded /\ SaveLoadedItems(amounts)
  BY <1>2
<1> HIDE DEF amounts
<1>3. ASSUME NEW i \in ItemIds
      PROVE  KeepsItem(i)
  <2>1. CASE i \notin oreq[r].loaded
    BY <1>6, <2>1 DEF SaveLoadedItems, KeepsItem
  <2>2. CASE i \in oreq[r].loaded
    <3>1. items[i] # Null
      BY <1>1, <2>2 DEF OrderCurrent, At
    <3>2. items[i] \in ItemRow /\ items'[i] = [items[i] EXCEPT !.amount = amounts[i]]
      BY <1>6, <2>2, <3>1 DEF SaveLoadedItems, IInv, TypeOK, DatabaseTypeOK
    <3>3. items'[i].order = items[i].order /\ items'[i].product = items[i].product
      BY <3>2 DEF ItemRow
    <3>4. items'[i] \in ItemRow
      BY <1>5, <2>2, <3>2 DEF ItemRow
    <3> QED
      BY <3>1, <3>3, <3>4, NullAssumption DEF KeepsItem
  <2> QED
    BY <2>1, <2>2
<1> QED
  BY <1>1, <1>3, ItemsStepKeepsSerialInv DEF OrderOpenPcs, At

LEMMA DeleteDeleteItemsKeepsSerialInv ==
    ASSUME IInv, SerialInv, NEW r \in OrderRequests, DeleteDeleteItems(r),
           UNCHANGED <<preq, hreq>>
    PROVE  SerialInv' /\ KeepsFinished
<1>1. /\ At(r, "delete", "deleteItems") /\ UNCHANGED <<orders, payments>>
      /\ DeleteItems(oreq[r].loaded) /\ oreq[r].pc \in OrderOpenPcs
      /\ oreq[r].loaded = ItemsOf(oreq[r].order)
  BY DEF DeleteDeleteItems, SerialInv, OrderCurrent, At, OrderOpenPcs
<1>2. CASE oreq[r].loaded = {} /\ End(r, "failed")
  <2>1. \A i \in ItemIds : items'[i] = items[i]
    BY <1>1, <1>2 DEF DeleteItems
  <2>2. KeepsFinished
    BY <1>1, <2>1 DEF KeepsFinished, KeepsOrder, ItemsOf
  <2> QED
    BY <1>1, <1>2, <2>2, OnlyItemsChange, EndKeepsSerialInv DEF EndPcs
<1>3. CASE Goto(r, "deleteOrder")
  <2>1. \A i \in ItemIds :
           KeepsItem(i) \/ (items'[i] = Null /\ items[i].order = oreq[r].order)
    BY <1>1 DEF DeleteItems, ItemsOf, KeepsItem
  <2> QED
    BY <1>1, <1>3, <2>1, ItemsStepKeepsSerialInv DEF OrderOpenPcs, At
<1> QED
  BY <1>2, <1>3 DEF DeleteDeleteItems

LEMMA DeleteDeleteOrderKeepsSerialInv ==
    ASSUME IInv, SerialInv, NEW r \in OrderRequests, DeleteDeleteOrder(r),
           UNCHANGED <<preq, hreq>>
    PROVE  SerialInv' /\ KeepsFinished
<1> DEFINE o == oreq[r].order
<1>1. /\ At(r, "delete", "deleteOrder") /\ UNCHANGED <<items, payments>>
      /\ oreq[r].pc \in OrderOpenPcs
      /\ FoundUnfinished(o, oreq[r].organisation) /\ o \in OrderIds
  BY DEF DeleteDeleteOrder, SerialInv, OrderCurrent, At, OrderOpenPcs, IInv, OrderShape
<1>2. CASE End(r, "failed") /\ UNCHANGED orders
  BY <1>1, <1>2, EndOnReadKeepsSerialInv DEF EndPcs, database
<1>3. CASE ~Referenced(o) /\ End(r, "done") /\ DeleteOrder(o)
  <2>1. /\ orders'[o] = Null /\ \A x \in OrderIds : x # o => orders'[x] = orders[x]
    BY <1>1, <1>3 DEF DeleteOrder, IInv, TypeOK, DatabaseTypeOK
  <2>2. ~orders[o].isFinished /\ PaymentsOf(o) = {}
    BY <1>1, <1>3 DEF FoundUnfinished, Referenced
  <2>3. KeepsFinished
    BY <1>1, <2>1, <2>2 DEF KeepsFinished, KeepsOrder, ItemsOf
  <2>4. PaidOrdersStay
    BY <2>1, <2>2 DEF PaidOrdersStay, PaymentsOf, IInv, PaymentHasOrder
  <2>5. UniqueNames'
    BY <2>1, NamesStayUnique DEF SerialInv
  <2> QED
    BY <1>1, <1>3, <2>3, <2>4, <2>5, EndKeepsSerialInv DEF EndPcs
<1> QED
  BY <1>2, <1>3 DEF DeleteDeleteOrder

LEMMA OrderStepKeepsSerial ==
    ASSUME IInv, ItemInv, SerialInv, NEW r \in OrderRequests,
           OrderStep(r) \/ OrderAbort(r), UNCHANGED <<preq, hreq>>
    PROVE  SerialInv' /\ KeepsFinished
<1>1. CASE UpdateFind(r)
  BY <1>1, FindUnfinishedKeepsSerialInv DEF UpdateFind, At
<1>2. CASE DeleteFind(r)
  BY <1>2, FindUnfinishedKeepsSerialInv DEF DeleteFind, At
<1>3. CASE OrderAbort(r)
  BY <1>3, EndOnReadKeepsSerialInv DEF OrderAbort, EndPcs
<1> QED
  BY <1>1, <1>2, <1>3, CreateCheckKeepsSerialInv, CreateSaveOrderKeepsSerialInv,
     CreateSaveItemsKeepsSerialInv, UpdateCheckKeepsSerialInv, UpdateSaveOrderKeepsSerialInv,
     UpdateDeleteItemsKeepsSerialInv, UpdateCreateItemsKeepsSerialInv,
     UpdateFindItemsKeepsSerialInv, UpdateSaveItemsKeepsSerialInv,
     DeleteDeleteItemsKeepsSerialInv, DeleteDeleteOrderKeepsSerialInv, RespondKeepsSerialInv
     DEF OrderStep

-----------------------------------------------------------------------------
(* Requests that arrive when nothing runs.                                   *)

\* A request of the orders API.
LEMMA OrderReceiveKeepsSerialInv ==
    ASSUME MaxOverlap = 1, IInv, SerialInv, OpenHandlers < MaxOverlap,
           UNCHANGED <<preq, hreq>>, NEW r \in OrderRequests, NEW request, Receive(r, request),
           request.cmd = "create" => request.pc = "checkName",
           request.cmd # "create" => request.pc = "find"
    PROVE  SerialInv' /\ KeepsFinished
<1>1. /\ OrderOpen = {} /\ PaymentOpen = {} /\ WebhookOpen = {}
      /\ UNCHANGED database
  BY NobodyRuns DEF SerialInv, Receive
<1>2. oreq'[r] = request /\ Alone(r)
  BY DEF Receive, IInv, TypeOK, OrdersTypeOK, Alone
<1>3. OneHandler'
  BY <1>1, <1>2 DEF OneHandler, OrderOpen, PaymentOpen, WebhookOpen, Alone
<1>4. OrderCurrent(r)'
  BY <1>2 DEF OrderCurrent, At, Alone
<1>5. \A q \in OrderRequests : OrderCurrent(q)'
  BY <1>1, <1>2, <1>4, ClosedOrderIsCurrent DEF OrderOpen, Alone
<1>6. \A p \in PaymentRequests : PaymentCurrent(p)'
  BY <1>1, ClosedPaymentIsCurrent DEF PaymentOpen
<1>7. /\ KeepsFinished /\ UniqueNames' /\ PaymentKeepsOrganisation'
      /\ UNCHANGED <<orders, payments>>
  BY <1>1, NoTableChanges
<1>8. HandsPayTheTotal => HandsPayTheTotal'
  BY <1>7 DEF HandsPayTheTotal, PaidByHand, PaymentsOf
<1> QED
  BY <1>3, <1>5, <1>6, <1>7, <1>8 DEF SerialInv

LEMMA OrdersReceiveKeepsSerialInv ==
    ASSUME MaxOverlap = 1, IInv, ItemInv, SerialInv, OpenHandlers < MaxOverlap,
           UNCHANGED <<preq, hreq>>, OrdersReceive
    PROVE  SerialInv' /\ KeepsFinished
<1>1. PICK r \in OrderRequests, org \in Organisations :
         \/ \E name \in ClientNames \cup {Null}, cart \in Carts :
               ReceiveCreate(r, org, name, cart)
         \/ \E o \in Known, name \in ClientNames \cup {Null}, cart \in Carts :
               \E lines \in LinesFor(o, cart) : ReceiveUpdate(r, o, org, name, lines)
         \/ \E o \in Known : ReceiveDelete(r, o, org)
  BY DEF OrdersReceive
<1>2. PICK request :
         /\ Receive(r, request)
         /\ request.cmd = "create" => request.pc = "checkName"
         /\ request.cmd # "create" => request.pc = "find"
  <2>1. CASE \E name \in ClientNames \cup {Null}, cart \in Carts :
                ReceiveCreate(r, org, name, cart)
    <3>1. PICK name, lines : Receive(r, [NoOrderRequest EXCEPT
                 !.cmd = "create", !.pc = "checkName", !.organisation = org,
                 !.order = r, !.clientName = name, !.lines = lines])
      BY <2>1 DEF ReceiveCreate
    <3> DEFINE q == [NoOrderRequest EXCEPT
                 !.cmd = "create", !.pc = "checkName", !.organisation = org,
                 !.order = r, !.clientName = name, !.lines = lines]
    <3>2. q.cmd = "create" /\ q.pc = "checkName"
      BY DEF NoOrderRequest
    <3>3. Receive(r, q)
      BY <3>1
    <3> HIDE DEF q
    <3> QED
      BY <3>2, <3>3
  <2>2. CASE \E o \in Known, name \in ClientNames \cup {Null}, cart \in Carts :
                \E lines \in LinesFor(o, cart) : ReceiveUpdate(r, o, org, name, lines)
    <3>1. PICK o, name, lines : Receive(r, [NoOrderRequest EXCEPT
                 !.cmd = "update", !.pc = "find", !.organisation = org,
                 !.order = o, !.clientName = name, !.lines = lines])
      BY <2>2 DEF ReceiveUpdate
    <3> DEFINE q == [NoOrderRequest EXCEPT
                 !.cmd = "update", !.pc = "find", !.organisation = org,
                 !.order = o, !.clientName = name, !.lines = lines]
    <3>2. q.cmd = "update" /\ q.pc = "find"
      BY DEF NoOrderRequest
    <3>3. Receive(r, q)
      BY <3>1
    <3> HIDE DEF q
    <3> QED
      BY <3>2, <3>3
  <2>3. CASE \E o \in Known : ReceiveDelete(r, o, org)
    <3>1. PICK o : Receive(r, [NoOrderRequest EXCEPT
                 !.cmd = "delete", !.pc = "find", !.organisation = org, !.order = o])
      BY <2>3 DEF ReceiveDelete
    <3> DEFINE q == [NoOrderRequest EXCEPT
                 !.cmd = "delete", !.pc = "find", !.organisation = org, !.order = o]
    <3>2. q.cmd = "delete" /\ q.pc = "find"
      BY DEF NoOrderRequest
    <3>3. Receive(r, q)
      BY <3>1
    <3> HIDE DEF q
    <3> QED
      BY <3>2, <3>3
  <2> QED
    BY <1>1, <2>1, <2>2, <2>3
<1> QED
  BY <1>2, OrderReceiveKeepsSerialInv

-----------------------------------------------------------------------------
(* Payments and callbacks: but for the insertion of a payment, they only     *)
(* ever finish orders and change the status of payments.                     *)

RowsFinish ==
    /\ UNCHANGED items
    /\ \A o \in OrderIds :
          /\ orders[o] = Null => orders'[o] = Null
          /\ orders[o] # Null =>
                /\ orders'[o] # Null
                /\ orders'[o].organisation = orders[o].organisation
                /\ orders'[o].clientName = orders[o].clientName
                /\ orders'[o].totalPrice = orders[o].totalPrice
                /\ orders[o].isFinished => orders'[o] = orders[o]

BillsStay ==
    \A p \in PaymentIds :
        /\ payments[p] = Null => payments'[p] = Null
        /\ payments[p] # Null =>
              /\ payments'[p] # Null
              /\ payments'[p].order = payments[p].order
              /\ payments'[p].amount = payments[p].amount
              /\ payments'[p].type = payments[p].type
              /\ payments'[p].organisation = payments[p].organisation

\* No payment by hand is left with its order open.
HandsFinish ==
    \A p \in PaymentIds : PaidByHand(p) /\ preq[p].pc = "finishOrder" =>
        preq'[p].pc = "finishOrder" \/ orders'[payments[p].order].isFinished

LEMMA RowsStay ==
    ASSUME UNCHANGED <<orders, items>>
    PROVE  RowsFinish
BY DEF RowsFinish

LEMMA FinishOrderFinishesRows ==
    ASSUME IInv, NEW o \in OrderIds, FinishOrder(o), UNCHANGED items
    PROVE  RowsFinish /\ (orders[o] # Null => orders'[o].isFinished)
<1>1. orders \in [OrderIds -> OrderRow \cup {Null}]
  BY DEF IInv, TypeOK, DatabaseTypeOK
<1>2. CASE orders[o] = Null
  BY <1>2, RowsStay DEF FinishOrder
<1>3. CASE orders[o] # Null
  <2> DEFINE row == [orders[o] EXCEPT !.isFinished = TRUE]
  <2>1. orders' = [orders EXCEPT ![o] = row]
    BY <1>3 DEF FinishOrder
  <2>2. /\ row \in OrderRow /\ row.isFinished
        /\ row.organisation = orders[o].organisation /\ row.clientName = orders[o].clientName
        /\ row.totalPrice = orders[o].totalPrice
        /\ orders[o].isFinished => row = orders[o]
    BY <1>1, <1>3 DEF OrderRow
  <2> HIDE DEF row
  <2>3. row # Null
    BY <2>2, NullAssumption
  <2> QED
    BY <1>1, <1>3, <2>1, <2>2, <2>3 DEF RowsFinish
<1> QED
  BY <1>2, <1>3

LEMMA BillsUnchanged ==
    ASSUME UNCHANGED payments
    PROVE  BillsStay
BY DEF BillsStay

LEMMA UpdatePaymentKeepsBill ==
    ASSUME IInv, NEW q \in PaymentIds, payments[q] # Null, NEW status \in PaymentStatuses,
           NEW data \in PayconiqStatuses, UpdatePayment(q, status, data)
    PROVE  BillsStay
<1> DEFINE row == [payments[q] EXCEPT !.status = status, !.data = data]
<1>1. payments \in [PaymentIds -> PaymentRow \cup {Null}]
  BY DEF IInv, TypeOK, DatabaseTypeOK
<1>2. /\ row \in PaymentRow /\ row.order = payments[q].order /\ row.type = payments[q].type
      /\ row.amount = payments[q].amount /\ row.organisation = payments[q].organisation
  BY <1>1 DEF PaymentRow
<1>3. payments' = [payments EXCEPT ![q] = row]
  BY DEF UpdatePayment
<1> HIDE DEF row
<1>4. row # Null
  BY <1>2, NullAssumption
<1> QED
  BY <1>1, <1>2, <1>3, <1>4 DEF BillsStay

\* What such a step leaves of SerialInv.
LEMMA TablesGoOn ==
    ASSUME IInv, SerialInv, RowsFinish, BillsStay, ~Failures => HandsFinish
    PROVE  /\ KeepsFinished /\ UniqueNames' /\ PaymentKeepsOrganisation'
           /\ ~Failures => HandsPayTheTotal'
<1>1. KeepsFinished
  BY DEF RowsFinish, KeepsFinished, KeepsOrder, ItemsOf
<1>2. UniqueNames'
  BY NamesStayUnique DEF RowsFinish, SerialInv
<1>3. \A p \in PaymentIds : payments[p] # Null =>
         payments[p].order \in OrderIds /\ orders[payments[p].order] # Null
  BY DEF IInv, TypeOK, DatabaseTypeOK, PaymentHasOrder, PaymentRow
<1>4. PaymentKeepsOrganisation'
  BY <1>3 DEF SerialInv, PaymentKeepsOrganisation, RowsFinish, BillsStay
<1>5. ASSUME ~Failures
      PROVE  HandsPayTheTotal'
  <2>1. HandsPayTheTotal /\ HandsFinish
    BY <1>5 DEF SerialInv
  <2>2. ASSUME NEW p \in PaymentIds, PaidByHand(p)'
        PROVE  /\ PaidByHand(p) /\ payments'[p].order = payments[p].order
               /\ payments'[p].amount = orders'[payments'[p].order].totalPrice
               /\ preq'[p].pc = "finishOrder" \/ orders'[payments'[p].order].isFinished
    <3>1. PaidByHand(p) /\ payments'[p].order = payments[p].order
      BY <2>2 DEF PaidByHand, BillsStay
    <3>2. payments[p].order \in OrderIds /\ orders[payments[p].order] # Null
      BY <1>3, <3>1 DEF PaidByHand
    <3>3. /\ payments[p].amount = orders[payments[p].order].totalPrice
          /\ preq[p].pc = "finishOrder" \/ orders[payments[p].order].isFinished
      BY <2>1, <3>1 DEF HandsPayTheTotal
    <3>4. payments'[p].amount = orders'[payments'[p].order].totalPrice
      BY <3>1, <3>2, <3>3 DEF PaidByHand, BillsStay, RowsFinish
    <3>5. preq'[p].pc = "finishOrder" \/ orders'[payments[p].order].isFinished
      BY <2>1, <3>1, <3>2, <3>3 DEF HandsFinish, RowsFinish
    <3> QED
      BY <3>1, <3>4, <3>5
  <2>3. ASSUME NEW p \in PaymentIds, PaidByHand(p)',
               NEW q \in PaymentIds, PaidByHand(q)', payments'[q].order = payments'[p].order
        PROVE  q = p
    BY <2>1, <2>2, <2>3 DEF HandsPayTheTotal, PaymentsOf, PaidByHand
  <2> QED
    BY <2>2, <2>3 DEF HandsPayTheTotal, PaymentsOf
<1> QED
  BY <1>1, <1>2, <1>4, <1>5

\* The step of the open payments handler, but for an insertion.
LEMMA PaymentStepKeepsSerialInv ==
    ASSUME IInv, SerialInv, NEW p \in PaymentOpen, PaysAlone(p), UNCHANGED <<oreq, hreq>>,
           PaymentCurrent(p)', RowsFinish, BillsStay,
           ~Failures /\ preq[p].pc = "finishOrder" /\ orders[preq[p].order] # Null =>
               orders'[preq[p].order].isFinished
    PROVE  SerialInv' /\ KeepsFinished
<1>1. ~Failures => HandsFinish
  <2> SUFFICES ASSUME ~Failures, NEW q \in PaymentIds, PaidByHand(q), preq[q].pc = "finishOrder"
               PROVE  preq'[q].pc = "finishOrder" \/ orders'[payments[q].order].isFinished
    BY DEF HandsFinish
  <2>1. CASE q = p
    <3>1. PaymentShapeOf(p)
      BY DEF IInv, PaymentShape, PaymentOpen
    <3>2. payments[p].order = preq[p].order
      BY <2>1, <3>1 DEF PaymentShapeOf, PaymentsOf
    <3>3. orders[payments[p].order] # Null
      BY <2>1 DEF IInv, PaymentHasOrder, PaidByHand
    <3> QED
      BY <2>1, <3>2, <3>3
  <2>2. CASE q # p
    BY <2>2 DEF PaysAlone, PaymentIds
  <2> QED
    BY <2>1, <2>2
<1> QED
  BY <1>1, TablesGoOn, PaymentStepIsCurrent DEF SerialInv

LEMMA PaymentEnds ==
    ASSUME IInv, NEW p \in PaymentRequests, NEW outcome \in EndPcs, PaymentEnd(p, outcome)
    PROVE  PaysAlone(p) /\ preq'[p].pc = outcome /\ PaymentCurrent(p)'
<1>1. PaysAlone(p) /\ preq'[p].pc = outcome
  BY DEF PaymentEnd, IInv, TypeOK, PaymentsTypeOK, PaymentRequest, PaysAlone
<1> QED
  BY <1>1, ClosedPaymentIsCurrent DEF EndPcs, PaymentOpenPcs

LEMMA PaymentGoes ==
    ASSUME IInv, NEW p \in PaymentRequests, NEW pc \in PaymentOpenPcs, PaymentGoto(p, pc)
    PROVE  PaysAlone(p) /\ preq'[p].pc = pc /\ preq'[p].cmd = preq[p].cmd
BY DEF PaymentGoto, IInv, TypeOK, PaymentsTypeOK, PaymentRequest, PaysAlone

\* A payments handler that writes no table.
LEMMA PaymentReadKeepsSerialInv ==
    ASSUME IInv, SerialInv, NEW p \in PaymentOpen, PaysAlone(p), PaymentCurrent(p)',
           UNCHANGED database, UNCHANGED <<oreq, hreq>>,
           preq[p].pc # "finishOrder" \/ Failures
    PROVE  SerialInv' /\ KeepsFinished
<1>1. UNCHANGED <<orders, items>> /\ UNCHANGED payments
  BY DEF database
<1> QED
  BY <1>1, RowsStay, BillsUnchanged, PaymentStepKeepsSerialInv

LEMMA PaymentEndKeepsSerialInv ==
    ASSUME IInv, SerialInv, NEW p \in PaymentOpen, NEW outcome \in EndPcs, PaymentEnd(p, outcome),
           UNCHANGED database, UNCHANGED <<oreq, hreq>>,
           preq[p].pc # "finishOrder" \/ Failures
    PROVE  SerialInv' /\ KeepsFinished
BY PaymentEnds, PaymentReadKeepsSerialInv DEF PaymentOpen

-----------------------------------------------------------------------------
(* CreatePaymentHandler and CreatePayconiqPaymentHandler.                    *)

LEMMA CreatePaymentFindKeepsSerialInv ==
    ASSUME IInv, SerialInv, NEW p \in PaymentRequests, CreatePaymentFind(p),
           UNCHANGED <<oreq, hreq>>
    PROVE  SerialInv' /\ KeepsFinished
<1>1. /\ preq[p].pc = "find" /\ preq[p].cmd \in PaymentTypes /\ p \in PaymentOpen
      /\ UNCHANGED database
  BY DEF CreatePaymentFind, PaymentAt, PaymentOpen, PaymentOpenPcs
<1>2. CASE PaymentEnd(p, "rejected")
  BY <1>1, <1>2, PaymentEndKeepsSerialInv DEF EndPcs
<1>3. CASE /\ FoundUnfinished(preq[p].order, preq[p].organisation)
           /\ preq' = [preq EXCEPT ![p] = [@ EXCEPT
                  !.pc = FirstCall(preq[p].cmd),
                  !.total = orders[preq[p].order].totalPrice]]
  <2>1. /\ preq'[p].order = preq[p].order /\ preq'[p].organisation = preq[p].organisation
        /\ preq'[p].total = orders[preq[p].order].totalPrice /\ PaysAlone(p)
    BY <1>3 DEF IInv, TypeOK, PaymentsTypeOK, PaymentRequest, PaysAlone
  <2>2. PaymentCurrent(p)'
    BY <1>1, <1>3, <2>1 DEF PaymentCurrent, FoundUnfinished, OrderFound, database
  <2> QED
    BY <1>1, <2>1, <2>2, PaymentReadKeepsSerialInv
<1> QED
  BY <1>2, <1>3 DEF CreatePaymentFind

LEMMA CreatePaymentCallPayconiqKeepsSerialInv ==
    ASSUME IInv, SerialInv, NEW p \in PaymentRequests, CreatePaymentCallPayconiq(p),
           UNCHANGED <<oreq, hreq>>
    PROVE  SerialInv' /\ KeepsFinished
<1>1. /\ preq[p].pc = "callPayconiq" /\ preq[p].cmd = "PAYCONIQ" /\ p \in PaymentOpen
      /\ UNCHANGED database
  BY DEF CreatePaymentCallPayconiq, PaymentAt, PaymentOpen, PaymentOpenPcs
<1>2. CASE PaymentEnd(p, "failed")
  BY <1>1, <1>2, PaymentEndKeepsSerialInv DEF EndPcs
<1>3. CASE preq' = [preq EXCEPT ![p] = [@ EXCEPT !.pc = "savePayment", !.data = "PENDING"]]
  <2>1. /\ preq'[p].order = preq[p].order /\ preq'[p].organisation = preq[p].organisation
        /\ preq'[p].total = preq[p].total /\ PaysAlone(p)
    BY <1>3 DEF IInv, TypeOK, PaymentsTypeOK, PaymentRequest, PaysAlone
  <2>2. /\ FoundUnfinished(preq[p].order, preq[p].organisation)
        /\ preq[p].total = orders[preq[p].order].totalPrice
    BY <1>1 DEF SerialInv, PaymentCurrent, PaymentAt, PaymentTypes
  <2>3. PaymentCurrent(p)'
    BY <1>1, <2>1, <2>2 DEF PaymentCurrent, FoundUnfinished, OrderFound, database
  <2> QED
    BY <1>1, <2>1, <2>3, PaymentReadKeepsSerialInv
<1> QED
  BY <1>2, <1>3 DEF CreatePaymentCallPayconiq

\* The payment that is inserted is the only one by hand of its order, which is
\* not finished.
LEMMA InsertedByHand ==
    ASSUME IInv, SerialInv, ~Failures, NEW p \in PaymentOpen, payments[p] = Null,
           FoundUnfinished(preq[p].order, preq[p].organisation), preq[p].pc = "savePayment",
           NEW q \in PaymentIds, PaidByHand(q)
    PROVE  /\ q # p /\ preq[q].pc # "finishOrder" /\ payments[q].order # preq[p].order
           /\ orders[payments[q].order].isFinished
<1>1. q # p
  BY DEF PaidByHand
<1>2. preq[q].pc # "finishOrder"
  BY <1>1 DEF SerialInv, OneHandler, PaymentOpen, PaymentOpenPcs, PaymentIds
<1>3. orders[payments[q].order].isFinished
  BY <1>2 DEF SerialInv, HandsPayTheTotal
<1> QED
  BY <1>1, <1>2, <1>3 DEF FoundUnfinished

LEMMA CreatePaymentSaveKeepsSerialInv ==
    ASSUME IInv, SerialInv, NEW p \in PaymentRequests, CreatePaymentSave(p),
           UNCHANGED <<oreq, hreq>>
    PROVE  SerialInv' /\ KeepsFinished
<1> DEFINE pc == IF preq[p].cmd = "PAYCONIQ" THEN "fetchPayconiq" ELSE "finishOrder"
<1>1. /\ preq[p].pc = "savePayment" /\ preq[p].cmd \in PaymentTypes /\ p \in PaymentOpen
      /\ UNCHANGED <<orders, items>>
  BY DEF CreatePaymentSave, PaymentAt, PaymentOpen, PaymentOpenPcs
<1>2. /\ FoundUnfinished(preq[p].order, preq[p].organisation)
      /\ preq[p].total = orders[preq[p].order].totalPrice
  BY <1>1 DEF SerialInv, PaymentCurrent, PaymentAt
<1>3. ASSUME NEW row, row.order = preq[p].order, row.organisation = preq[p].organisation,
             row.amount = preq[p].total, row.type = preq[p].cmd,
             InsertPayment(p, row), PaymentGoto(p, pc)
      PROVE  SerialInv' /\ KeepsFinished
  <2>1. /\ p \in PaymentIds /\ payments[p] = Null /\ preq[p].order \in OrderIds
    BY <1>1 DEF IInv, PaymentShape, PaymentShapeOf, PaymentIds
  <2>2. payments'[p] = row /\ \A q \in PaymentIds : q # p => payments'[q] = payments[q]
    BY <1>3, <2>1 DEF InsertPayment, IInv, TypeOK, DatabaseTypeOK
  <2>3. PaysAlone(p) /\ preq'[p].pc = pc
    BY <1>3, PaymentGoes DEF PaymentOpenPcs
  <2>4. PaymentCurrent(p)'
    BY <2>3 DEF PaymentCurrent, PaymentAt
  <2>5. KeepsFinished /\ UniqueNames'
    BY <1>1 DEF KeepsFinished, KeepsOrder, ItemsOf, SerialInv, UniqueNames
  <2>6. PaymentKeepsOrganisation'
    BY <1>1, <1>2, <1>3, <2>2 DEF SerialInv, PaymentKeepsOrganisation, FoundUnfinished, OrderFound
  <2>7. ASSUME ~Failures
        PROVE  HandsPayTheTotal'
    <3>1. HandsPayTheTotal
      BY <2>7 DEF SerialInv
    <3>2. ASSUME NEW q \in PaymentIds, q # p, PaidByHand(q)'
          PROVE  /\ PaidByHand(q) /\ payments'[q] = payments[q]
                 /\ payments[q].order # preq[p].order
                 /\ payments[q].amount = orders[payments[q].order].totalPrice
                 /\ orders[payments[q].order].isFinished
      <4>1. PaidByHand(q) /\ payments'[q] = payments[q]
        BY <2>2, <3>2 DEF PaidByHand
      <4>2. payments[q].order # preq[p].order /\ orders[payments[q].order].isFinished
        BY <1>1, <1>2, <2>1, <2>7, <4>1, InsertedByHand
      <4> QED
        BY <3>1, <4>1, <4>2 DEF HandsPayTheTotal
    <3>3. ASSUME PaidByHand(p)'
          PROVE  /\ payments'[p].order = preq[p].order
                 /\ payments'[p].amount = orders[preq[p].order].totalPrice
                 /\ preq'[p].pc = "finishOrder"
      <4>1. preq[p].cmd # "PAYCONIQ"
        BY <1>3, <2>2, <3>3 DEF PaidByHand
      <4> QED
        BY <1>2, <1>3, <2>2, <2>3, <4>1
    <3>4. ASSUME NEW q \in PaymentIds, PaidByHand(q)'
          PROVE  /\ payments'[q].amount = orders[payments'[q].order].totalPrice
                 /\ preq'[q].pc = "finishOrder" \/ orders[payments'[q].order].isFinished
                 /\ \A x \in PaymentIds : PaidByHand(x)' /\ payments'[x].order = payments'[q].order
                        => x = q
      <4>1. ASSUME NEW x \in PaymentIds, PaidByHand(x)', x # q,
                   payments'[x].order = payments'[q].order
            PROVE  FALSE
        <5>1. x # p /\ q # p
          BY <3>2, <3>3, <3>4, <4>1
        <5>2. /\ PaidByHand(x) /\ PaidByHand(q)
              /\ payments[x].order = payments[q].order
          BY <3>2, <3>4, <4>1, <5>1
        <5> QED
          BY <3>1, <4>1, <5>2 DEF HandsPayTheTotal, PaymentsOf, PaidByHand
      <4> QED
        <5>1. CASE q = p
          BY <1>1, <3>3, <3>4, <4>1, <5>1
        <5>2. CASE q # p
          BY <1>1, <3>2, <3>4, <4>1, <5>2
        <5> QED
          BY <5>1, <5>2
    <3> QED
      BY <1>1, <3>4 DEF HandsPayTheTotal, PaymentsOf, PaidByHand
  <2> QED
    BY <1>1, <2>3, <2>4, <2>5, <2>6, <2>7, PaymentStepIsCurrent DEF SerialInv
<1>4. CASE PaymentEnd(p, "failed") /\ UNCHANGED payments
  BY <1>1, <1>4, PaymentEndKeepsSerialInv DEF EndPcs, database
<1>5. ASSUME NEW status,
             InsertPayment(p, [amount |-> preq[p].total, type |-> preq[p].cmd, status |-> status,
                               data |-> preq[p].data, order |-> preq[p].order,
                               organisation |-> preq[p].organisation]),
             PaymentGoto(p, pc), OrderExists(preq[p].order)
      PROVE  SerialInv' /\ KeepsFinished
  <2> DEFINE row == [amount |-> preq[p].total, type |-> preq[p].cmd, status |-> status,
                     data |-> preq[p].data, order |-> preq[p].order,
                     organisation |-> preq[p].organisation]
  <2>1. /\ row.order = preq[p].order /\ row.organisation = preq[p].organisation
        /\ row.amount = preq[p].total /\ row.type = preq[p].cmd
    OBVIOUS
  <2>2. InsertPayment(p, row)
    BY <1>5
  <2> HIDE DEF row
  <2> QED
    BY <1>3, <1>5, <2>1, <2>2
<1> QED
  BY <1>4, <1>5 DEF CreatePaymentSave

LEMMA CreatePaymentFinishOrderKeepsSerialInv ==
    ASSUME IInv, SerialInv, NEW p \in PaymentRequests, CreatePaymentFinishOrder(p),
           UNCHANGED <<oreq, hreq>>
    PROVE  SerialInv' /\ KeepsFinished
<1>1. /\ preq[p].pc = "finishOrder" /\ preq[p].cmd \in PaymentTypes /\ p \in PaymentOpen
      /\ FinishOrder(preq[p].order) /\ PaymentEnd(p, "done") /\ UNCHANGED <<items, payments>>
  BY DEF CreatePaymentFinishOrder, PaymentAt, PaymentOpen, PaymentOpenPcs, PaymentTypes
<1>2. preq[p].order \in OrderIds
  BY <1>1 DEF IInv, PaymentShape, PaymentShapeOf
<1>3. PaysAlone(p) /\ PaymentCurrent(p)'
  BY <1>1, PaymentEnds DEF EndPcs
<1> QED
  BY <1>1, <1>2, <1>3, FinishOrderFinishesRows, BillsUnchanged, PaymentStepKeepsSerialInv

LEMMA PayconiqRespondKeepsSerialInv ==
    ASSUME IInv, SerialInv, NEW p \in PaymentRequests, PayconiqRespond(p),
           UNCHANGED <<oreq, hreq>>
    PROVE  SerialInv' /\ KeepsFinished
<1>1. \E outcome \in EndPcs : PaymentEnd(p, outcome)
  BY DEF PayconiqRespond, EndPcs
<1>2. preq[p].pc = "fetchPayconiq" /\ p \in PaymentOpen /\ UNCHANGED database
  BY DEF PayconiqRespond, PaymentAt, PaymentOpen, PaymentOpenPcs
<1> QED
  BY <1>1, <1>2, PaymentEndKeepsSerialInv

LEMMA PaymentAbortKeepsSerialInv ==
    ASSUME IInv, SerialInv, NEW p \in PaymentRequests, PaymentAbort(p), UNCHANGED <<oreq, hreq>>
    PROVE  SerialInv' /\ KeepsFinished
BY PaymentEndKeepsSerialInv DEF PaymentAbort, PaymentOpen, EndPcs

-----------------------------------------------------------------------------
(* CancelPayconiqPaymentHandler.                                             *)

LEMMA CancelGoesOnKeepsSerialInv ==
    ASSUME IInv, SerialInv, NEW p \in PaymentOpen, preq[p].cmd = "CANCEL",
           preq[p].pc # "finishOrder", NEW pc \in {"callPayconiq", "updatePayment"},
           PaymentGoto(p, pc), UNCHANGED database, UNCHANGED <<oreq, hreq>>
    PROVE  SerialInv' /\ KeepsFinished
<1>1. PaysAlone(p) /\ preq'[p].cmd = "CANCEL"
  BY PaymentGoes DEF PaymentOpen, PaymentOpenPcs
<1>2. PaymentCurrent(p)'
  BY <1>1 DEF PaymentCurrent, PaymentAt, PaymentTypes
<1> QED
  BY <1>1, <1>2, PaymentReadKeepsSerialInv

LEMMA CancelFindKeepsSerialInv ==
    ASSUME IInv, SerialInv, NEW p \in PaymentRequests, CancelFind(p), UNCHANGED <<oreq, hreq>>
    PROVE  SerialInv' /\ KeepsFinished
<1>1. /\ preq[p].pc = "find" /\ preq[p].cmd = "CANCEL" /\ p \in PaymentOpen
      /\ UNCHANGED database
  BY DEF CancelFind, PaymentAt, PaymentOpen, PaymentOpenPcs
<1> QED
  BY <1>1, CancelGoesOnKeepsSerialInv, PaymentEndKeepsSerialInv DEF CancelFind, EndPcs

LEMMA CancelCallPayconiqKeepsSerialInv ==
    ASSUME IInv, SerialInv, NEW p \in PaymentRequests, CancelCallPayconiq(p),
           UNCHANGED <<oreq, hreq>>
    PROVE  SerialInv' /\ KeepsFinished
<1>1. /\ preq[p].pc = "callPayconiq" /\ preq[p].cmd = "CANCEL" /\ p \in PaymentOpen
      /\ UNCHANGED database
  BY DEF CancelCallPayconiq, PaymentAt, PaymentOpen, PaymentOpenPcs
<1>2. PaymentGoto(p, "updatePayment") \/ PaymentEnd(p, "failed")
  BY DEF CancelCallPayconiq
<1> QED
  BY <1>1, <1>2, CancelGoesOnKeepsSerialInv, PaymentEndKeepsSerialInv DEF EndPcs

LEMMA CancelUpdatePaymentKeepsSerialInv ==
    ASSUME IInv, SerialInv, NEW p \in PaymentRequests, CancelUpdatePayment(p),
           UNCHANGED <<oreq, hreq>>
    PROVE  SerialInv' /\ KeepsFinished
<1>1. /\ preq[p].pc = "updatePayment" /\ preq[p].cmd = "CANCEL" /\ p \in PaymentOpen
      /\ UpdatePayment(preq[p].payment, "CANCELLED", "CANCELLED")
      /\ PaymentEnd(p, "done") /\ UNCHANGED <<orders, items>>
  BY DEF CancelUpdatePayment, PaymentAt, PaymentOpen, PaymentOpenPcs
<1>2. preq[p].payment \in PaymentIds /\ payments[preq[p].payment] # Null
  BY <1>1 DEF IInv, PaymentShape, PaymentShapeOf, PaymentAt
<1>3. BillsStay
  BY <1>1, <1>2, UpdatePaymentKeepsBill DEF PaymentStatuses, PayconiqStatuses
<1>4. PaysAlone(p) /\ PaymentCurrent(p)'
  BY <1>1, PaymentEnds DEF EndPcs
<1> QED
  BY <1>1, <1>3, <1>4, RowsStay, PaymentStepKeepsSerialInv

LEMMA PaymentHandlerKeepsSerialInv ==
    ASSUME IInv, SerialInv, NEW p \in PaymentRequests, PaymentStep(p) \/ PaymentAbort(p),
           UNCHANGED <<oreq, hreq>>
    PROVE  SerialInv' /\ KeepsFinished
BY CreatePaymentFindKeepsSerialInv, CreatePaymentCallPayconiqKeepsSerialInv,
   CreatePaymentSaveKeepsSerialInv, CreatePaymentFinishOrderKeepsSerialInv,
   PayconiqRespondKeepsSerialInv, CancelFindKeepsSerialInv, CancelCallPayconiqKeepsSerialInv,
   CancelUpdatePaymentKeepsSerialInv, PaymentAbortKeepsSerialInv DEF PaymentStep

\* A request of the payments API has read nothing yet.
LEMMA PaymentsReceiveKeepsSerialInv ==
    ASSUME MaxOverlap = 1, IInv, SerialInv, OpenHandlers < MaxOverlap, PaymentsReceive,
           UNCHANGED <<oreq, hreq>>
    PROVE  SerialInv' /\ KeepsFinished
<1>1. OrderOpen = {} /\ PaymentOpen = {} /\ WebhookOpen = {}
  BY NobodyRuns DEF SerialInv
<1>2. PICK p \in PaymentRequests :
         \E request : PaymentReceive(p, request) /\ request.pc = "find"
  <2>1. PICK p \in PaymentRequests, org \in Organisations :
           \/ \E cmd \in PaymentTypes, o \in Known :
                 PaymentReceive(p, [NoPaymentRequest EXCEPT
                     !.cmd = cmd, !.pc = "find", !.organisation = org, !.order = o])
           \/ \E q \in KnownPayments :
                 PaymentReceive(p, [NoPaymentRequest EXCEPT
                     !.cmd = "CANCEL", !.pc = "find", !.organisation = org, !.payment = q])
    BY DEF PaymentsReceive
  <2>2. \A cmd, o : [NoPaymentRequest EXCEPT
            !.cmd = cmd, !.pc = "find", !.organisation = org, !.order = o].pc = "find"
    BY DEF NoPaymentRequest
  <2>3. \A q : [NoPaymentRequest EXCEPT
            !.cmd = "CANCEL", !.pc = "find", !.organisation = org, !.payment = q].pc = "find"
    BY DEF NoPaymentRequest
  <2> QED
    BY <2>1, <2>2, <2>3
<1>3. /\ PaysAlone(p) /\ preq[p].pc = "idle" /\ preq'[p].pc = "find" /\ UNCHANGED database
  BY <1>2 DEF PaymentReceive, PaysAlone, IInv, TypeOK, PaymentsTypeOK
<1>4. UNCHANGED <<orders, items, payments>>
  BY <1>3 DEF database
<1>5. OneHandler'
  BY <1>1, <1>3 DEF OneHandler, OrderOpen, PaymentOpen, WebhookOpen, PaysAlone
<1>6. \A r \in OrderRequests : OrderCurrent(r)'
  BY <1>1, ClosedOrderIsCurrent DEF OrderOpen
<1>7. \A q \in PaymentRequests : PaymentCurrent(q)'
  <2>1. PaymentCurrent(p)'
    BY <1>3 DEF PaymentCurrent, PaymentAt
  <2> QED
    BY <1>1, <1>3, <2>1, ClosedPaymentIsCurrent DEF PaymentOpen, PaysAlone
<1>8. HandsFinish
  BY <1>1 DEF HandsFinish, PaymentOpen, PaymentOpenPcs, PaymentIds
<1> QED
  BY <1>4, <1>5, <1>6, <1>7, <1>8, RowsStay, BillsUnchanged, TablesGoOn DEF SerialInv

-----------------------------------------------------------------------------
(* PayconiqUpdateHandler, and Payconiq itself.                               *)

LEMMA DeliveryKeepsSerialInv ==
    ASSUME IInv, SerialInv, NEW d \in WebhookOpen, DeliversAlone(d), UNCHANGED <<oreq, preq>>,
           RowsFinish, BillsStay
    PROVE  SerialInv' /\ KeepsFinished
<1>1. HandsFinish
  BY DEF HandsFinish
<1> QED
  BY <1>1, TablesGoOn, WebhookStepIsCurrent DEF SerialInv

LEMMA WebhookHandlerKeepsSerialInv ==
    ASSUME IInv, SerialInv, NEW d \in Deliveries, WebhookStep(d) \/ WebhookAbort(d),
           UNCHANGED <<oreq, preq>>
    PROVE  SerialInv' /\ KeepsFinished
<1>1. d \in WebhookOpen /\ DeliversAlone(d)
  BY DEF WebhookStep, WebhookFind, WebhookUpdatePayment, WebhookFinishOrder, WebhookAbort,
     WebhookGoto, WebhookOpen, WebhookOpenPcs, DeliversAlone, IInv, TypeOK, WebhooksTypeOK
<1>2. CASE UNCHANGED <<orders, items, payments>>
  BY <1>1, <1>2, RowsStay, BillsUnchanged, DeliveryKeepsSerialInv
<1>3. CASE WebhookFind(d) \/ WebhookAbort(d)
  BY <1>2, <1>3 DEF WebhookFind, WebhookAbort, database
<1>4. CASE WebhookUpdatePayment(d)
  <2> DEFINE q == DeliveredPayment(d)
  <2>1. hreq[d].callback \in Callback /\ q \in PaymentsOf(hreq[d].order)
    BY <1>4 DEF IInv, WebhookShape, WebhookUpdatePayment
  <2>2. /\ q \in PaymentIds /\ payments[q] # Null
        /\ DeliveredStatus(d) \in PaymentStatuses
        /\ hreq[d].callback.status \in PayconiqStatuses
    BY <2>1, PaymentStatusFromType DEF PaymentsOf, DeliveredStatus, Callback
  <2>3. BillsStay
    BY <1>4, <2>2, UpdatePaymentKeepsBill DEF WebhookUpdatePayment
  <2> QED
    BY <1>1, <1>4, <2>3, RowsStay, DeliveryKeepsSerialInv DEF WebhookUpdatePayment
<1>5. CASE WebhookFinishOrder(d)
  <2>1. hreq[d].order \in OrderIds
    BY <1>5 DEF IInv, WebhookShape, WebhookFinishOrder
  <2>2. RowsFinish
    BY <1>5, <2>1, FinishOrderFinishesRows DEF WebhookFinishOrder
  <2> QED
    BY <1>1, <1>5, <2>2, BillsUnchanged, DeliveryKeepsSerialInv DEF WebhookFinishOrder
<1> QED
  BY <1>3, <1>4, <1>5 DEF WebhookStep

LEMMA WebhooksReceiveKeepsSerialInv ==
    ASSUME MaxOverlap = 1, IInv, SerialInv, OpenHandlers < MaxOverlap, WebhooksReceive,
           UNCHANGED <<oreq, preq>>
    PROVE  SerialInv' /\ KeepsFinished
<1>1. OrderOpen = {} /\ PaymentOpen = {} /\ WebhookOpen = {}
  BY NobodyRuns DEF SerialInv
<1>2. PICK d \in Deliveries, callback \in callbacks : WebhookReceive(d, callback)
  BY DEF WebhooksReceive
<1>3. DeliversAlone(d) /\ UNCHANGED <<orders, items, payments>>
  BY <1>2 DEF WebhookReceive, DeliversAlone, IInv, TypeOK, WebhooksTypeOK, database
<1>4. OneHandler'
  BY <1>1, <1>3 DEF OneHandler, OrderOpen, PaymentOpen, WebhookOpen, DeliversAlone
<1>5. /\ \A r \in OrderRequests : OrderCurrent(r)'
      /\ \A p \in PaymentRequests : PaymentCurrent(p)'
  BY <1>1, ClosedOrderIsCurrent, ClosedPaymentIsCurrent DEF OrderOpen, PaymentOpen
<1>6. HandsFinish
  BY DEF HandsFinish
<1> QED
  BY <1>3, <1>4, <1>5, <1>6, RowsStay, BillsUnchanged, TablesGoOn DEF SerialInv

\* A step that no handler takes part in.
LEMMA StutterKeepsSerialInv ==
    ASSUME IInv, SerialInv, UNCHANGED <<database, oreq, preq, hreq>>
    PROVE  SerialInv' /\ KeepsFinished
<1>1. UNCHANGED <<orders, items, payments>> /\ UNCHANGED <<oreq, preq, hreq>>
  BY DEF database
<1>2. OneHandler'
  BY <1>1 DEF SerialInv, OneHandler, OrderOpen, PaymentOpen, WebhookOpen
<1>3. \A p \in PaymentRequests : PaymentCurrent(p)'
  BY <1>1 DEF SerialInv, PaymentCurrent, PaymentAt, FoundUnfinished, OrderFound
<1>4. \A r \in OrderRequests : OrderCurrent(r)'
  BY <1>1 DEF SerialInv, OrderCurrent, At, FoundUnfinished, OrderFound, ItemsOf,
     OrdersWithClientName
<1>5. HandsFinish
  BY <1>1 DEF HandsFinish
<1> QED
  BY <1>1, <1>2, <1>3, <1>4, <1>5, RowsStay, BillsUnchanged, TablesGoOn DEF SerialInv

-----------------------------------------------------------------------------
(* The theorems.                                                             *)

LEMMA InitSerialInv == Init => SerialInv
<1> SUFFICES ASSUME Init
             PROVE  SerialInv
  OBVIOUS
<1>1. /\ \A r \in OrderRequests : oreq[r].pc = "idle" /\ oreq[r].cmd = "none"
      /\ \A p \in PaymentRequests : preq[p].pc = "idle"
      /\ \A d \in Deliveries : hreq[d].pc = "idle"
      /\ \A o \in OrderIds : orders[o] = Null
      /\ \A p \in PaymentIds : payments[p] = Null
  BY DEF Init, DatabaseInit, OrdersInit, PaymentsInit, WebhooksInit, NoOrderRequest,
     NoPaymentRequest, NoDelivery
<1>2. OneHandler
  BY <1>1 DEF OneHandler, OrderOpen, PaymentOpen, WebhookOpen, OrderOpenPcs, PaymentOpenPcs,
     WebhookOpenPcs
<1>3. \A r \in OrderRequests : OrderCurrent(r)
  BY <1>1 DEF OrderCurrent, At
<1>4. \A p \in PaymentRequests : PaymentCurrent(p)
  BY <1>1 DEF PaymentCurrent, PaymentAt
<1> QED
  BY <1>1, <1>2, <1>3, <1>4 DEF SerialInv, UniqueNames, PaymentKeepsOrganisation,
     HandsPayTheTotal, PaidByHand

LEMMA NextKeepsSerialInv ==
    ASSUME MaxOverlap = 1
    PROVE  IInv /\ ItemInv /\ SerialInv /\ [Next]_vars => SerialInv' /\ KeepsFinished
<1> SUFFICES ASSUME IInv, ItemInv, SerialInv, [Next]_vars
             PROVE  SerialInv' /\ KeepsFinished
  OBVIOUS
<1>1. CASE Receives
  BY <1>1, OrdersReceiveKeepsSerialInv, PaymentsReceiveKeepsSerialInv,
     WebhooksReceiveKeepsSerialInv DEF Receives
<1>2. CASE Steps
  BY <1>2, OrderStepKeepsSerial, PaymentHandlerKeepsSerialInv, WebhookHandlerKeepsSerialInv
     DEF Steps
<1>3. CASE Aborts
  BY <1>3, OrderStepKeepsSerial, PaymentHandlerKeepsSerialInv, WebhookHandlerKeepsSerialInv
     DEF Aborts
<1>4. CASE PayconiqMoves
  BY <1>4, StutterKeepsSerialInv DEF PayconiqMoves
<1>5. CASE UNCHANGED vars
  BY <1>5, StutterKeepsSerialInv DEF vars, database
<1> QED
  BY <1>1, <1>2, <1>3, <1>4, <1>5 DEF Next

\* When requests and callbacks are handled one at a time, what the open handler
\* has read is what the tables still have, at every call it makes.
THEOREM SerialInvariantHolds ==
    ASSUME MaxOverlap = 1
    PROVE  Spec => []SerialInv
BY InvariantHolds, ItemInvariantHolds, InitSerialInv, NextKeepsSerialInv, PTL DEF Spec

\* Then two unfinished orders of an organisation never share a client name,
\* though calls fail and handlers stop half-way.
THEOREM UniqueOpenNamesAlways ==
    ASSUME MaxOverlap = 1
    PROVE  Spec => []UniqueOpenNames
<1>1. SerialInv => UniqueOpenNames
  BY DEF SerialInv, UniqueNames, UniqueOpenNames
<1> QED
  BY <1>1, SerialInvariantHolds, PTL

\* Then the order of a payment is there and of the payment's organisation.
THEOREM PaymentKeepsOrganisationAlways ==
    ASSUME MaxOverlap = 1
    PROVE  Spec => []PaymentKeepsOrganisation
<1>1. SerialInv => PaymentKeepsOrganisation
  BY DEF SerialInv
<1> QED
  BY <1>1, SerialInvariantHolds, PTL

\* Then a finished order keeps its row, its items and their products, whatever
\* item ids updates are sent; the amounts it does not keep.
THEOREM FinishedKeepsItemsAlways ==
    ASSUME MaxOverlap = 1
    PROVE  Spec => FinishedKeepsItems
<1>1. IInv /\ ItemInv /\ SerialInv /\ [Next]_vars => KeepsFinished
  BY NextKeepsSerialInv
<1>2. FinishedKeepsItems <=> [][KeepsFinished]_vars
  BY DEF FinishedKeepsItems, KeepsFinished, KeepsOrder
<1> QED
  BY <1>1, <1>2, InvariantHolds, ItemInvariantHolds, SerialInvariantHolds, PTL DEF Spec

\* Then, if no call fails, an order that was paid in cash, or for free, was
\* paid its total once and is finished whenever no handler runs.
THEOREM CashPaysTheTotalAlways ==
    ASSUME MaxOverlap = 1, ~Failures
    PROVE  Spec => []CashPaysTheTotal
<1>1. ASSUME SerialInv
      PROVE  CashPaysTheTotal
  <2> SUFFICES ASSUME Quiet, NEW o \in OrderIds
               PROVE  LET paid == {p \in PaymentsOf(o) : payments[p].type \in {"CASH", "FREE"}}
                      IN  /\ Cardinality(paid) <= 1
                          /\ \A p \in paid : /\ orders[o].isFinished
                                             /\ payments[p].amount = orders[o].totalPrice
    BY DEF CashPaysTheTotal
  <2> DEFINE paid == {p \in PaymentsOf(o) : payments[p].type \in {"CASH", "FREE"}}
  <2>1. PaymentOpen = {}
    BY <1>1, NobodyRuns DEF SerialInv, Quiet
  <2>2. ASSUME NEW p \in paid
        PROVE  /\ orders[o].isFinished /\ payments[p].amount = orders[o].totalPrice
               /\ \A q \in paid : q = p
    <3>1. p \in PaymentIds /\ PaidByHand(p) /\ payments[p].order = o
      BY DEF PaymentsOf, PaidByHand
    <3>2. preq[p].pc # "finishOrder"
      BY <2>1, <3>1 DEF PaymentOpen, PaymentOpenPcs, PaymentIds
    <3> QED
      BY <1>1, <3>1, <3>2 DEF SerialInv, HandsPayTheTotal, PaymentsOf, PaidByHand
  <2>3. Cardinality(paid) <= 1
    <3> HIDE DEF paid
    <3>1. CASE paid = {}
      BY <3>1, FS_EmptySet
    <3>2. CASE paid # {}
      <4>1. PICK p \in paid : TRUE
        BY <3>2
      <4>2. paid = {p}
        BY <2>2, <4>1
      <4>3. Cardinality(paid) = 1
        BY <4>2, FS_Singleton
      <4> QED
        BY <4>3
    <3> QED
      BY <3>1, <3>2
  <2> QED
    BY <2>2, <2>3
<1> QED
  BY <1>1, SerialInvariantHolds, PTL

-----------------------------------------------------------------------------
(* Updates of careful clients.                                               *)

LEMMA OtherUpdateHasShape ==
    ASSUME NEW r \in OrderRequests, oreq'[r].pc \notin OrderOpenPcs \/ oreq'[r].cmd # "update"
    PROVE  UpdateShapeOf(r)'
BY DEF UpdateShapeOf

LEMMA OrderStepKeepsUpdateInv ==
    ASSUME SerialInv, NEW r \in OrderOpen, Alone(r), UpdateShapeOf(r)', ItemIsOfItsProduct'
    PROVE  UpdateInv'
<1>1. \A q \in OrderRequests : q # r => oreq'[q].pc \notin OrderOpenPcs
  BY DEF SerialInv, OneHandler, OrderOpen, Alone
<1> QED
  BY <1>1, OtherUpdateHasShape DEF UpdateInv

\* No write gives an item another product than the one it was created with.
LEMMA InsertKeepsProducts ==
    ASSUME ItemIsOfItsProduct, NEW r, NEW o, NEW lines, InsertItems(r, o, lines)
    PROVE  ItemIsOfItsProduct'
<1>1. ASSUME NEW i \in ItemIds, items'[i] # Null
      PROVE  items'[i].product = i[2]
  <2>1. CASE \E l \in lines : i = <<r, l.product>>
    BY <2>1 DEF InsertItems
  <2>2. CASE ~\E l \in lines : i = <<r, l.product>>
    BY <1>1, <2>2 DEF InsertItems, ItemIsOfItsProduct
  <2> QED
    BY <2>1, <2>2
<1> QED
  BY <1>1 DEF ItemIsOfItsProduct

LEMMA DeleteKeepsProducts ==
    ASSUME ItemIsOfItsProduct, NEW ids, DeleteItems(ids)
    PROVE  ItemIsOfItsProduct'
BY DEF ItemIsOfItsProduct, DeleteItems

LEMMA ReadKeepsProducts ==
    ASSUME ItemIsOfItsProduct, UNCHANGED items
    PROVE  ItemIsOfItsProduct'
BY DEF ItemIsOfItsProduct

LEMMA EndKeepsUpdateInv ==
    ASSUME IInv, SerialInv, NEW r \in OrderRequests, oreq[r].pc \in OrderOpenPcs,
           NEW outcome \in EndPcs, End(r, outcome), ItemIsOfItsProduct'
    PROVE  UpdateInv'
<1>1. oreq'[r].pc = outcome /\ Alone(r) /\ r \in OrderOpen
  BY EndGoesOn DEF OrderOpen
<1>2. oreq'[r].pc \notin OrderOpenPcs
  BY <1>1 DEF EndPcs, OrderOpenPcs
<1> QED
  BY <1>1, <1>2, OtherUpdateHasShape, OrderStepKeepsUpdateInv

LEMMA EndOnReadKeepsUpdateInv ==
    ASSUME IInv, SerialInv, UpdateInv, NEW r \in OrderRequests, oreq[r].pc \in OrderOpenPcs,
           NEW outcome \in EndPcs, End(r, outcome), UNCHANGED items
    PROVE  UpdateInv'
BY ReadKeepsProducts, EndKeepsUpdateInv DEF UpdateInv

\* A creation or deletion that goes on.
LEMMA OtherGoesOnKeepsUpdateInv ==
    ASSUME IInv, SerialInv, NEW r \in OrderRequests, oreq[r].pc \in OrderOpenPcs,
           oreq[r].cmd # "update", NEW pc \in OrderOpenPcs, Goto(r, pc), ItemIsOfItsProduct'
    PROVE  UpdateInv'
<1>1. oreq'[r].cmd # "update" /\ Alone(r) /\ r \in OrderOpen
  BY GotoKeepsRequest DEF OrderOpen
<1> QED
  BY <1>1, OtherUpdateHasShape, OrderStepKeepsUpdateInv

LEMMA OtherHandlerKeepsUpdateInv ==
    ASSUME IInv, SerialInv, UpdateInv, NEW r \in OrderRequests,
           \/ CreateCheck(r) \/ CreateSaveOrder(r) \/ CreateSaveItems(r)
           \/ DeleteDeleteItems(r) \/ DeleteDeleteOrder(r)
           \/ Respond(r) \/ OrderAbort(r)
    PROVE  UpdateInv'
<1>1. ItemIsOfItsProduct
  BY DEF UpdateInv
<1>2. CASE CreateCheck(r) \/ CreateSaveOrder(r)
  <2>1. /\ oreq[r].cmd = "create" /\ oreq[r].pc \in OrderOpenPcs /\ UNCHANGED items
        /\ \/ End(r, "rejected") \/ End(r, "failed")
           \/ Goto(r, "saveOrder") \/ Goto(r, "saveItems")
    BY <1>2 DEF CreateCheck, CreateSaveOrder, At, database, OrderOpenPcs
  <2> QED
    BY <1>1, <2>1, ReadKeepsProducts, EndKeepsUpdateInv, OtherGoesOnKeepsUpdateInv
       DEF EndPcs, OrderOpenPcs
<1>3. CASE CreateSaveItems(r)
  <2>1. /\ oreq[r].cmd = "create" /\ oreq[r].pc \in OrderOpenPcs
        /\ \/ End(r, "failed") /\ UNCHANGED items
           \/ Goto(r, "respond") /\ InsertItems(r, r, oreq[r].lines)
    BY <1>3 DEF CreateSaveItems, At, OrderOpenPcs
  <2> QED
    BY <1>1, <2>1, ReadKeepsProducts, InsertKeepsProducts, EndKeepsUpdateInv,
       OtherGoesOnKeepsUpdateInv DEF EndPcs, OrderOpenPcs
<1>4. CASE DeleteDeleteItems(r)
  <2>1. /\ oreq[r].cmd = "delete" /\ oreq[r].pc \in OrderOpenPcs
        /\ End(r, "failed") \/ Goto(r, "deleteOrder")
        /\ DeleteItems(oreq[r].loaded)
    BY <1>4 DEF DeleteDeleteItems, At, OrderOpenPcs
  <2> QED
    BY <1>1, <2>1, DeleteKeepsProducts, EndKeepsUpdateInv, OtherGoesOnKeepsUpdateInv
       DEF EndPcs, OrderOpenPcs
<1>5. CASE DeleteDeleteOrder(r) \/ Respond(r) \/ OrderAbort(r)
  <2>1. /\ oreq[r].pc \in OrderOpenPcs /\ UNCHANGED items
        /\ End(r, "failed") \/ End(r, "done") \/ End(r, "empty")
    BY <1>5 DEF DeleteDeleteOrder, Respond, OrderAbort, At, OrderOpenPcs, database
  <2> QED
    BY <2>1, EndOnReadKeepsUpdateInv DEF EndPcs
<1> QED
  BY <1>2, <1>3, <1>4, <1>5

\* What the lines of an open update name.
LEMMA OpenUpdate ==
    ASSUME IInv, SerialInv, UpdateInv, NEW r \in OrderRequests, oreq[r].cmd = "update",
           oreq[r].pc \in OrderOpenPcs
    PROVE  /\ UpdateShapeOf(r) /\ OrderCurrent(r) /\ ItemIsOfItsProduct
           /\ oreq[r] \in OrderRequest /\ oreq[r].order \in OrderIds /\ r \in OrderOpen
           /\ oreq[r].lines # {}
           /\ \A l \in oreq[r].lines : l.item # Null =>
                  l.item \in ItemsOf(oreq[r].order) /\ l.item[2] = l.product
BY DEF UpdateInv, SerialInv, UpdateShapeOf, IInv, TypeOK, OrdersTypeOK, OrderShape, OrderOpenPcs,
   OrderOpen

\* An item has a product of the list.
LEMMA NoItemIsBare ==
    ASSUME ItemIsOfItsProduct, NEW o
    PROVE  \A i \in ItemsOf(o) : items[i].product # Null
BY OwnerIsRequest, NullAssumption DEF ItemsOf, ItemIsOfItsProduct

LEMMA UpdateFindKeepsUpdateInv ==
    ASSUME IInv, SerialInv, UpdateInv, NEW r \in OrderRequests, UpdateFind(r)
    PROVE  UpdateInv'
<1> DEFINE linked == ItemsOf(oreq[r].order)
           bare == {i \in linked : items[i].product = Null}
<1>1. /\ oreq[r].cmd = "update" /\ oreq[r].pc = "find" /\ oreq[r].pc \in OrderOpenPcs
      /\ UNCHANGED items
  BY DEF UpdateFind, At, OrderOpenPcs, database
<1>2. CASE End(r, "rejected")
  BY <1>1, <1>2, EndOnReadKeepsUpdateInv DEF EndPcs
<1>3. CASE oreq' = [oreq EXCEPT ![r] = [@ EXCEPT
                  !.pc = "checkName", !.row = orders[oreq[r].order], !.loaded = linked,
                  !.bare = bare]]
  <2>1. bare = {}
    BY <1>1, OpenUpdate, NoItemIsBare
  <2>2. /\ oreq'[r].pc = "checkName" /\ oreq'[r].bare = {} /\ Alone(r)
        /\ oreq'[r].cmd = oreq[r].cmd /\ oreq'[r].order = oreq[r].order
        /\ oreq'[r].lines = oreq[r].lines
    <3> HIDE DEF linked, bare
    <3> QED
      BY <1>1, <1>3, <2>1, OpenUpdate DEF IInv, TypeOK, OrdersTypeOK, OrderRequest, Alone
  <2>3. ItemsOf(oreq[r].order)' = ItemsOf(oreq[r].order)
    BY <1>1, <2>2 DEF ItemsOf
  <2>4. NoneHasNewProduct(r, ItemsOf(oreq[r].order))
    BY <1>1, OpenUpdate DEF UpdateShapeOf
  <2>5. NoneHasNewProduct(r, ItemsOf(oreq[r].order))'
    BY <2>2, <2>3, <2>4 DEF NoneHasNewProduct
  <2>6. UpdateShapeOf(r)'
    BY <1>1, <2>2, <2>3, <2>5, OpenUpdate DEF UpdateShapeOf
  <2> QED
    BY <1>1, <2>2, <2>6, OpenUpdate, ReadKeepsProducts, OrderStepKeepsUpdateInv
<1> QED
  BY <1>2, <1>3 DEF UpdateFind, FindUnfinished

\* The handler goes on to its next call, and no item changes.
LEMMA UpdateGoesOnKeepsUpdateInv ==
    ASSUME IInv, SerialInv, UpdateInv, NEW r \in OrderRequests, oreq[r].cmd = "update",
           NEW pc \in OrderOpenPcs, Goto(r, pc), UNCHANGED items,
           \/ oreq[r].pc = "checkName" /\ pc = "saveOrder" /\ AcceptsLines(oreq[r].lines)
           \/ oreq[r].pc = "saveOrder" /\ pc = "deleteItems"
    PROVE  UpdateInv'
<1>1. oreq[r].pc \in OrderOpenPcs
  BY DEF OrderOpenPcs
<1>2. /\ oreq'[r].pc = pc /\ oreq'[r].bare = oreq[r].bare /\ Alone(r)
      /\ oreq'[r].cmd = oreq[r].cmd /\ oreq'[r].order = oreq[r].order
      /\ oreq'[r].lines = oreq[r].lines
  BY GotoKeepsRequest
<1>3. ItemsOf(oreq[r].order)' = ItemsOf(oreq[r].order)
  BY <1>2 DEF ItemsOf
<1>4. /\ NoneHasNewProduct(r, ItemsOf(oreq[r].order)) /\ oreq[r].bare = {}
      /\ AcceptsLines(oreq[r].lines)
  BY <1>1, OpenUpdate DEF UpdateShapeOf
<1>5. NoneHasNewProduct(r, ItemsOf(oreq[r].order))' /\ AcceptsLines(oreq'[r].lines)
  BY <1>2, <1>3, <1>4 DEF NoneHasNewProduct
<1>6. UpdateShapeOf(r)'
  BY <1>1, <1>2, <1>3, <1>4, <1>5, OpenUpdate DEF UpdateShapeOf
<1> QED
  BY <1>1, <1>2, <1>6, OpenUpdate, ReadKeepsProducts, OrderStepKeepsUpdateInv

LEMMA UpdateCheckKeepsUpdateInv ==
    ASSUME IInv, SerialInv, UpdateInv, NEW r \in OrderRequests, UpdateCheck(r)
    PROVE  UpdateInv'
<1>1. /\ oreq[r].cmd = "update" /\ oreq[r].pc = "checkName" /\ oreq[r].pc \in OrderOpenPcs
      /\ UNCHANGED items
      /\ End(r, "failed") \/ End(r, "rejected") \/ (AcceptsLines(oreq[r].lines) /\ Goto(r, "saveOrder"))
  BY DEF UpdateCheck, At, OrderOpenPcs, database
<1>2. "saveOrder" \in OrderOpenPcs
  BY DEF OrderOpenPcs
<1> QED
  BY <1>1, <1>2, EndOnReadKeepsUpdateInv, UpdateGoesOnKeepsUpdateInv DEF EndPcs

LEMMA UpdateSaveOrderKeepsUpdateInv ==
    ASSUME IInv, SerialInv, UpdateInv, NEW r \in OrderRequests, UpdateSaveOrder(r)
    PROVE  UpdateInv'
<1>1. oreq[r].cmd = "update" /\ oreq[r].pc = "saveOrder" /\ oreq[r].pc \in OrderOpenPcs
  BY DEF UpdateSaveOrder, At, OrderOpenPcs
<1>2. CASE End(r, "failed") /\ UNCHANGED <<orders, items>>
  BY <1>1, <1>2, EndOnReadKeepsUpdateInv DEF EndPcs
<1>3. ASSUME NEW row, SaveLoadedOrder(oreq[r].order, row, oreq[r].loaded), Goto(r, "deleteItems")
      PROVE  UpdateInv'
  <2>1. oreq[r].loaded = ItemsOf(oreq[r].order) /\ oreq[r].order \in OrderIds
    BY <1>1, OpenUpdate DEF OrderCurrent
  <2>2. UNCHANGED items
    BY <1>3, <2>1, SavesTheSameItems
  <2> QED
    BY <1>1, <1>3, <2>2, UpdateGoesOnKeepsUpdateInv DEF OrderOpenPcs
<1> QED
  BY <1>2, <1>3 DEF UpdateSaveOrder

\* The items that remain are those the lines name.
LEMMA UpdateDeleteItemsKeepsUpdateInv ==
    ASSUME IInv, SerialInv, UpdateInv, NEW r \in OrderRequests, UpdateDeleteItems(r)
    PROVE  UpdateInv'
<1> DEFINE o == oreq[r].order
           gone == oreq[r].loaded \ {l.item : l \in oreq[r].lines}
<1>1. /\ oreq[r].cmd = "update" /\ oreq[r].pc = "deleteItems" /\ oreq[r].pc \in OrderOpenPcs
      /\ DeleteItems(gone) /\ Goto(r, "createItems")
  BY DEF UpdateDeleteItems, At, OrderOpenPcs
<1>2. "createItems" \in OrderOpenPcs
  BY DEF OrderOpenPcs
<1>3. /\ oreq'[r].pc = "createItems" /\ oreq'[r].bare = oreq[r].bare /\ Alone(r)
      /\ oreq'[r].cmd = oreq[r].cmd /\ oreq'[r].order = oreq[r].order
      /\ oreq'[r].lines = oreq[r].lines /\ oreq'[r].loaded = oreq[r].loaded
  BY <1>1, <1>2, GotoKeepsRequest
<1>4. /\ oreq[r].loaded = ItemsOf(o) /\ NoneHasNewProduct(r, ItemsOf(o)) /\ oreq[r].bare = {}
      /\ AcceptsLines(oreq[r].lines)
  BY <1>1, OpenUpdate DEF OrderCurrent, UpdateShapeOf
<1>5. \A i \in ItemIds : i \in gone <=>
         i \in ItemsOf(o) /\ ~\E l \in oreq[r].lines : l.item = i
  BY <1>4 DEF ItemsOf
<1> HIDE DEF gone
<1>6. \A i \in ItemIds : i \in ItemsOf(oreq[r].order)' <=>
         i \in ItemsOf(o) /\ \E l \in oreq[r].lines : l.item = i
  BY <1>1, <1>3, <1>5 DEF DeleteItems, ItemsOf
<1>7. \A l \in oreq'[r].lines : l.item # Null =>
         /\ l.item \in ItemsOf(oreq[r].order)' /\ l.item[2] = l.product
         /\ l.item \in oreq'[r].loaded
  BY <1>1, <1>3, <1>4, <1>6, OpenUpdate DEF ItemsOf
<1>8. NoneHasNewProduct(r, oreq[r].loaded)' /\ AcceptsLines(oreq'[r].lines)
  BY <1>3, <1>4 DEF NoneHasNewProduct
<1>9. \A i \in ItemsOf(oreq[r].order)' : \E l \in oreq'[r].lines : l.item = i
  BY <1>3, <1>6 DEF ItemsOf
<1>10. oreq'[r].lines # {} /\ oreq'[r].bare = {}
  BY <1>1, <1>3, <1>4, OpenUpdate
<1>11. UpdateShapeOf(r)'
  BY <1>3, <1>7, <1>8, <1>9, <1>10 DEF UpdateShapeOf
<1>12. ItemIsOfItsProduct'
  BY <1>1, OpenUpdate, DeleteKeepsProducts
<1> QED
  BY <1>1, <1>3, <1>11, <1>12, OpenUpdate, OrderStepKeepsUpdateInv

\* The lines that get a new item are those that name none.
LEMMA NewLines ==
    ASSUME NEW r \in OrderRequests, UpdateShapeOf(r), At(r, "update", "createItems"),
           NEW l \in oreq[r].lines
    PROVE  l.product \notin {i[2] : i \in oreq[r].loaded \ oreq[r].bare} <=> l.item = Null
<1>1. /\ oreq[r].bare = {} /\ NoneHasNewProduct(r, oreq[r].loaded)
      /\ l.item # Null => l.item \in oreq[r].loaded /\ l.item[2] = l.product
  BY DEF UpdateShapeOf, At, OrderOpenPcs
<1>2. CASE l.item = Null
  BY <1>1, <1>2 DEF NoneHasNewProduct
<1>3. CASE l.item # Null
  BY <1>1, <1>3
<1> QED
  BY <1>2, <1>3

\* Which items an insertion links, and what it writes to them.
LEMMA InsertedItems ==
    ASSUME NEW r \in OrderRequests, NEW o \in OrderIds, NEW lines \in SUBSET Line,
           AcceptsLines(lines), InsertItems(r, o, lines)
    PROVE  /\ \A l \in lines : /\ <<r, l.product>> \in ItemsOf(o)'
                               /\ items'[<<r, l.product>>].amount = l.amount
           /\ \A i \in ItemsOf(o) : i \in ItemsOf(o)'
           /\ \A i \in ItemsOf(o)' : i \in ItemsOf(o) \/ \E l \in lines : i = <<r, l.product>>
<1>1. ASSUME NEW l \in lines
      PROVE  items'[<<r, l.product>>] = [amount |-> l.amount, product |-> l.product, order |-> o]
  <2> DEFINE i == <<r, l.product>>
  <2>1. i \in ItemIds /\ i[2] = l.product
    BY DEF Line, ItemIds
  <2>2. (CHOOSE k \in lines : i = <<r, k.product>>) = l
    BY DEF AcceptsLines
  <2> QED
    BY <2>1, <2>2 DEF InsertItems
<1>2. ASSUME NEW l \in lines
      PROVE  <<r, l.product>> \in ItemsOf(o)' /\ items'[<<r, l.product>>].amount = l.amount
  <2> DEFINE row == [amount |-> l.amount, product |-> l.product, order |-> o]
  <2>1. row \in ItemRow /\ row.order = o /\ row.amount = l.amount
    BY DEF Line, ItemRow
  <2>2. items'[<<r, l.product>>] = row /\ <<r, l.product>> \in ItemIds
    BY <1>1 DEF Line, ItemIds
  <2> HIDE DEF row
  <2>3. row # Null
    BY <2>1, NullAssumption
  <2> QED
    BY <2>1, <2>2, <2>3 DEF ItemsOf
<1>3. \A i \in ItemIds : (~\E l \in lines : i = <<r, l.product>>) => items'[i] = items[i]
  BY DEF InsertItems
<1> QED
  BY <1>2, <1>3 DEF ItemsOf

LEMMA UpdateCreateItemsKeepsUpdateInv ==
    ASSUME IInv, SerialInv, UpdateInv, NEW r \in OrderRequests, UpdateCreateItems(r)
    PROVE  UpdateInv'
<1> DEFINE o == oreq[r].order
           new == {l \in oreq[r].lines :
                     l.product \notin {i[2] : i \in oreq[r].loaded \ oreq[r].bare}}
<1>1. /\ oreq[r].cmd = "update" /\ oreq[r].pc = "createItems" /\ oreq[r].pc \in OrderOpenPcs
  BY DEF UpdateCreateItems, At, OrderOpenPcs
<1>2. CASE End(r, "failed") /\ UNCHANGED items
  BY <1>1, <1>2, EndOnReadKeepsUpdateInv DEF EndPcs
<1>3. CASE InsertItems(r, o, new) /\ Goto(r, "findItems")
  <2>1. "findItems" \in OrderOpenPcs
    BY DEF OrderOpenPcs
  <2>2. /\ oreq'[r].pc = "findItems" /\ Alone(r)
        /\ oreq'[r].cmd = oreq[r].cmd /\ oreq'[r].order = o
        /\ oreq'[r].lines = oreq[r].lines
    BY <1>3, <2>1, GotoKeepsRequest
  <2>3. \A l \in oreq[r].lines : l \in new <=> l.item = Null
    BY <1>1, OpenUpdate, NewLines DEF At
  <2>4. new \in SUBSET Line /\ new \subseteq oreq[r].lines
    BY <1>1, OpenUpdate DEF OrderRequest
  <2>5. AcceptsLines(oreq[r].lines) /\ AcceptsLines(new)
    BY <1>1, OpenUpdate DEF UpdateShapeOf, AcceptsLines
  <2>6. \A i \in ItemsOf(o) : \E l \in oreq[r].lines : l.item = i
    BY <1>1, OpenUpdate DEF UpdateShapeOf
  <2> HIDE DEF new
  <2>7. /\ \A l \in new : /\ <<r, l.product>> \in ItemsOf(oreq[r].order)'
                          /\ items'[<<r, l.product>>].amount = l.amount
        /\ \A i \in ItemsOf(o) : i \in ItemsOf(oreq[r].order)'
        /\ \A i \in ItemsOf(oreq[r].order)' :
              i \in ItemsOf(o) \/ \E l \in new : i = <<r, l.product>>
    <3>1. ItemsOf(oreq[r].order)' = ItemsOf(o)'
      BY <2>2 DEF ItemsOf
    <3> QED
      BY <1>1, <1>3, <2>2, <2>4, <2>5, <3>1, OpenUpdate, InsertedItems
  <2>8. ItemsAreOfLines(r)'
    <3>1. ASSUME NEW i \in ItemsOf(oreq[r].order)'
          PROVE  \E l \in oreq[r].lines : i = ItemFor(r, l)
      <4>1. i # Null
        BY NullAssumption DEF ItemsOf
      <4> QED
        BY <2>3, <2>4, <2>6, <2>7, <4>1 DEF ItemFor
    <3>2. ASSUME NEW l \in oreq[r].lines
          PROVE  /\ ItemFor(r, l) \in ItemsOf(oreq[r].order)'
                 /\ l.item = Null => items'[ItemFor(r, l)].amount = l.amount
      BY <1>1, <2>3, <2>7, OpenUpdate DEF ItemFor
    <3> QED
      BY <2>2, <3>1, <3>2 DEF ItemsAreOfLines
  <2>9. \A l \in oreq[r].lines : l.item # Null =>
           l.item \in ItemsOf(oreq[r].order)' /\ l.item[2] = l.product
    BY <1>1, <2>7, OpenUpdate
  <2>10. UpdateShapeOf(r)'
    BY <1>1, <2>2, <2>5, <2>8, <2>9, OpenUpdate DEF UpdateShapeOf
  <2>11. ItemIsOfItsProduct'
    BY <1>1, <1>3, OpenUpdate, InsertKeepsProducts
  <2> QED
    BY <1>1, <2>2, <2>10, <2>11, OpenUpdate, OrderStepKeepsUpdateInv
<1> QED
  BY <1>2, <1>3 DEF UpdateCreateItems

LEMMA UpdateFindItemsKeepsUpdateInv ==
    ASSUME IInv, SerialInv, UpdateInv, NEW r \in OrderRequests, UpdateFindItems(r)
    PROVE  UpdateInv'
<1> DEFINE found == {i \in ItemIds : items[i] # Null /\ \E l \in oreq[r].lines : l.item = i}
<1>1. /\ oreq[r].cmd = "update" /\ oreq[r].pc = "findItems" /\ oreq[r].pc \in OrderOpenPcs
      /\ UNCHANGED items
      /\ oreq' = [oreq EXCEPT ![r] = [@ EXCEPT !.pc = "updateItems", !.bare = {},
                                               !.loaded = found]]
  BY DEF UpdateFindItems, At, OrderOpenPcs, database
<1>2. /\ oreq'[r].pc = "updateItems" /\ oreq'[r].loaded = found /\ Alone(r)
      /\ oreq'[r].cmd = oreq[r].cmd /\ oreq'[r].order = oreq[r].order
      /\ oreq'[r].lines = oreq[r].lines
  <2> HIDE DEF found
  <2> QED
    BY <1>1, OpenUpdate DEF IInv, TypeOK, OrdersTypeOK, OrderRequest, Alone
<1>3. ItemsOf(oreq[r].order)' = ItemsOf(oreq[r].order)
  BY <1>1, <1>2 DEF ItemsOf
<1>4. \A l \in oreq[r].lines : l.item # Null => l.item \in found
  BY <1>1, OpenUpdate DEF ItemsOf
<1> HIDE DEF found
<1>5. ItemsAreOfLines(r) /\ AcceptsLines(oreq[r].lines)
  BY <1>1, OpenUpdate DEF UpdateShapeOf
<1>6. ItemsAreOfLines(r)' /\ AcceptsLines(oreq'[r].lines)
  BY <1>1, <1>2, <1>3, <1>5 DEF ItemsAreOfLines
<1>7. UpdateShapeOf(r)'
  BY <1>1, <1>2, <1>3, <1>4, <1>6, OpenUpdate DEF UpdateShapeOf
<1> QED
  BY <1>1, <1>2, <1>7, OpenUpdate, ReadKeepsProducts, OrderStepKeepsUpdateInv

\* The items that the update has found take the amounts of their lines.
LEMMA UpdateSaveItemsKeepsUpdateInv ==
    ASSUME IInv, SerialInv, UpdateInv, NEW r \in OrderRequests, UpdateSaveItems(r)
    PROVE  UpdateInv'
<1> DEFINE o == oreq[r].order
<1>1. /\ oreq[r].cmd = "update" /\ oreq[r].pc = "updateItems" /\ oreq[r].pc \in OrderOpenPcs
      /\ Goto(r, "respond")
  BY DEF UpdateSaveItems, At, OrderOpenPcs
<1>2. PICK line \in [oreq[r].loaded -> oreq[r].lines] :
         /\ \A i \in oreq[r].loaded : line[i].item = i
         /\ SaveLoadedItems([i \in oreq[r].loaded |-> line[i].amount])
  BY DEF UpdateSaveItems
<1>3. "respond" \in OrderOpenPcs
  BY DEF OrderOpenPcs
<1>4. /\ oreq'[r].pc = "respond" /\ Alone(r)
      /\ oreq'[r].cmd = oreq[r].cmd /\ oreq'[r].order = o
      /\ oreq'[r].lines = oreq[r].lines
  BY <1>1, <1>3, GotoKeepsRequest
<1>5. /\ ItemsAreOfLines(r) /\ AcceptsLines(oreq[r].lines)
      /\ \A l \in oreq[r].lines : l.item # Null => l.item \in oreq[r].loaded
      /\ \A i \in oreq[r].loaded :
            i \in ItemIds /\ items[i] # Null /\ \E l \in oreq[r].lines : l.item = i
  BY <1>1, OpenUpdate DEF UpdateShapeOf, OrderCurrent, At, OrderRequest
<1>6. ASSUME NEW i \in ItemIds
      PROVE  /\ i \notin oreq[r].loaded => items'[i] = items[i]
             /\ i \in oreq[r].loaded =>
                   /\ items'[i] # Null
                   /\ items'[i].amount = line[i].amount
                   /\ items'[i].order = items[i].order /\ items'[i].product = items[i].product
  <2>1. CASE i \notin oreq[r].loaded
    BY <1>2, <2>1 DEF SaveLoadedItems
  <2>2. CASE i \in oreq[r].loaded
    <3>1. items[i] # Null /\ items[i] \in ItemRow
      BY <1>5, <2>2 DEF IInv, TypeOK, DatabaseTypeOK
    <3>2. line[i] \in Line
      BY <1>1, <1>2, <2>2, OpenUpdate DEF OrderRequest
    <3> DEFINE row == [items[i] EXCEPT !.amount = line[i].amount]
    <3>3. items'[i] = row
      BY <1>2, <2>2, <3>1 DEF SaveLoadedItems
    <3>4. /\ row \in ItemRow /\ row.amount = line[i].amount
          /\ row.order = items[i].order /\ row.product = items[i].product
      BY <3>1, <3>2 DEF ItemRow, Line
    <3> HIDE DEF row
    <3>5. row # Null
      BY <3>4, NullAssumption
    <3> QED
      BY <2>2, <3>3, <3>4, <3>5
  <2> QED
    BY <2>1, <2>2
<1>7. ItemsOf(oreq[r].order)' = ItemsOf(o)
  BY <1>4, <1>5, <1>6 DEF ItemsOf
<1>8. ItemIsOfItsProduct'
  BY <1>1, <1>5, <1>6, OpenUpdate DEF ItemIsOfItsProduct
<1>9. ASSUME NEW l \in oreq[r].lines
      PROVE  items'[ItemFor(r, l)].amount = l.amount
  <2>1. ItemFor(r, l) \in ItemIds
    BY <1>5 DEF ItemsAreOfLines, ItemsOf
  <2>2. CASE l.item # Null
    <3>1. ItemFor(r, l) = l.item /\ l.item \in oreq[r].loaded
      BY <1>5, <2>2 DEF ItemFor
    <3>2. line[l.item] \in oreq[r].lines /\ line[l.item].item = l.item
      BY <1>2, <3>1
    <3>3. line[l.item].product = l.product
      BY <1>1, <2>2, <3>2, OpenUpdate
    <3>4. line[l.item] = l
      BY <1>5, <3>2, <3>3 DEF AcceptsLines
    <3> QED
      BY <1>6, <2>1, <3>1, <3>4
  <2>3. CASE l.item = Null
    <3>1. ItemFor(r, l) = <<r, l.product>> /\ items[ItemFor(r, l)].amount = l.amount
      BY <1>5, <2>3 DEF ItemFor, ItemsAreOfLines
    <3>2. ItemFor(r, l) \notin oreq[r].loaded
      <4> SUFFICES ASSUME ItemFor(r, l) \in oreq[r].loaded
                   PROVE  FALSE
        OBVIOUS
      <4>1. PICK k \in oreq[r].lines : k.item = <<r, l.product>>
        BY <1>5, <3>1
      <4>2. k.item # Null
        BY <2>1, <3>1, <4>1, NullAssumption
      <4>3. k.product = l.product
        <5>1. k.item[2] = k.product
          BY <1>1, <4>2, OpenUpdate
        <5>2. <<r, l.product>>[2] = l.product
          OBVIOUS
        <5> QED
          BY <4>1, <5>1, <5>2
      <4>4. k = l
        BY <1>5, <4>3 DEF AcceptsLines
      <4> QED
        BY <2>3, <4>2, <4>4
    <3> QED
      BY <1>6, <2>1, <3>1, <3>2
  <2> QED
    BY <2>2, <2>3
<1>10. ItemsAreOfLines(r)'
  BY <1>4, <1>5, <1>7, <1>9 DEF ItemsAreOfLines
<1>11. UpdateShapeOf(r)'
  BY <1>1, <1>4, <1>5, <1>7, <1>10, OpenUpdate DEF UpdateShapeOf
<1> QED
  BY <1>1, <1>4, <1>8, <1>11, OpenUpdate, OrderStepKeepsUpdateInv

LEMMA OrderHandlerKeepsUpdateInv ==
    ASSUME IInv, SerialInv, UpdateInv, NEW r \in OrderRequests, OrderStep(r) \/ OrderAbort(r)
    PROVE  UpdateInv'
<1>1. CASE DeleteFind(r)
  <2>1. /\ oreq[r].cmd = "delete" /\ oreq[r].pc \in OrderOpenPcs /\ UNCHANGED items
        /\ FindUnfinished(r, "deleteItems")
    BY <1>1 DEF DeleteFind, At, OrderOpenPcs, database
  <2>2. CASE End(r, "rejected")
    BY <2>1, <2>2, EndOnReadKeepsUpdateInv DEF EndPcs
  <2>3. CASE \E row, loaded, bare : oreq' = [oreq EXCEPT ![r] = [@ EXCEPT
                !.pc = "deleteItems", !.row = row, !.loaded = loaded, !.bare = bare]]
    <3>1. oreq'[r].cmd # "update" /\ Alone(r) /\ r \in OrderOpen
      BY <2>1, <2>3 DEF IInv, TypeOK, OrdersTypeOK, OrderRequest, Alone, OrderOpen
    <3> QED
      BY <2>1, <3>1, OtherUpdateHasShape, ReadKeepsProducts, OrderStepKeepsUpdateInv
         DEF UpdateInv
  <2> QED
    BY <2>1, <2>2, <2>3 DEF FindUnfinished
<1> QED
  BY <1>1, OtherHandlerKeepsUpdateInv, UpdateFindKeepsUpdateInv, UpdateCheckKeepsUpdateInv,
     UpdateSaveOrderKeepsUpdateInv, UpdateDeleteItemsKeepsUpdateInv,
     UpdateCreateItemsKeepsUpdateInv, UpdateFindItemsKeepsUpdateInv,
     UpdateSaveItemsKeepsUpdateInv DEF OrderStep

\* A careful client names, beside each product, an item of the order that has
\* it, if there is one.
LEMMA CarefulLines ==
    ASSUME CarefulClients, NEW o, NEW cart \in Carts, NEW lines \in LinesFor(o, cart)
    PROVE  /\ lines # {}
           /\ \A l \in lines :
                 /\ l.item # Null => l.item \in ItemsOf(o) /\ l.item[2] = l.product
                 /\ l.item = Null => \A i \in ItemsOf(o) : i[2] # l.product
<1>1. lines # {}
  <2>1. PICK c : c \in cart
    BY OrdersAssumption
  <2>2. PICK id : lines = {[product |-> k.product, amount |-> k.amount, item |-> id[k]] : k \in cart}
    BY LinesForShape
  <2> QED
    BY <2>1, <2>2
<1>2. ASSUME NEW l \in lines
      PROVE  /\ l.item # Null => l.item \in ItemsOf(o) /\ l.item[2] = l.product
             /\ l.item = Null => \A i \in ItemsOf(o) : i[2] # l.product
  <2> DEFINE kept == {i \in ItemsOf(o) : i[2] = l.product}
  <2>1. l.item \in ItemIdChoices(o, l.product)
    BY LinesForChoices
  <2>2. l.item \in IF kept = {} THEN {Null} ELSE kept
    BY <2>1 DEF ItemIdChoices
  <2>3. \A i \in kept : i # Null
    BY NullAssumption DEF ItemsOf
  <2> QED
    BY <2>2, <2>3
<1> QED
  BY <1>1, <1>2

LEMMA OrdersReceiveKeepsUpdateInv ==
    ASSUME MaxOverlap = 1, CarefulClients, IInv, SerialInv, UpdateInv,
           OpenHandlers < MaxOverlap, OrdersReceive
    PROVE  UpdateInv'
<1>1. OrderOpen = {}
  BY NobodyRuns DEF SerialInv
<1>2. ASSUME NEW r \in OrderRequests, NEW request, Receive(r, request),
             \/ request.cmd # "update"
             \/ /\ request.pc = "find" /\ request.lines # {}
                /\ \A l \in request.lines :
                      /\ l.item # Null => /\ l.item \in ItemsOf(request.order)
                                          /\ l.item[2] = l.product
                      /\ l.item = Null => \A i \in ItemsOf(request.order) : i[2] # l.product
      PROVE  UpdateInv'
  <2>1. oreq'[r] = request /\ UNCHANGED items
    BY <1>2 DEF Receive, IInv, TypeOK, OrdersTypeOK, database
  <2>2. \A q \in OrderRequests : q # r => UpdateShapeOf(q)'
    BY <1>1, <1>2, OtherUpdateHasShape DEF Receive, IInv, TypeOK, OrdersTypeOK, OrderOpen
  <2>3. ItemsOf(oreq[r].order)' = ItemsOf(request.order)
    BY <2>1 DEF ItemsOf
  <2>4. UpdateShapeOf(r)'
    BY <1>2, <2>1, <2>3 DEF UpdateShapeOf, NoneHasNewProduct
  <2> QED
    BY <2>1, <2>2, <2>4, ReadKeepsProducts DEF UpdateInv
<1>3. PICK r \in OrderRequests, org \in Organisations :
         \/ \E name \in ClientNames \cup {Null}, cart \in Carts :
               ReceiveCreate(r, org, name, cart)
         \/ \E o \in Known, name \in ClientNames \cup {Null}, cart \in Carts :
               \E lines \in LinesFor(o, cart) : ReceiveUpdate(r, o, org, name, lines)
         \/ \E o \in Known : ReceiveDelete(r, o, org)
  BY DEF OrdersReceive
<1>4. CASE \E name \in ClientNames \cup {Null}, cart \in Carts : ReceiveCreate(r, org, name, cart)
  <2>1. PICK name, lines :
           Receive(r, [NoOrderRequest EXCEPT
               !.cmd = "create", !.pc = "checkName", !.organisation = org,
               !.order = r, !.clientName = name, !.lines = lines])
    BY <1>4 DEF ReceiveCreate
  <2> DEFINE request == [NoOrderRequest EXCEPT
                 !.cmd = "create", !.pc = "checkName", !.organisation = org,
                 !.order = r, !.clientName = name, !.lines = lines]
  <2>2. Receive(r, request) /\ request.cmd # "update"
    BY <2>1 DEF NoOrderRequest
  <2> HIDE DEF request
  <2> QED
    BY <1>2, <2>2
<1>5. ASSUME NEW o \in Known, NEW name, NEW cart \in Carts, NEW lines \in LinesFor(o, cart),
             ReceiveUpdate(r, o, org, name, lines)
      PROVE  UpdateInv'
  <2> DEFINE request == [NoOrderRequest EXCEPT
                 !.cmd = "update", !.pc = "find", !.organisation = org,
                 !.order = o, !.clientName = name, !.lines = lines]
  <2>1. Receive(r, request)
    BY <1>5 DEF ReceiveUpdate
  <2>2. request.pc = "find" /\ request.lines = lines /\ request.order = o
    BY DEF NoOrderRequest
  <2> HIDE DEF request
  <2> QED
    BY <1>2, <2>1, <2>2, CarefulLines
<1>6. CASE \E o \in Known : ReceiveDelete(r, o, org)
  <2>1. PICK o \in Known : ReceiveDelete(r, o, org)
    BY <1>6
  <2> DEFINE request == [NoOrderRequest EXCEPT
                 !.cmd = "delete", !.pc = "find", !.organisation = org, !.order = o]
  <2>2. Receive(r, request) /\ request.cmd # "update"
    BY <2>1 DEF ReceiveDelete, NoOrderRequest
  <2> HIDE DEF request
  <2> QED
    BY <1>2, <2>2
<1> QED
  BY <1>3, <1>4, <1>5, <1>6

LEMMA InitUpdateInv == Init => UpdateInv
BY DEF Init, DatabaseInit, OrdersInit, NoOrderRequest, UpdateInv, ItemIsOfItsProduct,
   UpdateShapeOf

LEMMA NextKeepsUpdateInv ==
    ASSUME MaxOverlap = 1, CarefulClients
    PROVE  IInv /\ SerialInv /\ UpdateInv /\ [Next]_vars => UpdateInv'
<1> SUFFICES ASSUME IInv, SerialInv, UpdateInv, [Next]_vars
             PROVE  UpdateInv'
  OBVIOUS
<1>1. CASE UNCHANGED <<oreq, items>>
  BY <1>1 DEF UpdateInv, ItemIsOfItsProduct, UpdateShapeOf, NoneHasNewProduct, ItemsAreOfLines,
     ItemsOf
<1>2. CASE Receives
  <2>1. CASE OrdersReceive
    BY <1>2, <2>1, OrdersReceiveKeepsUpdateInv DEF Receives
  <2>2. CASE ~OrdersReceive
    BY <1>1, <1>2, <2>2 DEF Receives, PaymentsReceive, PaymentReceive, WebhooksReceive,
       WebhookReceive, database
  <2> QED
    BY <2>1, <2>2
<1>3. ASSUME NEW p \in PaymentRequests, PaymentStep(p) \/ PaymentAbort(p), UNCHANGED oreq
      PROVE  UpdateInv'
  BY <1>1, <1>3 DEF PaymentStep, PaymentAbort, CreatePaymentFind, CreatePaymentCallPayconiq,
     CreatePaymentSave, CreatePaymentFinishOrder, PayconiqRespond, CancelFind,
     CancelCallPayconiq, CancelUpdatePayment, database
<1>4. ASSUME NEW d \in Deliveries, WebhookStep(d) \/ WebhookAbort(d), UNCHANGED oreq
      PROVE  UpdateInv'
  BY <1>1, <1>4 DEF WebhookStep, WebhookAbort, WebhookFind, WebhookUpdatePayment,
     WebhookFinishOrder, database
<1>5. CASE Steps \/ Aborts
  BY <1>3, <1>4, <1>5, OrderHandlerKeepsUpdateInv DEF Steps, Aborts
<1>6. CASE PayconiqMoves \/ UNCHANGED vars
  BY <1>1, <1>6 DEF PayconiqMoves, vars, database
<1> QED
  BY <1>2, <1>5, <1>6 DEF Next

\* When requests are handled one at a time and clients send the id of every
\* item they keep, an update turns the items of its order into those of its
\* lines, call by call, though it may fail and leave them half-way.
THEOREM UpdateInvariantHolds ==
    ASSUME MaxOverlap = 1, CarefulClients
    PROVE  Spec => []UpdateInv
BY InvariantHolds, SerialInvariantHolds, InitUpdateInv, NextKeepsUpdateInv, PTL DEF Spec

\* Then an update is answered with the lines that were sent, all of them and no
\* other.
THEOREM UpdateAnswersItsLinesAlways ==
    ASSUME MaxOverlap = 1, CarefulClients
    PROVE  Spec => UpdateAnswersItsLines
<1> DEFINE Answers == \A r \in OrderRequests :
              At(r, "update", "respond") /\ oreq'[r].pc = "done" => Answer(r) = SentLines(r)
<1>1. ASSUME IInv, SerialInv, UpdateInv
      PROVE  Answers
  <2> SUFFICES ASSUME NEW r \in OrderRequests, At(r, "update", "respond")
               PROVE  Answer(r) = SentLines(r)
    OBVIOUS
  <2> DEFINE o == oreq[r].order
             answered == {[product |-> items[i].product, amount |-> items[i].amount] :
                             i \in {j \in ItemsOf(o) : items[j].product # Null}}
  <2>1. /\ ItemsAreOfLines(r) /\ OrderFound(o, oreq[r].organisation) /\ oreq[r].lines # {}
        /\ ItemIsOfItsProduct /\ oreq[r].pc = "respond"
        /\ \A l \in oreq[r].lines : l.item # Null => l.item[2] = l.product
    BY <1>1, OpenUpdate DEF At, OrderOpenPcs, UpdateShapeOf, OrderCurrent, FoundUnfinished
  <2>2. ASSUME NEW l \in oreq[r].lines
        PROVE  LET i == ItemFor(r, l)
               IN  /\ i \in ItemsOf(o) /\ items[i].product # Null
                   /\ items[i].product = l.product /\ items[i].amount = l.amount
    <3>1. ItemFor(r, l) \in ItemsOf(o) /\ items[ItemFor(r, l)].amount = l.amount
      BY <2>1 DEF ItemsAreOfLines
    <3>2. ItemFor(r, l)[2] = l.product
      <4>1. <<r, l.product>>[2] = l.product
        OBVIOUS
      <4> QED
        BY <2>1, <4>1 DEF ItemFor
    <3>3. items[ItemFor(r, l)].product = l.product
      BY <2>1, <3>1, <3>2 DEF ItemIsOfItsProduct, ItemsOf
    <3> QED
      BY <2>1, <3>1, <3>3, NoItemIsBare
  <2>3. SentLines(r) \subseteq answered
    <3>1. ASSUME NEW l \in oreq[r].lines
          PROVE  [product |-> l.product, amount |-> l.amount] \in answered
      BY <2>2
    <3> QED
      BY <3>1 DEF SentLines
  <2>4. answered \subseteq SentLines(r)
    <3>1. ASSUME NEW i \in ItemsOf(o)
          PROVE  [product |-> items[i].product, amount |-> items[i].amount] \in SentLines(r)
      <4>1. PICK l \in oreq[r].lines : i = ItemFor(r, l)
        BY <2>1 DEF ItemsAreOfLines
      <4>2. items[i].product = l.product /\ items[i].amount = l.amount
        BY <2>2, <4>1
      <4> QED
        BY <4>2 DEF SentLines
    <3> QED
      BY <3>1
  <2>5. answered # {}
    BY <2>1, <2>3, ZenonT(40) DEF SentLines
  <2>6. Answer(r) = IF OrderFound(o, oreq[r].organisation) /\ answered # {} THEN answered ELSE Null
    BY DEF Answer, GetOrder
  <2> HIDE DEF answered
  <2> QED
    BY <2>1, <2>3, <2>4, <2>5, <2>6
<1>2. UpdateAnswersItsLines <=> [][Answers]_vars
  BY DEF UpdateAnswersItsLines
<1> QED
  BY <1>1, <1>2, InvariantHolds, SerialInvariantHolds, UpdateInvariantHolds, PTL DEF Spec

=============================================================================
