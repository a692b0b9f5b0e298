---------------------------- MODULE Items_proofs ----------------------------
(* Proofs about order items and the answers that show them.  ItemInv is      *)
(* inductive relative to IInv, so items stay with the order their request    *)
(* was about, whichever stale lists are saved, and a request that was        *)
(* rejected has written nothing.  AnswerInv is inductive relative to both,   *)
(* so a creation is answered with the lines that were sent.                  *)
EXTENDS Tapapp_proofs

-----------------------------------------------------------------------------
(* The inductive invariant, relative to IInv, behind ItemsStayHome and       *)
(* RejectedWroteNothing.                                                     *)

\* A request here has written no item of its own, and no order of its own.
NoItemYet == {"idle", "find", "checkName", "rejected"}
NoOrderYet == {"idle", "checkName", "saveOrder", "rejected"}

\* Items and orders are there only once their request has written them.
WrittenByOwner ==
    \A r \in OrderRequests :
        /\ oreq[r].pc \in NoItemYet => \A p \in Products : items[<<r, p>>] = Null
        /\ oreq[r].pc \in NoOrderYet \/ oreq[r].cmd # "create" => orders[r] = Null

\* A creation is about its own order, an update or a deletion about one whose
\* creation was answered.  What it has loaded was there, and until it saves the
\* order it has loaded items of that order only.
HomeShapeOf(r) ==
    oreq[r].pc # "idle" =>
        /\ oreq[r].cmd = "create" => oreq[r].order = r
        /\ oreq[r].cmd \in {"update", "delete"} => At(oreq[r].order, "create", "done")
        /\ \A i \in oreq[r].loaded :
              /\ oreq[i[1]].pc \notin NoItemYet
              /\ At(r, "update", "checkName") \/ At(r, "update", "saveOrder") =>
                    oreq[i[1]].order = oreq[r].order

HomeShape == \A r \in OrderRequests : HomeShapeOf(r)

ItemInv == WrittenByOwner /\ HomeShape /\ ItemsStayHome

-----------------------------------------------------------------------------
(* The inductive invariant, relative to IInv and ItemInv, behind             *)
(* CreateAnswersItsLines.                                                    *)

\* Others may have come across items of request r: it has ended, or is about an
\* order whose creation was answered.
Disclosed(r) ==
    \/ oreq[r].pc \in EndPcs
    \/ oreq[r].pc # "idle" /\ oreq[r].cmd \in {"update", "delete"}

\* A handler has neither loaded nor been sent items of a creation that runs.
SecretsKeptBy(r) ==
    oreq[r].pc # "idle" =>
        /\ \A i \in oreq[r].loaded : Disclosed(i[1])
        /\ \A l \in oreq[r].lines : l.item # Null => Disclosed(l.item[1])

SecretsKept == \A r \in OrderRequests : SecretsKeptBy(r)

\* What a creation has stored so far is there as it was sent, and no more.
CreationShapeOf(r) ==
    oreq[r].cmd = "create" =>
        /\ oreq[r].pc \in {"checkName", "saveOrder", "saveItems", "respond"} =>
              oreq[r].lines # {}
        /\ oreq[r].pc \in {"saveOrder", "saveItems", "respond"} => AcceptsLines(oreq[r].lines)
        /\ oreq[r].pc \in {"saveItems", "respond"} =>
              orders[r] # Null /\ orders[r].organisation = oreq[r].organisation
        /\ oreq[r].pc \in {"checkName", "saveOrder", "saveItems"} =>
              \A p \in Products : items[<<r, p>>] = Null
        /\ oreq[r].pc = "respond" =>
              /\ \A l \in oreq[r].lines : items[<<r, l.product>>] =
                    [amount |-> l.amount, product |-> l.product, order |-> r]
              /\ \A p \in Products : items[<<r, p>>] # Null =>
                    \E l \in oreq[r].lines : l.product = p

CreationShape == \A r \in OrderRequests : CreationShapeOf(r)

AnswerInv == SecretsKept /\ CreationShape

-----------------------------------------------------------------------------
\* What every step grants to the requests: none goes back, none changes what
\* it is about, and an answered creation stays answered.
Forward ==
    \A r \in OrderRequests :
        /\ oreq[r].pc # "idle" =>
              /\ oreq'[r].pc # "idle"
              /\ oreq'[r].cmd = oreq[r].cmd /\ oreq'[r].order = oreq[r].order
        /\ oreq[r].pc \notin NoItemYet => oreq'[r].pc \notin NoItemYet
        /\ oreq[r].cmd = "create" /\ oreq[r].pc \notin NoOrderYet =>
              oreq'[r].pc \notin NoOrderYet
        /\ At(r, "create", "done") => oreq'[r] = oreq[r]

\* What every step may do to the items: unlink some, or link those of requests
\* that are past their checks to the orders these are about.
ItemStep ==
    \A i \in ItemIds : items'[i] # Null =>
        \/ items[i] # Null /\ items'[i].order \in {items[i].order, Null}
        \/ oreq[i[1]].pc \notin NoItemYet /\ items'[i].order \in {oreq[i[1]].order, Null}

\* What every step may do to the orders: store those that a creation has
\* stored, now or before.
OrderRowStep ==
    \A r \in OrderRequests : orders'[r] # Null =>
        \/ orders[r] # Null
        \/ oreq'[r].cmd = "create" /\ oreq'[r].pc \notin NoOrderYet

\* The step of one request; the others stand still.
Alone(r) == \A s \in OrderRequests : s # r => oreq'[s] = oreq[s]

-----------------------------------------------------------------------------
(* What follows from these.                                                  *)

LEMMA OwnerIsRequest ==
    ASSUME NEW i \in ItemIds
    PROVE  i[1] \in OrderRequests /\ i[2] \in Products /\ i = <<i[1], i[2]>>
BY DEF ItemIds

\* An item that is there belongs to a request that is past its checks.
LEMMA OwnerIsPastChecks ==
    ASSUME ItemInv, NEW i \in ItemIds, items[i] # Null
    PROVE  oreq[i[1]].pc \notin NoItemYet /\ items[i].order \in {oreq[i[1]].order, Null}
BY OwnerIsRequest DEF ItemInv, WrittenByOwner, ItemsStayHome

LEMMA StepsKeepItems ==
    ASSUME ItemInv, Forward, ItemStep
    PROVE  /\ ItemsStayHome'
           /\ \A r \in OrderRequests : oreq'[r].pc \in NoItemYet =>
                  \A p \in Products : items'[<<r, p>>] = Null
<1>1. ASSUME NEW i \in ItemIds, items'[i] # Null
      PROVE  /\ oreq'[i[1]].pc \notin NoItemYet
             /\ items'[i].order \in {oreq'[i[1]].order, Null}
  <2>1. oreq[i[1]].pc \notin NoItemYet /\ items'[i].order \in {oreq[i[1]].order, Null}
    BY <1>1, OwnerIsPastChecks DEF ItemStep
  <2>2. i[1] \in OrderRequests /\ oreq[i[1]].pc # "idle"
    BY <2>1, OwnerIsRequest DEF NoItemYet
  <2> QED
    BY <2>1, <2>2 DEF Forward
<1>2. ItemsStayHome'
  BY <1>1 DEF ItemsStayHome
<1>3. ASSUME NEW r \in OrderRequests, oreq'[r].pc \in NoItemYet, NEW p \in Products
      PROVE  items'[<<r, p>>] = Null
  BY <1>1, <1>3 DEF ItemIds
<1> QED
  BY <1>2, <1>3

LEMMA StepsKeepWrittenByOwner ==
    ASSUME ItemInv, Forward, ItemStep, OrderRowStep
    PROVE  WrittenByOwner'
<1>1. ASSUME NEW r \in OrderRequests, oreq'[r].pc \in NoOrderYet \/ oreq'[r].cmd # "create"
      PROVE  orders'[r] = Null
  <2>1. CASE orders[r] = Null
    BY <1>1, <2>1 DEF OrderRowStep
  <2>2. CASE orders[r] # Null
    <3>1. oreq[r].cmd = "create" /\ oreq[r].pc \notin NoOrderYet
      BY <2>2 DEF ItemInv, WrittenByOwner
    <3>2. oreq'[r].cmd = "create" /\ oreq'[r].pc \notin NoOrderYet
      BY <3>1 DEF Forward, NoOrderYet
    <3> QED
      BY <1>1, <3>2
  <2> QED
    BY <2>1, <2>2
<1> QED
  BY <1>1, StepsKeepItems DEF WrittenByOwner

\* A request that has loaded nothing new, nor come to save its order.
LEMMA HomeShapeKept ==
    ASSUME IInv, ItemInv, Forward, NEW r \in OrderRequests, oreq[r].pc # "idle",
           oreq'[r].loaded \subseteq oreq[r].loaded,
           oreq'[r].pc \in {"checkName", "saveOrder"} =>
               oreq[r].pc \in {"checkName", "saveOrder"}
    PROVE  HomeShapeOf(r)'
<1>1. HomeShapeOf(r) /\ oreq[r] \in OrderRequest /\ oreq[r].order \in OrderRequests
  BY DEF ItemInv, HomeShape, IInv, TypeOK, OrdersTypeOK, OrderShape, OrderIds
<1>2. oreq'[r].cmd = oreq[r].cmd /\ oreq'[r].order = oreq[r].order
  BY DEF Forward
<1>3. oreq[r].cmd = "create" => oreq[r].order = r
  BY <1>1 DEF HomeShapeOf
<1>4. ASSUME oreq[r].cmd \in {"update", "delete"}
      PROVE  At(oreq[r].order, "create", "done") /\ oreq'[oreq[r].order] = oreq[oreq[r].order]
  BY <1>1, <1>4 DEF HomeShapeOf, Forward
<1>5. ASSUME NEW i \in oreq'[r].loaded
      PROVE  /\ oreq'[i[1]].pc \notin NoItemYet
             /\ oreq'[r].cmd = "update" /\ oreq'[r].pc \in {"checkName", "saveOrder"} =>
                   oreq'[i[1]].order = oreq[r].order
  <2>1. i \in oreq[r].loaded /\ i \in ItemIds
    BY <1>1, <1>5 DEF OrderRequest
  <2>2. /\ i[1] \in OrderRequests /\ oreq[i[1]].pc \notin NoItemYet
        /\ oreq[r].cmd = "update" /\ oreq[r].pc \in {"checkName", "saveOrder"} =>
              oreq[i[1]].order = oreq[r].order
    BY <1>1, <2>1, OwnerIsRequest DEF HomeShapeOf, At
  <2>3. oreq[i[1]].pc # "idle"
    BY <2>2 DEF NoItemYet
  <2> QED
    BY <1>2, <2>2, <2>3 DEF Forward
<1> QED
  BY <1>2, <1>3, <1>4, <1>5 DEF HomeShapeOf, At

\* A request that stands still.
LEMMA HomeShapeStays ==
    ASSUME IInv, ItemInv, Forward, NEW r \in OrderRequests, oreq'[r] = oreq[r]
    PROVE  HomeShapeOf(r)'
<1>1. CASE oreq[r].pc = "idle"
  BY <1>1 DEF HomeShapeOf
<1>2. CASE oreq[r].pc # "idle"
  BY <1>2, HomeShapeKept
<1> QED
  BY <1>1, <1>2

LEMMA OthersHomeShapeKept ==
    ASSUME IInv, ItemInv, Forward, NEW r \in OrderRequests, Alone(r), HomeShapeOf(r)'
    PROVE  HomeShape'
BY HomeShapeStays DEF HomeShape, Alone

\* The three facts are what ItemInv needs of a step of request r.
LEMMA StepKeepsItemInv ==
    ASSUME IInv, ItemInv, Forward, ItemStep, OrderRowStep,
           NEW r \in OrderRequests, Alone(r), HomeShapeOf(r)'
    PROVE  ItemInv'
BY StepsKeepItems, StepsKeepWrittenByOwner, OthersHomeShapeKept DEF ItemInv

-----------------------------------------------------------------------------
(* Requests that end or move on.                                             *)

LEMMA NoItemWritten ==
    ASSUME UNCHANGED items
    PROVE  ItemStep
BY DEF ItemStep

LEMMA NoOrderWritten ==
    ASSUME \A o \in OrderIds : orders[o] = Null => orders'[o] = Null
    PROVE  OrderRowStep
BY DEF OrderRowStep, OrderIds

LEMMA OneForward ==
    ASSUME IInv, NEW r \in OrderRequests, Alone(r), oreq[r].pc \in OrderOpenPcs,
           oreq'[r].cmd = oreq[r].cmd, oreq'[r].order = oreq[r].order, oreq'[r].pc # "idle",
           oreq[r].pc \notin NoItemYet => oreq'[r].pc \notin NoItemYet,
           oreq[r].cmd = "create" /\ oreq[r].pc \notin NoOrderYet =>
               oreq'[r].pc \notin NoOrderYet
    PROVE  Forward
<1>1. ~At(r, "create", "done")
  BY DEF At, OrderOpenPcs
<1> QED
  BY <1>1 DEF Forward, Alone

\* A request that ends; it is rejected by one of its checks only.
LEMMA EndKeepsItemInv ==
    ASSUME IInv, ItemInv, ItemStep, OrderRowStep,
           NEW r \in OrderRequests, NEW outcome \in EndPcs,
           oreq[r].pc \in OrderOpenPcs, End(r, outcome),
           outcome = "rejected" =>
               oreq[r].pc = "checkName" \/ (oreq[r].pc = "find" /\ oreq[r].cmd # "create")
    PROVE  ItemInv'
<1>1. /\ oreq'[r].cmd = oreq[r].cmd /\ oreq'[r].order = oreq[r].order
      /\ oreq'[r].pc = outcome /\ oreq'[r].loaded = {} /\ Alone(r)
  BY DEF End, IInv, TypeOK, OrdersTypeOK, OrderRequest, Alone
<1>2. Forward
  BY <1>1, OneForward DEF EndPcs, NoItemYet, NoOrderYet
<1>3. HomeShapeOf(r)'
  BY <1>1, <1>2, HomeShapeKept DEF EndPcs, OrderOpenPcs
<1> QED
  BY <1>1, <1>2, <1>3, StepKeepsItemInv

\* A request that moves on to its next call.
LEMMA GotoForward ==
    ASSUME IInv, NEW r \in OrderRequests, NEW pc \in OrderOpenPcs,
           oreq[r].pc \in OrderOpenPcs, Goto(r, pc),
           pc \notin {"find", "checkName"}, pc = "saveOrder" => oreq[r].pc = "checkName"
    PROVE  /\ Forward /\ Alone(r)
           /\ oreq'[r].pc = pc /\ oreq'[r].loaded = oreq[r].loaded
           /\ oreq'[r].cmd = oreq[r].cmd
<1>1. /\ oreq'[r].cmd = oreq[r].cmd /\ oreq'[r].order = oreq[r].order
      /\ oreq'[r].pc = pc /\ oreq'[r].loaded = oreq[r].loaded /\ Alone(r)
  BY DEF Goto, IInv, TypeOK, OrdersTypeOK, OrderRequest, Alone
<1>2. Forward
  BY <1>1, OneForward DEF OrderOpenPcs, NoItemYet, NoOrderYet
<1> QED
  BY <1>1, <1>2

LEMMA GotoKeepsItemInv ==
    ASSUME IInv, ItemInv, ItemStep, OrderRowStep,
           NEW r \in OrderRequests, NEW pc \in OrderOpenPcs,
           oreq[r].pc \in OrderOpenPcs, Goto(r, pc),
           pc \notin {"find", "checkName"}, pc = "saveOrder" => oreq[r].pc = "checkName"
    PROVE  ItemInv'
<1>1. /\ Forward /\ Alone(r) /\ oreq'[r].pc = pc /\ oreq'[r].loaded = oreq[r].loaded
  BY GotoForward
<1>2. HomeShapeOf(r)'
  BY <1>1, HomeShapeKept DEF OrderOpenPcs
<1> QED
  BY <1>1, <1>2, StepKeepsItemInv

\* A request that writes neither items nor orders.
LEMMA ReadOnly ==
    ASSUME UNCHANGED database
    PROVE  ItemStep /\ OrderRowStep
BY NoItemWritten, NoOrderWritten DEF database

-----------------------------------------------------------------------------
(* Creations.                                                                *)

LEMMA CreateCheckKeepsItemInv ==
    ASSUME IInv, ItemInv, NEW r \in OrderRequests, CreateCheck(r)
    PROVE  ItemInv'
<1>1. ItemStep /\ OrderRowStep /\ oreq[r].pc = "checkName"
  BY ReadOnly DEF CreateCheck, At
<1>2. End(r, "failed") \/ End(r, "rejected") \/ Goto(r, "saveOrder")
  BY DEF CreateCheck
<1> QED
  BY <1>1, <1>2, EndKeepsItemInv, GotoKeepsItemInv DEF EndPcs, OrderOpenPcs

\* An order is stored by the creation that goes on to save its items.
LEMMA CreateSaveOrderKeepsItemInv ==
    ASSUME IInv, ItemInv, NEW r \in OrderRequests, CreateSaveOrder(r)
    PROVE  ItemInv'
<1>1. ItemStep /\ oreq[r].pc = "saveOrder" /\ oreq[r].cmd = "create"
  BY NoItemWritten DEF CreateSaveOrder, At
<1>2. CASE End(r, "failed") /\ UNCHANGED orders
  <2>1. OrderRowStep
    BY <1>2, NoOrderWritten
  <2> QED
    BY <1>1, <1>2, <2>1, EndKeepsItemInv DEF EndPcs, OrderOpenPcs
<1>3. ASSUME Goto(r, "saveItems"), NEW row, InsertOrder(r, row)
      PROVE  ItemInv'
  <2>1. oreq'[r].pc = "saveItems" /\ oreq'[r].cmd = "create"
    BY <1>1, <1>3, GotoForward DEF OrderOpenPcs
  <2>2. OrderRowStep
    BY <1>3, <2>1 DEF OrderRowStep, InsertOrder, NoOrderYet, IInv, TypeOK, DatabaseTypeOK,
       OrderIds
  <2> QED
    BY <1>1, <1>3, <2>2, GotoKeepsItemInv DEF OrderOpenPcs
<1> QED
  BY <1>2, <1>3 DEF CreateSaveOrder

\* Items are inserted for the order their request is about.
LEMMA InsertItemsIsItemStep ==
    ASSUME IInv, NEW r \in OrderRequests, NEW lines \in SUBSET Line,
           oreq[r].pc \notin NoItemYet, InsertItems(r, oreq[r].order, lines)
    PROVE  ItemStep
<1> SUFFICES ASSUME NEW i \in ItemIds, items'[i] # Null
             PROVE  \/ items[i] # Null /\ items'[i].order \in {items[i].order, Null}
                    \/ /\ oreq[i[1]].pc \notin NoItemYet
                       /\ items'[i].order \in {oreq[i[1]].order, Null}
  BY DEF ItemStep
<1>1. CASE \E l \in lines : i = <<r, l.product>>
  <2>1. items'[i].order = oreq[r].order /\ i[1] = r
    BY <1>1 DEF InsertItems
  <2> QED
    BY <2>1
<1>2. CASE ~\E l \in lines : i = <<r, l.product>>
  BY <1>2 DEF InsertItems
<1> QED
  BY <1>1, <1>2

LEMMA CreateSaveItemsKeepsItemInv ==
    ASSUME IInv, ItemInv, NEW r \in OrderRequests, CreateSaveItems(r)
    PROVE  ItemInv'
<1>1. /\ OrderRowStep /\ oreq[r].pc = "saveItems" /\ oreq[r].lines \in SUBSET Line
      /\ oreq[r].order = r
  BY NoOrderWritten DEF CreateSaveItems, At, ItemInv, HomeShape, HomeShapeOf, IInv, TypeOK,
     OrdersTypeOK, OrderRequest
<1>2. CASE InsertItems(r, r, oreq[r].lines) /\ Goto(r, "respond")
  <2>1. ItemStep
    BY <1>1, <1>2, InsertItemsIsItemStep DEF NoItemYet
  <2> QED
    BY <1>1, <1>2, <2>1, GotoKeepsItemInv DEF OrderOpenPcs
<1>3. CASE End(r, "failed") /\ UNCHANGED items
  BY <1>1, <1>3, NoItemWritten, EndKeepsItemInv DEF EndPcs, OrderOpenPcs
<1> QED
  BY <1>2, <1>3 DEF CreateSaveItems

LEMMA RespondKeepsItemInv ==
    ASSUME IInv, ItemInv, NEW r \in OrderRequests, Respond(r)
    PROVE  ItemInv'
<1>1. ItemStep /\ OrderRowStep /\ oreq[r].pc = "respond"
  BY ReadOnly DEF Respond
<1>2. End(r, "empty") \/ End(r, "done")
  BY DEF Respond
<1> QED
  BY <1>1, <1>2, EndKeepsItemInv DEF EndPcs, OrderOpenPcs

-----------------------------------------------------------------------------
(* Updates and deletions.                                                    *)

\* What a handler finds linked to its order belongs there.
LEMMA FindUnfinishedKeepsItemInv ==
    ASSUME IInv, ItemInv, UNCHANGED database,
           NEW r \in OrderRequests, oreq[r].cmd \in {"update", "delete"}, oreq[r].pc = "find",
           NEW pc \in {"checkName", "deleteItems"}, FindUnfinished(r, pc)
    PROVE  ItemInv'
<1> DEFINE linked == ItemsOf(oreq[r].order)
<1>1. ItemStep /\ OrderRowStep /\ oreq[r] \in OrderRequest /\ oreq[r].order \in OrderIds
  BY ReadOnly DEF IInv, TypeOK, OrdersTypeOK, OrderShape
<1>2. CASE End(r, "rejected")
  BY <1>1, <1>2, EndKeepsItemInv DEF EndPcs, OrderOpenPcs
<1>3. CASE oreq' = [oreq EXCEPT ![r] = [@ EXCEPT
               !.pc = pc, !.row = orders[oreq[r].order], !.loaded = linked,
               !.bare = {i \in linked : items[i].product = Null}]]
  <2>1. /\ oreq'[r].pc = pc /\ oreq'[r].loaded = linked /\ Alone(r)
        /\ oreq'[r].cmd = oreq[r].cmd /\ oreq'[r].order = oreq[r].order
    <3> HIDE DEF linked
    <3> QED
      BY <1>1, <1>3 DEF IInv, TypeOK, OrdersTypeOK, OrderRequest, Alone
  <2>2. Forward
    BY <2>1, OneForward DEF OrderOpenPcs, NoItemYet, NoOrderYet
  <2>3. ASSUME NEW i \in linked
        PROVE  oreq'[i[1]].pc \notin NoItemYet /\ oreq'[i[1]].order = oreq[r].order
    <3>1. i \in ItemIds /\ items[i] # Null /\ items[i].order = oreq[r].order
      BY <2>3 DEF ItemsOf
    <3>2. oreq[i[1]].pc \notin NoItemYet /\ oreq[i[1]].order = oreq[r].order
      BY <1>1, <3>1, OwnerIsPastChecks, NullAssumption
    <3>3. i[1] \in OrderRequests /\ oreq[i[1]].pc # "idle"
      BY <3>1, <3>2, OwnerIsRequest DEF NoItemYet
    <3> QED
      BY <2>2, <3>2, <3>3 DEF Forward
  <2>4. /\ At(oreq[r].order, "create", "done")
        /\ oreq'[oreq[r].order] = oreq[oreq[r].order]
    BY <1>1, <2>2 DEF ItemInv, HomeShape, HomeShapeOf, Forward, OrderIds
  <2> HIDE DEF linked
  <2>5. HomeShapeOf(r)'
    BY <2>1, <2>3, <2>4 DEF HomeShapeOf, At
  <2> QED
    BY <1>1, <2>1, <2>2, <2>5, StepKeepsItemInv
<1> QED
  BY <1>2, <1>3 DEF FindUnfinished

LEMMA UpdateCheckKeepsItemInv ==
    ASSUME IInv, ItemInv, NEW r \in OrderRequests, UpdateCheck(r)
    PROVE  ItemInv'
<1>1. ItemStep /\ OrderRowStep /\ oreq[r].pc = "checkName"
  BY ReadOnly DEF UpdateCheck, At
<1>2. End(r, "failed") \/ End(r, "rejected") \/ Goto(r, "saveOrder")
  BY DEF UpdateCheck
<1> QED
  BY <1>1, <1>2, EndKeepsItemInv, GotoKeepsItemInv DEF EndPcs, OrderOpenPcs

\* A stale list of items is saved, but all in it are items of the order, and a
\* row that is inserted again is that of an answered creation.
LEMMA UpdateSaveOrderKeepsItemInv ==
    ASSUME IInv, ItemInv, NEW r \in OrderRequests, UpdateSaveOrder(r)
    PROVE  ItemInv'
<1> DEFINE o == oreq[r].order
<1>1. /\ At(r, "update", "saveOrder") /\ HomeShapeOf(r) /\ o \in OrderRequests
      /\ oreq[r].pc = "saveOrder" /\ oreq[r].cmd = "update"
  BY DEF UpdateSaveOrder, ItemInv, HomeShape, IInv, OrderShape, OrderIds, At
<1>2. CASE End(r, "failed") /\ UNCHANGED <<orders, items>>
  BY <1>1, <1>2, NoItemWritten, NoOrderWritten, EndKeepsItemInv DEF EndPcs, OrderOpenPcs
<1>3. ASSUME Goto(r, "deleteItems"), NEW row, SaveLoadedOrder(o, row, oreq[r].loaded)
      PROVE  ItemInv'
  <2>1. Forward
    BY <1>1, <1>3, GotoForward DEF OrderOpenPcs
  <2>2. oreq'[o].cmd = "create" /\ oreq'[o].pc \notin NoOrderYet
    BY <1>1, <2>1 DEF HomeShapeOf, Forward, At, NoOrderYet
  <2>3. \A s \in OrderRequests : s # o => orders'[s] = orders[s]
    BY <1>3 DEF SaveLoadedOrder, IInv, TypeOK, DatabaseTypeOK, OrderIds
  <2>4. OrderRowStep
    BY <2>2, <2>3 DEF OrderRowStep
  <2>5. ASSUME NEW i \in ItemIds, items'[i] # Null
        PROVE  \/ items[i] # Null /\ items'[i].order \in {items[i].order, Null}
               \/ /\ oreq[i[1]].pc \notin NoItemYet
                  /\ items'[i].order \in {oreq[i[1]].order, Null}
    <3>1. items[i] # Null
      BY <1>3, <2>5 DEF SaveLoadedOrder
    <3>2. items[i] \in ItemRow
      BY <3>1 DEF IInv, TypeOK, DatabaseTypeOK
    <3>3. CASE i \in oreq[r].loaded
      <4>1. items'[i].order = o
        BY <1>3, <3>1, <3>2, <3>3 DEF SaveLoadedOrder, ItemRow
      <4>2. oreq[i[1]].pc \notin NoItemYet /\ oreq[i[1]].order = o
        BY <1>1, <3>3 DEF HomeShapeOf
      <4> QED
        BY <4>1, <4>2
    <3>4. CASE i \notin oreq[r].loaded
      BY <1>3, <3>1, <3>2, <3>4 DEF SaveLoadedOrder, ItemRow
    <3> QED
      BY <3>3, <3>4
  <2>6. ItemStep
    BY <2>5 DEF ItemStep
  <2> QED
    BY <1>1, <1>3, <2>4, <2>6, GotoKeepsItemInv DEF OrderOpenPcs
<1> QED
  BY <1>2, <1>3 DEF UpdateSaveOrder

\* Items that go link to nothing.
LEMMA DeleteItemsIsItemStep ==
    ASSUME NEW ids, DeleteItems(ids)
    PROVE  ItemStep
BY DEF ItemStep, DeleteItems

LEMMA UpdateDeleteItemsKeepsItemInv ==
    ASSUME IInv, ItemInv, NEW r \in OrderRequests, UpdateDeleteItems(r)
    PROVE  ItemInv'
<1>1. ItemStep /\ OrderRowStep /\ oreq[r].pc = "deleteItems" /\ Goto(r, "createItems")
  BY DeleteItemsIsItemStep, NoOrderWritten DEF UpdateDeleteItems, At
<1> QED
  BY <1>1, GotoKeepsItemInv DEF OrderOpenPcs

LEMMA UpdateCreateItemsKeepsItemInv ==
    ASSUME IInv, ItemInv, NEW r \in OrderRequests, UpdateCreateItems(r)
    PROVE  ItemInv'
<1>1. OrderRowStep /\ oreq[r].pc = "createItems" /\ oreq[r].lines \in SUBSET Line
  BY NoOrderWritten DEF UpdateCreateItems, At, IInv, TypeOK, OrdersTypeOK, OrderRequest
<1>2. CASE End(r, "failed") /\ UNCHANGED items
  BY <1>1, <1>2, NoItemWritten, EndKeepsItemInv DEF EndPcs, OrderOpenPcs
<1>3. ASSUME NEW lines \in SUBSET oreq[r].lines, InsertItems(r, oreq[r].order, lines),
             Goto(r, "findItems")
      PROVE  ItemInv'
  <2>1. ItemStep
    BY <1>1, <1>3, InsertItemsIsItemStep DEF NoItemYet
  <2> QED
    BY <1>1, <1>3, <2>1, GotoKeepsItemInv DEF OrderOpenPcs
<1> QED
  BY <1>2, <1>3 DEF UpdateCreateItems

\* What is found is there; whose order it is linked to is not looked at.
LEMMA UpdateFindItemsKeepsItemInv ==
    ASSUME IInv, ItemInv, NEW r \in OrderRequests, UpdateFindItems(r)
    PROVE  ItemInv'
<1> DEFINE found == {i \in ItemIds : items[i] # Null /\ \E l \in oreq[r].lines : l.item = i}
<1>1. /\ ItemStep /\ OrderRowStep /\ oreq[r].pc = "findItems" /\ oreq[r].cmd = "update"
      /\ oreq[r].order \in OrderIds
      /\ oreq' = [oreq EXCEPT ![r] = [@ EXCEPT !.pc = "updateItems", !.bare = {},
                                               !.loaded = found]]
  BY ReadOnly DEF UpdateFindItems, At, IInv, OrderShape
<1>2. \A i \in found : i \in ItemIds /\ items[i] # Null
  OBVIOUS
<1> HIDE DEF found
<1>3. /\ oreq'[r].cmd = oreq[r].cmd /\ oreq'[r].order = oreq[r].order
      /\ oreq'[r].pc = "updateItems" /\ oreq'[r].loaded = found /\ Alone(r)
  BY <1>1 DEF IInv, TypeOK, OrdersTypeOK, OrderRequest, Alone
<1>4. Forward
  BY <1>1, <1>3, OneForward DEF OrderOpenPcs, NoItemYet, NoOrderYet
<1>5. ASSUME NEW i \in found
      PROVE  oreq'[i[1]].pc \notin NoItemYet
  BY <1>2, <1>4, OwnerIsPastChecks, OwnerIsRequest DEF Forward
<1>6. /\ At(oreq[r].order, "create", "done")
      /\ oreq'[oreq[r].order] = oreq[oreq[r].order]
  BY <1>1, <1>4 DEF ItemInv, HomeShape, HomeShapeOf, Forward, OrderIds
<1>7. HomeShapeOf(r)'
  BY <1>1, <1>3, <1>5, <1>6 DEF HomeShapeOf, At
<1> QED
  BY <1>1, <1>3, <1>4, <1>7, StepKeepsItemInv

\* An item that is inserted again is linked to nothing.
LEMMA UpdateSaveItemsKeepsItemInv ==
    ASSUME IInv, ItemInv, NEW r \in OrderRequests, UpdateSaveItems(r)
    PROVE  ItemInv'
<1>1. /\ OrderRowStep /\ oreq[r].pc = "updateItems" /\ HomeShapeOf(r)
      /\ Goto(r, "respond") /\ oreq[r].loaded \subseteq ItemIds
  BY NoOrderWritten DEF UpdateSaveItems, At, ItemInv, HomeShape, IInv, TypeOK, OrdersTypeOK,
     OrderRequest
<1>2. PICK amounts : DOMAIN amounts = oreq[r].loaded /\ SaveLoadedItems(amounts)
  BY DEF UpdateSaveItems
<1>3. ASSUME NEW i \in ItemIds, items'[i] # Null
      PROVE  \/ items[i] # Null /\ items'[i].order \in {items[i].order, Null}
             \/ /\ oreq[i[1]].pc \notin NoItemYet
                /\ items'[i].order \in {oreq[i[1]].order, Null}
  <2>1. CASE i \notin DOMAIN amounts
    BY <1>2, <1>3, <2>1 DEF SaveLoadedItems
  <2>2. CASE i \in DOMAIN amounts /\ items[i] # Null
    <3>1. items[i] \in ItemRow /\ items'[i] = [items[i] EXCEPT !.amount = amounts[i]]
      BY <1>2, <2>2 DEF SaveLoadedItems, IInv, TypeOK, DatabaseTypeOK
    <3> QED
      BY <2>2, <3>1 DEF ItemRow
  <2>3. CASE i \in DOMAIN amounts /\ items[i] = Null
    <3>1. oreq[i[1]].pc \notin NoItemYet
      BY <1>1, <1>2, <2>3 DEF HomeShapeOf
    <3>2. items'[i].order = Null
      BY <1>2, <2>3 DEF SaveLoadedItems
    <3> QED
      BY <3>1, <3>2
  <2> QED
    BY <2>1, <2>2, <2>3
<1>4. ItemStep
  BY <1>3 DEF ItemStep
<1> QED
  BY <1>1, <1>4, GotoKeepsItemInv DEF OrderOpenPcs

LEMMA DeleteDeleteItemsKeepsItemInv ==
    ASSUME IInv, ItemInv, NEW r \in OrderRequests, DeleteDeleteItems(r)
    PROVE  ItemInv'
<1>1. /\ ItemStep /\ OrderRowStep /\ oreq[r].pc = "deleteItems"
      /\ End(r, "failed") \/ Goto(r, "deleteOrder")
  BY DeleteItemsIsItemStep, NoOrderWritten DEF DeleteDeleteItems, At
<1> QED
  BY <1>1, EndKeepsItemInv, GotoKeepsItemInv DEF EndPcs, OrderOpenPcs

LEMMA DeleteDeleteOrderKeepsItemInv ==
    ASSUME IInv, ItemInv, NEW r \in OrderRequests, DeleteDeleteOrder(r)
    PROVE  ItemInv'
<1>1. /\ ItemStep /\ oreq[r].pc = "deleteOrder"
      /\ End(r, "failed") \/ End(r, "done")
      /\ UNCHANGED orders \/ DeleteOrder(oreq[r].order)
  BY NoItemWritten DEF DeleteDeleteOrder, At
<1>2. OrderRowStep
  BY <1>1, NoOrderWritten DEF DeleteOrder, IInv, TypeOK, DatabaseTypeOK
<1> QED
  BY <1>1, <1>2, EndKeepsItemInv DEF EndPcs, OrderOpenPcs

LEMMA OrderStepKeepsItemInv ==
    ASSUME IInv, ItemInv, NEW r \in OrderRequests, OrderStep(r)
    PROVE  ItemInv'
<1>1. CASE CreateCheck(r) \/ CreateSaveOrder(r) \/ CreateSaveItems(r) \/ Respond(r)
  BY <1>1, CreateCheckKeepsItemInv, CreateSaveOrderKeepsItemInv, CreateSaveItemsKeepsItemInv,
     RespondKeepsItemInv
<1>2. CASE UpdateFind(r)
  BY <1>2, FindUnfinishedKeepsItemInv DEF UpdateFind, At
<1>3. CASE DeleteFind(r)
  BY <1>3, FindUnfinishedKeepsItemInv DEF DeleteFind, At
<1>4. CASE UpdateCheck(r) \/ UpdateSaveOrder(r) \/ UpdateDeleteItems(r) \/ UpdateCreateItems(r)
  BY <1>4, UpdateCheckKeepsItemInv, UpdateSaveOrderKeepsItemInv, UpdateDeleteItemsKeepsItemInv,
     UpdateCreateItemsKeepsItemInv
<1>5. CASE UpdateFindItems(r) \/ UpdateSaveItems(r)
  BY <1>5, UpdateFindItemsKeepsItemInv, UpdateSaveItemsKeepsItemInv
<1>6. CASE DeleteDeleteItems(r) \/ DeleteDeleteOrder(r)
  BY <1>6, DeleteDeleteItemsKeepsItemInv, DeleteDeleteOrderKeepsItemInv
<1> QED
  BY <1>1, <1>2, <1>3, <1>4, <1>5, <1>6 DEF OrderStep

LEMMA OrderAbortKeepsItemInv ==
    ASSUME IInv, ItemInv, NEW r \in OrderRequests, OrderAbort(r)
    PROVE  ItemInv'
<1>1. ItemStep /\ OrderRowStep /\ oreq[r].pc \in OrderOpenPcs /\ End(r, "failed")
  BY ReadOnly DEF OrderAbort
<1> QED
  BY <1>1, EndKeepsItemInv DEF EndPcs

-----------------------------------------------------------------------------
(* Requests that arrive.                                                     *)

\* A request that arrives has loaded nothing; an update or a deletion is about
\* an order a client knows.
LEMMA ReceiveKeepsItemInv ==
    ASSUME IInv, ItemInv, NEW r \in OrderRequests, NEW request, Receive(r, request),
           request.loaded = {},
           \/ request.cmd = "create" /\ request.order = r
           \/ request.cmd \in {"update", "delete"} /\ request.order \in Known
    PROVE  ItemInv'
<1>1. ItemStep /\ OrderRowStep /\ oreq[r].pc = "idle"
  BY ReadOnly DEF Receive
<1>2. oreq'[r] = request /\ Alone(r)
  BY DEF Receive, IInv, TypeOK, OrdersTypeOK, Alone
<1>3. Forward
  BY <1>1, <1>2 DEF Forward, Alone, At, NoItemYet, NoOrderYet
<1>4. request.order \in Known => At(request.order, "create", "done")'
  BY <1>3 DEF Known, Forward, At
<1>5. HomeShapeOf(r)'
  BY <1>2, <1>4 DEF HomeShapeOf, At
<1> QED
  BY <1>1, <1>2, <1>3, <1>5, StepKeepsItemInv

LEMMA OrdersReceiveKeepsItemInv ==
    ASSUME IInv, ItemInv, OrdersReceive
    PROVE  ItemInv'
<1>1. PICK r \in OrderRequests, org \in Organisations :
         \/ \E name \in ClientNames \cup {Null}, cart \in Carts :
               ReceiveCreate(r, org, name, cart)
         \/ \E o \in Known, name \in ClientNames \cup {Null}, cart \in Carts :
               \E lines \in LinesFor(o, cart) : ReceiveUpdate(r, o, org, name, lines)
         \/ \E o \in Known : ReceiveDelete(r, o, org)
  BY DEF OrdersReceive
<1>2. ASSUME NEW name, NEW cart, ReceiveCreate(r, org, name, cart)
      PROVE  ItemInv'
  <2> DEFINE lines == {[product |-> c.product, amount |-> c.amount, item |-> Null] : c \in cart}
             request == [NoOrderRequest EXCEPT
                 !.cmd = "create", !.pc = "checkName", !.organisation = org,
                 !.order = r, !.clientName = name, !.lines = lines]
  <2>1. Receive(r, request)
    BY <1>2 DEF ReceiveCreate
  <2> HIDE DEF lines
  <2>2. request.loaded = {} /\ request.cmd = "create" /\ request.order = r
    BY DEF NoOrderRequest
  <2> HIDE DEF request
  <2> QED
    BY <2>1, <2>2, ReceiveKeepsItemInv
<1>3. ASSUME NEW o \in Known, NEW name, NEW lines, ReceiveUpdate(r, o, org, name, lines)
      PROVE  ItemInv'
  <2> DEFINE request == [NoOrderRequest EXCEPT
                 !.cmd = "update", !.pc = "find", !.organisation = org,
                 !.order = o, !.clientName = name, !.lines = lines]
  <2>1. Receive(r, request)
    BY <1>3 DEF ReceiveUpdate
  <2>2. request.loaded = {} /\ request.cmd = "update" /\ request.order = o
    BY DEF NoOrderRequest
  <2> HIDE DEF request
  <2> QED
    BY <2>1, <2>2, ReceiveKeepsItemInv
<1>4. ASSUME NEW o \in Known, ReceiveDelete(r, o, org)
      PROVE  ItemInv'
  <2> DEFINE request == [NoOrderRequest EXCEPT
                 !.cmd = "delete", !.pc = "find", !.organisation = org, !.order = o]
  <2>1. Receive(r, request)
    BY <1>4 DEF ReceiveDelete
  <2>2. request.loaded = {} /\ request.cmd = "delete" /\ request.order = o
    BY DEF NoOrderRequest
  <2> HIDE DEF request
  <2> QED
    BY <2>1, <2>2, ReceiveKeepsItemInv
<1> QED
  BY <1>1, <1>2, <1>3, <1>4

-----------------------------------------------------------------------------
(* Payments and callbacks, which only ever mark orders as finished.          *)

LEMMA RequestsStandStill ==
    ASSUME IInv, ItemInv, UNCHANGED <<oreq, items>>,
           \A o \in OrderIds : orders[o] = Null => orders'[o] = Null
    PROVE  ItemInv'
<1>1. ItemStep /\ OrderRowStep
  BY NoItemWritten, NoOrderWritten
<1>2. Forward
  BY DEF Forward
<1>3. HomeShape'
  BY <1>2, HomeShapeStays DEF HomeShape
<1> QED
  BY <1>1, <1>2, <1>3, StepsKeepItems, StepsKeepWrittenByOwner DEF ItemInv

LEMMA FinishOrderStoresNone ==
    ASSUME IInv, NEW o, FinishOrder(o)
    PROVE  \A s \in OrderIds : orders[s] = Null => orders'[s] = Null
BY DEF FinishOrder, IInv, TypeOK, DatabaseTypeOK

LEMMA PaymentStepKeepsItemInv ==
    ASSUME IInv, ItemInv, NEW p \in PaymentRequests, PaymentStep(p), UNCHANGED oreq
    PROVE  ItemInv'
<1>1. CASE CreatePaymentFinishOrder(p)
  BY <1>1, FinishOrderStoresNone, RequestsStandStill DEF CreatePaymentFinishOrder
<1>2. CASE ~CreatePaymentFinishOrder(p)
  <2>1. UNCHANGED <<orders, items>>
    BY <1>2 DEF PaymentStep, CreatePaymentFind, CreatePaymentCallPayconiq, CreatePaymentSave,
       PayconiqRespond, CancelFind, CancelCallPayconiq, CancelUpdatePayment, database
  <2> QED
    BY <2>1, RequestsStandStill
<1> QED
  BY <1>1, <1>2

LEMMA WebhookStepKeepsItemInv ==
    ASSUME IInv, ItemInv, NEW d \in Deliveries, WebhookStep(d), UNCHANGED oreq
    PROVE  ItemInv'
<1>1. CASE WebhookFinishOrder(d)
  BY <1>1, FinishOrderStoresNone, RequestsStandStill DEF WebhookFinishOrder
<1>2. CASE WebhookFind(d) \/ WebhookUpdatePayment(d)
  <2>1. UNCHANGED <<orders, items>>
    BY <1>2 DEF WebhookFind, WebhookUpdatePayment, database
  <2> QED
    BY <2>1, RequestsStandStill
<1> QED
  BY <1>1, <1>2 DEF WebhookStep

-----------------------------------------------------------------------------
(* The theorems.                                                             *)

LEMMA InitItemInv == Init => ItemInv
<1> SUFFICES ASSUME Init
             PROVE  ItemInv
  OBVIOUS
<1>1. \A r \in OrderRequests : oreq[r] = NoOrderRequest /\ orders[r] = Null
  BY DEF Init, OrdersInit, DatabaseInit, OrderIds
<1>2. \A i \in ItemIds : items[i] = Null
  BY DEF Init, DatabaseInit
<1>3. WrittenByOwner
  BY <1>1, <1>2 DEF WrittenByOwner, ItemIds
<1>4. HomeShape
  BY <1>1 DEF HomeShape, HomeShapeOf, NoOrderRequest
<1>5. ItemsStayHome
  BY <1>2 DEF ItemsStayHome
<1> QED
  BY <1>3, <1>4, <1>5 DEF ItemInv

LEMMA NextKeepsItemInv == IInv /\ ItemInv /\ [Next]_vars => ItemInv'
<1> SUFFICES ASSUME IInv, ItemInv, [Next]_vars
             PROVE  ItemInv'
  OBVIOUS
<1>1. CASE UNCHANGED <<database, oreq>>
  BY <1>1, RequestsStandStill DEF database
<1>2. CASE Receives
  BY <1>1, <1>2, OrdersReceiveKeepsItemInv DEF Receives, PaymentsReceive, PaymentReceive,
     WebhooksReceive, WebhookReceive
<1>3. CASE Steps
  BY <1>3, OrderStepKeepsItemInv, PaymentStepKeepsItemInv, WebhookStepKeepsItemInv DEF Steps
<1>4. CASE Aborts
  BY <1>1, <1>4, OrderAbortKeepsItemInv DEF Aborts, PaymentAbort, WebhookAbort
<1>5. CASE PayconiqMoves \/ UNCHANGED vars
  BY <1>1, <1>5 DEF PayconiqMoves, vars, database
<1> QED
  BY <1>2, <1>3, <1>4, <1>5 DEF Next

\* Whatever overlaps and whatever fails, items and orders are written by the
\* requests they belong to, once these are past their checks.
THEOREM ItemInvariantHolds == Spec => []ItemInv
BY InvariantHolds, InitItemInv, NextKeepsItemInv, PTL DEF Spec

\* Items never move to the order of another, however stale the list of items
\* that an update saves.
THEOREM ItemsStayHomeAlways == Spec => []ItemsStayHome
<1>1. ItemInv => ItemsStayHome
  BY DEF ItemInv
<1> QED
  BY <1>1, ItemInvariantHolds, PTL

\* A request that was answered with 4xx has left nothing behind, nor has any
\* other request written in its name.
THEOREM RejectedWroteNothingEver == Spec => []RejectedWroteNothing
<1>1. ItemInv => RejectedWroteNothing
  BY DEF ItemInv, WrittenByOwner, RejectedWroteNothing, NoItemYet, NoOrderYet
<1> QED
  BY <1>1, ItemInvariantHolds, PTL

-----------------------------------------------------------------------------
(* The answers to creations: what AnswerInv needs of every step.             *)

\* What every step grants to the requests, beyond Forward: they go on being
\* what was asked for, and one that has ended is left alone.
GoesOn ==
    \A r \in OrderRequests :
        /\ oreq[r].pc # "idle" =>
              /\ oreq'[r].pc # "idle"
              /\ oreq'[r].cmd = oreq[r].cmd /\ oreq'[r].order = oreq[r].order
              /\ oreq'[r].lines = oreq[r].lines
              /\ oreq'[r].organisation = oreq[r].organisation
        /\ oreq[r].pc \in EndPcs => oreq'[r] = oreq[r]

\* A creation between its checks and its answer.
Creating(r) ==
    /\ oreq[r].cmd = "create"
    /\ oreq[r].pc \in {"checkName", "saveOrder", "saveItems", "respond"}

\* A step leaves the items of request r alone, and its order to its
\* organisation.
Undisturbed(r) ==
    /\ \A p \in Products : items'[<<r, p>>] = items[<<r, p>>]
    /\ orders[r] # Null =>
          orders'[r] # Null /\ orders'[r].organisation = orders[r].organisation

-----------------------------------------------------------------------------
(* What follows from these.                                                  *)

LEMMA DisclosedForGood ==
    ASSUME GoesOn, NEW r \in OrderRequests, Disclosed(r)
    PROVE  Disclosed(r)'
BY DEF GoesOn, Disclosed

LEMMA CreatingIsSecret ==
    ASSUME NEW r \in OrderRequests, Creating(r)
    PROVE  ~Disclosed(r)
BY DEF Creating, Disclosed, EndPcs

\* Owners of the items a request has loaded or was sent.
LEMMA OwnersAreRequests ==
    ASSUME IInv, NEW r \in OrderRequests
    PROVE  /\ \A i \in oreq[r].loaded : i \in ItemIds /\ i[1] \in OrderRequests
           /\ \A l \in oreq[r].lines : l.item # Null =>
                  l.item \in ItemIds /\ l.item[1] \in OrderRequests
BY DEF IInv, TypeOK, OrdersTypeOK, OrderRequest, Line, ItemIds

\* A request that has loaded nothing new.
LEMMA SecretsStay ==
    ASSUME IInv, AnswerInv, GoesOn, NEW r \in OrderRequests, oreq[r].pc # "idle",
           oreq'[r].loaded \subseteq oreq[r].loaded
    PROVE  SecretsKeptBy(r)'
<1>1. /\ \A i \in oreq[r].loaded : Disclosed(i[1])
      /\ \A l \in oreq[r].lines : l.item # Null => Disclosed(l.item[1])
  BY DEF AnswerInv, SecretsKept, SecretsKeptBy
<1>2. ASSUME NEW i \in oreq'[r].loaded
      PROVE  Disclosed(i[1])'
  BY <1>1, OwnersAreRequests, DisclosedForGood
<1>3. ASSUME NEW l \in oreq'[r].lines, l.item # Null
      PROVE  Disclosed(l.item[1])'
  BY <1>1, <1>3, OwnersAreRequests, DisclosedForGood DEF GoesOn
<1> QED
  BY <1>2, <1>3 DEF SecretsKeptBy

LEMMA SecretsStayIdle ==
    ASSUME IInv, AnswerInv, GoesOn, NEW r \in OrderRequests, oreq'[r] = oreq[r]
    PROVE  SecretsKeptBy(r)'
<1>1. CASE oreq[r].pc = "idle"
  BY <1>1 DEF SecretsKeptBy
<1>2. CASE oreq[r].pc # "idle"
  BY <1>2, SecretsStay
<1> QED
  BY <1>1, <1>2

\* A creation that stands still and is not disturbed.
LEMMA CreationStays ==
    ASSUME AnswerInv, NEW r \in OrderRequests, oreq'[r] = oreq[r],
           Creating(r) => Undisturbed(r)
    PROVE  CreationShapeOf(r)'
<1>1. CreationShapeOf(r)
  BY DEF AnswerInv, CreationShape
<1>2. CASE Creating(r)
  <2>1. \A l \in oreq[r].lines : l.product \in Products => items'[<<r, l.product>>] = items[<<r, l.product>>]
    BY <1>2 DEF Undisturbed
  <2>2. CASE oreq[r].pc \in {"checkName", "saveOrder"}
    BY <1>1, <1>2, <2>2 DEF CreationShapeOf, Creating, Undisturbed
  <2>3. CASE oreq[r].pc \in {"saveItems", "respond"}
    <3>1. \A l \in oreq[r].lines : l.product \in Products
      BY <1>1, <1>2, <2>3, CatalogueAssumption DEF CreationShapeOf, Creating, AcceptsLines
    <3> QED
      BY <1>1, <1>2, <2>1, <2>3, <3>1 DEF CreationShapeOf, Creating, Undisturbed
  <2> QED
    BY <1>2, <2>2, <2>3 DEF Creating
<1>3. CASE ~Creating(r)
  BY <1>3 DEF CreationShapeOf, Creating
<1> QED
  BY <1>2, <1>3

\* What AnswerInv needs of a step of request r.
LEMMA StepKeepsAnswerInv ==
    ASSUME IInv, AnswerInv, GoesOn, NEW r \in OrderRequests, Alone(r),
           SecretsKeptBy(r)', CreationShapeOf(r)',
           \A q \in OrderRequests : q # r /\ Creating(q) => Undisturbed(q)
    PROVE  AnswerInv'
<1>1. ASSUME NEW q \in OrderRequests, q # r
      PROVE  SecretsKeptBy(q)' /\ CreationShapeOf(q)'
  <2>1. oreq'[q] = oreq[q]
    BY <1>1 DEF Alone
  <2> QED
    BY <1>1, <2>1, SecretsStayIdle, CreationStays
<1> QED
  BY <1>1 DEF AnswerInv, SecretsKept, CreationShape

\* A step of no request.
LEMMA NoRequestKeepsAnswerInv ==
    ASSUME IInv, AnswerInv, UNCHANGED oreq,
           \A q \in OrderRequests : Creating(q) => Undisturbed(q)
    PROVE  AnswerInv'
<1>1. GoesOn
  BY DEF GoesOn
<1> QED
  BY <1>1, SecretsStayIdle, CreationStays DEF AnswerInv, SecretsKept, CreationShape

-----------------------------------------------------------------------------
(* Requests that end or move on.                                             *)

LEMMA OneGoesOn ==
    ASSUME NEW r \in OrderRequests, Alone(r), oreq[r].pc \in OrderOpenPcs, oreq'[r].pc # "idle",
           oreq'[r].cmd = oreq[r].cmd, oreq'[r].order = oreq[r].order,
           oreq'[r].lines = oreq[r].lines, oreq'[r].organisation = oreq[r].organisation
    PROVE  GoesOn
<1>1. oreq[r].pc \notin EndPcs
  BY DEF OrderOpenPcs, EndPcs
<1> QED
  BY <1>1 DEF GoesOn, Alone

LEMMA EndGoesOn ==
    ASSUME IInv, NEW r \in OrderRequests, NEW outcome \in EndPcs,
           oreq[r].pc \in OrderOpenPcs, End(r, outcome)
    PROVE  /\ GoesOn /\ Alone(r)
           /\ oreq'[r].pc = outcome /\ oreq'[r].loaded = {}
<1>1. /\ oreq'[r].pc = outcome /\ oreq'[r].loaded = {} /\ Alone(r)
      /\ oreq'[r].cmd = oreq[r].cmd /\ oreq'[r].order = oreq[r].order
      /\ oreq'[r].lines = oreq[r].lines /\ oreq'[r].organisation = oreq[r].organisation
  BY DEF End, IInv, TypeOK, OrdersTypeOK, OrderRequest, Alone
<1> QED
  BY <1>1, OneGoesOn DEF EndPcs

LEMMA GotoGoesOn ==
    ASSUME IInv, NEW r \in OrderRequests, NEW pc \in OrderOpenPcs,
           oreq[r].pc \in OrderOpenPcs, Goto(r, pc)
    PROVE  /\ GoesOn /\ Alone(r)
           /\ oreq'[r].pc = pc /\ oreq'[r].loaded = oreq[r].loaded
<1>1. /\ oreq'[r].pc = pc /\ oreq'[r].loaded = oreq[r].loaded /\ Alone(r)
      /\ oreq'[r].cmd = oreq[r].cmd /\ oreq'[r].order = oreq[r].order
      /\ oreq'[r].lines = oreq[r].lines /\ oreq'[r].organisation = oreq[r].organisation
  BY DEF Goto, IInv, TypeOK, OrdersTypeOK, OrderRequest, Alone
<1> QED
  BY <1>1, OneGoesOn DEF OrderOpenPcs

\* A request that ends owes nothing but to the others.
LEMMA EndKeepsAnswerInv ==
    ASSUME IInv, AnswerInv, NEW r \in OrderRequests, NEW outcome \in EndPcs,
           oreq[r].pc \in OrderOpenPcs, End(r, outcome),
           \A q \in OrderRequests : q # r /\ Creating(q) => Undisturbed(q)
    PROVE  AnswerInv'
<1>1. /\ GoesOn /\ Alone(r) /\ oreq'[r].pc = outcome /\ oreq'[r].loaded = {}
  BY EndGoesOn
<1>2. SecretsKeptBy(r)'
  BY <1>1, SecretsStay DEF OrderOpenPcs
<1>3. CreationShapeOf(r)'
  BY <1>1 DEF CreationShapeOf, EndPcs
<1> QED
  BY <1>1, <1>2, <1>3, StepKeepsAnswerInv

\* Nor does one that goes on with an update or a deletion.
LEMMA GotoKeepsAnswerInv ==
    ASSUME IInv, AnswerInv, NEW r \in OrderRequests, NEW pc \in OrderOpenPcs,
           oreq[r].pc \in OrderOpenPcs, Goto(r, pc),
           oreq[r].cmd # "create" \/ CreationShapeOf(r)',
           \A q \in OrderRequests : q # r /\ Creating(q) => Undisturbed(q)
    PROVE  AnswerInv'
<1>1. /\ GoesOn /\ Alone(r) /\ oreq'[r].pc = pc /\ oreq'[r].loaded = oreq[r].loaded
  BY GotoGoesOn
<1>2. oreq[r].pc # "idle"
  BY DEF OrderOpenPcs
<1>3. SecretsKeptBy(r)'
  BY <1>1, <1>2, SecretsStay
<1>4. CreationShapeOf(r)'
  BY <1>1, <1>2 DEF CreationShapeOf, GoesOn
<1> QED
  BY <1>1, <1>3, <1>4, StepKeepsAnswerInv

LEMMA NothingDisturbed ==
    ASSUME UNCHANGED <<orders, items>>
    PROVE  \A q \in OrderRequests : Undisturbed(q)
BY DEF Undisturbed

-----------------------------------------------------------------------------
(* Creations.                                                                *)

LEMMA CreateCheckKeepsAnswerInv ==
    ASSUME IInv, AnswerInv, NEW r \in OrderRequests, CreateCheck(r)
    PROVE  AnswerInv'
<1>1. /\ oreq[r].pc = "checkName" /\ oreq[r].cmd = "create" /\ UNCHANGED <<orders, items>>
      /\ CreationShapeOf(r) /\ oreq[r].pc \in OrderOpenPcs
  BY DEF CreateCheck, At, database, AnswerInv, CreationShape, OrderOpenPcs
<1>2. CASE End(r, "failed") \/ End(r, "rejected")
  BY <1>1, <1>2, NothingDisturbed, EndKeepsAnswerInv DEF EndPcs
<1>3. CASE Goto(r, "saveOrder") /\ AcceptsLines(oreq[r].lines)
  <2>1. "saveOrder" \in OrderOpenPcs
    BY DEF OrderOpenPcs
  <2>2. oreq'[r].pc = "saveOrder" /\ oreq'[r].cmd = "create" /\ oreq'[r].lines = oreq[r].lines
    BY <1>1, <1>3, <2>1, GotoGoesOn DEF GoesOn
  <2>3. CreationShapeOf(r)'
    BY <1>1, <1>3, <2>2 DEF CreationShapeOf
  <2> QED
    BY <1>1, <1>3, <2>1, <2>3, NothingDisturbed, GotoKeepsAnswerInv
<1> QED
  BY <1>2, <1>3 DEF CreateCheck

LEMMA CreateSaveOrderKeepsAnswerInv ==
    ASSUME IInv, AnswerInv, NEW r \in OrderRequests, CreateSaveOrder(r)
    PROVE  AnswerInv'
<1>1. /\ oreq[r].pc = "saveOrder" /\ oreq[r].cmd = "create" /\ UNCHANGED items
      /\ CreationShapeOf(r) /\ oreq[r].pc \in OrderOpenPcs
  BY DEF CreateSaveOrder, At, AnswerInv, CreationShape, OrderOpenPcs
<1>2. CASE End(r, "failed") /\ UNCHANGED orders
  BY <1>1, <1>2, NothingDisturbed, EndKeepsAnswerInv DEF EndPcs
<1>3. CASE Goto(r, "saveItems") /\ Storable(TotalPrice(oreq[r].lines))
  <2> DEFINE total == TotalPrice(oreq[r].lines)
             row == [clientName |-> oreq[r].clientName, totalPrice |-> total,
                     isFinished |-> FALSE, organisation |-> oreq[r].organisation]
  <2>1. orders' = [orders EXCEPT ![r] = row] /\ total \in 0 .. MaxInt
    BY <1>3 DEF CreateSaveOrder, InsertOrder, Storable, EndPcs, End, Goto
  <2>2. oreq[r] \in OrderRequest
    BY DEF IInv, TypeOK, OrdersTypeOK
  <2> HIDE DEF total
  <2>3. row \in OrderRow /\ row.organisation = oreq[r].organisation
    BY <2>1, <2>2 DEF OrderRequest, OrderRow
  <2> HIDE DEF row
  <2>4. orders'[r] # Null /\ orders'[r].organisation = oreq[r].organisation
    BY <2>1, <2>3, NullAssumption DEF IInv, TypeOK, DatabaseTypeOK, OrderIds
  <2>5. "saveItems" \in OrderOpenPcs
    BY DEF OrderOpenPcs
  <2>6. /\ oreq'[r].pc = "saveItems" /\ oreq'[r].cmd = "create"
        /\ oreq'[r].lines = oreq[r].lines /\ oreq'[r].organisation = oreq[r].organisation
    BY <1>1, <1>3, <2>5, GotoGoesOn DEF GoesOn
  <2>7. CreationShapeOf(r)'
    BY <1>1, <2>4, <2>6 DEF CreationShapeOf
  <2>8. \A q \in OrderRequests : q # r => Undisturbed(q)
    BY <1>1, <2>1 DEF Undisturbed, IInv, TypeOK, DatabaseTypeOK, OrderIds
  <2> QED
    BY <1>1, <1>3, <2>5, <2>7, <2>8, GotoKeepsAnswerInv
<1> QED
  BY <1>2, <1>3 DEF CreateSaveOrder

\* Items are only inserted under the request that draws their ids.
LEMMA InsertItemsDisturbsNobody ==
    ASSUME NEW r \in OrderRequests, NEW o, NEW lines, InsertItems(r, o, lines), UNCHANGED orders
    PROVE  \A q \in OrderRequests : q # r => Undisturbed(q)
<1>1. ASSUME NEW q \in OrderRequests, q # r, NEW p \in Products
      PROVE  items'[<<q, p>>] = items[<<q, p>>]
  <2>1. <<q, p>> \in ItemIds /\ ~\E l \in lines : <<q, p>> = <<r, l.product>>
    BY <1>1 DEF ItemIds
  <2> QED
    BY <2>1 DEF InsertItems
<1> QED
  BY <1>1 DEF Undisturbed

LEMMA CreateSaveItemsKeepsAnswerInv ==
    ASSUME IInv, AnswerInv, NEW r \in OrderRequests, CreateSaveItems(r)
    PROVE  AnswerInv'
<1> DEFINE lines == oreq[r].lines
<1>1. /\ oreq[r].pc = "saveItems" /\ oreq[r].cmd = "create" /\ UNCHANGED orders
      /\ CreationShapeOf(r) /\ oreq[r].pc \in OrderOpenPcs
  BY DEF CreateSaveItems, At, AnswerInv, CreationShape, OrderOpenPcs
<1>2. CASE End(r, "failed") /\ UNCHANGED items
  BY <1>1, <1>2, NothingDisturbed, EndKeepsAnswerInv DEF EndPcs
<1>3. CASE InsertItems(r, r, lines) /\ Goto(r, "respond")
  <2>1. "respond" \in OrderOpenPcs
    BY DEF OrderOpenPcs
  <2>2. /\ oreq'[r].pc = "respond" /\ oreq'[r].cmd = "create"
        /\ oreq'[r].lines = lines /\ oreq'[r].organisation = oreq[r].organisation
    BY <1>1, <1>3, <2>1, GotoGoesOn DEF GoesOn
  <2>3. /\ lines # {}
        /\ \A l \in lines : l.product \in Products
        /\ \A k, l \in lines : k.product = l.product => k = l
    BY <1>1, CatalogueAssumption DEF CreationShapeOf, AcceptsLines
  <2>4. ASSUME NEW l \in lines
        PROVE  items'[<<r, l.product>>] =
                  [amount |-> l.amount, product |-> l.product, order |-> r]
    <3>1. <<r, l.product>> \in ItemIds
      BY <2>3, <2>4 DEF ItemIds
    <3>2. (CHOOSE k \in lines : <<r, l.product>> = <<r, k.product>>) = l
      BY <2>3, <2>4
    <3>3. <<r, l.product>>[2] = l.product
      OBVIOUS
    <3> QED
      BY <1>3, <2>4, <3>1, <3>2, <3>3 DEF InsertItems
  <2>5. ASSUME NEW p \in Products, items'[<<r, p>>] # Null
        PROVE  \E l \in lines : l.product = p
    <3>1. <<r, p>> \in ItemIds /\ items[<<r, p>>] = Null
      BY <1>1 DEF ItemIds, CreationShapeOf
    <3> QED
      BY <1>3, <2>5, <3>1 DEF InsertItems
  <2>6. CreationShapeOf(r)'
    BY <1>1, <2>2, <2>4, <2>5 DEF CreationShapeOf
  <2> QED
    BY <1>1, <1>3, <2>1, <2>6, InsertItemsDisturbsNobody, GotoKeepsAnswerInv
<1> QED
  BY <1>2, <1>3 DEF CreateSaveItems

LEMMA RespondKeepsAnswerInv ==
    ASSUME IInv, AnswerInv, NEW r \in OrderRequests, Respond(r)
    PROVE  AnswerInv'
<1>1. UNCHANGED <<orders, items>> /\ oreq[r].pc \in OrderOpenPcs
  BY DEF Respond, database, OrderOpenPcs
<1>2. End(r, "empty") \/ End(r, "done")
  BY DEF Respond
<1> QED
  BY <1>1, <1>2, NothingDisturbed, EndKeepsAnswerInv DEF EndPcs

-----------------------------------------------------------------------------
(* Updates and deletions.                                                    *)

\* The order an update or a deletion is about has been answered: it is not
\* that of a creation that runs, nor are the items the handler has loaded.
LEMMA OthersOrder ==
    ASSUME IInv, ItemInv, AnswerInv, NEW r \in OrderRequests,
           oreq[r].pc # "idle", oreq[r].cmd \in {"update", "delete"},
           NEW q \in OrderRequests, Creating(q)
    PROVE  /\ oreq[r].order # q /\ oreq[r].order \in OrderIds
           /\ \A p \in Products : /\ <<q, p>> \in ItemIds /\ <<q, p>> \notin oreq[r].loaded
                                  /\ items[<<q, p>>] # Null => items[<<q, p>>].order # oreq[r].order
<1>1. At(oreq[r].order, "create", "done") /\ oreq[r].order \in OrderIds
  BY DEF ItemInv, HomeShape, HomeShapeOf, IInv, OrderShape
<1>2. oreq[r].order # q
  BY <1>1 DEF Creating, At
<1>3. ASSUME NEW p \in Products
      PROVE  /\ <<q, p>> \in ItemIds /\ <<q, p>> \notin oreq[r].loaded
             /\ items[<<q, p>>] # Null => items[<<q, p>>].order # oreq[r].order
  <2>1. <<q, p>> \in ItemIds /\ <<q, p>>[1] = q
    BY DEF ItemIds
  <2>2. <<q, p>> \notin oreq[r].loaded
    BY <2>1, CreatingIsSecret DEF AnswerInv, SecretsKept, SecretsKeptBy
  <2>3. oreq[q].order = q
    BY DEF ItemInv, HomeShape, HomeShapeOf, Creating
  <2>4. items[<<q, p>>] # Null => items[<<q, p>>].order \in {q, Null}
    BY <2>1, <2>3 DEF ItemInv, ItemsStayHome
  <2> QED
    BY <1>1, <1>2, <2>1, <2>2, <2>4, NullAssumption
<1> QED
  BY <1>1, <1>2, <1>3

\* An item that is linked to an order that was answered may be come across.
LEMMA LinkedIsDisclosed ==
    ASSUME IInv, ItemInv, NEW o \in OrderIds, At(o, "create", "done"), NEW i \in ItemsOf(o)
    PROVE  Disclosed(i[1])
<1>1. i \in ItemIds /\ items[i] # Null /\ items[i].order = o
  BY DEF ItemsOf
<1>2. oreq[i[1]].pc \notin NoItemYet /\ oreq[i[1]].order = o /\ i[1] \in OrderRequests
  BY <1>1, OwnerIsPastChecks, OwnerIsRequest, NullAssumption
<1>3. oreq[i[1]].pc # "idle"
  BY <1>2 DEF NoItemYet
<1>4. oreq[i[1]].cmd \in {"create", "update", "delete"}
  BY <1>2, <1>3 DEF IInv, TypeOK, OrdersTypeOK, OrderShape, OrderRequest
<1>5. oreq[i[1]].cmd = "create" => i[1] = o
  BY <1>2, <1>3 DEF ItemInv, HomeShape, HomeShapeOf
<1> QED
  BY <1>3, <1>4, <1>5 DEF Disclosed, At, EndPcs

LEMMA FindUnfinishedKeepsAnswerInv ==
    ASSUME IInv, ItemInv, AnswerInv, UNCHANGED <<orders, items>>,
           NEW r \in OrderRequests, oreq[r].cmd \in {"update", "delete"}, oreq[r].pc = "find",
           NEW pc \in {"checkName", "deleteItems"}, FindUnfinished(r, pc)
    PROVE  AnswerInv'
<1> DEFINE linked == ItemsOf(oreq[r].order)
<1>1. /\ oreq[r].pc \in OrderOpenPcs /\ At(oreq[r].order, "create", "done")
      /\ oreq[r].order \in OrderIds
  BY DEF OrderOpenPcs, ItemInv, HomeShape, HomeShapeOf, IInv, OrderShape
<1>2. CASE End(r, "rejected")
  BY <1>1, <1>2, NothingDisturbed, EndKeepsAnswerInv DEF EndPcs
<1>3. CASE oreq' = [oreq EXCEPT ![r] = [@ EXCEPT
               !.pc = pc, !.row = orders[oreq[r].order], !.loaded = linked,
               !.bare = {i \in linked : items[i].product = Null}]]
  <2>1. \A i \in linked : Disclosed(i[1]) /\ i[1] \in OrderRequests
    BY <1>1, LinkedIsDisclosed, OwnerIsRequest DEF ItemsOf
  <2> HIDE DEF linked
  <2>2. /\ oreq'[r].pc = pc /\ oreq'[r].loaded = linked /\ Alone(r)
        /\ oreq'[r].cmd = oreq[r].cmd /\ oreq'[r].order = oreq[r].order
        /\ oreq'[r].lines = oreq[r].lines /\ oreq'[r].organisation = oreq[r].organisation
    BY <1>3 DEF IInv, TypeOK, OrdersTypeOK, OrderRequest, Alone
  <2>3. GoesOn
    BY <1>1, <2>2, OneGoesOn
  <2>4. \A i \in oreq'[r].loaded : Disclosed(i[1])'
    BY <2>1, <2>2, <2>3, DisclosedForGood
  <2>5. ASSUME NEW l \in oreq'[r].lines, l.item # Null
        PROVE  Disclosed(l.item[1])'
    BY <2>2, <2>3, <2>5, OwnersAreRequests, DisclosedForGood DEF AnswerInv, SecretsKept,
       SecretsKeptBy
  <2>6. SecretsKeptBy(r)' /\ CreationShapeOf(r)'
    BY <2>2, <2>4, <2>5 DEF SecretsKeptBy, CreationShapeOf
  <2> QED
    BY <2>2, <2>3, <2>6, NothingDisturbed, StepKeepsAnswerInv
<1> QED
  BY <1>2, <1>3 DEF FindUnfinished

LEMMA UpdateCheckKeepsAnswerInv ==
    ASSUME IInv, AnswerInv, NEW r \in OrderRequests, UpdateCheck(r)
    PROVE  AnswerInv'
<1>1. /\ UNCHANGED <<orders, items>> /\ oreq[r].pc \in OrderOpenPcs /\ oreq[r].cmd = "update"
  BY DEF UpdateCheck, At, database, OrderOpenPcs
<1>2. End(r, "failed") \/ End(r, "rejected") \/ Goto(r, "saveOrder")
  BY DEF UpdateCheck
<1> QED
  BY <1>1, <1>2, NothingDisturbed, EndKeepsAnswerInv, GotoKeepsAnswerInv DEF EndPcs, OrderOpenPcs

LEMMA UpdateSaveOrderKeepsAnswerInv ==
    ASSUME IInv, ItemInv, AnswerInv, NEW r \in OrderRequests, UpdateSaveOrder(r)
    PROVE  AnswerInv'
<1>1. /\ oreq[r].pc = "saveOrder" /\ oreq[r].cmd = "update" /\ oreq[r].pc \in OrderOpenPcs
  BY DEF UpdateSaveOrder, At, OrderOpenPcs
<1>2. CASE End(r, "failed") /\ UNCHANGED <<orders, items>>
  BY <1>1, <1>2, NothingDisturbed, EndKeepsAnswerInv DEF EndPcs
<1>3. ASSUME Goto(r, "deleteItems"), NEW row, SaveLoadedOrder(oreq[r].order, row, oreq[r].loaded)
      PROVE  AnswerInv'
  <2>1. ASSUME NEW q \in OrderRequests, Creating(q)
        PROVE  Undisturbed(q)
    <3>1. /\ oreq[r].order # q
          /\ \A p \in Products : /\ <<q, p>> \in ItemIds /\ <<q, p>> \notin oreq[r].loaded
                                 /\ items[<<q, p>>] # Null => items[<<q, p>>].order # oreq[r].order
      BY <1>1, <2>1, OthersOrder
    <3>2. orders'[q] = orders[q]
      BY <1>3, <3>1 DEF SaveLoadedOrder, IInv, TypeOK, DatabaseTypeOK, OrderIds
    <3>3. \A p \in Products : items'[<<q, p>>] = items[<<q, p>>]
      BY <1>3, <3>1 DEF SaveLoadedOrder
    <3> QED
      BY <3>2, <3>3 DEF Undisturbed
  <2> QED
    BY <1>1, <1>3, <2>1, GotoKeepsAnswerInv DEF OrderOpenPcs
<1> QED
  BY <1>2, <1>3 DEF UpdateSaveOrder

\* Only loaded items are deleted or saved again.
LEMMA OnlyLoadedDisturbsNobody ==
    ASSUME IInv, ItemInv, AnswerInv, NEW r \in OrderRequests,
           oreq[r].pc # "idle", oreq[r].cmd \in {"update", "delete"}, UNCHANGED orders,
           \A i \in ItemIds : i \notin oreq[r].loaded => items'[i] = items[i]
    PROVE  \A q \in OrderRequests : Creating(q) => Undisturbed(q)
BY OthersOrder DEF Undisturbed

LEMMA UpdateDeleteItemsKeepsAnswerInv ==
    ASSUME IInv, ItemInv, AnswerInv, NEW r \in OrderRequests, UpdateDeleteItems(r)
    PROVE  AnswerInv'
<1>1. /\ oreq[r].pc # "idle" /\ oreq[r].cmd = "update" /\ UNCHANGED orders
      /\ Goto(r, "createItems") /\ oreq[r].pc \in OrderOpenPcs
      /\ \A i \in ItemIds : i \notin oreq[r].loaded => items'[i] = items[i]
  BY DEF UpdateDeleteItems, DeleteItems, At, OrderOpenPcs
<1> QED
  BY <1>1, OnlyLoadedDisturbsNobody, GotoKeepsAnswerInv DEF OrderOpenPcs

LEMMA UpdateCreateItemsKeepsAnswerInv ==
    ASSUME IInv, AnswerInv, NEW r \in OrderRequests, UpdateCreateItems(r)
    PROVE  AnswerInv'
<1>1. /\ oreq[r].cmd = "update" /\ UNCHANGED orders /\ oreq[r].pc \in OrderOpenPcs
  BY DEF UpdateCreateItems, At, OrderOpenPcs
<1>2. CASE End(r, "failed") /\ UNCHANGED items
  BY <1>1, <1>2, NothingDisturbed, EndKeepsAnswerInv DEF EndPcs
<1>3. ASSUME NEW lines, InsertItems(r, oreq[r].order, lines), Goto(r, "findItems")
      PROVE  AnswerInv'
  BY <1>1, <1>3, InsertItemsDisturbsNobody, GotoKeepsAnswerInv DEF OrderOpenPcs
<1> QED
  BY <1>2, <1>3 DEF UpdateCreateItems

\* What is found are items the request was sent.
LEMMA UpdateFindItemsKeepsAnswerInv ==
    ASSUME IInv, AnswerInv, NEW r \in OrderRequests, UpdateFindItems(r)
    PROVE  AnswerInv'
<1> DEFINE found == {i \in ItemIds : items[i] # Null /\ \E l \in oreq[r].lines : l.item = i}
<1>1. /\ UNCHANGED <<orders, items>> /\ oreq[r].pc \in OrderOpenPcs /\ oreq[r].cmd = "update"
      /\ oreq' = [oreq EXCEPT ![r] = [@ EXCEPT !.pc = "updateItems", !.bare = {},
                                               !.loaded = found]]
  BY DEF UpdateFindItems, At, database, OrderOpenPcs
<1>2. \A i \in found : Disclosed(i[1]) /\ i[1] \in OrderRequests
  BY <1>1, OwnerIsRequest, NullAssumption DEF AnswerInv, SecretsKept, SecretsKeptBy, OrderOpenPcs
<1> HIDE DEF found
<1>3. /\ oreq'[r].pc = "updateItems" /\ oreq'[r].loaded = found /\ Alone(r)
      /\ oreq'[r].cmd = oreq[r].cmd /\ oreq'[r].order = oreq[r].order
      /\ oreq'[r].lines = oreq[r].lines /\ oreq'[r].organisation = oreq[r].organisation
  BY <1>1 DEF IInv, TypeOK, OrdersTypeOK, OrderRequest, Alone
<1>4. GoesOn
  BY <1>1, <1>3, OneGoesOn
<1>5. \A i \in oreq'[r].loaded : Disclosed(i[1])'
  BY <1>2, <1>3, <1>4, DisclosedForGood
<1>6. ASSUME NEW l \in oreq'[r].lines, l.item # Null
      PROVE  Disclosed(l.item[1])'
  BY <1>1, <1>3, <1>4, <1>6, OwnersAreRequests, DisclosedForGood DEF AnswerInv, SecretsKept,
     SecretsKeptBy, OrderOpenPcs
<1>7. SecretsKeptBy(r)' /\ CreationShapeOf(r)'
  BY <1>1, <1>3, <1>5, <1>6 DEF SecretsKeptBy, CreationShapeOf
<1> QED
  BY <1>1, <1>3, <1>4, <1>7, NothingDisturbed, StepKeepsAnswerInv

LEMMA UpdateSaveItemsKeepsAnswerInv ==
    ASSUME IInv, ItemInv, AnswerInv, NEW r \in OrderRequests, UpdateSaveItems(r)
    PROVE  AnswerInv'
<1>1. PICK amounts : DOMAIN amounts = oreq[r].loaded /\ SaveLoadedItems(amounts)
  BY DEF UpdateSaveItems
<1>2. /\ oreq[r].pc # "idle" /\ oreq[r].cmd = "update" /\ UNCHANGED orders
      /\ Goto(r, "respond") /\ oreq[r].pc \in OrderOpenPcs
      /\ \A i \in ItemIds : i \notin oreq[r].loaded => items'[i] = items[i]
  BY <1>1 DEF UpdateSaveItems, SaveLoadedItems, At, OrderOpenPcs
<1> QED
  BY <1>2, OnlyLoadedDisturbsNobody, GotoKeepsAnswerInv DEF OrderOpenPcs

LEMMA DeleteDeleteItemsKeepsAnswerInv ==
    ASSUME IInv, ItemInv, AnswerInv, NEW r \in OrderRequests, DeleteDeleteItems(r)
    PROVE  AnswerInv'
<1>1. /\ oreq[r].pc # "idle" /\ oreq[r].cmd = "delete" /\ UNCHANGED orders
      /\ oreq[r].pc \in OrderOpenPcs
      /\ \A i \in ItemIds : i \notin oreq[r].loaded => items'[i] = items[i]
  BY DEF DeleteDeleteItems, DeleteItems, At, OrderOpenPcs
<1>2. End(r, "failed") \/ Goto(r, "deleteOrder")
  BY DEF DeleteDeleteItems
<1> QED
  BY <1>1, <1>2, OnlyLoadedDisturbsNobody, EndKeepsAnswerInv, GotoKeepsAnswerInv
     DEF EndPcs, OrderOpenPcs

LEMMA DeleteDeleteOrderKeepsAnswerInv ==
    ASSUME IInv, ItemInv, AnswerInv, NEW r \in OrderRequests, DeleteDeleteOrder(r)
    PROVE  AnswerInv'
<1>1. /\ oreq[r].pc # "idle" /\ oreq[r].cmd = "delete" /\ UNCHANGED items
      /\ oreq[r].pc \in OrderOpenPcs
  BY DEF DeleteDeleteOrder, At, OrderOpenPcs
<1>2. End(r, "failed") \/ End(r, "done")
  BY DEF DeleteDeleteOrder
<1>3. UNCHANGED orders \/ DeleteOrder(oreq[r].order)
  BY DEF DeleteDeleteOrder
<1>4. \A q \in OrderRequests : Creating(q) => Undisturbed(q)
  BY <1>1, <1>3, OthersOrder DEF Undisturbed, DeleteOrder, IInv, TypeOK, DatabaseTypeOK, OrderIds
<1> QED
  BY <1>1, <1>2, <1>4, EndKeepsAnswerInv DEF EndPcs

LEMMA OrderStepKeepsAnswerInv ==
    ASSUME IInv, ItemInv, AnswerInv, NEW r \in OrderRequests, OrderStep(r)
    PROVE  AnswerInv'
<1>1. CASE CreateCheck(r) \/ CreateSaveOrder(r) \/ CreateSaveItems(r) \/ Respond(r)
  BY <1>1, CreateCheckKeepsAnswerInv, CreateSaveOrderKeepsAnswerInv,
     CreateSaveItemsKeepsAnswerInv, RespondKeepsAnswerInv
<1>2. CASE UpdateFind(r)
  BY <1>2, FindUnfinishedKeepsAnswerInv DEF UpdateFind, At, database
<1>3. CASE DeleteFind(r)
  BY <1>3, FindUnfinishedKeepsAnswerInv DEF DeleteFind, At, database
<1>4. CASE UpdateCheck(r) \/ UpdateSaveOrder(r) \/ UpdateDeleteItems(r) \/ UpdateCreateItems(r)
  BY <1>4, UpdateCheckKeepsAnswerInv, UpdateSaveOrderKeepsAnswerInv,
     UpdateDeleteItemsKeepsAnswerInv, UpdateCreateItemsKeepsAnswerInv
<1>5. CASE UpdateFindItems(r) \/ UpdateSaveItems(r)
  BY <1>5, UpdateFindItemsKeepsAnswerInv, UpdateSaveItemsKeepsAnswerInv
<1>6. CASE DeleteDeleteItems(r) \/ DeleteDeleteOrder(r)
  BY <1>6, DeleteDeleteItemsKeepsAnswerInv, DeleteDeleteOrderKeepsAnswerInv
<1> QED
  BY <1>1, <1>2, <1>3, <1>4, <1>5, <1>6 DEF OrderStep

LEMMA OrderAbortKeepsAnswerInv ==
    ASSUME IInv, AnswerInv, NEW r \in OrderRequests, OrderAbort(r)
    PROVE  AnswerInv'
<1>1. UNCHANGED <<orders, items>> /\ oreq[r].pc \in OrderOpenPcs /\ End(r, "failed")
  BY DEF OrderAbort, database
<1> QED
  BY <1>1, NothingDisturbed, EndKeepsAnswerInv DEF EndPcs

-----------------------------------------------------------------------------
(* Requests that arrive.                                                     *)

\* A request that arrives names items that were disclosed, if any.
LEMMA ReceiveKeepsAnswerInv ==
    ASSUME IInv, ItemInv, AnswerInv, NEW r \in OrderRequests, NEW request, Receive(r, request),
           request.loaded = {},
           \A l \in request.lines : l.item # Null =>
               l.item[1] \in OrderRequests /\ Disclosed(l.item[1]),
           request.cmd = "create" => request.pc = "checkName" /\ request.lines # {}
    PROVE  AnswerInv'
<1>1. UNCHANGED <<orders, items>> /\ oreq[r].pc = "idle"
  BY DEF Receive, database
<1>2. oreq'[r] = request /\ Alone(r)
  BY DEF Receive, IInv, TypeOK, OrdersTypeOK, Alone
<1>3. GoesOn
  BY <1>1, <1>2 DEF GoesOn, Alone, EndPcs
<1>4. SecretsKeptBy(r)'
  BY <1>2, <1>3, DisclosedForGood DEF SecretsKeptBy
<1>5. \A p \in Products : items'[<<r, p>>] = Null
  BY <1>1 DEF ItemInv, WrittenByOwner, NoItemYet
<1>6. CreationShapeOf(r)'
  BY <1>2, <1>5 DEF CreationShapeOf
<1> QED
  BY <1>1, <1>2, <1>3, <1>4, <1>6, NothingDisturbed, StepKeepsAnswerInv

\* The ids a client may know are those of items that were disclosed.
LEMMA ChoicesAreDisclosed ==
    ASSUME IInv, ItemInv, NEW o \in Known, NEW p, NEW i \in ItemIdChoices(o, p), i # Null
    PROVE  i[1] \in OrderRequests /\ Disclosed(i[1])
<1>1. o \in OrderIds /\ At(o, "create", "done")
  BY DEF Known, OrderIds
<1>2. CASE i \in ItemsOf(o)
  BY <1>1, <1>2, LinkedIsDisclosed, OwnerIsRequest DEF ItemsOf
<1>3. CASE i \in SeenItems
  <2>1. i \in ItemIds
    BY <1>3 DEF SeenItems
  <2>2. items[i] # Null => oreq[i[1]].pc # "idle"
    BY <2>1, OwnerIsPastChecks DEF NoItemYet
  <2> QED
    BY <1>3, <2>1, <2>2, OwnerIsRequest DEF SeenItems, Disclosed, EndPcs
<1> QED
  BY <1>2, <1>3 DEF ItemIdChoices

LEMMA OrdersReceiveKeepsAnswerInv ==
    ASSUME IInv, ItemInv, AnswerInv, OrdersReceive
    PROVE  AnswerInv'
<1>1. PICK r \in OrderRequests, org \in Organisations :
         \/ \E name \in ClientNames \cup {Null}, cart \in Carts :
               ReceiveCreate(r, org, name, cart)
         \/ \E o \in Known, name \in ClientNames \cup {Null}, cart \in Carts :
               \E lines \in LinesFor(o, cart) : ReceiveUpdate(r, o, org, name, lines)
         \/ \E o \in Known : ReceiveDelete(r, o, org)
  BY DEF OrdersReceive
<1>2. ASSUME NEW name, NEW cart \in Carts, ReceiveCreate(r, org, name, cart)
      PROVE  AnswerInv'
  <2> DEFINE lines == {[product |-> c.product, amount |-> c.amount, item |-> Null] : c \in cart}
             request == [NoOrderRequest EXCEPT
                 !.cmd = "create", !.pc = "checkName", !.organisation = org,
                 !.order = r, !.clientName = name, !.lines = lines]
  <2>1. Receive(r, request)
    BY <1>2 DEF ReceiveCreate
  <2>2. lines # {} /\ \A l \in lines : l.item = Null
    <3>1. PICK c \in cart : TRUE
      BY OrdersAssumption
    <3>2. [product |-> c.product, amount |-> c.amount, item |-> Null] \in lines
      BY <3>1
    <3>3. lines # {}
      BY <3>2
    <3>4. \A l \in lines : l.item = Null
      OBVIOUS
    <3> QED
      BY <3>3, <3>4
  <2> HIDE DEF lines
  <2>3. request.loaded = {} /\ request.pc = "checkName" /\ request.lines = lines
    BY DEF NoOrderRequest
  <2> HIDE DEF request
  <2> QED
    BY <2>1, <2>2, <2>3, ReceiveKeepsAnswerInv
<1>3. ASSUME NEW o \in Known, NEW name, NEW cart, NEW lines \in LinesFor(o, cart),
             ReceiveUpdate(r, o, org, name, lines)
      PROVE  AnswerInv'
  <2> DEFINE request == [NoOrderRequest EXCEPT
                 !.cmd = "update", !.pc = "find", !.organisation = org,
                 !.order = o, !.clientName = name, !.lines = lines]
  <2>1. Receive(r, request)
    BY <1>3 DEF ReceiveUpdate
  <2>2. \A l \in lines : l.item \in ItemIdChoices(o, l.product)
    BY LinesForChoices
  <2>3. request.loaded = {} /\ request.cmd = "update" /\ request.lines = lines
    BY DEF NoOrderRequest
  <2> HIDE DEF request
  <2> QED
    BY <2>1, <2>2, <2>3, ChoicesAreDisclosed, ReceiveKeepsAnswerInv
<1>4. ASSUME NEW o \in Known, ReceiveDelete(r, o, org)
      PROVE  AnswerInv'
  <2> DEFINE request == [NoOrderRequest EXCEPT
                 !.cmd = "delete", !.pc = "find", !.organisation = org, !.order = o]
  <2>1. Receive(r, request)
    BY <1>4 DEF ReceiveDelete
  <2>2. request.loaded = {} /\ request.cmd = "delete" /\ request.lines = {}
    BY DEF NoOrderRequest
  <2> HIDE DEF request
  <2> QED
    BY <2>1, <2>2, ReceiveKeepsAnswerInv
<1> QED
  BY <1>1, <1>2, <1>3, <1>4

-----------------------------------------------------------------------------
(* Payments and callbacks, which only ever mark orders as finished.          *)

LEMMA FinishOrderDisturbsNobody ==
    ASSUME IInv, NEW o, FinishOrder(o), UNCHANGED items
    PROVE  \A q \in OrderRequests : Undisturbed(q)
<1>1. orders \in [OrderIds -> OrderRow \cup {Null}]
  BY DEF IInv, TypeOK, DatabaseTypeOK
<1>2. ASSUME NEW q \in OrderRequests, orders[q] # Null
      PROVE  orders'[q] # Null /\ orders'[q].organisation = orders[q].organisation
  <2> DEFINE row == [orders[q] EXCEPT !.isFinished = TRUE]
  <2>1. orders[q] \in OrderRow /\ q \in OrderIds
    BY <1>1, <1>2 DEF OrderIds
  <2>2. row \in OrderRow /\ row.organisation = orders[q].organisation
    BY <2>1 DEF OrderRow
  <2>3. row # Null
    BY <2>2, NullAssumption
  <2>4. orders'[q] \in {orders[q], row}
    BY <1>1, <2>1 DEF FinishOrder
  <2> QED
    BY <1>2, <2>2, <2>3, <2>4
<1> QED
  BY <1>2 DEF Undisturbed

LEMMA PaymentStepKeepsAnswerInv ==
    ASSUME IInv, AnswerInv, NEW p \in PaymentRequests, PaymentStep(p), UNCHANGED oreq
    PROVE  AnswerInv'
<1>1. CASE CreatePaymentFinishOrder(p)
  BY <1>1, FinishOrderDisturbsNobody, NoRequestKeepsAnswerInv DEF CreatePaymentFinishOrder
<1>2. CASE ~CreatePaymentFinishOrder(p)
  <2>1. UNCHANGED <<orders, items>>
    BY <1>2 DEF PaymentStep, CreatePaymentFind, CreatePaymentCallPayconiq, CreatePaymentSave,
       PayconiqRespond, CancelFind, CancelCallPayconiq, CancelUpdatePayment, database
  <2> QED
    BY <2>1, NothingDisturbed, NoRequestKeepsAnswerInv
<1> QED
  BY <1>1, <1>2

LEMMA WebhookStepKeepsAnswerInv ==
    ASSUME IInv, AnswerInv, NEW d \in Deliveries, WebhookStep(d), UNCHANGED oreq
    PROVE  AnswerInv'
<1>1. CASE WebhookFinishOrder(d)
  BY <1>1, FinishOrderDisturbsNobody, NoRequestKeepsAnswerInv DEF WebhookFinishOrder
<1>2. CASE WebhookFind(d) \/ WebhookUpdatePayment(d)
  <2>1. UNCHANGED <<orders, items>>
    BY <1>2 DEF WebhookFind, WebhookUpdatePayment, database
  <2> QED
    BY <2>1, NothingDisturbed, NoRequestKeepsAnswerInv
<1> QED
  BY <1>1, <1>2 DEF WebhookStep

-----------------------------------------------------------------------------
(* The answer to a creation.                                                 *)

\* When a creation is about to be answered, the items of its order are those
\* it has saved: no other request can have linked one to it.
LEMMA ItemsOfACreation ==
    ASSUME IInv, ItemInv, AnswerInv, NEW r \in OrderRequests, At(r, "create", "respond")
    PROVE  \A i \in ItemIds : i \in ItemsOf(r) <=>
               i[1] = r /\ \E l \in oreq[r].lines : l.product = i[2]
<1> SUFFICES ASSUME NEW i \in ItemIds
             PROVE  i \in ItemsOf(r) <=> i[1] = r /\ \E l \in oreq[r].lines : l.product = i[2]
  OBVIOUS
<1>1. /\ CreationShapeOf(r) /\ oreq[r].cmd = "create" /\ oreq[r].pc = "respond"
      /\ r \in OrderIds /\ i[1] \in OrderRequests /\ i[2] \in Products /\ i = <<i[1], i[2]>>
  BY OwnerIsRequest DEF AnswerInv, CreationShape, At, OrderIds
<1>2. ASSUME i \in ItemsOf(r)
      PROVE  i[1] = r /\ \E l \in oreq[r].lines : l.product = i[2]
  <2>1. items[i] # Null /\ items[i].order = r
    BY <1>2 DEF ItemsOf
  <2>2. oreq[i[1]].pc \notin NoItemYet /\ oreq[i[1]].order = r
    BY <1>1, <2>1, OwnerIsPastChecks, NullAssumption
  <2>3. oreq[i[1]].pc # "idle" /\ HomeShapeOf(i[1])
    BY <1>1, <2>2 DEF NoItemYet, ItemInv, HomeShape
  <2>4. oreq[i[1]].cmd = "create"
    <3>1. oreq[i[1]].cmd \in {"create", "update", "delete"}
      BY <1>1, <2>3 DEF IInv, TypeOK, OrdersTypeOK, OrderShape, OrderRequest
    <3> QED
      BY <1>1, <2>2, <2>3, <3>1 DEF HomeShapeOf, At
  <2>5. i[1] = r
    BY <2>2, <2>3, <2>4 DEF HomeShapeOf
  <2> QED
    BY <1>1, <2>1, <2>5 DEF CreationShapeOf
<1>3. ASSUME i[1] = r, NEW l \in oreq[r].lines, l.product = i[2]
      PROVE  i \in ItemsOf(r)
  <2>1. items[i] = [amount |-> l.amount, product |-> l.product, order |-> r]
    BY <1>1, <1>3 DEF CreationShapeOf
  <2>2. items[i] # Null
    <3>1. oreq[r].lines \in SUBSET Line
      BY DEF IInv, TypeOK, OrdersTypeOK, OrderRequest
    <3>2. items[i] \in ItemRow
      BY <1>1, <2>1, <3>1 DEF ItemRow, Line
    <3> QED
      BY <3>2, NullAssumption
  <2> QED
    BY <2>1, <2>2 DEF ItemsOf
<1> QED
  BY <1>2, <1>3

LEMMA AnswerIsWhatWasSent ==
    ASSUME IInv, ItemInv, AnswerInv, NEW r \in OrderRequests, At(r, "create", "respond")
    PROVE  Answer(r) = SentLines(r)
<1> DEFINE answered == {[product |-> items[i].product, amount |-> items[i].amount] :
                          i \in {j \in ItemsOf(r) : items[j].product # Null}}
<1>1. /\ CreationShapeOf(r) /\ oreq[r].cmd = "create" /\ oreq[r].pc = "respond"
      /\ oreq[r].order = r /\ oreq[r].lines \in SUBSET Line
  BY DEF AnswerInv, CreationShape, At, ItemInv, HomeShape, HomeShapeOf, IInv, TypeOK,
     OrdersTypeOK, OrderRequest
<1>2. /\ oreq[r].lines # {}
      /\ OrderFound(r, oreq[r].organisation)
      /\ \A l \in oreq[r].lines : /\ l.product \in Products
                                  /\ items[<<r, l.product>>] =
                                       [amount |-> l.amount, product |-> l.product, order |-> r]
  BY <1>1 DEF CreationShapeOf, OrderFound, Line
<1>3. SentLines(r) \subseteq answered
  <2>1. ASSUME NEW l \in oreq[r].lines
        PROVE  [product |-> l.product, amount |-> l.amount] \in answered
    <3> DEFINE i == <<r, l.product>>
    <3>1. i \in ItemIds /\ i[1] = r /\ i[2] = l.product
      BY <1>2 DEF ItemIds
    <3>2. i \in ItemsOf(r)
      BY <2>1, <3>1, ItemsOfACreation
    <3>3. items[i] = [amount |-> l.amount, product |-> l.product, order |-> r]
      BY <1>2, <2>1
    <3>4. items[i].product = l.product /\ items[i].amount = l.amount
      BY <3>3
    <3>5. l.product # Null
      BY <1>2, <2>1, NullAssumption
    <3> HIDE DEF i
    <3> QED
      BY <3>2, <3>4, <3>5
  <2> QED
    BY <2>1 DEF SentLines
<1>4. answered \subseteq SentLines(r)
  <2>1. ASSUME NEW i \in ItemsOf(r)
        PROVE  [product |-> items[i].product, amount |-> items[i].amount] \in SentLines(r)
    <3>1. i \in ItemIds /\ i = <<i[1], i[2]>>
      BY OwnerIsRequest DEF ItemsOf
    <3>2. PICK l \in oreq[r].lines : i = <<r, l.product>>
      BY <3>1, ItemsOfACreation
    <3>3. items[i] = [amount |-> l.amount, product |-> l.product, order |-> r]
      BY <1>2, <3>2
    <3>4. items[i].product = l.product /\ items[i].amount = l.amount
      BY <3>3
    <3> QED
      BY <3>4 DEF SentLines
  <2> QED
    BY <2>1
<1>5. answered # {}
  BY <1>2, <1>3 DEF SentLines
<1>6. Answer(r) = IF OrderFound(r, oreq[r].organisation) /\ answered # {} THEN answered ELSE Null
  BY <1>1 DEF Answer, GetOrder
<1> HIDE DEF answered
<1> QED
  BY <1>2, <1>3, <1>4, <1>5, <1>6

-----------------------------------------------------------------------------
(* The theorems.                                                             *)

LEMMA InitAnswerInv == Init => AnswerInv
BY DEF Init, OrdersInit, NoOrderRequest, AnswerInv, SecretsKept, SecretsKeptBy, CreationShape,
   CreationShapeOf

LEMMA NextKeepsAnswerInv == IInv /\ ItemInv /\ AnswerInv /\ [Next]_vars => AnswerInv'
<1> SUFFICES ASSUME IInv, ItemInv, AnswerInv, [Next]_vars
             PROVE  AnswerInv'
  OBVIOUS
<1>1. CASE UNCHANGED <<database, oreq>>
  BY <1>1, NothingDisturbed, NoRequestKeepsAnswerInv DEF database
<1>2. CASE Receives
  BY <1>1, <1>2, OrdersReceiveKeepsAnswerInv DEF Receives, PaymentsReceive, PaymentReceive,
     WebhooksReceive, WebhookReceive
<1>3. CASE Steps
  BY <1>3, OrderStepKeepsAnswerInv, PaymentStepKeepsAnswerInv, WebhookStepKeepsAnswerInv DEF Steps
<1>4. CASE Aborts
  BY <1>1, <1>4, OrderAbortKeepsAnswerInv DEF Aborts, PaymentAbort, WebhookAbort
<1>5. CASE PayconiqMoves \/ UNCHANGED vars
  BY <1>1, <1>5 DEF PayconiqMoves, vars, database
<1> QED
  BY <1>2, <1>3, <1>4, <1>5 DEF Next

\* Whatever overlaps and whatever fails, a creation that runs keeps to itself,
\* and what it has stored stays as it was sent.
THEOREM AnswerInvariantHolds == Spec => []AnswerInv
BY InvariantHolds, ItemInvariantHolds, InitAnswerInv, NextKeepsAnswerInv, PTL DEF Spec

\* A creation is answered with the lines that were sent, all of them and no
\* other, however many requests overlap it.
THEOREM CreateAnswersItsLinesAlways == Spec => CreateAnswersItsLines
<1> DEFINE Answers == \A r \in OrderRequests :
              At(r, "create", "respond") /\ oreq'[r].pc \in {"done", "empty"}
                  => Answer(r) = SentLines(r)
<1>1. IInv /\ ItemInv /\ AnswerInv => Answers
  BY AnswerIsWhatWasSent
<1>2. CreateAnswersItsLines <=> [][Answers]_vars
  BY DEF CreateAnswersItsLines
<1> QED
  BY <1>1, <1>2, InvariantHolds, ItemInvariantHolds, AnswerInvariantHolds, PTL DEF Spec

=============================================================================
