------------------------------- MODULE Tapapp -------------------------------
(* The API: the handlers of the orders and payments APIs and of the webhook  *)
(* on one database, and Payconiq.  Any two handlers interleave at every      *)
(* database or Payconiq call they await, in one worker or in several.        *)
EXTENDS Payments, Webhooks

CONSTANTS
    MaxOverlap,         \* handlers that run at a time; 1 is a serial execution
    Progress            \* the statuses Payconiq moves a payment to

ASSUME TapappAssumption ==
    /\ MaxOverlap \in Nat \ {0}
    /\ Progress \subseteq PayconiqStatuses \ {"PENDING"}

vars == <<orders, items, payments, oreq, preq, hreq, payconiq, callbacks>>

TypeOK ==
    /\ DatabaseTypeOK
    /\ OrdersTypeOK
    /\ PaymentsTypeOK
    /\ WebhooksTypeOK
    /\ PayconiqTypeOK

Init == DatabaseInit /\ OrdersInit /\ PaymentsInit /\ WebhooksInit /\ PayconiqInit

\* The bound on the handlers that run at a time; it is no part of the program.
OpenHandlers ==
    Cardinality(OrderOpen) + Cardinality(PaymentOpen) + Cardinality(WebhookOpen)

Receives ==
    /\ OpenHandlers < MaxOverlap
    /\ \/ OrdersReceive /\ UNCHANGED <<preq, hreq, payconiqVars>>
       \/ PaymentsReceive /\ UNCHANGED <<oreq, hreq>>
       \/ WebhooksReceive /\ UNCHANGED <<oreq, preq>>

Steps ==
    \/ \E r \in OrderRequests : OrderStep(r) /\ UNCHANGED <<preq, hreq, payconiqVars>>
    \/ \E p \in PaymentRequests : PaymentStep(p) /\ UNCHANGED <<oreq, hreq>>
    \/ \E d \in Deliveries : WebhookStep(d) /\ UNCHANGED <<oreq, preq>>

Aborts ==
    \/ \E r \in OrderRequests : OrderAbort(r) /\ UNCHANGED <<preq, hreq, payconiqVars>>
    \/ \E p \in PaymentRequests : PaymentAbort(p) /\ UNCHANGED <<oreq, hreq>>
    \/ \E d \in Deliveries : WebhookAbort(d) /\ UNCHANGED <<oreq, preq>>

PayconiqMoves ==
    /\ \E p \in PaymentIds, status \in Progress : PayconiqMove(p, status)
    /\ UNCHANGED <<database, oreq, preq, hreq>>

Next == Receives \/ Steps \/ Aborts \/ PayconiqMoves

Spec == Init /\ [][Next]_vars

\* A handler that has been started goes on: Node runs the continuation of
\* every call that is answered.  No request need ever be made, no callback
\* delivered, no payment moved on.
FairSpec ==
    /\ Spec
    /\ \A r \in OrderRequests :
          WF_vars(OrderStep(r) /\ UNCHANGED <<preq, hreq, payconiqVars>>)
    /\ \A p \in PaymentRequests : WF_vars(PaymentStep(p) /\ UNCHANGED <<oreq, hreq>>)
    /\ \A d \in Deliveries : WF_vars(WebhookStep(d) /\ UNCHANGED <<oreq, preq>>)

-----------------------------------------------------------------------------
(* Safety, whatever overlaps and whatever fails.                             *)

\* A finished order has been paid: by a cash or a free payment, or by a payment
\* that Payconiq has really settled (create-payment.command.ts saves before it
\* finishes; payconiq-update.command.ts finishes on SUCCEEDED only).
PaidAtPayconiq(p) == payconiq[p] # Null /\ payconiq[p].status = "SUCCEEDED"

FinishedIsPaid ==
    \A o \in OrderIds :
        orders[o] # Null /\ orders[o].isFinished =>
            \E p \in PaymentsOf(o) : payments[p].type \in {"CASH", "FREE"} \/ PaidAtPayconiq(p)

\* Once a payment row says how a Payconiq payment ended it says what Payconiq
\* says, though answers, callbacks and cancellations overlap and arrive late,
\* twice or never; and the amount is the one Payconiq charges.
RowAgreesWithPayconiq ==
    \A p \in PaymentIds :
        payments[p] # Null /\ payments[p].type = "PAYCONIQ" =>
            /\ payconiq[p] # Null
            /\ payments[p].amount = payconiq[p].amount
            /\ payments[p].status # "PENDING" =>
                  payments[p].status = PaymentStatusFrom(payconiq[p].status)

\* An item stays with the order its request was about, or is linked to
\* nothing, whichever stale lists of items are saved.
ItemsStayHome ==
    \A i \in ItemIds :
        items[i] # Null => items[i].order \in {oreq[i[1]].order, Null}

\* A request that was answered with 4xx has left no order and no item.
RejectedWroteNothing ==
    \A r \in OrderRequests :
        oreq[r].pc = "rejected" =>
            orders[r] = Null /\ \A p \in Products : items[<<r, p>>] = Null

\* Every amount fits its column because the total was stored first: the items
\* cannot overflow after their order was saved.
AmountsStorable == \A i \in ItemIds : items[i] # Null => Storable(items[i].amount)

\* The answer to a creation shows the lines that were sent, whatever else
\* runs: nobody knows the order yet.
SentLines(r) == {[product |-> l.product, amount |-> l.amount] : l \in oreq[r].lines}

CreateAnswersItsLines ==
    [][\A r \in OrderRequests :
          At(r, "create", "respond") /\ oreq'[r].pc \in {"done", "empty"}
              => Answer(r) = SentLines(r)]_vars

\* A payment is never removed and never changes its order, amount, type or
\* organisation; a cash or free payment never changes at all.
PaymentsAreKept ==
    [][\A p \in PaymentIds : payments[p] # Null =>
          /\ payments'[p] # Null
          /\ payments'[p] = [payments[p] EXCEPT !.status = payments'[p].status,
                                                !.data = payments'[p].data]
          /\ payments[p].type # "PAYCONIQ" => payments'[p] = payments[p]]_vars

-----------------------------------------------------------------------------
(* The refinement of Ledger, whatever overlaps and whatever fails.           *)

\* A cash or free payment is settled when it is saved, a Payconiq payment when
\* Payconiq says so, which may be before it is saved.
Settled(p) ==
    \/ payments[p] # Null /\ payments[p].type \in {"CASH", "FREE"}
    \/ PaidAtPayconiq(p)

Stored == {o \in OrderIds : orders[o] # Null}
Finished == {o \in OrderIds : orders[o] # Null /\ orders[o].isFinished}
Pays == [p \in PaymentIds |-> IF payments[p] = Null THEN Null ELSE payments[p].order]
SettledPayments == {p \in PaymentIds : Settled(p)}

PromisedLedger == INSTANCE Ledger WITH
    Orders <- OrderIds, Payments <- PaymentIds,
    exists <- Stored, finished <- Finished, pays <- Pays, settled <- SettledPayments

\* However handlers interleave and fail, what they do to orders and payments
\* together is what the ledger allows: an order is marked as finished only by
\* a settled payment of its own, a payment is registered once and for an order
\* that exists, keeps its order for good and is never unsettled, and an order
\* that has payments is never deleted.
ImplementsLedger == PromisedLedger!Spec

-----------------------------------------------------------------------------
(* Safety of a serial execution without failures and with careful clients.   *)

\* No handler is half-way through.
Quiet == OpenHandlers = 0

\* The total of an order is the price of its items.
TotalMatchesItems ==
    Quiet => \A o \in OrderIds : orders[o] # Null =>
        orders[o].totalPrice =
            MapThenSumSet(LAMBDA i : items[i].amount * Price[items[i].product], ItemsOf(o))

\* Two unfinished orders of an organisation never share a client name
\* (create-order.command.ts:39, update-order.command.ts:66), as long as
\* handlers do not overlap.
UniqueOpenNames ==
    \A a, b \in OrderIds :
        /\ a # b
        /\ orders[a] # Null /\ orders[b] # Null
        /\ orders[a].organisation = orders[b].organisation
        /\ orders[a].clientName = orders[b].clientName
        /\ orders[a].clientName # Null
        => orders[a].isFinished \/ orders[b].isFinished

\* The answer to an update shows exactly the lines that were sent.  Without
\* careful clients it does not: a line without an id whose product the order
\* already has is dropped ("Link the items that are new in the list",
\* update-order.command.ts:118).
UpdateAnswersItsLines ==
    [][\A r \in OrderRequests :
          At(r, "update", "respond") /\ oreq'[r].pc = "done" => Answer(r) = SentLines(r)]_vars

\* A finished order keeps its row, its items and their products, whatever item
\* ids clients send: only an update of that order could change these, and it is
\* refused (update-order.command.ts:54).
FinishedKeepsItems ==
    [][\A o \in OrderIds : orders[o] # Null /\ orders[o].isFinished =>
          /\ orders'[o] = orders[o]
          /\ ItemsOf(o)' = ItemsOf(o)
          /\ \A i \in ItemsOf(o) : items'[i].product = items[i].product]_vars

\* A payment belongs to the organisation of its order.
PaymentKeepsOrganisation ==
    \A p \in PaymentIds : payments[p] # Null =>
        /\ orders[payments[p].order] # Null
        /\ orders[payments[p].order].organisation = payments[p].organisation

\* An order that was paid in cash was paid its total, once.
CashPaysTheTotal ==
    Quiet => \A o \in OrderIds :
        LET paid == {p \in PaymentsOf(o) : payments[p].type \in {"CASH", "FREE"}}
        IN  /\ Cardinality(paid) <= 1
            /\ \A p \in paid : /\ orders[o].isFinished
                               /\ payments[p].amount = orders[o].totalPrice

-----------------------------------------------------------------------------
(* What comments of the code say and the code does not keep: each of these,  *)
(* and UpdateAnswersItsLines, is refuted by a run.                           *)

\* "Cannot update finished orders" (update-order.command.ts:53): an order that
\* is finished stays finished.
FinishedStaysFinished ==
    [][\A o \in OrderIds :
          orders[o] # Null /\ orders[o].isFinished /\ orders'[o] # Null
              => orders'[o].isFinished]_vars

\* Nor do the amounts of its items change, which make up the total that was
\* paid.  The update of another order changes them when it is sent their ids
\* (update-order.command.ts:143).
FinishedIsFrozen ==
    [][\A o \in OrderIds : orders[o] # Null /\ orders[o].isFinished =>
          \A i \in ItemsOf(o) : items'[i] # Null => items'[i].amount = items[i].amount]_vars

\* "It should throw a 500 in case of an error" (payconiq-update.command.ts:37):
\* Payconiq is never told 200 about a callback that was not processed.
FailedWebhookIsReported == \A d \in Deliveries : hreq[d].pc = "failed" => hreq[d].reply # 200

-----------------------------------------------------------------------------
(* Liveness, without failures.                                               *)

\* A SUCCEEDED callback that has found its payment finishes its order
\* (payconiq-update.command.ts:47), though the order is updated or deleted
\* meanwhile.
SucceededCallbackFinishesOrder ==
    \A d \in Deliveries, o \in OrderIds :
        (/\ hreq[d].pc = "updatePayment" /\ hreq[d].order = o
         /\ DeliveredStatus(d) = "SUCCEEDED") ~> (orders[o] # Null /\ orders[o].isFinished)

\* So does a cash or free payment that has been saved.
SavedCashFinishesOrder ==
    \A p \in PaymentIds, o \in OrderIds :
        (preq[p].pc = "finishOrder" /\ preq[p].order = o)
            ~> (orders[o] # Null /\ orders[o].isFinished)

=============================================================================
