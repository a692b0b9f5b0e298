------------------------------ MODULE Webhooks ------------------------------
(* The Payconiq webhook (apps/api/src/webhooks).  Each delivery of a callback *)
(* runs PayconiqUpdateHandler on its own; the controller does not await it   *)
(* and answers 200 at once.                                                  *)
EXTENDS Models, Payconiq

CONSTANT Deliveries     \* deliveries of callbacks; each happens at most once

VARIABLE hreq

WebhookOpenPcs == {"find", "updatePayment", "finishOrder"}

\* reply is the HTTP status Payconiq got; callback and order are Null until
\* they are known.
WebhookPcs == {"idle", "done", "failed"} \cup WebhookOpenPcs
Replies == {200} \cup {Null}
Delivery == [pc       : WebhookPcs,
             reply    : Replies,
             callback : Callback \cup {Null},
             order    : OrderIds \cup {Null}]

NoDelivery == [pc |-> "idle", reply |-> Null, callback |-> Null, order |-> Null]

WebhooksTypeOK == hreq \in [Deliveries -> Delivery]

WebhooksInit == hreq = [d \in Deliveries |-> NoDelivery]

WebhookOpen == {d \in Deliveries : hreq[d].pc \in WebhookOpenPcs}

WebhookGoto(d, pc) == hreq' = [hreq EXCEPT ![d] = [@ EXCEPT !.pc = pc]]

DeliveredPayment(d) == InternalPaymentIdFromReference(hreq[d].callback.reference)

DeliveredStatus(d) == PaymentStatusFrom(hreq[d].callback.status)

\* The network delivers a callback of Payconiq: once, again, late or never.  The
\* controller does not check who calls; callbacks of others are left out.
WebhookReceive(d, callback) ==
    /\ hreq[d].pc = "idle"
    /\ hreq' = [hreq EXCEPT ![d] = [@ EXCEPT
                    !.pc = "find", !.reply = 200, !.callback = callback]]
    /\ UNCHANGED <<database, payconiqVars>>

WebhooksReceive == \E d \in Deliveries, callback \in callbacks : WebhookReceive(d, callback)

\* findOneOrThrow by the payment id in the reference.
WebhookFind(d) ==
    /\ hreq[d].pc = "find"
    /\ LET row == payments[DeliveredPayment(d)]
       IN  IF row = Null
           THEN WebhookGoto(d, "failed")
           ELSE hreq' = [hreq EXCEPT ![d] = [@ EXCEPT
                            !.pc = "updatePayment", !.order = row.order]]
    /\ UNCHANGED <<database, payconiqVars>>

\* Mutants: every update finishes the order; none does.
FinishAlways(status) == IF status \in PaymentStatuses THEN "finishOrder" ELSE "done"
FinishNever(status) == IF status \in PaymentStatuses THEN "done" ELSE "finishOrder"

\* Only a succeeded payment finishes its order.
AfterUpdate(status) == IF status = "SUCCEEDED" THEN "finishOrder" ELSE "done"

\* The row takes over what the callback says, whatever it said before.
WebhookUpdatePayment(d) ==
    /\ hreq[d].pc = "updatePayment"
    /\ UpdatePayment(DeliveredPayment(d), DeliveredStatus(d), hreq[d].callback.status)
    /\ WebhookGoto(d, AfterUpdate(DeliveredStatus(d)))
    /\ UNCHANGED <<orders, items, payconiqVars>>

WebhookFinishOrder(d) ==
    /\ hreq[d].pc = "finishOrder"
    /\ FinishOrder(hreq[d].order)
    /\ WebhookGoto(d, "done")
    /\ UNCHANGED <<items, payments, payconiqVars>>

\* A call fails, or the worker dies before it: the rest never runs, and
\* Payconiq has its 200 already.
WebhookAbort(d) ==
    /\ Failures
    /\ hreq[d].pc \in WebhookOpenPcs
    /\ WebhookGoto(d, "failed")
    /\ UNCHANGED <<database, payconiqVars>>

WebhookStep(d) == WebhookFind(d) \/ WebhookUpdatePayment(d) \/ WebhookFinishOrder(d)

=============================================================================
