------------------------------ MODULE Payments ------------------------------
(* The payments API (apps/api/src/payments): cash and free payments, and     *)
(* creating and cancelling Payconiq payments.                                *)
(*                                                                           *)
(* Requests are records like those of module Orders, and end like them.      *)
EXTENDS Orders, Payconiq

CONSTANT
    PaymentCommands     \* the operations clients call

ASSUME PaymentsAssumption == PaymentCommands \subseteq PaymentTypes \cup {"CANCEL"}

VARIABLE preq

PaymentOpenPcs == {"find", "callPayconiq", "savePayment", "finishOrder",
                   "updatePayment", "fetchPayconiq"}

\* order is the order a new payment is for, payment the payment a cancellation
\* names; total and data are what the handler has read or been answered.
PaymentRequest == [cmd          : {"none", "CANCEL"} \cup PaymentTypes,
                   pc           : {"idle"} \cup PaymentOpenPcs \cup EndPcs,
                   organisation : Organisations \cup {Null},
                   order        : OrderIds \cup {Null},
                   payment      : PaymentIds \cup {Null},
                   total        : (0 .. MaxInt) \cup {Null},
                   data         : PayconiqStatuses \cup {Null}]

NoPaymentRequest == [cmd |-> "none", pc |-> "idle", organisation |-> Null,
                     order |-> Null, payment |-> Null, total |-> Null, data |-> Null]

PaymentsTypeOK == preq \in [PaymentRequests -> PaymentRequest]

PaymentsInit == preq = [p \in PaymentRequests |-> NoPaymentRequest]

PaymentAt(p, cmds, pc) == preq[p].cmd \in cmds /\ preq[p].pc = pc

PaymentGoto(p, pc) == preq' = [preq EXCEPT ![p] = [@ EXCEPT !.pc = pc]]

PaymentEnd(p, outcome) ==
    preq' = [preq EXCEPT ![p] = [@ EXCEPT !.pc = outcome, !.total = Null, !.data = Null]]

PaymentOpen == {p \in PaymentRequests : preq[p].pc \in PaymentOpenPcs}

-----------------------------------------------------------------------------
(* Requests.                                                                 *)

\* A client learns the id of a Payconiq payment from the answer to its creation.
KnownPayments == {p \in PaymentRequests : PaymentAt(p, {"PAYCONIQ"}, "done")}

PaymentReceive(p, request) ==
    /\ preq[p].pc = "idle"
    /\ request.cmd \in PaymentCommands
    /\ preq' = [preq EXCEPT ![p] = request]
    /\ UNCHANGED <<database, payconiqVars>>

PaymentsReceive ==
    \E p \in PaymentRequests, org \in Organisations :
        \/ \E cmd \in PaymentTypes, o \in Known :
              PaymentReceive(p, [NoPaymentRequest EXCEPT
                  !.cmd = cmd, !.pc = "find", !.organisation = org, !.order = o])
        \/ \E q \in KnownPayments :
              PaymentReceive(p, [NoPaymentRequest EXCEPT
                  !.cmd = "CANCEL", !.pc = "find", !.organisation = org, !.payment = q])

-----------------------------------------------------------------------------
(* CreatePaymentHandler (cash, free) and CreatePayconiqPaymentHandler.       *)

\* Mutant: a cash payment finishes the order before it is saved.
FinishFirst(cmd) == IF cmd = "PAYCONIQ" THEN "callPayconiq" ELSE "finishOrder"

\* The call that follows the checks: Payconiq, or the payment is saved.
FirstCall(cmd) == IF cmd = "PAYCONIQ" THEN "callPayconiq" ELSE "savePayment"

\* The order must exist (404) and not be finished (405).
CreatePaymentFind(p) ==
    /\ PaymentAt(p, PaymentTypes, "find")
    /\ LET request == preq[p]
       IN  IF FoundUnfinished(request.order, request.organisation)
           THEN preq' = [preq EXCEPT ![p] = [@ EXCEPT
                    !.pc = FirstCall(request.cmd),
                    !.total = orders[request.order].totalPrice]]
           ELSE PaymentEnd(p, "rejected")
    /\ UNCHANGED <<database, payconiqVars>>

\* createPayment at Payconiq: answered, or failed before or after Payconiq
\* has registered the payment.
CreatePaymentCallPayconiq(p) ==
    /\ PaymentAt(p, {"PAYCONIQ"}, "callPayconiq")
    /\ \/ /\ PayconiqCreate(p, preq[p].total)
          /\ preq' = [preq EXCEPT ![p] = [@ EXCEPT
                        !.pc = "savePayment", !.data = "PENDING"]]
       \/ /\ Failures
          /\ PayconiqCreate(p, preq[p].total)
          /\ PaymentEnd(p, "failed")
    /\ UNCHANGED database

\* A cash or free payment is saved as SUCCEEDED, a Payconiq payment with the
\* status Payconiq answered.  The order must still exist.
CreatePaymentSave(p) ==
    /\ PaymentAt(p, PaymentTypes, "savePayment")
    /\ LET request == preq[p]
       IN  IF OrderExists(request.order)
           THEN /\ InsertPayment(p,
                     [amount |-> request.total, type |-> request.cmd,
                      status |-> IF request.cmd = "PAYCONIQ"
                                 THEN PaymentStatusFrom(request.data)
                                 ELSE "SUCCEEDED",
                      data |-> request.data, order |-> request.order,
                      organisation |-> request.organisation])
                /\ PaymentGoto(p, IF request.cmd = "PAYCONIQ"
                                  THEN "fetchPayconiq" ELSE "finishOrder")
           ELSE PaymentEnd(p, "failed") /\ UNCHANGED payments
    /\ UNCHANGED <<orders, items, payconiqVars>>

\* Mutant: the order is not marked as finished.
CreatePaymentSkipOrder(p) ==
    /\ PaymentAt(p, {"CASH", "FREE"}, "finishOrder")
    /\ PaymentEnd(p, "done")
    /\ UNCHANGED <<database, payconiqVars>>

\* The order of a cash or free payment is finished.
CreatePaymentFinishOrder(p) ==
    /\ PaymentAt(p, {"CASH", "FREE"}, "finishOrder")
    /\ FinishOrder(preq[p].order)
    /\ PaymentEnd(p, "done")
    /\ UNCHANGED <<items, payments, payconiqVars>>

\* The controller answers with GetPayconiqPayment: it reads the payment (404)
\* and fetches its status at Payconiq (500).
PayconiqRespond(p) ==
    /\ PaymentAt(p, {"PAYCONIQ"}, "fetchPayconiq")
    /\ PaymentEnd(p, IF ~PayconiqPaymentFound(p, preq[p].organisation) THEN "rejected"
                     ELSE IF ~PayconiqFetches(p) THEN "failed" ELSE "done")
    /\ UNCHANGED <<database, payconiqVars>>

-----------------------------------------------------------------------------
(* CancelPayconiqPaymentHandler.                                             *)

\* The Payconiq payment must exist (404) and its order, read with it, not be
\* finished (405).
CancelFind(p) ==
    /\ PaymentAt(p, {"CANCEL"}, "find")
    /\ LET request == preq[p]
       IN  IF /\ PayconiqPaymentFound(request.payment, request.organisation)
              /\ ~orders[payments[request.payment].order].isFinished
           THEN PaymentGoto(p, "callPayconiq")
           ELSE PaymentEnd(p, "rejected")
    /\ UNCHANGED <<database, payconiqVars>>

\* Mutant: a refusal by Payconiq is taken for a cancellation.
CancelIgnoringRefusal(p) ==
    /\ PaymentAt(p, {"CANCEL"}, "callPayconiq")
    /\ \/ PayconiqCancel(preq[p].payment)
       \/ ~Unsettled(preq[p].payment) /\ UNCHANGED payconiqVars
    /\ PaymentGoto(p, "updatePayment")
    /\ UNCHANGED database

\* cancelPayment at Payconiq: cancelled, refused, or cancelled while the answer
\* is lost.
CancelCallPayconiq(p) ==
    /\ PaymentAt(p, {"CANCEL"}, "callPayconiq")
    /\ \/ /\ PayconiqCancel(preq[p].payment)
          /\ PaymentGoto(p, "updatePayment")
       \/ /\ ~Unsettled(preq[p].payment)
          /\ PaymentEnd(p, "failed")
          /\ UNCHANGED payconiqVars
       \/ /\ Failures
          /\ PayconiqCancel(preq[p].payment)
          /\ PaymentEnd(p, "failed")
    /\ UNCHANGED database

\* Mutant: the cancelled payment is removed.
CancelRemovePayment(p) ==
    /\ PaymentAt(p, {"CANCEL"}, "updatePayment")
    /\ payments' = [payments EXCEPT ![preq[p].payment] = Null]
    /\ PaymentEnd(p, "done")
    /\ UNCHANGED <<orders, items, payconiqVars>>

\* Mutant: the status is taken from the answer, which is empty.
CancelUpdateFromAnswer(p) ==
    /\ PaymentAt(p, {"CANCEL"}, "updatePayment")
    /\ UpdatePayment(preq[p].payment, preq[p].data, "CANCELLED")
    /\ PaymentEnd(p, "done")
    /\ UNCHANGED <<orders, items, payconiqVars>>

\* The payment is updated once Payconiq has cancelled it.
CancelUpdatePayment(p) ==
    /\ PaymentAt(p, {"CANCEL"}, "updatePayment")
    /\ UpdatePayment(preq[p].payment, "CANCELLED", "CANCELLED")
    /\ PaymentEnd(p, "done")
    /\ UNCHANGED <<orders, items, payconiqVars>>

-----------------------------------------------------------------------------
\* A call fails, or the worker dies before it: the rest never runs.
PaymentAbort(p) ==
    /\ Failures
    /\ preq[p].pc \in PaymentOpenPcs
    /\ PaymentEnd(p, "failed")
    /\ UNCHANGED <<database, payconiqVars>>

PaymentStep(p) ==
    \/ CreatePaymentFind(p) \/ CreatePaymentCallPayconiq(p)
    \/ CreatePaymentSave(p) \/ CreatePaymentFinishOrder(p) \/ PayconiqRespond(p)
    \/ CancelFind(p) \/ CancelCallPayconiq(p) \/ CancelUpdatePayment(p)

=============================================================================
