-------------------------- MODULE Payments_proofs --------------------------
(* Proofs about payments.  RowInv is inductive relative to IInv, so what a   *)
(* row says of the end of a Payconiq payment is what Payconiq says, and no   *)
(* payment is removed or changed but for the outcome of a Payconiq payment.  *)
(* And the API implements Ledger: the initial state is the empty ledger, and *)
(* under IInv every step of a handler or of Payconiq is a step of the ledger *)
(* or leaves it as it is.                                                    *)
EXTENDS Tapapp_proofs

-----------------------------------------------------------------------------
(* The inductive invariant, relative to IInv, behind RowAgreesWithPayconiq   *)
(* and PaymentsAreKept.                                                      *)

\* What is said of a payment is final at Payconiq once it is not pending.
Confirmed(p, status) ==
    /\ payconiq[p] # Null
    /\ PaymentStatusFrom(status) # "PENDING" =>
          PaymentStatusFrom(payconiq[p].status) = PaymentStatusFrom(status)

\* A callback says nothing that Payconiq does not confirm, however late.
Announced(callback) ==
    Confirmed(InternalPaymentIdFromReference(callback.reference), callback.status)

Announcements ==
    /\ \A callback \in callbacks : Announced(callback)
    /\ \A d \in Deliveries : hreq[d].pc # "idle" => Announced(hreq[d].callback)

\* A row has the type its request asked for; what is saved is what Payconiq
\* was asked to charge; what is cancelled has been cancelled there first.
RowShapeOf(p) ==
    /\ payments[p] # Null => payments[p].type = preq[p].cmd
    /\ PaymentAt(p, {"PAYCONIQ"}, "savePayment") =>
          /\ preq[p].data = "PENDING"
          /\ payconiq[p] # Null /\ payconiq[p].amount = preq[p].total
    /\ PaymentAt(p, {"CANCEL"}, "callPayconiq") \/ PaymentAt(p, {"CANCEL"}, "updatePayment")
          => payments[preq[p].payment].type = "PAYCONIQ"
    /\ PaymentAt(p, {"CANCEL"}, "updatePayment") => Confirmed(preq[p].payment, "CANCELLED")

RowShape == \A p \in PaymentRequests : RowShapeOf(p)

RowInv == Announcements /\ RowShape /\ RowAgreesWithPayconiq

-----------------------------------------------------------------------------
\* What every step grants at Payconiq: a payment stays registered for its
\* amount, and a settled one never changes.
MovesOn ==
    \A q \in PaymentIds : payconiq[q] # Null =>
        /\ payconiq'[q] # Null
        /\ payconiq'[q].amount = payconiq[q].amount
        /\ ~Unsettled(q) => payconiq'[q] = payconiq[q]

\* The two ways in which a step may write a payment row: it saves the one of
\* its own request, or it updates a Payconiq payment as Payconiq confirms.
Saves(p) ==
    /\ payments[p] = Null
    /\ \E row \in PaymentRow :
          /\ payments' = [payments EXCEPT ![p] = row]
          /\ row.type = preq[p].cmd
          /\ row.type = "PAYCONIQ" =>
                /\ row.status = "PENDING"
                /\ payconiq[p] # Null /\ row.amount = payconiq[p].amount

Updates(q) ==
    /\ payments[q] # Null /\ payments[q].type = "PAYCONIQ"
    /\ \E said \in PayconiqStatuses :
          /\ Confirmed(q, said)
          /\ UpdatePayment(q, PaymentStatusFrom(said), said)

RowStep ==
    \/ UNCHANGED payments
    \/ UNCHANGED payconiq /\ \E p \in PaymentIds : Saves(p) \/ Updates(p)

-----------------------------------------------------------------------------
(* Payconiq.                                                                 *)

LEMMA NothingMoves ==
    ASSUME UNCHANGED payconiq
    PROVE  MovesOn
BY DEF MovesOn

\* One payment that is not settled changes its status.
LEMMA OneMoves ==
    ASSUME IInv, NEW p \in PaymentIds, NEW status \in PayconiqStatuses, Unsettled(p),
           payconiq' = [payconiq EXCEPT ![p] = [@ EXCEPT !.status = status]]
    PROVE  MovesOn
<1>1. payconiq \in [PaymentIds -> PayconiqRow \cup {Null}] /\ payconiq[p] \in PayconiqRow
  BY DEF IInv, TypeOK, PayconiqTypeOK, Unsettled
<1>2. payconiq'[p] = [payconiq[p] EXCEPT !.status = status]
  BY <1>1
<1>3. payconiq'[p] \in PayconiqRow /\ payconiq'[p].amount = payconiq[p].amount
  BY <1>1, <1>2 DEF PayconiqRow
<1>4. payconiq'[p] # Null
  BY <1>3, PayconiqAssumption
<1> QED
  BY <1>1, <1>3, <1>4 DEF MovesOn

\* A cancellation moves the payment it names.
LEMMA CancelMoves ==
    ASSUME IInv, NEW p \in PaymentIds, PayconiqCancel(p)
    PROVE  MovesOn
BY OneMoves DEF PayconiqCancel, PayconiqStatuses

\* A creation registers a payment that was not.
LEMMA CreationMovesNothing ==
    ASSUME IInv, NEW p \in PaymentIds, NEW amount, payconiq[p] = Null, PayconiqCreate(p, amount)
    PROVE  MovesOn
BY DEF MovesOn, PayconiqCreate, IInv, TypeOK, PayconiqTypeOK

LEMMA PayconiqOnlyMovesOn ==
    ASSUME IInv, [Next]_vars
    PROVE  MovesOn
<1>1. CASE UNCHANGED payconiq
  BY <1>1, NothingMoves
<1>2. ASSUME NEW p \in PaymentRequests, PaymentStep(p)
      PROVE  MovesOn
  <2>0. p \in PaymentIds /\ PaymentShapeOf(p)
    BY DEF IInv, PaymentShape, PaymentIds
  <2>1. CASE CreatePaymentCallPayconiq(p)
    <3>1. PayconiqCreate(p, preq[p].total) /\ payconiq[p] = Null
      BY <2>0, <2>1 DEF CreatePaymentCallPayconiq, PaymentShapeOf, PaymentAt
    <3> QED
      BY <2>0, <3>1, CreationMovesNothing
  <2>2. CASE CancelCallPayconiq(p)
    <3>1. preq[p].payment \in PaymentIds
      BY <2>0, <2>2 DEF CancelCallPayconiq, PaymentShapeOf, PaymentAt
    <3>2. CASE PayconiqCancel(preq[p].payment)
      BY <3>1, <3>2, CancelMoves
    <3>3. CASE UNCHANGED payconiqVars
      BY <3>3, NothingMoves DEF payconiqVars
    <3> QED
      BY <2>2, <3>2, <3>3 DEF CancelCallPayconiq
  <2>3. CASE ~(CreatePaymentCallPayconiq(p) \/ CancelCallPayconiq(p))
    <3>1. UNCHANGED payconiqVars
      BY <1>2, <2>3 DEF PaymentStep, CreatePaymentFind, CreatePaymentSave,
         CreatePaymentFinishOrder, PayconiqRespond, CancelFind, CancelUpdatePayment
    <3> QED
      BY <3>1, NothingMoves DEF payconiqVars
  <2> QED
    BY <2>1, <2>2, <2>3
<1>3. CASE PayconiqMoves
  <2>1. PICK p \in PaymentIds, status \in Progress : PayconiqMove(p, status)
    BY <1>3 DEF PayconiqMoves
  <2>2. status \in PayconiqStatuses
    BY TapappAssumption
  <2> QED
    BY <2>1, <2>2, OneMoves DEF PayconiqMove
<1>4. CASE Receives
  <2>1. UNCHANGED payconiq
    BY <1>4 DEF Receives, PaymentsReceive, PaymentReceive, WebhooksReceive, WebhookReceive,
       payconiqVars
  <2> QED
    BY <2>1, NothingMoves
<1>5. CASE Aborts
  <2>1. UNCHANGED payconiq
    BY <1>5 DEF Aborts, PaymentAbort, WebhookAbort, payconiqVars
  <2> QED
    BY <2>1, NothingMoves
<1>6. CASE Steps
  <2>1. ASSUME NEW d \in Deliveries, WebhookStep(d)
        PROVE  UNCHANGED payconiq
    BY <2>1 DEF WebhookStep, WebhookFind, WebhookUpdatePayment, WebhookFinishOrder, payconiqVars
  <2> QED
    BY <1>1, <1>2, <1>6, <2>1 DEF Steps, payconiqVars
<1> QED
  BY <1>1, <1>3, <1>4, <1>5, <1>6 DEF Next, vars

\* What Payconiq has confirmed it goes on confirming.
LEMMA ConfirmedForGood ==
    ASSUME MovesOn, NEW q \in PaymentIds, NEW status, Confirmed(q, status)
    PROVE  Confirmed(q, status)'
BY DEF MovesOn, Confirmed, Unsettled

-----------------------------------------------------------------------------
(* The writes of payment rows.                                               *)

\* A Payconiq payment is saved PENDING, for the amount Payconiq charges.
LEMMA CreatePaymentSaveIsRowStep ==
    ASSUME IInv, RowInv, NEW p \in PaymentRequests, CreatePaymentSave(p)
    PROVE  RowStep
<1> DEFINE status == IF preq[p].cmd = "PAYCONIQ" THEN PaymentStatusFrom(preq[p].data)
                     ELSE "SUCCEEDED"
           row == [amount |-> preq[p].total, type |-> preq[p].cmd, status |-> status,
                   data |-> preq[p].data, order |-> preq[p].order,
                   organisation |-> preq[p].organisation]
<1>1. /\ preq[p] \in PaymentRequest /\ PaymentShapeOf(p) /\ preq[p].pc = "savePayment"
      /\ preq[p].cmd \in PaymentTypes /\ p \in PaymentIds
      /\ UNCHANGED payconiq
  BY DEF IInv, TypeOK, PaymentsTypeOK, PaymentShape, CreatePaymentSave, PaymentAt, PaymentIds,
     payconiqVars
<1>2. /\ preq[p].total \in 0 .. MaxInt /\ payments[p] = Null /\ preq[p].order \in OrderIds
      /\ preq[p].organisation \in Organisations
      /\ preq[p].data \in PayconiqStatuses \cup {Null}
  BY <1>1 DEF PaymentShapeOf, PaymentAt, PaymentRequest
<1>3. preq[p].cmd = "PAYCONIQ" =>
         /\ preq[p].data = "PENDING"
         /\ payconiq[p] # Null /\ payconiq[p].amount = preq[p].total
  BY <1>1 DEF RowInv, RowShape, RowShapeOf, PaymentAt
<1>4. status \in PaymentStatuses /\ (preq[p].cmd = "PAYCONIQ" => status = "PENDING")
  BY <1>3 DEF PaymentStatuses, PaymentStatusFrom
<1> HIDE DEF status
<1>5. row \in PaymentRow
  BY <1>1, <1>2, <1>4 DEF PaymentRow
<1>6. CASE OrderExists(preq[p].order)
  <2>1. payments' = [payments EXCEPT ![p] = row]
    BY <1>6 DEF CreatePaymentSave, InsertPayment, status
  <2>2. /\ row.type = preq[p].cmd /\ row.status = status /\ row.amount = preq[p].total
    OBVIOUS
  <2> HIDE DEF row
  <2>3. Saves(p)
    BY <1>2, <1>3, <1>4, <1>5, <2>1, <2>2 DEF Saves
  <2> QED
    BY <1>1, <2>3 DEF RowStep
<1>7. CASE ~OrderExists(preq[p].order)
  BY <1>7 DEF CreatePaymentSave, RowStep
<1> QED
  BY <1>6, <1>7

\* A cancellation is written once Payconiq has cancelled the payment.
LEMMA CancelUpdatePaymentIsRowStep ==
    ASSUME IInv, RowInv, NEW p \in PaymentRequests, CancelUpdatePayment(p)
    PROVE  RowStep
<1> DEFINE q == preq[p].payment
<1>1. /\ q \in PaymentIds /\ payments[q] # Null
  BY DEF IInv, PaymentShape, PaymentShapeOf, CancelUpdatePayment, PaymentAt
<1>2. payments[q].type = "PAYCONIQ" /\ Confirmed(q, "CANCELLED")
  BY DEF RowInv, RowShape, RowShapeOf, CancelUpdatePayment, PaymentAt
<1>3. /\ UpdatePayment(q, PaymentStatusFrom("CANCELLED"), "CANCELLED")
      /\ UNCHANGED payconiq
  BY DEF CancelUpdatePayment, PaymentStatusFrom, payconiqVars
<1> HIDE DEF q
<1>4. Updates(q)
  BY <1>1, <1>2, <1>3 DEF Updates, PayconiqStatuses
<1> QED
  BY <1>1, <1>3, <1>4 DEF RowStep

\* A payment Payconiq knows was asked for as a Payconiq payment.
LEMMA RegisteredIsPayconiq ==
    ASSUME IInv, RowInv, NEW q \in PaymentIds, payconiq[q] # Null, payments[q] # Null
    PROVE  payments[q].type = "PAYCONIQ"
BY DEF IInv, PaymentShape, PaymentShapeOf, RowInv, RowShape, RowShapeOf, PaymentIds

\* The webhook writes what its callback says, which Payconiq confirms.
LEMMA WebhookUpdatePaymentIsRowStep ==
    ASSUME IInv, RowInv, NEW d \in Deliveries, WebhookUpdatePayment(d)
    PROVE  RowStep
<1> DEFINE q == DeliveredPayment(d)
<1>1. /\ hreq[d].callback \in Callback /\ q \in PaymentsOf(hreq[d].order)
      /\ UpdatePayment(q, PaymentStatusFrom(hreq[d].callback.status), hreq[d].callback.status)
      /\ UNCHANGED payconiq
  BY DEF WebhookUpdatePayment, IInv, WebhookShape, DeliveredStatus, payconiqVars
<1>2. q \in PaymentIds /\ payments[q] # Null /\ hreq[d].callback.status \in PayconiqStatuses
  BY <1>1 DEF PaymentsOf, Callback
<1>3. Confirmed(q, hreq[d].callback.status)
  BY DEF RowInv, Announcements, Announced, DeliveredPayment, WebhookUpdatePayment
<1>4. payments[q].type = "PAYCONIQ"
  BY <1>2, <1>3, RegisteredIsPayconiq DEF Confirmed
<1> HIDE DEF q
<1>5. Updates(q)
  BY <1>1, <1>2, <1>3, <1>4 DEF Updates
<1> QED
  BY <1>1, <1>2, <1>5 DEF RowStep

LEMMA EveryStepIsRowStep ==
    ASSUME IInv, RowInv, [Next]_vars
    PROVE  RowStep
<1>1. ASSUME NEW p \in PaymentRequests, PaymentStep(p)
      PROVE  RowStep
  <2>1. CASE CreatePaymentSave(p)
    BY <2>1, CreatePaymentSaveIsRowStep
  <2>2. CASE CancelUpdatePayment(p)
    BY <2>2, CancelUpdatePaymentIsRowStep
  <2>3. CASE ~(CreatePaymentSave(p) \/ CancelUpdatePayment(p))
    BY <1>1, <2>3 DEF PaymentStep, CreatePaymentFind, CreatePaymentCallPayconiq,
       CreatePaymentFinishOrder, PayconiqRespond, CancelFind, CancelCallPayconiq,
       database, RowStep
  <2> QED
    BY <2>1, <2>2, <2>3
<1>2. ASSUME NEW d \in Deliveries, WebhookStep(d)
      PROVE  RowStep
  <2>1. CASE WebhookUpdatePayment(d)
    BY <2>1, WebhookUpdatePaymentIsRowStep
  <2>2. CASE WebhookFind(d) \/ WebhookFinishOrder(d)
    BY <2>2 DEF WebhookFind, WebhookFinishOrder, database, RowStep
  <2> QED
    BY <1>2, <2>1, <2>2 DEF WebhookStep
<1>3. ASSUME NEW r \in OrderRequests, OrderStep(r)
      PROVE  UNCHANGED payments
  BY <1>3 DEF OrderStep, CreateCheck, CreateSaveOrder, CreateSaveItems, UpdateFind, UpdateCheck,
     UpdateSaveOrder, UpdateDeleteItems, UpdateCreateItems, UpdateFindItems, UpdateSaveItems,
     DeleteFind, DeleteDeleteItems, DeleteDeleteOrder, Respond, database
<1>4. CASE Steps
  BY <1>1, <1>2, <1>3, <1>4 DEF Steps, RowStep
<1>5. CASE Receives
  BY <1>5, ReceivesWriteNothing DEF RowStep
<1>6. CASE Aborts
  BY <1>6 DEF Aborts, OrderAbort, PaymentAbort, WebhookAbort, database, RowStep
<1>7. CASE PayconiqMoves \/ UNCHANGED vars
  BY <1>7 DEF PayconiqMoves, database, vars, RowStep
<1> QED
  BY <1>4, <1>5, <1>6, <1>7 DEF Next

-----------------------------------------------------------------------------
(* What a write leaves of the rows.                                          *)

\* A payment is not removed, and changes but in its status and data, if it is
\* a Payconiq payment at all.
LEMMA RowStepKeepsPayments ==
    ASSUME IInv, RowStep
    PROVE  \A p \in PaymentIds : payments[p] # Null =>
              /\ payments'[p] # Null
              /\ payments'[p] = [payments[p] EXCEPT !.status = payments'[p].status,
                                                    !.data = payments'[p].data]
              /\ payments[p].type # "PAYCONIQ" => payments'[p] = payments[p]
<1> SUFFICES ASSUME NEW p \in PaymentIds, payments[p] # Null
             PROVE  /\ payments'[p] # Null
                    /\ payments'[p] = [payments[p] EXCEPT !.status = payments'[p].status,
                                                          !.data = payments'[p].data]
                    /\ payments[p].type # "PAYCONIQ" => payments'[p] = payments[p]
  OBVIOUS
<1>1. payments \in [PaymentIds -> PaymentRow \cup {Null}] /\ payments[p] \in PaymentRow
  BY DEF IInv, TypeOK, DatabaseTypeOK
<1>2. CASE payments'[p] = payments[p]
  BY <1>1, <1>2 DEF PaymentRow
<1>3. ASSUME Updates(p)
      PROVE  /\ payments'[p] # Null /\ payments[p].type = "PAYCONIQ"
             /\ payments'[p] = [payments[p] EXCEPT !.status = payments'[p].status,
                                                   !.data = payments'[p].data]
  <2>1. PICK said \in PayconiqStatuses : UpdatePayment(p, PaymentStatusFrom(said), said)
    BY <1>3 DEF Updates
  <2>2. payments'[p] = [payments[p] EXCEPT !.status = PaymentStatusFrom(said), !.data = said]
    BY <1>1, <2>1 DEF UpdatePayment
  <2>3. payments'[p] \in PaymentRow
    BY <1>1, <2>2, PaymentStatusFromType DEF PaymentRow
  <2>4. payments'[p] # Null
    BY <2>3, NullAssumption
  <2>5. payments'[p] = [payments[p] EXCEPT !.status = payments'[p].status,
                                           !.data = payments'[p].data]
    BY <1>1, <2>2 DEF PaymentRow
  <2> QED
    BY <1>3, <2>4, <2>5 DEF Updates
<1>4. CASE ~Updates(p)
  <2>1. payments'[p] = payments[p]
    BY <1>1, <1>4 DEF RowStep, Saves, Updates, UpdatePayment
  <2> QED
    BY <1>2, <2>1
<1> QED
  BY <1>3, <1>4, <1>2

\* A row goes on agreeing with Payconiq.
LEMMA RowStepKeepsRowAgrees ==
    ASSUME IInv, RowInv, RowStep, MovesOn
    PROVE  RowAgreesWithPayconiq'
<1> SUFFICES ASSUME NEW p \in PaymentIds, payments'[p] # Null, payments'[p].type = "PAYCONIQ"
             PROVE  /\ payconiq'[p] # Null
                    /\ payments'[p].amount = payconiq'[p].amount
                    /\ payments'[p].status # "PENDING" =>
                          payments'[p].status = PaymentStatusFrom(payconiq'[p].status)
  BY DEF RowAgreesWithPayconiq
<1>1. payments \in [PaymentIds -> PaymentRow \cup {Null}]
  BY DEF IInv, TypeOK, DatabaseTypeOK
<1>2. CASE payments'[p] = payments[p]
  <2>1. /\ payconiq[p] # Null /\ payments[p].amount = payconiq[p].amount
        /\ payments[p].status # "PENDING" =>
              payments[p].status = PaymentStatusFrom(payconiq[p].status)
    BY <1>2 DEF RowInv, RowAgreesWithPayconiq
  <2>2. payments[p].status # "PENDING" => payconiq'[p] = payconiq[p]
    BY <2>1 DEF MovesOn, Unsettled
  <2> QED
    BY <1>2, <2>1, <2>2 DEF MovesOn
<1>3. CASE Saves(p) /\ UNCHANGED payconiq
  BY <1>1, <1>3 DEF Saves
<1>4. CASE Updates(p) /\ UNCHANGED payconiq
  <2>1. PICK said \in PayconiqStatuses :
           Confirmed(p, said) /\ UpdatePayment(p, PaymentStatusFrom(said), said)
    BY <1>4 DEF Updates
  <2>2. payments[p] \in PaymentRow /\ payments[p].type = "PAYCONIQ"
    BY <1>1, <1>4 DEF Updates
  <2>3. payments'[p] = [payments[p] EXCEPT !.status = PaymentStatusFrom(said), !.data = said]
    BY <1>1, <2>1 DEF UpdatePayment
  <2>4. payments'[p].status = PaymentStatusFrom(said) /\ payments'[p].amount = payments[p].amount
    BY <2>2, <2>3 DEF PaymentRow
  <2> QED
    BY <1>4, <2>1, <2>2, <2>4 DEF Confirmed, RowInv, RowAgreesWithPayconiq, Updates
<1>5. payments'[p] = payments[p] \/ (UNCHANGED payconiq /\ (Saves(p) \/ Updates(p)))
  BY <1>1 DEF RowStep, Saves, Updates, UpdatePayment
<1> QED
  BY <1>2, <1>3, <1>4, <1>5

-----------------------------------------------------------------------------
(* The requests.                                                             *)

\* A row has the type its request asked for, after any write.
LEMMA RowHasItsType ==
    ASSUME IInv, RowInv, RowStep, NEW p \in PaymentRequests, payments'[p] # Null
    PROVE  payments'[p].type = preq[p].cmd
<1>1. p \in PaymentIds /\ payments \in [PaymentIds -> PaymentRow \cup {Null}]
  BY DEF IInv, TypeOK, DatabaseTypeOK, PaymentIds
<1>2. CASE payments[p] # Null
  <2>1. payments[p] \in PaymentRow /\ payments[p].type = preq[p].cmd
    BY <1>1, <1>2 DEF RowInv, RowShape, RowShapeOf
  <2>2. payments'[p] = [payments[p] EXCEPT !.status = payments'[p].status,
                                           !.data = payments'[p].data]
    BY <1>1, <1>2, RowStepKeepsPayments
  <2> QED
    BY <2>1, <2>2 DEF PaymentRow
<1>3. CASE payments[p] = Null
  BY <1>1, <1>3 DEF RowStep, Saves, Updates, UpdatePayment
<1> QED
  BY <1>2, <1>3

\* A request that stands still, or moves on to a call that needs nothing.
LEMMA RowShapeKept ==
    ASSUME IInv, RowInv, RowStep, MovesOn, NEW p \in PaymentRequests,
           preq'[p].cmd = preq[p].cmd,
           \/ preq'[p] = preq[p]
           \/ preq'[p].pc \notin {"savePayment", "callPayconiq", "updatePayment"}
    PROVE  RowShapeOf(p)'
<1>1. payments'[p] # Null => payments'[p].type = preq'[p].cmd
  BY RowHasItsType
<1>2. CASE preq'[p].pc \notin {"savePayment", "callPayconiq", "updatePayment"}
  BY <1>1, <1>2 DEF RowShapeOf, PaymentAt
<1>3. CASE preq'[p] = preq[p]
  <2>0. RowShapeOf(p) /\ PaymentShapeOf(p) /\ p \in PaymentIds
    BY DEF RowInv, RowShape, IInv, PaymentShape, PaymentIds
  <2>1. ASSUME PaymentAt(p, {"PAYCONIQ"}, "savePayment")'
        PROVE  /\ preq'[p].data = "PENDING"
               /\ payconiq'[p] # Null /\ payconiq'[p].amount = preq'[p].total
    BY <1>3, <2>0, <2>1 DEF RowShapeOf, PaymentAt, MovesOn
  <2>2. ASSUME PaymentAt(p, {"CANCEL"}, "callPayconiq")' \/ PaymentAt(p, {"CANCEL"}, "updatePayment")'
        PROVE  payments'[preq'[p].payment].type = "PAYCONIQ"
    <3> DEFINE q == preq[p].payment
    <3>1. q \in PaymentIds /\ payments[q] # Null /\ payments[q].type = "PAYCONIQ"
      BY <1>3, <2>0, <2>2 DEF RowShapeOf, PaymentShapeOf, PaymentAt
    <3>2. payments[q] \in PaymentRow
      BY <3>1 DEF IInv, TypeOK, DatabaseTypeOK
    <3>3. payments'[q] = [payments[q] EXCEPT !.status = payments'[q].status,
                                             !.data = payments'[q].data]
      BY <3>1, RowStepKeepsPayments
    <3> QED
      BY <1>3, <3>1, <3>2, <3>3 DEF PaymentRow
  <2>3. ASSUME PaymentAt(p, {"CANCEL"}, "updatePayment")'
        PROVE  Confirmed(preq[p].payment, "CANCELLED")'
    <3>1. preq[p].payment \in PaymentIds /\ Confirmed(preq[p].payment, "CANCELLED")
      BY <1>3, <2>0, <2>3 DEF RowShapeOf, PaymentShapeOf, PaymentAt
    <3> QED
      BY <1>3, <3>1, ConfirmedForGood DEF Confirmed
  <2> QED
    BY <1>1, <1>3, <2>1, <2>2, <2>3 DEF RowShapeOf, Confirmed
<1> QED
  BY <1>2, <1>3

\* A step of one request leaves the shape of all others.
LEMMA OthersRowShapeKept ==
    ASSUME IInv, RowInv, RowStep, MovesOn, NEW p \in PaymentRequests, RowShapeOf(p)',
           \A q \in PaymentRequests : q # p => preq'[q] = preq[q]
    PROVE  RowShape'
BY RowShapeKept DEF RowShape

\* A step that leaves the requests alone leaves the shape of them all.
LEMMA AllRowShapesKept ==
    ASSUME IInv, RowInv, RowStep, MovesOn, UNCHANGED preq
    PROVE  RowShape'
BY RowShapeKept DEF RowShape

\* So does a request that ends.
LEMMA EndKeepsRowShape ==
    ASSUME IInv, RowInv, RowStep, MovesOn,
           NEW p \in PaymentRequests, NEW outcome \in EndPcs, PaymentEnd(p, outcome)
    PROVE  RowShape'
<1>1. /\ preq'[p].cmd = preq[p].cmd
      /\ preq'[p].pc \notin {"savePayment", "callPayconiq", "updatePayment"}
      /\ \A q \in PaymentRequests : q # p => preq'[q] = preq[q]
  BY DEF PaymentEnd, IInv, TypeOK, PaymentsTypeOK, PaymentRequest, EndPcs
<1> QED
  BY <1>1, RowShapeKept, OthersRowShapeKept

\* A request that goes on to a call: its command and the others stay.
LEMMA PaymentGoesOn ==
    ASSUME IInv, NEW p \in PaymentRequests, NEW pc, PaymentGoto(p, pc)
    PROVE  /\ preq'[p].pc = pc
           /\ preq'[p].cmd = preq[p].cmd /\ preq'[p].payment = preq[p].payment
           /\ \A q \in PaymentRequests : q # p => preq'[q] = preq[q]
BY DEF PaymentGoto, IInv, TypeOK, PaymentsTypeOK, PaymentRequest

\* A request that arrives has no payment yet.
LEMMA ReceiveKeepsRowShape ==
    ASSUME IInv, RowInv, RowStep, MovesOn,
           NEW p \in PaymentRequests, NEW request, request.pc = "find", PaymentReceive(p, request)
    PROVE  RowShape'
<1>1. /\ preq'[p].pc = "find" /\ payments[p] = Null /\ UNCHANGED payments
      /\ \A q \in PaymentRequests : q # p => preq'[q] = preq[q]
  BY DEF PaymentReceive, database, IInv, TypeOK, PaymentsTypeOK, PaymentShape,
     PaymentShapeOf
<1>2. RowShapeOf(p)'
  BY <1>1 DEF RowShapeOf, PaymentAt
<1> QED
  BY <1>1, <1>2, OthersRowShapeKept

LEMMA PaymentsReceiveKeepsRowShape ==
    ASSUME IInv, RowInv, RowStep, MovesOn, PaymentsReceive
    PROVE  RowShape'
<1> DEFINE creation(cmd, org, o) == [NoPaymentRequest EXCEPT
               !.cmd = cmd, !.pc = "find", !.organisation = org, !.order = o]
           cancellation(org, q) == [NoPaymentRequest EXCEPT
               !.cmd = "CANCEL", !.pc = "find", !.organisation = org, !.payment = q]
<1>1. PICK p \in PaymentRequests, org \in Organisations :
         \/ \E cmd \in PaymentTypes, o \in Known : PaymentReceive(p, creation(cmd, org, o))
         \/ \E q \in KnownPayments : PaymentReceive(p, cancellation(org, q))
  BY DEF PaymentsReceive
<1>2. ASSUME NEW cmd, NEW o
      PROVE  creation(cmd, org, o).pc = "find"
  BY DEF NoPaymentRequest
<1>3. ASSUME NEW q
      PROVE  cancellation(org, q).pc = "find"
  BY DEF NoPaymentRequest
<1> HIDE DEF creation, cancellation
<1> QED
  BY <1>1, <1>2, <1>3, ReceiveKeepsRowShape

\* Only a cash or free payment is saved without a call of Payconiq.
LEMMA CreatePaymentFindKeepsRowShape ==
    ASSUME IInv, RowInv, RowStep, MovesOn, NEW p \in PaymentRequests, CreatePaymentFind(p)
    PROVE  RowShape'
<1>1. CASE PaymentEnd(p, "rejected")
  BY <1>1, EndKeepsRowShape DEF EndPcs
<1>2. CASE preq' = [preq EXCEPT ![p] = [@ EXCEPT
               !.pc = FirstCall(preq[p].cmd), !.total = orders[preq[p].order].totalPrice]]
  <2>1. /\ preq'[p].pc = FirstCall(preq[p].cmd) /\ preq'[p].cmd = preq[p].cmd
        /\ \A q \in PaymentRequests : q # p => preq'[q] = preq[q]
    BY <1>2 DEF IInv, TypeOK, PaymentsTypeOK, PaymentRequest
  <2>2. payments'[p] # Null => payments'[p].type = preq'[p].cmd
    BY <2>1, RowHasItsType
  <2>3. RowShapeOf(p)'
    BY <2>1, <2>2 DEF RowShapeOf, PaymentAt, FirstCall, CreatePaymentFind, PaymentTypes
  <2> QED
    BY <2>1, <2>3, OthersRowShapeKept
<1> QED
  BY <1>1, <1>2 DEF CreatePaymentFind

\* What is saved is what Payconiq has been asked to charge.
LEMMA CreatePaymentCallPayconiqKeepsRowShape ==
    ASSUME IInv, RowInv, RowStep, MovesOn, NEW p \in PaymentRequests,
           CreatePaymentCallPayconiq(p)
    PROVE  RowShape'
<1>1. CASE PaymentEnd(p, "failed")
  BY <1>1, EndKeepsRowShape DEF EndPcs
<1>2. CASE preq' = [preq EXCEPT ![p] = [@ EXCEPT !.pc = "savePayment", !.data = "PENDING"]]
  <2>1. /\ preq'[p].data = "PENDING" /\ preq'[p].cmd = preq[p].cmd
        /\ preq'[p].pc = "savePayment" /\ preq'[p].total = preq[p].total
        /\ \A q \in PaymentRequests : q # p => preq'[q] = preq[q]
    BY <1>2 DEF IInv, TypeOK, PaymentsTypeOK, PaymentRequest
  <2>2. /\ p \in PaymentIds /\ preq[p].total \in 0 .. MaxInt
        /\ PayconiqCreate(p, preq[p].total) /\ preq[p].cmd = "PAYCONIQ"
    BY DEF CreatePaymentCallPayconiq, IInv, TypeOK, PaymentsTypeOK, PaymentRequest, PaymentShape,
       PaymentShapeOf, PaymentAt, PaymentIds
  <2>3. payconiq'[p] = [status |-> "PENDING", amount |-> preq[p].total]
    BY <2>2 DEF PayconiqCreate, IInv, TypeOK, PayconiqTypeOK
  <2>4. payconiq'[p] \in PayconiqRow /\ payconiq'[p].amount = preq[p].total
    BY <2>2, <2>3 DEF PayconiqRow, PayconiqStatuses
  <2>5. payments'[p] # Null => payments'[p].type = preq'[p].cmd
    BY <2>1, RowHasItsType
  <2>6. RowShapeOf(p)'
    BY <2>1, <2>2, <2>4, <2>5, PayconiqAssumption DEF RowShapeOf, PaymentAt
  <2> QED
    BY <2>1, <2>6, OthersRowShapeKept
<1> QED
  BY <1>1, <1>2 DEF CreatePaymentCallPayconiq

\* A cancellation is about a Payconiq payment.
LEMMA CancelFindKeepsRowShape ==
    ASSUME IInv, RowInv, RowStep, MovesOn, NEW p \in PaymentRequests, CancelFind(p)
    PROVE  RowShape'
<1>1. CASE PaymentEnd(p, "rejected")
  BY <1>1, EndKeepsRowShape DEF EndPcs
<1>2. CASE /\ PaymentGoto(p, "callPayconiq")
           /\ PayconiqPaymentFound(preq[p].payment, preq[p].organisation)
  <2>1. /\ preq'[p].pc = "callPayconiq" /\ preq'[p].cmd = preq[p].cmd
        /\ preq'[p].payment = preq[p].payment
        /\ \A q \in PaymentRequests : q # p => preq'[q] = preq[q]
    BY <1>2, PaymentGoesOn
  <2>2. payments'[p] # Null => payments'[p].type = preq'[p].cmd
    BY <2>1, RowHasItsType
  <2>3. payments'[preq'[p].payment].type = "PAYCONIQ"
    BY <1>2, <2>1 DEF CancelFind, PayconiqPaymentFound, database
  <2>4. RowShapeOf(p)'
    BY <2>1, <2>2, <2>3 DEF RowShapeOf, PaymentAt, CancelFind
  <2> QED
    BY <2>1, <2>4, OthersRowShapeKept
<1> QED
  BY <1>1, <1>2 DEF CancelFind

\* A payment that Payconiq cancels is confirmed to be cancelled.
LEMMA CancelConfirms ==
    ASSUME IInv, NEW q \in PaymentIds, PayconiqCancel(q)
    PROVE  Confirmed(q, "CANCELLED")'
<1>1. payconiq \in [PaymentIds -> PayconiqRow \cup {Null}] /\ payconiq[q] \in PayconiqRow
  BY DEF IInv, TypeOK, PayconiqTypeOK, PayconiqCancel, Unsettled
<1>2. payconiq'[q] = [payconiq[q] EXCEPT !.status = "CANCELLED"]
  BY <1>1 DEF PayconiqCancel
<1>3. payconiq'[q] \in PayconiqRow /\ payconiq'[q].status = "CANCELLED"
  BY <1>1, <1>2 DEF PayconiqRow, PayconiqStatuses
<1> QED
  BY <1>3, PayconiqAssumption DEF Confirmed

LEMMA CancelCallPayconiqKeepsRowShape ==
    ASSUME IInv, RowInv, RowStep, MovesOn, NEW p \in PaymentRequests, CancelCallPayconiq(p)
    PROVE  RowShape'
<1>0. PICK q \in PaymentIds : q = preq[p].payment
  BY DEF CancelCallPayconiq, IInv, PaymentShape, PaymentShapeOf, PaymentAt
<1>1. CASE PaymentEnd(p, "failed")
  BY <1>1, EndKeepsRowShape DEF EndPcs
<1>2. CASE PayconiqCancel(q) /\ PaymentGoto(p, "updatePayment")
  <2>1. /\ preq'[p].pc = "updatePayment" /\ preq'[p].cmd = preq[p].cmd
        /\ preq'[p].payment = q
        /\ \A s \in PaymentRequests : s # p => preq'[s] = preq[s]
    BY <1>0, <1>2, PaymentGoesOn
  <2>2. payments'[q].type = "PAYCONIQ" /\ preq[p].cmd = "CANCEL"
    BY <1>0 DEF CancelCallPayconiq, RowInv, RowShape, RowShapeOf, PaymentAt, database
  <2>3. payments'[p] # Null => payments'[p].type = preq'[p].cmd
    BY <2>1, RowHasItsType
  <2>4. Confirmed(q, "CANCELLED")'
    BY <1>2, CancelConfirms
  <2>5. Confirmed(preq[p].payment, "CANCELLED")'
    BY <2>1, <2>4 DEF Confirmed
  <2>6. RowShapeOf(p)'
    BY <2>1, <2>2, <2>3, <2>5 DEF RowShapeOf, PaymentAt
  <2> QED
    BY <2>1, <2>6, OthersRowShapeKept
<1> QED
  BY <1>0, <1>1, <1>2 DEF CancelCallPayconiq

LEMMA EveryStepKeepsRowShape ==
    ASSUME IInv, RowInv, RowStep, MovesOn, [Next]_vars
    PROVE  RowShape'
<1>1. ASSUME NEW p \in PaymentRequests, PaymentStep(p)
      PROVE  RowShape'
  <2>1. CASE CreatePaymentSave(p)
    <3>1. CASE PaymentEnd(p, "failed")
      BY <3>1, EndKeepsRowShape DEF EndPcs
    <3>2. ASSUME NEW pc \in {"fetchPayconiq", "finishOrder"}, PaymentGoto(p, pc)
          PROVE  RowShape'
      BY <3>2, PaymentGoesOn, RowShapeKept, OthersRowShapeKept
    <3> QED
      BY <2>1, <3>1, <3>2 DEF CreatePaymentSave
  <2>2. CASE CreatePaymentFinishOrder(p) \/ CancelUpdatePayment(p) \/ PayconiqRespond(p)
    <3>1. PICK outcome \in EndPcs : PaymentEnd(p, outcome)
      BY <2>2 DEF CreatePaymentFinishOrder, CancelUpdatePayment, PayconiqRespond, EndPcs
    <3> QED
      BY <3>1, EndKeepsRowShape
  <2> QED
    BY <1>1, <2>1, <2>2, CreatePaymentFindKeepsRowShape, CreatePaymentCallPayconiqKeepsRowShape,
       CancelFindKeepsRowShape, CancelCallPayconiqKeepsRowShape DEF PaymentStep
<1>2. CASE UNCHANGED preq
  BY <1>2, AllRowShapesKept
<1>3. CASE Receives
  BY <1>2, <1>3, PaymentsReceiveKeepsRowShape DEF Receives
<1>4. CASE Steps
  BY <1>1, <1>2, <1>4 DEF Steps
<1>5. CASE Aborts
  <2>1. ASSUME NEW p \in PaymentRequests, PaymentAbort(p)
        PROVE  RowShape'
    BY <2>1, EndKeepsRowShape DEF PaymentAbort, EndPcs
  <2> QED
    BY <1>2, <1>5, <2>1 DEF Aborts
<1>6. CASE PayconiqMoves \/ UNCHANGED vars
  BY <1>2, <1>6 DEF PayconiqMoves, vars
<1> QED
  BY <1>3, <1>4, <1>5, <1>6 DEF Next

-----------------------------------------------------------------------------
(* The callbacks.                                                            *)

\* A callback that was true stays true.
LEMMA AnnouncedForGood ==
    ASSUME MovesOn, NEW callback \in Callback, Announced(callback)
    PROVE  Announced(callback)'
<1> DEFINE q == InternalPaymentIdFromReference(callback.reference)
<1>1. q \in PaymentIds
  BY DEF Callback, References, InternalPaymentIdFromReference, ReferenceFromInternalPaymentId
<1> QED
  BY <1>1, ConfirmedForGood DEF Announced

\* Callbacks and deliveries that say nothing new.
LEMMA AnnouncementsKept ==
    ASSUME IInv, RowInv, MovesOn,
           \A callback \in callbacks' : callback \in callbacks \/ Announced(callback)',
           \A d \in Deliveries : hreq'[d].pc # "idle" =>
               \/ hreq[d].pc # "idle" /\ hreq'[d].callback = hreq[d].callback
               \/ hreq'[d].callback \in callbacks
    PROVE  Announcements'
<1>1. ASSUME NEW callback \in callbacks
      PROVE  Announced(callback)'
  BY AnnouncedForGood DEF IInv, TypeOK, PayconiqTypeOK, RowInv, Announcements
<1>2. ASSUME NEW d \in Deliveries, hreq[d].pc # "idle"
      PROVE  hreq[d].callback \in Callback /\ Announced(hreq[d].callback)
  BY <1>2 DEF IInv, WebhookShape, RowInv, Announcements
<1>3. ASSUME NEW d \in Deliveries, hreq'[d].pc # "idle"
      PROVE  Announced(hreq[d].callback)'
  <2>1. PICK callback \in Callback : callback = hreq'[d].callback /\ Announced(callback)
    BY <1>2, <1>3 DEF IInv, TypeOK, PayconiqTypeOK, RowInv, Announcements
  <2>2. Announced(callback)'
    BY <2>1, AnnouncedForGood
  <2> QED
    BY <2>1, <2>2 DEF Announced
<1> QED
  BY <1>1, <1>3 DEF Announcements

\* No delivery: only callbacks may be new.
LEMMA NoDeliveryAnnounces ==
    ASSUME IInv, RowInv, MovesOn, UNCHANGED hreq,
           \A callback \in callbacks' : callback \in callbacks \/ Announced(callback)'
    PROVE  Announcements'
BY AnnouncementsKept

\* What Payconiq announces is so.
LEMMA AnnounceSaysSo ==
    ASSUME NEW p \in PaymentIds, NEW status, Announce(p, status), Confirmed(p, status)'
    PROVE  \A callback \in callbacks' : callback \in callbacks \/ Announced(callback)'
<1> DEFINE new == [reference |-> ReferenceFromInternalPaymentId(p), status |-> status]
<1>1. InternalPaymentIdFromReference(new.reference) = p /\ new.status = status
  BY DEF InternalPaymentIdFromReference, ReferenceFromInternalPaymentId
<1>2. callbacks' = callbacks \cup {new}
  BY DEF Announce
<1> HIDE DEF new
<1> QED
  BY <1>1, <1>2 DEF Announced

LEMMA PayconiqMoveConfirms ==
    ASSUME IInv, NEW p \in PaymentIds, NEW status \in PayconiqStatuses, PayconiqMove(p, status)
    PROVE  Confirmed(p, status)'
<1>1. payconiq \in [PaymentIds -> PayconiqRow \cup {Null}] /\ payconiq[p] \in PayconiqRow
  BY DEF IInv, TypeOK, PayconiqTypeOK, PayconiqMove, Unsettled
<1>2. payconiq'[p] = [payconiq[p] EXCEPT !.status = status]
  BY <1>1 DEF PayconiqMove
<1>3. payconiq'[p] \in PayconiqRow /\ payconiq'[p].status = status
  BY <1>1, <1>2 DEF PayconiqRow
<1> QED
  BY <1>3, PayconiqAssumption DEF Confirmed

LEMMA EveryStepKeepsAnnouncements ==
    ASSUME IInv, RowInv, MovesOn, [Next]_vars
    PROVE  Announcements'
<1>1. CASE UNCHANGED <<hreq, callbacks>>
  BY <1>1, NoDeliveryAnnounces
<1>2. ASSUME NEW p \in PaymentRequests, PaymentStep(p), UNCHANGED hreq
      PROVE  Announcements'
  <2>1. CASE CancelCallPayconiq(p) /\ PayconiqCancel(preq[p].payment)
    <3>1. PICK q \in PaymentIds : q = preq[p].payment
      BY <2>1 DEF CancelCallPayconiq, IInv, PaymentShape, PaymentShapeOf, PaymentAt
    <3>2. Confirmed(q, "CANCELLED")' /\ Announce(q, "CANCELLED")
      BY <2>1, <3>1, CancelConfirms DEF PayconiqCancel
    <3> QED
      BY <1>2, <3>2, AnnounceSaysSo, NoDeliveryAnnounces
  <2>2. CASE ~(CancelCallPayconiq(p) /\ PayconiqCancel(preq[p].payment))
    <3>1. UNCHANGED callbacks
      BY <1>2, <2>2 DEF PaymentStep, CreatePaymentFind, CreatePaymentCallPayconiq,
         CreatePaymentSave, CreatePaymentFinishOrder, PayconiqRespond, CancelFind,
         CancelCallPayconiq, CancelUpdatePayment, PayconiqCreate, payconiqVars
    <3> QED
      BY <1>1, <1>2, <3>1
  <2> QED
    BY <2>1, <2>2
<1>3. ASSUME NEW d \in Deliveries, UNCHANGED callbacks,
             \/ WebhookStep(d)
             \/ WebhookAbort(d)
             \/ \E callback \in callbacks : WebhookReceive(d, callback)
      PROVE  Announcements'
  <2>1. hreq \in [Deliveries -> Delivery] /\ hreq[d] \in Delivery
    BY DEF IInv, TypeOK, WebhooksTypeOK
  <2>2. \A c \in Deliveries : c # d => hreq'[c] = hreq[c]
    BY <1>3, <2>1 DEF WebhookStep, WebhookFind, WebhookUpdatePayment, WebhookFinishOrder,
       WebhookAbort, WebhookReceive, WebhookGoto
  <2>3. \/ hreq[d].pc # "idle" /\ hreq'[d].callback = hreq[d].callback
        \/ hreq'[d].callback \in callbacks
    <3>1. ASSUME NEW pc, WebhookGoto(d, pc)
          PROVE  hreq'[d].callback = hreq[d].callback
      BY <2>1, <3>1 DEF WebhookGoto, Delivery
    <3>2. CASE WebhookFind(d)
      <4>1. hreq' = [hreq EXCEPT ![d] = [@ EXCEPT !.pc = "updatePayment",
                          !.order = payments[DeliveredPayment(d)].order]]
               => hreq'[d].callback = hreq[d].callback
        BY <2>1 DEF Delivery
      <4> QED
        BY <3>1, <3>2, <4>1 DEF WebhookFind
    <3>3. CASE WebhookUpdatePayment(d) \/ WebhookFinishOrder(d) \/ WebhookAbort(d)
      BY <3>1, <3>3 DEF WebhookUpdatePayment, WebhookFinishOrder, WebhookAbort, WebhookOpenPcs
    <3>4. ASSUME NEW callback \in callbacks, WebhookReceive(d, callback)
          PROVE  hreq'[d].callback = callback
      BY <2>1, <3>4 DEF WebhookReceive, Delivery
    <3> QED
      BY <1>3, <3>2, <3>3, <3>4 DEF WebhookStep
  <2> QED
    BY <1>3, <2>2, <2>3, AnnouncementsKept
<1>4. CASE Receives
  BY <1>1, <1>3, <1>4 DEF Receives, PaymentsReceive, PaymentReceive, WebhooksReceive,
     WebhookReceive, payconiqVars
<1>5. CASE Steps
  BY <1>1, <1>2, <1>3, <1>5 DEF Steps, WebhookStep, WebhookFind, WebhookUpdatePayment,
     WebhookFinishOrder, payconiqVars
<1>6. CASE Aborts
  BY <1>1, <1>3, <1>6 DEF Aborts, PaymentAbort, WebhookAbort, payconiqVars
<1>7. CASE PayconiqMoves
  <2>1. PICK p \in PaymentIds, status \in Progress : PayconiqMove(p, status)
    BY <1>7 DEF PayconiqMoves
  <2>2. Confirmed(p, status)' /\ Announce(p, status)
    BY <2>1, TapappAssumption, PayconiqMoveConfirms DEF PayconiqMove
  <2> QED
    BY <1>7, <2>2, AnnounceSaysSo, NoDeliveryAnnounces DEF PayconiqMoves
<1>8. CASE UNCHANGED vars
  BY <1>1, <1>8 DEF vars
<1> QED
  BY <1>4, <1>5, <1>6, <1>7, <1>8 DEF Next

-----------------------------------------------------------------------------
(* The theorems.                                                             *)

LEMMA InitRowInv == Init => RowInv
BY DEF Init, DatabaseInit, PaymentsInit, NoPaymentRequest, WebhooksInit, NoDelivery, PayconiqInit,
   RowInv, Announcements, RowShape, RowShapeOf, PaymentAt, RowAgreesWithPayconiq, PaymentIds

LEMMA NextKeepsRowInv == IInv /\ RowInv /\ [Next]_vars => RowInv'
<1> SUFFICES ASSUME IInv, RowInv, [Next]_vars
             PROVE  RowInv'
  OBVIOUS
<1>1. MovesOn /\ RowStep
  BY PayconiqOnlyMovesOn, EveryStepIsRowStep
<1> QED
  BY <1>1, RowStepKeepsRowAgrees, EveryStepKeepsRowShape, EveryStepKeepsAnnouncements DEF RowInv

\* Whatever overlaps, arrives late, twice or never, and whatever fails, what is
\* known of each payment is what RowInv says.
THEOREM RowInvariantHolds == Spec => []RowInv
BY InvariantHolds, InitRowInv, NextKeepsRowInv, PTL DEF Spec

\* A payment row never says anything of the end of a Payconiq payment, or of
\* its amount, that Payconiq does not say.
THEOREM RowAgreesAlways == Spec => []RowAgreesWithPayconiq
<1>1. RowInv => RowAgreesWithPayconiq
  BY DEF RowInv
<1> QED
  BY <1>1, RowInvariantHolds, PTL

\* No step removes a payment or changes more of one than the outcome of a
\* Payconiq payment.
THEOREM PaymentsAreKeptAlways == Spec => PaymentsAreKept
<1> DEFINE Kept == \A p \in PaymentIds : payments[p] # Null =>
              /\ payments'[p] # Null
              /\ payments'[p] = [payments[p] EXCEPT !.status = payments'[p].status,
                                                    !.data = payments'[p].data]
              /\ payments[p].type # "PAYCONIQ" => payments'[p] = payments[p]
<1>1. IInv /\ RowInv /\ [Next]_vars => Kept
  BY EveryStepIsRowStep, RowStepKeepsPayments
<1>2. PaymentsAreKept <=> [][Kept]_vars
  BY DEF PaymentsAreKept
<1> QED
  BY <1>1, <1>2, InvariantHolds, RowInvariantHolds, PTL DEF Spec

-----------------------------------------------------------------------------
(* The refinement of Ledger.                                                 *)

LedgerStep == PromisedLedger!Next \/ UNCHANGED <<Stored, Finished, Pays, SettledPayments>>

-----------------------------------------------------------------------------
(* What each kind of write is to the ledger.                                 *)

\* A step that writes no order, no payment and nothing at Payconiq.
LEMMA NoWriteIsStutter ==
    ASSUME UNCHANGED <<orders, payments, payconiq>>
    PROVE  LedgerStep
BY DEF LedgerStep, Stored, Finished, Pays, SettledPayments, Settled, PaidAtPayconiq

\* Payments and Payconiq as they were.
LEMMA PaymentsAsTheyWere ==
    ASSUME UNCHANGED <<payments, payconiq>>
    PROVE  UNCHANGED <<Pays, SettledPayments>>
BY DEF Pays, SettledPayments, Settled, PaidAtPayconiq

\* An unfinished row is written: a new order, one that is opened again, or one
\* that is unfinished already.
LEMMA WriteUnfinished ==
    ASSUME IInv, NEW o \in OrderIds, NEW row, row # Null, ~row.isFinished,
           orders' = [orders EXCEPT ![o] = row],
           UNCHANGED <<payments, payconiq>>
    PROVE  LedgerStep
<1>1. orders \in [OrderIds -> OrderRow \cup {Null}]
  BY DEF IInv, TypeOK, DatabaseTypeOK
<1>2. Stored' = Stored \cup {o}
  BY <1>1 DEF Stored
<1>3. Finished' = Finished \ {o}
  BY <1>1 DEF Finished
<1>4. UNCHANGED <<Pays, SettledPayments>>
  BY PaymentsAsTheyWere
<1>5. Finished \subseteq Stored
  BY DEF Finished, Stored
<1>6. CASE o \notin Stored
  BY <1>2, <1>3, <1>4, <1>5, <1>6 DEF LedgerStep, PromisedLedger!Next, PromisedLedger!Place
<1>7. CASE o \in Finished
  BY <1>2, <1>3, <1>4, <1>5, <1>7 DEF LedgerStep, PromisedLedger!Next, PromisedLedger!Reopen
<1>8. CASE o \in Stored \ Finished
  BY <1>2, <1>3, <1>4, <1>8 DEF LedgerStep
<1> QED
  BY <1>5, <1>6, <1>7, <1>8

\* An order that nothing refers to is deleted: it is not finished, for it would
\* have a payment.
LEMMA DeleteUnreferenced ==
    ASSUME IInv, NEW o \in OrderIds, PaymentsOf(o) = {}, DeleteOrder(o),
           UNCHANGED <<payments, payconiq>>
    PROVE  LedgerStep
<1>1. orders \in [OrderIds -> OrderRow \cup {Null}]
  BY DEF IInv, TypeOK, DatabaseTypeOK
<1>2. Stored' = Stored \ {o}
  BY <1>1 DEF Stored, DeleteOrder
<1>3. o \notin Finished
  BY DEF Finished, IInv, FinishedIsPaid
<1>4. Finished' = Finished
  BY <1>1, <1>3 DEF Finished, DeleteOrder
<1>5. UNCHANGED <<Pays, SettledPayments>>
  BY PaymentsAsTheyWere
<1>6. Null \notin OrderIds
  BY NullAssumption
<1>7. \A p \in PaymentIds : Pays[p] # o
  BY <1>6 DEF Pays, PaymentsOf
<1>8. CASE o \in Stored
  BY <1>2, <1>3, <1>4, <1>5, <1>7, <1>8 DEF LedgerStep, PromisedLedger!Next, PromisedLedger!Delete
<1>9. CASE o \notin Stored
  BY <1>2, <1>4, <1>5, <1>9 DEF LedgerStep
<1> QED
  BY <1>8, <1>9

\* An order is marked as finished by a settled payment of its own.
LEMMA FinishByPayment ==
    ASSUME IInv, NEW o \in OrderIds, NEW p \in PaymentsOf(o), Settled(p),
           FinishOrder(o), UNCHANGED <<payments, payconiq>>
    PROVE  LedgerStep
<1>1. orders \in [OrderIds -> OrderRow \cup {Null}] /\ Null \notin OrderRow
  BY NullAssumption DEF IInv, TypeOK, DatabaseTypeOK
<1>2. p \in PaymentIds /\ payments[p] # Null /\ payments[p].order = o
  BY DEF PaymentsOf
<1>3. orders[o] # Null /\ orders[o] \in OrderRow
  BY <1>1, <1>2 DEF IInv, PaymentHasOrder
<1>4. /\ orders' = [orders EXCEPT ![o] = [@ EXCEPT !.isFinished = TRUE]]
      /\ [orders[o] EXCEPT !.isFinished = TRUE] \in OrderRow
      /\ [orders[o] EXCEPT !.isFinished = TRUE].isFinished
  BY <1>3 DEF FinishOrder, OrderRow
<1>5. Stored' = Stored
  BY <1>1, <1>3, <1>4 DEF Stored
<1>6. Finished' = Finished \cup {o}
  BY <1>1, <1>3, <1>4 DEF Finished
<1>7. UNCHANGED <<Pays, SettledPayments>>
  BY PaymentsAsTheyWere
<1>8. p \in SettledPayments /\ Pays[p] = o /\ o \in Stored
  BY <1>2, <1>3 DEF SettledPayments, Pays, Stored
<1>9. CASE o \in Finished
  BY <1>5, <1>6, <1>7, <1>9 DEF LedgerStep
<1>10. CASE o \notin Finished
  BY <1>5, <1>6, <1>7, <1>8, <1>10 DEF LedgerStep, PromisedLedger!Next, PromisedLedger!Finish
<1> QED
  BY <1>9, <1>10

\* A payment is saved for the first time, for an order that exists.
LEMMA RegisterNew ==
    ASSUME IInv, NEW p \in PaymentIds, NEW row \in PaymentRow, payments[p] = Null,
           orders[row.order] # Null, InsertPayment(p, row), UNCHANGED <<orders, payconiq>>
    PROVE  LedgerStep
<1>1. payments \in [PaymentIds -> PaymentRow \cup {Null}] /\ row # Null
  BY NullAssumption DEF IInv, TypeOK, DatabaseTypeOK
<1>2. row.order \in OrderIds /\ row.order \in Stored
  BY DEF PaymentRow, Stored
<1>3. UNCHANGED <<Stored, Finished>>
  BY DEF Stored, Finished
<1>4. Pays[p] = Null /\ Pays' = [Pays EXCEPT ![p] = row.order]
  BY <1>1 DEF Pays, InsertPayment
<1>5. \A q \in PaymentIds : q # p => (Settled(q)' <=> Settled(q))
  BY <1>1 DEF Settled, InsertPayment, PaidAtPayconiq
<1>6. SettledPayments' \in {SettledPayments, SettledPayments \cup {p}}
  <2>1. Settled(p) => Settled(p)'
    BY <1>1 DEF Settled, PaidAtPayconiq
  <2>2. CASE Settled(p)' /\ ~Settled(p)
    BY <1>5, <2>2 DEF SettledPayments
  <2>3. CASE Settled(p)' <=> Settled(p)
    BY <1>5, <2>3 DEF SettledPayments
  <2> QED
    BY <2>1, <2>2, <2>3
<1> QED
  BY <1>2, <1>3, <1>4, <1>6 DEF LedgerStep, PromisedLedger!Next, PromisedLedger!Register

\* A payment that is updated keeps its order and its type.
LEMMA UpdateIsStutter ==
    ASSUME IInv, NEW p \in PaymentIds, payments[p] # Null, NEW status \in PaymentStatuses,
           NEW data \in PayconiqStatuses, UpdatePayment(p, status, data),
           UNCHANGED <<orders, payconiq>>
    PROVE  LedgerStep
<1>1. PaymentsPersist /\ \A q \in PaymentIds : payments[q] = Null => payments'[q] = Null
  BY UpdatePaymentKeeps
<1>2. UNCHANGED <<Stored, Finished>>
  BY DEF Stored, Finished
<1>3. Pays' = Pays
  BY <1>1 DEF Pays, PaymentsPersist
<1>4. \A q \in PaymentIds : Settled(q)' <=> Settled(q)
  BY <1>1 DEF Settled, PaidAtPayconiq, PaymentsPersist
<1>5. SettledPayments' = SettledPayments
  BY <1>4 DEF SettledPayments
<1> QED
  BY <1>2, <1>3, <1>5 DEF LedgerStep

\* At Payconiq a payment is created or changes its status: it may be settled,
\* it is never unsettled.
LEMMA PayconiqSettlesOne ==
    ASSUME IInv, NEW p \in PaymentIds, NEW row \in PayconiqRow,
           payconiq[p] = Null \/ payconiq[p].status # "SUCCEEDED",
           payconiq' = [payconiq EXCEPT ![p] = row], UNCHANGED <<orders, payments>>
    PROVE  LedgerStep
<1>1. payconiq \in [PaymentIds -> PayconiqRow \cup {Null}] /\ row # Null
  BY PayconiqAssumption DEF IInv, TypeOK, PayconiqTypeOK
<1>2. UNCHANGED <<Stored, Finished, Pays>>
  BY DEF Stored, Finished, Pays
<1>3. \A q \in PaymentIds : q # p => (Settled(q)' <=> Settled(q))
  BY <1>1 DEF Settled, PaidAtPayconiq
<1>4. Settled(p) => Settled(p)'
  BY DEF Settled, PaidAtPayconiq
<1>5. CASE Settled(p)' /\ ~Settled(p)
  <2>1. SettledPayments' = SettledPayments \cup {p} /\ p \notin SettledPayments
    BY <1>3, <1>5 DEF SettledPayments
  <2> QED
    BY <1>2, <2>1 DEF LedgerStep, PromisedLedger!Next, PromisedLedger!Settle
<1>6. CASE Settled(p)' <=> Settled(p)
  <2>1. SettledPayments' = SettledPayments
    BY <1>3, <1>6 DEF SettledPayments
  <2> QED
    BY <1>2, <2>1 DEF LedgerStep
<1> QED
  BY <1>4, <1>5, <1>6

-----------------------------------------------------------------------------
(* The handlers and Payconiq.                                                *)

\* A new order is not finished.
LEMMA CreateSaveOrderIsLedgerStep ==
    ASSUME IInv, NEW r \in OrderRequests, CreateSaveOrder(r), UNCHANGED payconiqVars
    PROVE  LedgerStep
<1> DEFINE total == TotalPrice(oreq[r].lines)
           row == [clientName |-> oreq[r].clientName, totalPrice |-> total,
                   isFinished |-> FALSE, organisation |-> oreq[r].organisation]
<1>1. UNCHANGED <<payments, payconiq>> /\ r \in OrderIds
  BY DEF CreateSaveOrder, payconiqVars, OrderIds
<1>2. CASE Storable(total)
  <2>1. orders' = [orders EXCEPT ![r] = row]
    BY <1>2 DEF CreateSaveOrder, InsertOrder
  <2>2. oreq[r] \in OrderRequest /\ total \in 0 .. MaxInt
    BY <1>2 DEF IInv, TypeOK, OrdersTypeOK, Storable
  <2> HIDE DEF total
  <2>3. row \in OrderRow /\ ~row.isFinished
    BY <2>2 DEF OrderRequest, OrderRow
  <2> HIDE DEF row
  <2>4. row # Null
    BY <2>3, NullAssumption
  <2> QED
    BY <1>1, <2>1, <2>3, <2>4, WriteUnfinished
<1>3. CASE ~Storable(total)
  BY <1>1, <1>3, NoWriteIsStutter DEF CreateSaveOrder
<1> QED
  BY <1>2, <1>3

\* An update saves the row it has loaded, which was not finished.
LEMMA UpdateSaveOrderIsLedgerStep ==
    ASSUME IInv, NEW r \in OrderRequests, UpdateSaveOrder(r), UNCHANGED payconiqVars
    PROVE  LedgerStep
<1> DEFINE o == oreq[r].order
           total == TotalPrice(oreq[r].lines)
           name == IF oreq[r].clientName # Null THEN oreq[r].clientName
                   ELSE oreq[r].row.clientName
           org == IF orders[o] = Null THEN Null ELSE orders[o].organisation
           row == [oreq[r].row EXCEPT !.clientName = name, !.totalPrice = total]
           saved == [row EXCEPT !.organisation = org]
<1>1. /\ oreq[r] \in OrderRequest /\ o \in OrderIds /\ oreq[r].row # Null
      /\ ~oreq[r].row.isFinished /\ UNCHANGED <<payments, payconiq>>
  BY DEF IInv, TypeOK, OrdersTypeOK, OrderShape, UpdateSaveOrder, At, payconiqVars
<1>2. CASE Storable(total)
  <2>1. orders' = [orders EXCEPT ![o] = saved]
    BY <1>2 DEF UpdateSaveOrder, SaveLoadedOrder
  <2>2. /\ oreq[r].row \in OrderRow /\ name \in ClientNames \cup {Null}
        /\ org \in Organisations \cup {Null}
    BY <1>1 DEF OrderRequest, OrderRow, IInv, TypeOK, DatabaseTypeOK
  <2>3. total \in 0 .. MaxInt
    BY <1>2 DEF Storable
  <2> HIDE DEF total, name, org
  <2>4. saved \in OrderRow /\ ~saved.isFinished
    BY <1>1, <2>2, <2>3 DEF OrderRow
  <2> HIDE DEF saved
  <2>5. saved # Null
    BY <2>4, NullAssumption
  <2> QED
    BY <1>1, <2>1, <2>4, <2>5, WriteUnfinished
<1>3. CASE ~Storable(total)
  BY <1>1, <1>3, NoWriteIsStutter DEF UpdateSaveOrder
<1> QED
  BY <1>2, <1>3

\* Every other step of an orders handler but the deletion leaves orders alone.
LEMMA OrderStepIsLedgerStep ==
    ASSUME IInv, NEW r \in OrderRequests, OrderStep(r), UNCHANGED payconiqVars
    PROVE  LedgerStep
<1>1. CASE CreateSaveOrder(r)
  BY <1>1, CreateSaveOrderIsLedgerStep
<1>2. CASE UpdateSaveOrder(r)
  BY <1>2, UpdateSaveOrderIsLedgerStep
<1>3. CASE DeleteDeleteOrder(r)
  <2>1. UNCHANGED <<payments, payconiq>> /\ oreq[r].order \in OrderIds
    BY <1>3 DEF DeleteDeleteOrder, payconiqVars, IInv, OrderShape, At
  <2>2. CASE Referenced(oreq[r].order)
    BY <1>3, <2>1, <2>2, NoWriteIsStutter DEF DeleteDeleteOrder
  <2>3. CASE ~Referenced(oreq[r].order)
    BY <1>3, <2>1, <2>3, DeleteUnreferenced DEF DeleteDeleteOrder, Referenced
  <2> QED
    BY <2>2, <2>3
<1>4. CASE ~(CreateSaveOrder(r) \/ UpdateSaveOrder(r) \/ DeleteDeleteOrder(r))
  <2>1. UNCHANGED <<orders, payments, payconiq>>
    BY <1>4 DEF OrderStep, CreateCheck, CreateSaveItems, UpdateFind, UpdateCheck,
       UpdateDeleteItems, UpdateCreateItems, UpdateFindItems, UpdateSaveItems, DeleteFind,
       DeleteDeleteItems, Respond, database, payconiqVars
  <2> QED
    BY <2>1, NoWriteIsStutter
<1> QED
  BY <1>1, <1>2, <1>3, <1>4

\* A payment that is saved is registered, for its order has been found.
LEMMA CreatePaymentSaveIsLedgerStep ==
    ASSUME IInv, NEW p \in PaymentRequests, CreatePaymentSave(p)
    PROVE  LedgerStep
<1> DEFINE status == IF preq[p].cmd = "PAYCONIQ" THEN PaymentStatusFrom(preq[p].data)
                     ELSE "SUCCEEDED"
           row == [amount |-> preq[p].total, type |-> preq[p].cmd, status |-> status,
                   data |-> preq[p].data, order |-> preq[p].order,
                   organisation |-> preq[p].organisation]
<1>1. /\ preq[p] \in PaymentRequest /\ PaymentShapeOf(p) /\ preq[p].pc = "savePayment"
      /\ preq[p].cmd \in PaymentTypes /\ p \in PaymentIds
      /\ UNCHANGED <<orders, payconiq>>
  BY DEF IInv, TypeOK, PaymentsTypeOK, PaymentShape, CreatePaymentSave, PaymentAt, PaymentIds,
     payconiqVars
<1>2. /\ preq[p].total \in 0 .. MaxInt /\ payments[p] = Null /\ preq[p].order \in OrderIds
      /\ preq[p].organisation \in Organisations
      /\ preq[p].cmd = "PAYCONIQ" => preq[p].data \in PayconiqStatuses
      /\ preq[p].data \in PayconiqStatuses \cup {Null}
  BY <1>1 DEF PaymentShapeOf, PaymentAt, PaymentRequest
<1>3. CASE OrderExists(preq[p].order)
  <2>1. InsertPayment(p, row)
    BY <1>3 DEF CreatePaymentSave
  <2>2. status \in PaymentStatuses
    BY <1>2, PaymentStatusFromType DEF PaymentStatuses
  <2> HIDE DEF status
  <2>3. row \in PaymentRow /\ row.order = preq[p].order
    BY <1>1, <1>2, <2>2 DEF PaymentRow
  <2> HIDE DEF row
  <2> QED
    BY <1>1, <1>2, <1>3, <2>1, <2>3, RegisterNew DEF OrderExists
<1>4. CASE ~OrderExists(preq[p].order)
  BY <1>1, <1>4, NoWriteIsStutter DEF CreatePaymentSave
<1> QED
  BY <1>3, <1>4

\* Cancelling at Payconiq settles nothing.
LEMMA PayconiqCancelIsLedgerStep ==
    ASSUME IInv, NEW q \in PaymentIds, PayconiqCancel(q), UNCHANGED database
    PROVE  LedgerStep
<1> DEFINE row == [payconiq[q] EXCEPT !.status = "CANCELLED"]
<1>1. /\ payconiq[q] \in PayconiqRow /\ payconiq[q].status # "SUCCEEDED"
  BY DEF IInv, TypeOK, PayconiqTypeOK, PayconiqCancel, Unsettled, PaymentStatusFrom
<1>2. row \in PayconiqRow
  BY <1>1 DEF PayconiqRow, PayconiqStatuses
<1>3. payconiq' = [payconiq EXCEPT ![q] = row]
  BY DEF PayconiqCancel
<1> QED
  BY <1>1, <1>2, <1>3, PayconiqSettlesOne DEF database

\* A step of a payments handler.
LEMMA PaymentStepIsLedgerStep ==
    ASSUME IInv, NEW p \in PaymentRequests, PaymentStep(p)
    PROVE  LedgerStep
<1>0. preq[p] \in PaymentRequest /\ PaymentShapeOf(p) /\ p \in PaymentIds
  BY DEF IInv, TypeOK, PaymentsTypeOK, PaymentShape, PaymentIds
<1>1. CASE CreatePaymentCallPayconiq(p)
  <2> DEFINE row == [status |-> "PENDING", amount |-> preq[p].total]
  <2>1. /\ preq[p].total \in 0 .. MaxInt /\ payconiq[p] = Null /\ UNCHANGED database
        /\ PayconiqCreate(p, preq[p].total)
    BY <1>0, <1>1 DEF CreatePaymentCallPayconiq, PaymentShapeOf, PaymentAt, PaymentRequest
  <2>2. row \in PayconiqRow /\ payconiq' = [payconiq EXCEPT ![p] = row]
    BY <2>1 DEF PayconiqRow, PayconiqStatuses, PayconiqCreate
  <2> QED
    BY <1>0, <2>1, <2>2, PayconiqSettlesOne DEF database
<1>2. CASE CreatePaymentSave(p)
  BY <1>2, CreatePaymentSaveIsLedgerStep
<1>3. CASE CreatePaymentFinishOrder(p)
  <2>1. /\ FinishOrder(preq[p].order) /\ UNCHANGED <<payments, payconiq>>
        /\ preq[p].order \in OrderIds /\ p \in PaymentsOf(preq[p].order)
        /\ payments[p].type \in {"CASH", "FREE"}
    BY <1>0, <1>3 DEF CreatePaymentFinishOrder, PaymentAt, PaymentShapeOf, PaymentTypes,
       payconiqVars
  <2>2. Settled(p)
    BY <2>1 DEF Settled, PaymentsOf
  <2> QED
    BY <2>1, <2>2, FinishByPayment
<1>4. CASE CancelCallPayconiq(p)
  <2>1. CASE PayconiqCancel(preq[p].payment)
    <3>1. preq[p].payment \in PaymentIds /\ UNCHANGED database
      BY <1>0, <1>4 DEF CancelCallPayconiq, PaymentAt, PaymentShapeOf
    <3> QED
      BY <2>1, <3>1, PayconiqCancelIsLedgerStep
  <2>2. CASE UNCHANGED payconiqVars
    BY <1>4, <2>2, NoWriteIsStutter DEF CancelCallPayconiq, database, payconiqVars
  <2> QED
    BY <1>4, <2>1, <2>2 DEF CancelCallPayconiq
<1>5. CASE CancelUpdatePayment(p)
  <2>1. /\ preq[p].payment \in PaymentIds /\ payments[preq[p].payment] # Null
        /\ UpdatePayment(preq[p].payment, "CANCELLED", "CANCELLED")
        /\ UNCHANGED <<orders, payconiq>>
    BY <1>0, <1>5 DEF CancelUpdatePayment, PaymentAt, PaymentShapeOf, payconiqVars
  <2> QED
    BY <2>1, UpdateIsStutter DEF PaymentStatuses, PayconiqStatuses
<1>6. CASE CreatePaymentFind(p) \/ PayconiqRespond(p) \/ CancelFind(p)
  <2>1. UNCHANGED <<orders, payments, payconiq>>
    BY <1>6 DEF CreatePaymentFind, PayconiqRespond, CancelFind, database, payconiqVars
  <2> QED
    BY <2>1, NoWriteIsStutter
<1> QED
  BY <1>1, <1>2, <1>3, <1>4, <1>5, <1>6 DEF PaymentStep

\* A step of a webhook handler: the callback it works for is true.
LEMMA WebhookStepIsLedgerStep ==
    ASSUME IInv, NEW d \in Deliveries, WebhookStep(d)
    PROVE  LedgerStep
<1> DEFINE q == DeliveredPayment(d)
<1>1. CASE WebhookFind(d)
  BY <1>1, NoWriteIsStutter DEF WebhookFind, database, payconiqVars
<1>2. CASE WebhookUpdatePayment(d)
  <2>1. /\ hreq[d].callback \in Callback /\ q \in PaymentsOf(hreq[d].order)
        /\ UpdatePayment(q, DeliveredStatus(d), hreq[d].callback.status)
        /\ UNCHANGED <<orders, payconiq>>
    BY <1>2 DEF WebhookUpdatePayment, IInv, WebhookShape, payconiqVars
  <2>2. /\ q \in PaymentIds /\ payments[q] # Null
        /\ hreq[d].callback.status \in PayconiqStatuses
        /\ DeliveredStatus(d) \in PaymentStatuses
    BY <2>1, PaymentStatusFromType DEF PaymentsOf, Callback, DeliveredStatus
  <2> QED
    BY <2>1, <2>2, UpdateIsStutter
<1>3. CASE WebhookFinishOrder(d)
  <2>1. /\ Truthful(hreq[d].callback) /\ hreq[d].callback.status = "SUCCEEDED"
        /\ hreq[d].order \in OrderIds /\ q \in PaymentsOf(hreq[d].order)
        /\ FinishOrder(hreq[d].order) /\ UNCHANGED <<payments, payconiq>>
    BY <1>3 DEF WebhookFinishOrder, IInv, WebhookShape, payconiqVars
  <2>2. Settled(q)
    BY <2>1 DEF Settled, Truthful, DeliveredPayment
  <2> HIDE DEF q
  <2> QED
    BY <2>1, <2>2, FinishByPayment
<1> QED
  BY <1>1, <1>2, <1>3 DEF WebhookStep

\* Payconiq moves a payment that is not settled.
LEMMA PayconiqMoveIsLedgerStep ==
    ASSUME IInv, NEW p \in PaymentIds, NEW status \in PayconiqStatuses,
           PayconiqMove(p, status), UNCHANGED database
    PROVE  LedgerStep
<1> DEFINE row == [payconiq[p] EXCEPT !.status = status]
<1>1. /\ payconiq[p] \in PayconiqRow /\ payconiq[p].status # "SUCCEEDED"
  BY DEF IInv, TypeOK, PayconiqTypeOK, PayconiqMove, Unsettled, PaymentStatusFrom
<1>2. row \in PayconiqRow
  BY <1>1 DEF PayconiqRow
<1>3. payconiq' = [payconiq EXCEPT ![p] = row]
  BY DEF PayconiqMove
<1> QED
  BY <1>1, <1>2, <1>3, PayconiqSettlesOne DEF database

-----------------------------------------------------------------------------
(* The refinement.                                                           *)

\* Initially nothing is stored, registered or settled.
LEMMA InitIsLedgerInit == Init => PromisedLedger!Init
<1> SUFFICES ASSUME Init
             PROVE  PromisedLedger!Init
  OBVIOUS
<1>1. Stored = {} /\ Finished = {}
  BY DEF Init, DatabaseInit, Stored, Finished
<1>2. Pays = [p \in PaymentIds |-> Null]
  BY DEF Init, DatabaseInit, Pays
<1>3. SettledPayments = {}
  BY DEF Init, DatabaseInit, PayconiqInit, SettledPayments, Settled, PaidAtPayconiq
<1> QED
  BY <1>1, <1>2, <1>3 DEF PromisedLedger!Init

\* Every step is one of the ledger or leaves it as it is.
LEMMA NextIsLedgerStep == IInv /\ [Next]_vars => LedgerStep
<1> SUFFICES ASSUME IInv, [Next]_vars
             PROVE  LedgerStep
  OBVIOUS
<1>1. CASE Receives
  <2>1. UNCHANGED <<orders, payments, payconiq>>
    BY <1>1, ReceivesWriteNothing
  <2> QED
    BY <2>1, NoWriteIsStutter
<1>2. CASE Steps
  BY <1>2, OrderStepIsLedgerStep, PaymentStepIsLedgerStep, WebhookStepIsLedgerStep DEF Steps
<1>3. CASE Aborts
  BY <1>3, NoWriteIsStutter DEF Aborts, OrderAbort, PaymentAbort, WebhookAbort, database,
     payconiqVars
<1>4. CASE PayconiqMoves
  <2>1. PICK p \in PaymentIds, status \in Progress : PayconiqMove(p, status)
    BY <1>4 DEF PayconiqMoves
  <2> QED
    BY <1>4, <2>1, TapappAssumption, PayconiqMoveIsLedgerStep DEF PayconiqMoves, database
<1>5. CASE UNCHANGED vars
  BY <1>5, NoWriteIsStutter DEF vars
<1> QED
  BY <1>1, <1>2, <1>3, <1>4, <1>5 DEF Next

\* The API implements the ledger, for every number of requests, organisations
\* and deliveries, every overlap and every failure: orders are finished by
\* settled payments of their own only, a registered payment keeps its order
\* for good, and an order that has payments is never deleted.
THEOREM LedgerImplemented == Spec => ImplementsLedger
<1>1. IInv /\ [Next]_vars => [PromisedLedger!Next]_(PromisedLedger!ledger)
  BY NextIsLedgerStep DEF LedgerStep, PromisedLedger!ledger
<1> QED
  BY <1>1, InitIsLedgerInit, InvariantHolds, PTL DEF Spec, ImplementsLedger, PromisedLedger!Spec

=============================================================================
