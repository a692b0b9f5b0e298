------------------------------ MODULE Payconiq ------------------------------
(* The Payconiq service and the client the API talks to it with              *)
(* (libs/payconiq).  The service itself is outside this repository: what is  *)
(* assumed of it is what PayconiqService and the webhook rely on.            *)
(*                                                                           *)
(* A payment registered at Payconiq is named here after the internal payment *)
(* whose reference it carries, so Payconiq's own paymentId needs no name.    *)
EXTENDS Models

VARIABLES
    payconiq,       \* the payments Payconiq knows
    callbacks       \* the status updates it has sent to the webhook

payconiqVars == <<payconiq, callbacks>>

PayconiqRow == [status : PayconiqStatuses, amount : 0 .. MaxInt]

\* Mutant: Payconiq's statuses are taken for our own.
PaymentStatusUnmapped(status) == status

\* paymentStatusFromPayconiqStatus
PaymentStatusFrom(status) ==
    CASE status \in {"PENDING", "IDENTIFIED", "AUTHORIZED"}           -> "PENDING"
      [] status = "SUCCEEDED"                                         -> "SUCCEEDED"
      [] status \in {"FAILED", "AUTHORIZATION_FAILED", "EXPIRED"}     -> "FAILED"
      [] status = "CANCELLED"                                         -> "CANCELLED"

\* The reference is the payment id without its dashes; the webhook puts them
\* back.
ReferenceFromInternalPaymentId(p) == [dashless |-> p]
InternalPaymentIdFromReference(reference) == reference.dashless

References == {ReferenceFromInternalPaymentId(p) : p \in PaymentIds}

Callback == [reference : References, status : PayconiqStatuses]

PayconiqTypeOK ==
    /\ payconiq \in [PaymentIds -> PayconiqRow \cup {Null}]
    /\ callbacks \subseteq Callback

ASSUME PayconiqAssumption == Null \notin PayconiqRow

PayconiqInit ==
    /\ payconiq = [p \in PaymentIds |-> Null]
    /\ callbacks = {}

Announce(p, status) ==
    callbacks' = callbacks \cup
        {[reference |-> ReferenceFromInternalPaymentId(p), status |-> status]}

\* POST: registers the payment, PENDING.
PayconiqCreate(p, amount) ==
    /\ payconiq' = [payconiq EXCEPT ![p] = [status |-> "PENDING", amount |-> amount]]
    /\ UNCHANGED callbacks

\* GET: answers with any payment that has been registered.
PayconiqFetches(p) == payconiq[p] # Null

\* A payment can still change while its status maps to PENDING.
Unsettled(p) == payconiq[p] # Null /\ PaymentStatusFrom(payconiq[p].status) = "PENDING"

\* DELETE: cancels a payment that is not settled yet; refused otherwise.
PayconiqCancel(p) ==
    /\ Unsettled(p)
    /\ payconiq' = [payconiq EXCEPT ![p] = [@ EXCEPT !.status = "CANCELLED"]]
    /\ Announce(p, "CANCELLED")

\* The customer's bank moves an unsettled payment on, and Payconiq announces
\* it.  The order of the intermediate statuses is not relied on.
PayconiqMove(p, status) ==
    /\ Unsettled(p)
    /\ status # payconiq[p].status
    /\ payconiq' = [payconiq EXCEPT ![p] = [@ EXCEPT !.status = status]]
    /\ Announce(p, status)

=============================================================================
