----------------------------- MODULE Followers -----------------------------
(* The API on a database with read followers (config.ts, "replication"):     *)
(* TypeORM sends what find, findOne and the query builder read to one of the *)
(* followers, any one each time, and every write to the master.  A follower  *)
(* takes over the transactions of the master in their order, some time       *)
(* later.                                                                    *)
(*                                                                           *)
(* The reading calls of the handlers are those of Tapapp on the tables of a  *)
(* follower, the writing ones those of Tapapp itself.                        *)
EXTENDS Tapapp

CONSTANT Followers      \* the read followers; without any, Tapapp is the model

ASSUME FollowersAssumption == Followers # {}

VARIABLE copies         \* the tables as each follower has them

replicated == <<vars, copies>>

\* The API as it sees the database at follower f.
View(f) == INSTANCE Tapapp WITH
    orders <- copies[f].orders, items <- copies[f].items, payments <- copies[f].payments

Master == [orders |-> orders, items |-> items, payments |-> payments]

FollowersInit == Init /\ copies = [f \in Followers |-> Master]

\* A follower catches up with the master, in one go.
Replicate(f) ==
    /\ copies[f] # Master
    /\ copies' = [copies EXCEPT ![f] = Master]
    /\ UNCHANGED vars

-----------------------------------------------------------------------------
(* The calls of the handlers.                                                *)

OrderReads(r, f) ==
    /\ UNCHANGED <<database, copies>>
    /\ \/ View(f)!CreateCheck(r) \/ View(f)!UpdateFind(r) \/ View(f)!UpdateCheck(r)
       \/ View(f)!UpdateFindItems(r) \/ View(f)!DeleteFind(r) \/ View(f)!Respond(r)

OrderWrites(r) ==
    /\ \/ CreateSaveOrder(r) \/ CreateSaveItems(r)
       \/ UpdateSaveOrder(r) \/ UpdateDeleteItems(r) \/ UpdateCreateItems(r)
       \/ UpdateSaveItems(r) \/ DeleteDeleteItems(r) \/ DeleteDeleteOrder(r)
    /\ UNCHANGED copies

OrderCalls(r) ==
    /\ (\E f \in Followers : OrderReads(r, f)) \/ OrderWrites(r)
    /\ UNCHANGED <<preq, hreq, payconiqVars>>

PaymentReads(p, f) ==
    /\ UNCHANGED <<database, copies>>
    /\ View(f)!CreatePaymentFind(p) \/ View(f)!PayconiqRespond(p) \/ View(f)!CancelFind(p)

PaymentWrites(p) ==
    /\ \/ CreatePaymentCallPayconiq(p) \/ CreatePaymentSave(p)
       \/ CreatePaymentFinishOrder(p)
       \/ CancelCallPayconiq(p) \/ CancelUpdatePayment(p)
    /\ UNCHANGED copies

PaymentCalls(p) ==
    /\ (\E f \in Followers : PaymentReads(p, f)) \/ PaymentWrites(p)
    /\ UNCHANGED <<oreq, hreq>>

WebhookReads(d, f) == UNCHANGED <<database, copies>> /\ View(f)!WebhookFind(d)

WebhookWrites(d) ==
    /\ WebhookUpdatePayment(d) \/ WebhookFinishOrder(d)
    /\ UNCHANGED copies

WebhookCalls(d) ==
    /\ (\E f \in Followers : WebhookReads(d, f)) \/ WebhookWrites(d)
    /\ UNCHANGED <<oreq, preq>>

FollowersNext ==
    \/ (Receives \/ PayconiqMoves \/ Aborts) /\ UNCHANGED copies
    \/ \E r \in OrderRequests : OrderCalls(r)
    \/ \E p \in PaymentRequests : PaymentCalls(p)
    \/ \E d \in Deliveries : WebhookCalls(d)
    \/ \E f \in Followers : Replicate(f)

FollowersSpec == FollowersInit /\ [][FollowersNext]_replicated

\* Handlers that have been started go on, as in Tapapp; a follower may lag
\* behind for ever.
FollowersFairSpec ==
    /\ FollowersSpec
    /\ \A r \in OrderRequests : WF_replicated(OrderCalls(r))
    /\ \A p \in PaymentRequests : WF_replicated(PaymentCalls(p))
    /\ \A d \in Deliveries : WF_replicated(WebhookCalls(d))

-----------------------------------------------------------------------------
(* Properties.                                                               *)

\* The types of Tapapp, on the master and on every follower.
FollowersTypeOK == TypeOK /\ \A f \in Followers : View(f)!DatabaseTypeOK

\* However far a follower lags behind, the answer to a creation is the order
\* as it was sent or nothing at all, never a part of it: its items are saved
\* together (create-order.command.ts:80).
CreateAnswersAllOrNothing ==
    \A r \in OrderRequests, f \in Followers :
        At(r, "create", "respond") => View(f)!Answer(r) \in {Null, SentLines(r)}

=============================================================================
