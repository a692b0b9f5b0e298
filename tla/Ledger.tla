------------------------------- MODULE Ledger -------------------------------
(* What the API promises about orders and payments, whatever handlers       *)
(* overlap and whatever fails: an order is finished by a settled payment    *)
(* only, a payment that is registered stays with its order, and an order    *)
(* with payments stays.                                                     *)
EXTENDS FiniteSets

CONSTANTS
    Null,               \* no order
    Orders,
    Payments

VARIABLES
    exists,             \* the orders that are stored
    finished,           \* those that are finished
    pays,               \* the order each registered payment is for
    settled             \* the payments whose money has been received

ledger == <<exists, finished, pays, settled>>

Init ==
    /\ exists = {}
    /\ finished = {}
    /\ pays = [p \in Payments |-> Null]
    /\ settled = {}

\* An order is stored, or stored again after its deletion.
Place(o) ==
    /\ o \notin exists
    /\ exists' = exists \cup {o}
    /\ UNCHANGED <<finished, pays, settled>>

\* Only an order no payment was ever registered for is deleted.
Delete(o) ==
    /\ o \in exists \ finished
    /\ \A p \in Payments : pays[p] # o
    /\ exists' = exists \ {o}
    /\ UNCHANGED <<finished, pays, settled>>

\* A payment is registered once, for an order that is stored; a cash or free
\* payment is settled by it.
Register(p, o) ==
    /\ pays[p] = Null /\ o \in exists
    /\ pays' = [pays EXCEPT ![p] = o]
    /\ settled' \in {settled, settled \cup {p}}
    /\ UNCHANGED <<exists, finished>>

\* Payconiq settles a payment, be it registered here already or not.
Settle(p) ==
    /\ p \notin settled
    /\ settled' = settled \cup {p}
    /\ UNCHANGED <<exists, finished, pays>>

Finish(o) ==
    /\ o \in exists \ finished
    /\ \E p \in settled : pays[p] = o
    /\ finished' = finished \cup {o}
    /\ UNCHANGED <<exists, pays, settled>>

\* The one promise the API does not give: an update that overlaps a payment
\* takes the mark off again.  The order and its payments remain.
Reopen(o) ==
    /\ o \in finished
    /\ finished' = finished \ {o}
    /\ UNCHANGED <<exists, pays, settled>>

Next ==
    \/ \E o \in Orders : Place(o) \/ Delete(o) \/ Finish(o) \/ Reopen(o)
    \/ \E p \in Payments : Settle(p)
    \/ \E p \in Payments, o \in Orders : Register(p, o)

Spec == Init /\ [][Next]_ledger

=============================================================================
