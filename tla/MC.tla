--------------------------------- MODULE MC ---------------------------------
(* Values of the constants for TLC.  Beer costs 1 and wine 3; soda is a      *)
(* stored product that is not active.  The integer columns hold up to 6, so  *)
(* SevenBeers overflows the total of an order.                               *)
EXTENDS Tapapp, TLC

CONSTANTS beer, wine, soda

MCPrice == [p \in {beer, wine, soda} \cap Products |-> IF p = wine THEN 3 ELSE IF p = soda THEN 2 ELSE 1]

OneBeer == {[product |-> beer, amount |-> 1]}
TwoBeers == {[product |-> beer, amount |-> 2]}
TwoBeersOneWine == {[product |-> beer, amount |-> 2], [product |-> wine, amount |-> 1]}
SevenBeers == {[product |-> beer, amount |-> 7]}
OneSoda == {[product |-> soda, amount |-> 1]}
BeerTwice == {[product |-> beer, amount |-> 1], [product |-> beer, amount |-> 2]}

AllCarts == {OneBeer, TwoBeersOneWine, SevenBeers, OneSoda, BeerTwice}
MixedCarts == {TwoBeersOneWine, OneSoda}
SmallCarts == {OneBeer, TwoBeers}
OneCart == {OneBeer}
TwoProducts == {TwoBeersOneWine}

\* Requests, deliveries and organisations are interchangeable.
Symmetry ==
    Permutations(OrderRequests) \cup Permutations(PaymentRequests)
        \cup Permutations(Organisations)
        \cup Permutations(Deliveries)

=============================================================================
