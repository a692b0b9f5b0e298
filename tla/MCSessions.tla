----------------------------- MODULE MCSessions -----------------------------
(* Values of the constants of Sessions for TLC: ann and bob work for the bar, *)
(* eve for nobody.                                                            *)
EXTENDS Sessions, TLC

CONSTANTS bar, eve

MCOrganisationOf == [u \in Users |-> IF u = eve THEN Null ELSE bar]

\* Requests and devices are interchangeable.
Symmetry == Permutations(Requests) \cup Permutations(Devices)

=============================================================================
