---------------------------- MODULE MCCategories ----------------------------
(* Values of the constants of Categories for TLC.  The bar has two           *)
(* categories, the shop one; the lists leave ids out, name one twice and     *)
(* name one that is gone.                                                    *)
EXTENDS Categories

CONSTANTS bar, shop, drinks, snacks, tools, cola, chips, gone

MCOwnerOf == [c \in CategoryIds |-> IF c = tools THEN shop ELSE bar]

MCFirstProducts == [c \in CategoryIds |-> IF c = drinks THEN {cola, chips} ELSE {chips}]

MCCategoryLists == {<<snacks>>, <<gone, drinks, snacks, drinks>>}
MCProductLists == {<<chips>>, <<cola, gone, chips, cola>>}

=============================================================================
