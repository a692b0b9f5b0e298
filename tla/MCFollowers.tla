---------------------------- MODULE MCFollowers ----------------------------
(* Values of the constants of Followers for TLC: those of MC.                *)
EXTENDS MC, Followers

=============================================================================
