----------------------------- MODULE MCPromotion -----------------------------
(***************************************************************************)
(* An instance of Promotion for TLC: two requests at once.                 *)
(***************************************************************************)
EXTENDS Promotion

CONSTANTS first, second

=============================================================================
