----------------------------- MODULE MCFulfillment -----------------------------
(* Two jobs of one customer, so that one conversation closes the other. *)
EXTENDS Fulfillment, TLC

Symmetric == Permutations(Jobs) \union Permutations(Notes) \union Permutations(Messages)

===============================================================================
