----------------------------- MODULE MCIntakeDialog -----------------------------
(* Two products, one of them with more fields, and two updates at a time. *)
EXTENDS IntakeDialog, TLC

Symmetric == Permutations(Goods) \union Permutations(Tasks)

===============================================================================
