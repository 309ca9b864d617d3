----------------------------- MODULE MCPayments -----------------------------
(* Instances of Payments for TLC; the constants are given in the cfg files. *)
EXTENDS Payments
=============================================================================
