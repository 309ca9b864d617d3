----------------------------- MODULE MCStorefront -----------------------------
(***************************************************************************)
(* Two customers compete for two keys, directly and from their carts, and  *)
(* for the one use of a promo code.                                        *)
(***************************************************************************)
EXTENDS Storefront, TLC

CONSTANTS anna, ben, key, k1, k2, sale

MCHome == (k1 :> key) @@ (k2 :> key)
MCPrice == key :> 3
MCDiscount == sale :> [kind |-> "percent", value |-> 50, max |-> 1, item |-> key]
MCInitialBalance == (anna :> 6) @@ (ben :> 4)
MCInitialMode == key :> "instant"

===============================================================================
