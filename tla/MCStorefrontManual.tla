-------------------------- MODULE MCStorefrontManual --------------------------
(***************************************************************************)
(* A customer orders skins, delivered by hand, and an unlimited guide,     *)
(* while administrators edit both products.                                *)
(***************************************************************************)
EXTENDS Storefront, TLC

CONSTANTS anna, guide, skin, g1, s1, s2, gift, fan

MCHome == (g1 :> guide) @@ (s1 :> skin) @@ (s2 :> skin)
MCPrice == (guide :> 3) @@ (skin :> 2)
MCDiscount ==
  [p \in Promos |->
     IF p = gift THEN [kind |-> "balance", value |-> 1, max |-> 0, item |-> NULL]
     ELSE [kind |-> "fixed", value |-> 1, max |-> 0, item |-> skin]]
MCInitialBalance == anna :> 6
MCInitialMode == (guide :> "instant") @@ (skin :> "manual")

===============================================================================
