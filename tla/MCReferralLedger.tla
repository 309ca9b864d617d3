--------------------------- MODULE MCReferralLedger ---------------------------
(***************************************************************************)
(* A referrer with nothing of its own, and a buyer it referred.  The       *)
(* referrer buys too, so that converted commissions are spent before a     *)
(* reversal or a debit claims them back.                                   *)
(***************************************************************************)
EXTENDS ReferralLedger, TLC

CONSTANTS anna, ben

MCUsers == {anna, ben}
MCReferrer == (anna :> NULL) @@ (ben :> anna)
MCRates == {1000}
MCAdjustments == {3, -3}
MCInitialBalance == (anna :> 0) @@ (ben :> 40)

===============================================================================
