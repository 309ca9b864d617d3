--------------------------- MODULE MCBroadcastCampaign ---------------------------
(***************************************************************************)
(* Two campaigns that share a recipient, sent in batches of one.           *)
(***************************************************************************)
EXTENDS BroadcastCampaign

CONSTANTS sale, news, ann, bob

MCUsers == {ann, bob}

MCBoth == {sale, news}
MCBothAudience == [c \in MCBoth |-> IF c = sale THEN MCUsers ELSE {bob}]
===============================================================================
