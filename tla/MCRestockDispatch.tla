---------------------------- MODULE MCRestockDispatch ----------------------------
(***************************************************************************)
(* Two customers wait for one product, and are claimed in one batch.  A    *)
(* slot each is enough for the one that outlives its batch and for the     *)
(* other, which is claimed again meanwhile.                                *)
(***************************************************************************)
EXTENDS RestockDispatch

CONSTANTS ann, bob, guide

MCSubs == {ann, bob}
MCItems == {guide}
MCItemOf == [s \in MCSubs |-> guide]
MCSlots == 1..2
===============================================================================
