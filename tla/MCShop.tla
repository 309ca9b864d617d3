--------------------------------- MODULE MCShop ---------------------------------
(* Two products, a code for the first, two messages, a keypad of two binary digits. *)
EXTENDS Shop, TLC

CONSTANT sale

MCBound == sale :> 1

Symmetric == Permutations(Screens)

===============================================================================
