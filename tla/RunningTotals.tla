---------------------------- MODULE RunningTotals ----------------------------
(***************************************************************************)
(* Sums as the program computes them: sum(...) over the rows of a query,   *)
(* in order.  Total(f, n) is f[1] + ... + f[n].  Written as a recursive    *)
(* function so that RunningTotalsProofs can reason about it.               *)
(***************************************************************************)
EXTENDS Integers

Running(f) ==
  LET t[i \in Nat] == IF i = 0 THEN 0 ELSE t[i - 1] + f[i] IN t

Total(f, n) == Running(f)[n]

===============================================================================
