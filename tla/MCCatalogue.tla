----------------------------- MODULE MCCatalogue -----------------------------
(***************************************************************************)
(* Two products in a category: the customer bought the first twice, the    *)
(* second has an image.  A third product and a second category may be      *)
(* created, and two images uploaded.                                       *)
(***************************************************************************)
EXTENDS Catalogue, TLC

CONSTANTS soap, comb, next, top, sub, one, two, f0, f1, f2, a, b, none, good, r1, r5, i1, i2

MCGoods == {soap, comb, next}
MCCats == {top, sub}
MCItems == {i1, i2}
MCNames == {one, two}
MCFiles == {f0, f1, f2}
MCValues == {a, b}
MCFirstRows == [x \in MCGoods \union MCCats |->
  CASE x = soap -> [name |-> one, up |-> top, image |-> None]
    [] x = comb -> [name |-> two, up |-> top, image |-> f0]
    [] x = top -> [name |-> one, up |-> None, image |-> None]
    [] OTHER -> None]
MCFirstSales == [i \in MCItems |-> soap]
MCSymmetry == Permutations({f1, f2}) \union Permutations({a, b}) \union Permutations({r1, r5})
              \union Permutations({none, good}) \union Permutations({i1, i2})
==============================================================================
