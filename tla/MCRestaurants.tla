----------------------------- MODULE MCRestaurants -----------------------------
(* Small instances of Restaurants for TLC.                                  *)
EXTENDS Restaurants, TLC

Symmetry == Permutations(Requests) \union Permutations(Ids)
===============================================================================
