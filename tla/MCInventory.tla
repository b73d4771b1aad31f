------------------------------ MODULE MCInventory ------------------------------
(* A small instance of Inventory for TLC.                                   *)
EXTENDS Inventory, TLC

\* No ingredient, one of quantity 0 or 1, or every item.
MCRecipes ==
  {NoNeeds, [i \in Items |-> 1]} \union {[NoNeeds EXCEPT ![i] = n] : i \in Items, n \in Stocks}

Symmetry == Permutations(Requests) \union Permutations(Items)
===============================================================================
