-------------------------------- MODULE MCLogin --------------------------------
(* A small instance of Login for TLC.                                       *)
EXTENDS Login, TLC

Symmetry == Permutations(Requests) \union Permutations(UserIds) \union Permutations(Codes)
===============================================================================
