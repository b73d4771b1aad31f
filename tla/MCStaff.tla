-------------------------------- MODULE MCStaff --------------------------------
(* A small instance of Staff for TLC.                                       *)
EXTENDS Staff, TLC

CONSTANTS staffModule, manageStaff, manageRoles

MCModuleOf == [p \in Permissions |-> staffModule]
MCAskedSets == {{manageStaff}, {manageStaff, manageRoles}}

Symmetry == Permutations(Requests) \union Permutations(Members) \union Permutations(RoleIds)
===============================================================================
