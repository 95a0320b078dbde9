---------------------------- MODULE MCPermissions ----------------------------
(* Permissions on small instances for TLC.                                 *)
EXTENDS Permissions, TLC

Symmetric == Permutations(Users) \cup Permutations(Requests)
=============================================================================
