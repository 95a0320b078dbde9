----------------------------- MODULE MCReactions -----------------------------
(* Reactions on small instances for TLC.                                   *)
EXTENDS Reactions, TLC

Symmetric == Permutations(Requests) \cup Permutations(Users)
=============================================================================
