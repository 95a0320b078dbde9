------------------------------ MODULE MCComments ------------------------------
(* Comments on small instances for TLC.                                    *)
EXTENDS Comments, TLC

Symmetric == Permutations(Posts) \cup Permutations(Requests)
=============================================================================
