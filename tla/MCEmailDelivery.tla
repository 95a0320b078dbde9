--------------------------- MODULE MCEmailDelivery ---------------------------
(* EmailDelivery on small instances for TLC.                               *)
EXTENDS EmailDelivery, TLC

Symmetric == Permutations(Mails)
=============================================================================
