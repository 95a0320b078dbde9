------------------------------ MODULE MCAccounts ------------------------------
(* Accounts on small instances for TLC.                                    *)
EXTENDS Accounts, TLC

Symmetric == Permutations(Emails) \cup Permutations(Names) \cup Permutations(Requests)
=============================================================================
