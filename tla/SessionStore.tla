---------------------------- MODULE SessionStore ----------------------------
(***************************************************************************)
(* What the refresh-token table promises, with no requests, statements or  *)
(* locks: a session is opened, handed on, or closed, each in one step.     *)
(***************************************************************************)
CONSTANTS Users, Jtis, None

VARIABLES status, owner

Init ==
  /\ status = [t \in Jtis |-> "absent"]
  /\ owner = [t \in Jtis |-> None]

Open(u) == \E n \in Jtis :
  /\ status[n] = "absent"
  /\ status' = [status EXCEPT ![n] = "live"]
  /\ owner' = [owner EXCEPT ![n] = u]

\* The old token is closed with the step that opens its successor for the same account.
HandOn == \E old, new \in Jtis :
  /\ status[old] # "absent" /\ status[new] = "absent"
  /\ status' = [status EXCEPT ![old] = "revoked", ![new] = "live"]
  /\ owner' = [owner EXCEPT ![new] = owner[old]]

\* Sessions of one account close together.
Close(u) == \E S \in SUBSET {t \in Jtis : status[t] # "absent" /\ owner[t] = u} :
  /\ status' = [t \in Jtis |-> IF t \in S THEN "revoked" ELSE status[t]]
  /\ UNCHANGED owner

Next == HandOn \/ \E u \in Users : Open(u) \/ Close(u)

Spec == Init /\ [][Next]_<<status, owner>>
=============================================================================
