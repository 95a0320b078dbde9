--------------------------- MODULE MCAuthSessions ---------------------------
(* AuthSessions on small instances for TLC.                                *)
EXTENDS AuthSessions, TLC

Symmetric == Permutations(Requests) \cup Permutations(Users)

\* One account logged in three times, with the first session closed since.
ThreeSessions ==
  /\ users = [u \in Users |-> [pw |-> 0, deleted |-> FALSE]]
  /\ tokens = [t \in Jtis |->
       IF t > 3 THEN NoRow
       ELSE [NewToken(CHOOSE u \in Users : TRUE, None, 0)
               EXCEPT !.status = IF t = 1 THEN "revoked" ELSE "live"]]
  /\ req = [r \in Requests |-> Idle]
  /\ hist = [r \in Requests |-> NoHistory]

SpecFromThreeSessions ==
  ThreeSessions /\ [][Next]_vars /\ \A r \in Requests : WF_vars(Step(r)) /\ SF_vars(Acquire(r))
=============================================================================
