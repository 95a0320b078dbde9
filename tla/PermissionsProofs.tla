-------------------------- MODULE PermissionsProofs --------------------------
(***************************************************************************)
(* Proofs about Permissions, for any set of accounts and of requests.      *)
(*                                                                         *)
(* A request that holds a role holds one the account has had since the     *)
(* request began (Loaded), because whoever changes a role adds it to what  *)
(* the running requests of the account have seen (Current).  Beyond its    *)
(* checks a request drops the role; Entitled remembers why it went on.     *)
(***************************************************************************)
EXTENDS Permissions, TLAPS

Editing == {"post", "editComment", "deleteComment"}

Current(r) == Actor(r) # None => role[Actor(r)] \in req[r].since
Loaded(r) == req[r].role # None => req[r].role \in req[r].since
Checked(r) == req[r].pc = "target" =>
  req[r].op \in Editing \cup {"setRole"} /\ req[r].role \in Required(req[r].op)
Known(r) ==
  /\ req[r].pc # "idle" => req[r].op \in Ops
  /\ req[r].pc = "actor" => Actor(r) # None
  /\ req[r].pc # "idle" /\ req[r].op = "setRole" => req[r].target \in Users /\ req[r].want \in Roles
Entitled(r) == Acts(r) => Owns(r) \/ req[r].since \cap Documented(req[r].op) # {}
\* Whoever sets its own role loaded it as an administrator.
OwnOld(r) == req[r].pc = "write" /\ req[r].op = "setRole" /\ req[r].target = Actor(r) =>
  req[r].old = "admin"

Holds(r) == Current(r) /\ Loaded(r) /\ Checked(r) /\ Known(r) /\ Entitled(r) /\ OwnOld(r)
Inv == TypeOK /\ \A r \in Requests : Holds(r)

\* Every action but SetRole leaves the roles and the other requests alone.
LEMMA OneRequest ==
  ASSUME Inv, NEW r \in Requests, UNCHANGED role,
         NEW new, new \in Request,
         req' = [req EXCEPT ![r] = new],
         Holds(r)'
  PROVE  Inv'
<1>1. TypeOK'
  BY DEF Inv, TypeOK, Request
<1>2. ASSUME NEW q \in Requests PROVE Holds(q)'
  <2>1. CASE q = r
    BY <2>1
  <2>2. CASE q # r
    <3>1. req'[q] = req[q]
      BY <2>2 DEF Inv, TypeOK, Request
    <3>. QED
      BY <3>1 DEF Inv, Holds, Current, Loaded, Checked, Known, Entitled, OwnOld, Acts, Owns, Actor
  <2>. QED BY <2>1, <2>2
<1>. QED BY <1>1, <1>2 DEF Inv

LEMMA IdleHolds ==
  ASSUME Inv, NEW r \in Requests, UNCHANGED role, End(r)
  PROVE  Inv'
<1>1. req'[r] = Idle
  BY DEF End, Inv, TypeOK, Request
<1>2. Holds(r)'
  BY <1>1, NoneAssumption DEF Idle, Holds, Current, Loaded, Checked, Known, Entitled, OwnOld,
    Acts, Owns, Actor
<1>. QED
  BY <1>2, OneRequest, NoneAssumption DEF End, Idle, PCs, Request

LEMMA Granted ==
  ASSUME Inv, NEW r \in Requests, UNCHANGED role, req[r].op \in Editing \cup {"list"}, Grant(r),
         req[r].op \in Editing => Owns(r) \/ req[r].since \cap Documented(req[r].op) # {}
  PROVE  Inv'
<1>1. req' = [req EXCEPT ![r] = [req[r] EXCEPT !.pc = "write", !.role = None]]
  BY DEF Grant
<1>2. req'[r] = [req[r] EXCEPT !.pc = "write", !.role = None]
  BY <1>1 DEF Inv, TypeOK, Request
<1>3. Holds(r)'
  BY <1>2, NoneAssumption DEF Inv, TypeOK, Request, Holds, Current, Loaded, Checked, Known, Entitled, OwnOld,
    Acts, Owns, Actor, Editing, Ops
<1>. QED
  BY <1>1, <1>3, OneRequest, ZenonT(60) DEF Inv, TypeOK, Request, PCs

-----------------------------------------------------------------------------
LEMMA InitInv == Init => Inv
<1>. SUFFICES ASSUME Init PROVE Inv
  OBVIOUS
<1>1. PICK a \in Users : role = [u \in Users |-> IF u = a THEN "admin" ELSE DefaultRole]
  BY DEF Init
<1>2. role \in [Users -> Roles]
  BY <1>1 DEF DefaultRole, Roles
<1>3. TypeOK
  BY <1>2 DEF Init, TypeOK, Request, Idle, PCs
<1>4. ASSUME NEW r \in Requests PROVE Holds(r)
  <2>1. req[r] = Idle
    BY DEF Init
  <2>. QED
    BY <2>1, NoneAssumption DEF Idle, Holds, Current, Loaded, Checked, Known, Entitled, OwnOld,
      Acts, Owns, Actor
<1>. QED BY <1>3, <1>4 DEF Inv

LEMMA Arrives ==
  ASSUME Inv, NEW r \in Requests, NEW op \in Ops, NEW pc \in {"actor", "write"},
         NEW u \in Users \cup {None}, NEW target \in Users \cup {None},
         NEW want \in Roles \cup Statuses \cup {None},
         Arrive(r, op, pc, u, target, want), pc = "write" => op = "list",
         pc = "actor" => u # None, op = "setRole" => target \in Users /\ want \in Roles
  PROVE  Inv'
<1>. DEFINE since == IF u = None THEN {} ELSE {role[u]}
            new == [Idle EXCEPT !.op = op, !.pc = pc, !.user = u, !.target = target,
                      !.want = want, !.since = since]
<1>1. req' = [req EXCEPT ![r] = new] /\ UNCHANGED role
  BY DEF Arrive
<1>2. since \in SUBSET Roles /\ (u # None => role[u] \in since)
  BY DEF Inv, TypeOK
<1>. HIDE DEF since
<1>3. /\ new \in Request
      /\ new.op = op /\ new.pc = pc /\ new.user = u /\ new.since = since /\ new.target = target
      /\ new.want = want /\ new.role = None /\ new.old = None /\ new.shown = {}
  BY <1>2 DEF Idle, Request, PCs
<1>4. req'[r] = new
  BY <1>1 DEF Inv, TypeOK
<1>. HIDE DEF new
<1>5. Holds(r)'
  BY <1>1, <1>2, <1>3, <1>4
    DEF Holds, Current, Loaded, Checked, Known, Entitled, OwnOld, Acts, Owns, Actor
<1>. QED
  BY <1>1, <1>3, <1>5, OneRequest

LEMMA LoadActorInv == ASSUME Inv, NEW r \in Requests, LoadActor(r) PROVE Inv'
<1>. DEFINE loaded == role[Actor(r)]
            pc == IF req[r].op \in {"term", "list"} THEN "write" ELSE "target"
            new == [req[r] EXCEPT !.role = loaded, !.pc = pc]
<1>1. CASE End(r)
  BY <1>1, IdleHolds DEF LoadActor
<1>2. CASE loaded \in Required(req[r].op) /\ req' = [req EXCEPT ![r].role = loaded, ![r].pc = pc]
  <2>1. req' = [req EXCEPT ![r] = new] /\ UNCHANGED role
    BY <1>2 DEF LoadActor
  <2>2. req'[r] = new
    BY <2>1 DEF Inv, TypeOK, Request
  <2>3. loaded \in Roles /\ loaded \in req[r].since /\ req[r].op \in Ops
    BY DEF LoadActor, Inv, TypeOK, Request, Holds, Known, Current, Actor
  <2>4. req[r].op = "term" => req[r].since \cap Documented("term") # {}
    BY <1>2, <2>3 DEF Required, Documented
  <2>5. /\ req'[r].pc = pc /\ req'[r].role = loaded
        /\ req'[r].op = req[r].op /\ req'[r].user = req[r].user /\ req'[r].since = req[r].since
        /\ req'[r].target = req[r].target /\ req'[r].want = req[r].want
        /\ req'[r].old = req[r].old /\ req'[r].shown = req[r].shown
    BY <2>2 DEF Inv, TypeOK, Request
  <2>6. new \in Request
    BY <2>3, ZenonT(60) DEF Inv, TypeOK, Request, PCs
  <2>. HIDE DEF loaded, new
  <2>7. (Current(r) /\ Loaded(r) /\ Known(r) /\ Checked(r) /\ OwnOld(r))'
    BY <1>2, <2>1, <2>3, <2>5 DEF Inv, Holds, Current, Loaded, Checked, Known, OwnOld,
      Actor, Ops, Editing, LoadActor
  <2>8. Entitled(r)'
    BY <2>3, <2>4, <2>5 DEF Inv, Holds, Entitled, Acts, Owns, Actor, Ops, Documented
  <2>. QED
    BY <2>1, <2>6, <2>7, <2>8, OneRequest DEF Holds
<1>. QED BY <1>1, <1>2 DEF LoadActor

LEMMA NotAuthenticatedInv == ASSUME Inv, NEW r \in Requests, NotAuthenticated(r) PROVE Inv'
BY IdleHolds, Granted DEF NotAuthenticated, Editing

LEMMA CheckAuthorInv == ASSUME Inv, NEW r \in Requests, CheckAuthor(r) PROVE Inv'
<1>1. CASE End(r)
  BY <1>1, IdleHolds DEF CheckAuthor
<1>2. CASE (req[r].target = Actor(r) \/ req[r].role \in MayTouch(req[r].op)) /\ Grant(r)
  <2>1. req[r].role \in MayTouch(req[r].op) => req[r].role \in req[r].since
    BY NoneAssumption DEF MayTouch, Roles, Inv, Holds, Loaded
  <2>2. MayTouch(req[r].op) \subseteq Documented(req[r].op)
    BY DEF CheckAuthor, MayTouch, Documented
  <2>. QED
    BY <1>2, <2>1, <2>2, Granted DEF CheckAuthor, Owns, Editing
<1>. QED BY <1>1, <1>2 DEF CheckAuthor

LEMMA LoadTargetInv == ASSUME Inv, NEW r \in Requests, LoadTarget(r) PROVE Inv'
<1>. DEFINE old == IF req[r].target = Actor(r) THEN req[r].role ELSE role[req[r].target]
            new == [req[r] EXCEPT !.pc = "write", !.role = None, !.old = old]
<1>1. CASE End(r)
  BY <1>1, IdleHolds DEF LoadTarget
<1>2. CASE req' = [req EXCEPT ![r].pc = "write", ![r].role = None, ![r].old = old]
  <2>1. req' = [req EXCEPT ![r] = new] /\ UNCHANGED role
    BY <1>2 DEF LoadTarget
  <2>2. req'[r] = new
    BY <2>1 DEF Inv, TypeOK, Request
  <2>3. req[r].role = "admin" /\ "admin" \in req[r].since
    BY NoneAssumption DEF LoadTarget, Inv, Holds, Checked, Required, Loaded, Roles
  <2>4. Holds(r)'
    BY <2>1, <2>2, <2>3 DEF LoadTarget, Inv, Holds, Current, Loaded, Checked, Known, Entitled,
      OwnOld, Acts, Owns, Actor, Documented
  <2>5. old \in Roles
    BY <2>3 DEF LoadTarget, Inv, TypeOK, Request, Holds, Known, Roles
  <2>6. new \in Request
    BY <2>5, ZenonT(60) DEF Inv, TypeOK, Request, PCs
  <2>. QED
    BY <2>1, <2>4, <2>6, OneRequest
<1>. QED BY <1>1, <1>2 DEF LoadTarget

LEMMA ListPostsInv == ASSUME Inv, NEW r \in Requests, ListPosts(r) PROVE Inv'
<1>. DEFINE shown == {s \in Statuses : EffectiveStatus(r) \in {s, None}}
            new == [req[r] EXCEPT !.pc = "ok", !.role = None, !.shown = shown]
<1>1. req' = [req EXCEPT ![r] = new] /\ UNCHANGED role
  BY DEF ListPosts
<1>2. "draft" \in shown => req[r].since \cap Documented("list") # {}
  BY NoneAssumption DEF EffectiveStatus, Documented, Statuses, Roles, Inv, Holds, Loaded
<1>3. shown \in SUBSET Statuses
  OBVIOUS
<1>. HIDE DEF shown
<1>4. /\ new \in Request
      /\ new.op = "list" /\ new.pc = "ok" /\ new.user = req[r].user /\ new.since = req[r].since
      /\ new.role = None /\ new.shown = shown
  BY <1>3 DEF ListPosts, Inv, TypeOK, Request, PCs
<1>5. req'[r] = new
  BY <1>1 DEF Inv, TypeOK
<1>. HIDE DEF new
<1>6. Holds(r)'
  BY <1>1, <1>2, <1>4, <1>5
    DEF Inv, Holds, Current, Loaded, Checked, Known, Entitled, OwnOld, Acts, Owns, Actor, Ops
<1>. QED
  BY <1>1, <1>4, <1>6, OneRequest

\* What setting a role may do, besides ending the request.
LEMMA SetRoleGrants ==
  ASSUME Inv, NEW r \in Requests, SetRole(r)
  PROVE  LET t == req[r].target
             new == Written(req[r].old, req[r].want, role[t])
         IN  /\ t \in Users /\ new \in Roles
             /\ new # role[t] =>
                  /\ req[r].want = new /\ "admin" \in req[r].since
                  /\ new = "admin" => Actor(r) # t
<1>1. /\ req[r].pc = "write" /\ req[r].op = "setRole" /\ Holds(r)
      /\ req[r].target \in Users /\ req[r].want \in Roles
  BY DEF SetRole, Inv, Holds, Known
<1>2. "admin" \in req[r].since
  BY <1>1 DEF Holds, Entitled, Acts, Owns, Documented
<1>3. req[r].target = Actor(r) => req[r].old = "admin"
  BY <1>1 DEF Holds, OwnOld
<1>. QED
  BY <1>1, <1>2, <1>3 DEF Written, Inv, TypeOK

LEMMA SetRoleInv == ASSUME Inv, NEW r \in Requests, SetRole(r) PROVE Inv'
<1>. DEFINE t == req[r].target
            new == Written(req[r].old, req[r].want, role[t])
<1>1. t \in Users /\ new \in Roles
  BY SetRoleGrants
<1>. HIDE DEF new
<1>2. role' = [role EXCEPT ![t] = new]
  BY DEF SetRole, new
<1>3. role' \in [Users -> Roles]
  BY <1>1, <1>2 DEF Inv, TypeOK
<1>4. \A q \in Requests : req'[q] = IF q = r THEN Idle
        ELSE IF Actor(q) = t THEN [req[q] EXCEPT !.since = @ \cup {new}] ELSE req[q]
  BY DEF SetRole, new
<1>5. Idle \in Request
  BY DEF Idle, Request, PCs
<1>6. ASSUME NEW q \in Requests
      PROVE  /\ req'[q] \in Request
             /\ q = r => req'[q] = Idle
             /\ q # r =>
                  /\ req[q].since \subseteq req'[q].since
                  /\ Actor(q) = t => new \in req'[q].since
                  /\ req'[q].pc = req[q].pc /\ req'[q].op = req[q].op /\ req'[q].user = req[q].user
                  /\ req'[q].role = req[q].role /\ req'[q].target = req[q].target
                  /\ req'[q].want = req[q].want /\ req'[q].old = req[q].old
                  /\ req'[q].shown = req[q].shown
  <2>1. CASE q = r
    BY <1>4, <1>5, <2>1
  <2>2. CASE q # r /\ Actor(q) # t
    BY <1>4, <2>2 DEF Inv, TypeOK, Request
  <2>3. CASE q # r /\ Actor(q) = t
    <3>1. req'[q] = [req[q] EXCEPT !.since = @ \cup {new}]
      BY <1>4, <2>3
    <3>2. req[q] \in Request
      BY DEF Inv, TypeOK
    <3>. QED
      BY <1>1, <2>3, <3>1, <3>2 DEF Request
  <2>. QED BY <2>1, <2>2, <2>3
<1>7. req' \in [Requests -> Request]
  <2>1. req' = [q \in Requests |-> IF q = r THEN Idle
          ELSE IF Actor(q) = t THEN [req[q] EXCEPT !.since = @ \cup {new}] ELSE req[q]]
    BY DEF SetRole, new
  <2>. HIDE DEF t
  <2>. QED BY <1>4, <1>6, <2>1
<1>8. TypeOK'
  BY <1>3, <1>7 DEF TypeOK
<1>9. ASSUME NEW q \in Requests PROVE Holds(q)'
  <2>1. CASE q = r
    BY <1>6, <2>1, NoneAssumption
      DEF Idle, Holds, Current, Loaded, Checked, Known, Entitled, OwnOld, Acts, Owns, Actor
  <2>2. CASE q # r
    <3>1. Current(q)'
      BY <1>1, <1>2, <1>6, <2>2 DEF Inv, TypeOK, Request, Holds, Current, Actor
    <3>2. (Loaded(q) /\ Checked(q) /\ Known(q) /\ OwnOld(q))'
      BY <1>6, <2>2 DEF Inv, Holds, Loaded, Checked, Known, OwnOld, Actor
    <3>3. Entitled(q)'
      BY <1>6, <2>2 DEF Inv, Holds, Entitled, Acts, Owns, Actor
    <3>. QED
      BY <3>1, <3>2, <3>3 DEF Holds
  <2>. QED BY <2>1, <2>2
<1>. QED BY <1>8, <1>9 DEF Inv

LEMMA NextInv == Inv /\ [Next]_vars => Inv'
<1>. SUFFICES ASSUME Inv, [Next]_vars PROVE Inv'
  OBVIOUS
<1>1. ASSUME NEW r \in Requests, ArriveToEdit(r) PROVE Inv'
  <2>1. PICK u \in Users, a \in Users, op \in Editing : Arrive(r, op, "actor", u, a, None)
    BY <1>1 DEF ArriveToEdit, Editing
  <2>2. op \in Ops /\ op # "setRole" /\ u # None
    BY NoneAssumption DEF Ops, Editing
  <2>. QED BY <2>1, <2>2, Arrives
<1>2. ASSUME NEW r \in Requests, ArriveForTerm(r) PROVE Inv'
  <2>1. PICK u \in Users : Arrive(r, "term", "actor", u, None, None)
    BY <1>2 DEF ArriveForTerm
  <2>2. "term" \in Ops /\ u # None
    BY NoneAssumption DEF Ops
  <2>. QED BY <2>1, <2>2, Arrives
<1>3. ASSUME NEW r \in Requests, ArriveToSetRole(r) PROVE Inv'
  <2>1. PICK u \in Users, a \in Users, to \in Roles : Arrive(r, "setRole", "actor", u, a, to)
    BY <1>3 DEF ArriveToSetRole
  <2>2. "setRole" \in Ops /\ u # None
    BY NoneAssumption DEF Ops
  <2>. QED BY <2>1, <2>2, Arrives
<1>4. ASSUME NEW r \in Requests, ArriveToList(r) PROVE Inv'
  <2>1. PICK u \in Users \cup {None}, s \in Statuses \cup {None} :
          Arrive(r, "list", IF u = None THEN "write" ELSE "actor", u, None, s)
    BY <1>4 DEF ArriveToList
  <2>2. "list" \in Ops
    BY DEF Ops
  <2>. QED BY <2>1, <2>2, Arrives
<1>5. ASSUME NEW r \in Requests, WriteElsewhere(r) \/ Abort(r) \/ AnswerList(r) PROVE Inv'
  BY <1>5, IdleHolds DEF WriteElsewhere, Abort, AnswerList
<1>6. ASSUME UNCHANGED vars PROVE Inv'
  BY <1>6 DEF vars, Inv, TypeOK, Holds, Current, Loaded, Checked, Known, Entitled, OwnOld, Acts,
    Owns, Actor
<1>. QED
  BY <1>1, <1>2, <1>3, <1>4, <1>5, <1>6, LoadActorInv, NotAuthenticatedInv, CheckAuthorInv,
     LoadTargetInv, SetRoleInv, ListPostsInv DEF Next

\* Permissions' inductive invariant holds in every reachable state, for any set of accounts
\* and of requests.
THEOREM Invariance == Spec => []Inv
BY InitInv, NextInv, PTL DEF Spec

\* Every reachable state is well typed.
THEOREM TypeCorrect == Spec => []TypeOK
BY Invariance, PTL DEF Inv

\* No request acts without a role the API guide asks for, held since it began, unless on
\* what is its own: the role loaded by get_current_user is enough, however roles change.
THEOREM ActingIsDocumented == Spec => []ActsAsDocumented
<1>1. Inv => ActsAsDocumented
  BY DEF Inv, Holds, Entitled, ActsAsDocumented
<1>. QED BY <1>1, Invariance, PTL

\* update_role changes a role only for an administrator, and reinstates nobody who was
\* demoted while it ran.
THEOREM RolesAreGranted == Spec => RoleGrants
<1>. DEFINE Granting == \A u \in Users : role'[u] # role[u] =>
       \E r \in Requests :
         /\ req[r].op = "setRole" /\ req[r].target = u /\ req[r].want = role'[u]
         /\ "admin" \in req[r].since
         /\ role'[u] = "admin" => Actor(r) # u
<1>1. ASSUME Inv, [Next]_vars PROVE [Granting]_vars
  <2>1. CASE UNCHANGED role
    BY <2>1
  <2>2. ASSUME NEW r \in Requests, SetRole(r) PROVE Granting
    <3>. DEFINE t == req[r].target
                new == Written(req[r].old, req[r].want, role[t])
    <3>1. role' = [role EXCEPT ![t] = new] /\ req[r].op = "setRole"
      BY <2>2 DEF SetRole
    <3>2. \A u \in Users : role'[u] # role[u] => u = t /\ role'[u] = new
      BY <1>1, <3>1 DEF Inv, TypeOK
    <3>. QED
      BY <1>1, <2>2, <3>1, <3>2, SetRoleGrants
  <2>3. UNCHANGED role \/ \E r \in Requests : SetRole(r)
    BY <1>1 DEF Next, vars, ArriveToEdit, ArriveForTerm, ArriveToSetRole, ArriveToList, Arrive,
      LoadActor, NotAuthenticated, CheckAuthor, WriteElsewhere, LoadTarget, ListPosts, Abort,
      AnswerList
  <2>. QED
    BY <2>1, <2>2, <2>3
<1>. QED
  BY <1>1, Invariance, PTL DEF Spec, RoleGrants
=============================================================================
