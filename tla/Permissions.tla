----------------------------- MODULE Permissions -----------------------------
(***************************************************************************)
(* Roles and what they allow: app/dependencies/auth.py, the role checks of *)
(* post_service.py, comment_service.py and user_service.py, the roles that *)
(* the routes for categories, tags and users require, and the list of      *)
(* posts.  What these requests write is the subject of Posts, Comments and *)
(* Taxonomy, where a check may end either way; here roles decide it.       *)
(*                                                                         *)
(* A role is read once, when the request is authenticated, and used until  *)
(* the request ends, while administrators change roles.                    *)
(***************************************************************************)
CONSTANTS Users, Requests, None

VARIABLES role,   \* the role of each account
          req     \* [op, pc, user, role, since, target, want, old, shown]: user is the actor,
                  \* None for an anonymous reader; role, the actor's as loaded; since
                  \* (history), the roles it has had since the request began; target, the
                  \* account whose role is set or the author of what is edited; old, the
                  \* role to be changed as loaded; shown, the statuses of the posts listed

vars == <<role, req>>

Roles == {"admin", "editor", "user"}
Statuses == {"draft", "published"}

ASSUME NoneAssumption == None \notin Users \cup Roles \cup Statuses

\* "post" is the update or deletion of a post, "term" any write to categories and tags.
Ops == {"post", "term", "editComment", "deleteComment", "setRole", "list"}
PCs == {"idle", "actor", "target", "write", "ok"}

Request == [op : Ops \cup {None}, pc : PCs, user : Users \cup {None},
            role : Roles \cup {None}, since : SUBSET Roles,
            target : Users \cup {None}, want : Roles \cup Statuses \cup {None},
            old : Roles \cup {None}, shown : SUBSET Statuses]

TypeOK ==
  /\ role \in [Users -> Roles]
  /\ req \in [Requests -> Request]

Idle == [op |-> None, pc |-> "idle", user |-> None, role |-> None, since |-> {},
         target |-> None, want |-> None, old |-> None, shown |-> {}]

DefaultRole == "user"
\* The first administrator is made by hand; accounts are registered as users.
Init ==
  /\ \E a \in Users : role = [u \in Users |-> IF u = a THEN "admin" ELSE DefaultRole]
  /\ req = [r \in Requests |-> Idle]

Actor(r) == req[r].user
\* A refusal, a failure, or the answer after the write, ends a request.
End(r) == req' = [req EXCEPT ![r] = Idle]
\* Past its last check a request does not look at the role again.
Grant(r) == req' = [req EXCEPT ![r].pc = "write", ![r].role = None]

Arrive(r, op, pc, u, target, want) ==
  /\ req[r].pc = "idle"
  /\ req' = [req EXCEPT ![r] = [Idle EXCEPT !.op = op, !.pc = pc, !.user = u, !.target = target,
       !.want = want, !.since = IF u = None THEN {} ELSE {role[u]}]]
  /\ UNCHANGED role

ArriveToEdit(r) == \E u, a \in Users, op \in {"post", "editComment", "deleteComment"} :
  Arrive(r, op, "actor", u, a, None)
ArriveForTerm(r) == \E u \in Users : Arrive(r, "term", "actor", u, None, None)
ArriveToSetRole(r) == \E u, t \in Users, to \in Roles : Arrive(r, "setRole", "actor", u, t, to)
ArriveToList(r) == \E u \in Users \cup {None}, s \in Statuses \cup {None} :
  Arrive(r, "list", IF u = None THEN "write" ELSE "actor", u, None, s)

-----------------------------------------------------------------------------
(* get_current_user loads the actor; require_admin and                     *)
(* require_editor_or_admin refuse before the route is entered.             *)

Required(op) == CASE op = "setRole" -> {"admin"}
                  [] op = "term" -> {"admin", "editor"}
                  [] OTHER -> Roles

LoadActor(r) ==
  /\ req[r].pc = "actor"
  /\ LET loaded == role[Actor(r)]
     IN  \/ loaded \notin Required(req[r].op) /\ End(r)
         \/ /\ loaded \in Required(req[r].op)
            /\ req' = [req EXCEPT ![r].role = loaded,
                 ![r].pc = IF req[r].op \in {"term", "list"} THEN "write" ELSE "target"]
  /\ UNCHANGED role

\* A token that is not accepted is a 401, and makes the reader of a list anonymous.
NotAuthenticated(r) ==
  /\ req[r].pc = "actor"
  /\ IF req[r].op = "list" THEN Grant(r) ELSE End(r)
  /\ UNCHANGED role

-----------------------------------------------------------------------------
(* Posts and comments: the author, who never changes, or a role.  Editors  *)
(* may not edit comments, only delete them.                                *)

MayTouchAny(op) == Roles
MayTouch(op) == IF op = "editComment" THEN {"admin"} ELSE {"admin", "editor"}

\* The check after the post or the comment is loaded; 404 when it is not there.
CheckAuthor(r) ==
  /\ req[r].pc = "target" /\ req[r].op \in {"post", "editComment", "deleteComment"}
  /\ \/ End(r)
     \/ (req[r].target = Actor(r) \/ req[r].role \in MayTouch(req[r].op)) /\ Grant(r)
  /\ UNCHANGED role

\* What is written is not a role, and the subject of another module.
WriteElsewhere(r) ==
  /\ req[r].pc = "write" /\ req[r].op \in {"post", "editComment", "deleteComment", "term"}
  /\ End(r)
  /\ UNCHANGED role

-----------------------------------------------------------------------------
(* update_role.  The actor's own row is in the session already: whoever    *)
(* sets its own role has the role of the first load compared with the new. *)

LoadTarget(r) ==
  /\ req[r].pc = "target" /\ req[r].op = "setRole"
  /\ \/ End(r)
     \/ req' = [req EXCEPT ![r].pc = "write", ![r].role = None,
          ![r].old = IF req[r].target = Actor(r) THEN req[r].role ELSE role[req[r].target]]
  /\ UNCHANGED role

\* An UPDATE names the column only when the value differs from the one loaded.
WrittenAlways(loaded, wanted, stored) == wanted
Written(loaded, wanted, stored) == IF wanted = loaded THEN stored ELSE wanted

SetRole(r) ==
  /\ req[r].pc = "write" /\ req[r].op = "setRole"
  /\ LET t == req[r].target
         new == Written(req[r].old, req[r].want, role[t])
     IN  /\ role' = [role EXCEPT ![t] = new]
         /\ req' = [q \in Requests |->
              IF q = r THEN Idle
              ELSE IF Actor(q) = t THEN [req[q] EXCEPT !.since = @ \cup {new}] ELSE req[q]]

-----------------------------------------------------------------------------
(* list_posts: whoever is neither editor nor administrator is answered     *)
(* with published posts, whatever status was asked for.                    *)

EffectiveStatus(r) == IF req[r].role \in {"admin", "editor"} THEN req[r].want ELSE "published"

ListPosts(r) ==
  /\ req[r].pc = "write" /\ req[r].op = "list"
  /\ req' = [req EXCEPT ![r].pc = "ok", ![r].role = None,
                        ![r].shown = {s \in Statuses : EffectiveStatus(r) \in {s, None}}]
  /\ UNCHANGED role

-----------------------------------------------------------------------------
Abort(r) ==
  /\ req[r].pc \in {"target", "write"}
  /\ End(r)
  /\ UNCHANGED role

AnswerList(r) ==
  /\ req[r].pc = "ok"
  /\ End(r)
  /\ UNCHANGED role

Next == \E r \in Requests :
  \/ ArriveToEdit(r) \/ ArriveForTerm(r) \/ ArriveToSetRole(r) \/ ArriveToList(r)
  \/ LoadActor(r) \/ NotAuthenticated(r) \/ CheckAuthor(r) \/ WriteElsewhere(r)
  \/ LoadTarget(r) \/ SetRole(r) \/ ListPosts(r) \/ Abort(r) \/ AnswerList(r)

Spec == Init /\ [][Next]_vars

-----------------------------------------------------------------------------
\* docs/API_GUIDE.md: the roles that may do what, beside the author.
Documented(op) == CASE op = "setRole" -> {"admin"}
                    [] op = "editComment" -> {"admin"}
                    [] OTHER -> {"admin", "editor"}

\* Past its checks, and doing what is not open to everyone.
Acts(r) == IF req[r].op = "list" THEN "draft" \in req[r].shown ELSE req[r].pc = "write"
Owns(r) == req[r].op \in {"post", "editComment", "deleteComment"} /\ req[r].target = Actor(r)

\* However roles change while a request runs, it acts only as the API guide lets its actor:
\* by a role the account has had since the request began, or on what is its own.
ActsAsDocumented == \A r \in Requests : Acts(r) =>
  Owns(r) \/ req[r].since \cap Documented(req[r].op) # {}

\* A role changes only to what was asked for by an account that has been an administrator
\* since the request began, and nobody reinstates himself: an administrator demoted while
\* it sets its own role stays demoted.
RoleGrants == [][\A u \in Users : role'[u] # role[u] =>
  \E r \in Requests :
    /\ req[r].op = "setRole" /\ req[r].target = u /\ req[r].want = role'[u]
    /\ "admin" \in req[r].since
    /\ role'[u] = "admin" => Actor(r) # u]_vars
=============================================================================
