---------------------------- MODULE AuthSessions ----------------------------
(***************************************************************************)
(* Refresh-token sessions: app/services/auth_service.py (login, logout,    *)
(* refresh_access_token, change_password, confirm_password_reset),         *)
(* app/services/user_service.py (soft_delete_account) and                  *)
(* app/repositories/refresh_token.py, run by concurrent requests.          *)
(*                                                                         *)
(* A request owns a database session.  Every await is a point where other  *)
(* requests run, so a handler is one action per statement it awaits.       *)
(* PostgreSQL runs the statements READ COMMITTED: a SELECT sees what is    *)
(* committed, an UPDATE waits for the row's lock and holds it to the end   *)
(* of the transaction.  A flush and the commit after it are one action     *)
(* when the transaction locks one row and reads nothing in between.        *)
(* Whether a presented password or JWT is genuine and unexpired is the     *)
(* client's affair: both outcomes are possible where the code checks it.   *)
(***************************************************************************)
EXTENDS Integers, FiniteSets

CONSTANTS Users,      \* accounts
          Requests,   \* requests that may be in flight together
          Jtis,       \* rows of refresh_tokens, in primary-key order
          MaxPw,      \* bound: no password change begins from epoch MaxPw on
          None

ASSUME JtisAssumption == Jtis \subseteq Nat /\ IsFiniteSet(Jtis)
ASSUME NoneAssumption == None \notin Users \cup Jtis

VARIABLES users,    \* users rows: password epoch (bumped by each change), is_deleted
          tokens,   \* refresh_tokens rows; parent and epoch are history
          req,      \* what each request has read and where it stands
          hist      \* history: what was committed when each request began

vars == <<users, tokens, req, hist>>

AccountOps == {"change", "reset", "delete"}   \* these write the users row and revoke all
Ops == AccountOps \cup {"login", "refresh", "logout"}
PCs == {"idle", "start", "user", "write", "select", "locking", "done"}
Results == {"none", "ok", "denied", "reused", "error"}

User == [pw : Nat, deleted : BOOLEAN]
Token == [status : {"absent", "live", "revoked"}, owner : Users \cup {None},
          parent : Jtis \cup {None}, epoch : Nat]
Request == [pc : PCs, op : Ops \cup {"none"}, user : Users \cup {None},
            jti : Jtis \cup {None}, pw : Nat, sel : SUBSET Jtis,
            held : SUBSET Jtis, res : Results]
History == [before : SUBSET Jtis, dead : BOOLEAN, gone : BOOLEAN]

TypeOK ==
  /\ users \in [Users -> User]
  /\ tokens \in [Jtis -> Token]
  /\ req \in [Requests -> Request]
  /\ hist \in [Requests -> History]

NoRow == [status |-> "absent", owner |-> None, parent |-> None, epoch |-> 0]
Idle == [pc |-> "idle", op |-> "none", user |-> None, jti |-> None, pw |-> 0,
         sel |-> {}, held |-> {}, res |-> "none"]
NoHistory == [before |-> {}, dead |-> FALSE, gone |-> FALSE]

Init ==
  /\ users = [u \in Users |-> [pw |-> 0, deleted |-> FALSE]]
  /\ tokens = [t \in Jtis |-> NoRow]
  /\ req = [r \in Requests |-> Idle]
  /\ hist = [r \in Requests |-> NoHistory]

-----------------------------------------------------------------------------
(* Rows, locks and the bounds.                                             *)

Issued(u) == {t \in Jtis : tokens[t].status # "absent" /\ tokens[t].owner = u}
LiveLogins(u) == {t \in Jtis : /\ tokens[t].status = "live" /\ tokens[t].owner = u
                               /\ tokens[t].parent = None}
LiveAnyone(u) == {t \in Jtis : tokens[t].status = "live"}
Live(u) == {t \in Jtis : tokens[t].status = "live" /\ tokens[t].owner = u}

\* Row locks are held by requests that revoke in bulk, from their UPDATE to the commit.
TokenFree(t) == \A q \in Requests : t \notin req[q].held
UserFree(u) == \A q \in Requests :
  ~(req[q].pc = "locking" /\ req[q].op \in AccountOps /\ req[q].user = u)

\* A new token gets a fresh row.  Rows are numbered as they are created.
Unused(n) == tokens[n].status = "absent"
Fresh(n) == Unused(n) /\ \A m \in Jtis : Unused(m) => n <= m

\* Bound: a request that may create a row begins only while a row is left for it.
Room == Cardinality({n \in Jtis : Unused(n)}) >
        Cardinality({q \in Requests :
          req[q].pc # "done" /\ (req[q].op = "login" \/ (req[q].op = "refresh" /\ ~hist[q].dead))})

At(r, op, pc) == req[r].op = op /\ req[r].pc = pc
Goto(r, pc) == req' = [req EXCEPT ![r].pc = pc]
Answer(r, res) ==
  req' = [req EXCEPT ![r].pc = "done", ![r].res = res, ![r].pw = 0, ![r].sel = {}, ![r].held = {}]

-----------------------------------------------------------------------------
(* A request arrives.                                                      *)

Begin(r, op, u, t) ==
  /\ req[r].pc = "idle"
  /\ req' = [req EXCEPT ![r] = [Idle EXCEPT !.pc = "start", !.op = op, !.user = u, !.jti = t]]
  /\ hist' = [hist EXCEPT ![r] = [before |-> Issued(u),
                                  dead |-> t # None /\ tokens[t].status = "revoked",
                                  gone |-> users[u].deleted]]
  /\ UNCHANGED <<users, tokens>>

BeginLogin(r) == \E u \in Users : Room /\ Begin(r, "login", u, None)

BeginWithToken(r) == \E u \in Users : \E t \in Issued(u) :
  \/ (Room \/ tokens[t].status = "revoked") /\ Begin(r, "refresh", u, t)
  \/ Begin(r, "logout", u, t)

\* Changing the password and deleting the account need an access token, so a login
\* before; a reset needs the mailed token only.
BeginOnAccount(r) == \E u \in Users :
  \/ users[u].pw < MaxPw /\ Issued(u) # {} /\ Begin(r, "change", u, None)
  \/ users[u].pw < MaxPw /\ Begin(r, "reset", u, None)
  \/ Issued(u) # {} /\ Begin(r, "delete", u, None)

-----------------------------------------------------------------------------
(* login: SELECT the user, verify, INSERT the token.                       *)

LoginReadAnyUser(r) ==
  /\ At(r, "login", "start")
  /\ Answer(r, "denied") \/ Goto(r, "write")
  /\ UNCHANGED <<users, tokens, hist>>

LoginRead(r) ==
  /\ At(r, "login", "start")
  /\ \/ Answer(r, "denied")
     \/ /\ ~users[req[r].user].deleted
        /\ req' = [req EXCEPT ![r].pc = "write", ![r].pw = users[req[r].user].pw]
  /\ UNCHANGED <<users, tokens, hist>>

NewToken(u, parent, epoch) ==
  [status |-> "live", owner |-> u, parent |-> parent, epoch |-> epoch]

LoginCommit(r) ==
  /\ At(r, "login", "write")
  /\ \E n \in Jtis :
       /\ Fresh(n)
       /\ tokens' = [tokens EXCEPT ![n] = NewToken(req[r].user, None, req[r].pw)]
  /\ Answer(r, "ok")
  /\ UNCHANGED <<users, hist>>

-----------------------------------------------------------------------------
(* refresh_access_token: SELECT the token, SELECT its user, rotate.        *)

RefreshLoadUnchecked(r) ==
  /\ At(r, "refresh", "start")
  /\ Answer(r, "denied") \/ Goto(r, "user")
  /\ UNCHANGED <<users, tokens, hist>>

RefreshLoad(r) ==
  /\ At(r, "refresh", "start")
  /\ \/ Answer(r, "denied")
     \/ tokens[req[r].jti].status = "revoked" /\ Goto(r, "select")
     \/ tokens[req[r].jti].status = "live" /\ Goto(r, "user")
  /\ UNCHANGED <<users, tokens, hist>>

RefreshLoadUser(r) ==
  /\ At(r, "refresh", "user")
  /\ \/ users[req[r].user].deleted /\ Answer(r, "denied")
     \/ ~users[req[r].user].deleted /\ Goto(r, "write")
  /\ UNCHANGED <<users, tokens, hist>>

RotateKeepingOld(old, new) ==
  tokens' = [tokens EXCEPT ![new] = NewToken(tokens[old].owner, old, tokens[old].epoch)]

Rotate(old, new) ==
  tokens' = [tokens EXCEPT ![old].status = "revoked",
                           ![new] = NewToken(tokens[old].owner, old, tokens[old].epoch)]

RefreshCommit(r) ==
  /\ At(r, "refresh", "write")
  /\ TokenFree(req[r].jti)
  /\ \E n \in Jtis : Fresh(n) /\ Rotate(req[r].jti, n)
  /\ Answer(r, "ok")
  /\ UNCHANGED <<users, hist>>

-----------------------------------------------------------------------------
(* logout: an access token that does not decode skips the service call and *)
(* still answers 200; a token already revoked needs no UPDATE.             *)

LogoutLoad(r) ==
  /\ At(r, "logout", "start")
  /\ \/ Answer(r, "ok")
     \/ tokens[req[r].jti].status = "live" /\ Goto(r, "write")
  /\ UNCHANGED <<users, tokens, hist>>

LogoutCommit(r) ==
  /\ At(r, "logout", "write")
  /\ TokenFree(req[r].jti)
  /\ tokens' = [tokens EXCEPT ![req[r].jti].status = "revoked"]
  /\ Answer(r, "ok")
  /\ UNCHANGED <<users, hist>>

-----------------------------------------------------------------------------
(* change_password, soft_delete_account, confirm_password_reset: load the  *)
(* user, then revoke_all_for_user, whose SELECT flushes the users row      *)
(* first; the reuse branch of refresh revokes without touching that row.   *)

GetCurrentUser(r) ==
  /\ req[r].op \in {"change", "delete"} /\ req[r].pc = "start"
  /\ \/ Answer(r, "denied")
     \/ /\ ~users[req[r].user].deleted
        /\ req' = [req EXCEPT ![r].pc = "select", ![r].pw = users[req[r].user].pw]
  /\ UNCHANGED <<users, tokens, hist>>

ResetLoad(r) ==
  /\ At(r, "reset", "start")
  /\ Answer(r, "denied") \/ Goto(r, "select")
  /\ UNCHANGED <<users, tokens, hist>>

SelectLive(r) ==
  /\ req[r].pc = "select"
  /\ req[r].op \in AccountOps => UserFree(req[r].user)
  /\ req' = [req EXCEPT ![r].pc = "locking", ![r].sel = Live(req[r].user)]
  /\ UNCHANGED <<users, tokens, hist>>

\* The flush updates the dirty rows in primary-key order, waiting for each lock.
Unlocked(r) == req[r].sel \ req[r].held
FirstUnsorted(r, t) ==
  \A s \in Unlocked(r) : IF req[r].op = "refresh" THEN t >= s ELSE t <= s
First(r, t) == \A s \in Unlocked(r) : t <= s

LockRow(r) ==
  /\ req[r].pc = "locking"
  /\ \E t \in Unlocked(r) :
       /\ First(r, t) /\ TokenFree(t)
       /\ req' = [req EXCEPT ![r].held = @ \cup {t}]
  /\ UNCHANGED <<users, tokens, hist>>

Revoked(S) == [t \in Jtis |-> IF t \in S THEN [tokens[t] EXCEPT !.status = "revoked"] ELSE tokens[t]]

CommitRevocation(r) ==
  /\ req[r].pc = "locking" /\ req[r].held = req[r].sel
  /\ tokens' = Revoked(req[r].sel)
  /\ \/ /\ req[r].op \in {"change", "reset"}
        /\ users' = [users EXCEPT ![req[r].user].pw = @ + 1]
        /\ Answer(r, "ok")
     \/ /\ req[r].op = "delete"
        /\ users' = [users EXCEPT ![req[r].user].deleted = TRUE]
        /\ Answer(r, "ok")
     \/ req[r].op = "refresh" /\ Answer(r, "reused") /\ UNCHANGED users
  /\ UNCHANGED hist

-----------------------------------------------------------------------------
(* A failure at any await rolls the transaction back: get_db, and the      *)
(* except in logout, which hides it and answers 200.                       *)

Abort(r) ==
  /\ req[r].pc \notin {"idle", "done"}
  /\ Answer(r, "error") \/ (req[r].op = "logout" /\ Answer(r, "ok"))
  /\ UNCHANGED <<users, tokens, hist>>

Finish(r) ==
  /\ req[r].pc = "done"
  /\ req' = [req EXCEPT ![r] = Idle]
  /\ hist' = [hist EXCEPT ![r] = NoHistory]
  /\ UNCHANGED <<users, tokens>>

Arrive(r) == BeginLogin(r) \/ BeginWithToken(r) \/ BeginOnAccount(r)
Acquire(r) == RefreshCommit(r) \/ LogoutCommit(r) \/ SelectLive(r) \/ LockRow(r)
Step(r) ==
  \/ LoginRead(r) \/ LoginCommit(r)
  \/ RefreshLoad(r) \/ RefreshLoadUser(r)
  \/ LogoutLoad(r)
  \/ GetCurrentUser(r) \/ ResetLoad(r)
  \/ CommitRevocation(r) \/ Finish(r)

Next == \E r \in Requests : Arrive(r) \/ Acquire(r) \/ Step(r) \/ Abort(r)

Spec == Init /\ [][Next]_vars

\* The event loop resumes every request whose await has completed, and PostgreSQL
\* grants a row lock in the order it was asked for.
FairSpec == Spec /\ \A r \in Requests : WF_vars(Step(r)) /\ SF_vars(Acquire(r))

-----------------------------------------------------------------------------
(* Properties.                                                             *)

Begun(r) == req[r].pc # "idle"
Succeeded(r, op) == req[r].op = op /\ req[r].pc = "done" /\ req[r].res = "ok"

\* Rotation is all or nothing: a token obtained by refreshing belongs to the account
\* of the token it replaces, and that one is revoked, whatever failed on the way.
RotationAtomic == \A t \in Jtis : LET p == tokens[t].parent IN
  p # None => /\ tokens[p].status = "revoked"
              /\ tokens[p].owner = tokens[t].owner
              /\ tokens[p].epoch = tokens[t].epoch

\* Once a password change, a reset, an account deletion or a reuse alarm has answered,
\* every session that existed when the request arrived is dead.
RevokedAll(r) == req[r].pc = "done" /\ (req[r].res = "reused" \/ (req[r].op \in AccountOps /\ req[r].res = "ok"))
RevokeAllCoversEarlier == \A r \in Requests :
  RevokedAll(r) => \A t \in hist[r].before : tokens[t].status = "revoked"

\* A refresh with a token that was already revoked when the request arrived is never
\* answered with new tokens.
RevokedTokenRefused == \A r \in Requests : Succeeded(r, "refresh") => ~hist[r].dead

\* Once an account is deleted, no later request logs in to it, refreshes its sessions
\* or changes it with an access token that is still valid.
DeletedAccountRefused == \A r \in Requests : \A op \in {"login", "refresh", "change", "delete"} :
  Succeeded(r, op) => ~hist[r].gone

\* A row stays revoked and keeps its owner: no stale snapshot is written back over a
\* revocation, and no jti is used twice.
RevokedForever == [][\A t \in Jtis : tokens[t].status = "revoked" =>
  /\ tokens'[t].status = "revoked"
  /\ tokens'[t].owner = tokens[t].owner /\ tokens'[t].parent = tokens[t].parent]_vars

\* r waits for a lock that q holds: for the next row of its flush, for the users row, or
\* for the row it rotates or revokes.
WaitsFor(r, q) ==
  \/ req[r].pc = "locking" /\ \E t \in Unlocked(r) : First(r, t) /\ t \in req[q].held
  \/ /\ req[r].pc = "select" /\ req[r].op \in AccountOps
     /\ req[q].pc = "locking" /\ req[q].op \in AccountOps /\ req[q].user = req[r].user
  \/ req[r].pc = "write" /\ req[r].op \in {"refresh", "logout"} /\ req[r].jti \in req[q].held

\* No set of requests waits only for each other, however bulk revocations, rotations and
\* logouts of one account meet: PostgreSQL never has a deadlock to break.
NoDeadlock == \A S \in SUBSET Requests :
  S # {} => \E r \in S : \A q \in S : ~WaitsFor(r, q)

\* No request waits forever: the bulk revocations and the rotations lock rows in one
\* order, so every request is answered.
EveryRequestAnswered == \A r \in Requests : Begun(r) ~> req[r].pc = "done"

\* The rows, seen without requests, statements and locks, open, hand on and close
\* sessions in single steps that each stay within one account.
Store == INSTANCE SessionStore WITH
  status <- [t \in Jtis |-> tokens[t].status], owner <- [t \in Jtis |-> tokens[t].owner]
StoreSpec == Store!Spec

\* A refresh token is exchanged once: no two tokens replace the same one.
SingleUse == \A s, t \in Jtis :
  tokens[s].parent # None /\ tokens[s].parent = tokens[t].parent => s = t
=============================================================================
