------------------------- MODULE AuthSessionsProofs -------------------------
(***************************************************************************)
(* Proofs about AuthSessions, for every set of accounts, requests and rows *)
(* and for every bound.  Rows only move forward (Monotone), so a request   *)
(* that stands still keeps what it knows (OthersKeep); each action is then *)
(* checked for the request that takes it.                                  *)
(***************************************************************************)
EXTENDS AuthSessions, FiniteSetTheorems, TLAPS

\* What request r knows about the rows while it runs, part by part.
Refs(r) ==
  /\ req[r].pc = "idle" => hist[r] = NoHistory
  /\ req[r].pc # "idle" => req[r].user \in Users /\ req[r].op \in Ops
  /\ req[r].pc # "idle" /\ req[r].op \in {"refresh", "logout"} =>
       /\ req[r].jti \in Jtis
       /\ tokens[req[r].jti].status # "absent"
       /\ tokens[req[r].jti].owner = req[r].user
  /\ req[r].pc = "user" => req[r].op = "refresh"
  /\ req[r].pc = "write" => req[r].op \in {"login", "refresh", "logout"}
  /\ req[r].pc \in {"select", "locking"} => req[r].op \in AccountOps \cup {"refresh"}
  /\ req[r].pc # "done" => req[r].res = "none"
  /\ req[r].res = "reused" => req[r].op = "refresh"
  /\ \A t \in req[r].sel : tokens[t].status # "absent" /\ tokens[t].owner = req[r].user

Covers(r) ==
  /\ \A t \in hist[r].before : tokens[t].status # "absent" /\ tokens[t].owner = req[r].user
  /\ req[r].pc = "locking" =>
       \A t \in hist[r].before : t \in req[r].sel \/ tokens[t].status = "revoked"
  /\ RevokedAll(r) => \A t \in hist[r].before : tokens[t].status = "revoked"

DeadEnds(r) == req[r].op = "refresh" /\ hist[r].dead =>
  /\ tokens[req[r].jti].status = "revoked"
  /\ req[r].pc \notin {"user", "write"}
  /\ req[r].res # "ok"

GoneEnds(r) == hist[r].gone =>
  /\ users[req[r].user].deleted
  /\ req[r].op \in {"login", "refresh"} => req[r].pc # "write"
  /\ req[r].op \in {"change", "delete"} => req[r].pc \notin {"select", "locking"}
  /\ req[r].op \in {"login", "refresh", "change", "delete"} => req[r].res # "ok"

Knows(r) == Refs(r) /\ Covers(r) /\ DeadEnds(r) /\ GoneEnds(r)

IInv == TypeOK /\ RotationAtomic /\ \A r \in Requests : Knows(r)

\* A row that exists keeps its owner, parent and epoch and never comes back to life;
\* a deleted account stays deleted.
Grows ==
  /\ \A t \in Jtis : tokens[t].status # "absent" =>
       /\ tokens'[t].status # "absent"
       /\ tokens'[t].owner = tokens[t].owner
       /\ tokens'[t].parent = tokens[t].parent
       /\ tokens'[t].epoch = tokens[t].epoch
       /\ tokens[t].status = "revoked" => tokens'[t].status = "revoked"
  /\ \A u \in Users : users[u].deleted => users'[u].deleted

-----------------------------------------------------------------------------
(* The steps that change only the request record keep its type.            *)
\* Moving to the next await keeps the type of the request records.
LEMMA GotoTyped ==
  ASSUME req \in [Requests -> Request], NEW r \in Requests, NEW pc \in PCs, Goto(r, pc)
  PROVE  req' \in [Requests -> Request]
BY DEF Goto, Request

\* So does answering.
LEMMA AnswerTyped ==
  ASSUME req \in [Requests -> Request], NEW r \in Requests, NEW res \in Results, Answer(r, res)
  PROVE  req' \in [Requests -> Request]
<1> DEFINE R == [req[r] EXCEPT !.pc = "done", !.res = res, !.pw = 0, !.sel = {}, !.held = {}]
<1>1. R \in Request
  BY ZenonT(60) DEF Request, PCs
<1>2. req' = [req EXCEPT ![r] = R]
  BY DEF Answer
<1> QED
  BY <1>1, <1>2

\* Every step keeps the types.
LEMMA TypeStep == TypeOK /\ (\A r \in Requests : Refs(r)) /\ [Next]_vars => TypeOK'
<1> SUFFICES ASSUME TypeOK, \A r \in Requests : Refs(r), [Next]_vars PROVE TypeOK'
  OBVIOUS
<1> USE NoneAssumption, JtisAssumption
<1>0. /\ users \in [Users -> User] /\ tokens \in [Jtis -> Token]
      /\ req \in [Requests -> Request] /\ hist \in [Requests -> History]
  BY DEF TypeOK
<1>a. ASSUME NEW r \in Requests, NEW res \in Results, Answer(r, res), hist' = hist,
             users' \in [Users -> User], tokens' \in [Jtis -> Token]
      PROVE TypeOK'
  BY <1>0, <1>a, AnswerTyped DEF TypeOK
<1>b. ASSUME NEW r \in Requests, NEW pc \in PCs, Goto(r, pc), UNCHANGED <<users, tokens, hist>>
      PROVE TypeOK'
  BY <1>0, <1>b, GotoTyped DEF TypeOK
<1>1. CASE UNCHANGED vars
  BY <1>1 DEF vars, TypeOK
<1>2. ASSUME NEW r \in Requests, Arrive(r) PROVE TypeOK'
  <2>1. ASSUME NEW op \in Ops, NEW u \in Users, NEW t \in Jtis \cup {None}, Begin(r, op, u, t)
        PROVE TypeOK'
    BY <2>1 DEF TypeOK, Begin, Idle, Issued, Request, History, PCs, Ops, AccountOps, Results, User
  <2> QED
    BY <1>2, <2>1 DEF Arrive, BeginLogin, BeginWithToken, BeginOnAccount, Issued, Ops, AccountOps
<1>3. ASSUME NEW r \in Requests, Acquire(r) PROVE TypeOK'
  <2>1. CASE RefreshCommit(r)
    <3>1. req[r].jti \in Jtis
      BY <2>1 DEF RefreshCommit, At, Refs
    <3>2. ASSUME NEW n \in Jtis, Rotate(req[r].jti, n) PROVE tokens' \in [Jtis -> Token]
      BY <1>0, <3>1, <3>2 DEF Rotate, NewToken, Token
    <3> QED
      BY <1>0, <1>a, <2>1, <3>2 DEF RefreshCommit, Results
  <2>2. CASE LogoutCommit(r)
    <3>1. tokens' \in [Jtis -> Token]
      BY <1>0, <2>2, ZenonT(60) DEF LogoutCommit, Token
    <3> QED
      BY <1>0, <1>a, <2>2, <3>1 DEF LogoutCommit, Results
  <2>3. CASE SelectLive(r)
    <3>1. Live(req[r].user) \in SUBSET Jtis
      BY DEF Live
    <3>2. req' = [req EXCEPT ![r] = [@ EXCEPT !.pc = "locking", !.sel = Live(req[r].user)]]
      BY <2>3 DEF SelectLive
    <3>3. [req[r] EXCEPT !.pc = "locking", !.sel = Live(req[r].user)] \in Request
      BY <1>0, <3>1, ZenonT(60) DEF Request, PCs
    <3> QED
      BY <1>0, <2>3, <3>2, <3>3 DEF TypeOK, SelectLive
  <2>4. CASE LockRow(r)
    BY <2>4, SMTT(30) DEF TypeOK, LockRow, Unlocked, Request
  <2> QED
    BY <1>3, <2>1, <2>2, <2>3, <2>4 DEF Acquire
<1>4. ASSUME NEW r \in Requests, Step(r) PROVE TypeOK'
  <2>u. ASSUME NEW pc \in PCs, req[r].user \in Users, UNCHANGED <<users, tokens, hist>>,
               req' = [req EXCEPT ![r].pc = pc, ![r].pw = users[req[r].user].pw]
        PROVE TypeOK'
    <3>1. users[req[r].user].pw \in Nat
      BY <1>0, <2>u DEF User
    <3>2. [req[r] EXCEPT !.pc = pc, !.pw = users[req[r].user].pw] \in Request
      BY <1>0, <3>1, ZenonT(60) DEF Request
    <3> QED
      BY <1>0, <2>u, <3>2 DEF TypeOK
  <2>1. CASE LoginRead(r)
    BY <1>0, <1>a, <2>1, <2>u DEF Refs, LoginRead, At, PCs, Results
  <2>2. CASE LoginCommit(r)
    <3>1. req[r].user \in Users /\ req[r].pw \in Nat
      BY <1>0, <2>2 DEF LoginCommit, At, Refs, Request
    <3>2. tokens' \in [Jtis -> Token]
      BY <1>0, <2>2, <3>1 DEF LoginCommit, NewToken, Token
    <3> QED
      BY <1>0, <1>a, <2>2, <3>2 DEF LoginCommit, Results
  <2>3. CASE RefreshLoad(r) \/ RefreshLoadUser(r) \/ LogoutLoad(r) \/ ResetLoad(r)
    BY <1>0, <1>a, <1>b, <2>3 DEF RefreshLoad, RefreshLoadUser, LogoutLoad, ResetLoad, PCs, Results
  <2>4. CASE GetCurrentUser(r)
    BY <1>0, <1>a, <2>4, <2>u DEF Refs, GetCurrentUser, PCs, Results
  <2>5. CASE CommitRevocation(r)
    <3>1. tokens' \in [Jtis -> Token]
      BY <1>0, <2>5 DEF CommitRevocation, Revoked, Token
    <3>2. users' \in [Users -> User]
      <4>1. req[r].user \in Users
        BY <2>5 DEF CommitRevocation, Refs
      <4>2. ASSUME NEW row \in User
            PROVE  [row EXCEPT !.deleted = TRUE] \in User
        BY DEF User
      <4>3. CASE users' = [users EXCEPT ![req[r].user].pw = @ + 1]
        BY <1>0, <4>1, <4>3 DEF User
      <4>4. CASE users' = [users EXCEPT ![req[r].user].deleted = TRUE]
        BY <1>0, <4>1, <4>2, <4>4
      <4> QED
        BY <1>0, <2>5, <4>3, <4>4 DEF CommitRevocation
    <3> QED
      BY <1>a, <2>5, <3>1, <3>2 DEF CommitRevocation, Results
  <2>6. CASE Finish(r)
    BY <2>6 DEF TypeOK, Finish, Idle, NoHistory, Request, History, PCs, Results
  <2> QED
    BY <1>4, <2>1, <2>2, <2>3, <2>4, <2>5, <2>6 DEF Step
<1>5. ASSUME NEW r \in Requests, Abort(r) PROVE TypeOK'
  BY <1>0, <1>a, <1>5 DEF Abort, Results
<1> QED
  BY <1>1, <1>2, <1>3, <1>4, <1>5 DEF Next

-----------------------------------------------------------------------------
\* Only four actions write rows, and they only move them forward.
LEMMA Writers ==
  [Next]_vars => \/ UNCHANGED <<users, tokens>>
                 \/ \E r \in Requests : \/ LoginCommit(r) \/ RefreshCommit(r)
                                        \/ LogoutCommit(r) \/ CommitRevocation(r)
BY ZenonT(60) DEF Next, Arrive, Acquire, Step, Abort, BeginLogin,
   BeginWithToken, BeginOnAccount, Begin, LoginRead, RefreshLoad, RefreshLoadUser,
   LogoutLoad, GetCurrentUser, ResetLoad, SelectLive, LockRow, Finish, vars

\* No step moves a row backward.
LEMMA StepGrows == IInv /\ [Next]_vars => Grows
<1> SUFFICES ASSUME IInv, [Next]_vars PROVE Grows
  OBVIOUS
<1> USE NoneAssumption, JtisAssumption DEF IInv
<1>1. CASE UNCHANGED <<users, tokens>>
  BY <1>1 DEF Grows
<1>2. ASSUME NEW r \in Requests, LoginCommit(r) PROVE Grows
  BY <1>2 DEF LoginCommit, Fresh, Unused, NewToken, Grows, TypeOK, Token
<1>3. ASSUME NEW r \in Requests, RefreshCommit(r) PROVE Grows
  <2>1. req[r].jti \in Jtis
    BY <1>3 DEF RefreshCommit, At, Knows, Refs
  <2> QED
    BY <1>3, <2>1 DEF RefreshCommit, Rotate, Fresh, Unused, NewToken, Grows, TypeOK, Token
<1>4. ASSUME NEW r \in Requests, LogoutCommit(r) PROVE Grows
  BY <1>4 DEF LogoutCommit, Grows, TypeOK, Token
<1>5. ASSUME NEW r \in Requests, CommitRevocation(r) PROVE Grows
  <2>1. ASSUME NEW t \in Jtis
        PROVE  \/ tokens'[t] = tokens[t]
               \/ tokens'[t] = [tokens[t] EXCEPT !.status = "revoked"]
    BY <1>5 DEF CommitRevocation, Revoked
  <2>2. ASSUME NEW u \in Users, users[u].deleted PROVE users'[u].deleted
    BY <1>5, <2>2 DEF CommitRevocation, TypeOK, User
  <2>3. ASSUME NEW t \in Jtis, tokens[t].status # "absent"
        PROVE  /\ tokens'[t].status # "absent"
               /\ tokens'[t].owner = tokens[t].owner
               /\ tokens'[t].parent = tokens[t].parent
               /\ tokens'[t].epoch = tokens[t].epoch
               /\ tokens[t].status = "revoked" => tokens'[t].status = "revoked"
    <3>1. tokens[t] \in Token
      BY DEF TypeOK
    <3> QED
      BY <2>1, <2>3, <3>1 DEF Token
  <2> QED
    BY <2>2, <2>3 DEF Grows
<1> QED
  BY <1>1, <1>2, <1>3, <1>4, <1>5, Writers

\* A request that stands still keeps what it knows.
LEMMA OthersKeep ==
  ASSUME IInv, Grows, NEW q \in Requests, req'[q] = req[q], hist'[q] = hist[q]
  PROVE  Knows(q)'
<1>0. Knows(q) /\ req[q] \in Request /\ hist[q] \in History
  BY DEF IInv, TypeOK
<1>1. Refs(q)'
  <2>1. \A t \in req[q].sel : tokens'[t].status # "absent" /\ tokens'[t].owner = req[q].user
    BY <1>0 DEF Knows, Refs, Grows, Request
  <2>2. req[q].pc # "idle" /\ req[q].op \in {"refresh", "logout"} =>
          /\ req[q].jti \in Jtis
          /\ tokens'[req[q].jti].status # "absent"
          /\ tokens'[req[q].jti].owner = req[q].user
    BY <1>0 DEF Knows, Refs, Grows
  <2> QED
    BY <1>0, <2>1, <2>2 DEF Knows, Refs
<1>2. Covers(q)'
  <2>1. \A t \in hist[q].before : t \in Jtis
    BY <1>0 DEF History
  <2> QED
    BY <1>0, <2>1 DEF Knows, Covers, Grows, RevokedAll
<1>3. DeadEnds(q)'
  <2>1. req[q].op = "refresh" /\ hist[q].dead => req[q].jti \in Jtis
    BY <1>0 DEF Knows, Refs, NoHistory
  <2> QED
    BY <1>0, <2>1 DEF Knows, DeadEnds, Grows
<1>4. GoneEnds(q)'
  <2>1. hist[q].gone => req[q].user \in Users
    BY <1>0 DEF Knows, Refs, NoHistory
  <2> QED
    BY <1>0, <2>1 DEF Knows, GoneEnds, Grows
<1> QED
  BY <1>1, <1>2, <1>3, <1>4 DEF Knows

-----------------------------------------------------------------------------
(* The request that takes the step.                                        *)
\* What an answer changes, field by field.
LEMMA AnswerFields ==
  ASSUME TypeOK, NEW r \in Requests, NEW res \in Results, Answer(r, res)
  PROVE  /\ req'[r].pc = "done" /\ req'[r].res = res /\ req'[r].sel = {}
         /\ req'[r].op = req[r].op /\ req'[r].user = req[r].user /\ req'[r].jti = req[r].jti
         /\ \A q \in Requests \ {r} : req'[q] = req[q]
BY DEF TypeOK, Answer, Request

\* What moving to the next await changes.
LEMMA GotoFields ==
  ASSUME TypeOK, NEW r \in Requests, NEW pc \in PCs, Goto(r, pc)
  PROVE  /\ req'[r] = [req[r] EXCEPT !.pc = pc]
         /\ \A q \in Requests \ {r} : req'[q] = req[q]
BY DEF TypeOK, Goto

\* An answer other than that of a bulk revocation.
LEMMA AnswerKnows ==
  ASSUME IInv, Grows, NEW r \in Requests, req[r].pc \notin {"idle", "done"},
         NEW res \in Results \ {"reused"}, Answer(r, res), hist' = hist,
         res = "ok" => /\ req[r].op \notin AccountOps
                       /\ req[r].op # "logout" => ~hist[r].gone
                       /\ req[r].op = "refresh" => ~hist[r].dead
  PROVE  Knows(r)'
<1>0. TypeOK /\ Knows(r) /\ req[r] \in Request /\ hist[r] \in History
  BY DEF IInv, TypeOK
<1>1. /\ req'[r].pc = "done" /\ req'[r].res = res /\ req'[r].sel = {}
      /\ req'[r].op = req[r].op /\ req'[r].user = req[r].user /\ req'[r].jti = req[r].jti
  BY <1>0, AnswerFields
<1>2. Refs(r)'
  BY <1>0, <1>1 DEF Knows, Refs, Grows, Results
<1>3. Covers(r)'
  <2>1. \A t \in hist[r].before : t \in Jtis
    BY <1>0 DEF History
  <2>2. ~RevokedAll(r)'
    BY <1>0, <1>1 DEF RevokedAll, AccountOps, Results
  <2> QED
    BY <1>0, <1>1, <2>1, <2>2 DEF Knows, Covers, Grows
<1>4. DeadEnds(r)'
  BY <1>0, <1>1 DEF Knows, Refs, DeadEnds, Grows
<1>5. GoneEnds(r)'
  BY <1>0, <1>1 DEF Knows, Refs, GoneEnds, Grows
<1> QED
  BY <1>2, <1>3, <1>4, <1>5 DEF Knows

\* A step from one await to the next that reads and does not write.
LEMMA AdvanceKnows ==
  ASSUME IInv, NEW r \in Requests, req[r].pc \in {"start", "user"},
         NEW pc \in {"user", "write", "select"}, UNCHANGED <<users, tokens, hist>>,
         req'[r] = [req[r] EXCEPT !.pc = pc] \/ \E pw \in Nat : req'[r] = [req[r] EXCEPT !.pc = pc, !.pw = pw],
         pc = "user" => req[r].op = "refresh",
         pc = "write" => req[r].op \in {"login", "refresh", "logout"},
         pc = "select" => req[r].op \in AccountOps \cup {"refresh"},
         req[r].op = "refresh" /\ hist[r].dead => pc = "select",
         hist[r].gone => /\ req[r].op \in {"login", "refresh"} => pc # "write"
                         /\ req[r].op \in {"change", "delete"} => pc # "select"
  PROVE  Knows(r)'
<1>0. TypeOK /\ Knows(r) /\ req[r] \in Request
  BY DEF IInv, TypeOK
<1>1. /\ req'[r].pc = pc /\ req'[r].res = req[r].res /\ req'[r].sel = req[r].sel
      /\ req'[r].op = req[r].op /\ req'[r].user = req[r].user /\ req'[r].jti = req[r].jti
  BY <1>0 DEF Request
<1>2. Refs(r)'
  BY <1>0, <1>1 DEF Knows, Refs
<1>3. Covers(r)'
  BY <1>0, <1>1 DEF Knows, Refs, Covers, RevokedAll
<1>4. DeadEnds(r)'
  BY <1>0, <1>1 DEF Knows, Refs, DeadEnds
<1>5. GoneEnds(r)'
  BY <1>0, <1>1 DEF Knows, Refs, GoneEnds
<1> QED
  BY <1>2, <1>3, <1>4, <1>5 DEF Knows

\* A request arrives.
LEMMA BeginKnows ==
  ASSUME IInv, NEW r \in Requests, NEW op \in Ops, NEW u \in Users, NEW t \in Jtis \cup {None},
         Begin(r, op, u, t), op \in {"refresh", "logout"} => t \in Issued(u)
  PROVE  Knows(r)'
<1>0. TypeOK
  BY DEF IInv
<1>1. /\ req'[r] = [Idle EXCEPT !.pc = "start", !.op = op, !.user = u, !.jti = t]
      /\ hist'[r] = [before |-> Issued(u), dead |-> t # None /\ tokens[t].status = "revoked",
                     gone |-> users[u].deleted]
      /\ UNCHANGED <<users, tokens>>
  BY <1>0 DEF Begin, TypeOK
<1>2. /\ req'[r].pc = "start" /\ req'[r].op = op /\ req'[r].user = u /\ req'[r].jti = t
      /\ req'[r].sel = {} /\ req'[r].res = "none"
  BY <1>1 DEF Idle
<1>3. /\ hist'[r].before = Issued(u) /\ hist'[r].gone = users[u].deleted
      /\ hist'[r].dead = (t # None /\ tokens[t].status = "revoked")
  BY <1>1
<1>4. Refs(r)'
  BY <1>1, <1>2 DEF Refs, Issued
<1>5. Covers(r)'
  BY <1>1, <1>2, <1>3 DEF Covers, Issued, RevokedAll
<1>6. DeadEnds(r)'
  BY <1>1, <1>2, <1>3 DEF DeadEnds
<1>7. GoneEnds(r)'
  BY <1>1, <1>2, <1>3 DEF GoneEnds
<1> QED
  BY <1>4, <1>5, <1>6, <1>7 DEF Knows

\* The bulk revocation selects every live row of the account.
LEMMA SelectKnows == ASSUME IInv, NEW r \in Requests, SelectLive(r) PROVE Knows(r)'
<1>0. TypeOK /\ Knows(r) /\ req[r] \in Request /\ hist[r] \in History
  BY DEF IInv, TypeOK
<1>1. /\ req'[r].pc = "locking" /\ req'[r].res = req[r].res /\ req'[r].sel = Live(req[r].user)
      /\ req'[r].op = req[r].op /\ req'[r].user = req[r].user /\ req'[r].jti = req[r].jti
  BY <1>0 DEF SelectLive, TypeOK, Request
<1>2. Refs(r)'
  BY <1>0, <1>1 DEF SelectLive, Knows, Refs, Live
<1>3. Covers(r)'
  <2>1. \A t \in hist[r].before : tokens[t].status \in {"live", "revoked"} /\ tokens[t].owner = req[r].user
    BY <1>0 DEF Knows, Covers, TypeOK, History, Token
  <2>2. \A t \in hist[r].before : t \in Live(req[r].user) \/ tokens[t].status = "revoked"
    BY <1>0, <2>1 DEF Live, History
  <2> QED
    BY <1>0, <1>1, <2>1, <2>2 DEF SelectLive, Covers, RevokedAll
<1>4. DeadEnds(r)'
  BY <1>0, <1>1 DEF SelectLive, Knows, DeadEnds
<1>5. GoneEnds(r)'
  BY <1>0, <1>1 DEF SelectLive, Knows, GoneEnds
<1> QED
  BY <1>2, <1>3, <1>4, <1>5 DEF Knows

\* Locking one more row changes nothing the request relies on.
LEMMA LockKnows == ASSUME IInv, NEW r \in Requests, LockRow(r) PROVE Knows(r)'
<1>0. TypeOK /\ Knows(r) /\ req[r] \in Request
  BY DEF IInv, TypeOK
<1>1. /\ req'[r].pc = req[r].pc /\ req'[r].res = req[r].res /\ req'[r].sel = req[r].sel
      /\ req'[r].op = req[r].op /\ req'[r].user = req[r].user /\ req'[r].jti = req[r].jti
      /\ UNCHANGED <<users, tokens, hist>>
  BY <1>0 DEF LockRow, TypeOK, Request
<1> QED
  BY <1>0, <1>1 DEF Knows, Refs, Covers, RevokedAll, DeadEnds, GoneEnds

\* The bulk revocation commits: every earlier session was selected or is dead already.
LEMMA RevocationKnows ==
  ASSUME IInv, Grows, NEW r \in Requests, CommitRevocation(r)
  PROVE  Knows(r)'
<1>0. TypeOK /\ Knows(r) /\ req[r] \in Request /\ hist[r] \in History /\ req[r].pc = "locking"
  BY DEF IInv, TypeOK, CommitRevocation
<1>1. PICK res \in {"ok", "reused"} :
        /\ Answer(r, res) /\ hist' = hist
        /\ res = "ok" => req[r].op \in AccountOps
        /\ res = "reused" => req[r].op = "refresh"
  BY DEF CommitRevocation, AccountOps
<1>2. /\ req'[r].pc = "done" /\ req'[r].res = res /\ req'[r].sel = {}
      /\ req'[r].op = req[r].op /\ req'[r].user = req[r].user /\ req'[r].jti = req[r].jti
  BY <1>0, <1>1, AnswerFields DEF Results
<1>3. \A t \in hist[r].before : tokens'[t].status = "revoked"
  <2> SUFFICES ASSUME NEW t \in hist[r].before PROVE tokens'[t].status = "revoked"
    OBVIOUS
  <2>1. t \in Jtis /\ tokens[t] \in Token
    BY <1>0 DEF History, TypeOK
  <2>2. t \in req[r].sel \/ tokens[t].status = "revoked"
    BY <1>0 DEF CommitRevocation, Knows, Covers
  <2> QED
    BY <2>1, <2>2 DEF CommitRevocation, Revoked, Token
<1>4. Refs(r)'
  BY <1>0, <1>1, <1>2 DEF Knows, Refs, Grows, AccountOps
<1>5. Covers(r)'
  <2>1. \A t \in hist[r].before : t \in Jtis
    BY <1>0 DEF History
  <2> QED
    BY <1>0, <1>1, <1>2, <1>3, <2>1 DEF Knows, Covers, Grows
<1>6. DeadEnds(r)'
  BY <1>0, <1>1, <1>2 DEF Knows, Refs, DeadEnds, Grows, AccountOps
<1>7. GoneEnds(r)'
  BY <1>0, <1>1, <1>2 DEF CommitRevocation, Knows, Refs, GoneEnds, Grows, AccountOps
<1> QED
  BY <1>4, <1>5, <1>6, <1>7 DEF Knows

-----------------------------------------------------------------------------
\* Each action leaves every request knowing what it must, the acting one included.
LEMMA ActorKnows ==
  ASSUME IInv, Grows, NEW r \in Requests, Arrive(r) \/ Acquire(r) \/ Step(r) \/ Abort(r)
  PROVE  Knows(r)'
<1>0. TypeOK /\ Knows(r) /\ req[r] \in Request
  BY DEF IInv, TypeOK
<1>1. CASE Arrive(r)
  BY <1>1, BeginKnows DEF Arrive, BeginLogin, BeginWithToken, BeginOnAccount, Ops, AccountOps, Issued
<1>2. CASE LoginRead(r)
  <2>1. CASE Answer(r, "denied")
    BY <1>2, <2>1, AnswerKnows DEF LoginRead, At, Results
  <2>2. CASE ~Answer(r, "denied")
    <3>1. req[r].user \in Users
      BY <1>0, <1>2 DEF LoginRead, At, Knows, Refs
    <3>2. ~hist[r].gone /\ users[req[r].user].pw \in Nat
      BY <1>0, <1>2, <2>2, <3>1 DEF LoginRead, Knows, GoneEnds, TypeOK, User
    <3>3. req'[r] = [req[r] EXCEPT !.pc = "write", !.pw = users[req[r].user].pw]
      BY <1>0, <1>2, <2>2 DEF LoginRead, TypeOK
    <3> QED
      BY <1>2, <3>2, <3>3, AdvanceKnows DEF LoginRead, At
  <2> QED
    BY <2>1, <2>2
<1>3. CASE GetCurrentUser(r)
  <2>1. CASE Answer(r, "denied")
    BY <1>3, <2>1, AnswerKnows DEF GetCurrentUser, Results
  <2>2. CASE ~Answer(r, "denied")
    <3>1. req[r].user \in Users
      BY <1>0, <1>3 DEF GetCurrentUser, Knows, Refs
    <3>2. ~hist[r].gone /\ users[req[r].user].pw \in Nat
      BY <1>0, <1>3, <2>2, <3>1 DEF GetCurrentUser, Knows, GoneEnds, TypeOK, User
    <3>3. req'[r] = [req[r] EXCEPT !.pc = "select", !.pw = users[req[r].user].pw]
      BY <1>0, <1>3, <2>2 DEF GetCurrentUser, TypeOK
    <3> QED
      BY <1>3, <3>2, <3>3, AdvanceKnows DEF GetCurrentUser, AccountOps
  <2> QED
    BY <2>1, <2>2
<1>4. CASE ResetLoad(r)
  <2>1. CASE Answer(r, "denied")
    BY <1>4, <2>1, AnswerKnows DEF ResetLoad, At, Results
  <2>2. CASE Goto(r, "select")
    BY <1>0, <1>4, <2>2, GotoFields, AdvanceKnows DEF ResetLoad, At, PCs, AccountOps
  <2> QED
    BY <1>4, <2>1, <2>2 DEF ResetLoad
<1>5. CASE RefreshLoad(r)
  <2>1. CASE Answer(r, "denied")
    BY <1>5, <2>1, AnswerKnows DEF RefreshLoad, At, Results
  <2>2. CASE Goto(r, "select")
    BY <1>0, <1>5, <2>2, GotoFields, AdvanceKnows DEF RefreshLoad, At, PCs, AccountOps
  <2>3. CASE tokens[req[r].jti].status = "live" /\ Goto(r, "user")
    BY <1>0, <1>5, <2>3, GotoFields, AdvanceKnows DEF RefreshLoad, At, PCs, Knows, DeadEnds
  <2> QED
    BY <1>5, <2>1, <2>2, <2>3 DEF RefreshLoad
<1>6. CASE RefreshLoadUser(r)
  <2>1. CASE Answer(r, "denied")
    BY <1>6, <2>1, AnswerKnows DEF RefreshLoadUser, At, Results
  <2>2. CASE ~users[req[r].user].deleted /\ Goto(r, "write")
    <3>1. ~hist[r].gone /\ ~hist[r].dead
      BY <1>0, <1>6, <2>2 DEF RefreshLoadUser, At, Knows, GoneEnds, DeadEnds
    <3> QED
      BY <1>0, <1>6, <2>2, <3>1, GotoFields, AdvanceKnows DEF RefreshLoadUser, At, PCs
  <2> QED
    BY <1>6, <2>1, <2>2 DEF RefreshLoadUser
<1>7. CASE LogoutLoad(r)
  <2>1. CASE Answer(r, "ok")
    BY <1>7, <2>1, AnswerKnows DEF LogoutLoad, At, Results, AccountOps
  <2>2. CASE Goto(r, "write")
    BY <1>0, <1>7, <2>2, GotoFields, AdvanceKnows DEF LogoutLoad, At, PCs
  <2> QED
    BY <1>7, <2>1, <2>2 DEF LogoutLoad
<1>8. CASE LoginCommit(r)
  BY <1>0, <1>8, AnswerKnows DEF LoginCommit, At, Results, AccountOps, Knows, GoneEnds
<1>9. CASE RefreshCommit(r)
  BY <1>0, <1>9, AnswerKnows DEF RefreshCommit, At, Results, AccountOps, Knows, GoneEnds, DeadEnds
<1>10. CASE LogoutCommit(r)
  BY <1>0, <1>10, AnswerKnows DEF LogoutCommit, At, Results, AccountOps
<1>11. CASE Abort(r)
  BY <1>11, AnswerKnows DEF Abort, Results, AccountOps
<1>12. CASE Finish(r)
  <2>1. req'[r] = Idle /\ hist'[r] = NoHistory
    BY <1>0, <1>12 DEF Finish, TypeOK
  <2> QED
    BY <2>1 DEF Knows, Refs, Covers, RevokedAll, DeadEnds, GoneEnds, Idle, NoHistory
<1> QED
  BY <1>1, <1>2, <1>3, <1>4, <1>5, <1>6, <1>7, <1>8, <1>9, <1>10, <1>11, <1>12,
     SelectKnows, LockKnows, RevocationKnows DEF Acquire, Step

\* Every step keeps a successor tied to its revoked predecessor.
LEMMA RotationStep == IInv /\ Grows /\ [Next]_vars => RotationAtomic'
<1> SUFFICES ASSUME IInv, Grows, [Next]_vars PROVE RotationAtomic'
  OBVIOUS
<1> USE NoneAssumption
<1>0. TypeOK /\ RotationAtomic
  BY DEF IInv
<1>1. ASSUME \A t \in Jtis : \/ tokens'[t] = tokens[t]
                             \/ tokens'[t] = [tokens[t] EXCEPT !.status = "revoked"]
      PROVE  RotationAtomic'
  <2> SUFFICES ASSUME NEW t \in Jtis, tokens'[t].parent # None
               PROVE  LET p == tokens'[t].parent IN
                      /\ tokens'[p].status = "revoked" /\ tokens'[p].owner = tokens'[t].owner
                      /\ tokens'[p].epoch = tokens'[t].epoch
    BY DEF RotationAtomic
  <2>1. /\ tokens[t] \in Token /\ tokens'[t].parent = tokens[t].parent
        /\ tokens'[t].owner = tokens[t].owner /\ tokens'[t].epoch = tokens[t].epoch
    <3>1. tokens[t] \in Token
      BY <1>0 DEF TypeOK
    <3>2. CASE tokens'[t] = tokens[t]
      BY <3>1, <3>2
    <3>3. CASE tokens'[t] = [tokens[t] EXCEPT !.status = "revoked"]
      BY <3>1, <3>3 DEF Token
    <3> QED
      BY <1>1, <3>2, <3>3
  <2>2. tokens[t].parent \in Jtis
    BY <2>1 DEF Token
  <2> QED
    BY <1>0, <2>1, <2>2 DEF RotationAtomic, Grows
<1>2. ASSUME NEW r \in Requests, LoginCommit(r) PROVE RotationAtomic'
  <2>1. PICK n \in Jtis : Fresh(n) /\ tokens' = [tokens EXCEPT ![n] = NewToken(req[r].user, None, req[r].pw)]
    BY <1>2 DEF LoginCommit
  <2>2. tokens'[n].parent = None /\ \A t \in Jtis \ {n} : tokens'[t] = tokens[t]
    BY <1>0, <2>1 DEF TypeOK, NewToken
  <2>3. \A t \in Jtis : tokens[t].parent \in Jtis \cup {None}
    BY <1>0 DEF TypeOK, Token
  <2> QED
    BY <1>0, <2>1, <2>2, <2>3 DEF RotationAtomic, Fresh, Unused
<1>3. ASSUME NEW r \in Requests, RefreshCommit(r) PROVE RotationAtomic'
  <2> DEFINE old == req[r].jti
  <2>1. old \in Jtis /\ tokens[old].status # "absent"
    BY <1>3 DEF RefreshCommit, At, IInv, Knows, Refs
  <2>2. PICK n \in Jtis : Fresh(n) /\ Rotate(old, n)
    BY <1>3 DEF RefreshCommit
  <2>3. n # old
    BY <2>1, <2>2 DEF Fresh, Unused
  <2>4. /\ tokens'[n].parent = old /\ tokens'[n].owner = tokens[old].owner
        /\ tokens'[n].epoch = tokens[old].epoch
    BY <1>0, <2>2 DEF Rotate, NewToken, TypeOK
  <2>5. /\ tokens'[old].status = "revoked" /\ tokens'[old].owner = tokens[old].owner
        /\ tokens'[old].epoch = tokens[old].epoch /\ tokens'[old].parent = tokens[old].parent
    BY <1>0, <2>1, <2>2, <2>3 DEF Rotate, TypeOK, Token
  <2>6. \A t \in Jtis \ {n, old} : tokens'[t] = tokens[t]
    BY <1>0, <2>2 DEF Rotate, TypeOK
  <2>7. \A t \in Jtis : tokens[t].parent \in Jtis \cup {None}
    BY <1>0 DEF TypeOK, Token
  <2>8. tokens[n].status = "absent"
    BY <2>2 DEF Fresh, Unused
  <2> SUFFICES ASSUME NEW t \in Jtis, tokens'[t].parent # None
               PROVE  LET p == tokens'[t].parent IN
                      /\ tokens'[p].status = "revoked" /\ tokens'[p].owner = tokens'[t].owner
                      /\ tokens'[p].epoch = tokens'[t].epoch
    BY DEF RotationAtomic
  <2>9. CASE t = n
    BY <2>4, <2>5, <2>9
  <2>10. CASE t # n
    <3>1. /\ tokens'[t].parent = tokens[t].parent /\ tokens'[t].owner = tokens[t].owner
          /\ tokens'[t].epoch = tokens[t].epoch
      BY <2>5, <2>6, <2>10
    <3> DEFINE p == tokens[t].parent
    <3>2. /\ p \in Jtis /\ tokens[p].status = "revoked"
          /\ tokens[p].owner = tokens[t].owner /\ tokens[p].epoch = tokens[t].epoch
      BY <1>0, <2>7, <3>1 DEF RotationAtomic
    <3> QED
      BY <3>1, <3>2 DEF Grows
  <2> QED
    BY <2>9, <2>10
<1>4. ASSUME NEW r \in Requests, LogoutCommit(r) PROVE RotationAtomic'
  <2>1. tokens' = [tokens EXCEPT ![req[r].jti] = [@ EXCEPT !.status = "revoked"]]
    BY <1>4 DEF LogoutCommit
  <2> QED
    BY <1>0, <1>1, <2>1 DEF TypeOK
<1>5. ASSUME NEW r \in Requests, CommitRevocation(r) PROVE RotationAtomic'
  BY <1>1, <1>5 DEF CommitRevocation, Revoked
<1>6. CASE UNCHANGED tokens
  BY <1>1, <1>6
<1> QED
  BY <1>2, <1>3, <1>4, <1>5, <1>6, Writers

-----------------------------------------------------------------------------
(* The theorems.                                                           *)
\* The inductive invariant holds in the empty database.
LEMMA InitIInv == Init => IInv
<1> SUFFICES ASSUME Init PROVE IInv
  OBVIOUS
<1> USE NoneAssumption
<1>1. TypeOK
  BY DEF Init, TypeOK, NoRow, Idle, NoHistory, User, Token, Request, History, PCs, Results
<1>2. RotationAtomic
  BY DEF Init, RotationAtomic, NoRow
<1>3. ASSUME NEW r \in Requests PROVE Knows(r)
  BY DEF Init, Knows, Refs, Covers, RevokedAll, DeadEnds, GoneEnds, Idle, NoHistory
<1> QED
  BY <1>1, <1>2, <1>3 DEF IInv

\* Every step keeps the inductive invariant.
LEMMA NextIInv == IInv /\ [Next]_vars => IInv'
<1> SUFFICES ASSUME IInv, [Next]_vars PROVE IInv'
  OBVIOUS
<1>1. TypeOK'
  BY TypeStep DEF IInv, Knows
<1>2. Grows
  BY StepGrows
<1>3. RotationAtomic'
  BY <1>2, RotationStep
<1>4. ASSUME NEW q \in Requests PROVE Knows(q)'
  <2>1. CASE UNCHANGED vars
    BY <1>2, <2>1, OthersKeep DEF vars
  <2>2. ASSUME NEW r \in Requests, Arrive(r) \/ Acquire(r) \/ Step(r) \/ Abort(r)
        PROVE  Knows(q)'
    <3>1. CASE q = r
      BY <1>2, <2>2, <3>1, ActorKnows
    <3>2. CASE q # r
      <4>1. TypeOK
        BY DEF IInv
      <4>2. req'[q] = req[q] /\ hist'[q] = hist[q]
        BY <2>2, <3>2, <4>1 DEF TypeOK, Arrive, Acquire, Step, Abort, BeginLogin, BeginWithToken,
           BeginOnAccount, Begin, LoginRead, LoginCommit, RefreshLoad, RefreshLoadUser,
           RefreshCommit, LogoutLoad, LogoutCommit, GetCurrentUser, ResetLoad, SelectLive,
           LockRow, CommitRevocation, Finish, Goto, Answer
      <4> QED
        BY <1>2, <4>2, OthersKeep
    <3> QED
      BY <3>1, <3>2
  <2> QED
    BY <2>1, <2>2 DEF Next
<1> QED
  BY <1>1, <1>3, <1>4 DEF IInv

\* The rows, requests and histories keep their types, and every request in flight
\* knows what its next statement relies on.
THEOREM Invariance == Spec => []IInv
BY InitIInv, NextIInv, PTL DEF Spec

\* auth_service.py and refresh_token.py write only rows of these types.
THEOREM TypeCorrect == Spec => []TypeOK
<1>1. IInv => TypeOK
  BY DEF IInv
<1> QED
  BY <1>1, Invariance, PTL

\* refresh_access_token: no interleaving and no failure leaves a successor beside a
\* token that is still usable, or gives it to another account.
THEOREM RotationIsAtomic == Spec => []RotationAtomic
<1>1. IInv => RotationAtomic
  BY DEF IInv
<1> QED
  BY <1>1, Invariance, PTL

\* revoke_all_for_user, called by change_password, confirm_password_reset,
\* soft_delete_account and the reuse alarm, misses no session opened before the request.
THEOREM RevocationCoversEarlier == Spec => []RevokeAllCoversEarlier
<1>1. IInv => RevokeAllCoversEarlier
  BY DEF IInv, Knows, Covers, RevokeAllCoversEarlier
<1> QED
  BY <1>1, Invariance, PTL

\* refresh_access_token refuses a token that was revoked before the request arrived.
THEOREM RevokedIsRefused == Spec => []RevokedTokenRefused
<1>1. IInv => RevokedTokenRefused
  BY DEF IInv, Knows, DeadEnds, RevokedTokenRefused, Succeeded
<1> QED
  BY <1>1, Invariance, PTL

\* login, refresh, change_password and account deletion refuse an account deleted
\* before the request arrived.
THEOREM DeletedIsRefused == Spec => []DeletedAccountRefused
<1>1. IInv => DeletedAccountRefused
  BY DEF IInv, Knows, GoneEnds, DeletedAccountRefused, Succeeded
<1> QED
  BY <1>1, Invariance, PTL

\* No handler writes a stale row back over a revocation.
THEOREM RevocationIsFinal == Spec => RevokedForever
<1>1. IInv /\ [Next]_vars => [\A t \in Jtis : tokens[t].status = "revoked" =>
        /\ tokens'[t].status = "revoked"
        /\ tokens'[t].owner = tokens[t].owner /\ tokens'[t].parent = tokens[t].parent]_vars
  BY StepGrows DEF Grows
<1> QED
  BY <1>1, Invariance, PTL DEF Spec, RevokedForever

-----------------------------------------------------------------------------
(* The rows implement the abstract session store.                          *)
\* Every step is a step of the abstract store or changes nothing it shows.
LEMMA StoreStep == IInv /\ [Next]_vars => [Store!Next]_<<[t \in Jtis |-> tokens[t].status], [t \in Jtis |-> tokens[t].owner]>>
<1> SUFFICES ASSUME IInv, [Next]_vars
             PROVE  \/ Store!Next
                    \/ UNCHANGED <<[t \in Jtis |-> tokens[t].status], [t \in Jtis |-> tokens[t].owner]>>
  OBVIOUS
<1> USE NoneAssumption
<1>0. TypeOK
  BY DEF IInv
<1>1. ASSUME NEW r \in Requests, LoginCommit(r) PROVE \E u \in Users : Store!Open(u)
  <2>1. PICK n \in Jtis : Fresh(n) /\ tokens' = [tokens EXCEPT ![n] = NewToken(req[r].user, None, req[r].pw)]
    BY <1>1 DEF LoginCommit
  <2>2. /\ tokens'[n].status = "live" /\ tokens'[n].owner = req[r].user
        /\ \A t \in Jtis \ {n} : tokens'[t] = tokens[t]
    BY <1>0, <2>1 DEF TypeOK, NewToken
  <2>3. /\ [t \in Jtis |-> tokens'[t].status] = [[t \in Jtis |-> tokens[t].status] EXCEPT ![n] = "live"]
        /\ [t \in Jtis |-> tokens'[t].owner] = [[t \in Jtis |-> tokens[t].owner] EXCEPT ![n] = req[r].user]
    BY <2>2
  <2>4. req[r].user \in Users
    BY <1>1 DEF LoginCommit, At, IInv, Knows, Refs
  <2> QED
    BY <2>1, <2>3, <2>4 DEF Store!Open, Fresh, Unused
<1>2. ASSUME NEW r \in Requests, RefreshCommit(r) PROVE Store!HandOn
  <2> DEFINE old == req[r].jti
  <2>1. old \in Jtis /\ tokens[old].status # "absent"
    BY <1>2 DEF RefreshCommit, At, IInv, Knows, Refs
  <2>2. PICK n \in Jtis : Fresh(n) /\ Rotate(old, n)
    BY <1>2 DEF RefreshCommit
  <2>3. n # old /\ tokens[n].status = "absent"
    BY <2>1, <2>2 DEF Fresh, Unused
  <2>4. tokens'[n].status = "live" /\ tokens'[n].owner = tokens[old].owner
    BY <1>0, <2>2 DEF Rotate, NewToken, TypeOK
  <2>5. tokens'[old].status = "revoked" /\ tokens'[old].owner = tokens[old].owner
    BY <1>0, <2>1, <2>2, <2>3 DEF Rotate, TypeOK, Token
  <2>6. \A t \in Jtis \ {n, old} : tokens'[t] = tokens[t]
    BY <1>0, <2>2 DEF Rotate, TypeOK
  <2> QED
    BY <2>1, <2>3, <2>4, <2>5, <2>6 DEF Store!HandOn
<1>3. ASSUME NEW S \in SUBSET Jtis, NEW u \in Users, tokens' = Revoked(S),
             \A t \in S : tokens[t].status # "absent" /\ tokens[t].owner = u
      PROVE  Store!Close(u)
  <2>1. ASSUME NEW t \in Jtis
        PROVE  /\ tokens'[t].status = IF t \in S THEN "revoked" ELSE tokens[t].status
               /\ tokens'[t].owner = tokens[t].owner
    <3>1. tokens[t] \in Token
      BY <1>0 DEF TypeOK
    <3> QED
      BY <1>3, <3>1 DEF Revoked, Token
  <2> QED
    BY <1>3, <2>1 DEF Store!Close
<1>4. ASSUME NEW r \in Requests, LogoutCommit(r) PROVE \E u \in Users : Store!Close(u)
  <2>1. /\ req[r].jti \in Jtis /\ req[r].user \in Users
        /\ tokens[req[r].jti].status # "absent" /\ tokens[req[r].jti].owner = req[r].user
    BY <1>4 DEF LogoutCommit, At, IInv, Knows, Refs
  <2>2. tokens' = Revoked({req[r].jti})
    BY <1>0, <1>4, <2>1 DEF LogoutCommit, Revoked, TypeOK
  <2> QED
    BY <1>3, <2>1, <2>2
<1>5. ASSUME NEW r \in Requests, CommitRevocation(r) PROVE \E u \in Users : Store!Close(u)
  <2>1. req[r].user \in Users /\ req[r].sel \in SUBSET Jtis
    BY <1>0, <1>5 DEF CommitRevocation, IInv, Knows, Refs, TypeOK, Request
  <2>2. \A t \in req[r].sel : tokens[t].status # "absent" /\ tokens[t].owner = req[r].user
    BY DEF IInv, Knows, Refs
  <2> QED
    BY <1>3, <1>5, <2>1, <2>2 DEF CommitRevocation
<1>6. CASE UNCHANGED tokens
  BY <1>6
<1>7. ASSUME NEW r \in Requests, LoginCommit(r) PROVE Store!Next
  BY <1>1, <1>7 DEF Store!Next
<1>8. ASSUME NEW r \in Requests, RefreshCommit(r) PROVE Store!Next
  BY <1>2, <1>8 DEF Store!Next
<1>9. ASSUME NEW r \in Requests, LogoutCommit(r) \/ CommitRevocation(r) PROVE Store!Next
  BY <1>4, <1>5, <1>9 DEF Store!Next
<1> QED
  BY <1>6, <1>7, <1>8, <1>9, Writers

\* Seen through its status and owner columns, refresh_tokens opens, hands on and closes
\* sessions one step at a time, each within one account.
THEOREM ImplementsStore == Spec => StoreSpec
<1>1. Init => Store!Init
  BY DEF Init, Store!Init, NoRow
<1> QED
  BY <1>1, StoreStep, Invariance, PTL DEF Spec, StoreSpec, Store!Spec

-----------------------------------------------------------------------------
(* Row locks.  A request locks the rows of its flush in ascending order,   *)
(* so the row it waits for lies above every row it holds; a request that   *)
(* holds rows is in its flush and waits for nothing else.  Along a chain   *)
(* of waits the rows ascend, and there are finitely many.                  *)

LockOrder(r) ==
  /\ req[r].held \subseteq req[r].sel
  /\ req[r].pc # "locking" => req[r].held = {}
  /\ \A h \in req[r].held : \A s \in Unlocked(r) : h < s

LockInv == IInv /\ \A r \in Requests : LockOrder(r)

LEMMA InitLockInv == Init => LockInv
BY InitIInv DEF LockInv, LockOrder, Init, Idle

\* A request that is not in its flush holds no row.
LEMMA NoLocks ==
  ASSUME NEW r \in Requests, req'[r].held = {}
  PROVE  LockOrder(r)'
BY DEF LockOrder

\* Every step keeps the lock order, that of the request that takes the next row first.
LEMMA NextLockInv == LockInv /\ [Next]_vars => LockInv'
<1> SUFFICES ASSUME LockInv, [Next]_vars PROVE LockInv'
  OBVIOUS
<1>1. IInv' /\ TypeOK
  BY NextIInv DEF LockInv, IInv
<1>2. ASSUME NEW r \in Requests, req'[r] = req[r] PROVE LockOrder(r)'
  BY <1>2 DEF LockInv, LockOrder, Unlocked
<1>3. ASSUME NEW r \in Requests, Arrive(r) \/ Acquire(r) \/ Step(r) \/ Abort(r)
      PROVE  /\ \A q \in Requests \ {r} : req'[q] = req[q]
             /\ LockOrder(r)'
  <2>0. req \in [Requests -> Request] /\ req[r] \in Request /\ LockOrder(r)
    BY <1>1 DEF TypeOK, LockInv
  <2>1. \A q \in Requests \ {r} : req'[q] = req[q]
    BY <1>3, <2>0, ZenonT(60) DEF Arrive, Acquire, Step, Abort, BeginLogin, BeginWithToken,
       BeginOnAccount, Begin, LoginRead, LoginCommit, RefreshLoad, RefreshLoadUser,
       RefreshCommit, LogoutLoad, LogoutCommit, GetCurrentUser, ResetLoad, SelectLive,
       LockRow, CommitRevocation, Finish, Goto, Answer
  <2>2. CASE LockRow(r)
    <3>1. PICK t \in Unlocked(r) : First(r, t) /\ req' = [req EXCEPT ![r].held = @ \cup {t}]
      BY <2>2 DEF LockRow
    <3>2. /\ req'[r].held = req[r].held \cup {t} /\ req'[r].sel = req[r].sel
          /\ req'[r].pc = "locking"
      BY <2>0, <2>2, <3>1 DEF LockRow, Request
    <3>3. Unlocked(r)' = Unlocked(r) \ {t} /\ Unlocked(r) \subseteq Nat /\ t \in req[r].sel
      BY <2>0, <3>1, <3>2, JtisAssumption DEF Unlocked, Request
    <3>4. \A s \in Unlocked(r)' : t < s
      BY <3>1, <3>3 DEF First
    <3> QED
      BY <2>0, <2>1, <3>2, <3>3, <3>4 DEF LockOrder
  <2>3. CASE SelectLive(r)
    <3>1. req'[r].held = req[r].held /\ req[r].pc = "select"
      BY <2>0, <2>3 DEF SelectLive, Request
    <3>2. req'[r].held = {}
      BY <2>0, <3>1 DEF LockOrder
    <3> QED
      BY <2>1, <3>2, NoLocks
  <2>4. CASE ~LockRow(r) /\ ~SelectLive(r)
    <3>1. \/ req'[r].held = {}
          \/ req[r].pc # "locking" /\ req'[r].held = req[r].held
      <4>1. ASSUME NEW res \in Results, Answer(r, res) PROVE req'[r].held = {}
        BY <2>0, <4>1 DEF Answer, Request
      <4>2. ASSUME NEW pc \in PCs, Goto(r, pc) PROVE req'[r].held = req[r].held
        BY <2>0, <4>2 DEF Goto, Request
      <4>3. ASSUME NEW pc, NEW pw, req' = [req EXCEPT ![r].pc = pc, ![r].pw = pw]
            PROVE  req'[r].held = req[r].held
        BY <2>0, <4>3 DEF Request
      <4>4. CASE Arrive(r) \/ Finish(r)
        <5>1. ASSUME NEW op, NEW u, NEW t, Begin(r, op, u, t) PROVE req'[r].held = {}
          BY <2>0, <5>1 DEF Begin, Idle
        <5>2. CASE Finish(r)
          BY <2>0, <5>2 DEF Finish, Idle
        <5> QED
          BY <4>4, <5>1, <5>2 DEF Arrive, BeginLogin, BeginWithToken, BeginOnAccount
      <4>5. CASE RefreshCommit(r) \/ LogoutCommit(r) \/ LoginCommit(r) \/ CommitRevocation(r) \/ Abort(r)
        BY <4>1, <4>5 DEF RefreshCommit, LogoutCommit, LoginCommit, CommitRevocation, Abort, Results
      <4>6. CASE RefreshLoad(r) \/ RefreshLoadUser(r) \/ LogoutLoad(r) \/ ResetLoad(r)
        BY <4>1, <4>2, <4>6
           DEF RefreshLoad, RefreshLoadUser, LogoutLoad, ResetLoad, At, Results, PCs
      <4>7. CASE LoginRead(r) \/ GetCurrentUser(r)
        BY <4>1, <4>3, <4>7 DEF LoginRead, GetCurrentUser, At, Results
      <4> QED
        BY <1>3, <2>4, <4>4, <4>5, <4>6, <4>7 DEF Acquire, Step
    <3>2. req'[r].held = {}
      BY <2>0, <3>1 DEF LockOrder
    <3> QED
      BY <2>1, <3>2, NoLocks
  <2> QED
    BY <2>1, <2>2, <2>3, <2>4
<1>4. ASSUME NEW q \in Requests PROVE LockOrder(q)'
  BY <1>2, <1>3 DEF Next, vars
<1> QED
  BY <1>1, <1>4 DEF LockInv

\* A set of rows that has no greatest row is empty.
LEMMA RowsEnd ==
  ASSUME NEW W \in SUBSET Jtis, \A t \in W : \E u \in W : t < u
  PROVE  W = {}
<1> DEFINE Above(t) == {s \in Jtis : t < s}
           C == {Above(t) : t \in W}
           R == StrictSubsetOrdering(Jtis)
<1>1. W \subseteq Nat /\ IsFiniteSet(Jtis)
  BY JtisAssumption
<1>2. IsWellFoundedOn(R, SUBSET Jtis)
  BY <1>1, FS_FiniteSubsetsOfFinite, FS_StrictSubsetOrderingWellFounded
<1> SUFFICES ASSUME W # {} PROVE FALSE
  OBVIOUS
<1>3. C \subseteq SUBSET Jtis /\ C # {}
  OBVIOUS
<1>4. PICK x \in C : \A y \in C : ~(<<y, x>> \in R)
  BY <1>2, <1>3, WFMin
<1>5. PICK t \in W : x = Above(t)
  OBVIOUS
<1>6. PICK u \in W : t < u
  OBVIOUS
<1>7. Above(u) \subseteq Above(t) /\ u \in Above(t) /\ u \notin Above(u)
  <2>1. t \in Nat /\ u \in Nat /\ u \in Jtis /\ Jtis \subseteq Nat
    BY <1>1, JtisAssumption
  <2>2. ASSUME NEW s \in Jtis, u < s PROVE t < s
    BY <1>6, <2>1, <2>2
  <2>3. ~(u < u)
    BY <2>1
  <2> QED
    BY <1>6, <2>1, <2>2, <2>3
<1>8. <<Above(u), Above(t)>> \in R
  BY <1>7 DEF StrictSubsetOrdering
<1> QED
  BY <1>4, <1>5, <1>8

\* Of any requests there is one that waits for none of them.
LEMMA NoCycle ==
  ASSUME LockInv, NEW S \in SUBSET Requests, \A r \in S : \E q \in S : WaitsFor(r, q)
  PROVE  S = {}
<1> DEFINE Flushes(r) == req[r].pc = "locking"
           W == {t \in Jtis : \E r \in S : Flushes(r) /\ t \in Unlocked(r) /\ \E q \in S : t \in req[q].held}
<1>1. ASSUME NEW r \in S
      PROVE  /\ req[r].held \subseteq Jtis /\ req[r].sel \subseteq Jtis
             /\ req[r].held # {} => Flushes(r)
             /\ \A h \in req[r].held : \A s \in Unlocked(r) : h < s
  <2>1. req[r] \in Request /\ LockOrder(r)
    BY DEF LockInv, IInv, TypeOK
  <2> QED
    BY <2>1 DEF LockOrder, Request
<1>2. ASSUME NEW r \in S, Flushes(r)
      PROVE  \E t \in W : t \in Unlocked(r)
  <2>1. PICK q \in S : WaitsFor(r, q)
    OBVIOUS
  <2>2. PICK t \in Unlocked(r) : t \in req[q].held
    BY <1>2, <2>1 DEF WaitsFor
  <2> QED
    BY <1>1, <1>2, <2>2 DEF Unlocked
<1>3. ASSUME NEW t \in W PROVE \E u \in W : t < u
  <2>1. PICK q \in S : t \in req[q].held
    OBVIOUS
  <2>2. PICK u \in W : u \in Unlocked(q)
    BY <1>1, <1>2, <2>1
  <2> QED
    BY <1>1, <2>1, <2>2
<1>4. W = {}
  BY <1>3, RowsEnd
<1>5. ASSUME NEW r \in S PROVE FALSE
  <2>1. PICK q \in S : WaitsFor(r, q)
    OBVIOUS
  <2>2. Flushes(r) \/ Flushes(q)
    BY <1>1, <2>1 DEF WaitsFor
  <2> QED
    BY <1>2, <1>4, <2>2
<1> QED
  BY <1>5

\* The lock order holds in every reachable state.
THEOREM LockOrdering == Spec => []LockInv
BY InitLockInv, NextLockInv, PTL DEF Spec

\* revoke_all_for_user flushes by primary key and the rotations and logouts lock one row:
\* no requests, however many, deadlock on refresh_tokens and users rows.
THEOREM DeadlockFree == Spec => []NoDeadlock
<1>1. LockInv => NoDeadlock
  BY NoCycle DEF NoDeadlock
<1> QED
  BY <1>1, LockOrdering, PTL
=============================================================================
