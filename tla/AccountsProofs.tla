---------------------------- MODULE AccountsProofs ----------------------------
(***************************************************************************)
(* Proofs about Accounts, for any accounts, addresses and requests.        *)
(*                                                                         *)
(* Rows only appear and addresses are only added to those an account has   *)
(* had (Grown), so what a request carries stays true (Sound): the account  *)
(* it names is there, and the address its mail goes to is one the account  *)
(* has had.  A row a lone request has loaded is the one stored (Lone).     *)
(***************************************************************************)
EXTENDS Accounts, TLAPS

Had(u, e) == u \in Users /\ Exists(u) /\ e \in hist.held[u]

Sound(r) ==
  /\ req[r].op \in {"register", "change", "verify", "resend"} => req[r].email \in Emails
  /\ req[r].op = "register" => req[r].name \in Names
  /\ req[r].op \in {"verify", "change", "profile"} => req[r].user \in Users /\ Exists(req[r].user)
  /\ req[r].op = "verify" => Had(req[r].user, req[r].email)
  /\ req[r].pc = "mail" => Had(req[r].user, req[r].email)
  /\ req[r].pc \in {"check", "write"} =>
       req[r].old \in User /\ req[r].op \in {"verify", "change", "profile"}
Lone(r) == r \in hist.alone =>
  /\ \A q \in Requests \ {r} : req[q].pc = "idle"
  /\ req[r].pc \in {"check", "write"} => req[r].old = users[req[r].user]

Current == \A u \in Users : Exists(u) => users[u].email \in hist.held[u]
Arrived == \A m \in inbox \cup hist.proved : Had(m.user, m.addr)

Inv ==
  /\ TypeOK /\ Current /\ Arrived
  /\ \A r \in Requests : Sound(r) /\ Lone(r)
  /\ AccountsDistinct /\ VerifiedByHolder

Grown ==
  /\ users' \in [Users -> User \cup {None}] /\ hist' \in History
  /\ \A u \in Users : Exists(u) => users'[u] # None /\ hist.held[u] \subseteq hist'.held[u]

\* Request r moves, and no other.
Mover(r) ==
  /\ req' \in [Requests -> Request] /\ \A q \in Requests \ {r} : req'[q] = req[q]
  /\ hist'.alone \subseteq {r}
  /\ r \in hist'.alone => \A q \in Requests \ {r} : req[q].pc = "idle"

LEMMA Frame ==
  ASSUME Inv, Grown, NEW r \in Requests, Mover(r), Sound(r)',
         r \in hist'.alone /\ req'[r].pc \in {"check", "write"} => req'[r].old = users'[req'[r].user]
  PROVE  \A q \in Requests : Sound(q)' /\ Lone(q)'
<1>1. ASSUME NEW q \in Requests \ {r} PROVE Sound(q)' /\ Lone(q)'
  <2>1. req'[q] = req[q] /\ q \notin hist'.alone /\ Sound(q)
    BY DEF Mover, Inv
  <2>. QED BY <2>1 DEF Sound, Lone, Grown, Had, Exists
<1>2. Lone(r)'
  BY DEF Mover, Lone
<1>. QED BY <1>1, <1>2

\* Only requests move.
LEMMA Quiet ==
  ASSUME Inv, NEW r \in Requests, Mover(r), Sound(r)', UNCHANGED <<users, inbox>>,
         hist' \in History, hist'.held = hist.held, hist'.proved = hist.proved,
         r \in hist'.alone /\ req'[r].pc \in {"check", "write"} => req'[r].old = users[req'[r].user]
  PROVE  Inv'
<1>1. Grown
  BY DEF Grown, Inv, TypeOK, Exists
<1>2. \A q \in Requests : Sound(q)' /\ Lone(q)'
  BY <1>1, Frame
<1>3. TypeOK'
  BY DEF Inv, TypeOK, Mover
<1>4. Current' /\ Arrived'
  BY DEF Inv, Current, Arrived, Had, Exists
<1>5. AccountsDistinct' /\ VerifiedByHolder'
  BY DEF Inv, AccountsDistinct, VerifiedByHolder, Exists
<1>. QED BY <1>2, <1>3, <1>4, <1>5 DEF Inv

\* A request that is not idle is the only one a lone request can be.
LEMMA Acts ==
  ASSUME Inv, NEW r \in Requests, req[r].pc # "idle", hist'.alone \subseteq hist.alone,
         req' \in [Requests -> Request], \A q \in Requests \ {r} : req'[q] = req[q]
  PROVE  Mover(r)
BY DEF Inv, TypeOK, History, Mover, Lone

LEMMA Goes ==
  ASSUME Inv, NEW r \in Requests, NEW pc \in PCs, Goto(r, pc)
  PROVE  /\ req' \in [Requests -> Request] /\ \A q \in Requests \ {r} : req'[q] = req[q]
         /\ req'[r].pc = pc /\ req'[r].op = req[r].op /\ req'[r].user = req[r].user
         /\ req'[r].email = req[r].email /\ req'[r].name = req[r].name /\ req'[r].old = req[r].old
<1>. DEFINE new == [req[r] EXCEPT !.pc = pc]
<1>1. /\ new \in Request /\ new.pc = pc /\ new.op = req[r].op /\ new.user = req[r].user
      /\ new.email = req[r].email /\ new.name = req[r].name /\ new.old = req[r].old
  BY DEF Inv, TypeOK, Request
<1>2. req' = [req EXCEPT ![r] = new]
  BY DEF Goto
<1>. HIDE DEF new
<1>. QED BY <1>1, <1>2 DEF Inv, TypeOK

LEMMA Answers ==
  ASSUME Inv, NEW r \in Requests, NEW pc \in PCs, Answer(r, pc)
  PROVE  /\ req' \in [Requests -> Request] /\ \A q \in Requests \ {r} : req'[q] = req[q]
         /\ req'[r].pc = pc /\ req'[r].op = req[r].op /\ req'[r].user = req[r].user
         /\ req'[r].email = req[r].email /\ req'[r].name = req[r].name
<1>. DEFINE new == [req[r] EXCEPT !.pc = pc, !.old = None]
<1>1. /\ new \in Request /\ new.pc = pc /\ new.op = req[r].op /\ new.user = req[r].user
      /\ new.email = req[r].email /\ new.name = req[r].name
  BY DEF Inv, TypeOK, Request
<1>2. req' = [req EXCEPT ![r] = new]
  BY DEF Answer
<1>. HIDE DEF new
<1>. QED BY <1>1, <1>2 DEF Inv, TypeOK

\* A request that ends, or goes on to a SELECT or an INSERT, carries what it had.
LEMMA MovesOn ==
  ASSUME Inv, NEW r \in Requests, req[r].pc # "idle",
         NEW pc \in PCs \ {"check", "write", "mail"},
         Goto(r, pc) \/ Answer(r, pc), UNCHANGED <<users, inbox, hist>>
  PROVE  Inv'
<1>1. /\ req' \in [Requests -> Request] /\ \A q \in Requests \ {r} : req'[q] = req[q]
      /\ req'[r].pc = pc /\ req'[r].op = req[r].op /\ req'[r].user = req[r].user
      /\ req'[r].email = req[r].email /\ req'[r].name = req[r].name
  BY Goes, Answers
<1>2. Mover(r)
  BY <1>1, Acts
<1>3. Sound(r)'
  BY <1>1 DEF Inv, Sound, Had, Exists
<1>. QED
  BY <1>1, <1>2, <1>3, Quiet DEF Inv, TypeOK

LEMMA BeginInv ==
  ASSUME Inv, NEW r \in Requests, NEW op \in Ops, NEW pc \in {"email", "load"},
         NEW u \in Users \cup {None}, NEW e \in Emails \cup {None}, NEW n \in Names \cup {None},
         Begin(r, op, pc, u, e, n),
         op \in {"register", "change", "verify", "resend"} => e \in Emails,
         op = "register" => n \in Names,
         op \in {"verify", "change", "profile"} => u \in Users /\ Exists(u),
         op = "verify" => Had(u, e)
  PROVE  Inv'
<1>. DEFINE new == [Idle EXCEPT !.op = op, !.pc = pc, !.user = u, !.email = e, !.name = n]
<1>1. new \in Request /\ new.op = op /\ new.pc = pc /\ new.user = u /\ new.email = e /\ new.name = n
  BY DEF Idle, Request, PCs
<1>2. req' = [req EXCEPT ![r] = new] /\ UNCHANGED <<users, inbox>>
  BY DEF Begin
<1>. HIDE DEF new
<1>3. req'[r] = new /\ req' \in [Requests -> Request] /\ \A q \in Requests \ {r} : req'[q] = req[q]
  BY <1>1, <1>2 DEF Inv, TypeOK
<1>4. /\ hist' \in History /\ hist'.held = hist.held /\ hist'.proved = hist.proved
      /\ hist'.alone = IF \A q \in Requests \ {r} : req[q].pc = "idle" THEN {r} ELSE {}
  BY DEF Begin, Inv, TypeOK, History
<1>5. Mover(r)
  BY <1>3, <1>4 DEF Mover
<1>6. Sound(r)'
  BY <1>1, <1>2, <1>3, <1>4 DEF Sound, Had, Exists
<1>. QED BY <1>1, <1>2, <1>3, <1>4, <1>5, <1>6, Quiet

LEMMA BeginsInv ==
  ASSUME Inv, NEW r \in Requests,
         BeginRegister(r) \/ BeginVerify(r) \/ BeginResend(r) \/ BeginChange(r) \/ BeginProfile(r)
  PROVE  Inv'
<1>0. {"register", "verify", "resend", "change", "profile"} \subseteq Ops
  BY DEF Ops
<1>1. CASE BeginRegister(r)
  BY <1>0, <1>1, BeginInv DEF BeginRegister
<1>2. CASE BeginVerify(r)
  <2>1. PICK m \in inbox : Begin(r, "verify", "load", m.user, m.addr, None)
    BY <1>2 DEF BeginVerify
  <2>2. m.user \in Users /\ m.addr \in Emails /\ Had(m.user, m.addr)
    BY DEF Inv, TypeOK, Mail, Arrived
  <2>. QED BY <1>0, <2>1, <2>2, BeginInv DEF Had
<1>3. CASE BeginResend(r)
  BY <1>0, <1>3, BeginInv DEF BeginResend
<1>4. CASE BeginChange(r)
  BY <1>0, <1>4, BeginInv DEF BeginChange
<1>5. CASE BeginProfile(r)
  BY <1>0, <1>5, BeginInv DEF BeginProfile
<1>. QED BY <1>1, <1>2, <1>3, <1>4, <1>5

LEMMA LoadForResendInv == ASSUME Inv, NEW r \in Requests, LoadForResend(r) PROVE Inv'
<1>0. req[r].pc = "load" /\ {"ok", "mail"} \subseteq PCs /\ UNCHANGED <<users, inbox, hist>>
  BY DEF LoadForResend, At, PCs
<1>1. CASE Answer(r, "ok")
  BY <1>0, <1>1, MovesOn
<1>2. CASE \E u \in Users : /\ HasEmail(u, req[r].email) /\ ~users[u].verified
                            /\ req' = [req EXCEPT ![r].pc = "mail", ![r].user = u]
  <2>1. PICK u \in Users : HasEmail(u, req[r].email) /\ req' = [req EXCEPT ![r].pc = "mail", ![r].user = u]
    BY <1>2
  <2>. DEFINE new == [req[r] EXCEPT !.pc = "mail", !.user = u]
  <2>2. /\ new \in Request /\ new.pc = "mail" /\ new.op = "resend" /\ new.user = u
        /\ new.email = req[r].email
    BY <1>0, ZenonT(60) DEF Inv, TypeOK, Request, LoadForResend, At
  <2>3. req' = [req EXCEPT ![r] = new]
    BY <2>1
  <2>. HIDE DEF new
  <2>4. req'[r] = new /\ req' \in [Requests -> Request] /\ \A q \in Requests \ {r} : req'[q] = req[q]
    BY <2>2, <2>3 DEF Inv, TypeOK
  <2>5. Had(u, req[r].email) /\ req[r].email \in Emails
    BY <2>1 DEF Inv, TypeOK, History, Current, HasEmail, Had
  <2>6. Sound(r)'
    BY <1>0, <2>2, <2>4, <2>5 DEF Sound, Had, Exists
  <2>7. Mover(r)
    BY <1>0, <2>4, Acts
  <2>. QED BY <1>0, <2>2, <2>4, <2>6, <2>7, Quiet DEF Inv, TypeOK
<1>. QED BY <1>1, <1>2 DEF LoadForResend

LEMMA LoadRowInv == ASSUME Inv, NEW r \in Requests, LoadRow(r) PROVE Inv'
<1>0. /\ req[r].pc = "load" /\ {"denied", "check", "write"} \subseteq PCs
      /\ req[r].op \in {"verify", "change", "profile"} /\ UNCHANGED <<users, inbox, hist>>
  BY DEF LoadRow, PCs
<1>1. CASE Answer(r, "denied")
  BY <1>0, <1>1, MovesOn
<1>2. CASE req' = [req EXCEPT ![r].old = users[req[r].user],
                              ![r].pc = IF req[r].op = "change" THEN "check" ELSE "write"]
  <2>. DEFINE pc == IF req[r].op = "change" THEN "check" ELSE "write"
              new == [req[r] EXCEPT !.old = users[req[r].user], !.pc = pc]
  <2>1. req[r].user \in Users /\ users[req[r].user] \in User
    BY <1>0 DEF Inv, TypeOK, Sound, Exists
  <2>2. pc \in {"check", "write"}
    OBVIOUS
  <2>3. req' = [req EXCEPT ![r] = new]
    BY <1>2
  <2>. HIDE DEF pc
  <2>4. /\ new \in Request /\ new.pc = pc /\ new.op = req[r].op /\ new.user = req[r].user
        /\ new.email = req[r].email /\ new.name = req[r].name /\ new.old = users[req[r].user]
    BY <1>0, <2>1, <2>2 DEF Inv, TypeOK, Request
  <2>. HIDE DEF new
  <2>5. req'[r] = new /\ req' \in [Requests -> Request] /\ \A q \in Requests \ {r} : req'[q] = req[q]
    BY <2>3, <2>4 DEF Inv, TypeOK
  <2>6. Sound(r)'
    BY <1>0, <2>1, <2>2, <2>4, <2>5 DEF Inv, Sound, Had, Exists
  <2>7. Mover(r)
    BY <1>0, <2>5, Acts
  <2>. QED BY <1>0, <2>4, <2>5, <2>6, <2>7, Quiet DEF Inv, TypeOK
<1>. QED BY <1>1, <1>2 DEF LoadRow

LEMMA CheckNewEmailInv == ASSUME Inv, NEW r \in Requests, CheckNewEmail(r) PROVE Inv'
<1>0. /\ req[r].pc = "check" /\ req[r].op = "change" /\ {"conflict", "write"} \subseteq PCs
      /\ UNCHANGED <<users, inbox, hist>>
  BY DEF CheckNewEmail, At, PCs
<1>1. CASE Answer(r, "conflict")
  BY <1>0, <1>1, MovesOn
<1>2. CASE Goto(r, "write")
  <2>1. /\ req' \in [Requests -> Request] /\ \A q \in Requests \ {r} : req'[q] = req[q]
        /\ req'[r].pc = "write" /\ req'[r].op = req[r].op /\ req'[r].user = req[r].user
        /\ req'[r].email = req[r].email /\ req'[r].name = req[r].name /\ req'[r].old = req[r].old
    BY <1>0, <1>2, Goes
  <2>2. Sound(r)'
    BY <1>0, <2>1 DEF Inv, Sound, Had, Exists
  <2>3. Mover(r)
    BY <1>0, <2>1, Acts
  <2>4. r \in hist.alone => req[r].old = users[req[r].user]
    BY <1>0 DEF Inv, Lone
  <2>. QED BY <1>0, <2>1, <2>2, <2>3, <2>4, Quiet DEF Inv, TypeOK
<1>. QED BY <1>1, <1>2 DEF CheckNewEmail

LEMMA FinishInv == ASSUME Inv, NEW r \in Requests, Finish(r) PROVE Inv'
<1>1. Idle \in Request /\ Idle.op = None /\ Idle.pc = "idle"
  BY DEF Idle, Request, PCs
<1>2. req' \in [Requests -> Request] /\ req'[r] = Idle /\ \A q \in Requests \ {r} : req'[q] = req[q]
  BY <1>1 DEF Finish, Inv, TypeOK
<1>3. /\ hist' \in History /\ hist'.held = hist.held /\ hist'.proved = hist.proved
      /\ hist'.alone = hist.alone \ {r} /\ UNCHANGED <<users, inbox>> /\ req[r].pc # "idle"
  BY DEF Finish, Inv, TypeOK, History
<1>4. Mover(r)
  BY <1>2, <1>3, Acts
<1>5. Sound(r)'
  BY <1>1, <1>2, NoneAssumption DEF Sound, Ops
<1>. QED BY <1>1, <1>2, <1>3, <1>4, <1>5, Quiet

\* A request that has written is not about to write again.
LEMMA Wrote ==
  ASSUME Inv, Grown, NEW r \in Requests, Mover(r), Sound(r)', req'[r].pc \in {"ok", "mail"},
         inbox' \subseteq Mail, Current', Arrived', AccountsDistinct', VerifiedByHolder'
  PROVE  Inv'
<1>1. TypeOK'
  BY DEF Grown, Mover, TypeOK
<1>. QED BY <1>1, Frame DEF Inv

LEMMA InsertUserInv == ASSUME Inv, NEW r \in Requests, InsertUser(r) PROVE Inv'
<1>0. /\ req[r].pc = "insert" /\ req[r].op = "register" /\ {"conflict", "mail"} \subseteq PCs
      /\ UNCHANGED inbox
  BY DEF InsertUser, At, PCs
<1>1. CASE Answer(r, "conflict") /\ UNCHANGED <<users, hist>>
  BY <1>0, <1>1, MovesOn
<1>2. CASE /\ ~EmailTaken(req[r].email, None) /\ ~NameTaken(req[r].name)
           /\ \E u \in Users :
                /\ NextRow(u)
                /\ users' = [users EXCEPT ![u] = NewUser(r)]
                /\ hist' = [hist EXCEPT !.held[u] = {req[r].email}]
                /\ req' = [req EXCEPT ![r].pc = "mail", ![r].user = u]
  <2>1. PICK u \in Users :
          /\ ~Exists(u)
          /\ users' = [users EXCEPT ![u] = NewUser(r)]
          /\ hist' = [hist EXCEPT !.held[u] = {req[r].email}]
          /\ req' = [req EXCEPT ![r].pc = "mail", ![r].user = u]
    BY <1>2 DEF NextRow
  <2>2. /\ req[r].email \in Emails /\ req[r].name \in Names /\ NewUser(r) \in User
        /\ NewUser(r).email = req[r].email /\ NewUser(r).name = req[r].name /\ ~NewUser(r).verified
    BY <1>0 DEF Inv, Sound, NewUser, User
  <2>3. /\ users' \in [Users -> User \cup {None}] /\ users'[u] = NewUser(r) /\ users'[u] # None
        /\ \A v \in Users \ {u} : users'[v] = users[v]
    BY <2>1, <2>2, NoneAssumption DEF Inv, TypeOK
  <2>4. /\ hist' \in History /\ hist'.held[u] = {req[r].email} /\ hist'.proved = hist.proved
        /\ hist'.alone = hist.alone /\ \A v \in Users \ {u} : hist'.held[v] = hist.held[v]
    BY <2>1, <2>2 DEF Inv, TypeOK, History
  <2>5. Grown
    BY <2>1, <2>3, <2>4 DEF Grown, Exists
  <2>. DEFINE new == [req[r] EXCEPT !.pc = "mail", !.user = u]
  <2>6. /\ new \in Request /\ new.pc = "mail" /\ new.op = "register" /\ new.user = u
        /\ new.email = req[r].email /\ new.name = req[r].name
    BY <1>0 DEF Inv, TypeOK, Request
  <2>7. req' = [req EXCEPT ![r] = new]
    BY <2>1
  <2>. HIDE DEF new
  <2>8. req'[r] = new /\ req' \in [Requests -> Request] /\ \A q \in Requests \ {r} : req'[q] = req[q]
    BY <2>6, <2>7 DEF Inv, TypeOK
  <2>9. Mover(r)
    BY <1>0, <2>4, <2>8, Acts
  <2>10. Sound(r)'
    BY <2>2, <2>3, <2>4, <2>6, <2>8 DEF Sound, Had, Exists
  <2>11. Current'
    BY <2>2, <2>3, <2>4 DEF Inv, Current, Exists
  <2>12. Arrived'
    BY <1>0, <2>1, <2>3, <2>4 DEF Inv, Arrived, Had, Exists
  <2>13. \A v \in Users : Exists(v) => users[v].email # req[r].email /\ users[v].name # req[r].name
    BY <1>2, NoneAssumption DEF EmailTaken, NameTaken, HasEmail, HasName
  <2>14. AccountsDistinct'
    BY <2>2, <2>3, <2>13 DEF Inv, AccountsDistinct, Exists
  <2>15. VerifiedByHolder'
    BY <2>2, <2>3, <2>4 DEF Inv, VerifiedByHolder, Exists, TypeOK, History, Mail
  <2>16. inbox' \subseteq Mail
    BY <1>0 DEF Inv, TypeOK
  <2>. QED BY <2>5, <2>6, <2>8, <2>9, <2>10, <2>11, <2>12, <2>14, <2>15, <2>16, Wrote
<1>. QED BY <1>1, <1>2 DEF InsertUser

LEMMA SendMailInv == ASSUME Inv, NEW r \in Requests, SendMail(r) PROVE Inv'
<1>0. /\ req[r].pc = "mail" /\ "ok" \in PCs /\ UNCHANGED <<users, hist>>
      /\ \A m \in inbox' : m \in inbox \/ m = [user |-> req[r].user, addr |-> req[r].email]
  BY DEF SendMail, PCs
<1>1. /\ req' \in [Requests -> Request] /\ \A q \in Requests \ {r} : req'[q] = req[q]
      /\ req'[r].pc = "ok" /\ req'[r].op = req[r].op /\ req'[r].user = req[r].user
      /\ req'[r].email = req[r].email /\ req'[r].name = req[r].name
  BY <1>0, Answers DEF SendMail
<1>2. Had(req[r].user, req[r].email) /\ req[r].email \in Emails
  BY <1>0 DEF Inv, Sound, Had, TypeOK, History
<1>3. Grown
  BY <1>0 DEF Grown, Inv, TypeOK, Exists
<1>4. Mover(r)
  BY <1>0, <1>1, Acts
<1>5. Sound(r)'
  BY <1>0, <1>1 DEF Inv, Sound, Had, Exists
<1>6. Current' /\ AccountsDistinct' /\ VerifiedByHolder'
  BY <1>0 DEF Inv, Current, AccountsDistinct, VerifiedByHolder, Exists
<1>7. Arrived' /\ inbox' \subseteq Mail
  BY <1>0, <1>2 DEF Inv, TypeOK, Arrived, Had, Exists, Mail
<1>. QED BY <1>1, <1>3, <1>4, <1>5, <1>6, <1>7, Wrote

LEMMA VerifyInv == ASSUME Inv, NEW r \in Requests, Verify(r) PROVE Inv'
<1>. DEFINE u == req[r].user
            m == [user |-> u, addr |-> req[r].email]
<1>0. req[r].pc = "write" /\ req[r].op = "verify" /\ "ok" \in PCs /\ UNCHANGED inbox
  BY DEF Verify, At, PCs
<1>1. /\ req' \in [Requests -> Request] /\ \A q \in Requests \ {r} : req'[q] = req[q]
      /\ req'[r].pc = "ok" /\ req'[r].op = req[r].op /\ req'[r].user = req[r].user
      /\ req'[r].email = req[r].email /\ req'[r].name = req[r].name
  BY <1>0, Answers DEF Verify
<1>2. Had(u, req[r].email) /\ req[r].email \in Emails /\ users[u] \in User
  BY <1>0 DEF Inv, Sound, Had, TypeOK, History, Exists
<1>3. users' = [users EXCEPT ![u].verified = IF req[r].old.verified THEN @ ELSE TRUE]
  BY DEF Verify
<1>. HIDE DEF u
<1>4. /\ users'[u] \in User /\ users'[u].email = users[u].email /\ users'[u].name = users[u].name
      /\ \A v \in Users \ {u} : users'[v] = users[v]
      /\ users' \in [Users -> User \cup {None}]
  <2>1. users' = [users EXCEPT ![u] =
          [users[u] EXCEPT !.verified = IF req[r].old.verified THEN @ ELSE TRUE]]
    BY <1>3
  <2>2. req[r].old.verified \in BOOLEAN
    BY <1>0 DEF Inv, Sound, User
  <2>. QED BY <1>2, <2>1, <2>2 DEF Had, Inv, TypeOK, User
<1>5. hist' \in History /\ hist'.held = hist.held /\ hist'.alone = hist.alone
      /\ hist'.proved = hist.proved \cup {m}
  BY <1>2 DEF Verify, Inv, TypeOK, History, Mail, Had, u
<1>6. users'[u] # None
  BY <1>4, NoneAssumption
<1>7. Grown
  BY <1>4, <1>5, <1>6 DEF Grown, Exists
<1>8. Mover(r)
  BY <1>0, <1>1, <1>5, Acts
<1>9. Sound(r)'
  BY <1>0, <1>1, <1>2, <1>5, <1>6 DEF Inv, Sound, Had, Exists, u
<1>10. Current'
  BY <1>2, <1>4, <1>5 DEF Inv, Current, Exists, Had
<1>11. Arrived'
  BY <1>0, <1>2, <1>5, <1>7 DEF Inv, Arrived, Had, Exists, Grown
<1>12. AccountsDistinct'
  BY <1>2, <1>4 DEF Inv, AccountsDistinct, Exists, Had
<1>13. VerifiedByHolder'
  <2>1. ASSUME NEW v \in Users, Exists(v)', users'[v].verified
        PROVE  \E n \in hist'.proved : n.user = v /\ n.addr \in hist'.held[v]
    <3>1. CASE v = u
      <4>1. m \in hist'.proved /\ m.user = v /\ m.addr \in hist'.held[v]
        BY <1>2, <1>5, <3>1 DEF Had
      <4>. QED BY <4>1
    <3>2. CASE v # u
      <4>1. Exists(v) /\ users[v].verified
        BY <1>4, <2>1, <3>2 DEF Exists
      <4>. QED BY <1>5, <4>1 DEF Inv, VerifiedByHolder
    <3>. QED BY <3>1, <3>2
  <2>. QED BY <2>1 DEF VerifiedByHolder
<1>14. inbox' \subseteq Mail
  BY <1>0 DEF Inv, TypeOK
<1>. QED BY <1>1, <1>7, <1>8, <1>9, <1>10, <1>11, <1>12, <1>13, <1>14, Wrote

\* What an UPDATE leaves of a row keeps what the other rows rely on.
LEMMA RowWritten ==
  ASSUME Inv, NEW r \in Requests, NEW u \in Users, Exists(u), NEW row \in User,
         users' = [users EXCEPT ![u] = row], UNCHANGED inbox,
         hist' \in History, hist'.alone = hist.alone, hist'.proved = hist.proved,
         \A v \in Users : hist.held[v] \subseteq hist'.held[v],
         row.email \in hist'.held[u], row.name = users[u].name,
         ~EmailTaken(row.email, u), row.verified => users[u].verified,
         req[r].pc = "write", req[r].user = u, Answer(r, "ok")
  PROVE  Inv'
<1>1. /\ users'[u] = row /\ \A v \in Users \ {u} : users'[v] = users[v]
      /\ users' \in [Users -> User \cup {None}] /\ row # None
  BY NoneAssumption DEF Inv, TypeOK
<1>2. "ok" \in PCs
  BY DEF PCs
<1>3. /\ req' \in [Requests -> Request] /\ \A q \in Requests \ {r} : req'[q] = req[q]
      /\ req'[r].pc = "ok" /\ req'[r].op = req[r].op /\ req'[r].user = req[r].user
      /\ req'[r].email = req[r].email /\ req'[r].name = req[r].name
  BY <1>2, Answers
<1>4. Grown
  BY <1>1 DEF Grown, Exists
<1>5. Mover(r)
  BY <1>3, Acts
<1>6. Sound(r)'
  BY <1>1, <1>3 DEF Inv, Sound, Had, Exists
<1>7. Current'
  BY <1>1 DEF Inv, Current, Exists
<1>8. Arrived'
  BY <1>1 DEF Inv, Arrived, Had, Exists
<1>9. AccountsDistinct'
  BY <1>1 DEF Inv, AccountsDistinct, Exists, EmailTaken, HasEmail
<1>10. VerifiedByHolder'
  <2>1. ASSUME NEW v \in Users, Exists(v)', users'[v].verified
        PROVE  \E n \in hist'.proved : n.user = v /\ n.addr \in hist'.held[v]
    <3>1. Exists(v) /\ users[v].verified
      BY <1>1, <2>1 DEF Exists
    <3>. QED BY <3>1 DEF Inv, VerifiedByHolder
  <2>. QED BY <2>1 DEF VerifiedByHolder
<1>11. inbox' \subseteq Mail
  BY DEF Inv, TypeOK
<1>. QED BY <1>3, <1>4, <1>5, <1>6, <1>7, <1>8, <1>9, <1>10, <1>11, Wrote

LEMMA ChangeEmailInv == ASSUME Inv, NEW r \in Requests, ChangeEmail(r) PROVE Inv'
<1>. DEFINE u == req[r].user
            email == NewEmail(req[r].old.email, req[r].email, users[u].email)
            verified == ResetVerified(req[r].old.verified, users[u].verified)
            row == [users[u] EXCEPT !.email = email, !.verified = verified]
<1>0. /\ req[r].pc = "write" /\ req[r].op = "change" /\ {"ok", "conflict"} \subseteq PCs
      /\ UNCHANGED inbox
  BY DEF ChangeEmail, At, PCs
<1>1. CASE Answer(r, "conflict") /\ UNCHANGED <<users, hist>>
  BY <1>0, <1>1, MovesOn
<1>2. CASE /\ ~EmailTaken(email, u) /\ Answer(r, "ok")
           /\ users' = [users EXCEPT ![u].email = email,
                                     ![u].verified = ResetVerified(req[r].old.verified, @)]
           /\ hist' = [hist EXCEPT !.held[u] = @ \cup {email}]
  <2>1. /\ u \in Users /\ Exists(u) /\ users[u] \in User /\ req[r].old \in User
        /\ req[r].email \in Emails
    BY <1>0 DEF Inv, Sound, TypeOK, Exists
  <2>2. email \in Emails
    BY <2>1 DEF NewEmail, User
  <2>3. verified \in BOOLEAN /\ (verified => users[u].verified)
    BY <2>1 DEF ResetVerified, User
  <2>. HIDE DEF email
  <2>6. users' = [users EXCEPT ![u] = row]
    BY <1>2, <2>1 DEF Inv, TypeOK, User
  <2>. HIDE DEF verified
  <2>4. /\ row \in User /\ row.email = email /\ row.name = users[u].name
        /\ row.verified = verified
    BY <2>1, <2>2, <2>3 DEF User
  <2>5. (row.verified => users[u].verified) /\ ~EmailTaken(row.email, u)
    BY <1>2, <2>3, <2>4
  <2>. HIDE DEF row, email
  <2>7. hist' = [hist EXCEPT !.held[u] = @ \cup {email}]
    BY <1>2
  <2>8. /\ hist' \in History /\ hist'.alone = hist.alone /\ hist'.proved = hist.proved
        /\ \A v \in Users : hist.held[v] \subseteq hist'.held[v]
        /\ email \in hist'.held[u]
    BY <2>1, <2>2, <2>7 DEF Inv, TypeOK, History
  <2>9. Answer(r, "ok")
    BY <1>2
  <2>. QED BY <1>0, <2>1, <2>4, <2>5, <2>6, <2>8, <2>9, RowWritten
<1>. QED BY <1>1, <1>2 DEF ChangeEmail

LEMMA UpdateProfileInv == ASSUME Inv, NEW r \in Requests, UpdateProfile(r) PROVE Inv'
<1>. DEFINE u == req[r].user
<1>0. /\ req[r].pc = "write" /\ req[r].op = "profile" /\ Answer(r, "ok") /\ UNCHANGED <<inbox, hist>>
      /\ users' = [users EXCEPT ![u] = users[u]]
  BY DEF UpdateProfile, At, Others
<1>1. u \in Users /\ Exists(u) /\ users[u] \in User /\ users[u].email \in hist.held[u]
  BY <1>0 DEF Inv, Sound, TypeOK, Exists, Current
<1>2. ~EmailTaken(users[u].email, u)
  BY <1>1 DEF Inv, AccountsDistinct, EmailTaken, HasEmail
<1>. QED BY <1>0, <1>1, <1>2, RowWritten DEF Inv, TypeOK

LEMMA InitInv == Init => Inv
<1>. SUFFICES ASSUME Init PROVE Inv
  OBVIOUS
<1>1. Idle \in Request /\ Idle.op = None /\ Idle.pc = "idle"
  BY DEF Idle, Request, PCs
<1>2. TypeOK
  BY <1>1 DEF Init, TypeOK, History
<1>3. ASSUME NEW r \in Requests PROVE Sound(r) /\ Lone(r)
  BY <1>1, NoneAssumption DEF Init, Sound, Lone, Ops
<1>. QED
  BY <1>2, <1>3 DEF Inv, Init, Current, Arrived, AccountsDistinct, VerifiedByHolder, Exists

LEMMA NextInv == Inv /\ [Next]_vars => Inv'
<1>. SUFFICES ASSUME Inv, [Next]_vars PROVE Inv'
  OBVIOUS
<1>1. ASSUME NEW r \in Requests, CheckEmail(r) \/ CheckName(r) PROVE Inv'
  <2>1. req[r].pc # "idle" /\ {"conflict", "name", "insert"} \subseteq PCs /\ UNCHANGED <<users, inbox, hist>>
    BY <1>1 DEF CheckEmail, CheckName, At, PCs
  <2>. QED BY <1>1, <2>1, MovesOn DEF CheckEmail, CheckName
<1>2. ASSUME NEW r \in Requests, Abort(r) PROVE Inv'
  <2>1. req[r].pc # "idle" /\ "failed" \in PCs
    BY <1>2 DEF Abort, PCs
  <2>. QED BY <1>2, <2>1, MovesOn DEF Abort
<1>3. CASE UNCHANGED vars
  BY <1>3 DEF vars, Inv, TypeOK, Current, Arrived, Sound, Lone, Had, Exists, AccountsDistinct,
              VerifiedByHolder
<1>. QED
  BY <1>1, <1>2, <1>3, BeginsInv, InsertUserInv, SendMailInv, LoadForResendInv, LoadRowInv,
     VerifyInv, CheckNewEmailInv, ChangeEmailInv, UpdateProfileInv, FinishInv
  DEF Next, Serve

-----------------------------------------------------------------------------
\* The inductive invariant of Accounts holds in every reachable state, for any accounts,
\* addresses, names and requests.
THEOREM Invariance == Spec => []Inv
BY InitInv, NextInv, PTL DEF Spec

\* Every reachable state is well typed.
THEOREM TypeCorrect == Spec => []TypeOK
BY Invariance, PTL DEF Inv

\* However register and change_email race, no two accounts share an address or a username.
THEOREM AccountsAreDistinct == Spec => []AccountsDistinct
BY Invariance, PTL DEF Inv

\* verify_email marks an account verified only for a mail sent to an address it has had.
THEOREM VerifiedIsHolder == Spec => []VerifiedByHolder
BY Invariance, PTL DEF Inv

\* An address changes only in change_email, to the address asked for; a change that no
\* other request overlaps takes the verification away.
THEOREM AddressesChange == Spec => AddressChanges
<1>. DEFINE Changing(u) == Exists(u) /\ users'[u].email # users[u].email =>
       \E r \in Requests :
         /\ At(r, "change", "write") /\ req[r].user = u /\ req[r].email = users'[u].email
         /\ r \in hist.alone => ~users'[u].verified
            Change == \A u \in Users : Changing(u)
<1>1. ASSUME Inv, [Next]_vars, NEW u \in Users PROVE Changing(u)
  <2>1. ASSUME NEW r \in Requests, InsertUser(r) PROVE Changing(u)
    <3>1. UNCHANGED users \/ \E v \in Users : ~Exists(v) /\ users' = [users EXCEPT ![v] = NewUser(r)]
      BY <2>1 DEF InsertUser, NextRow
    <3>. QED BY <1>1, <3>1 DEF Inv, TypeOK
  <2>2. ASSUME NEW r \in Requests, Verify(r) PROVE Changing(u)
    <3>. DEFINE v == req[r].user
                row == [users[v] EXCEPT !.verified = IF req[r].old.verified THEN @ ELSE TRUE]
    <3>1. v \in Users /\ users[v] \in User
      BY <1>1, <2>2 DEF Verify, At, Inv, Sound, TypeOK, Exists
    <3>2. row.email = users[v].email
      BY <3>1 DEF User
    <3>3. users' = [users EXCEPT ![v] = row]
      BY <2>2 DEF Verify
    <3>. HIDE DEF row
    <3>. QED BY <1>1, <3>2, <3>3 DEF Inv, TypeOK
  <2>3. ASSUME NEW r \in Requests, ChangeEmail(r) PROVE Changing(u)
    <3>. DEFINE v == req[r].user
                email == NewEmail(req[r].old.email, req[r].email, users[v].email)
                verified == ResetVerified(req[r].old.verified, users[v].verified)
                row == [users[v] EXCEPT !.email = email, !.verified = verified]
    <3>1. /\ At(r, "change", "write") /\ v \in Users /\ users[v] \in User /\ req[r].old \in User
          /\ r \in hist.alone => req[r].old = users[v]
      BY <1>1, <2>3 DEF ChangeEmail, At, Inv, Sound, Lone, TypeOK, Exists
    <3>2. row.email = email /\ row.verified = verified
      BY <3>1 DEF User
    <3>3. r \in hist.alone => ~row.verified
      BY <3>1, <3>2 DEF ResetVerified
    <3>4. email = users[v].email \/ email = req[r].email
      BY DEF NewEmail
    <3>5. \/ UNCHANGED users
          \/ users' = [users EXCEPT ![v].email = email,
                                    ![v].verified = ResetVerified(req[r].old.verified, @)]
      BY <2>3 DEF ChangeEmail
    <3>8. UNCHANGED users \/ users' = [users EXCEPT ![v] = row]
      BY <1>1, <3>1, <3>5 DEF Inv, TypeOK, User
    <3>. HIDE DEF row, email
    <3>6. CASE u = v
      BY <1>1, <3>1, <3>2, <3>3, <3>4, <3>6, <3>8 DEF Inv, TypeOK
    <3>7. CASE u # v
      BY <1>1, <3>1, <3>7, <3>8 DEF Inv, TypeOK
    <3>. QED BY <3>6, <3>7
  <2>4. ASSUME NEW r \in Requests, UpdateProfile(r) PROVE Changing(u)
    BY <1>1, <2>4 DEF UpdateProfile, Others, Inv, TypeOK
  <2>5. UNCHANGED users \/ \E r \in Requests :
          InsertUser(r) \/ Verify(r) \/ ChangeEmail(r) \/ UpdateProfile(r)
    BY <1>1 DEF Next, Serve, vars, Begin, BeginRegister, BeginVerify, BeginResend, BeginChange,
                BeginProfile, CheckEmail, CheckName, SendMail, LoadForResend, LoadRow,
                CheckNewEmail, Abort, Finish
  <2>. QED BY <2>1, <2>2, <2>3, <2>4, <2>5
<1>2. ASSUME Inv, [Next]_vars PROVE [Change]_vars
  BY <1>1, <1>2
<1>. QED
  BY <1>2, Invariance, PTL DEF Spec, AddressChanges
=============================================================================
