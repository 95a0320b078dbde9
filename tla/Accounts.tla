------------------------------- MODULE Accounts -------------------------------
(***************************************************************************)
(* Accounts and their addresses: register, verify_email and                *)
(* resend_verification (app/services/auth_service.py), change_email and    *)
(* the profile (app/services/user_service.py), app/repositories/user.py.   *)
(* Roles are the subject of Permissions, deletion of AuthSessions.         *)
(*                                                                         *)
(* A verification token is a JWT that names the account and nothing else.  *)
(* What becomes of a mail on its way is the subject of EmailDelivery; here *)
(* it arrives or it does not.                                              *)
(***************************************************************************)
EXTENDS Integers

CONSTANTS Users,      \* rows of users, in the order they are registered
          Emails, Names, Requests,
          None

ASSUME UsersAssumption == Users \subseteq Nat

VARIABLES users,   \* [email, name, verified], None for a row not there yet
          inbox,   \* history: verification mails that arrived, as [user, addr]
          req,     \* [op, pc, user, email, name, old]: old is the row as loaded
          hist     \* history: held[u], the addresses the account has had;
                   \* proved, the mails whose token was used; alone, the request
                   \* that no other has overlapped

vars == <<users, inbox, req, hist>>

User == [email : Emails, name : Names, verified : BOOLEAN]
Mail == [user : Users, addr : Emails]
Ops == {"register", "verify", "resend", "change", "profile"}
PCs == {"idle", "email", "name", "insert", "load", "check", "write", "mail",
        "ok", "conflict", "denied", "failed"}
Request == [op : Ops \cup {None}, pc : PCs, user : Users \cup {None}, email : Emails \cup {None},
            name : Names \cup {None}, old : User \cup {None}]
History == [held : [Users -> SUBSET Emails], proved : SUBSET Mail, alone : SUBSET Requests]

ASSUME NoneAssumption == None \notin Users \cup User \cup Emails \cup Names \cup Ops

TypeOK ==
  /\ users \in [Users -> User \cup {None}]
  /\ inbox \subseteq Mail
  /\ req \in [Requests -> Request]
  /\ hist \in History

Idle == [op |-> None, pc |-> "idle", user |-> None, email |-> None, name |-> None, old |-> None]

Init ==
  /\ users = [u \in Users |-> None]
  /\ inbox = {}
  /\ req = [r \in Requests |-> Idle]
  /\ hist = [held |-> [u \in Users |-> {}], proved |-> {}, alone |-> {}]

Exists(u) == users[u] # None
HasEmail(u, e) == Exists(u) /\ users[u].email = e
HasName(u, n) == Exists(u) /\ users[u].name = n

At(r, op, pc) == req[r].op = op /\ req[r].pc = pc
Goto(r, pc) == req' = [req EXCEPT ![r].pc = pc]
Answer(r, pc) == req' = [req EXCEPT ![r].pc = pc, ![r].old = None]
Begin(r, op, pc, u, e, n) ==
  /\ req[r].pc = "idle"
  /\ req' = [req EXCEPT ![r] = [Idle EXCEPT !.op = op, !.pc = pc, !.user = u, !.email = e, !.name = n]]
  /\ hist' = [hist EXCEPT !.alone = IF \A q \in Requests \ {r} : req[q].pc = "idle" THEN {r} ELSE {}]
  /\ UNCHANGED <<users, inbox>>

BeginRegister(r) == \E e \in Emails, n \in Names : Begin(r, "register", "email", None, e, n)
BeginVerify(r) == \E m \in inbox : Begin(r, "verify", "load", m.user, m.addr, None)
BeginResend(r) == \E e \in Emails : Begin(r, "resend", "load", None, e, None)
BeginChange(r) == \E u \in Users, e \in Emails : Exists(u) /\ Begin(r, "change", "load", u, e, None)
BeginProfile(r) == \E u \in Users : Exists(u) /\ Begin(r, "profile", "load", u, None, None)

-----------------------------------------------------------------------------
(* register: two SELECTs, an INSERT, and only then the mail.               *)

CheckEmail(r) ==
  /\ At(r, "register", "email")
  /\ \/ (\E u \in Users : HasEmail(u, req[r].email)) /\ Answer(r, "conflict")
     \/ (\A u \in Users : ~HasEmail(u, req[r].email)) /\ Goto(r, "name")
  /\ UNCHANGED <<users, inbox, hist>>

CheckName(r) ==
  /\ At(r, "register", "name")
  /\ \/ (\E u \in Users : HasName(u, req[r].name)) /\ Answer(r, "conflict")
     \/ (\A u \in Users : ~HasName(u, req[r].name)) /\ Goto(r, "insert")
  /\ UNCHANGED <<users, inbox, hist>>

\* The unique indexes; self is the row an UPDATE writes.
NeverTaken(email, self) == FALSE
EmailTaken(email, self) == \E u \in Users \ {self} : HasEmail(u, email)
NameTaken(name) == \E u \in Users : HasName(u, name)

NextRow(u) == ~Exists(u) /\ \A v \in Users : ~Exists(v) => u <= v
NewUserVerified(r) == [email |-> req[r].email, name |-> req[r].name, verified |-> TRUE]
NewUserNoDefault(r) == [email |-> req[r].email, name |-> req[r].name, verified |-> None]
NewUser(r) == [email |-> req[r].email, name |-> req[r].name, verified |-> FALSE]

InsertUser(r) ==
  /\ At(r, "register", "insert")
  /\ \/ /\ EmailTaken(req[r].email, None) \/ NameTaken(req[r].name)
        /\ Answer(r, "conflict")
        /\ UNCHANGED <<users, hist>>
     \/ /\ ~EmailTaken(req[r].email, None) /\ ~NameTaken(req[r].name)
        /\ \E u \in Users :
             /\ NextRow(u)
             /\ users' = [users EXCEPT ![u] = NewUser(r)]
             /\ hist' = [hist EXCEPT !.held[u] = {req[r].email}]
             /\ req' = [req EXCEPT ![r].pc = "mail", ![r].user = u]
  /\ UNCHANGED inbox

\* The mail goes to the address the request has; the token names the account.
SendMail(r) ==
  /\ req[r].pc = "mail"
  /\ inbox' \in {inbox, inbox \cup {[user |-> req[r].user, addr |-> req[r].email]}}
  /\ Answer(r, "ok")
  /\ UNCHANGED <<users, hist>>

-----------------------------------------------------------------------------
(* resend_verification: silent when there is nothing to do.                *)

LoadForResend(r) ==
  /\ At(r, "resend", "load")
  /\ \/ (\A u \in Users : HasEmail(u, req[r].email) => users[u].verified) /\ Answer(r, "ok")
     \/ \E u \in Users :
          /\ HasEmail(u, req[r].email) /\ ~users[u].verified
          /\ req' = [req EXCEPT ![r].pc = "mail", ![r].user = u]
  /\ UNCHANGED <<users, inbox, hist>>

-----------------------------------------------------------------------------
(* verify_email, change_email, update_profile and update_profile_image     *)
(* load the row and write the columns whose value they change.             *)

\* An expired token, a wrong current password or an unfit image is refused.
LoadRow(r) ==
  /\ req[r].op \in {"verify", "change", "profile"} /\ req[r].pc = "load"
  /\ \/ Answer(r, "denied")
     \/ req' = [req EXCEPT ![r].old = users[req[r].user],
                           ![r].pc = IF req[r].op = "change" THEN "check" ELSE "write"]
  /\ UNCHANGED <<users, inbox, hist>>

Verify(r) ==
  /\ At(r, "verify", "write")
  /\ users' = [users EXCEPT ![req[r].user].verified = IF req[r].old.verified THEN @ ELSE TRUE]
  /\ hist' = [hist EXCEPT !.proved = @ \cup {[user |-> req[r].user, addr |-> req[r].email]}]
  /\ Answer(r, "ok")
  /\ UNCHANGED inbox

CheckNewEmail(r) ==
  /\ At(r, "change", "check")
  /\ \/ EmailTaken(req[r].email, req[r].user) /\ Answer(r, "conflict")
     \/ ~EmailTaken(req[r].email, req[r].user) /\ Goto(r, "write")
  /\ UNCHANGED <<users, inbox, hist>>

ResetVerified(loaded, stored) == IF loaded THEN FALSE ELSE stored
NewEmail(old, wanted, stored) == IF old = wanted THEN stored ELSE wanted

ChangeEmail(r) ==
  /\ At(r, "change", "write")
  /\ LET u == req[r].user
         email == NewEmail(req[r].old.email, req[r].email, users[u].email)
     IN  \/ /\ EmailTaken(email, u) /\ Answer(r, "conflict")
            /\ UNCHANGED <<users, hist>>
         \/ /\ ~EmailTaken(email, u) /\ Answer(r, "ok")
            /\ users' = [users EXCEPT ![u].email = email,
                                      ![u].verified = ResetVerified(req[r].old.verified, @)]
            /\ hist' = [hist EXCEPT !.held[u] = @ \cup {email}]
  /\ UNCHANGED inbox

\* The profile's own columns are not modelled; those that are keep what is stored.
OthersAsLoaded(loaded, stored) == loaded
Others(loaded, stored) == stored

UpdateProfile(r) ==
  /\ At(r, "profile", "write")
  /\ users' = [users EXCEPT ![req[r].user] = Others(req[r].old, @)]
  /\ Answer(r, "ok")
  /\ UNCHANGED <<inbox, hist>>

-----------------------------------------------------------------------------
\* After the commit of register a failure leaves the account without a mail.
Abort(r) ==
  /\ req[r].pc \in {"email", "name", "insert", "load", "check", "write", "mail"}
  /\ Answer(r, "failed")
  /\ UNCHANGED <<users, inbox, hist>>

Finish(r) ==
  /\ req[r].pc \in {"ok", "conflict", "denied", "failed"}
  /\ req' = [req EXCEPT ![r] = Idle]
  /\ hist' = [hist EXCEPT !.alone = @ \ {r}]
  /\ UNCHANGED <<users, inbox>>

Serve(r) ==
  \/ CheckEmail(r) \/ CheckName(r) \/ InsertUser(r) \/ SendMail(r)
  \/ LoadForResend(r) \/ LoadRow(r) \/ Verify(r) \/ CheckNewEmail(r) \/ ChangeEmail(r)
  \/ UpdateProfile(r)
Next == \E r \in Requests :
  \/ BeginRegister(r) \/ BeginVerify(r) \/ BeginResend(r) \/ BeginChange(r) \/ BeginProfile(r)
  \/ Serve(r) \/ Abort(r) \/ Finish(r)

Spec == Init /\ [][Next]_vars

-----------------------------------------------------------------------------
\* However registrations and changes of address race between their SELECT and their
\* write, no two accounts share an address or a username.
AccountsDistinct == \A u, v \in Users : u # v /\ Exists(u) /\ Exists(v) =>
  users[u].email # users[v].email /\ users[u].name # users[v].name

\* No account is verified without a mail that reached an address the account has had.
VerifiedByHolder == \A u \in Users : Exists(u) /\ users[u].verified =>
  \E m \in hist.proved : m.user = u /\ m.addr \in hist.held[u]

\* An address changes only to one that was asked for, a profile written from a row loaded
\* before does not bring the old one back; and a change of address that no other request
\* overlaps takes the verification away.
AddressChanges == [][\A u \in Users : Exists(u) /\ users'[u].email # users[u].email =>
  \E r \in Requests :
    /\ At(r, "change", "write") /\ req[r].user = u /\ req[r].email = users'[u].email
    /\ r \in hist.alone => ~users'[u].verified]_vars
=============================================================================
