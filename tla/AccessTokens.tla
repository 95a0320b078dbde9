----------------------------- MODULE AccessTokens -----------------------------
(***************************************************************************)
(* Access tokens and their Redis blacklist: app/core/security.py,          *)
(* get_current_user (app/dependencies/auth.py) and the first half of       *)
(* AuthService.logout with its route (app/routers/v1/auth.py).             *)
(*                                                                         *)
(* Time runs in ticks, Res of them to the second.  A JWT's exp is a whole  *)
(* second, and a token is accepted until the clock shows a later whole     *)
(* second; the blacklist's TTL is a whole number of seconds as well, but   *)
(* counted from the instant of the logout.                                 *)
(***************************************************************************)
EXTENDS Integers

CONSTANTS Tokens, Requests,
          Res,      \* ticks per second
          Life,     \* seconds an access token lives
          MaxNow,   \* bound: ticks the clock runs
          NoToken

ASSUME ResAssumption == Res \in Nat \ {0}
ASSUME LifeAssumption == Life \in Nat \ {0}
ASSUME MaxNowAssumption == MaxNow \in Nat

VARIABLES now,
          exp,       \* exp claim of each token in seconds, or NotIssued
          until,     \* tick at which blacklist:access:<jti> expires, or NotIssued
          deleted,   \* is the account the tokens name deleted
          req,       \* [op, pc, tok, ttl]
          logouts    \* history: out, tokens a logout has answered for; late, requests that
                     \* began after that

tokenVars == <<now, exp, until, deleted, req, logouts>>

NotIssued == -1
Second == now \div Res

TokensTypeOK ==
  /\ now \in 0 .. MaxNow
  /\ exp \in [Tokens -> Nat \cup {NotIssued}]
  /\ until \in [Tokens -> Nat \cup {NotIssued}]
  /\ deleted \in BOOLEAN
  /\ req \in [Requests -> [op : {"none", "use", "logout"},
                           pc : {"idle", "decode", "redis", "user", "set", "ok", "refused"},
                           tok : Tokens \cup {NoToken}, ttl : Nat]]
  /\ logouts \in [out : SUBSET Tokens, late : SUBSET Requests]

Idle == [op |-> "none", pc |-> "idle", tok |-> NoToken, ttl |-> 0]

TokensInit ==
  /\ now = 0
  /\ exp = [t \in Tokens |-> NotIssued]
  /\ until = [t \in Tokens |-> NotIssued]
  /\ deleted = FALSE
  /\ req = [r \in Requests |-> Idle]
  /\ logouts = [out |-> {}, late |-> {}]

At(r, op, pc) == req[r].op = op /\ req[r].pc = pc
Turn(r, pc) == req' = [req EXCEPT ![r].pc = pc]

\* login and refresh: exp is now plus the lifetime, truncated to the second.
Issue(t) ==
  /\ exp[t] = NotIssued /\ ~deleted
  /\ exp' = [exp EXCEPT ![t] = (now + Life * Res) \div Res]
  /\ UNCHANGED <<now, until, deleted, req, logouts>>

Begin(r) == \E t \in Tokens, op \in {"use", "logout"} :
  /\ req[r].pc = "idle" /\ exp[t] # NotIssued
  /\ req' = [req EXCEPT ![r] = [Idle EXCEPT !.op = op, !.pc = "decode", !.tok = t]]
  /\ logouts' = [logouts EXCEPT !.late = IF t \in logouts.out THEN @ \cup {r} ELSE @]
  /\ UNCHANGED <<now, exp, until, deleted>>

\* python-jose: the signature has expired when exp is before the current second.
Valid(t) == Second <= exp[t]

DecodeForUse(r) ==
  /\ At(r, "use", "decode")
  /\ \/ Valid(req[r].tok) /\ Turn(r, "redis")
     \/ ~Valid(req[r].tok) /\ Turn(r, "refused")
  /\ UNCHANGED <<now, exp, until, deleted, logouts>>

Blacklisted(t) == now < until[t]

CheckNothing(r) ==
  /\ At(r, "use", "redis")
  /\ Turn(r, "user")
  /\ UNCHANGED <<now, exp, until, deleted, logouts>>

CheckBlacklist(r) ==
  /\ At(r, "use", "redis")
  /\ \/ Blacklisted(req[r].tok) /\ Turn(r, "refused")
     \/ ~Blacklisted(req[r].tok) /\ Turn(r, "user")
  /\ UNCHANGED <<now, exp, until, deleted, logouts>>

LoadUser(r) ==
  /\ At(r, "use", "user")
  /\ \/ deleted /\ Turn(r, "refused")
     \/ ~deleted /\ Turn(r, "ok")
  /\ UNCHANGED <<now, exp, until, deleted, logouts>>

\* ttl = max(int(exp - now), 1); int() drops the fraction.
TtlUnclamped(t) == (exp[t] * Res - now) \div Res
Ttl(t) == LET left == exp[t] * Res - now
          IN  IF left < Res THEN 1 ELSE left \div Res

\* A token that no longer decodes ends the logout with its 200.
DecodeForLogout(r) ==
  /\ At(r, "logout", "decode")
  /\ \/ /\ Valid(req[r].tok)
        /\ req' = [req EXCEPT ![r].pc = "set", ![r].ttl = Ttl(req[r].tok)]
     \/ ~Valid(req[r].tok) /\ Turn(r, "ok")
  /\ UNCHANGED <<now, exp, until, deleted, logouts>>

SetBlacklist(r) ==
  /\ At(r, "logout", "set")
  /\ until' = [until EXCEPT ![req[r].tok] = now + req[r].ttl * Res]
  /\ Turn(r, "ok")
  /\ logouts' = [logouts EXCEPT !.out = @ \cup {req[r].tok}]
  /\ UNCHANGED <<now, exp, deleted>>

Finish(r) ==
  /\ req[r].pc \in {"ok", "refused"}
  /\ req' = [req EXCEPT ![r] = Idle]
  /\ logouts' = [logouts EXCEPT !.late = @ \ {r}]
  /\ UNCHANGED <<now, exp, until, deleted>>

\* A Redis error is a 500; the SET may have been applied.
RedisFails(r) ==
  /\ \/ At(r, "use", "redis") /\ UNCHANGED until
     \/ /\ At(r, "logout", "set")
        /\ \/ UNCHANGED until
           \/ until' = [until EXCEPT ![req[r].tok] = now + req[r].ttl * Res]
  /\ Turn(r, "refused")
  /\ UNCHANGED <<now, exp, deleted, logouts>>

\* soft_delete_account, called with an access token.
DeleteAccount ==
  /\ \E t \in Tokens : exp[t] # NotIssued
  /\ ~deleted /\ deleted' = TRUE
  /\ UNCHANGED <<now, exp, until, req, logouts>>

Tick ==
  /\ now < MaxNow /\ now' = now + 1
  /\ UNCHANGED <<exp, until, deleted, req, logouts>>

Serve(r) ==
  \/ DecodeForUse(r) \/ CheckBlacklist(r) \/ LoadUser(r)
  \/ DecodeForLogout(r) \/ SetBlacklist(r)
TokensNext ==
  \/ \E r \in Requests : Begin(r) \/ Serve(r) \/ RedisFails(r) \/ Finish(r)
  \/ (\E t \in Tokens : Issue(t)) \/ DeleteAccount \/ Tick

TokensSpec == TokensInit /\ [][TokensNext]_tokenVars

-----------------------------------------------------------------------------
\* A request that begins after a logout has answered is not authenticated by its token,
\* but for the last second of the token's life and the second of exp itself, which the
\* decoder still accepts and the truncated TTL does not reach.
LoggedOutRefused == \A r \in logouts.late :
  At(r, "use", "ok") => now >= (exp[req[r].tok] - 1) * Res

\* Redis refuses a SET whose time to live is not positive.  However little of its life a
\* token has left, and however far the decoder's rounding is behind the clock, the logout
\* sends one that Redis takes.
TtlAccepted == \A r \in Requests : At(r, "logout", "set") => req[r].ttl > 0
=============================================================================
