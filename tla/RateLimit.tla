------------------------------ MODULE RateLimit ------------------------------
(***************************************************************************)
(* The fixed-window limiter of app/middleware/rate_limit.py.  INCR and     *)
(* EXPIRE are two Redis commands with an await between them; either may    *)
(* fail, before or after Redis has applied it, and the worker may die.     *)
(***************************************************************************)
EXTENDS Integers, FiniteSets

CONSTANTS Clients,    \* client addresses, one key each
          Calls,      \* requests the middleware handles, at most one each at a time
          Limit,      \* RATE_LIMIT_PER_MINUTE
          Window,     \* the 60 s of the code, in ticks
          MaxCount,   \* bound: requests arrive while the count is below it
          MaxCallFaults   \* bound: Redis failures and worker deaths

ASSUME MaxCallFaultsAssumption == MaxCallFaults \in Nat
ASSUME LimitAssumption == Limit \in Nat
ASSUME WindowAssumption == Window \in Nat \ {0}

VARIABLES count,      \* value of ratelimit:<ip>; 0 when the key does not exist
          ttl,        \* ticks to live, or Forever
          call,       \* [pc, client, n, old]: n is the value INCR returned, old: the key of
                      \* that INCR has expired since
          admitted,   \* history: requests of the key's life that passed under the limit
          faults,
          orphaned    \* history: clients whose key a fault left without its EXPIRE

limiterVars == <<count, ttl, call, admitted, faults, orphaned>>

Forever == -1
PCs == {"idle", "incr", "expire", "decide", "passed", "refused"}

LimiterTypeOK ==
  /\ count \in [Clients -> Nat]
  /\ ttl \in [Clients -> (1 .. Window) \cup {Forever}]
  /\ call \in [Calls -> [pc : PCs, client : Clients, n : Nat, old : BOOLEAN]]
  /\ admitted \in [Clients -> Nat]
  /\ faults \in 0 .. MaxCallFaults
  /\ orphaned \subseteq Clients

NoCall(c) == [pc |-> "idle", client |-> c, n |-> 0, old |-> FALSE]

LimiterInit ==
  /\ count = [c \in Clients |-> 0]
  /\ ttl = [c \in Clients |-> Forever]
  /\ \E c \in Clients : call = [r \in Calls |-> NoCall(c)]
  /\ admitted = [c \in Clients |-> 0]
  /\ faults = 0
  /\ orphaned = {}

Key(r) == call[r].client
CallAt(r, pc) == call[r].pc = pc
CallGoto(r, pc) == call' = [call EXCEPT ![r].pc = pc]

\* Documentation, health checks and preflights skip the limiter.
Arrive(r) ==
  /\ CallAt(r, "idle")
  /\ \E c \in Clients :
       \/ call' = [call EXCEPT ![r] = [NoCall(c) EXCEPT !.pc = "passed"]]
       \/ count[c] < MaxCount /\ call' = [call EXCEPT ![r] = [NoCall(c) EXCEPT !.pc = "incr"]]
  /\ UNCHANGED <<count, ttl, admitted, faults, orphaned>>

\* INCR creates a missing key without a time to live.
Decrement(c) == count' = [count EXCEPT ![c] = @ - 1]
Increment(c) == count' = [count EXCEPT ![c] = @ + 1]

StartsWindowAlways(n) == TRUE
StartsWindowLate(n) == n = 2
StartsWindow(n) == n = 1

Incr(r) ==
  /\ CallAt(r, "incr")
  /\ Increment(Key(r))
  /\ call' = [call EXCEPT ![r].pc = IF StartsWindow(count[Key(r)] + 1) THEN "expire" ELSE "decide",
                        ![r].n = count[Key(r)] + 1, ![r].old = FALSE]
  /\ UNCHANGED <<ttl, admitted, faults, orphaned>>

SetTtlForgotten(c) == UNCHANGED ttl
SetTtl(c) == ttl' = [ttl EXCEPT ![c] = Window]

Expire(r) ==
  /\ CallAt(r, "expire")
  /\ SetTtl(Key(r))
  /\ CallGoto(r, "decide")
  /\ UNCHANGED <<count, admitted, faults, orphaned>>

OverLimitByOne(n) == n > Limit + 1
OverLimit(n) == n > Limit

Decide(r) ==
  /\ CallAt(r, "decide")
  /\ \/ OverLimit(call[r].n) /\ CallGoto(r, "refused") /\ UNCHANGED admitted
     \/ /\ ~OverLimit(call[r].n) /\ CallGoto(r, "passed")
        /\ admitted' = [admitted EXCEPT ![Key(r)] = IF call[r].old THEN @ ELSE @ + 1]
  /\ UNCHANGED <<count, ttl, faults, orphaned>>

\* A fault during a command leaves nothing of it, or all of it.
LeftOfCommand(r) ==
  LET c == Key(r)
      Orphan(creates) == orphaned' = IF creates THEN orphaned \cup {c} ELSE orphaned
  IN  \/ UNCHANGED <<count, ttl>> /\ Orphan(CallAt(r, "expire"))
      \/ CallAt(r, "incr") /\ Increment(c) /\ UNCHANGED ttl /\ Orphan(StartsWindow(count[c] + 1))
      \/ CallAt(r, "expire") /\ SetTtl(c) /\ UNCHANGED <<count, orphaned>>

\* Any Redis error lets the request through.
CallFails(r) ==
  /\ faults < MaxCallFaults /\ faults' = faults + 1
  /\ call[r].pc \in {"incr", "expire"}
  /\ LeftOfCommand(r)
  /\ CallGoto(r, "passed")
  /\ UNCHANGED admitted

CallDies(r) ==
  /\ faults < MaxCallFaults /\ faults' = faults + 1
  /\ call[r].pc \in {"incr", "expire", "decide"}
  /\ LeftOfCommand(r)
  /\ CallGoto(r, "idle")
  /\ UNCHANGED admitted

CallFinish(r) ==
  /\ call[r].pc \in {"passed", "refused"}
  /\ call' = [call EXCEPT ![r] = NoCall(Key(r))]
  /\ UNCHANGED <<count, ttl, admitted, faults, orphaned>>

\* A tick of Redis's clock; the key goes when its time is up, and a new life begins.
Ends(c) == count[c] > 0 /\ ttl[c] = 1
WindowTick ==
  /\ \E c \in Clients : ttl[c] # Forever
  /\ ttl' = [c \in Clients |-> IF ttl[c] \in {1, Forever} THEN Forever ELSE ttl[c] - 1]
  /\ count' = [c \in Clients |-> IF Ends(c) THEN 0 ELSE count[c]]
  /\ admitted' = [c \in Clients |-> IF Ends(c) THEN 0 ELSE admitted[c]]
  /\ call' = [r \in Calls |-> IF Ends(Key(r)) THEN [call[r] EXCEPT !.old = TRUE] ELSE call[r]]
  /\ UNCHANGED <<faults, orphaned>>

CallStep(r) == Incr(r) \/ Expire(r) \/ Decide(r) \/ CallFinish(r)
LimiterNext ==
  \/ \E r \in Calls : Arrive(r) \/ CallStep(r) \/ CallFails(r) \/ CallDies(r)
  \/ WindowTick

LimiterSpec == LimiterInit /\ [][LimiterNext]_limiterVars

\* Time passes, and the event loop resumes a request whose Redis call has returned.
LimiterFairSpec ==
  LimiterSpec /\ WF_limiterVars(WindowTick) /\ \A r \in Calls : WF_limiterVars(CallStep(r))

-----------------------------------------------------------------------------
\* In one life of a key at most Limit requests get through other than those a Redis
\* error lets through, however INCR, EXPIRE and the comparison interleave.
WindowBudget == \A c \in Clients : admitted[c] <= Limit

\* A window that runs is never made longer by a later request.
WindowNotExtended == [][\A c \in Clients :
  ttl[c] # Forever => (ttl'[c] # Forever /\ ttl'[c] <= ttl[c]) \/ count'[c] = 0]_limiterVars

\* A key without a time to live would limit its client for ever: its EXPIRE is still to
\* come, unless a fault came between that and the INCR.
WillExpire(c) == count[c] > 0 /\ ttl[c] = Forever =>
  c \in orphaned \/ \E r \in Calls : Key(r) = c /\ CallAt(r, "expire")
KeyWillExpire == \A c \in Clients : WillExpire(c)

\* A client over the limit is let in again when its window ends, unless a fault came
\* between the INCR and the EXPIRE of the request that created its key.
LimitedClientRecovers == \A c \in Clients :
  count[c] > Limit ~> count[c] = 0 \/ c \in orphaned
=============================================================================
