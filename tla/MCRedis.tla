------------------------------- MODULE MCRedis -------------------------------
(* The two components with keys of their own in Redis, RateLimit and       *)
(* AccessTokens, on small instances for TLC.  They share no key, no clock  *)
(* and no request state, so that no step of one is seen by the other: each *)
(* is explored with the other at rest in its initial state.                *)
EXTENDS RateLimit, AccessTokens

VARIABLE runs   \* the component that takes steps

redisVars == <<limiterVars, tokenVars, runs>>

InitRedis == LimiterInit /\ TokensInit /\ runs \in {"limiter", "tokens"}

LimiterRuns(A) == runs = "limiter" /\ A /\ UNCHANGED <<tokenVars, runs>>
TokensRun(A) == runs = "tokens" /\ A /\ UNCHANGED <<limiterVars, runs>>
NextRedis == LimiterRuns(LimiterNext) \/ TokensRun(TokensNext)

\* The fairness of LimiterFairSpec.
SpecRedis ==
  /\ InitRedis /\ [][NextRedis]_redisVars
  /\ WF_redisVars(LimiterRuns(WindowTick))
  /\ \A r \in Calls : WF_redisVars(LimiterRuns(CallStep(r)))
=============================================================================
