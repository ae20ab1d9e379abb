--------------------------- MODULE MCAuthSessions ---------------------------
(* Small instances of AuthSessions and of RateLimiter.  The sign-in passes *)
(* the limits first and shares no state with them, so a behaviour of this  *)
(* module is one of either while the other rests.                          *)
EXTENDS AuthSessions, RateLimiter, TLC

VARIABLE part

Interchangeable ==
  Permutations(Session) \cup Permutations(Token) \cup Permutations(Request)

AuthInit ==
  /\ part \in {"sessions", "limits"}
  /\ Init /\ LimiterInit

AuthNext ==
  \/ part = "sessions" /\ Next /\ UNCHANGED <<limiterVars, part>>
  \/ part = "limits" /\ LimiterNext /\ UNCHANGED <<vars, part>>

AuthSpec == AuthInit /\ [][AuthNext]_<<vars, limiterVars, part>>
=============================================================================
