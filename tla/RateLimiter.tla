---------------------------- MODULE RateLimiter ----------------------------
(***************************************************************************)
(* The limits on sign-in attempts: RateLimiter (rate_limit.py) as the      *)
(* login handler uses it (auth.py).  The model follows the counters of one *)
(* e-mail.  The counter of an address is shared with the attempts for      *)
(* other e-mails: its hit lets through or refuses.                         *)
(*                                                                         *)
(* A count belongs to a window of time.  It is kept in Redis, shared by    *)
(* all processes; a process that gets no answer counts in its own memory,  *)
(* from zero, and the two counts are never merged.  For a while it does    *)
(* not ask Redis again (the breaker): a hit in that time counts in memory  *)
(* like one that Redis fails, which it may do at any time.                 *)
(*                                                                         *)
(* A hit is one step: the window it asks for is still the current one when *)
(* the answer comes.                                                       *)
(***************************************************************************)
EXTENDS Naturals, FiniteSets

CONSTANTS Process, Attempt,
          LoginEmailLimit,    \* settings: hits in a short window
          LoginFailureLimit,  \* settings: failures in a long one
          FailSpan,      \* short windows in a long one
          Horizon,       \* bound: short windows, then their numbers are used again
          MaxArrivals,   \* bound: attempts in a short window
          MaxRestarts    \* bound: processes that restart, each once

ASSUME RateLimiterAssumption ==
  /\ IsFiniteSet(Attempt)
  /\ LoginEmailLimit \in Nat
  /\ LoginFailureLimit \in Nat \ {0}
  /\ FailSpan \in Nat \ {0}
  /\ Horizon \in Nat \ {0} /\ MaxArrivals \in Nat /\ MaxRestarts \in Nat

VARIABLES now,        \* the number of the current short window
          shared,     \* [Scope -> count in its current window, in Redis]
          windows,    \* [Process -> its in-memory counts, by key]
          life,       \* [Process -> 1 when it has restarted, 0 before]
          attempt,    \* [Attempt -> how far it is, and the process serving it]
          arrivals,   \* attempts in this short window
          \* history of the current window of each scope:
          admitted,   \* [Scope -> hits let through]
          fallback,   \* [Scope -> processes, with their life, that used memory]
          guesses,    \* wrong passwords that were verified
          uncounted   \* of those, lost in a restart before they were counted

limiterVars == <<now, shared, windows, life, attempt, arrivals,
                 admitted, fallback, guesses, uncounted>>

Arrivals == "login_email"
Failures == "login_fail_email"
Scope == {Arrivals, Failures}

LimitOf == [login_email |-> LoginEmailLimit, login_fail_email |-> LoginFailureLimit]

(* The window of scope s that holds the short window t. *)
WindowAt(s, t) == IF s = Failures THEN t \div FailSpan ELSE t

Key(s) == <<s, WindowAt(s, now)>>

(* The model only keeps windows up to the current one, so one that is not  *)
(* current has ended.                                                      *)
WindowExpired(key) == key # Key(key[1])

Waiting == [at |-> "waiting"]

At(phase, p) == [at |-> phase, process |-> p]

LimiterInit ==
  /\ now = 0
  /\ shared = [s \in Scope |-> 0]
  /\ windows = [p \in Process |-> << >>]
  /\ life = [p \in Process |-> 0]
  /\ attempt = [a \in Attempt |-> Waiting]
  /\ arrivals = 0
  /\ admitted = [s \in Scope |-> 0]
  /\ fallback = [s \in Scope |-> {}]
  /\ guesses = 0 /\ uncounted = 0

(* The counts of a process after a prune that knows only short windows. *)
Prune_ShortWindows(counts) ==
  [k \in {k \in DOMAIN counts : counts[k] > 0 /\ k[2] = now} |-> counts[k]]

(* _MemoryStore._prune: the counts without those that are zero or ended. *)
Prune(counts) ==
  [k \in {k \in DOMAIN counts : counts[k] > 0 /\ ~WindowExpired(k)} |-> counts[k]]

Remembered(p, key) == IF key \in DOMAIN windows[p] THEN windows[p][key] ELSE 0

(* _hit_memory and the prune after it; by is 0 for count_only. *)
HitMemory(p, s, by, count) ==
  /\ count = Remembered(p, Key(s)) + by
  /\ windows' = [windows EXCEPT ![p] =
       Prune([k \in DOMAIN @ \cup {Key(s)} |-> IF k = Key(s) THEN count ELSE @[k]])]
  /\ fallback' = [fallback EXCEPT ![s] = @ \cup {<<p, life[p]>>}]

(* RateLimiter.hit: Redis answers; or it fails, before or after it has     *)
(* counted, or is not asked while the breaker is open.                     *)
Hit(p, s, by, count) ==
  \/ /\ count = shared[s] + by
     /\ shared' = [shared EXCEPT ![s] = count]
     /\ UNCHANGED <<windows, fallback>>
  \/ /\ \E done \in {0, by} : shared' = [shared EXCEPT ![s] = @ + done]
     /\ HitMemory(p, s, by, count)

(* The counts a hit can answer with. *)
Count == UNION {{shared[s], shared[s] + 1} : s \in Scope} \cup
         UNION {{Remembered(p, Key(s)), Remembered(p, Key(s)) + 1} :
                p \in Process, s \in Scope}

Move(a, to) == attempt' = [attempt EXCEPT ![a] = to]

(* An attempt arrives.  The counter of its address refuses it, or that of  *)
(* its e-mail does (429 over the limit), or it goes on.                     *)
Arrive(a, p) ==
  /\ attempt[a] = Waiting
  /\ arrivals < MaxArrivals /\ arrivals' = arrivals + 1
  /\ \/ UNCHANGED <<shared, windows, fallback, attempt, admitted>>
     \/ \E count \in Count :
          /\ Hit(p, Arrivals, 1, count)
          /\ IF count > LoginEmailLimit
             THEN UNCHANGED <<attempt, admitted>>
             ELSE /\ Move(a, At("check", p))
                  /\ admitted' = [admitted EXCEPT ![Arrivals] = @ + 1]
  /\ UNCHANGED <<now, life, guesses, uncounted>>

(* The guard lets through when the failures have reached the limit. *)
CheckFailures_OffByOne(a) ==
  /\ attempt[a].at = "check"
  /\ \E count \in Count :
       /\ Hit(attempt[a].process, Failures, 0, count)
       /\ Move(a, IF count > LoginFailureLimit THEN Waiting
                  ELSE At("verify", attempt[a].process))
  /\ UNCHANGED <<now, life, arrivals, admitted, guesses, uncounted>>

(* The guard before the verification reads the failures without counting. *)
CheckFailures(a) ==
  /\ attempt[a].at = "check"
  /\ \E count \in Count :
       /\ Hit(attempt[a].process, Failures, 0, count)
       /\ Move(a, IF count >= LoginFailureLimit THEN Waiting
                  ELSE At("verify", attempt[a].process))
  /\ UNCHANGED <<now, life, arrivals, admitted, guesses, uncounted>>

(* authenticate_login: the attempt ends, or the password is wrong. *)
Verify(a) ==
  /\ attempt[a].at = "verify"
  /\ \/ Move(a, Waiting) /\ UNCHANGED guesses
     \/ Move(a, At("count", attempt[a].process)) /\ guesses' = guesses + 1
  /\ UNCHANGED <<now, shared, windows, life, arrivals, admitted, fallback, uncounted>>

(* The failure is counted; over the limit the answer is 429 and not 401. *)
CountFailure(a) ==
  /\ attempt[a].at = "count"
  /\ \E count \in Count :
       /\ Hit(attempt[a].process, Failures, 1, count)
       /\ admitted' = [admitted EXCEPT ![Failures] =
                         IF count > LoginFailureLimit THEN @ ELSE @ + 1]
  /\ Move(a, Waiting)
  /\ UNCHANGED <<now, life, arrivals, guesses, uncounted>>

(* A process ends with the attempts it serves and starts again. *)
Restart(p) ==
  /\ life[p] = 0 /\ Cardinality({q \in Process : life[q] = 1}) < MaxRestarts
  /\ life' = [life EXCEPT ![p] = 1]
  /\ windows' = [windows EXCEPT ![p] = << >>]
  /\ LET lost == {a \in Attempt : attempt[a] # Waiting /\ attempt[a].process = p}
     IN  /\ attempt' = [a \in Attempt |-> IF a \in lost THEN Waiting ELSE attempt[a]]
         /\ uncounted' = uncounted + Cardinality({a \in lost : attempt[a].at = "count"})
  /\ UNCHANGED <<now, shared, arrivals, admitted, fallback, guesses>>

(* The next short window begins, and with it perhaps a long one.  A count  *)
(* that a process still holds under a number that is used again goes: the  *)
(* code never uses a number twice.                                         *)
Tick ==
  /\ now' = (now + 1) % Horizon
  /\ arrivals' = 0
  /\ LET Ends(s) == WindowAt(s, now') # WindowAt(s, now)
         Begins(key) == Ends(key[1]) /\ key[2] = WindowAt(key[1], now')
     IN  /\ shared' = [s \in Scope |-> IF Ends(s) THEN 0 ELSE shared[s]]
         /\ admitted' = [s \in Scope |-> IF Ends(s) THEN 0 ELSE admitted[s]]
         /\ fallback' = [s \in Scope |-> IF Ends(s) THEN {} ELSE fallback[s]]
         /\ guesses' = IF Ends(Failures) THEN 0 ELSE guesses
         /\ uncounted' = IF Ends(Failures) THEN 0 ELSE uncounted
         /\ windows' = [p \in Process |->
              [k \in {k \in DOMAIN windows[p] : ~Begins(k)} |-> windows[p][k]]]
  /\ UNCHANGED <<life, attempt>>

LimiterNext ==
  \/ \E a \in Attempt, p \in Process : Arrive(a, p)
  \/ \E a \in Attempt : CheckFailures(a) \/ Verify(a) \/ CountFailure(a)
  \/ \E p \in Process : Restart(p)
  \/ Tick

LimiterSpec == LimiterInit /\ [][LimiterNext]_limiterVars

-----------------------------------------------------------------------------
LimiterTypeOK ==
  /\ now \in Nat /\ shared \in [Scope -> Nat]
  /\ \A p \in Process : \A k \in DOMAIN windows[p] :
       k \in Scope \X Nat /\ windows[p][k] \in Nat
  /\ life \in [Process -> {0, 1}]
  /\ attempt \in [Attempt -> {Waiting} \cup
       [at : {"check", "verify", "count"}, process : Process]]
  /\ arrivals \in Nat /\ admitted \in [Scope -> Nat]
  /\ fallback \in [Scope -> SUBSET (Process \X {0, 1})]
  /\ guesses \in Nat /\ uncounted \in Nat

(* In one window a scope lets through its limit, and its limit once more   *)
(* for every process that fell back to memory in that window, once for     *)
(* each of its lives: neither the prune of other windows nor an answer     *)
(* that got lost lets more through.                                        *)
AdmittedWithinLimit ==
  \A s \in Scope : admitted[s] <= LimitOf[s] * (1 + Cardinality(fallback[s]))

(* While Redis answers, the guard bounds the wrong passwords that are      *)
(* verified in a long window, though it reads the count well before a      *)
(* failure is counted: past its limit come at most the attempts that were  *)
(* in flight together, and those whose process ended before it counted.    *)
GuessesBounded ==
  fallback[Failures] = {} =>
    guesses <= LoginFailureLimit - 1 + Cardinality(Attempt) + uncounted
=============================================================================
