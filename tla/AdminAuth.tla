------------------------------ MODULE AdminAuth ------------------------------
(***************************************************************************)
(* The session client of the admin pages (admin-auth.ts), the cookie jar   *)
(* of their browser, and the credentials as the server keeps them.         *)
(*                                                                         *)
(* A page is a load of the application: what it knows is in its memory and *)
(* gone when it is loaded again.  Its code runs between awaits without     *)
(* interruption; task[t] is a call of one of the module's functions, at    *)
(* the await where it waits.  net holds the requests to /auth on their     *)
(* way: sent, with the cookies of that moment; answered by the server;     *)
(* arrived, when the jar has the cookies of the answer and the page has    *)
(* not run yet.  The server works off one request at a time; what          *)
(* concurrent ones do to its tables is the subject of AuthSessions.        *)
(***************************************************************************)
EXTENDS Naturals, FiniteSets

CONSTANTS Page, Task,
          Calls,        \* which of fetch, upload and check the pages call
          Credential,   \* bound: the refresh credentials there can ever be
          Csrf,         \* CSRF values; a new one is one that nobody holds any more
          Nothing,
          MayLoseCredential  \* can the answer to a refresh get lost?

ASSUME ClientAssumption ==
  /\ Nothing \notin Credential \cup Csrf
  /\ Calls \subseteq {"fetch", "upload", "check"}
  /\ MayLoseCredential \in BOOLEAN
  /\ IsFiniteSet(Credential) /\ IsFiniteSet(Csrf)

VARIABLES server,     \* [Credential -> its row in auth_sessions]
          expired,    \* credentials whose access token is past its expiry
          jar,        \* the cookies zaro_refresh and zaro_csrf
          memory,     \* [Page -> accessToken and csrfToken]
          task,       \* [Task -> a call under way, or how the last one ended]
          net,        \* requests on their way
          reused,     \* has the server detected reuse?
          disturbed   \* history: were requests Crowded?

vars == <<server, expired, jar, memory, task, net, reused, disturbed>>
browser == <<jar, memory, task>>

(* An access token is named by the credential that was issued with it. *)
Row == [state : {"none", "live", "rotated", "ended"}, family : Credential \cup {Nothing}]
Cookies == [refresh : Credential \cup {Nothing}, csrf : Csrf \cup {Nothing}]
Memory == [access : Credential \cup {Nothing}, csrf : Csrf \cup {Nothing}]
NoCookies == [refresh |-> Nothing, csrf |-> Nothing]
NoMemory == [access |-> Nothing, csrf |-> Nothing]
Idle == [at |-> "idle"]
Refused == [at |-> "refused"]     \* ended by "sign in again"

Live(c) == c # Nothing /\ server[c].state = "live"
Waits(t, p) == task[t] \notin {Idle, Refused} /\ task[t].page = p

Init ==
  /\ server = [c \in Credential |-> [state |-> "none", family |-> Nothing]]
  /\ expired = {}
  /\ jar = NoCookies
  /\ memory = [p \in Page |-> NoMemory]
  /\ task = [t \in Task |-> Idle]
  /\ net = {}
  /\ reused = FALSE /\ disturbed = FALSE

-----------------------------------------------------------------------------
(* Sending.  Task t of page p goes on as `next`, and a request is sent.     *)

(* What the server looks at: of a refresh the cookies and the CSRF header,  *)
(* of the others at most the credential and the access token.               *)
Request(kind, t, p) ==
  [kind |-> kind, by |-> IF kind = "refresh" THEN Nothing ELSE t, page |-> p,
   heard |-> TRUE, at |-> "sent", answer |-> Nothing,
   credential |-> IF kind = "login" THEN Nothing ELSE jar.refresh,
   cookie |-> IF kind = "refresh" THEN jar.csrf ELSE Nothing,
   header |-> IF kind = "refresh" THEN memory[p].csrf ELSE Nothing,
   token |-> IF kind = "logout" THEN memory[p].access ELSE Nothing]

Send(m) == net' = net \cup {m}
NoSend == UNCHANGED net

At(where, t, p, what) == [at |-> where, page |-> p, do |-> what, token |-> Nothing]
Become(t, next) == task' = [task EXCEPT ![t] = next]

Probe(t, p, what) ==
  /\ Send(Request("probe", t, p))
  /\ Become(t, At("probe", t, p, what))

(* Mutant: every caller sends a refresh of its own. *)
InFlight_Never(p) == {}

(* The refresh that page p waits for: those who come later share it. *)
InFlight(p) == {m \in net : m.kind = "refresh" /\ m.page = p /\ m.heard}

Refresh(t, p, next) ==
  /\ IF InFlight(p) = {} THEN Send(Request("refresh", t, p)) ELSE NoSend
  /\ Become(t, next)

-----------------------------------------------------------------------------
(* What the pages do. *)

Available(t) == task[t] \in {Idle, Refused}
ServerUnchanged == UNCHANGED <<server, expired, jar, reused>>

(* adminFetch, adminUpload, hasActiveSession: use the token there is, or    *)
(* have one refreshed, after asking the server for a CSRF value on a page   *)
(* that has nothing.                                                        *)
StartCall(t, p, what) ==
  /\ Available(t)
  /\ CASE memory[p].access # Nothing ->
            /\ what # "check"
            /\ Become(t, [At("call", t, p, what) EXCEPT !.token = memory[p].access])
            /\ NoSend
       [] memory[p].access = Nothing /\ memory[p].csrf # Nothing ->
            Refresh(t, p, At("refresh", t, p, what))
       [] OTHER -> Probe(t, p, what)
  /\ ServerUnchanged /\ UNCHANGED memory

StartLogin(t, p) ==
  /\ Available(t)
  /\ memory' = [memory EXCEPT ![p] = NoMemory]
  /\ Send(Request("login", t, p))
  /\ Become(t, At("login", t, p, "login"))
  /\ ServerUnchanged

SendLogout(t, p) ==
  /\ Send(Request("logout", t, p))
  /\ Become(t, At("logout", t, p, "logout"))

(* Without any credentials in memory, there is nothing to do or to forget. *)
StartLogout(t, p) ==
  /\ Available(t)
  /\ memory[p] # NoMemory
  /\ IF memory[p].access # Nothing
     THEN SendLogout(t, p)
     ELSE Refresh(t, p, At("refresh", t, p, "logout"))
  /\ ServerUnchanged /\ UNCHANGED memory

(* Signing out, after the refresh that it waited for. *)
GoOnLogout(t) ==
  /\ task[t].at = "refreshed"
  /\ LET p == task[t].page
     IN  IF memory[p].access # Nothing
         THEN SendLogout(t, p) /\ UNCHANGED memory
         ELSE /\ memory' = [memory EXCEPT ![p] = NoMemory]
              /\ Become(t, Idle) /\ NoSend
  /\ ServerUnchanged

(* The call itself is answered: with 401 if its token has expired, which    *)
(* has it refreshed and the call repeated, once.  A 401 of the repetition   *)
(* clears the memory, except for an upload, which does not look at it.      *)
CallReturns(t) ==
  /\ task[t].at \in {"call", "retry"}
  /\ LET p == task[t].page
         late == task[t].token \in expired
     IN  CASE ~late -> Become(t, Idle) /\ NoSend /\ UNCHANGED memory
           [] late /\ task[t].at = "call" ->
                /\ Refresh(t, p, [task[t] EXCEPT !.at = "again", !.token = Nothing])
                /\ UNCHANGED memory
           [] late /\ task[t].at = "retry" ->
                /\ memory' = IF task[t].do = "upload" THEN memory
                             ELSE [memory EXCEPT ![p] = NoMemory]
                /\ Become(t, IF task[t].do = "upload" THEN Idle ELSE Refused)
                /\ NoSend
  /\ ServerUnchanged

(* Does losing m lose a credential that replaced another one? *)
Replacing(m) == m.kind = "refresh" /\ m.at = "answered" /\ m.answer.ok

(* A page is loaded again, and its requests are given up: a probe concerns  *)
(* nobody any more, the others may still reach the server.  The bound: not  *)
(* while some of an earlier load do.                                        *)
Reload(p) ==
  /\ memory[p] # NoMemory \/ \E t \in Task : Waits(t, p)
  /\ \A m \in net : m.heard
  /\ MayLoseCredential \/ \A m \in net : m.page = p => m.kind # "refresh"
  /\ memory' = [memory EXCEPT ![p] = NoMemory]
  /\ task' = [t \in Task |-> IF Waits(t, p) THEN Idle ELSE task[t]]
  /\ net' = {IF m.page = p THEN [m EXCEPT !.heard = FALSE, !.by = Nothing] ELSE m :
               m \in {x \in net : x.page = p => x.at = "sent" /\ x.kind # "probe"}}
  /\ ServerUnchanged

-----------------------------------------------------------------------------
(* What the server does. *)

Held == {jar.csrf} \cup {memory[p].csrf : p \in Page}
        \cup {m.cookie : m \in net} \cup {m.header : m \in net}
        \cup {m.answer.csrf : m \in {x \in net : x.answer # Nothing}}
FreshCsrf == Csrf \ Held

Unissued == {c \in Credential : server[c].state = "none"}
NewCredential == CHOOSE c \in Unissued : TRUE

Granted(c, v) == [ok |-> TRUE, refresh |-> c, csrf |-> v]
Denied == [ok |-> FALSE, refresh |-> Nothing, csrf |-> Nothing]

Answered(m, answer) ==
  net' = (net \ {m}) \cup
           {[x EXCEPT !.at = "answered", !.answer = answer] : x \in {y \in {m} : y.heard}}

Ended(set) ==
  [c \in Credential |-> IF c \in set THEN [server[c] EXCEPT !.state = "ended"] ELSE server[c]]
Family(c) == {x \in Credential : Live(x) /\ server[x].family = server[c].family}

AnswerLogin(m, v) ==
  /\ m.kind = "login"
  /\ \/ /\ Unissued # {}
        /\ LET c == NewCredential
           IN  /\ server' = [server EXCEPT ![c] = [state |-> "live", family |-> c]]
               /\ Answered(m, Granted(c, v))
     \/ Answered(m, Denied) /\ UNCHANGED server
  /\ UNCHANGED reused

(* GET /auth/session: a new CSRF value, if the credential shown is live.    *)
AnswerProbe(m, v) ==
  /\ m.kind = "probe"
  /\ Answered(m, IF Live(m.credential)
                 THEN Granted(m.credential, v) ELSE Denied)
  /\ UNCHANGED <<server, reused>>

CsrfMatches(m) == m.header # Nothing /\ m.header = m.cookie

AnswerRefresh(m, v) ==
  /\ m.kind = "refresh"
  /\ LET c == m.credential
     IN  CASE c = Nothing \/ ~CsrfMatches(m) ->
                Answered(m, Denied) /\ UNCHANGED <<server, reused>>
           [] c # Nothing /\ CsrfMatches(m) /\ server[c].state = "live" ->
                /\ Unissued # {}
                /\ LET n == NewCredential
                   IN  /\ server' = [server EXCEPT ![c].state = "rotated", ![n] = server[c]]
                       /\ Answered(m, Granted(n, v))
                /\ UNCHANGED reused
           [] c # Nothing /\ CsrfMatches(m) /\ server[c].state = "rotated" ->
                /\ server' = Ended(Family(c))
                /\ reused' = TRUE
                /\ Answered(m, Denied)
           [] OTHER -> Answered(m, Denied) /\ UNCHANGED <<server, reused>>

(* Mutant: the session of the access token is left alone. *)
AnswerLogout_Nothing(m) ==
  /\ m.kind = "logout"
  /\ Answered(m, IF m.token \in expired THEN Denied ELSE [Denied EXCEPT !.ok = TRUE])
  /\ UNCHANGED <<server, reused>>

(* Revokes the session of the cookie; that of the access token only if      *)
(* there is no cookie.  A token that has expired is turned away before.     *)
AnswerLogout(m) ==
  /\ m.kind = "logout"
  /\ IF m.token \in expired
     THEN Answered(m, Denied) /\ UNCHANGED server
     ELSE /\ LET c == IF m.credential # Nothing THEN m.credential ELSE m.token
             IN  server' = IF Live(c) THEN Ended({c}) ELSE server
          /\ Answered(m, [Denied EXCEPT !.ok = TRUE])
  /\ UNCHANGED reused

Answer(m) ==
  \E v \in FreshCsrf :
  /\ m.at = "sent"
  /\ \/ AnswerLogin(m, v) \/ AnswerProbe(m, v)
     \/ AnswerRefresh(m, v) \/ AnswerLogout(m)
  /\ UNCHANGED expired /\ UNCHANGED browser

InUse == {memory[p].access : p \in Page} \cup {m.token : m \in net}
         \cup {task[t].token : t \in {x \in Task : ~Available(x)}}

(* The access token of a session expires, long before the session does. *)
Expire(c) ==
  /\ c \in InUse \ expired
  /\ expired' = expired \cup {c}
  /\ UNCHANGED <<server, net, reused>> /\ UNCHANGED browser

-----------------------------------------------------------------------------
(* What the network and the browser do with an answer. *)

(* Mutant: the answer of a probe does not set the cookie. *)
Arrive_NoProbeCookie(m) ==
  /\ m.at = "answered"
  /\ jar' = CASE m.kind = "logout" /\ m.answer.ok -> NoCookies
              [] m.kind \in {"login", "refresh"} /\ m.answer.ok ->
                   [refresh |-> m.answer.refresh, csrf |-> m.answer.csrf]
              [] OTHER -> jar
  /\ net' = (net \ {m}) \cup {[m EXCEPT !.at = "arrived"]}
  /\ UNCHANGED <<server, expired, memory, task, reused>>

Arrive(m) ==
  /\ m.at = "answered"
  /\ jar' = CASE m.kind = "logout" /\ m.answer.ok -> NoCookies
              [] m.kind = "probe" /\ m.answer.ok -> [jar EXCEPT !.csrf = m.answer.csrf]
              [] m.kind \in {"login", "refresh"} /\ m.answer.ok ->
                   [refresh |-> m.answer.refresh, csrf |-> m.answer.csrf]
              [] OTHER -> jar
  /\ net' = (net \ {m}) \cup {[m EXCEPT !.at = "arrived"]}
  /\ UNCHANGED <<server, expired, memory, task, reused>>

(* What becomes of a task that waited for a refresh that returned `token`.  *)
GoOn(task_t, token) ==
  CASE task_t.do = "logout" -> [task_t EXCEPT !.at = "refreshed"]
    [] task_t.do # "logout" /\ token = Nothing -> Refused
    [] task_t.do = "check" /\ token # Nothing -> Idle
    [] OTHER -> [task_t EXCEPT !.token = token, !.at = IF @ = "refresh" THEN "call" ELSE "retry"]

(* Mutant: a refresh that failed wakes nobody who came back with a 401. *)
SettleRefresh_WakesFirst(m, outcome) ==
  /\ m.kind = "refresh"
  /\ LET p == m.page
         token == IF outcome = "granted" THEN m.answer.refresh ELSE Nothing
     IN  /\ memory' = IF outcome = "granted"
                      THEN [memory EXCEPT ![p] = [access |-> token, csrf |-> m.answer.csrf]]
                      ELSE memory
         /\ task' = [t \in Task |->
              IF Waits(t, p) /\ (task[t].at = "refresh" \/ (task[t].at = "again" /\ token # Nothing))
              THEN GoOn(task[t], token) ELSE task[t]]
  /\ net' = net \ {m}

(* Mutant: the CSRF value in memory is not replaced. *)
SettleRefresh_OldCsrf(m, outcome) ==
  /\ m.kind = "refresh"
  /\ LET p == m.page
         token == IF outcome = "granted" THEN m.answer.refresh ELSE Nothing
     IN  /\ memory' = CASE outcome = "granted" -> [memory EXCEPT ![p].access = token]
                        [] outcome = "denied" -> [memory EXCEPT ![p] = NoMemory]
                        [] OTHER -> memory
         /\ task' = [t \in Task |->
              IF Waits(t, p) /\ task[t].at \in {"refresh", "again"}
              THEN GoOn(task[t], token) ELSE task[t]]
  /\ net' = net \ {m}

(* The answer of m came to be `outcome`; a refresh wakes all who share it.  *)
SettleRefresh(m, outcome) ==
  /\ m.kind = "refresh"
  /\ LET p == m.page
         token == IF outcome = "granted" THEN m.answer.refresh ELSE Nothing
     IN  /\ memory' = CASE outcome = "granted" ->
                              [memory EXCEPT ![p] = [access |-> token, csrf |-> m.answer.csrf]]
                        [] outcome = "denied" -> [memory EXCEPT ![p] = NoMemory]
                        [] OTHER -> memory
         /\ task' = [t \in Task |->
              IF Waits(t, p) /\ task[t].at \in {"refresh", "again"}
              THEN GoOn(task[t], token) ELSE task[t]]
  /\ net' = net \ {m}

(* The probe's value is kept, and a refresh follows at once; unless the     *)
(* page was signed in meanwhile, this is the only CSRF value it has.        *)
SettleProbe(m, outcome) ==
  /\ m.kind = "probe"
  /\ LET p == m.page
     IN  IF outcome = "granted"
         THEN /\ memory' = [memory EXCEPT ![p].csrf = m.answer.csrf]
              /\ Become(m.by, [task[m.by] EXCEPT !.at = "refresh"])
              /\ IF InFlight(p) = {}
                 THEN net' = (net \ {m}) \cup
                        {[Request("refresh", m.by, p) EXCEPT !.header = m.answer.csrf]}
                 ELSE net' = net \ {m}
         ELSE /\ Become(m.by, Refused)
              /\ net' = net \ {m}
              /\ UNCHANGED memory

SettleLogin(m, outcome) ==
  /\ m.kind = "login"
  /\ memory' = IF outcome = "granted"
               THEN [memory EXCEPT ![m.page] =
                       [access |-> m.answer.refresh, csrf |-> m.answer.csrf]]
               ELSE memory
  /\ Become(m.by, Idle)
  /\ net' = net \ {m}

(* Whatever the answer. *)
SettleLogout(m, outcome) ==
  /\ m.kind = "logout"
  /\ memory' = [memory EXCEPT ![m.page] = NoMemory]
  /\ Become(m.by, Idle)
  /\ net' = net \ {m}

Settle(m, outcome) ==
  /\ m.heard
  /\ \/ SettleRefresh(m, outcome) \/ SettleProbe(m, outcome)
     \/ SettleLogin(m, outcome) \/ SettleLogout(m, outcome)

Hear(m) ==
  /\ m.at = "arrived"
  /\ Settle(m, IF m.answer.ok THEN "granted" ELSE "denied")
  /\ ServerUnchanged

(* A request or its answer is lost, on the network or with the page. *)
Lose(m) ==
  /\ m.at \in {"sent", "answered"}
  /\ Replacing(m) => MayLoseCredential
  /\ \/ Settle(m, "failed")
     \/ ~m.heard /\ net' = net \ {m} /\ UNCHANGED <<memory, task>>
  /\ ServerUnchanged

-----------------------------------------------------------------------------
Step ==
  \/ \E t \in Task, p \in Page :
       \/ \E what \in Calls : StartCall(t, p, what)
       \/ StartLogin(t, p) \/ StartLogout(t, p)
  \/ \E t \in Task : GoOnLogout(t) \/ CallReturns(t)
  \/ \E p \in Page : Reload(p)
  \/ \E c \in Credential : Expire(c)
  \/ \E m \in net : Answer(m) \/ Arrive(m) \/ Hear(m)

(* Two requests are on their way at once, or one whose answer nobody will   *)
(* hear; or a user signs in or out while something else is under way; or a  *)
(* token has expired before the call that it was refreshed for.             *)
Crowded ==
  \/ \E m1, m2 \in net : m1 # m2
  \/ \E m \in net : ~m.heard
  \/ \E t1, t2 \in Task :
       t1 # t2 /\ ~Available(t1) /\ ~Available(t2) /\ task[t1].do \in {"login", "logout"}
  \/ \E t \in Task : task[t].at = "retry" /\ task[t].token \in expired

Next ==
  \/ Step /\ disturbed' = (disturbed \/ Crowded')
  \/ (\E m \in net : Lose(m)) /\ disturbed' = TRUE

Spec == Init /\ [][Next]_vars

-----------------------------------------------------------------------------
(* Properties. *)

(* However the calls, sign-ins, sign-outs and reloads of a page interleave, *)
(* and whatever else gets lost, the server does not see a credential again  *)
(* as long as the answers that replace one arrive: a page waits for one     *)
(* refresh at a time (refreshPromise), and the probe rotates nothing.       *)
ReuseNeverDetected == ~reused

(* No call waits for an answer that nobody will give it: whoever shares a    *)
(* refresh is woken by it, granted, denied or failed (refreshPromise).      *)
NoLostWakeup ==
  \A t \in Task :
    /\ task[t].at \in {"refresh", "again"} => InFlight(task[t].page) # {}
    /\ task[t].at \in {"probe", "login", "logout"} =>
         \E m \in net : m.by = t /\ m.kind = task[t].at /\ m.heard

(* With the requests of a page one after the other and all answered, its    *)
(* memory agrees with the cookie jar it cannot read: the next refresh will  *)
(* pass the double-submit check, and the token is of the cookie's session.  *)
MemoryFollowsJar ==
  ~disturbed /\ net = {} =>
    \A p \in Page : /\ memory[p].csrf \in {Nothing, jar.csrf}
                   /\ memory[p].access \in {Nothing, jar.refresh}

(* Likewise, a caller is sent away to sign in again only if the browser's   *)
(* session is over (adminFetch, hasActiveSession).                          *)
RefusedOnlyIfOver ==
  [][\A t \in Task :
       task[t] # Refused /\ task'[t] = Refused /\ ~disturbed' => ~Live(jar.refresh)]_vars

(* Likewise, once a sign-out was accepted, neither the jar nor any of the   *)
(* credentials that its session went through lets anyone in (logout).       *)
SignOutEndsSession ==
  ~disturbed =>
    \A m \in net :
      m.kind = "logout" /\ m.at = "arrived" /\ m.answer.ok =>
        /\ jar = NoCookies
        /\ \A c \in Credential :
             m.token # Nothing /\ server[c].family = server[m.token].family
               => ~Live(c)

(* The server of this module keeps the promises that AuthSessions keeps with *)
(* overlapping requests; here a credential is presented and refreshed in one *)
(* step (rotate_refresh_token).                                              *)
Fate == [c \in Credential |->
  IF server[c].state \in {"none", "live"} THEN server[c].state ELSE "over"]
Root == [c \in Credential |-> server[c].family]
Families == INSTANCE CredentialFamilies WITH fate <- Fate, family <- Root, presented <- {}
ImplementsFamilies == Families!Spec
=============================================================================
