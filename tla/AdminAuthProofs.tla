-------------------------- MODULE AdminAuthProofs --------------------------
(***************************************************************************)
(* The session client of the admin pages.  For any number of pages, calls  *)
(* and credentials, whatever gets lost: nobody waits for an answer that    *)
(* will not come.  For one page whose refreshes are all answered: the      *)
(* server detects no reuse.  For one page whose requests come one after    *)
(* the other: its memory agrees with the jar, it is sent away only when    *)
(* its session is over, and signing out ends the session.                  *)
(***************************************************************************)
EXTENDS AdminAuth, TLAPS

-----------------------------------------------------------------------------
(* Types. *)

Kinds == {"login", "logout", "probe", "refresh"}
Answers == [ok : BOOLEAN, refresh : Credential \cup {Nothing}, csrf : Csrf \cup {Nothing}]
Messages ==
  [kind : Kinds, by : Task \cup {Nothing}, page : Page, heard : BOOLEAN,
   at : {"sent", "answered", "arrived"}, answer : Answers \cup {Nothing},
   credential : Credential \cup {Nothing}, token : Credential \cup {Nothing},
   cookie : Csrf \cup {Nothing}, header : Csrf \cup {Nothing}]

Places == {"probe", "refresh", "again", "refreshed", "call", "retry", "login", "logout"}
Underway ==
  {j \in [at : Places, page : Page, do : {"fetch", "upload", "check", "login", "logout"},
          token : Credential \cup {Nothing}] :
     /\ j.at = "login" => j.do = "login"
     /\ j.at \in {"logout", "refreshed"} => j.do = "logout"}

Typed ==
  /\ server \in [Credential -> Row]
  /\ jar \in Cookies
  /\ memory \in [Page -> Memory]
  /\ task \in [Task -> Underway \cup {Idle, Refused}]
  /\ net \subseteq Messages
  /\ \A m \in net : m.at # "sent" => m.answer \in Answers
  /\ disturbed \in BOOLEAN

(* A page's requests and its calls belong together: whoever asked for an     *)
(* answer waits for it, for this one alone; whoever shares a refresh, waits  *)
(* for a refresh of its page.                                                *)
Linked ==
  /\ \A m \in net : m.heard /\ m.kind # "refresh" =>
       /\ m.by \in Task /\ task[m.by].at = m.kind /\ task[m.by].page = m.page
       /\ \A x \in net : x.heard /\ x.kind # "refresh" /\ x.by = m.by => x = m
  /\ NoLostWakeup

(* Credentials that somebody holds or has sent were issued.                  *)
Issued(c) == c = Nothing \/ server[c].state # "none"

AllIssued ==
  /\ Issued(jar.refresh)
  /\ \A p \in Page : Issued(memory[p].access)
  /\ \A m \in net : /\ Issued(m.credential) /\ Issued(m.token)
                    /\ m.at # "sent" => Issued(m.answer.refresh)
  /\ \A c \in Credential : server[c].state # "none" =>
       server[c].family # Nothing /\ Issued(server[c].family)

(* A family has one credential that is live. *)
OneLive ==
  \A c, d \in Credential :
    Live(c) /\ Live(d) /\ server[c].family = server[d].family => c = d

ClientInv == Typed /\ Linked /\ AllIssued /\ OneLive

(* One page, and no answer to a refresh gets lost.                           *)
Replaces(m) == m.at = "answered" /\ m.kind \in {"login", "refresh"} /\ m.answer.ok
Spent(c) == c \in Credential /\ server[c].state = "rotated"

ReuseInv ==
  /\ \A m, x \in net : m.kind = "refresh" /\ x.kind = "refresh" => m = x
  /\ \A m \in net : m.kind = "refresh" => m.heard
  /\ \A m \in net : m.kind = "refresh" /\ m.at = "sent" => ~Spent(m.credential)
  /\ Spent(jar.refresh) => \E m \in net : m.kind = "refresh" /\ Replaces(m)
  /\ \A m \in net : Replaces(m) =>
       /\ m.answer.refresh # Nothing /\ ~Spent(m.answer.refresh)
       /\ jar.refresh # m.answer.refresh
       /\ \A x \in net : x.credential # m.answer.refresh
       /\ \A x \in net : Replaces(x) /\ x.answer.refresh = m.answer.refresh => x = m
  /\ ~reused

(* One page, its requests one after the other.                               *)
Done(m) == m.at = "arrived" /\ m.answer.ok
Sole(c) ==
  \A d \in Credential : Live(d) /\ server[d].family = server[c].family => d = c

JarInv ==
  \A m \in net :
    /\ Done(m) /\ m.kind \in {"login", "refresh"} =>
         jar = [refresh |-> m.answer.refresh, csrf |-> m.answer.csrf]
    /\ Done(m) /\ m.kind = "probe" => jar.csrf = m.answer.csrf
    /\ Done(m) /\ m.kind = "logout" => jar = NoCookies
    /\ ~Done(m) => m.credential = jar.refresh \/ m.kind = "login"
MemoryInv ==
  \A p \in Page :
    /\ \/ memory[p].access \in {Nothing, jar.refresh}
       \/ \E m \in net : Done(m) /\ m.kind # "probe"
    /\ memory[p].csrf \in {Nothing, jar.csrf} \/ \E m \in net : Done(m)
    /\ memory[p].access # Nothing => memory[p].csrf # Nothing

Rotating(m) == m.kind = "refresh" /\ m.at # "sent" /\ m.answer.ok

RefusalInv ==
  /\ \A m \in net :
       /\ m.kind = "refresh" /\ m.at = "sent" => CsrfMatches(m) \/ ~Live(jar.refresh)
       /\ m.kind \in {"probe", "refresh"} /\ m.at # "sent" /\ ~m.answer.ok => ~Live(jar.refresh)
       /\ Rotating(m) => \A t \in Task : task[t].at = "call" => memory[m.page].csrf # Nothing
  /\ \A t \in Task : task[t].at = "call" /\ memory[task[t].page].csrf = Nothing
                       => ~Live(jar.refresh)

SignOutInv ==
  /\ \A p \in Page : memory[p].access # Nothing =>
       Sole(memory[p].access) \/ \E m \in net : Rotating(m)
  /\ \A m \in net :
       /\ m.kind \in {"login", "refresh"} /\ m.at # "sent" /\ m.answer.ok =>
            m.answer.refresh # Nothing /\ Live(m.answer.refresh) /\ m.answer.csrf # Nothing
       /\ m.kind = "probe" /\ m.at # "sent" /\ m.answer.ok => m.answer.csrf # Nothing
       /\ m.kind = "logout" /\ m.at = "sent" =>
            m.token # Nothing /\ m.token = m.credential /\ Sole(m.token)
       /\ m.kind = "logout" /\ m.at # "sent" /\ m.answer.ok =>
            \A c \in Credential : server[c].family = server[m.token].family => ~Live(c)

Calm == ~disturbed => ~Crowded /\ JarInv /\ MemoryInv /\ RefusalInv /\ SignOutInv
-----------------------------------------------------------------------------
(* What the steps do, in the terms of the proofs. *)

(* A request as it is sent. *)
LEMMA Requested ==
  ASSUME Typed, NEW kind \in Kinds, NEW t \in Task, NEW p \in Page
  PROVE  /\ Request(kind, t, p) \in Messages
         /\ Request(kind, t, p).kind = kind
         /\ Request(kind, t, p).by = (IF kind = "refresh" THEN Nothing ELSE t)
         /\ Request(kind, t, p).page = p
         /\ Request(kind, t, p).heard
         /\ Request(kind, t, p).at = "sent"
         /\ Request(kind, t, p).credential = (IF kind = "login" THEN Nothing ELSE jar.refresh)
         /\ Request(kind, t, p).token = (IF kind = "logout" THEN memory[p].access ELSE Nothing)
         /\ Request(kind, t, p).cookie = (IF kind = "refresh" THEN jar.csrf ELSE Nothing)
         /\ Request(kind, t, p).header = (IF kind = "refresh" THEN memory[p].csrf ELSE Nothing)
  BY DEF Typed, Request, Messages, Kinds, Cookies, Memory

(* The steps of a page, but for loading it again and for hearing an answer:  *)
(* call t, which waits for no answer, goes on as k.                          *)
Starts(t, p, k) == 
  /\ net' = net /\ memory' = memory
  /\ k.at = "call" /\ k.page = p /\ memory[p].access # Nothing
Shares(t, p, k) ==
  /\ memory' = memory
  /\ k.at \in {"refresh", "again"} /\ k.page = p
  /\ memory[p].csrf # Nothing \/ (task[t].at = "call" /\ task[t].page = p)
  /\ IF InFlight(p) = {} THEN net' = net \cup {Request("refresh", t, p)} ELSE net' = net
Probes(t, p, k) ==
  /\ memory' = memory
  /\ k.at = "probe" /\ k.page = p
  /\ net' = net \cup {Request("probe", t, p)}
SignsIn(t, p, k) ==
  /\ memory' = [memory EXCEPT ![p] = NoMemory]
  /\ k.at = "login" /\ k.page = p
  /\ net' = net \cup {Request("login", t, p)}
SignsOut(t, p, k) ==
  /\ memory' = memory /\ memory[p].access # Nothing
  /\ k.at = "logout" /\ k.page = p
  /\ net' = net \cup {Request("logout", t, p)}
Ends(t, p, k) ==
  /\ net' = net /\ k \in {Idle, Refused}
  /\ \/ memory' = memory /\ k = Idle
     \/ /\ memory' = [memory EXCEPT ![p] = NoMemory]
        /\ \/ task[t].at = "retry" /\ task[t].token \in expired
           \/ task[t].at = "refreshed" /\ k = Idle

GoesOn(t, p, k) ==
  /\ task[t].at \in {"idle", "refused", "call", "retry", "refreshed"}
  /\ task' = [task EXCEPT ![t] = k]
  /\ UNCHANGED <<server, expired, jar, reused>>
  /\ k \in Underway \cup {Idle, Refused}
  /\ \/ Starts(t, p, k) \/ Shares(t, p, k) \/ Probes(t, p, k)
     \/ SignsIn(t, p, k) \/ SignsOut(t, p, k) \/ Ends(t, p, k)

(* A call on its way to somewhere. *)
LEMMA AtType ==
  ASSUME NEW t \in Task, NEW p \in Page, NEW where \in Places,
         NEW what \in {"fetch", "upload", "check", "login", "logout"},
         where = "login" => what = "login",
         where \in {"logout", "refreshed"} => what = "logout"
  PROVE  At(where, t, p, what) \in Underway /\ At(where, t, p, what).at = where
         /\ At(where, t, p, what).page = p
  BY DEF At, Underway

(* Where a call is. *)
LEMMA TaskAt ==
  ASSUME Typed, NEW t \in Task
  PROVE  /\ task[t] \in Underway \cup {Idle, Refused}
         /\ Idle.at = "idle" /\ Refused.at = "refused"
         /\ task[t].at \in Places => task[t] \in Underway /\ task[t] \notin {Idle, Refused}
         /\ task[t].at = "idle" <=> task[t] = Idle
         /\ task[t].at = "refused" <=> task[t] = Refused
         /\ Available(t) <=> task[t].at \in {"idle", "refused"}
         /\ ~Available(t) <=> task[t].at \in Places
         /\ \A p : Waits(t, p) <=> task[t].at \in Places /\ task[t].page = p
<1>1. \A j \in Underway : j.at \in Places
  BY DEF Underway
<1> QED BY <1>1 DEF Typed, Idle, Refused, Places, Available, Waits

(* Whatever a page starts or goes on with, one call goes on. *)
LEMMA PageStep ==
  ASSUME Typed,
         \/ \E t \in Task, p \in Page :
              \/ \E what \in Calls : StartCall(t, p, what)
              \/ StartLogin(t, p) \/ StartLogout(t, p)
         \/ \E t \in Task : GoOnLogout(t) \/ CallReturns(t)
  PROVE  \E t \in Task, p \in Page : \E k : GoesOn(t, p, k)
<1>1. ASSUME NEW t \in Task, NEW p \in Page, NEW what \in Calls, StartCall(t, p, what)
      PROVE  \E k : GoesOn(t, p, k)
  <2>1. what \in {"fetch", "upload", "check"}
    BY ClientAssumption
  <2>2. task[t].at \in {"idle", "refused"}
    BY <1>1, TaskAt DEF StartCall
  <2>3. memory[p] \in Memory
    BY DEF Typed
  <2>4. CASE memory[p].access # Nothing
    <3> DEFINE k == [At("call", t, p, what) EXCEPT !.token = memory[p].access]
    <3>1. k \in Underway /\ k.at = "call" /\ k.page = p
      BY <2>1, <2>3, <2>4 DEF At, Underway, Places, Memory
    <3>2. /\ task' = [task EXCEPT ![t] = k] /\ net' = net /\ memory' = memory
          /\ UNCHANGED <<server, expired, jar, reused>>
      BY <1>1, <2>4 DEF StartCall, Become, NoSend, ServerUnchanged
    <3> HIDE DEF k
    <3>9. GoesOn(t, p, k)
      BY <2>2, <2>4, <3>1, <3>2 DEF GoesOn, Starts
    <3> QED BY <3>9
  <2>5. CASE memory[p].access = Nothing /\ memory[p].csrf # Nothing
    <3> DEFINE k == At("refresh", t, p, what)
    <3>1. k \in Underway /\ k.at = "refresh" /\ k.page = p
      BY <2>1, AtType DEF Places
    <3>2. /\ task' = [task EXCEPT ![t] = k] /\ memory' = memory
          /\ UNCHANGED <<server, expired, jar, reused>>
          /\ IF InFlight(p) = {} THEN net' = net \cup {Request("refresh", t, p)} ELSE net' = net
      BY <1>1, <2>5 DEF StartCall, Refresh, Become, Send, NoSend, ServerUnchanged
    <3> HIDE DEF k
    <3>9. GoesOn(t, p, k)
      BY <2>2, <2>5, <3>1, <3>2 DEF GoesOn, Shares
    <3> QED BY <3>9
  <2>6. CASE memory[p].access = Nothing /\ memory[p].csrf = Nothing
    <3> DEFINE k == At("probe", t, p, what)
    <3>1. k \in Underway /\ k.at = "probe" /\ k.page = p
      BY <2>1, AtType DEF Places
    <3>2. /\ task' = [task EXCEPT ![t] = k] /\ memory' = memory
          /\ UNCHANGED <<server, expired, jar, reused>>
          /\ net' = net \cup {Request("probe", t, p)}
      BY <1>1, <2>6 DEF StartCall, Probe, Become, Send, ServerUnchanged
    <3> HIDE DEF k
    <3>9. GoesOn(t, p, k)
      BY <2>2, <3>1, <3>2 DEF GoesOn, Probes
    <3> QED BY <3>9
  <2> QED BY <2>4, <2>5, <2>6
<1>2. ASSUME NEW t \in Task, NEW p \in Page, StartLogin(t, p)
      PROVE  \E k : GoesOn(t, p, k)
  <2> DEFINE k == At("login", t, p, "login")
  <2>1. k \in Underway /\ k.at = "login" /\ k.page = p
    BY AtType DEF Places
  <2>2. task[t].at \in {"idle", "refused"}
    BY <1>2, TaskAt DEF StartLogin
  <2>3. /\ task' = [task EXCEPT ![t] = k] /\ memory' = [memory EXCEPT ![p] = NoMemory]
        /\ UNCHANGED <<server, expired, jar, reused>>
        /\ net' = net \cup {Request("login", t, p)}
    BY <1>2 DEF StartLogin, Become, Send, ServerUnchanged
  <2> HIDE DEF k
  <2>9. GoesOn(t, p, k)
    BY <2>1, <2>2, <2>3 DEF GoesOn, SignsIn
  <2> QED BY <2>9
<1>3. ASSUME NEW t \in Task, NEW p \in Page, SendLogout(t, p), UNCHANGED memory, ServerUnchanged,
             task[t].at \in {"idle", "refused", "refreshed"}, memory[p].access # Nothing
      PROVE  \E k : GoesOn(t, p, k)
  <2> DEFINE k == At("logout", t, p, "logout")
  <2>1. k \in Underway /\ k.at = "logout" /\ k.page = p
    BY AtType DEF Places
  <2>3. /\ task' = [task EXCEPT ![t] = k] /\ memory' = memory
        /\ UNCHANGED <<server, expired, jar, reused>>
        /\ net' = net \cup {Request("logout", t, p)}
    BY <1>3 DEF SendLogout, Become, Send, ServerUnchanged
  <2> HIDE DEF k
  <2>9. GoesOn(t, p, k)
    BY <1>3, <2>1, <2>3 DEF GoesOn, SignsOut
  <2> QED BY <2>9
<1>4. ASSUME NEW t \in Task, NEW p \in Page, StartLogout(t, p)
      PROVE  \E k : GoesOn(t, p, k)
  <2>1. task[t].at \in {"idle", "refused"}
    BY <1>4, TaskAt DEF StartLogout
  <2>2. CASE memory[p].access # Nothing
    BY <1>3, <1>4, <2>1, <2>2 DEF StartLogout
  <2>3. CASE memory[p].access = Nothing
    <3> DEFINE k == At("refresh", t, p, "logout")
    <3>1. k \in Underway /\ k.at = "refresh" /\ k.page = p
      BY AtType DEF Places
    <3>2. /\ task' = [task EXCEPT ![t] = k] /\ memory' = memory
          /\ UNCHANGED <<server, expired, jar, reused>>
          /\ IF InFlight(p) = {} THEN net' = net \cup {Request("refresh", t, p)} ELSE net' = net
      BY <1>4, <2>3 DEF StartLogout, Refresh, Become, Send, NoSend, ServerUnchanged
    <3>3. memory[p].csrf # Nothing
      <4>1. memory[p] \in Memory /\ memory[p] # NoMemory
        BY <1>4 DEF StartLogout, Typed
      <4> QED BY <2>3, <4>1 DEF Memory, NoMemory
    <3> HIDE DEF k
    <3>9. GoesOn(t, p, k)
      BY <2>1, <3>1, <3>2, <3>3 DEF GoesOn, Shares
    <3> QED BY <3>9
  <2> QED BY <2>2, <2>3
<1>5. ASSUME NEW t \in Task, task[t].at \in Places
      PROVE  task[t] \in Underway /\ task[t].page \in Page
  BY <1>5, TaskAt DEF Underway
<1>6. ASSUME NEW t \in Task, GoOnLogout(t)
      PROVE  \E p \in Page : \E k : GoesOn(t, p, k)
  <2> DEFINE p == task[t].page
  <2>1. task[t].at = "refreshed" /\ p \in Page
    BY <1>5, <1>6 DEF GoOnLogout, Places
  <2>2. CASE memory[p].access # Nothing
    BY <1>3, <1>6, <2>1, <2>2 DEF GoOnLogout
  <2>3. CASE memory[p].access = Nothing
    <3>1. GoesOn(t, p, Idle)
      BY <1>6, <2>1, <2>3 DEF GoOnLogout, Become, NoSend, ServerUnchanged, GoesOn, Ends
    <3> QED BY <2>1, <3>1
  <2> QED BY <2>2, <2>3
<1>7. ASSUME NEW t \in Task, CallReturns(t)
      PROVE  \E p \in Page : \E k : GoesOn(t, p, k)
  <2> DEFINE p == task[t].page
  <2>1. task[t].at \in {"call", "retry"} /\ task[t] \in Underway /\ p \in Page
    BY <1>5, <1>7 DEF CallReturns, Places
  <2>2. UNCHANGED <<server, expired, jar, reused>>
    BY <1>7 DEF CallReturns, ServerUnchanged
  <2>3. CASE task[t].token \notin expired
    <3>1. GoesOn(t, p, Idle)
      BY <1>7, <2>1, <2>2, <2>3 DEF CallReturns, Become, NoSend, GoesOn, Ends
    <3> QED BY SMTT(30), <2>1, <3>1
  <2>4. CASE task[t].token \in expired /\ task[t].at = "call"
    <3> DEFINE k == [task[t] EXCEPT !.at = "again", !.token = Nothing]
    <3>1. k \in Underway /\ k.at = "again" /\ k.page = p
      BY <2>1 DEF Underway, Places
    <3>2. /\ task' = [task EXCEPT ![t] = k] /\ memory' = memory
          /\ IF InFlight(p) = {} THEN net' = net \cup {Request("refresh", t, p)} ELSE net' = net
      BY <1>7, <2>4 DEF CallReturns, Refresh, Become, Send, NoSend
    <3>3. GoesOn(t, p, k)
      <4> HIDE DEF k
      <4> QED BY <2>2, <2>4, <3>1, <3>2 DEF GoesOn, Shares
    <3> QED BY <2>1, <3>3
  <2>5. CASE task[t].token \in expired /\ task[t].at = "retry"
    <3>1. PICK k \in {Idle, Refused} :
            /\ task' = [task EXCEPT ![t] = k] /\ net' = net
            /\ \/ memory' = memory /\ k = Idle
               \/ memory' = [memory EXCEPT ![p] = NoMemory]
      BY <1>7, <2>5 DEF CallReturns, Become, NoSend
    <3>2. GoesOn(t, p, k)
      BY <2>2, <2>5, <3>1 DEF GoesOn, Ends
    <3> QED BY SMTT(30), <2>1, <3>2
  <2> QED BY SMTT(30), <2>1, <2>3, <2>4, <2>5
<1> QED BY <1>1, <1>2, <1>4, <1>6, <1>7

(* The steps of the server: the answer, and what becomes of the credentials. *)
Reply(m, answer) == [m EXCEPT !.at = "answered", !.answer = answer]

Replied(m, answer) ==
  /\ net' = (net \ {m}) \cup (IF m.heard THEN {Reply(m, answer)} ELSE {})
  /\ UNCHANGED <<expired, jar, memory, task>>

Opens(m) ==
  /\ m.kind = "login"
  /\ \E c \in Credential, v \in Csrf :
       /\ server[c].state = "none"
       /\ server' = [server EXCEPT ![c] = [state |-> "live", family |-> c]]
       /\ Replied(m, Granted(c, v)) /\ reused' = reused

Rotates(m) ==
  /\ m.kind = "refresh" /\ Live(m.credential)
  /\ \E n \in Credential, v \in Csrf :
       /\ server[n].state = "none"
       /\ server' = [server EXCEPT ![m.credential].state = "rotated", ![n] = server[m.credential]]
       /\ Replied(m, Granted(n, v)) /\ reused' = reused

Detects(m) ==
  /\ m.kind = "refresh" /\ Spent(m.credential)
  /\ server' = Ended(Family(m.credential))
  /\ Replied(m, Denied)

Closes(m) ==
  /\ m.kind = "logout"
  /\ LET c == IF m.credential # Nothing THEN m.credential ELSE m.token
     IN  server' = IF Live(c) THEN Ended({c}) ELSE server
  /\ Replied(m, [Denied EXCEPT !.ok = TRUE]) /\ reused' = reused

Confirms(m) ==
  /\ m.kind = "probe" /\ Live(m.credential)
  /\ \E v \in Csrf : Replied(m, Granted(m.credential, v))
  /\ UNCHANGED <<server, reused>>

Denies(m) ==
  /\ m.kind = "probe" => ~Live(m.credential)
  /\ m.kind = "refresh" => ~Live(m.credential) \/ ~CsrfMatches(m)
  /\ Replied(m, Denied)
  /\ UNCHANGED <<server, reused>>

(* The answers of the server, as the steps give them. *)
LEMMA AnswersType ==
  /\ Denied \in Answers /\ [Denied EXCEPT !.ok = TRUE] \in Answers
  /\ ~Denied.ok /\ Denied.refresh = Nothing
  /\ [Denied EXCEPT !.ok = TRUE].ok /\ [Denied EXCEPT !.ok = TRUE].refresh = Nothing
  /\ \A c \in Credential, v \in Csrf :
       /\ Granted(c, v) \in Answers /\ Granted(c, v).ok
       /\ Granted(c, v).refresh = c /\ Granted(c, v).csrf = v
  BY DEF Denied, Granted, Answers

(* The parts of a request that is on its way. *)
LEMMA MessageType ==
  ASSUME Typed, NEW m \in net
  PROVE  /\ m \in Messages /\ m.kind \in Kinds /\ m.page \in Page /\ m.heard \in BOOLEAN
         /\ m.at \in {"sent", "answered", "arrived"}
         /\ m.credential \in Credential \cup {Nothing} /\ m.token \in Credential \cup {Nothing}
         /\ m.at # "sent" => m.answer \in Answers
         /\ m.at # "sent" => /\ m.answer.ok \in BOOLEAN
                             /\ m.answer.refresh \in Credential \cup {Nothing}
                             /\ m.answer.csrf \in Csrf \cup {Nothing}
<1>1. m \in Messages /\ (m.at # "sent" => m.answer \in Answers)
  BY DEF Typed
<1> QED BY <1>1 DEF Messages, Answers

(* A request that is answered is replaced by its answer, or gone. *)
LEMMA AnsweredIsReplied ==
  ASSUME Typed, NEW m \in net, NEW answer, Answered(m, answer), UNCHANGED <<expired, jar, memory, task>>
  PROVE  Replied(m, answer)
<1>1. m.heard \in BOOLEAN
  BY MessageType
<1>2. CASE m.heard
  <2>1. {y \in {m} : y.heard} = {m}
    BY <1>2
  <2>2. net' = (net \ {m}) \cup {Reply(m, answer)}
    BY <2>1 DEF Answered, Reply
  <2> QED BY <1>2, <2>2 DEF Replied
<1>3. CASE ~m.heard
  <2>1. {y \in {m} : y.heard} = {}
    BY <1>3
  <2>2. net' = net \ {m}
    BY <2>1 DEF Answered
  <2> QED BY <1>3, <2>2 DEF Replied
<1> QED BY <1>2, <1>3

(* A new credential is one that was not issued before. *)
LEMMA NewIsUnissued ==
  ASSUME Unissued # {}
  PROVE  NewCredential \in Credential /\ server[NewCredential].state = "none"
  BY DEF Unissued, NewCredential

(* An answer is one of six, whatever was asked. *)
LEMMA AnswerStep ==
  ASSUME Typed, NEW m \in net, Answer(m)
  PROVE  /\ m.at = "sent"
         /\ \/ Opens(m) \/ Rotates(m) \/ Detects(m)
            \/ Closes(m) \/ Confirms(m) \/ Denies(m)
<1>1. m.at = "sent" /\ UNCHANGED <<expired, jar, memory, task>>
  BY DEF Answer, browser
<1>2. PICK v \in FreshCsrf :
        AnswerLogin(m, v) \/ AnswerProbe(m, v) \/ AnswerRefresh(m, v) \/ AnswerLogout(m)
  BY DEF Answer
<1>3. v \in Csrf
  BY DEF FreshCsrf
<1>4. \A answer : Answered(m, answer) => Replied(m, answer)
  BY <1>1, AnsweredIsReplied
<1>5. CASE AnswerLogin(m, v)
  <2>1. m.kind = "login" /\ reused' = reused
    BY <1>5 DEF AnswerLogin
  <2>2. CASE Answered(m, Denied) /\ UNCHANGED server
    BY <1>1, <1>4, <2>1, <2>2 DEF Denies
  <2>3. CASE Unissued # {} /\ Answered(m, Granted(NewCredential, v))
             /\ server' = [server EXCEPT ![NewCredential] =
                             [state |-> "live", family |-> NewCredential]]
    <3>1. Replied(m, Granted(NewCredential, v))
      BY <1>4, <2>3
    <3> QED BY <1>1, <1>3, <2>1, <2>3, <3>1, NewIsUnissued DEF Opens
  <2> QED BY <1>5, <2>2, <2>3 DEF AnswerLogin
<1>6. CASE AnswerProbe(m, v)
  <2>1. m.kind = "probe" /\ UNCHANGED <<server, reused>>
    BY <1>6 DEF AnswerProbe
  <2>2. CASE Live(m.credential)
    <3>1. Replied(m, Granted(m.credential, v))
      BY <1>4, <1>6, <2>2 DEF AnswerProbe
    <3> QED BY <1>1, <1>3, <2>1, <2>2, <3>1 DEF Confirms
  <2>3. CASE ~Live(m.credential)
    <3>1. Replied(m, Denied)
      BY <1>4, <1>6, <2>3 DEF AnswerProbe
    <3> QED BY <1>1, <2>1, <2>3, <3>1 DEF Denies
  <2> QED BY <2>2, <2>3
<1>7. CASE AnswerRefresh(m, v)
  <2> DEFINE c == m.credential
  <2>1. m.kind = "refresh"
    BY <1>7 DEF AnswerRefresh
  <2>2. CASE c = Nothing \/ ~CsrfMatches(m)
    <3>1. Answered(m, Denied) /\ UNCHANGED <<server, reused>>
      BY <1>7, <2>2 DEF AnswerRefresh
    <3> QED BY <1>1, <1>4, <2>1, <2>2, <3>1 DEF Denies, Live
  <2>3. CASE c # Nothing /\ CsrfMatches(m) /\ server[c].state = "live"
    <3>1. /\ Unissued # {} /\ reused' = reused
          /\ server' = [server EXCEPT ![c].state = "rotated", ![NewCredential] = server[c]]
          /\ Answered(m, Granted(NewCredential, v))
      BY <1>7, <2>3 DEF AnswerRefresh
    <3>2. Replied(m, Granted(NewCredential, v))
      BY <1>4, <3>1
    <3> QED BY <1>1, <1>3, <2>1, <2>3, <3>1, <3>2, NewIsUnissued DEF Rotates, Live
  <2>4. CASE c # Nothing /\ CsrfMatches(m) /\ server[c].state = "rotated"
    <3>1. server' = Ended(Family(c)) /\ Answered(m, Denied)
      BY <1>7, <2>4 DEF AnswerRefresh
    <3> QED BY <1>1, <1>4, <2>1, <2>4, <3>1, MessageType DEF Detects, Spent
  <2>5. CASE c # Nothing /\ CsrfMatches(m) /\ server[c].state \notin {"live", "rotated"}
    <3>1. Answered(m, Denied) /\ UNCHANGED <<server, reused>>
      BY <1>7, <2>5 DEF AnswerRefresh
    <3> QED BY <1>1, <1>4, <2>1, <2>5, <3>1 DEF Denies, Live
  <2> QED BY <1>1, <2>2, <2>3, <2>4, <2>5
<1>8. CASE AnswerLogout(m)
  <2>1. m.kind = "logout" /\ reused' = reused
    BY <1>8 DEF AnswerLogout
  <2>2. CASE m.token \in expired
    BY <1>1, <1>4, <1>8, <2>1, <2>2 DEF AnswerLogout, Denies
  <2>3. CASE m.token \notin expired
    BY <1>1, <1>4, <1>8, <2>1, <2>3 DEF AnswerLogout, Closes
  <2> QED BY <2>2, <2>3
<1> QED BY <1>1, <1>2, <1>5, <1>6, <1>7, <1>8

(* The steps of a page that hears of a request, or no longer can.            *)
Wakes(m, outcome) ==
  /\ m.kind = "refresh"
  /\ \/ /\ outcome = "granted"
        /\ memory' = [memory EXCEPT ![m.page] =
                        [access |-> m.answer.refresh, csrf |-> m.answer.csrf]]
     \/ outcome = "denied" /\ memory' = [memory EXCEPT ![m.page] = NoMemory]
     \/ outcome = "failed" /\ memory' = memory
  /\ net' = net \ {m}
  /\ task' \in [Task -> Underway \cup {Idle, Refused}]
  /\ \A t \in Task :
       \/ /\ task'[t] = task[t]
          /\ ~(task[t].at \in {"refresh", "again"} /\ task[t].page = m.page)
       \/ /\ task[t].at \in {"refresh", "again"} /\ task[t].page = m.page
          /\ task'[t].at \in {"refreshed", "refused", "idle", "call", "retry"}
          /\ task'[t].at \in Places => task'[t].page = m.page
          /\ task'[t].at \in {"call", "retry"} => outcome = "granted"
          /\ task'[t].at = "refused" => outcome # "granted" \/ m.answer.refresh = Nothing

Informs(m, outcome) ==
  /\ m.kind = "probe" /\ m.by \in Task
  /\ \/ /\ outcome = "granted"
        /\ memory' = [memory EXCEPT ![m.page].csrf = m.answer.csrf]
        /\ \E k \in Underway :
             k.at = "refresh" /\ k.page = m.page /\ task' = [task EXCEPT ![m.by] = k]
        /\ IF InFlight(m.page) = {}
           THEN net' = (net \ {m}) \cup
                  {[Request("refresh", m.by, m.page) EXCEPT !.header = m.answer.csrf]}
           ELSE net' = net \ {m}
     \/ /\ outcome # "granted"
        /\ memory' = memory /\ net' = net \ {m}
        /\ task' = [task EXCEPT ![m.by] = Refused]

Finishes(m, outcome) ==
  /\ m.kind \in {"login", "logout"} /\ m.by \in Task
  /\ \/ /\ m.kind = "login" /\ outcome = "granted"
        /\ memory' = [memory EXCEPT ![m.page] =
                        [access |-> m.answer.refresh, csrf |-> m.answer.csrf]]
     \/ m.kind = "login" /\ outcome # "granted" /\ memory' = memory
     \/ m.kind = "logout" /\ memory' = [memory EXCEPT ![m.page] = NoMemory]
  /\ net' = net \ {m}
  /\ task' = [task EXCEPT ![m.by] = Idle]

(* To hear of a request is to wake those who share it, to go on
   after a probe, or to finish signing in or out. *)
LEMMA SettleStep ==
  ASSUME Typed, Linked, NEW m \in net,
         NEW outcome \in {"granted", "denied", "failed"}, Settle(m, outcome),
         outcome = "granted" => m.at # "sent"
  PROVE  m.heard /\ (Wakes(m, outcome) \/ Informs(m, outcome) \/ Finishes(m, outcome))
<1>1. m.heard /\ (SettleRefresh(m, outcome) \/ SettleProbe(m, outcome)
                  \/ SettleLogin(m, outcome) \/ SettleLogout(m, outcome))
  BY DEF Settle
<1>2. CASE SettleRefresh(m, outcome)
  <2> DEFINE p == m.page
             token == IF outcome = "granted" THEN m.answer.refresh ELSE Nothing
  <2>1. /\ m.kind = "refresh" /\ net' = net \ {m}
        /\ memory' = CASE outcome = "granted" ->
                              [memory EXCEPT ![p] = [access |-> m.answer.refresh, csrf |-> m.answer.csrf]]
                        [] outcome = "denied" -> [memory EXCEPT ![p] = NoMemory]
                        [] OTHER -> memory
        /\ task' = [t \in Task |->
             IF Waits(t, p) /\ task[t].at \in {"refresh", "again"}
             THEN GoOn(task[t], token) ELSE task[t]]
    BY <1>2 DEF SettleRefresh
  <2>2. token \in Credential \cup {Nothing} /\ m.page \in Page
    BY MessageType
  <2>3. ASSUME NEW t \in Task
        PROVE  /\ task'[t] \in Underway \cup {Idle, Refused}
               /\ \/ /\ task'[t] = task[t]
                     /\ ~(task[t].at \in {"refresh", "again"} /\ task[t].page = p)
                  \/ /\ task[t].at \in {"refresh", "again"} /\ task[t].page = p
                     /\ task'[t].at \in {"refreshed", "refused", "idle", "call", "retry"}
                     /\ task'[t].at \in Places => task'[t].page = p
                     /\ task'[t].at \in {"call", "retry"} => outcome = "granted"
                     /\ task'[t].at = "refused" => outcome # "granted" \/ m.answer.refresh = Nothing
    <3>1. CASE Waits(t, p) /\ task[t].at \in {"refresh", "again"}
      <4>1. task[t] \in Underway /\ task[t].page = p
        BY <3>1, TaskAt DEF Places
      <4>2. task'[t] = GoOn(task[t], token)
        BY <2>1, <3>1
      <4> HIDE DEF token
      <4>3. CASE task[t].do = "logout"
        <5>1. task'[t] = [task[t] EXCEPT !.at = "refreshed"]
          BY <4>2, <4>3 DEF GoOn
        <5>2. task'[t] \in Underway /\ task'[t].at = "refreshed" /\ task'[t].page = p
          BY <4>1, <4>3, <5>1 DEF Underway, Places
        <5> QED BY <3>1, <4>1, <5>2
      <4>4. CASE task[t].do # "logout" /\ token = Nothing
        <5>1. task'[t] = Refused /\ task'[t].at = "refused"
          BY <4>2, <4>4 DEF GoOn, Refused
        <5> QED BY <3>1, <4>1, <4>4, <5>1 DEF Places, token
      <4>5. CASE task[t].do = "check" /\ token # Nothing
        <5>1. task'[t] = Idle /\ task'[t].at = "idle"
          BY <4>2, <4>5 DEF GoOn, Idle
        <5> QED BY <3>1, <4>1, <5>1 DEF Places
      <4>6. CASE task[t].do \notin {"logout", "check"} /\ token # Nothing
        <5> DEFINE k == [task[t] EXCEPT !.token = token,
                                       !.at = IF @ = "refresh" THEN "call" ELSE "retry"]
        <5>1. task'[t] = k
          BY <4>2, <4>6 DEF GoOn
        <5>2. k \in Underway /\ k.at \in {"call", "retry"} /\ k.page = p
          BY <2>2, <4>1 DEF Underway, Places
        <5> HIDE DEF k
        <5> QED BY <3>1, <4>1, <4>6, <5>1, <5>2 DEF token
      <4> QED BY <4>3, <4>4, <4>5, <4>6
    <3>2. CASE ~(Waits(t, p) /\ task[t].at \in {"refresh", "again"})
      <4>1. task'[t] = task[t]
        BY <2>1, <3>2
      <4> QED BY <3>2, <4>1, TaskAt DEF Places
    <3> QED BY <3>1, <3>2
  <2>4. task' \in [Task -> Underway \cup {Idle, Refused}]
    BY <2>1, <2>3
  <2> HIDE DEF token
  <2>5. Wakes(m, outcome)
    BY <2>1, <2>3, <2>4 DEF Wakes
  <2> QED BY <1>1, <2>5
<1>3. ASSUME m.kind # "refresh"
      PROVE  m.by \in Task /\ task[m.by].at = m.kind /\ task[m.by].page = m.page
  BY <1>1, <1>3 DEF Linked
<1>4. CASE SettleProbe(m, outcome)
  <2>1. m.kind = "probe"
    BY <1>4 DEF SettleProbe
  <2>2. CASE outcome = "granted"
    <3> DEFINE k == [task[m.by] EXCEPT !.at = "refresh"]
    <3>1. k \in Underway /\ k.at = "refresh" /\ k.page = m.page
      <4>1. task[m.by] \in Underway
        BY <1>3, <2>1, TaskAt DEF Places
      <4> QED BY <1>3, <2>1, <4>1 DEF Underway, Places
    <3>2. task' = [task EXCEPT ![m.by] = k]
      BY <1>4, <2>2 DEF SettleProbe, Become
    <3> HIDE DEF k
    <3>3. Informs(m, outcome)
      BY <1>3, <1>4, <2>1, <2>2, <3>1, <3>2 DEF SettleProbe, Informs
    <3> QED BY <1>1, <3>3
  <2>3. CASE outcome # "granted"
    <3>1. Informs(m, outcome)
      BY <1>3, <1>4, <2>1, <2>3 DEF SettleProbe, Informs, Become
    <3> QED BY <1>1, <3>1
  <2> QED BY <2>2, <2>3
<1>5. CASE SettleLogin(m, outcome)
  <2>1. Finishes(m, outcome)
    BY <1>3, <1>5 DEF SettleLogin, Finishes, Become
  <2> QED BY <1>1, <2>1
<1>6. CASE SettleLogout(m, outcome)
  <2>1. Finishes(m, outcome)
    BY <1>3, <1>6 DEF SettleLogout, Finishes, Become
  <2> QED BY <1>1, <2>1
<1> QED BY <1>1, <1>2, <1>4, <1>5, <1>6

(* Loading a page again: what is left of its requests. *)
Silenced(x) == [x EXCEPT !.heard = FALSE, !.by = Nothing]

(* What loading a page again leaves. *)
LEMMA ReloadStep ==
  ASSUME Typed, NEW p \in Page, Reload(p)
  PROVE  /\ memory' = [memory EXCEPT ![p] = NoMemory]
         /\ UNCHANGED <<server, expired, jar, reused>>
         /\ task' \in [Task -> Underway \cup {Idle, Refused}]
         /\ \A t \in Task : task'[t] = IF Waits(t, p) THEN Idle ELSE task[t]
         /\ \A m \in net : m.heard /\ (m.page = p /\ m.kind = "refresh" => MayLoseCredential)
         /\ \A x \in net : x.page # p => x \in net'
         /\ \A y \in net' :
              \/ y \in net /\ y.page # p
              \/ \E x \in net : /\ y = Silenced(x) /\ x.page = p
                                /\ x.at = "sent" /\ x.kind # "probe"
<1> DEFINE kept == {x \in net : x.page = p => x.at = "sent" /\ x.kind # "probe"}
<1>1. net' = {IF m.page = p THEN [m EXCEPT !.heard = FALSE, !.by = Nothing] ELSE m : m \in kept}
  BY DEF Reload
<1>2. /\ memory' = [memory EXCEPT ![p] = NoMemory]
      /\ UNCHANGED <<server, expired, jar, reused>>
      /\ task' = [t \in Task |-> IF Waits(t, p) THEN Idle ELSE task[t]]
      /\ \A m \in net : m.heard
      /\ MayLoseCredential \/ \A m \in net : m.page = p => m.kind # "refresh"
  BY DEF Reload, ServerUnchanged
<1>3. task' \in [Task -> Underway \cup {Idle, Refused}]
  BY <1>2 DEF Typed
<1>4. \A y \in net' : \/ y \in net /\ y.page # p
                      \/ \E x \in net : /\ y = Silenced(x) /\ x.page = p
                                        /\ x.at = "sent" /\ x.kind # "probe"
  BY <1>1 DEF Silenced
<1>5. \A x \in net : x.page # p => x \in net'
  BY <1>1
<1> QED BY <1>2, <1>3, <1>4, <1>5

(* A request that nobody hears of is otherwise as it was. *)
LEMMA SilencedIs ==
  ASSUME NEW x \in Messages
  PROVE  /\ Silenced(x) \in Messages /\ ~Silenced(x).heard
         /\ Silenced(x).kind = x.kind /\ Silenced(x).page = x.page /\ Silenced(x).at = x.at
         /\ Silenced(x).answer = x.answer /\ Silenced(x).credential = x.credential
         /\ Silenced(x).token = x.token /\ Silenced(x).cookie = x.cookie
         /\ Silenced(x).header = x.header
  BY DEF Silenced, Messages

(* A request that is answered is otherwise as it was. *)
LEMMA ReplyIs ==
  ASSUME NEW x \in Messages, NEW answer \in Answers
  PROVE  /\ Reply(x, answer) \in Messages /\ Reply(x, answer).heard = x.heard
         /\ Reply(x, answer).at = "answered" /\ Reply(x, answer).answer = answer
         /\ Reply(x, answer).kind = x.kind /\ Reply(x, answer).page = x.page
         /\ Reply(x, answer).by = x.by /\ Reply(x, answer).credential = x.credential
         /\ Reply(x, answer).token = x.token /\ Reply(x, answer).cookie = x.cookie
         /\ Reply(x, answer).header = x.header
  BY DEF Reply, Messages

(* An answer on its way to the page. *)
Arrived(x) == [x EXCEPT !.at = "arrived"]

(* A request whose answer arrived is otherwise as it was. *)
LEMMA ArrivedIs ==
  ASSUME NEW x \in Messages
  PROVE  /\ Arrived(x) \in Messages /\ Arrived(x).heard = x.heard
         /\ Arrived(x).at = "arrived" /\ Arrived(x).answer = x.answer
         /\ Arrived(x).kind = x.kind /\ Arrived(x).page = x.page
         /\ Arrived(x).by = x.by /\ Arrived(x).credential = x.credential
         /\ Arrived(x).token = x.token /\ Arrived(x).cookie = x.cookie
         /\ Arrived(x).header = x.header
  BY DEF Arrived, Messages

(* What an answer that arrives does to the cookies. *)
LEMMA ArriveStep ==
  ASSUME Typed, NEW m \in net, Arrive(m)
  PROVE  /\ m.at = "answered" /\ net' = (net \ {m}) \cup {Arrived(m)}
         /\ UNCHANGED <<server, expired, memory, task, reused>>
         /\ ~m.answer.ok => jar' = jar
         /\ m.answer.ok /\ m.kind \in {"login", "refresh"} =>
              jar' = [refresh |-> m.answer.refresh, csrf |-> m.answer.csrf]
         /\ m.answer.ok /\ m.kind = "probe" => jar' = [jar EXCEPT !.csrf = m.answer.csrf]
         /\ m.answer.ok /\ m.kind = "logout" => jar' = NoCookies
<1>1. m.kind \in Kinds
  BY MessageType
<1> QED BY <1>1 DEF Arrive, Arrived, Kinds

(* What a step can be. *)
Settles(m, outcome) ==
  /\ m \in net /\ m.heard
  /\ outcome \in {"granted", "denied", "failed"}
  /\ outcome \in {"granted", "denied"} => m.at = "arrived" /\ (outcome = "granted" <=> m.answer.ok)
  /\ outcome = "failed" => m.at # "arrived" /\ disturbed' /\ (Replacing(m) => MayLoseCredential)
  /\ UNCHANGED <<server, expired, jar, reused>>
  /\ Wakes(m, outcome) \/ Informs(m, outcome) \/ Finishes(m, outcome)

Forgets(m) ==
  /\ m \in net /\ ~m.heard /\ net' = net \ {m} /\ disturbed'
  /\ UNCHANGED <<server, expired, jar, memory, task, reused>>

(* A step is one of a call, of a loading, of the server or the network. *)
LEMMA Cases ==
  ASSUME Typed, Linked, [Next]_vars
  PROVE  /\ disturbed' \in BOOLEAN /\ (disturbed => disturbed')
         /\ \/ \E t \in Task, p \in Page : \E k : GoesOn(t, p, k)
            \/ \E p \in Page : Reload(p)
            \/ UNCHANGED <<server, jar, memory, task, net, reused>>
            \/ \E m \in net : Answer(m) \/ Arrive(m) \/ Forgets(m)
            \/ \E m \in net, outcome \in {"granted", "denied", "failed"} : Settles(m, outcome)
         /\ ~disturbed' => ~Crowded' \/ UNCHANGED vars
<1>1. CASE UNCHANGED vars
  BY <1>1 DEF vars, Typed
<1>2. CASE Step /\ disturbed' = (disturbed \/ Crowded')
  <2>1. disturbed' \in BOOLEAN /\ (disturbed => disturbed') /\ (~disturbed' => ~Crowded')
    BY <1>2 DEF Typed
  <2>2. CASE \E m \in net : Hear(m)
    <3>1. PICK m \in net : Hear(m)
      BY <2>2
    <3> DEFINE outcome == IF m.answer.ok THEN "granted" ELSE "denied"
    <3>2. m.at = "arrived" /\ Settle(m, outcome) /\ UNCHANGED <<server, expired, jar, reused>>
      BY <3>1 DEF Hear, ServerUnchanged
    <3>3. m.heard /\ (Wakes(m, outcome) \/ Informs(m, outcome) \/ Finishes(m, outcome))
      BY <3>2, SettleStep
    <3>4. Settles(m, outcome)
      BY <3>2, <3>3 DEF Settles
    <3> QED BY <2>1, <3>4
  <2>3. CASE \/ \E t \in Task, p \in Page :
                  \/ \E what \in Calls : StartCall(t, p, what)
                  \/ StartLogin(t, p) \/ StartLogout(t, p)
             \/ \E t \in Task : GoOnLogout(t) \/ CallReturns(t)
    <3>1. \E t \in Task, p \in Page : \E k : GoesOn(t, p, k)
      BY <2>3, PageStep
    <3> QED BY <2>1, <3>1
  <2>4. CASE \E c \in Credential : Expire(c)
    BY <2>1, <2>4 DEF Expire, browser
  <2> QED BY <1>2, <2>1, <2>2, <2>3, <2>4 DEF Step
<1>3. CASE (\E m \in net : Lose(m)) /\ disturbed' = TRUE
  <2>1. PICK m \in net : Lose(m)
    BY <1>3
  <2>2. /\ m.at \in {"sent", "answered"} /\ (Replacing(m) => MayLoseCredential)
        /\ UNCHANGED <<server, expired, jar, reused>>
    BY <2>1 DEF Lose, ServerUnchanged
  <2>3. CASE Settle(m, "failed")
    <3>1. m.heard /\ (Wakes(m, "failed") \/ Informs(m, "failed") \/ Finishes(m, "failed"))
      BY <2>3, SettleStep
    <3>2. Settles(m, "failed")
      BY <1>3, <2>2, <3>1 DEF Settles
    <3> QED BY <1>3, <3>2
  <2>4. CASE ~m.heard /\ net' = net \ {m} /\ UNCHANGED <<memory, task>>
    BY <1>3, <2>2, <2>4 DEF Forgets
  <2> QED BY <2>1, <2>3, <2>4 DEF Lose
<1> QED BY <1>1, <1>2, <1>3 DEF Next

-----------------------------------------------------------------------------
(* Types are kept. *)

(* The refresh that follows a probe. *)
Follow(m) == [Request("refresh", m.by, m.page) EXCEPT !.header = m.answer.csrf]

(* The refresh that follows a probe. *)
LEMMA FollowIs ==
  ASSUME Typed, NEW m \in net, m.by \in Task, m.at # "sent"
  PROVE  /\ Follow(m) \in Messages /\ Follow(m).kind = "refresh" /\ Follow(m).page = m.page
         /\ Follow(m).heard /\ Follow(m).at = "sent" /\ Follow(m).credential = jar.refresh
         /\ Follow(m).token = Nothing /\ Follow(m).cookie = jar.csrf
         /\ Follow(m).header = m.answer.csrf
<1>1. m.page \in Page /\ m.answer.csrf \in Csrf \cup {Nothing}
  BY MessageType
<1>2. Request("refresh", m.by, m.page) \in Messages
  BY <1>1, Requested DEF Kinds
<1> QED BY <1>1, <1>2, Requested DEF Follow, Kinds, Messages

(* Requests stay requests. *)
LEMMA NetTyped ==
  ASSUME Typed, Linked, [Next]_vars
  PROVE  net' \subseteq Messages /\ \A m \in net' : m.at # "sent" => m.answer \in Answers
<1> DEFINE Good(m) == m \in Messages /\ (m.at # "sent" => m.answer \in Answers)
<1>1. \A m \in net : Good(m)
  BY DEF Typed
<1>2. ASSUME NEW kind \in Kinds, NEW t \in Task, NEW p \in Page
      PROVE  Good(Request(kind, t, p))
  BY Requested
<1>3. ASSUME NEW m \in net, NEW answer \in Answers PROVE Good(Reply(m, answer))
  BY <1>1, ReplyIs
<1>4. ASSUME NEW m \in net, m.at # "sent" PROVE Good(Arrived(m))
  BY <1>1, <1>4, ArrivedIs
<1>5. ASSUME NEW m \in net, m.by \in Task, m.at # "sent" PROVE Good(Follow(m))
  BY <1>5, FollowIs
<1>6. ASSUME NEW m \in net PROVE m.at = "sent" => Good(Silenced(m))
  BY <1>1, SilencedIs
<1> HIDE DEF Good
<1>7. ASSUME NEW t \in Task, NEW p \in Page, NEW k, GoesOn(t, p, k)
      PROVE  \A m \in net' : Good(m)
  BY <1>1, <1>2, <1>7 DEF GoesOn, Starts, Shares, Probes, SignsIn, SignsOut, Ends, Kinds
<1>8. ASSUME NEW p \in Page, Reload(p)
      PROVE  \A m \in net' : Good(m)
  BY <1>1, <1>6, <1>8, ReloadStep
<1>9. ASSUME NEW m \in net, Answer(m)
      PROVE  \A x \in net' : Good(x)
  <2>1. ASSUME NEW answer \in Answers, Replied(m, answer)
        PROVE  \A x \in net' : Good(x)
    BY <1>1, <1>3, <2>1 DEF Replied
  <2>2. CASE Opens(m) \/ Rotates(m) \/ Confirms(m)
    <3>1. m.credential \in Credential \cup {Nothing}
      BY MessageType
    <3> QED BY <2>1, <2>2, <3>1, AnswersType DEF Opens, Rotates, Confirms, Live
  <2>3. CASE Detects(m) \/ Closes(m) \/ Denies(m)
    BY <2>1, <2>3, AnswersType DEF Detects, Closes, Denies
  <2> QED BY <1>9, <2>2, <2>3, AnswerStep
<1>10. ASSUME NEW m \in net, Arrive(m) \/ Forgets(m)
      PROVE  \A x \in net' : Good(x)
  BY <1>1, <1>4, <1>10, ArriveStep DEF Forgets
<1>11. ASSUME NEW m \in net, NEW outcome, Settles(m, outcome)
      PROVE  \A x \in net' : Good(x)
  BY <1>1, <1>5, <1>11 DEF Settles, Wakes, Informs, Finishes, Follow
<1>12. \A m \in net' : Good(m)
  BY <1>1, <1>7, <1>8, <1>9, <1>10, <1>11, Cases
<1> QED BY <1>12 DEF Good

(* In the beginning everything has its type. *)
LEMMA TypedInit == Init => Typed
<1> SUFFICES ASSUME Init PROVE Typed
  OBVIOUS
<1>1. server \in [Credential -> Row]
  BY DEF Init, Row
<1>2. jar \in Cookies /\ memory \in [Page -> Memory]
  BY DEF Init, NoCookies, Cookies, NoMemory, Memory
<1>3. task \in [Task -> Underway \cup {Idle, Refused}]
  BY DEF Init
<1>4. net = {} /\ disturbed = FALSE
  BY DEF Init
<1> QED BY <1>1, <1>2, <1>3, <1>4 DEF Typed

(* Everything keeps its type. *)
LEMMA TypedStep ==
  ASSUME Typed, Linked, [Next]_vars
  PROVE  Typed'
<1> DEFINE Goal == /\ server' \in [Credential -> Row]
                   /\ jar' \in Cookies
                   /\ memory' \in [Page -> Memory]
                   /\ task' \in [Task -> Underway \cup {Idle, Refused}]
<1>1. NoMemory \in Memory /\ NoCookies \in Cookies
  BY DEF NoMemory, Memory, NoCookies, Cookies
<1>2. ASSUME NEW t \in Task, NEW p \in Page, NEW k, GoesOn(t, p, k) PROVE Goal
  BY <1>1, <1>2 DEF Typed, GoesOn, Starts, Shares, Probes, SignsIn, SignsOut, Ends
<1>3. ASSUME NEW p \in Page, Reload(p) PROVE Goal
  BY <1>1, <1>3, ReloadStep DEF Typed
<1>4. ASSUME UNCHANGED <<server, jar, memory, task, net, reused>> PROVE Goal
  BY <1>4 DEF Typed
<1>5. ASSUME NEW m \in net, Answer(m) PROVE Goal
  <2>1. UNCHANGED <<jar, memory, task>>
    BY <1>5 DEF Answer, browser
  <2>2. server' \in [Credential -> Row]
    <3>1. server \in [Credential -> Row]
      BY DEF Typed
    <3>2. CASE Opens(m)
      BY <3>1, <3>2 DEF Opens, Row
    <3>3. CASE Rotates(m)
      BY <3>1, <3>3, MessageType DEF Rotates, Live, Row
    <3>4. \A set : Ended(set) \in [Credential -> Row]
      BY <3>1 DEF Ended, Row
    <3>5. CASE Detects(m)
      BY <3>4, <3>5 DEF Detects
    <3>6. CASE Closes(m)
      BY <3>1, <3>4, <3>6 DEF Closes
    <3>7. CASE Confirms(m) \/ Denies(m)
      BY <3>1, <3>7 DEF Confirms, Denies
    <3> QED BY <1>5, <3>2, <3>3, <3>5, <3>6, <3>7, AnswerStep
  <2> QED BY <2>1, <2>2 DEF Typed
<1>6. ASSUME NEW m \in net, Arrive(m) PROVE Goal
  <2>1. jar' \in Cookies
    <3>1. m.answer.ok \in BOOLEAN /\ m.answer.refresh \in Credential \cup {Nothing}
          /\ m.answer.csrf \in Csrf \cup {Nothing} /\ m.kind \in Kinds
      BY <1>6, ArriveStep, MessageType
    <3> QED BY <1>1, <1>6, <3>1, ArriveStep DEF Typed, Cookies, Kinds
  <2> QED BY <1>6, <2>1, ArriveStep DEF Typed
<1>7. ASSUME NEW m \in net, Forgets(m) PROVE Goal
  BY <1>7 DEF Forgets, Typed
<1>8. ASSUME NEW m \in net, NEW outcome, Settles(m, outcome) PROVE Goal
  <2>1. outcome = "granted" =>
          /\ m.answer.refresh \in Credential \cup {Nothing}
          /\ m.answer.csrf \in Csrf \cup {Nothing}
    BY <1>8, MessageType DEF Settles
  <2>2. memory' \in [Page -> Memory]
    BY SMTT(30), <1>1, <1>8, <2>1 DEF Typed, Memory, Settles, Wakes, Informs, Finishes
  <2>3. task' \in [Task -> Underway \cup {Idle, Refused}]
    BY <1>8 DEF Typed, Settles, Wakes, Informs, Finishes
  <2> QED BY <1>8, <2>2, <2>3 DEF Typed, Settles
<1>9. Goal
  <2> HIDE DEF Goal
  <2> QED BY <1>2, <1>3, <1>4, <1>5, <1>6, <1>7, <1>8, Cases
<1> QED BY <1>9, NetTyped, Cases DEF Typed

-----------------------------------------------------------------------------
(* Requests and calls belong together. *)

Belongs(m) ==
  m.heard /\ m.kind # "refresh" =>
    /\ m.by \in Task /\ task[m.by].at = m.kind /\ task[m.by].page = m.page
    /\ \A x \in net : x.heard /\ x.kind # "refresh" /\ x.by = m.by => x = m

Awaits(t) ==
  /\ task[t].at \in {"refresh", "again"} => InFlight(task[t].page) # {}
  /\ task[t].at \in {"probe", "login", "logout"} =>
       \E m \in net : m.by = t /\ m.kind = task[t].at /\ m.heard

(* The link of requests and calls, one by one. *)
LEMMA LinkedIs == Linked <=> (\A m \in net : Belongs(m)) /\ (\A t \in Task : Awaits(t))
  BY DEF Linked, Belongs, Awaits, NoLostWakeup

(* In the beginning nobody waits. *)
LEMMA LinkedInit == Init => Linked
  BY DEF Init, Linked, NoLostWakeup, Idle

(* Nobody has asked for an answer who does not wait for one. *)
LEMMA NobodyAsked ==
  ASSUME Linked, NEW t \in Task, task[t].at \notin {"probe", "login", "logout"},
         NEW m \in net, m.heard, m.kind # "refresh", Typed
  PROVE  m.by # t
<1>1. Belongs(m) /\ m.kind \in Kinds
  BY LinkedIs, MessageType
<1> QED BY <1>1 DEF Belongs, Kinds

(* Somebody sends a request. *)
LEMMA LinkedSent ==
  ASSUME Typed, Linked, NEW t \in Task, NEW p \in Page, NEW kind \in Kinds,
         task[t].at \in {"idle", "refused", "call", "retry", "refreshed"},
         \A s \in Task : s # t => task'[s] = task[s], task'[t].page = p,
         IF kind = "refresh" THEN task'[t].at \in {"refresh", "again"} ELSE task'[t].at = kind,
         net' = net \cup {Request(kind, t, p)}
  PROVE  Linked'
<1> DEFINE r == Request(kind, t, p)
<1>1. /\ r.kind = kind /\ r.by = (IF kind = "refresh" THEN Nothing ELSE t)
      /\ r.page = p /\ r.heard
  BY Requested
<1> HIDE DEF r
<1>2. \A s \in Task : s # t => task'[s] = task[s]
  OBVIOUS
<1>3. net' = net \cup {r}
  BY DEF r
<1>4. ASSUME NEW m \in net' PROVE Belongs(m)'
  <2> SUFFICES ASSUME m.heard, m.kind # "refresh" PROVE Belongs(m)'
    BY DEF Belongs
  <2>1. CASE m \in net
    <3>1. m.by # t /\ Belongs(m)
      BY <2>1, NobodyAsked, LinkedIs
    <3> QED BY <1>1, <1>2, <1>3, <2>1, <3>1 DEF Belongs
  <2>2. CASE m = r
    <3>1. m.by = t /\ m.kind = kind /\ m.page = p
      BY <1>1, <2>2
    <3>2. \A x \in net : x.heard /\ x.kind # "refresh" => x.by # t
      BY NobodyAsked
    <3> QED BY <1>2, <1>3, <2>2, <3>1, <3>2 DEF Belongs
  <2> QED BY <1>3, <2>1, <2>2
<1>5. ASSUME NEW s \in Task PROVE Awaits(s)'
  <2>1. CASE s = t
    <3>1. CASE kind = "refresh"
      <4>1. r \in InFlight(p)'
        BY <1>1, <1>3, <3>1 DEF InFlight
      <4> QED BY <1>2, <2>1, <3>1, <4>1 DEF Awaits
    <3>2. CASE kind # "refresh"
      BY <1>1, <1>2, <1>3, <2>1, <3>2 DEF Awaits, Kinds
    <3> QED BY <3>1, <3>2
  <2>2. CASE s # t
    <3>1. Awaits(s) /\ task'[s] = task[s]
      BY <1>2, <2>2, LinkedIs
    <3>2. \A q : InFlight(q) \subseteq InFlight(q)'
      BY <1>3 DEF InFlight
    <3> QED BY <1>3, <3>1, <3>2 DEF Awaits
  <2> QED BY <2>1, <2>2
<1> QED BY <1>4, <1>5 DEF Linked, Belongs, Awaits, NoLostWakeup

(* Somebody goes on without sending one. *)
LEMMA LinkedUnsent ==
  ASSUME Typed, Linked, NEW t \in Task,
         task[t].at \in {"idle", "refused", "call", "retry", "refreshed"},
         \A s \in Task : s # t => task'[s] = task[s], net' = net,
         task'[t].at \notin {"probe", "login", "logout"},
         task'[t].at \in {"refresh", "again"} => InFlight(task'[t].page) # {}
  PROVE  Linked'
<1>1. \A s \in Task : s # t => task'[s] = task[s]
  OBVIOUS
<1>2. \A p : InFlight(p)' = InFlight(p)
  BY DEF InFlight
<1>3. ASSUME NEW m \in net' PROVE Belongs(m)'
  <2> SUFFICES ASSUME m.heard, m.kind # "refresh" PROVE Belongs(m)'
    BY DEF Belongs
  <2>1. m.by # t /\ Belongs(m)
    BY NobodyAsked, LinkedIs
  <2> QED BY <1>1, <2>1 DEF Belongs
<1>4. ASSUME NEW s \in Task PROVE Awaits(s)'
  <2>1. Awaits(s)
    BY LinkedIs
  <2> QED BY <1>1, <1>2, <2>1 DEF Awaits
<1> QED BY <1>3, <1>4 DEF Linked, Belongs, Awaits, NoLostWakeup

(* A request is answered, or its answer arrives: it stays the same request.  *)
LEMMA LinkedSame ==
  ASSUME Linked, NEW m \in net, NEW x, task' = task,
         net' = (net \ {m}) \cup (IF m.heard THEN {x} ELSE {}),
         m.heard => x.heard /\ x.kind = m.kind /\ x.by = m.by /\ x.page = m.page
  PROVE  Linked'
<1>1. ASSUME NEW y \in net', y.heard
      PROVE  \E z \in net : /\ z.heard /\ y.kind = z.kind /\ y.by = z.by /\ y.page = z.page
                            /\ (z = m => y = x) /\ (z # m => y = z)
  BY <1>1
<1>2. ASSUME NEW z \in net, z.heard
      PROVE  \E y \in net' : y.heard /\ y.kind = z.kind /\ y.by = z.by /\ y.page = z.page
  BY <1>2
<1>3. ASSUME NEW y \in net' PROVE Belongs(y)'
  <2> SUFFICES ASSUME y.heard, y.kind # "refresh" PROVE Belongs(y)'
    BY DEF Belongs
  <2>1. PICK z \in net : /\ z.heard /\ y.kind = z.kind /\ y.by = z.by /\ y.page = z.page
                         /\ (z = m => y = x) /\ (z # m => y = z)
    BY <1>1
  <2>2. Belongs(z)
    BY LinkedIs
  <2>3. ASSUME NEW v \in net', v.heard, v.kind # "refresh", v.by = y.by
        PROVE  v = y
    <3>1. PICK w \in net : /\ w.heard /\ v.kind = w.kind /\ v.by = w.by
                           /\ (w = m => v = x) /\ (w # m => v = w)
      BY <1>1, <2>3
    <3>2. w = z
      BY <2>1, <2>2, <2>3, <3>1 DEF Belongs
    <3> QED BY <2>1, <3>1, <3>2
  <2> QED BY <2>1, <2>2, <2>3 DEF Belongs
<1>4. ASSUME NEW s \in Task PROVE Awaits(s)'
  <2>1. Awaits(s)
    BY LinkedIs
  <2>2. \A q : InFlight(q) # {} => InFlight(q)' # {}
    BY <1>2 DEF InFlight
  <2> QED BY <1>2, <2>1, <2>2 DEF Awaits
<1> QED BY <1>3, <1>4 DEF Linked, Belongs, Awaits, NoLostWakeup

(* A page is loaded again. *)
LEMMA LinkedReload ==
  ASSUME Typed, Linked, NEW p \in Page, Reload(p)
  PROVE  Linked'
<1>1. \A y \in net' : y.heard => y \in net /\ y.page # p
  BY ReloadStep, SilencedIs, MessageType
<1>2. \A x \in net : x.page # p => x \in net'
  BY ReloadStep
<1>3. \A s \in Task : task'[s] = IF Waits(s, p) THEN Idle ELSE task[s]
  BY ReloadStep
<1>4. ASSUME NEW y \in net' PROVE Belongs(y)'
  <2> SUFFICES ASSUME y.heard, y.kind # "refresh" PROVE Belongs(y)'
    BY DEF Belongs
  <2>1. y \in net /\ y.page # p /\ Belongs(y)
    BY <1>1, LinkedIs
  <2>2. ~Waits(y.by, p)
    BY <2>1, TaskAt DEF Belongs
  <2>3. \A v \in net' : v.heard => v \in net
    BY <1>1
  <2> QED BY <1>3, <2>1, <2>2, <2>3 DEF Belongs
<1>5. ASSUME NEW s \in Task PROVE Awaits(s)'
  <2>1. CASE Waits(s, p)
    <3>1. task'[s].at = "idle"
      BY <1>3, <2>1 DEF Idle
    <3> QED BY <3>1 DEF Awaits
  <2>2. CASE ~Waits(s, p)
    <3>1. task'[s] = task[s] /\ Awaits(s)
      BY <1>3, <2>2, LinkedIs
    <3>2. task[s].at \in Places => task[s].page # p
      BY <2>2, TaskAt
    <3>3. \A q : q # p => InFlight(q) \subseteq InFlight(q)'
      BY <1>2 DEF InFlight
    <3>4. \A m \in net : m.by = s /\ m.kind = task[s].at /\ m.heard
                         /\ task[s].at \in {"probe", "login", "logout"} => m \in net'
      <4> SUFFICES ASSUME NEW m \in net, m.by = s, m.kind = task[s].at, m.heard,
                          task[s].at \in {"probe", "login", "logout"}
                   PROVE  m \in net'
        OBVIOUS
      <4>1. Belongs(m)
        BY LinkedIs
      <4> QED BY <1>2, <3>2, <4>1 DEF Belongs, Places
    <3> QED BY <3>1, <3>2, <3>3, <3>4 DEF Awaits, Places
  <2> QED BY <2>1, <2>2
<1> QED BY <1>4, <1>5 DEF Linked, Belongs, Awaits, NoLostWakeup

(* A refresh wakes all who share it. *)
LEMMA LinkedWakes ==
  ASSUME Typed, Linked, NEW m \in net, NEW outcome, m.heard, Wakes(m, outcome)
  PROVE  Linked'
<1>1. m.kind = "refresh" /\ net' = net \ {m}
  BY DEF Wakes
<1>2. ASSUME NEW y \in net' PROVE Belongs(y)'
  <2> SUFFICES ASSUME y.heard, y.kind # "refresh" PROVE Belongs(y)'
    BY DEF Belongs
  <2>1. Belongs(y) /\ y \in net /\ y.kind \in Kinds
    BY <1>1, LinkedIs, MessageType
  <2>2. task'[y.by] = task[y.by]
    BY <2>1 DEF Wakes, Belongs, Kinds
  <2> QED BY <1>1, <2>1, <2>2 DEF Belongs
<1>3. ASSUME NEW s \in Task PROVE Awaits(s)'
  <2>1. CASE task[s].at \in {"refresh", "again"} /\ task[s].page = m.page
    <3>1. task'[s].at \notin {"refresh", "again", "probe", "login", "logout"}
      BY <2>1 DEF Wakes
    <3> QED BY <3>1 DEF Awaits
  <2>2. CASE ~(task[s].at \in {"refresh", "again"} /\ task[s].page = m.page)
    <3>1. task'[s] = task[s] /\ Awaits(s)
      BY <2>2, LinkedIs DEF Wakes
    <3>2. \A q : q # m.page => InFlight(q) \subseteq InFlight(q)'
      BY <1>1 DEF InFlight
    <3> QED BY <1>1, <2>2, <3>1, <3>2 DEF Awaits
  <2> QED BY <2>1, <2>2
<1> QED BY <1>2, <1>3 DEF Linked, Belongs, Awaits, NoLostWakeup

(* The answer that m.by alone waited for. *)
LEMMA LinkedHeard ==
  ASSUME Typed, Linked, NEW m \in net, m.heard, m.kind # "refresh",
         \A s \in Task : s # m.by => task'[s] = task[s],
         \A x \in net : x # m => x \in net',
         \A y \in net' : (y \in net /\ y # m) \/ y.kind = "refresh",
         \/ task'[m.by].at \in {"idle", "refused"}
         \/ task'[m.by].at = "refresh" /\ InFlight(m.page)' # {} /\ task'[m.by].page = m.page
  PROVE  Linked'
<1>1. Belongs(m) /\ m.kind \in Kinds
  BY LinkedIs, MessageType
<1>2. m.by \in Task /\ \A s \in Task : s # m.by => task'[s] = task[s]
  BY <1>1 DEF Belongs
<1>3. ASSUME NEW y \in net' PROVE Belongs(y)'
  <2> SUFFICES ASSUME y.heard, y.kind # "refresh" PROVE Belongs(y)'
    BY DEF Belongs
  <2>1. Belongs(y) /\ y \in net /\ y # m
    BY LinkedIs
  <2>2. y.by # m.by
    BY <1>1, <2>1 DEF Belongs
  <2> QED BY <1>2, <2>1, <2>2 DEF Belongs
<1>4. ASSUME NEW s \in Task PROVE Awaits(s)'
  <2>1. CASE s = m.by
    BY <1>2, <2>1 DEF Awaits
  <2>2. CASE s # m.by
    <3>1. task'[s] = task[s] /\ Awaits(s)
      BY <1>2, <2>2, LinkedIs
    <3>2. \A q : InFlight(q) \subseteq InFlight(q)'
      BY DEF InFlight
    <3>3. \A x \in net : x.by = s => x \in net'
      BY <2>2
    <3> QED BY <3>1, <3>2, <3>3 DEF Awaits
  <2> QED BY <2>1, <2>2
<1> QED BY <1>3, <1>4 DEF Linked, Belongs, Awaits, NoLostWakeup

(* Requests and calls stay linked. *)
LEMMA LinkedStep ==
  ASSUME Typed, Linked, [Next]_vars
  PROVE  Linked'
<1>1. ASSUME NEW t \in Task, NEW p \in Page, NEW k, GoesOn(t, p, k) PROVE Linked'
  <2>1. /\ task[t].at \in {"idle", "refused", "call", "retry", "refreshed"}
        /\ task'[t] = k /\ \A s \in Task : s # t => task'[s] = task[s]
    BY <1>1 DEF GoesOn, Typed
  <2>2. CASE Starts(t, p, k) \/ Ends(t, p, k)
    <3>1. net' = net /\ k.at \in {"call", "idle", "refused"}
      BY <2>2 DEF Starts, Ends, Idle, Refused
    <3> QED BY <2>1, <3>1, LinkedUnsent
  <2>3. CASE Shares(t, p, k)
    <3>1. CASE InFlight(p) = {}
      BY <2>1, <2>3, <3>1, LinkedSent DEF Shares, Kinds
    <3>2. CASE InFlight(p) # {}
      BY <2>1, <2>3, <3>2, LinkedUnsent DEF Shares
    <3> QED BY <3>1, <3>2
  <2>4. CASE Probes(t, p, k)
    BY <2>1, <2>4, LinkedSent DEF Probes, Kinds
  <2>5. CASE SignsIn(t, p, k)
    BY <2>1, <2>5, LinkedSent DEF SignsIn, Kinds
  <2>6. CASE SignsOut(t, p, k)
    BY <2>1, <2>6, LinkedSent DEF SignsOut, Kinds
  <2> QED BY <1>1, <2>2, <2>3, <2>4, <2>5, <2>6 DEF GoesOn
<1>2. ASSUME UNCHANGED <<server, jar, memory, task, net, reused>> PROVE Linked'
  BY <1>2 DEF Linked, NoLostWakeup, InFlight
<1>3. ASSUME NEW m \in net, Answer(m) PROVE Linked'
  <2>1. ASSUME NEW answer, Replied(m, answer) PROVE Linked'
    <3>1. m \in Messages
      BY MessageType
    <3>2. /\ Reply(m, answer).heard = m.heard /\ Reply(m, answer).kind = m.kind
          /\ Reply(m, answer).by = m.by /\ Reply(m, answer).page = m.page
      BY <3>1 DEF Reply, Messages
    <3> QED BY <2>1, <3>2, LinkedSame DEF Replied
  <2> QED BY <1>3, <2>1, AnswerStep DEF Opens, Rotates, Detects, Closes, Confirms, Denies
<1>4. ASSUME NEW m \in net, Arrive(m) PROVE Linked'
  <2>1. m \in Messages
    BY MessageType
  <2>2. CASE m.heard
    <3>1. net' = (net \ {m}) \cup (IF m.heard THEN {Arrived(m)} ELSE {}) /\ task' = task
      BY <1>4, <2>2, ArriveStep
    <3> QED BY <2>1, <3>1, ArrivedIs, LinkedSame
  <2>3. CASE ~m.heard
    <3>1. net' = (net \ {m}) \cup {Arrived(m)} /\ task' = task /\ ~Arrived(m).heard
      BY <1>4, <2>1, <2>3, ArriveStep, ArrivedIs
    <3>2. {x \in net' : x.heard} = {x \in net : x.heard}
      BY <2>3, <3>1
    <3>3. \A y \in net' : y.heard => y \in net
      BY <3>1
    <3>4. \A x \in net : x.heard => x \in net'
      BY <2>3, <3>1
    <3>5. ASSUME NEW y \in net' PROVE Belongs(y)'
      BY <3>1, <3>3, <3>4, LinkedIs DEF Belongs
    <3>6. ASSUME NEW s \in Task PROVE Awaits(s)'
      <4>1. \A q : InFlight(q) = InFlight(q)'
        BY <3>3, <3>4 DEF InFlight
      <4>2. Awaits(s)
        BY LinkedIs
      <4> QED BY <3>1, <3>4, <4>1, <4>2 DEF Awaits
    <3> QED BY <3>5, <3>6 DEF Linked, Belongs, Awaits, NoLostWakeup
  <2> QED BY <2>2, <2>3
<1>5. ASSUME NEW m \in net, Forgets(m) PROVE Linked'
  <2>1. ~m.heard /\ net' = net \ {m} /\ task' = task
    BY <1>5 DEF Forgets
  <2>2. net' = (net \ {m}) \cup (IF m.heard THEN {m} ELSE {})
    BY <2>1
  <2> QED BY <2>1, <2>2, LinkedSame
<1>6. ASSUME NEW m \in net, NEW outcome \in {"granted", "denied", "failed"}, Settles(m, outcome)
      PROVE  Linked'
  <2>1. m.heard
    BY <1>6 DEF Settles
  <2>2. CASE Wakes(m, outcome)
    BY <2>1, <2>2, LinkedWakes
  <2>3. CASE Finishes(m, outcome)
    <3>1. /\ m.kind # "refresh" /\ net' = net \ {m}
          /\ task'[m.by].at = "idle" /\ \A s \in Task : s # m.by => task'[s] = task[s]
      BY <2>3 DEF Finishes, Idle, Typed
    <3> QED BY <2>1, <3>1, LinkedHeard
  <2>4. CASE Informs(m, outcome) /\ outcome # "granted"
    <3>1. /\ m.kind # "refresh" /\ net' = net \ {m}
          /\ task'[m.by].at = "refused" /\ \A s \in Task : s # m.by => task'[s] = task[s]
      BY <2>4 DEF Informs, Refused, Typed
    <3> QED BY <2>1, <3>1, LinkedHeard
  <2>5. CASE Informs(m, outcome) /\ outcome = "granted"
    <3>1. m.kind = "probe" /\ m.by \in Task /\ m.at # "sent"
      BY <1>6, <2>5 DEF Informs, Settles
    <3>2. /\ task'[m.by].at = "refresh" /\ task'[m.by].page = m.page
          /\ \A s \in Task : s # m.by => task'[s] = task[s]
      BY <2>5 DEF Informs, Typed
    <3>3. CASE InFlight(m.page) = {}
      <4>1. net' = (net \ {m}) \cup {Follow(m)}
        BY <2>5, <3>3 DEF Informs, Follow
      <4>2. Follow(m).kind = "refresh" /\ Follow(m) \in InFlight(m.page)'
        BY <3>1, <4>1, FollowIs DEF InFlight
      <4> QED BY <2>1, <3>1, <3>2, <4>1, <4>2, LinkedHeard
    <3>4. CASE InFlight(m.page) # {}
      <4>1. net' = net \ {m}
        BY <2>5, <3>4 DEF Informs
      <4>2. InFlight(m.page)' # {}
        BY <3>1, <3>4, <4>1 DEF InFlight
      <4> QED BY <2>1, <3>1, <3>2, <4>1, <4>2, LinkedHeard
    <3> QED BY <3>3, <3>4
  <2> QED BY <1>6, <2>2, <2>3, <2>4, <2>5 DEF Settles
<1> QED BY <1>1, <1>2, <1>3, <1>4, <1>5, <1>6, Cases, LinkedReload

(* Whoever waits for an answer has asked for it, or shares a refresh that    *)
(* its page has asked for, and hears of it in the end or is given up with    *)
(* the page (refreshPromise): for any pages, calls and losses.               *)
THEOREM WakeupsAreNotLost == Spec => []NoLostWakeup
<1>1. Typed /\ Linked /\ [Next]_vars => (Typed /\ Linked)'
  BY TypedStep, LinkedStep
<1>2. Init => Typed /\ Linked
  BY TypedInit, LinkedInit
<1>3. Linked => NoLostWakeup
  BY DEF Linked
<1> QED BY <1>1, <1>2, <1>3, PTL DEF Spec

-----------------------------------------------------------------------------
(* Credentials are issued before anyone holds them, and of the credentials   *)
(* of a session one is live.                                                 *)

IssuedBy(s, c) == c = Nothing \/ s[c].state # "none"
MessageIssued(s, m) ==
  IssuedBy(s, m.credential) /\ IssuedBy(s, m.token) /\ (m.at # "sent" => IssuedBy(s, m.answer.refresh))

(* What the server does to its credentials. *)
LEMMA ServerStep ==
  ASSUME Typed, Linked, [Next]_vars
  PROVE  \/ server' = server
         \/ \E m \in net : Answer(m) /\ m.at = "sent" /\ (Opens(m) \/ Rotates(m) \/ Detects(m) \/ Closes(m))
<1>1. CASE \E m \in net : Answer(m)
  BY <1>1, AnswerStep DEF Confirms, Denies
<1>2. CASE ~\E m \in net : Answer(m)
  <2>1. ASSUME NEW m \in net, Arrive(m) PROVE server' = server
    BY <2>1, ArriveStep
  <2> QED BY <1>2, <2>1, Cases, ReloadStep DEF GoesOn, Forgets, Settles
<1> QED BY <1>1, <1>2

(* Ending sessions issues none and ends others only. *)
LEMMA EndedIs ==
  ASSUME Typed, NEW set, NEW c \in Credential, server' = Ended(set),
         \A d \in set : d \in Credential => Live(d)
  PROVE  /\ server'[c].family = server[c].family
         /\ c \in set => server'[c].state = "ended"
         /\ c \notin set => server'[c] = server[c]
         /\ server'[c].state = "none" <=> server[c].state = "none"
         /\ server'[c].state = "rotated" <=> server[c].state = "rotated"
         /\ server'[c].state = "live" <=> server[c].state = "live" /\ c \notin set
<1>1. server[c] \in Row
  BY DEF Typed
<1>2. c \in set => server'[c] = [server[c] EXCEPT !.state = "ended"]
  BY DEF Ended
<1>3. c \notin set => server'[c] = server[c]
  BY DEF Ended
<1>4. c \in set => server[c].state = "live"
  BY DEF Live
<1> QED BY <1>1, <1>2, <1>3, <1>4 DEF Row

(* What a detection or a sign-out ends. *)
LEMMA EndsSome ==
  ASSUME Typed, NEW m \in net, Detects(m) \/ Closes(m)
  PROVE  \/ server' = server
         \/ \E set : server' = Ended(set) /\ \A d \in set : d \in Credential => Live(d)
<1>1. CASE Detects(m)
  BY <1>1 DEF Detects, Family
<1>2. CASE Closes(m)
  BY <1>2 DEF Closes
<1> QED BY <1>1, <1>2

(* What was issued stays issued. *)
LEMMA IssuedKept ==
  ASSUME Typed, Linked, [Next]_vars, NEW c \in Credential \cup {Nothing}, Issued(c)
  PROVE  Issued(c)'
<1>1. CASE server' = server \/ c = Nothing
  BY <1>1 DEF Issued
<1>2. CASE server' # server /\ c # Nothing
  <2>1. PICK m \in net : Opens(m) \/ Rotates(m) \/ Detects(m) \/ Closes(m)
    BY <1>2, ServerStep
  <2>2. c \in Credential /\ server[c] \in Row /\ server[c].state # "none"
    BY <1>2 DEF Typed, Issued
  <2>3. CASE Opens(m)
    BY <2>2, <2>3 DEF Opens, Typed, Issued
  <2>4. CASE Rotates(m)
    BY <2>2, <2>4 DEF Rotates, Typed, Issued, Row
  <2>5. CASE Detects(m) \/ Closes(m)
    BY <1>2, <2>2, <2>5, EndsSome, EndedIs DEF Issued
  <2> QED BY <2>1, <2>3, <2>4, <2>5
<1> QED BY <1>1, <1>2

(* The name of a family is a credential that was issued. *)
LEMMA FamiliesIssued ==
  ASSUME Typed, Linked, AllIssued, [Next]_vars, NEW c \in Credential, server'[c].state # "none"
  PROVE  server'[c].family # Nothing /\ server'[server'[c].family].state # "none"
<1>0. \A d \in Credential : server[d] \in Row /\ server[d].family \in Credential \cup {Nothing}
  BY DEF Typed, Row
<1>1. ASSUME server[c].state # "none", server'[c].family = server[c].family
      PROVE  server'[c].family # Nothing /\ server'[server'[c].family].state # "none"
  <2>1. server[c].family # Nothing /\ Issued(server[c].family)
    BY <1>1 DEF AllIssued
  <2> QED BY <1>0, <1>1, <2>1, IssuedKept DEF Issued
<1>2. CASE server' = server
  BY <1>1, <1>2
<1>3. CASE server' # server
  <2>1. PICK m \in net : Opens(m) \/ Rotates(m) \/ Detects(m) \/ Closes(m)
    BY <1>3, ServerStep
  <2>2. CASE Opens(m)
    <3>1. PICK d \in Credential :
            /\ server[d].state = "none"
            /\ server' = [server EXCEPT ![d] = [state |-> "live", family |-> d]]
      BY <2>2 DEF Opens
    <3>2. CASE c = d
      BY <3>1, <3>2, ClientAssumption DEF Typed, Issued
    <3>3. CASE c # d
      BY <1>1, <3>1, <3>3 DEF Typed
    <3> QED BY <3>2, <3>3
  <2>3. CASE Rotates(m)
    <3>1. PICK n \in Credential :
            /\ server[n].state = "none"
            /\ server' = [server EXCEPT ![m.credential].state = "rotated",
                                        ![n] = server[m.credential]]
      BY <2>3 DEF Rotates
    <3>2. m.credential \in Credential /\ server[m.credential].state = "live"
      BY <2>3, MessageType DEF Rotates, Live
    <3>3. server[m.credential].family # Nothing /\ Issued(server[m.credential].family)
      BY <3>2 DEF AllIssued
    <3>4. CASE c = n
      <4>1. server'[c].family = server[m.credential].family
        BY <3>1, <3>2, <3>4 DEF Typed
      <4> QED BY <1>0, <3>2, <3>3, <4>1, IssuedKept DEF Issued
    <3>5. CASE c # n
      <4>1. server[c].state # "none" /\ server'[c].family = server[c].family
        BY <3>1, <3>2, <3>5 DEF Typed, Row
      <4> QED BY <1>1, <4>1
    <3> QED BY <3>4, <3>5
  <2>4. CASE Detects(m) \/ Closes(m)
    BY <1>1, <1>3, <2>4, EndsSome, EndedIs
  <2> QED BY <2>1, <2>2, <2>3, <2>4
<1> QED BY <1>2, <1>3

(* Of a family one credential stays live. *)
LEMMA OneLiveStep ==
  ASSUME Typed, Linked, AllIssued, OneLive, [Next]_vars
  PROVE  OneLive'
<1> SUFFICES ASSUME NEW c \in Credential, NEW d \in Credential, c # d,
                    server'[c].state = "live", server'[d].state = "live",
                    server'[c].family = server'[d].family
             PROVE  FALSE
  BY DEF OneLive, Live
<1>1. ASSUME server[c].state = "live", server[d].state = "live", server[c].family = server[d].family
      PROVE  FALSE
  BY <1>1, ClientAssumption DEF OneLive, Live
<1>2. CASE server' = server
  BY <1>1, <1>2
<1>3. CASE server' # server
  <2>1. PICK m \in net : Opens(m) \/ Rotates(m) \/ Detects(m) \/ Closes(m)
    BY <1>3, ServerStep
  <2>2. CASE Opens(m)
    <3>1. PICK n \in Credential :
            /\ server[n].state = "none"
            /\ server' = [server EXCEPT ![n] = [state |-> "live", family |-> n]]
      BY <2>2 DEF Opens
    <3>2. ASSUME NEW x \in Credential, server[x].state = "live"
          PROVE  server[x].family # n
      BY <3>1, <3>2, ClientAssumption DEF AllIssued, Issued
    <3> QED BY <1>1, <3>1, <3>2 DEF Typed
  <2>3. CASE Rotates(m)
    <3>1. PICK n \in Credential :
            /\ server[n].state = "none"
            /\ server' = [server EXCEPT ![m.credential].state = "rotated",
                                        ![n] = server[m.credential]]
      BY <2>3 DEF Rotates
    <3>2. m.credential \in Credential /\ server[m.credential].state = "live"
      BY <2>3, MessageType DEF Rotates, Live
    <3>3. server'[m.credential].state = "rotated" /\ server'[n] = server[m.credential]
      BY <3>1, <3>2 DEF Typed, Row
    <3>4. \A x \in Credential : x \notin {n, m.credential} => server'[x] = server[x]
      BY <3>1 DEF Typed
    <3>5. ASSUME NEW x \in Credential, server[x].state = "live",
                 server[x].family = server[m.credential].family
          PROVE  x = m.credential
      BY <3>2, <3>5, ClientAssumption DEF OneLive, Live
    <3> QED BY <1>1, <3>3, <3>4, <3>5
  <2>4. CASE Detects(m) \/ Closes(m)
    BY <1>1, <1>3, <2>4, EndsSome, EndedIs
  <2> QED BY <2>1, <2>2, <2>3, <2>4
<1> QED BY <1>2, <1>3

(* Requests and answers carry credentials that were issued. *)
LEMMA MessagesIssued ==
  ASSUME Typed, Linked, AllIssued, [Next]_vars
  PROVE  \A m \in net' : MessageIssued(server', m)
<1> DEFINE Good(m) == MessageIssued(server', m)
<1>0. \A c \in Credential \cup {Nothing} : Issued(c) => IssuedBy(server', c)
  BY IssuedKept DEF Issued, IssuedBy
<1>1. ASSUME NEW m \in net PROVE Good(m)
  <2>1. MessageIssued(server, m) /\ m.credential \in Credential \cup {Nothing}
        /\ m.token \in Credential \cup {Nothing}
        /\ (m.at # "sent" => m.answer.refresh \in Credential \cup {Nothing})
    BY MessageType DEF AllIssued, MessageIssued, Issued, IssuedBy
  <2> QED BY <1>0, <2>1 DEF MessageIssued, Issued, IssuedBy
<1>20. jar.refresh \in Credential \cup {Nothing} /\ Issued(jar.refresh)
  BY DEF Typed, Cookies, AllIssued
<1>21. IssuedBy(server', Nothing)
  BY DEF IssuedBy
<1>2. ASSUME NEW kind \in Kinds, NEW t \in Task, NEW p \in Page
      PROVE  Good(Request(kind, t, p))
  <2>1. memory[p].access \in Credential \cup {Nothing} /\ Issued(memory[p].access)
    BY DEF Typed, Memory, AllIssued
  <2>3. \A c \in {jar.refresh, memory[p].access, Nothing} : IssuedBy(server', c)
    BY <1>0, <1>20, <1>21, <2>1
  <2>4. /\ Request(kind, t, p).credential \in {jar.refresh, memory[p].access, Nothing}
        /\ Request(kind, t, p).token \in {jar.refresh, memory[p].access, Nothing}
        /\ Request(kind, t, p).at = "sent"
    BY Requested
  <2> HIDE DEF Good
  <2> QED BY <2>3, <2>4 DEF Good, MessageIssued
<1>3. ASSUME NEW m \in net, NEW answer \in Answers, IssuedBy(server', answer.refresh) PROVE Good(Reply(m, answer))
  <2>1. m \in Messages
    BY MessageType
  <2> QED BY <1>1, <1>3, <2>1, ReplyIs DEF MessageIssued
<1>4. ASSUME NEW m \in net, m.at # "sent" PROVE Good(Arrived(m))
  <2>1. m \in Messages
    BY MessageType
  <2> QED BY <1>1, <1>4, <2>1, ArrivedIs DEF MessageIssued
<1>5. ASSUME NEW m \in net, m.by \in Task, m.at # "sent" PROVE Good(Follow(m))
  <2>1. /\ Follow(m).credential = jar.refresh /\ Follow(m).token = Nothing
        /\ Follow(m).at = "sent"
    BY <1>5, FollowIs
  <2> QED BY <1>0, <1>20, <1>21, <2>1 DEF MessageIssued
<1>6. ASSUME NEW m \in net PROVE m.at = "sent" => Good(Silenced(m))
  <2>1. m \in Messages
    BY MessageType
  <2> QED BY <1>1, <2>1, SilencedIs DEF MessageIssued
<1> HIDE DEF Good
<1>7. ASSUME NEW t \in Task, NEW p \in Page, NEW k, GoesOn(t, p, k)
      PROVE  \A m \in net' : Good(m)
  BY <1>1, <1>2, <1>7 DEF GoesOn, Starts, Shares, Probes, SignsIn, SignsOut, Ends, Kinds
<1>8. ASSUME NEW p \in Page, Reload(p)
      PROVE  \A m \in net' : Good(m)
  BY <1>1, <1>6, <1>8, ReloadStep
<1>9. ASSUME NEW m \in net, Answer(m)
      PROVE  \A x \in net' : Good(x)
  <2>1. ASSUME NEW answer \in Answers, Replied(m, answer), IssuedBy(server', answer.refresh)
        PROVE  \A x \in net' : Good(x)
    BY <1>1, <1>3, <2>1 DEF Replied
  <2>2. CASE Opens(m) \/ Rotates(m)
    <3>1. PICK c \in Credential, v \in Csrf : Replied(m, Granted(c, v)) /\ server'[c].state # "none"
      <4>1. CASE Opens(m)
        BY <4>1 DEF Opens, Typed
      <4>2. CASE Rotates(m)
        <5>1. PICK n \in Credential, v \in Csrf :
                /\ server[n].state = "none" /\ Replied(m, Granted(n, v))
                /\ server' = [server EXCEPT ![m.credential].state = "rotated",
                                            ![n] = server[m.credential]]
          BY <4>2 DEF Rotates
        <5>2. server[m.credential].state = "live" /\ m.credential \in Credential
          BY <4>2, MessageType DEF Rotates, Live
        <5>3. server'[n] = server[m.credential]
          BY <5>1, <5>2 DEF Typed
        <5> QED BY <5>1, <5>2, <5>3
      <4> QED BY <2>2, <4>1, <4>2
    <3>2. Granted(c, v) \in Answers /\ IssuedBy(server', Granted(c, v).refresh)
      BY <3>1, AnswersType DEF IssuedBy
    <3> QED BY <2>1, <3>1, <3>2
  <2>3. CASE Confirms(m)
    <3>1. PICK v \in Csrf : Replied(m, Granted(m.credential, v))
      BY <2>3 DEF Confirms
    <3>2. m.credential \in Credential /\ IssuedBy(server', m.credential)
      BY <1>1, <2>3, MessageType DEF Confirms, Live, Good, MessageIssued
    <3>3. Granted(m.credential, v) \in Answers /\ IssuedBy(server', Granted(m.credential, v).refresh)
      BY <3>2, AnswersType
    <3> QED BY <2>1, <3>1, <3>3
  <2>4. CASE Detects(m) \/ Closes(m) \/ Denies(m)
    BY <1>21, <2>1, <2>4, AnswersType DEF Detects, Closes, Denies
  <2> QED BY <1>9, <2>2, <2>3, <2>4, AnswerStep
<1>10. ASSUME NEW m \in net, Arrive(m) \/ Forgets(m)
      PROVE  \A x \in net' : Good(x)
  BY <1>1, <1>4, <1>10, ArriveStep DEF Forgets
<1>11. ASSUME NEW m \in net, NEW outcome, Settles(m, outcome)
      PROVE  \A x \in net' : Good(x)
  BY <1>1, <1>5, <1>11 DEF Settles, Wakes, Informs, Finishes, Follow
<1>12. \A m \in net' : Good(m)
  BY <1>1, <1>7, <1>8, <1>9, <1>10, <1>11, Cases
<1> QED BY <1>12 DEF Good

(* In the beginning nothing is issued. *)
LEMMA AllIssuedInit == Init => AllIssued /\ OneLive
<1> SUFFICES ASSUME Init PROVE AllIssued /\ OneLive
  OBVIOUS
<1>1. \A c \in Credential : server[c].state = "none"
  BY DEF Init
<1>2. AllIssued
  BY <1>1 DEF Init, AllIssued, Issued, NoCookies, NoMemory
<1> QED BY <1>1, <1>2 DEF OneLive, Live

(* What a page or the jar holds, it held before or took from an answer. *)
LEMMA HoldersIssued ==
  ASSUME Typed, Linked, AllIssued, [Next]_vars
  PROVE  Issued(jar.refresh)' /\ \A p \in Page : Issued(memory[p].access)'
<1>1. \A c \in Credential \cup {Nothing} : Issued(c) => IssuedBy(server', c)
  BY IssuedKept DEF Issued, IssuedBy
<1>2. \A m \in net : m.at # "sent" => IssuedBy(server', m.answer.refresh)
  BY <1>1, MessageType DEF AllIssued
<1>3. IssuedBy(server', jar.refresh)
  BY <1>1 DEF AllIssued, Typed, Cookies
<1>4. \A p \in Page : IssuedBy(server', memory[p].access) /\ IssuedBy(server', Nothing)
  BY <1>1 DEF AllIssued, Typed, Memory, IssuedBy
<1>5. NoCookies.refresh = Nothing /\ NoMemory.access = Nothing
  BY DEF NoCookies, NoMemory
<1> DEFINE Goal == IssuedBy(server', jar'.refresh) /\ \A p \in Page : IssuedBy(server', memory'[p].access)
<1> HIDE DEF Goal
<1>6. ASSUME jar' = jar, memory' = memory PROVE Goal
  BY <1>3, <1>4, <1>6 DEF Goal
<1>7. ASSUME jar' = jar, NEW p \in Page, memory' = [memory EXCEPT ![p] = NoMemory] PROVE Goal
  BY <1>3, <1>4, <1>5, <1>7 DEF Goal, Typed
<1>8. ASSUME NEW t \in Task, NEW p \in Page, NEW k, GoesOn(t, p, k) PROVE Goal
  BY <1>6, <1>7, <1>8 DEF GoesOn, Starts, Shares, Probes, SignsIn, SignsOut, Ends
<1>9. ASSUME NEW m \in net, Arrive(m) PROVE Goal
  <2>1. m.at = "answered" /\ memory' = memory /\ m.kind \in Kinds /\ m.answer.ok \in BOOLEAN
    BY <1>9, ArriveStep, MessageType
  <2>2. jar'.refresh \in {jar.refresh, m.answer.refresh, Nothing}
    BY <1>5, <1>9, <2>1, ArriveStep DEF Kinds, Typed, Cookies
  <2>3. IssuedBy(server', jar'.refresh)
    BY <1>2, <1>3, <2>1, <2>2 DEF IssuedBy
  <2> QED BY <1>4, <2>1, <2>3 DEF Goal
<1>10. ASSUME NEW m \in net, NEW outcome, Settles(m, outcome) PROVE Goal
  <2>1. jar' = jar /\ m.page \in Page
    BY <1>10, MessageType DEF Settles
  <2>2. \A p \in Page : memory'[p].access \in {memory[p].access, m.answer.refresh, Nothing}
                        /\ (memory'[p].access = m.answer.refresh => IssuedBy(server', memory'[p].access))
    <3>1. CASE memory' = memory
      BY <1>4, <3>1
    <3>2. CASE memory' = [memory EXCEPT ![m.page] = NoMemory]
      BY <1>4, <1>5, <3>2 DEF Typed
    <3>3. CASE memory' = [memory EXCEPT ![m.page] = [access |-> m.answer.refresh, csrf |-> m.answer.csrf]]
               /\ m.at # "sent"
      BY <1>2, <1>4, <3>3 DEF Typed
    <3>4. CASE memory' = [memory EXCEPT ![m.page].csrf = m.answer.csrf]
      BY <1>4, <3>4 DEF Typed, Memory
    <3> QED BY <1>10, <3>1, <3>2, <3>3, <3>4 DEF Settles, Wakes, Informs, Finishes
  <2> QED BY <1>3, <1>4, <2>1, <2>2 DEF Goal
<1>11. ASSUME NEW m \in net, Answer(m) PROVE Goal
  BY <1>6, <1>11, AnswerStep DEF Opens, Rotates, Detects, Closes, Confirms, Denies, Replied
<1>12. Goal
  BY <1>6, <1>7, <1>8, <1>9, <1>10, <1>11, Cases, ReloadStep DEF Forgets
<1> QED BY <1>12 DEF Goal, Issued, IssuedBy

(* Whoever holds a credential, it was issued. *)
LEMMA AllIssuedStep ==
  ASSUME Typed, Linked, AllIssued, [Next]_vars
  PROVE  AllIssued'
<1>1. \A c \in Credential : server'[c].state # "none" =>
        server'[c].family # Nothing /\ server'[server'[c].family].state # "none"
  BY FamiliesIssued
<1>2. \A m \in net' : MessageIssued(server', m)
  BY MessagesIssued
<1> QED BY <1>1, <1>2, HoldersIssued DEF AllIssued, Issued, MessageIssued, IssuedBy

(* The invariant of any number of pages, over every behaviour. *)
LEMMA ClientInvariant == Spec => []ClientInv
<1>1. Init => ClientInv
  BY TypedInit, LinkedInit, AllIssuedInit DEF ClientInv
<1>2. ClientInv /\ [Next]_vars => ClientInv'
  BY TypedStep, LinkedStep, AllIssuedStep, OneLiveStep DEF ClientInv
<1> QED BY <1>1, <1>2, PTL DEF Spec

-----------------------------------------------------------------------------
(* One page, and every answer to a refresh arrives: no credential is shown   *)
(* to the server again after it was replaced.                                *)

(* A request that comes to be, or changes, without disturbing the others. *)
Harmless(y) ==
  /\ y.kind = "refresh" => y.heard /\ \A x \in net' : x.kind = "refresh" => x = y
  /\ y.kind = "refresh" /\ y.at = "sent" => ~Spent(y.credential)
  /\ ~Replaces(y)
  /\ y.credential \in {jar.refresh, Nothing} \/ \E x \in net : y.credential = x.credential

(* Steps that touch no credential that replaces another. *)
LEMMA ReuseHarmless ==
  ASSUME ReuseInv, jar'.refresh = jar.refresh, reused' = reused,
         \A c : Spent(c)' => Spent(c),
         \A y \in net' : y \in net \/ Harmless(y),
         \A x \in net : x \notin net' => ~(x.kind = "refresh" /\ Replaces(x))
  PROVE  ReuseInv'
<1>1. \A y \in net' : Replaces(y) => y \in net
  BY DEF Harmless
<1>2. \A m, x \in net' : m.kind = "refresh" /\ x.kind = "refresh" => m = x
  BY DEF ReuseInv, Harmless
<1>3. \A m \in net' : m.kind = "refresh" => m.heard
  BY DEF ReuseInv, Harmless
<1>4. \A m \in net' : m.kind = "refresh" /\ m.at = "sent" => ~Spent(m.credential)'
  BY DEF ReuseInv, Harmless
<1>5. Spent(jar.refresh)' => \E m \in net' : m.kind = "refresh" /\ Replaces(m)
  <2> SUFFICES ASSUME Spent(jar.refresh)' PROVE \E m \in net' : m.kind = "refresh" /\ Replaces(m)
    OBVIOUS
  <2>1. Spent(jar.refresh)
    BY DEF Spent
  <2>2. PICK m \in net : m.kind = "refresh" /\ Replaces(m)
    BY <2>1 DEF ReuseInv
  <2>3. m \in net'
    BY <2>2
  <2> QED BY <2>2, <2>3
<1>6. ASSUME NEW m \in net', Replaces(m)
      PROVE  /\ m.answer.refresh # Nothing /\ ~Spent(m.answer.refresh)'
             /\ jar'.refresh # m.answer.refresh
             /\ \A x \in net' : x.credential # m.answer.refresh
             /\ \A x \in net' : Replaces(x) /\ x.answer.refresh = m.answer.refresh => x = m
  <2>1. m \in net
    BY <1>1, <1>6
  <2>2. /\ m.answer.refresh # Nothing /\ ~Spent(m.answer.refresh) /\ jar.refresh # m.answer.refresh
        /\ \A x \in net : x.credential # m.answer.refresh
        /\ \A x \in net : Replaces(x) /\ x.answer.refresh = m.answer.refresh => x = m
    BY <1>6, <2>1 DEF ReuseInv
  <2>3. ASSUME NEW x \in net' PROVE x.credential # m.answer.refresh
    BY <2>2, <2>3 DEF Harmless
  <2> QED BY <1>1, <2>2, <2>3
<1>7. ~reused'
  BY DEF ReuseInv
<1> QED BY <1>2, <1>3, <1>4, <1>5, <1>6, <1>7 DEF ReuseInv, Replaces

(* Someone sends a request. *)
LEMMA ReuseSent ==
  ASSUME Typed, ReuseInv, \A p, q \in Page : p = q,
         NEW p \in Page, NEW r, r.at = "sent", r.credential \in {jar.refresh, Nothing},
         r.kind = "refresh" => r.heard /\ InFlight(p) = {}, NEW rest,
         net' = rest \cup {r}, rest \subseteq net,
         \A x \in net : x \notin rest => x.kind # "refresh",
         server' = server, jar' = jar, reused' = reused
  PROVE  ReuseInv'
<1>1. r.kind = "refresh" => \A x \in net : x.kind # "refresh"
  <2> SUFFICES ASSUME NEW x \in net, r.kind = "refresh", x.kind = "refresh" PROVE FALSE
    OBVIOUS
  <2>1. x.heard /\ x.page = p
    BY MessageType DEF ReuseInv
  <2> QED BY <2>1 DEF InFlight
<1>2. r.kind = "refresh" => ~Spent(r.credential)
  BY <1>1, ClientAssumption DEF ReuseInv, Spent
<1>3. Harmless(r)
  BY <1>1, <1>2 DEF Harmless, Replaces
<1>4. \A c : Spent(c)' => Spent(c)
  BY DEF Spent
<1> QED BY <1>3, <1>4, ReuseHarmless

(* Some requests are gone, none of them with a credential. *)
LEMMA ReuseGone ==
  ASSUME ReuseInv, net' \subseteq net, server' = server, jar' = jar, reused' = reused,
         \A x \in net : x \notin net' => ~(x.kind = "refresh" /\ Replaces(x))
  PROVE  ReuseInv'
<1>1. \A c : Spent(c)' => Spent(c)
  BY DEF Spent
<1> QED BY <1>1, ReuseHarmless

(* An answer sets the cookie to the credential that replaced another one. *)
LEMMA ReuseArrives ==
  ASSUME Typed, ReuseInv, NEW m \in net, Arrive(m)
  PROVE  ReuseInv'
<1>1. /\ m.at = "answered" /\ net' = (net \ {m}) \cup {Arrived(m)}
      /\ UNCHANGED <<server, reused>> /\ m \in Messages /\ m.kind \in Kinds
      /\ m.answer.ok \in BOOLEAN
  BY ArriveStep, MessageType
<1>2. /\ Arrived(m).at = "arrived" /\ Arrived(m).kind = m.kind /\ Arrived(m).heard = m.heard
      /\ Arrived(m).credential = m.credential /\ ~Replaces(Arrived(m))
  BY <1>1, ArrivedIs DEF Replaces
<1>3. \A c : Spent(c)' = Spent(c)
  BY <1>1 DEF Spent
<1>4. Harmless(Arrived(m))
  BY <1>1, <1>2 DEF Harmless, ReuseInv
<1>5. CASE ~Replaces(m) /\ jar'.refresh = jar.refresh
  BY <1>1, <1>3, <1>4, <1>5, ReuseHarmless
<1>6. CASE ~Replaces(m) /\ jar'.refresh # jar.refresh
  <2>1. jar'.refresh = Nothing
    BY <1>1, <1>6, ArriveStep DEF Replaces, Kinds, NoCookies, Typed, Cookies
  <2>2. \A y \in net' : Replaces(y) => y \in net
    BY <1>1, <1>2
  <2>3. ~Spent(jar.refresh)'
    BY <2>1, ClientAssumption DEF Spent
  <2> QED BY <1>1, <1>2, <1>3, <2>1, <2>2, <2>3 DEF ReuseInv, Replaces
<1>7. CASE Replaces(m)
  <2>1. jar'.refresh = m.answer.refresh
    BY <1>1, <1>7, ArriveStep DEF Replaces
  <2>2. \A y \in net' : Replaces(y) => y \in net /\ y # m
    BY <1>1, <1>2, <1>7
  <2>3. ~Spent(jar.refresh)'
    BY <1>3, <1>7, <2>1 DEF ReuseInv, Spent
  <2> QED BY <1>1, <1>2, <1>3, <1>7, <2>1, <2>2, <2>3 DEF ReuseInv, Replaces
<1> QED BY <1>5, <1>6, <1>7

(* The server issues a new credential. *)
LEMMA ReuseIssues ==
  ASSUME Typed, Linked, AllIssued, ReuseInv, NEW m \in net, m.at = "sent",
         m.kind \in {"login", "refresh"},
         NEW n \in Credential, NEW v \in Csrf, server[n].state = "none",
         ~Spent(n)', m.kind = "login" => \A c : Spent(c)' => Spent(c),
         m.kind = "refresh" => \A c : Spent(c)' => Spent(c) \/ c = m.credential,
         Replied(m, Granted(n, v)), reused' = reused
  PROVE  ReuseInv'
<1> DEFINE r == Reply(m, Granted(n, v))
<1>1. /\ m \in Messages /\ n # Nothing
      /\ Granted(n, v) \in Answers /\ Granted(n, v).ok /\ Granted(n, v).refresh = n
  BY MessageType, AnswersType, ClientAssumption
<1>2. /\ r.kind = m.kind /\ r.heard = m.heard /\ r.at = "answered"
      /\ r.credential = m.credential /\ r.answer.refresh = n /\ Replaces(r)
  BY <1>1, ReplyIs DEF Replaces
<1> HIDE DEF r
<1>3. net' = (net \ {m}) \cup (IF m.heard THEN {r} ELSE {}) /\ jar' = jar
  BY DEF Replied, r
<1>4. jar.refresh # n /\ \A x \in net : x.credential # n
                      /\ (Replaces(x) => x.answer.refresh # n)
  BY <1>1 DEF AllIssued, Issued, Replaces
<1>5. \A y \in net' : (y \in net /\ y # m) \/ (y = r /\ m.heard)
  BY <1>3
<1>6. \A x, y \in net' : x.kind = "refresh" /\ y.kind = "refresh" => x = y
  BY <1>2, <1>5 DEF ReuseInv
<1>7. \A x \in net' : x.kind = "refresh" => x.heard
  BY <1>2, <1>5 DEF ReuseInv
<1>8. \A x \in net' : x.kind = "refresh" /\ x.at = "sent" => ~Spent(x.credential)'
  BY <1>2, <1>5 DEF ReuseInv
<1>9. Spent(jar.refresh)' => \E x \in net' : x.kind = "refresh" /\ Replaces(x)
  <2>1. CASE m.kind = "refresh"
    <3>1. r \in net' /\ r.kind = "refresh" /\ Replaces(r)
      BY <1>2, <1>3, <2>1 DEF ReuseInv
    <3> QED BY <3>1
  <2>2. CASE m.kind = "login"
    <3> SUFFICES ASSUME Spent(jar.refresh)'
                 PROVE  \E x \in net' : x.kind = "refresh" /\ Replaces(x)
      OBVIOUS
    <3>1. Spent(jar.refresh)
      BY <1>3, <2>2 DEF Spent
    <3>2. PICK x \in net : x.kind = "refresh" /\ Replaces(x)
      BY <3>1 DEF ReuseInv
    <3>3. x \in net'
      BY <1>3, <2>2, <3>2
    <3> QED BY <3>2, <3>3
  <2> QED BY <2>1, <2>2
<1>10. ASSUME NEW x \in net', Replaces(x)
       PROVE  /\ x.answer.refresh # Nothing /\ ~Spent(x.answer.refresh)'
              /\ jar'.refresh # x.answer.refresh
              /\ \A y \in net' : y.credential # x.answer.refresh
              /\ \A y \in net' : Replaces(y) /\ y.answer.refresh = x.answer.refresh => y = x
  <2>1. CASE x = r
    BY <1>1, <1>2, <1>3, <1>4, <1>5, <2>1
  <2>2. CASE x # r
    <3>1. x \in net /\ x # m
      BY <1>5, <2>2
    <3>2. /\ x.answer.refresh # Nothing /\ ~Spent(x.answer.refresh)
          /\ jar.refresh # x.answer.refresh
          /\ \A y \in net : y.credential # x.answer.refresh
          /\ \A y \in net : Replaces(y) /\ y.answer.refresh = x.answer.refresh => y = x
      BY <1>10, <3>1 DEF ReuseInv
    <3>3. ~Spent(x.answer.refresh)'
      BY <3>2
    <3> QED BY <1>2, <1>3, <1>4, <1>5, <1>10, <3>1, <3>2, <3>3
  <2> QED BY <2>1, <2>2
<1> QED BY <1>6, <1>7, <1>8, <1>9, <1>10 DEF ReuseInv, Replaces

(* The server answers without issuing a credential. *)
LEMMA ReuseAnswers ==
  ASSUME Typed, ReuseInv, NEW m \in net, m.at = "sent", NEW answer \in Answers,
         Replied(m, answer), answer.ok => m.kind \notin {"login", "refresh"},
         \A c : Spent(c)' => Spent(c), reused' = reused
  PROVE  ReuseInv'
<1> DEFINE r == Reply(m, answer)
<1>1. /\ r.kind = m.kind /\ r.heard = m.heard /\ r.at = "answered"
      /\ r.credential = m.credential /\ ~Replaces(r)
  BY MessageType, ReplyIs DEF Replaces
<1> HIDE DEF r
<1>2. net' = (net \ {m}) \cup (IF m.heard THEN {r} ELSE {}) /\ jar' = jar
  BY DEF Replied, r
<1>3. m.heard => Harmless(r)
  BY <1>1, <1>2 DEF Harmless, ReuseInv
<1>4. ~Replaces(m)
  BY DEF Replaces
<1> QED BY <1>2, <1>3, <1>4, ReuseHarmless

(* The server sees no credential again. *)
LEMMA ReuseStep ==
  ASSUME Typed, Linked, AllIssued, ReuseInv, [Next]_vars,
         \A p, q \in Page : p = q, ~MayLoseCredential
  PROVE  ReuseInv'
<1>1. ASSUME NEW t \in Task, NEW p \in Page, NEW k, GoesOn(t, p, k) PROVE ReuseInv'
  <2>1. server' = server /\ jar' = jar /\ reused' = reused
    BY <1>1 DEF GoesOn
  <2>2. ASSUME NEW kind \in Kinds, net' = net \cup {Request(kind, t, p)},
               kind = "refresh" => InFlight(p) = {}
        PROVE  ReuseInv'
    <3>1. PICK r : r = Request(kind, t, p)
      OBVIOUS
    <3>2. /\ r.at = "sent" /\ r.credential \in {jar.refresh, Nothing} /\ r.heard /\ r.kind = kind
      BY <3>1, Requested
    <3> QED BY <2>1, <2>2, <3>1, <3>2, ReuseSent
  <2>3. CASE net' = net
    BY <2>1, <2>3, ReuseGone
  <2> QED BY <1>1, <2>2, <2>3 DEF GoesOn, Starts, Shares, Probes, SignsIn, SignsOut, Ends, Kinds
<1>2. ASSUME NEW p \in Page, Reload(p) PROVE ReuseInv'
  <2>1. \A x \in net : x.kind # "refresh" /\ x.page = p
    BY <1>2, ReloadStep, MessageType
  <2>2. \A y \in net' : y.kind # "refresh" /\ ~Replaces(y)
    BY <1>2, <2>1, ReloadStep, SilencedIs, MessageType DEF Replaces
  <2>3. ~Spent(jar.refresh) /\ ~reused
    BY <2>1 DEF ReuseInv
  <2>4. ~Spent(jar.refresh)' /\ ~reused'
    BY <1>2, <2>3, ReloadStep DEF Spent
  <2> QED BY <2>2, <2>4 DEF ReuseInv, Replaces
<1>3. CASE UNCHANGED <<server, jar, memory, task, net, reused>>
  BY <1>3, ReuseGone
<1>4. ASSUME NEW m \in net, Answer(m) PROVE ReuseInv'
  <2>1. m.at = "sent"
    BY <1>4, AnswerStep
  <2>2. CASE Opens(m)
    <3>1. PICK n \in Credential, v \in Csrf :
            /\ server[n].state = "none"
            /\ server' = [server EXCEPT ![n] = [state |-> "live", family |-> n]]
            /\ Replied(m, Granted(n, v)) /\ reused' = reused
      BY <2>2 DEF Opens
    <3>2. server'[n].state = "live" /\ \A c \in Credential : c # n => server'[c] = server[c]
      BY <3>1 DEF Typed
    <3>3. ~Spent(n)' /\ \A c : Spent(c)' => Spent(c)
      BY <3>2 DEF Spent
    <3>4. m.kind = "login"
      BY <2>2 DEF Opens
    <3> QED BY <2>1, <3>1, <3>3, <3>4, ReuseIssues
  <2>3. CASE Rotates(m)
    <3>1. PICK n \in Credential, v \in Csrf :
            /\ server[n].state = "none"
            /\ server' = [server EXCEPT ![m.credential].state = "rotated",
                                        ![n] = server[m.credential]]
            /\ Replied(m, Granted(n, v)) /\ reused' = reused
      BY <2>3 DEF Rotates
    <3>2. m.kind = "refresh" /\ m.credential \in Credential /\ server[m.credential].state = "live"
      BY <2>3, MessageType DEF Rotates, Live
    <3>3. server'[n].state = "live"
          /\ \A c \in Credential : c \notin {n, m.credential} => server'[c] = server[c]
      BY <3>1, <3>2 DEF Typed
    <3>4. ~Spent(n)' /\ \A c : Spent(c)' => Spent(c) \/ c = m.credential
      BY <3>3 DEF Spent
    <3> QED BY <2>1, <3>1, <3>2, <3>4, ReuseIssues
  <2>4. CASE Detects(m)
    BY <2>1, <2>4 DEF Detects, ReuseInv
  <2>5. CASE Closes(m)
    <3>1. \A c : Spent(c)' => Spent(c)
      <4>1. CASE server' = server
        BY <4>1 DEF Spent
      <4>2. CASE server' # server
        BY <2>5, <4>2, EndsSome, EndedIs DEF Spent
      <4> QED BY <4>1, <4>2
    <3>2. m.kind = "logout" /\ reused' = reused /\ Replied(m, [Denied EXCEPT !.ok = TRUE])
      BY <2>5 DEF Closes
    <3> QED BY <2>1, <3>1, <3>2, ReuseAnswers, AnswersType
  <2>6. CASE Confirms(m)
    <3>1. PICK v \in Csrf : Replied(m, Granted(m.credential, v))
      BY <2>6 DEF Confirms
    <3>2. /\ m.kind = "probe" /\ m.credential \in Credential
          /\ server' = server /\ reused' = reused
      BY <2>6, MessageType DEF Confirms, Live
    <3>3. Granted(m.credential, v) \in Answers /\ \A c : Spent(c)' => Spent(c)
      BY <3>2, AnswersType DEF Spent
    <3> QED BY <2>1, <3>1, <3>2, <3>3, ReuseAnswers
  <2>7. CASE Denies(m)
    <3>1. Replied(m, Denied) /\ server' = server /\ reused' = reused
      BY <2>7 DEF Denies
    <3>2. \A c : Spent(c)' => Spent(c)
      BY <3>1 DEF Spent
    <3> QED BY <2>1, <3>1, <3>2, ReuseAnswers, AnswersType
  <2> QED BY <1>4, <2>2, <2>3, <2>4, <2>5, <2>6, <2>7, AnswerStep
<1>5. ASSUME NEW m \in net, Arrive(m) PROVE ReuseInv'
  BY <1>5, ReuseArrives
<1>6. ASSUME NEW m \in net, Forgets(m) PROVE ReuseInv'
  <2>1. m.kind # "refresh" /\ net' = net \ {m} /\ UNCHANGED <<server, jar, reused>>
    BY <1>6 DEF Forgets, ReuseInv
  <2> QED BY <2>1, ReuseGone
<1>7. ASSUME NEW m \in net, NEW outcome \in {"granted", "denied", "failed"}, Settles(m, outcome)
      PROVE  ReuseInv'
  <2>1. UNCHANGED <<server, jar, reused>>
    BY <1>7 DEF Settles
  <2>2. ~(m.kind = "refresh" /\ Replaces(m))
    BY <1>7 DEF Settles, Replaces, Replacing
  <2>3. CASE net' = net \ {m}
    BY <2>1, <2>2, <2>3, ReuseGone
  <2>4. CASE net' # net \ {m}
    <3>1. /\ m.kind = "probe" /\ m.by \in Task /\ outcome = "granted"
          /\ InFlight(m.page) = {} /\ net' = (net \ {m}) \cup {Follow(m)}
      BY <1>7, <2>4 DEF Settles, Wakes, Informs, Finishes, Follow
    <3>2. m.at = "arrived" /\ m.page \in Page
      BY <1>7, <3>1, MessageType DEF Settles
    <3>3. PICK r : r = Follow(m)
      OBVIOUS
    <3>4. r.at = "sent" /\ r.credential = jar.refresh /\ r.heard /\ r.kind = "refresh"
      BY <3>1, <3>2, <3>3, FollowIs
    <3> QED BY ZenonT(40), <2>1, <3>1, <3>2, <3>3, <3>4, ReuseSent
  <2> QED BY <2>3, <2>4
<1> QED BY <1>1, <1>2, <1>3, <1>4, <1>5, <1>6, <1>7, Cases

(* However the calls, the sign-ins, the sign-outs and the loads of one page  *)
(* interleave, and whatever else gets lost: as long as the answers to its    *)
(* refreshes arrive, the server never sees a credential again that was       *)
(* replaced (refreshPromise; GET /auth/session rotates nothing).             *)
THEOREM ReuseIsNotDetected ==
  ASSUME \A p, q \in Page : p = q, ~MayLoseCredential
  PROVE  Spec => []ReuseNeverDetected
<1>1. Init => ReuseInv
  BY ClientAssumption DEF Init, ReuseInv, Spent, NoCookies
<1>2. ReuseInv /\ ClientInv /\ [Next]_vars => ReuseInv'
  BY ReuseStep DEF ClientInv
<1>3. ReuseInv => ReuseNeverDetected
  BY DEF ReuseInv, ReuseNeverDetected
<1>4. Init => ClientInv
  BY TypedInit, LinkedInit, AllIssuedInit DEF ClientInv
<1>5. ClientInv /\ [Next]_vars => ClientInv'
  BY TypedStep, LinkedStep, AllIssuedStep, OneLiveStep DEF ClientInv
<1> QED BY <1>1, <1>2, <1>3, <1>4, <1>5, PTL DEF Spec

-----------------------------------------------------------------------------
(* One page whose requests come one after the other. *)

(* What it is for requests to come one after the other. *)
LEMMA NotCrowded ==
  ASSUME Typed, ~Crowded
  PROVE  /\ \A m, x \in net : m = x
         /\ \A m \in net : m.heard
         /\ \A s, t \in Task : s # t /\ task[s].at \in {"login", "logout", "refreshed"}
                                 => task[t].at \in {"idle", "refused"}
         /\ \A t \in Task : ~(task[t].at = "retry" /\ task[t].token \in expired)
<1>1. ASSUME NEW s \in Task, NEW t \in Task, s # t, task[s].at \in {"login", "logout", "refreshed"}
      PROVE  task[t].at \in {"idle", "refused"}
  <2>1. task[s] \in Underway /\ ~Available(s)
    BY <1>1, TaskAt DEF Places
  <2>2. task[s].do \in {"login", "logout"}
    BY <1>1, <2>1 DEF Underway
  <2>3. Available(t)
    BY <1>1, <2>1, <2>2 DEF Crowded
  <2> QED BY <2>3, TaskAt
<1> QED BY <1>1 DEF Crowded

(* A credential that was issued stays in its family, and none comes alive. *)
LEMMA IssuedBefore ==
  ASSUME Typed, Linked, [Next]_vars, NEW c \in Credential, server[c].state # "none"
  PROVE  /\ server'[c].family = server[c].family
         /\ server'[c].state = "live" => server[c].state = "live"
<1>1. CASE server' = server
  BY <1>1
<1>2. CASE server' # server
  <2>1. PICK m \in net : Opens(m) \/ Rotates(m) \/ Detects(m) \/ Closes(m)
    BY <1>2, ServerStep
  <2>2. CASE Opens(m)
    <3>1. PICK n \in Credential :
            /\ server[n].state = "none"
            /\ server' = [server EXCEPT ![n] = [state |-> "live", family |-> n]]
      BY <2>2 DEF Opens
    <3> QED BY <3>1 DEF Typed
  <2>3. CASE Rotates(m)
    <3>1. PICK n \in Credential :
            /\ server[n].state = "none"
            /\ server' = [server EXCEPT ![m.credential].state = "rotated",
                                        ![n] = server[m.credential]]
      BY <2>3 DEF Rotates
    <3>2. server[c] \in Row
      BY DEF Typed
    <3> QED BY <3>1, <3>2 DEF Typed, Row
  <2>4. CASE Detects(m) \/ Closes(m)
    BY <1>2, <2>4, EndsSome, EndedIs
  <2> QED BY <2>1, <2>2, <2>3, <2>4
<1> QED BY <1>1, <1>2

(* The only live credential of a family stays the only one, unless it is     *)
(* replaced.                                                                 *)
LEMMA SoleKept ==
  ASSUME Typed, Linked, AllIssued, [Next]_vars, NEW c \in Credential, server[c].state # "none",
         Sole(c), ~\E m \in net : Rotates(m),
         NEW d \in Credential, server'[d].state = "live", server'[d].family = server'[c].family
  PROVE  d = c /\ server[c].state = "live"
<1>1. server'[c].family = server[c].family
  BY IssuedBefore
<1>2. CASE server[d].state # "none"
  BY <1>1, <1>2, IssuedBefore, ClientAssumption DEF Sole, Live
<1>3. CASE server[d].state = "none"
  <2>1. server' # server
    BY <1>3
  <2>2. PICK m \in net : Opens(m) \/ Detects(m) \/ Closes(m)
    BY <2>1, ServerStep
  <2>3. CASE Opens(m)
    <3>1. PICK n \in Credential :
            /\ server[n].state = "none"
            /\ server' = [server EXCEPT ![n] = [state |-> "live", family |-> n]]
      BY <2>3 DEF Opens
    <3>2. d = n /\ server'[d].family = n
      BY <1>3, <3>1 DEF Typed
    <3>3. server[n].state # "none"
      BY <1>1, <3>2, ClientAssumption DEF AllIssued, Issued
    <3> QED BY <3>1, <3>3
  <2>4. CASE Detects(m) \/ Closes(m)
    BY <1>3, <2>1, <2>4, EndsSome, EndedIs
  <2> QED BY <2>2, <2>3, <2>4
<1> QED BY <1>2, <1>3

CalmInv == ~Crowded /\ JarInv /\ MemoryInv /\ RefusalInv /\ SignOutInv

(* A page sends a request when there is none. *)
LEMMA CalmSends ==
  ASSUME Typed, Linked, CalmInv, \A p, q \in Page : p = q, ~Crowded',
         NEW t \in Task, NEW p \in Page, NEW kind \in Kinds, NEW k, GoesOn(t, p, k),
         net' = net \cup {Request(kind, t, p)}, k.at # "call",
         kind = "refresh" => /\ InFlight(p) = {}
                             /\ memory[p].csrf # Nothing \/ (task[t].at = "call" /\ task[t].page = p),
         kind = "logout" => memory[p].access # Nothing,
         kind = "login" => k.at = "login",
         memory' = memory \/ (memory' = [memory EXCEPT ![p] = NoMemory] /\ kind = "login")
  PROVE  CalmInv'
<1>1. PICK r : r = Request(kind, t, p)
  OBVIOUS
<1>2. /\ r.at = "sent" /\ r.heard /\ r.kind = kind /\ r.page = p
      /\ r.by = (IF kind = "refresh" THEN Nothing ELSE t)
      /\ r.credential = (IF kind = "login" THEN Nothing ELSE jar.refresh)
      /\ r.token = (IF kind = "logout" THEN memory[p].access ELSE Nothing)
      /\ r.cookie = (IF kind = "refresh" THEN jar.csrf ELSE Nothing)
      /\ r.header = (IF kind = "refresh" THEN memory[p].csrf ELSE Nothing)
  BY <1>1, Requested
<1>3. r \notin net
  <2>1. CASE kind = "refresh"
    BY <1>2, <2>1 DEF InFlight
  <2>2. CASE kind # "refresh"
    BY <1>2, <2>2, NobodyAsked DEF GoesOn
  <2> QED BY <2>1, <2>2
<1>4. net = {} /\ net' = {r}
  BY <1>1, <1>3 DEF Crowded
<1>5. /\ UNCHANGED <<server, jar>>
      /\ task'[t] = k /\ \A s \in Task : s # t => task'[s] = task[s]
  BY DEF GoesOn, Typed
<1>6. NoMemory.access = Nothing /\ NoMemory.csrf = Nothing
  BY DEF NoMemory
<1>7. \A q \in Page : /\ memory[q].access \in {Nothing, jar.refresh}
                      /\ memory[q].csrf \in {Nothing, jar.csrf}
                      /\ memory[q].access # Nothing => memory[q].csrf # Nothing
                      /\ memory[q].access # Nothing => Sole(memory[q].access)
  BY <1>4 DEF CalmInv, MemoryInv, SignOutInv
<1>8. \A q \in Page : memory'[q] = memory[q] \/ memory'[q] = NoMemory
  BY DEF Typed
<1>9. JarInv'
  BY <1>2, <1>4, <1>5 DEF JarInv, Done
<1>10. MemoryInv'
  BY <1>5, <1>6, <1>7, <1>8 DEF MemoryInv
<1>11. RefusalInv'
  <2>1. kind = "refresh" => CsrfMatches(r) \/ ~Live(jar.refresh)
    <3>1. CASE memory[p].csrf # Nothing
      BY <1>2, <1>7, <3>1 DEF CsrfMatches
    <3>2. CASE memory[p].csrf = Nothing
      BY <3>2 DEF CalmInv, RefusalInv
    <3> QED BY <3>1, <3>2
  <2>2. ASSUME NEW s \in Task, task'[s].at = "call", memory'[task'[s].page].csrf = Nothing
        PROVE  ~Live(jar.refresh)
    <3>1. s # t /\ task[s].at = "call" /\ task'[s] = task[s]
      BY <1>5, <2>2
    <3>2. CASE memory' = memory
      BY <2>2, <3>1, <3>2 DEF CalmInv, RefusalInv
    <3>3. CASE kind = "login"
      <4>1. task'[t].at = "login" /\ task'[t].do = "login" /\ task'[t] \notin {Idle, Refused}
        BY <1>5, <3>3 DEF GoesOn, Underway, Idle, Refused
      <4>2. task'[s] \notin {Idle, Refused}
        BY <2>2 DEF Idle, Refused
      <4> QED BY <3>1, <4>1, <4>2 DEF Crowded, Available
    <3> QED BY <3>2, <3>3
  <2> QED BY <1>2, <1>4, <1>5, <2>1, <2>2 DEF RefusalInv, Live, CsrfMatches, Rotating
<1>12. SignOutInv'
  <2>1. kind = "logout" => r.token # Nothing /\ r.token = r.credential /\ Sole(r.token)
    BY <1>2, <1>7
  <2>2. \A q \in Page : memory'[q].access # Nothing => Sole(memory'[q].access)
    BY <1>6, <1>7, <1>8
  <2> QED BY <1>2, <1>4, <1>5, <2>1, <2>2 DEF SignOutInv, Sole, Live
<1> QED BY <1>9, <1>10, <1>11, <1>12 DEF CalmInv

(* A call of the page goes on. *)
LEMMA CalmGoesOn ==
  ASSUME Typed, Linked, CalmInv, \A p, q \in Page : p = q, ~Crowded',
         NEW t \in Task, NEW p \in Page, NEW k, GoesOn(t, p, k)
  PROVE  CalmInv'
<1>1. /\ UNCHANGED <<server, jar>>
      /\ task'[t] = k /\ \A s \in Task : s # t => task'[s] = task[s]
  BY DEF GoesOn, Typed
<1>2. CASE Probes(t, p, k) \/ SignsIn(t, p, k) \/ SignsOut(t, p, k)
  BY <1>2, CalmSends DEF Probes, SignsIn, SignsOut, Kinds
<1>3. CASE Shares(t, p, k) /\ InFlight(p) = {}
  BY <1>3, CalmSends DEF Shares, Kinds
<1>4. ASSUME net' = net, memory' = memory, k.at = "call" => k.page = p /\ memory[p].access # Nothing
      PROVE  CalmInv'
  <2>1. k.at = "call" => memory[k.page].csrf # Nothing
    BY <1>4 DEF CalmInv, MemoryInv
  <2>2. JarInv' /\ MemoryInv' /\ SignOutInv'
    BY <1>1, <1>4 DEF CalmInv, JarInv, MemoryInv, SignOutInv, Done, Rotating, Sole, Live
  <2>3. RefusalInv'
    <3>1. \A m \in net : Rotating(m) => \A s \in Task : task'[s].at = "call" => memory[m.page].csrf # Nothing
      <4> SUFFICES ASSUME NEW m \in net, Rotating(m), NEW s \in Task, task'[s].at = "call"
                   PROVE  memory[m.page].csrf # Nothing
        OBVIOUS
      <4>1. CASE s = t
        <5>1. m.page = p
          BY MessageType
        <5> QED BY <1>1, <1>4, <2>1, <4>1, <5>1
      <4>2. CASE s # t
        BY <1>1, <4>2 DEF CalmInv, RefusalInv
      <4> QED BY <4>1, <4>2
    <3>2. \A s \in Task : task'[s].at = "call" /\ memory[task'[s].page].csrf = Nothing => ~Live(jar.refresh)
      BY <1>1, <2>1 DEF CalmInv, RefusalInv
    <3> QED BY <1>1, <1>4, <3>1, <3>2 DEF CalmInv, RefusalInv, Live, CsrfMatches, Rotating
  <2> QED BY <2>2, <2>3 DEF CalmInv
<1>5. CASE Shares(t, p, k) /\ InFlight(p) # {}
  BY <1>4, <1>5 DEF Shares
<1>6. CASE Starts(t, p, k)
  BY <1>4, <1>6 DEF Starts
<1>7. CASE Ends(t, p, k)
  <2>1. net' = net /\ k.at \in {"idle", "refused"}
    BY <1>7 DEF Ends, Idle, Refused
  <2>2. CASE memory' = memory
    BY <1>4, <2>1, <2>2
  <2>3. CASE memory' = [memory EXCEPT ![p] = NoMemory] /\ task[t].at = "refreshed"
    <3>1. \A s \in Task : task'[s].at # "call"
      BY <1>1, <2>1, <2>3, NotCrowded DEF CalmInv
    <3>2. \A q \in Page : memory'[q] = NoMemory
      BY <2>3 DEF Typed
    <3>3. NoMemory.access = Nothing /\ NoMemory.csrf = Nothing
      BY DEF NoMemory
    <3>4. JarInv' /\ MemoryInv'
      BY <1>1, <2>1, <3>2, <3>3 DEF CalmInv, JarInv, MemoryInv, Done
    <3>5. RefusalInv'
      BY <1>1, <2>1, <3>1 DEF CalmInv, RefusalInv, Live, CsrfMatches, Rotating
    <3>6. SignOutInv'
      BY <1>1, <2>1, <3>2, <3>3 DEF CalmInv, SignOutInv, Sole, Live, Rotating
    <3> QED BY <3>4, <3>5, <3>6 DEF CalmInv
  <2>4. ~(task[t].at = "retry" /\ task[t].token \in expired)
    BY NotCrowded DEF CalmInv
  <2> QED BY <1>7, <2>2, <2>3, <2>4 DEF Ends
<1> QED BY <1>2, <1>3, <1>5, <1>6, <1>7 DEF GoesOn

(* A page is loaded again, and no request of its earlier load is left. *)
LEMMA CalmReload ==
  ASSUME Typed, Linked, CalmInv, \A p, q \in Page : p = q, ~Crowded',
         NEW p \in Page, Reload(p)
  PROVE  CalmInv'
<1>1. net' = {}
  <2> SUFFICES ASSUME NEW y \in net' PROVE FALSE
    OBVIOUS
  <2>1. ~y.heard
    BY ReloadStep, SilencedIs, MessageType
  <2> QED BY <2>1 DEF Crowded
<1>2. NoMemory.access = Nothing /\ NoMemory.csrf = Nothing
  BY DEF NoMemory
<1>3. \A q \in Page : memory'[q] = NoMemory
  BY ReloadStep DEF Typed
<1>4. \A s \in Task : task'[s].at # "call"
  <2> SUFFICES ASSUME NEW s \in Task, task'[s].at = "call" PROVE FALSE
    OBVIOUS
  <2>1. task'[s] = IF Waits(s, p) THEN Idle ELSE task[s]
    BY ReloadStep
  <2>2. task'[s] = task[s] /\ ~Waits(s, p)
    BY <2>1 DEF Idle
  <2>3. task[s].at \in Places /\ task[s] \in Underway
    BY <2>2, TaskAt DEF Places
  <2>4. task[s].page = p
    BY <2>3 DEF Underway
  <2> QED BY <2>2, <2>3, <2>4, TaskAt
<1> QED BY <1>1, <1>2, <1>3, <1>4
        DEF CalmInv, JarInv, MemoryInv, RefusalInv, SignOutInv

(* An answer is on its way, as the only one. *)
LEMMA CalmAnswered ==
  ASSUME Typed, Linked, AllIssued, CalmInv, \A p, q \in Page : p = q, ~Crowded', [Next]_vars,
         NEW m \in net, m.at = "sent", NEW answer \in Answers, Replied(m, answer),
         m.kind \in {"probe", "refresh"} /\ ~answer.ok => ~Live(jar.refresh)',
         m.kind \in {"login", "refresh"} /\ answer.ok =>
           answer.refresh # Nothing /\ server'[answer.refresh].state = "live",
         m.kind # "logout" /\ answer.ok => answer.csrf # Nothing,
         m.kind = "refresh" /\ answer.ok => Live(jar.refresh),
         \/ m.kind = "refresh" /\ answer.ok
         \/ \A x \in net : ~Rotates(x),
         m.kind = "logout" /\ answer.ok =>
           \A c \in Credential : server'[c].family = server'[m.token].family => server'[c].state # "live"
  PROVE  CalmInv'
<1>1. PICK r : r = Reply(m, answer)
  OBVIOUS
<1>2. /\ r.kind = m.kind /\ r.heard = m.heard /\ r.at = "answered" /\ r.answer = answer
      /\ r.credential = m.credential /\ r.token = m.token /\ r.page = m.page
  BY <1>1, ReplyIs, MessageType
<1>3. /\ \A x \in net : x = m
      /\ m.heard /\ net' = {r} /\ UNCHANGED <<jar, memory, task>>
  BY <1>1, NotCrowded DEF CalmInv, Replied
<1>4. m.credential = jar.refresh \/ m.kind = "login"
  BY DEF CalmInv, JarInv, Done
<1>5. \A q \in Page : /\ memory[q].access \in {Nothing, jar.refresh}
                      /\ memory[q].csrf \in {Nothing, jar.csrf}
                      /\ memory[q].access # Nothing => memory[q].csrf # Nothing
                      /\ memory[q].access # Nothing => Sole(memory[q].access)
  BY <1>3 DEF CalmInv, MemoryInv, SignOutInv, Done, Rotating
<1>6. Live(jar.refresh)' => Live(jar.refresh)
  <2>1. jar.refresh \in Credential \cup {Nothing} /\ Issued(jar.refresh)
    BY DEF Typed, Cookies, AllIssued
  <2> QED BY <1>3, <2>1, IssuedBefore DEF Live, Issued
<1>7. JarInv'
  BY <1>2, <1>3, <1>4 DEF JarInv, Done
<1>8. MemoryInv'
  BY <1>3, <1>5 DEF MemoryInv
<1>9. RefusalInv'
  <2>1. \A s \in Task : task[s].at = "call" /\ memory[task[s].page].csrf = Nothing => ~Live(jar.refresh)
    BY DEF CalmInv, RefusalInv
  <2>2. ASSUME m.kind = "refresh", answer.ok, NEW s \in Task, task[s].at = "call"
        PROVE  memory[m.page].csrf # Nothing
    <3>1. task[s].page \in Page
      BY <2>2, TaskAt DEF Places, Underway
    <3>2. task[s].page = m.page
      BY <3>1, MessageType
    <3> QED BY <2>1, <2>2, <3>2
  <2> QED BY <1>2, <1>3, <1>6, <2>1, <2>2 DEF RefusalInv, Rotating
<1>10. SignOutInv'
  <2>1. ASSUME NEW q \in Page, memory[q].access # Nothing, ~(m.kind = "refresh" /\ answer.ok),
               NEW d \in Credential, server'[d].state = "live",
               server'[d].family = server'[memory[q].access].family
        PROVE  d = memory[q].access
    <3>1. memory[q].access \in Credential /\ server[memory[q].access].state # "none"
      BY <2>1 DEF Typed, Memory, AllIssued, Issued
    <3> QED BY <1>5, <2>1, <3>1, SoleKept
  <2>2. \A q \in Page : memory'[q].access # Nothing /\ ~Rotating(r) =>
          \A d \in Credential : server'[d].state = "live"
            /\ server'[d].family = server'[memory'[q].access].family => d = memory'[q].access
    BY <1>2, <1>3, <2>1 DEF Rotating
  <2> QED BY <1>2, <1>3, <2>2 DEF SignOutInv, Sole, Live, Rotating
<1> QED BY <1>7, <1>8, <1>9, <1>10 DEF CalmInv

(* The server answers. *)
LEMMA CalmAnswer ==
  ASSUME Typed, Linked, AllIssued, OneLive, CalmInv, \A p, q \in Page : p = q, ~Crowded',
         [Next]_vars, NEW m \in net, Answer(m)
  PROVE  CalmInv'
<1>1. m.at = "sent" /\ \A x \in net : x = m
  BY AnswerStep, NotCrowded DEF CalmInv
<1>2. m.kind # "login" => m.credential = jar.refresh
  BY <1>1 DEF CalmInv, JarInv, Done
<1>3. m.kind = "refresh" => CsrfMatches(m) \/ ~Live(jar.refresh)
  BY <1>1 DEF CalmInv, RefusalInv
<1>4. m.kind # "refresh" => ~\E x \in net : Rotates(x)
  BY <1>1 DEF Rotates
<1>5. \A c \in Csrf : c # Nothing
  BY ClientAssumption
<1>6. CASE Opens(m)
  <2>1. PICK n \in Credential, v \in Csrf :
          /\ server[n].state = "none"
          /\ server' = [server EXCEPT ![n] = [state |-> "live", family |-> n]]
          /\ Replied(m, Granted(n, v))
    BY <1>6 DEF Opens
  <2>2. m.kind = "login" /\ n # Nothing /\ server'[n].state = "live"
    BY <1>6, <2>1, ClientAssumption DEF Opens, Typed
  <2> QED BY <1>1, <1>4, <1>5, <2>1, <2>2, CalmAnswered, AnswersType
<1>7. CASE Rotates(m)
  <2>1. PICK n \in Credential, v \in Csrf :
          /\ server[n].state = "none"
          /\ server' = [server EXCEPT ![m.credential].state = "rotated", ![n] = server[m.credential]]
          /\ Replied(m, Granted(n, v))
    BY <1>7 DEF Rotates
  <2>2. m.kind = "refresh" /\ Live(m.credential) /\ m.credential \in Credential
    BY <1>7, MessageType DEF Rotates, Live
  <2>3. n # Nothing /\ server'[n].state = "live"
    BY <2>1, <2>2, ClientAssumption DEF Typed, Live
  <2> QED BY ZenonT(40), <1>1, <1>2, <1>5, <2>1, <2>2, <2>3, CalmAnswered, AnswersType
<1>8. CASE Detects(m)
  <2>1. m.kind = "refresh" /\ Spent(jar.refresh) /\ server' = Ended(Family(jar.refresh))
    BY <1>2, <1>8 DEF Detects
  <2>2. \A d \in Family(jar.refresh) : d \in Credential => Live(d)
    BY DEF Family
  <2>3. ~Live(jar.refresh)'
    <3>1. server'[jar.refresh].state = "rotated"
      BY <2>1, <2>2, EndedIs DEF Spent
    <3>2. jar' = jar
      BY <1>8 DEF Detects, Replied
    <3> QED BY <3>1, <3>2 DEF Live
  <2>4. \A x \in net : ~Rotates(x)
    BY <1>1, <1>2, <2>1 DEF Rotates, Live, Spent
  <2>5. Replied(m, Denied)
    BY <1>8 DEF Detects
  <2> QED BY <1>1, <2>1, <2>3, <2>4, <2>5, CalmAnswered, AnswersType
<1>9. CASE Closes(m)
  <2>1. m.kind = "logout" /\ Replied(m, [Denied EXCEPT !.ok = TRUE])
    BY <1>9 DEF Closes
  <2>2. m.token # Nothing /\ m.token = m.credential /\ Sole(m.token)
    BY <1>1, <2>1 DEF CalmInv, SignOutInv
  <2> DEFINE c == m.token
  <2>3. c \in Credential /\ server[c].state # "none"
    BY <2>2, MessageType DEF AllIssued, Issued
  <2>4. server' = IF Live(c) THEN Ended({c}) ELSE server
    BY <1>9, <2>2 DEF Closes
  <2>5. ASSUME NEW d \in Credential, server'[d].family = server'[c].family, server'[d].state = "live"
        PROVE  FALSE
    <3>1. d = c /\ server[c].state = "live"
      BY <1>4, <2>1, <2>2, <2>3, <2>5, SoleKept
    <3>2. Live(c)
      BY <2>2, <3>1 DEF Live
    <3>3. server' = Ended({c}) /\ \A x \in {c} : x \in Credential => Live(x)
      BY <2>4, <3>2
    <3>4. server'[c].state = "ended"
      BY <2>3, <3>3, EndedIs
    <3> QED BY <2>5, <3>1, <3>4
  <2> HIDE DEF c
  <2> QED BY <1>1, <1>4, <2>1, <2>5, CalmAnswered, AnswersType DEF c
<1>10. CASE Confirms(m)
  <2>1. PICK v \in Csrf : Replied(m, Granted(m.credential, v))
    BY <1>10 DEF Confirms
  <2>2. m.kind = "probe" /\ m.credential \in Credential
    BY <1>10, MessageType DEF Confirms, Live
  <2> QED BY <1>1, <1>4, <1>5, <2>1, <2>2, CalmAnswered, AnswersType
<1>11. CASE Denies(m)
  <2>1. Replied(m, Denied) /\ server' = server /\ jar' = jar
    BY <1>11 DEF Denies, Replied
  <2>2. m.kind \in {"probe", "refresh"} => ~Live(jar.refresh)'
    BY <1>2, <1>3, <1>11, <2>1 DEF Denies, Live
  <2>3. \A x \in net : ~Rotates(x)
    BY <1>1, <1>2, <2>1, <2>2 DEF Rotates, Live
  <2> QED BY <1>1, <2>1, <2>2, <2>3, CalmAnswered, AnswersType
<1> QED BY <1>6, <1>7, <1>8, <1>9, <1>10, <1>11, AnswerStep

(* The only answer arrives. *)
LEMMA CalmArrive ==
  ASSUME Typed, Linked, CalmInv, \A p, q \in Page : p = q, ~Crowded',
         NEW m \in net, Arrive(m)
  PROVE  CalmInv'
<1>1. PICK r : r = Arrived(m)
  OBVIOUS
<1>2. /\ r.kind = m.kind /\ r.heard = m.heard /\ r.at = "arrived" /\ r.answer = m.answer
      /\ r.credential = m.credential /\ r.token = m.token /\ r.page = m.page
  BY <1>1, ArrivedIs, MessageType
<1>3. /\ m.at = "answered" /\ net' = {r} /\ UNCHANGED <<server, memory, task>>
      /\ \A x \in net : x = m
      /\ m.heard /\ m.kind \in Kinds /\ m.answer.ok \in BOOLEAN
  BY <1>1, ArriveStep, NotCrowded, MessageType DEF CalmInv
<1>4. m.credential = jar.refresh \/ m.kind = "login"
  BY <1>3 DEF CalmInv, JarInv, Done
<1>5. \A q \in Page : /\ memory[q].access \in {Nothing, jar.refresh}
                      /\ memory[q].csrf \in {Nothing, jar.csrf}
                      /\ memory[q].access # Nothing => memory[q].csrf # Nothing
  BY <1>3 DEF CalmInv, MemoryInv, Done
<1>6. /\ Done(r) <=> m.answer.ok
      /\ ~m.answer.ok => jar' = jar
      /\ m.answer.ok /\ m.kind \in {"login", "refresh"} =>
           jar' = [refresh |-> m.answer.refresh, csrf |-> m.answer.csrf]
      /\ m.answer.ok /\ m.kind = "probe" =>
           jar'.csrf = m.answer.csrf /\ jar'.refresh = jar.refresh
      /\ m.answer.ok /\ m.kind = "logout" => jar' = NoCookies
  BY <1>2, ArriveStep DEF Done, Typed, Cookies
<1>7. JarInv'
  BY <1>2, <1>3, <1>4, <1>6 DEF JarInv, Done
<1>8. MemoryInv'
  <2>1. \A q \in Page : memory[q].access \in {Nothing, jar'.refresh} \/ (Done(r) /\ r.kind # "probe")
    BY <1>2, <1>3, <1>5, <1>6 DEF Kinds
  <2>2. \A q \in Page : memory[q].csrf \in {Nothing, jar'.csrf} \/ Done(r)
    BY <1>5, <1>6, <1>3
  <2> QED BY <1>3, <1>5, <2>1, <2>2 DEF MemoryInv, Done
<1>9. RefusalInv'
  <2>1. ASSUME NEW s \in Task, task[s].at = "call", memory[task[s].page].csrf = Nothing
        PROVE  ~Live(jar'.refresh)
    <3>1. ~Live(jar.refresh)
      BY <2>1 DEF CalmInv, RefusalInv
    <3>2. CASE ~m.answer.ok \/ m.kind = "probe"
      BY <1>3, <1>6, <3>1, <3>2
    <3>3. CASE m.answer.ok /\ m.kind = "logout"
      BY <1>6, <3>3 DEF NoCookies, Live
    <3>4. CASE m.answer.ok /\ m.kind = "login"
      <4>1. m.by \in Task /\ task[m.by].at = "login"
        BY <1>3, <3>4 DEF Linked
      <4> QED BY <2>1, <4>1, NotCrowded DEF CalmInv
    <3>5. CASE m.answer.ok /\ m.kind = "refresh"
      <4>1. memory[m.page].csrf # Nothing
        BY <1>3, <2>1, <3>5 DEF CalmInv, RefusalInv, Rotating
      <4>2. task[s].page \in Page
        BY <2>1, TaskAt DEF Places, Underway
      <4>3. task[s].page = m.page
        BY <4>2, MessageType
      <4> QED BY <2>1, <4>1, <4>3
    <3> QED BY <1>3, <3>2, <3>3, <3>4, <3>5 DEF Kinds
  <2>2. m.kind \in {"probe", "refresh"} /\ ~m.answer.ok => ~Live(jar.refresh)
    BY <1>3 DEF CalmInv, RefusalInv
  <2>3. m.kind = "refresh" /\ m.answer.ok => \A s \in Task : task[s].at = "call" => memory[m.page].csrf # Nothing
    BY <1>3 DEF CalmInv, RefusalInv, Rotating
  <2> QED BY <1>2, <1>3, <1>6, <2>1, <2>2, <2>3 DEF RefusalInv, Live, Rotating
<1>10. SignOutInv'
  <2>1. \A q \in Page : memory[q].access # Nothing => Sole(memory[q].access) \/ Rotating(r)
    BY <1>2, <1>3 DEF CalmInv, SignOutInv, Rotating
  <2> QED BY <1>2, <1>3, <2>1 DEF CalmInv, SignOutInv, Sole, Live, Rotating
<1> QED BY <1>7, <1>8, <1>9, <1>10 DEF CalmInv

(* The page hears of the only answer, and its memory follows the jar. *)
LEMMA CalmSettles ==
  ASSUME Typed, Linked, OneLive, CalmInv, \A p, q \in Page : p = q, ~Crowded', Typed',
         NEW m \in net, NEW outcome \in {"granted", "denied"}, Settles(m, outcome)
  PROVE  CalmInv'
<1>1. /\ m.at = "arrived" /\ (outcome = "granted" <=> m.answer.ok) /\ m.heard
      /\ UNCHANGED <<server, jar>> /\ \A x \in net : x = m
      /\ m.kind \in Kinds /\ m.page \in Page /\ \A q \in Page : q = m.page
  BY NotCrowded, MessageType DEF CalmInv, Settles
<1>2. /\ NoMemory.access = Nothing /\ NoMemory.csrf = Nothing
      /\ jar.refresh \in Credential \cup {Nothing}
  BY DEF NoMemory, Typed, Cookies
<1>3. outcome = "granted" /\ m.kind \in {"login", "refresh"} =>
        /\ m.answer.refresh = jar.refresh /\ m.answer.csrf = jar.csrf
        /\ jar.refresh # Nothing /\ Live(jar.refresh) /\ jar.csrf # Nothing
  BY <1>1 DEF CalmInv, JarInv, SignOutInv, Done
<1>4. outcome = "granted" /\ m.kind = "probe" => m.answer.csrf = jar.csrf /\ jar.csrf # Nothing
  BY <1>1 DEF CalmInv, JarInv, SignOutInv, Done
<1>5. outcome = "denied" \/ m.kind = "probe" =>
        \A q \in Page : memory[q].access \in {Nothing, jar.refresh}
  BY <1>1 DEF CalmInv, MemoryInv, Done
<1>6. outcome = "denied" => \A q \in Page : memory[q].csrf \in {Nothing, jar.csrf}
  BY <1>1 DEF CalmInv, MemoryInv, Done
<1>7. \A q \in Page : /\ memory[q].access # Nothing => memory[q].csrf # Nothing
                      /\ memory[q].access # Nothing /\ ~Rotating(m) => Sole(memory[q].access)
  BY <1>1 DEF CalmInv, MemoryInv, SignOutInv
<1>8. outcome = "denied" /\ m.kind \in {"probe", "refresh"} => ~Live(jar.refresh)
  BY <1>1 DEF CalmInv, RefusalInv
<1>9. Live(jar.refresh) /\ jar.refresh # Nothing => Sole(jar.refresh)
  BY <1>2 DEF OneLive, Sole
<1>10. ASSUME net' = {},
              \A q \in Page : /\ memory'[q].access \in {Nothing, jar.refresh}
                              /\ memory'[q].csrf \in {Nothing, jar.csrf}
                              /\ memory'[q].access # Nothing => memory'[q].csrf # Nothing
                              /\ memory'[q].access # Nothing => Sole(memory'[q].access),
              \A s \in Task : task'[s].at = "call" /\ memory'[task'[s].page].csrf = Nothing
                                => ~Live(jar.refresh)
       PROVE  CalmInv'
  BY <1>1, <1>10 DEF CalmInv, JarInv, MemoryInv, RefusalInv, SignOutInv, Sole, Live
<1>11. \A s \in Task : task'[s].at = "call" => task'[s].page = m.page
  <2>1. \A s \in Task : task'[s].at = "call" => task'[s] \in Underway
    BY DEF Typed, Idle, Refused
  <2> QED BY <1>1, <2>1 DEF Underway
<1>12. CASE Wakes(m, outcome)
  <2>1. m.kind = "refresh" /\ net' = {}
    BY <1>1, <1>12 DEF Wakes
  <2>2. CASE outcome = "granted"
    <3>1. memory'[m.page] = [access |-> jar.refresh, csrf |-> jar.csrf]
      BY <1>1, <1>3, <1>12, <2>1, <2>2 DEF Wakes, Typed
    <3> QED BY <1>1, <1>3, <1>9, <1>10, <1>11, <2>1, <2>2, <3>1
  <2>3. CASE outcome = "denied"
    <3>1. memory'[m.page] = NoMemory
      BY <1>1, <1>12, <2>3 DEF Wakes, Typed
    <3> QED BY <1>1, <1>2, <1>8, <1>10, <2>1, <2>3, <3>1
  <2> QED BY <2>2, <2>3
<1>13. CASE Finishes(m, outcome)
  <2>1. /\ m.kind \in {"login", "logout"} /\ net' = {}
        /\ task'[m.by] = Idle /\ \A s \in Task : s # m.by => task'[s] = task[s]
    BY <1>1, <1>13 DEF Finishes, Typed
  <2>2. m.by \in Task /\ task[m.by].at = m.kind
    BY <1>1, <2>1 DEF Linked
  <2>3. \A s \in Task : task'[s].at # "call"
    BY <2>1, <2>2, NotCrowded DEF CalmInv, Idle
  <2>4. CASE m.kind = "login" /\ outcome = "granted"
    <3>1. memory'[m.page] = [access |-> jar.refresh, csrf |-> jar.csrf]
      BY <1>1, <1>3, <1>13, <2>4 DEF Finishes, Typed
    <3> QED BY <1>1, <1>3, <1>9, <1>10, <2>1, <2>3, <2>4, <3>1
  <2>5. CASE m.kind = "login" /\ outcome = "denied"
    <3>1. memory' = memory
      BY <1>13, <2>5 DEF Finishes
    <3> QED BY <1>5, <1>6, <1>7, <1>10, <2>1, <2>3, <2>5, <3>1 DEF Rotating
  <2>6. CASE m.kind = "logout"
    <3>1. memory'[m.page] = NoMemory
      BY <1>1, <1>13, <2>6 DEF Finishes, Typed
    <3> QED BY <1>1, <1>2, <1>10, <2>1, <2>3, <3>1
  <2> QED BY <2>1, <2>4, <2>5, <2>6
<1>14. CASE Informs(m, outcome) /\ outcome = "denied"
  <2>1. m.kind = "probe" /\ net' = {} /\ memory' = memory
    BY <1>1, <1>14 DEF Informs
  <2>2. \A s \in Task : ~Live(jar.refresh)
    BY <1>8, <1>14, <2>1
  <2> QED BY <1>5, <1>6, <1>7, <1>10, <1>14, <2>1, <2>2 DEF Rotating
<1>15. CASE Informs(m, outcome) /\ outcome = "granted"
  <2>1. /\ m.kind = "probe" /\ m.by \in Task /\ memory' = [memory EXCEPT ![m.page].csrf = m.answer.csrf]
    BY <1>15 DEF Informs
  <2>2. InFlight(m.page) = {}
    BY <1>1, <2>1 DEF InFlight
  <2>3. PICK r : r = Follow(m)
    OBVIOUS
  <2>4. net' = {r}
    BY <1>1, <1>15, <2>2, <2>3 DEF Informs, Follow
  <2>5. /\ r.kind = "refresh" /\ r.at = "sent" /\ r.credential = jar.refresh
        /\ r.cookie = jar.csrf /\ r.header = jar.csrf
    BY <1>1, <1>4, <1>15, <2>1, <2>3, FollowIs
  <2>6. memory'[m.page].csrf = jar.csrf /\ memory'[m.page].access = memory[m.page].access
    BY <1>1, <1>4, <1>15, <2>1 DEF Typed, Memory
  <2>7. JarInv'
    BY <1>1, <2>4, <2>5 DEF JarInv, Done
  <2>8. MemoryInv'
    BY <1>1, <1>4, <1>5, <1>15, <2>1, <2>6 DEF MemoryInv
  <2>9. RefusalInv'
    BY <1>1, <1>4, <1>11, <1>15, <2>1, <2>4, <2>5, <2>6 DEF RefusalInv, CsrfMatches, Rotating
  <2>10. SignOutInv'
    <3>1. \A q \in Page : memory'[q].access # Nothing => Sole(memory'[q].access)
      BY <1>1, <1>7, <2>1, <2>6 DEF Rotating
    <3> QED BY <1>1, <2>4, <2>5, <3>1 DEF SignOutInv, Sole, Live, Rotating
  <2> QED BY <2>7, <2>8, <2>9, <2>10 DEF CalmInv
<1> QED BY <1>12, <1>13, <1>14, <1>15 DEF Settles

(* The order of one request after the other is kept until it is disturbed. *)
LEMMA CalmStep ==
  ASSUME ClientInv, Calm, [Next]_vars, \A p, q \in Page : p = q
  PROVE  Calm'
<1> USE DEF ClientInv
<1> SUFFICES ASSUME ~disturbed' PROVE CalmInv'
  BY DEF Calm, CalmInv
<1>1. CalmInv
  BY Cases DEF Calm, CalmInv
<1>2. CASE UNCHANGED vars
  BY <1>1, <1>2 DEF vars, CalmInv, Crowded, JarInv, MemoryInv, RefusalInv, SignOutInv,
       Done, Rotating, Sole, Live, CsrfMatches, Available
<1>3. CASE ~UNCHANGED vars
  <2>1. ~Crowded'
    BY <1>3, Cases
  <2>2. CASE UNCHANGED <<server, jar, memory, task, net, reused>>
    BY <1>1, <2>1, <2>2 DEF CalmInv, JarInv, MemoryInv, RefusalInv, SignOutInv,
         Done, Rotating, Sole, Live, CsrfMatches
  <2>3. ASSUME NEW t \in Task, NEW p \in Page, NEW k, GoesOn(t, p, k) PROVE CalmInv'
    BY <1>1, <2>1, <2>3, CalmGoesOn
  <2>4. ASSUME NEW p \in Page, Reload(p) PROVE CalmInv'
    BY <1>1, <2>1, <2>4, CalmReload
  <2>5. ASSUME NEW m \in net, Answer(m) PROVE CalmInv'
    BY <1>1, <2>1, <2>5, CalmAnswer
  <2>6. ASSUME NEW m \in net, Arrive(m) PROVE CalmInv'
    BY <1>1, <2>1, <2>6, CalmArrive
  <2>7. ASSUME NEW m \in net, Forgets(m) PROVE FALSE
    BY <2>7 DEF Forgets
  <2>8. ASSUME NEW m \in net, NEW outcome \in {"granted", "denied", "failed"}, Settles(m, outcome)
        PROVE  CalmInv'
    <3>1. outcome # "failed"
      BY <2>8 DEF Settles
    <3> QED BY <1>1, <2>1, <2>8, <3>1, CalmSettles, TypedStep
  <2> QED BY <2>2, <2>3, <2>4, <2>5, <2>6, <2>7, <2>8, Cases
<1> QED BY <1>2, <1>3

(* In the beginning there is order. *)
LEMMA CalmInit == Init => Calm
  BY DEF Init, Calm, Crowded, JarInv, MemoryInv, RefusalInv, SignOutInv, NoMemory, NoCookies,
         Idle, Refused, Available

(* The invariant of a browser with one page, over every behaviour. *)
LEMMA CalmInvariant ==
  ASSUME \A p, q \in Page : p = q
  PROVE  Spec => [](ClientInv /\ Calm)
<1>1. Init => ClientInv /\ Calm
  BY TypedInit, LinkedInit, AllIssuedInit, CalmInit DEF ClientInv
<1>2. ClientInv /\ Calm /\ [Next]_vars => (ClientInv /\ Calm)'
  BY TypedStep, LinkedStep, AllIssuedStep, OneLiveStep, CalmStep DEF ClientInv
<1> QED BY <1>1, <1>2, PTL DEF Spec

(* While the requests of the one page come one after the other and are all   *)
(* answered, what the page has in memory agrees with the cookies whenever it *)
(* hears all answers: its next refresh passes the double-submit check.       *)
THEOREM MemoryIsTheJar ==
  ASSUME \A p, q \in Page : p = q
  PROVE  Spec => []MemoryFollowsJar
<1>1. ClientInv /\ Calm => MemoryFollowsJar
  BY DEF Calm, MemoryInv, MemoryFollowsJar
<1> QED BY <1>1, CalmInvariant, PTL

(* Likewise, an accepted sign-out leaves no cookies and nothing alive of the *)
(* session of the access token that was sent along.                          *)
THEOREM SignOutEndsAll ==
  ASSUME \A p, q \in Page : p = q
  PROVE  Spec => []SignOutEndsSession
<1>1. ClientInv /\ Calm => SignOutEndsSession
  BY DEF Calm, JarInv, SignOutInv, SignOutEndsSession, Done
<1> QED BY <1>1, CalmInvariant, PTL

(* What a call must see to be sent away. *)
LEMMA RefusalStep ==
  ASSUME ClientInv, Calm, [Next]_vars, \A p, q \in Page : p = q,
         NEW t \in Task, task[t] # Refused, task'[t] = Refused, ~disturbed'
  PROVE  ~Live(jar.refresh)
<1> USE DEF ClientInv
<1>1. CalmInv
  BY Cases DEF Calm, CalmInv
<1>2. task'[t].at = "refused" /\ task[t].at # "refused" /\ Idle.at = "idle"
  BY TaskAt DEF Refused, Idle
<1>3. ASSUME NEW s \in Task, NEW p \in Page, NEW k, GoesOn(s, p, k) PROVE FALSE
  <2>1. s = t /\ k = Refused
    BY <1>3 DEF GoesOn, Typed
  <2>2. Ends(s, p, k)
    BY <1>3, <2>1 DEF GoesOn, Starts, Shares, Probes, SignsIn, SignsOut, Refused
  <2> QED BY <1>1, <2>1, <2>2, NotCrowded DEF Ends, CalmInv, Idle, Refused
<1>4. ASSUME NEW p \in Page, Reload(p) PROVE FALSE
  <2>1. task'[t] \in {Idle, task[t]}
    BY <1>4, ReloadStep
  <2> QED BY <1>2, <2>1
<1>5. ASSUME NEW m \in net, NEW outcome \in {"granted", "denied", "failed"}, Settles(m, outcome)
      PROVE  ~Live(jar.refresh)
  <2>1. outcome # "failed" /\ m.at = "arrived" /\ (outcome = "granted" <=> m.answer.ok)
    BY <1>5 DEF Settles
  <2>2. outcome = "granted" /\ m.kind = "refresh" => m.answer.refresh # Nothing
    BY <1>1, <2>1 DEF CalmInv, SignOutInv
  <2>3. outcome # "granted" /\ m.kind \in {"probe", "refresh"} => ~Live(jar.refresh)
    BY <1>1, <2>1 DEF CalmInv, RefusalInv
  <2>4. CASE Wakes(m, outcome)
    BY <1>2, <2>2, <2>3, <2>4 DEF Wakes
  <2>5. CASE Informs(m, outcome)
    <3>1. CASE outcome = "granted"
      BY <1>2, <2>5, <3>1 DEF Informs, Typed
    <3>2. CASE outcome # "granted"
      BY <2>3, <2>5, <3>2 DEF Informs
    <3> QED BY <3>1, <3>2
  <2>6. CASE Finishes(m, outcome)
    BY <1>2, <2>6 DEF Finishes, Typed
  <2> QED BY <1>5, <2>4, <2>5, <2>6 DEF Settles
<1>6. ASSUME NEW m \in net, Answer(m) \/ Arrive(m) \/ Forgets(m) PROVE FALSE
  <2>1. task' = task
    BY <1>6, AnswerStep, ArriveStep
       DEF Forgets, Opens, Rotates, Detects, Closes, Confirms, Denies, Replied
  <2> QED BY <2>1
<1> QED BY <1>3, <1>4, <1>5, <1>6, Cases

(* Likewise, a call is sent away to sign in again only while no session of   *)
(* the browser's credential is alive.                                        *)
THEOREM RefusedWhenOver ==
  ASSUME \A p, q \in Page : p = q
  PROVE  Spec => RefusedOnlyIfOver
<1>1. ClientInv /\ Calm /\ [Next]_vars =>
        [\A t \in Task :
           task[t] # Refused /\ task'[t] = Refused /\ ~disturbed' => ~Live(jar.refresh)]_vars
  BY RefusalStep
<1> QED BY <1>1, CalmInvariant, PTL DEF Spec, RefusedOnlyIfOver

-----------------------------------------------------------------------------
(* The server that the pages meet is one that AuthSessions implements too.   *)

FamiliesStep == Families!FamiliesNext \/ UNCHANGED <<Fate, Root>>

(* The fate of a credential, as its row has it. *)
LEMMA FateIs ==
  ASSUME Typed
  PROVE  /\ \A c \in Credential : server[c] \in Row
         /\ Families!Living = {c \in Credential : server[c].state = "live"}
         /\ Families!Fresh = {c \in Credential : server[c].state = "none"}
<1>1. \A c \in Credential : server[c] \in Row
  BY DEF Typed
<1>2. \A c \in Credential : /\ Fate[c] = "live" <=> server[c].state = "live"
                            /\ Fate[c] = "none" <=> server[c].state = "none"
  BY DEF Fate
<1> QED BY <1>1, <1>2 DEF Families!Living, Families!Fresh

(* A sign-in begins a family. *)
LEMMA OpensMaps ==
  ASSUME Typed, NEW m \in net, Opens(m)
  PROVE  FamiliesStep
<1>1. PICK n \in Credential :
        /\ server[n].state = "none"
        /\ server' = [server EXCEPT ![n] = [state |-> "live", family |-> n]]
  BY DEF Opens
<1>2. \A c \in Credential :
        server'[c] = IF c = n THEN [state |-> "live", family |-> n] ELSE server[c]
  BY <1>1 DEF Typed
<1>3. Fate' = [Families!Over({}) EXCEPT ![n] = "live"] /\ Root' = [Root EXCEPT ![n] = n]
  <2>1. \A c \in Credential :
          /\ server'[c].state = IF c = n THEN "live" ELSE server[c].state
          /\ server'[c].family = IF c = n THEN n ELSE server[c].family
    BY <1>2
  <2> QED BY <2>1 DEF Fate, Root, Families!Over
<1>4. n \in Families!Fresh /\ {} \in SUBSET Families!Living
  BY <1>1, FateIs
<1>5. Families!SignIn(n, {})
  BY <1>3 DEF Families!SignIn, Families!Issue
<1> QED BY <1>4, <1>5 DEF FamiliesStep, Families!FamiliesNext

(* A refresh issues a successor of the credential it was sent with. *)
LEMMA RotatesMaps ==
  ASSUME Typed, NEW m \in net, Rotates(m)
  PROVE  FamiliesStep
<1> DEFINE of == m.credential
<1>1. PICK n \in Credential :
        /\ server[n].state = "none"
        /\ server' = [server EXCEPT ![of].state = "rotated", ![n] = server[of]]
  BY DEF Rotates
<1>2. of \in Credential /\ server[of].state = "live" /\ of # n
  BY <1>1, MessageType DEF Rotates, Live
<1> HIDE DEF of
<1>3. ASSUME NEW c \in Credential
      PROVE  /\ server'[c].family = IF c = n THEN server[of].family ELSE server[c].family
             /\ server'[c].state = IF c = n THEN "live"
                                   ELSE IF c = of THEN "rotated" ELSE server[c].state
  <2> DEFINE first == [server EXCEPT ![of].state = "rotated"]
  <2>1. /\ DOMAIN first = Credential
        /\ \A d \in Credential :
             first[d] = IF d = of THEN [server[of] EXCEPT !.state = "rotated"] ELSE server[d]
    BY DEF Typed
  <2>2. server' = [first EXCEPT ![n] = server[of]]
    BY <1>1
  <2> HIDE DEF first
  <2>3. server'[c] = IF c = n THEN server[of] ELSE first[c]
    BY <2>1, <2>2
  <2>4. LET row == [server[of] EXCEPT !.state = "rotated"]
        IN  row.state = "rotated" /\ row.family = server[of].family
    <3>1. server[of] \in Row
      BY <1>2, FateIs
    <3> QED BY <3>1 DEF Row
  <2> QED BY <1>2, <2>1, <2>3, <2>4
<1>4. Fate' = [Families!Over({of}) EXCEPT ![n] = "live"]
  BY <1>3 DEF Fate, Families!Over
<1>5. Root' = [Root EXCEPT ![n] = Root[of]]
  BY <1>2, <1>3 DEF Root
<1>6. n \in Families!Fresh /\ of \in Families!Living
  BY <1>1, <1>2, FateIs
<1>7. Families!Succeed(n, of)
  BY <1>4, <1>5 DEF Families!Succeed, Families!Issue, Families!Settled
<1> QED BY <1>6, <1>7 DEF FamiliesStep, Families!FamiliesNext

(* A detection of reuse and a sign-out end credentials. *)
LEMMA EndsMaps ==
  ASSUME Typed, NEW m \in net, Detects(m) \/ Closes(m)
  PROVE  FamiliesStep
<1>1. CASE server' = server
  BY <1>1 DEF FamiliesStep, Fate, Root
<1>2. ASSUME NEW set, server' = Ended(set), \A d \in set : d \in Credential => Live(d)
      PROVE  FamiliesStep
  <2> DEFINE gone == set \cap Credential
  <2>1. gone \in SUBSET Families!Living
    BY <1>2, FateIs DEF Live
  <2>2. \A c \in Credential :
          /\ server'[c].family = server[c].family
          /\ c \in gone => server'[c].state = "ended"
          /\ c \notin gone => server'[c] = server[c]
    BY <1>2, EndedIs
  <2>3. Fate' = Families!Over(gone) /\ Root' = Root
    BY <2>2 DEF Fate, Root, Families!Over
  <2>4. Families!End(gone)
    BY <2>3 DEF Families!End
  <2> QED BY <2>1, <2>4 DEF FamiliesStep, Families!FamiliesNext
<1> QED BY <1>1, <1>2, EndsSome

(* With any pages and calls, and whatever gets lost, the server of the       *)
(* client's model keeps the promises of CredentialFamilies, as the sessions  *)
(* of AuthSessions do with requests that overlap (rotate_refresh_token).     *)
THEOREM ServerKeepsFamilies == Spec => ImplementsFamilies
<1>1. Init => Families!FamiliesInit
  <2> SUFFICES ASSUME Init PROVE Families!FamiliesInit
    OBVIOUS
  <2>1. Fate = [c \in Credential |-> "none"] /\ Root = [c \in Credential |-> Nothing]
    BY DEF Init, Fate, Root
  <2> QED BY <2>1 DEF Families!FamiliesInit
<1>2. ClientInv /\ [Next]_vars => [Families!FamiliesNext]_<<Fate, Root, {}>>
  <2> SUFFICES ASSUME ClientInv, [Next]_vars PROVE FamiliesStep
    BY DEF FamiliesStep
  <2>1. CASE server' = server
    BY <2>1 DEF FamiliesStep, Fate, Root
  <2>2. CASE server' # server
    <3>1. PICK m \in net : Opens(m) \/ Rotates(m) \/ Detects(m) \/ Closes(m)
      BY <2>2, ServerStep DEF ClientInv
    <3> QED BY <3>1, OpensMaps, RotatesMaps, EndsMaps DEF ClientInv
  <2> QED BY <2>1, <2>2
<1> QED BY <1>1, <1>2, ClientInvariant, PTL
     DEF Spec, ImplementsFamilies, Families!Spec, Families!familyVars
=============================================================================
