---------------------------- MODULE AuthSessions ----------------------------
(***************************************************************************)
(* The sessions and the password of one user.  A session stands for one    *)
(* refresh credential; refreshing replaces it by another one of the same   *)
(* family.  No request locks the rows it decides on: a request that reads  *)
(* and later writes is two steps, and job[r] is what request r has read.   *)
(* A bulk update reads and writes in one statement and is one step.        *)
(*   signing     has verified the password and chosen sessions to drop     *)
(*   refreshing  has read the session of the credential presented          *)
(*   revoking    has read a live session that it is to revoke              *)
(*   forgetting  has expired the reset tokens it saw, and sent a new one   *)
(* A slot of Request is a server that works off one request at a time.     *)
(***************************************************************************)
EXTENDS Naturals, FiniteSets, Sequences

CONSTANTS Session, Token, Request, Nothing,
          Limit   \* max_sessions_per_user

ASSUME SessionsAssumption ==
  /\ Limit \in Nat \ {0}
  /\ Nothing \notin Session \cup Token

VARIABLES sess,      \* [Session -> Row]: auth_sessions
          order,     \* sessions in the order of created_at
          token,     \* [Token -> TokenRow]: password_reset_tokens
          resets,    \* [Token -> Nat]: passwords set by means of a token
          job,       \* [Request -> Job]
          overlapped \* history: two requests were under way at once

vars == <<sess, order, token, resets, job, overlapped>>

(* Of the reasons for which a session is revoked only one matters to what   *)
(* happens later: rotated, when it was refreshed; the others are "ended".   *)
(* `late`: past expires_at, which is only asked of a live session.  A row    *)
(* has as history the session it was refreshed from and whether it goes back *)
(* to a password that was replaced while it was live.                        *)
Row == [state : {"none", "live", "rotated", "ended"}, late : BOOLEAN, family : Session \cup {Nothing},
        from : Session \cup {Nothing}, outdated : BOOLEAN]
NoRow == [state |-> "none", late |-> FALSE, family |-> Nothing, from |-> Nothing,
          outdated |-> FALSE]

Live == {s \in Session : sess[s].state = "live"}
Idle == [at |-> "idle"]

Init ==
  /\ sess = [s \in Session |-> NoRow]
  /\ order = <<>>
  /\ token = [t \in Token |-> "none"]
  /\ resets = [t \in Token |-> 0]
  /\ job = [r \in Request |-> Idle]
  /\ overlapped = FALSE

Begin(r, j) == job[r] = Idle /\ job' = [job EXCEPT ![r] = j]
End(r) == job' = [job EXCEPT ![r] = Idle]

(* The rows of a set of sessions, revoked: whatever they were when written. *)
Revoked(set, reason) ==
  [s \in Session |-> IF s \in set
                     THEN [sess[s] EXCEPT !.state = reason, !.late = FALSE, !.outdated = FALSE]
                     ELSE sess[s]]

Create(s, rows, row) ==
  /\ sess[s].state = "none"
  /\ sess' = [rows EXCEPT ![s] = row]
  /\ order' = Append(order, s)

-----------------------------------------------------------------------------
(* Signing in.  The oldest sessions beyond the limit make room for one. *)

Younger(i) == {j \in i + 1 .. Len(order) : order[j] \in Live}

(* All but the newest live ones that leave room for one more. *)
Excess ==
  {order[i] : i \in {i \in DOMAIN order :
                      order[i] \in Live /\ Cardinality(Younger(i)) >= Limit - 1}}

StartLogin(r) ==
  /\ Begin(r, [at |-> "signing", drop |-> Excess])
  /\ UNCHANGED <<sess, order, token, resets>>

FinishLogin(r, s) ==
  /\ job[r].at = "signing"
  /\ Create(s, Revoked(job[r].drop, "ended"),
            [NoRow EXCEPT !.state = "live", !.family = s])
  /\ End(r)
  /\ UNCHANGED <<token, resets>>

-----------------------------------------------------------------------------
(* Refreshing.  What is done depends on the row as it was read. *)

StartRefresh(r, s) ==
  /\ sess[s].state # "none"
  /\ Begin(r, [at |-> "refreshing", of |-> s, seen |-> sess[s].state, late |-> sess[s].late])
  /\ UNCHANGED <<sess, order, token, resets>>

(* Mutant: the credential presented stays live. *)
Rotate_KeepsOld(r, s) ==
  LET of == job[r].of
  IN  Create(s, sess, [sess[of] EXCEPT !.state = "live", !.late = FALSE, !.from = of])

(* The credential presented is retired, another one of the family issued. *)
Rotate(r, s) ==
  LET of == job[r].of
  IN  Create(s, Revoked({of}, "rotated"), [sess[of] EXCEPT !.state = "live", !.late = FALSE, !.from = of])

FinishRotation(r, s) ==
  /\ job[r].at = "refreshing"
  /\ job[r].seen = "live"
  /\ ~job[r].late
  /\ Rotate(r, s)
  /\ End(r)
  /\ UNCHANGED <<token, resets>>

FamilyOf(s) == {x \in Live : sess[x].family = sess[s].family}

(* A credential that was retired by refreshing and is presented again takes *)
(* its family with it; one that is late is marked expired; any other one is *)
(* refused.                                                                 *)
RefuseRefresh(r) ==
  /\ job[r].at = "refreshing"
  /\ job[r].seen # "live" \/ job[r].late
  /\ sess' = CASE job[r].seen = "rotated" -> Revoked(FamilyOf(job[r].of), "ended")
               [] job[r].seen = "live" -> Revoked({job[r].of}, "ended")
               [] OTHER -> sess
  /\ End(r)
  /\ UNCHANGED <<order, token, resets>>

-----------------------------------------------------------------------------
(* Revoking one session, or all. *)

StartRevoke(r, s) ==
  /\ s \in Live
  /\ Begin(r, [at |-> "revoking", of |-> s])
  /\ UNCHANGED <<sess, order, token, resets>>

FinishRevoke(r) ==
  /\ job[r].at = "revoking"
  /\ sess' = Revoked({job[r].of}, "ended")
  /\ End(r)
  /\ UNCHANGED <<order, token, resets>>

RevokeAll(r) ==
  /\ job[r] = Idle
  /\ sess' = Revoked(Live, "ended")
  /\ UNCHANGED <<order, token, resets, job>>

-----------------------------------------------------------------------------
(* The password.  Verifying the one before restricts nothing here, so a     *)
(* change is one step.                                                      *)

(* A password was set: the sessions that are left go back to an earlier one. *)
Outdated(rows) == [s \in Session |->
  IF rows[s].state = "live" THEN [rows[s] EXCEPT !.outdated = TRUE] ELSE rows[s]]

(* The session that asks for the change survives it, if it is live, and is  *)
(* one that knows the new password.                                         *)
ChangePassword(r, keep) ==
  /\ job[r] = Idle
  /\ sess[keep].state # "none"
  /\ LET rows == Outdated(Revoked(Live \ {keep}, "ended"))
     IN  sess' = [rows EXCEPT ![keep].outdated = FALSE]
  /\ UNCHANGED <<order, token, resets, job>>

(* Expired tokens are pushed to expire again, which changes nothing. *)
Unused == {t \in Token : token[t] = "issued"}

StartForgot(r) ==
  /\ Begin(r, [at |-> "forgetting", expire |-> Unused])
  /\ UNCHANGED <<sess, order, token, resets>>

Superseded(r) == job[r].expire \cap Unused

FinishForgot(r, t) ==
  /\ job[r].at = "forgetting"
  /\ token[t] = "none"
  /\ token' = [x \in Token |-> CASE x = t -> "issued"
                               [] x \in Superseded(r) -> "expired"
                               [] OTHER -> token[x]]
  /\ End(r)
  /\ UNCHANGED <<sess, order, resets>>

(* A token that is being expired is locked until that commits. *)
TokenLocked(t) == \E r \in Request : job[r].at = "forgetting" /\ t \in job[r].expire

(* Mutant: a token can be presented any number of times. *)
UseToken_Again(t) == token[t] # "none" /\ token' = [token EXCEPT ![t] = "used"]

UseToken(t) ==
  /\ token[t] \in {"issued", "expired"}
  /\ token' = [token EXCEPT ![t] = "used"]

(* Mutant: sessions survive a reset. *)
ResetPassword_KeepsSessions(r, t) ==
  /\ job[r] = Idle /\ ~TokenLocked(t)
  /\ token[t] = "issued" /\ UseToken(t)
  /\ sess' = Outdated(sess)
  /\ resets' = [resets EXCEPT ![t] = @ + 1]
  /\ UNCHANGED <<order, job>>

(* Presenting a token uses it up, even if it turns out to have expired.    *)
ResetPassword(r, t) ==
  /\ job[r] = Idle /\ ~TokenLocked(t)
  /\ UseToken(t)
  /\ IF token[t] = "expired"
     THEN UNCHANGED <<sess, resets>>
     ELSE /\ sess' = Outdated(Revoked(Live, "ended"))
          /\ resets' = [resets EXCEPT ![t] = @ + 1]
  /\ UNCHANGED <<order, job>>

-----------------------------------------------------------------------------
(* Time passes, and requests die and leave nothing. *)

LapseSession(s) ==
  /\ s \in Live
  /\ sess' = [sess EXCEPT ![s].late = TRUE]
  /\ UNCHANGED <<order, token, resets, job>>

LapseToken(t) ==
  /\ token[t] = "issued"
  /\ token' = [token EXCEPT ![t] = "expired"]
  /\ UNCHANGED <<sess, order, resets, job>>

Abort(r) ==
  /\ job[r] # Idle
  /\ End(r)
  /\ UNCHANGED <<sess, order, token, resets>>

(* What request r does next. *)
Step(r) ==
  \/ StartLogin(r) \/ FinishRevoke(r) \/ RefuseRefresh(r) \/ Abort(r)
  \/ StartForgot(r) \/ RevokeAll(r)
  \/ \E s \in Session :
       \/ FinishLogin(r, s) \/ StartRefresh(r, s) \/ FinishRotation(r, s)
       \/ StartRevoke(r, s) \/ ChangePassword(r, s)
  \/ \E t \in Token : FinishForgot(r, t) \/ ResetPassword(r, t)

Alone(r) == \A x \in Request \ {r} : job[x] = Idle

Next ==
  \/ \E r \in Request : Step(r) /\ overlapped' = (overlapped \/ ~Alone(r))
  \/ /\ (\E s \in Session : LapseSession(s)) \/ (\E t \in Token : LapseToken(t))
     /\ UNCHANGED overlapped

Spec == Init /\ [][Next]_vars

-----------------------------------------------------------------------------
(* Properties. *)

TypeOK ==
  /\ sess \in [Session -> Row]
  /\ order \in Seq(Session)
  /\ Len(order) = Cardinality({s \in Session : sess[s].state # "none"})
  /\ token \in [Token -> {"none", "issued", "expired", "used"}]
  /\ resets \in [Token -> Nat]
  /\ \A r \in Request : job[r].at \in
       {"idle", "signing", "refreshing", "revoking", "forgetting"}
  /\ overlapped \in BOOLEAN

(* A reset token sets a password at most once, in whatever order it is      *)
(* presented, superseded and expires (consume_password_reset_token).        *)
TokenUsedOnce == \A t \in Token : resets[t] <= 1

(* A credential that was refreshed is not live while a successor of it is,   *)
(* however refreshing, revoking and signing in interleave. Two refreshes of  *)
(* one credential at once may leave two successors alive beside each other.  *)
PredecessorsDead ==
  \A s \in Live : sess[s].from # Nothing => sess[s].from \notin Live

(* What the code keeps as long as requests of a user come one at a time, in  *)
(* any order and with any expiries between them: live sessions do not exceed *)
(* the limit ("Keep the number of active sessions per user within the        *)
(* configured maximum", _prune_session_limit), and go back to the current    *)
(* password, since changing or resetting it ends those that go back to an    *)
(* earlier one (revoke_all_user_sessions).                                   *)
KeptOneAtATime ==
  ~overlapped => /\ Cardinality(Live) <= Limit
                 /\ \A s \in Live : ~sess[s].outdated

(* The sessions, however requests overlap, keep what CredentialFamilies      *)
(* promises: a refresh retires the credential it was given and issues one of *)
(* the same family, only for one that was live when it was presented, and    *)
(* nothing revives a credential (rotate_refresh_token, revoke_session_by_id).*)
Fate == [s \in Session |->
  IF sess[s].state \in {"none", "live"} THEN sess[s].state ELSE "over"]
Root == [s \in Session |-> sess[s].family]
Presents(r) == job[r].at = "refreshing" /\ job[r].seen = "live" /\ ~job[r].late
Presented == {job[r].of : r \in {x \in Request : Presents(x)}}
Families == INSTANCE CredentialFamilies WITH
  Credential <- Session, fate <- Fate, family <- Root, presented <- Presented
ImplementsFamilies == Families!Spec
=============================================================================
