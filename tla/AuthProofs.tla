----------------------------- MODULE AuthProofs -----------------------------
(***************************************************************************)
(* Sessions, reset tokens and sign-in limits, for any number of requests,  *)
(* sessions, tokens, attempts and processes.                               *)
(*                                                                         *)
(* What is proved of the sessions rests on two facts: a credential that is *)
(* once dead never lives again, since only a row that was never used is    *)
(* written as live; and a request that is alone finds what it has read.    *)
(***************************************************************************)
EXTENDS AuthSessions, RateLimiter, FiniteSetTheorems, FunctionTheorems, WellFoundedInduction, TLAPS

-----------------------------------------------------------------------------
(* Types. *)

Signing == [at : {"signing"}, drop : SUBSET Session]
Refreshing == [at : {"refreshing"}, of : Session,
               seen : {"live", "rotated", "ended"}, late : BOOLEAN]
Revoking == [at : {"revoking"}, of : Session]
Forgetting == [at : {"forgetting"}, expire : SUBSET Token]
Jobs == {Idle} \cup Signing \cup Refreshing \cup Revoking \cup Forgetting

(* The sessions that have a row. *)
Used == {s \in Session : sess[s].state # "none"}

Typed ==
  /\ sess \in [Session -> Row]
  /\ order \in Seq(Session)
  /\ token \in [Token -> {"none", "issued", "expired", "used"}]
  /\ resets \in [Token -> Nat]
  /\ job \in [Request -> Jobs]
  /\ overlapped \in BOOLEAN

(* A request only refers to sessions that have a row. *)
Refers(j, used) ==
  /\ j.at = "signing" => j.drop \subseteq used
  /\ j.at \in {"refreshing", "revoking"} => j.of \in used

(* The order lists every row once; requests and rows only refer to rows.   *)
Listed ==
  /\ Used = {order[i] : i \in DOMAIN order}
  /\ \A i, j \in DOMAIN order : order[i] = order[j] => i = j
  /\ IsFiniteSet(Used) /\ Len(order) = Cardinality(Used)
  /\ \A r \in Request : Refers(job[r], Used)
  /\ \A s \in Session : sess[s].from # Nothing => sess[s].from \in Used

(* A token that can still be presented has set no password. *)
TokensFresh == \A t \in Token : token[t] # "used" => resets[t] = 0

(* A request that is alone finds what it has read: room for one session    *)
(* when it signs in, and a live credential when it refreshes one.          *)
FoundAlone ==
  ~overlapped =>
    /\ \A q, r \in Request : job[q] # Idle /\ job[r] # Idle => q = r
    /\ \A r \in Request :
         /\ job[r].at = "signing" => Cardinality(Live \ job[r].drop) <= Limit - 1
         /\ job[r].at = "refreshing" /\ job[r].seen = "live" => job[r].of \in Live

Inv == Typed /\ Listed /\ TokensFresh /\ TokenUsedOnce /\ PredecessorsDead
         /\ FoundAlone /\ KeptOneAtATime

(* A job is told apart by where it is. *)
LEMMA JobKinds ==
  /\ Idle.at = "idle"
  /\ \A j \in Jobs : /\ j.at = "idle" => j = Idle
                     /\ j.at = "signing" => j \in Signing
                     /\ j.at = "refreshing" => j \in Refreshing
                     /\ j.at = "revoking" => j \in Revoking
                     /\ j.at = "forgetting" => j \in Forgetting
                     /\ j.at \in {"idle", "signing", "refreshing", "revoking", "forgetting"}
  <1>1. Idle.at = "idle"
    BY DEF Idle
  <1>2. ASSUME NEW j \in Signing PROVE j.at = "signing"
    BY DEF Signing
  <1>3. ASSUME NEW j \in Refreshing PROVE j.at = "refreshing"
    BY DEF Refreshing
  <1>4. ASSUME NEW j \in Revoking PROVE j.at = "revoking"
    BY DEF Revoking
  <1>5. ASSUME NEW j \in Forgetting PROVE j.at = "forgetting"
    BY DEF Forgetting
  <1> QED BY <1>1, <1>2, <1>3, <1>4, <1>5 DEF Jobs

-----------------------------------------------------------------------------
(* What steps do to the rows. *)

(* The rows of a set of sessions that have one, revoked. *)
LEMMA RevokedRows ==
  ASSUME sess \in [Session -> Row], NEW set, set \subseteq Used,
         NEW reason \in {"rotated", "ended"}
  PROVE  /\ Revoked(set, reason) \in [Session -> Row]
         /\ \A s \in Session :
              /\ Revoked(set, reason)[s].from = sess[s].from
              /\ Revoked(set, reason)[s].state # "none" <=> s \in Used
              /\ Revoked(set, reason)[s].state = "live" <=> s \in Live \ set
              /\ s \notin set => Revoked(set, reason)[s] = sess[s]
  <1>1. \A s \in set : s \in Session /\ sess[s].state # "none"
    BY DEF Used
  <1>2. ASSUME NEW s \in Session, s \in set
        PROVE  /\ [sess[s] EXCEPT !.state = reason, !.late = FALSE, !.outdated = FALSE] \in Row
               /\ [sess[s] EXCEPT !.state = reason, !.late = FALSE, !.outdated = FALSE].state = reason
               /\ [sess[s] EXCEPT !.state = reason, !.late = FALSE, !.outdated = FALSE].from = sess[s].from
    BY DEF Row
  <1> QED BY <1>1, <1>2 DEF Revoked, Used, Live

(* Rows marked as going back to an earlier password. *)
LEMMA OutdatedRows ==
  ASSUME NEW rows \in [Session -> Row]
  PROVE  /\ Outdated(rows) \in [Session -> Row]
         /\ \A s \in Session : /\ Outdated(rows)[s].from = rows[s].from
                               /\ Outdated(rows)[s].state = rows[s].state
  BY DEF Outdated, Row

(* A step after which no row is new and no dead one lives. *)
Wanes ==
  /\ order' = order
  /\ sess' \in [Session -> Row]
  /\ Used' = Used
  /\ Live' \subseteq Live
  /\ \A s \in Session : sess'[s].from = sess[s].from

(* A step that writes a live session into an unused row, and lets a set of *)
(* sessions die that have one.                                             *)
Issues(s, dead, from) ==
  /\ s \in Session \ Used
  /\ order' = Append(order, s)
  /\ sess' \in [Session -> Row]
  /\ Used' = Used \cup {s}
  /\ Live' = (Live \ dead) \cup {s}
  /\ sess'[s].from = from
  /\ \A x \in Session \ {s} : sess'[x].from = sess[x].from
  /\ \A x \in Live \ dead : sess'[x] = sess[x]

(* To create a session is to issue its row and to revoke others. *)
LEMMA CreateIssues ==
  ASSUME sess \in [Session -> Row], NEW s \in Session, NEW dead, dead \subseteq Used,
         NEW reason \in {"rotated", "ended"}, NEW row \in Row, row.state = "live",
         Create(s, Revoked(dead, reason), row)
  PROVE  Issues(s, dead, row.from) /\ sess'[s] = row
  <1> DEFINE rows == Revoked(dead, reason)
  <1>1. /\ rows \in [Session -> Row]
        /\ \A x \in Session : /\ rows[x].from = sess[x].from
                              /\ rows[x].state # "none" <=> x \in Used
                              /\ rows[x].state = "live" <=> x \in Live \ dead
                              /\ x \notin dead => rows[x] = sess[x]
    BY RevokedRows
  <1>2. sess' = [rows EXCEPT ![s] = row] /\ order' = Append(order, s) /\ s \notin Used
    BY DEF Create, Used
  <1> HIDE DEF rows
  <1>3. sess' \in [Session -> Row] /\ sess'[s] = row
          /\ \A x \in Session \ {s} : sess'[x] = rows[x]
    BY <1>1, <1>2
  <1>4. Used' = Used \cup {s}
    BY <1>1, <1>3 DEF Used
  <1>5. Live' = (Live \ dead) \cup {s}
    BY <1>1, <1>3 DEF Live
  <1>6. \A x \in Live \ dead : x \in Session \ {s} /\ sess'[x] = sess[x]
    BY <1>1, <1>2, <1>3 DEF Live, Used
  <1> QED BY <1>1, <1>2, <1>3, <1>4, <1>5, <1>6 DEF Issues
(* Neither leaves a predecessor alive or a row unlisted. *)
LEMMA WaningKeeps ==
  ASSUME Listed, PredecessorsDead, Wanes, \A r \in Request : Refers(job'[r], Used)
  PROVE  Listed' /\ PredecessorsDead'
  <1>2. Listed'
    BY DEF Listed, Wanes
  <1>3. \A s \in Live' : s \in Live /\ sess'[s].from = sess[s].from
    BY DEF Wanes, Live
  <1> QED BY <1>2, <1>3 DEF PredecessorsDead, Wanes

(* To issue a row keeps the order of sessions and leaves predecessors dead. *)
LEMMA IssueKeeps ==
  ASSUME Typed, Listed, PredecessorsDead, NEW s, NEW dead, NEW from,
         Issues(s, dead, from), from # Nothing => from \in Used /\ from \notin Live \ dead,
         \A r \in Request : Refers(job'[r], Used)
  PROVE  Listed' /\ PredecessorsDead'
  <1>1. s \in Session /\ s \notin Used /\ Used' = Used \cup {s} /\ order' = Append(order, s)
    BY DEF Issues
  <1>2. \A r \in Request : Refers(job'[r], Used')
    BY <1>1 DEF Refers
  <1>3. /\ order' \in Seq(Session) /\ Len(order') = Len(order) + 1
        /\ \A i \in DOMAIN order' :
             order'[i] = IF i = Len(order) + 1 THEN s ELSE order[i]
        /\ DOMAIN order = 1 .. Len(order) /\ DOMAIN order' = 1 .. Len(order) + 1
        /\ Len(order) \in Nat
    BY <1>1 DEF Typed
  <1>4. /\ Used = {order[i] : i \in DOMAIN order}
        /\ \A i, j \in DOMAIN order : order[i] = order[j] => i = j
        /\ IsFiniteSet(Used) /\ Len(order) = Cardinality(Used)
    BY DEF Listed
  <1> DEFINE last == Len(order) + 1
  <1>10. /\ last \in DOMAIN order' /\ order'[last] = s
         /\ \A i \in DOMAIN order : i \in DOMAIN order' /\ order'[i] = order[i]
         /\ \A i \in DOMAIN order' : i = last \/ i \in DOMAIN order
    BY <1>3
  <1> HIDE DEF last
  <1>5. Used' = {order'[i] : i \in DOMAIN order'}
    BY <1>1, <1>4, <1>10
  <1>6. \A i, j \in DOMAIN order' : order'[i] = order'[j] => i = j
    <2>1. \A i \in DOMAIN order : order[i] # s
      BY <1>1, <1>4
    <2> QED BY <1>4, <1>10, <2>1
  <1>7. IsFiniteSet(Used') /\ Len(order') = Cardinality(Used')
    <2>1. IsFiniteSet(Used) /\ s \notin Used /\ Used' = Used \cup {s}
      BY <1>1, <1>4
    <2>2. IsFiniteSet(Used \cup {s}) /\ Cardinality(Used \cup {s}) = Cardinality(Used) + 1
      BY SMTT(30), <2>1, FS_AddElement
    <2>3. Len(order') = Len(order) + 1 /\ Len(order) = Cardinality(Used)
      BY <1>3, <1>4
    <2> QED BY <2>1, <2>2, <2>3
  <1>8. \A x \in Session : sess'[x].from # Nothing => sess'[x].from \in Used'
    BY <1>1 DEF Issues, Listed
  <1>9. PredecessorsDead'
    <2>1. SUFFICES ASSUME NEW x \in Live', sess'[x].from # Nothing
                   PROVE  sess'[x].from \notin Live'
      BY DEF PredecessorsDead
    <2>2. Live' = (Live \ dead) \cup {s} /\ Live \subseteq Session
      BY DEF Issues, Live
    <2>3. CASE x = s
      BY <1>1, <2>1, <2>2, <2>3 DEF Issues
    <2>4. CASE x # s
      <3>1. x \in Live \ dead /\ x \in Session /\ sess'[x].from = sess[x].from
        BY <2>1, <2>2, <2>4 DEF Issues
      <3>2. sess[x].from \in Used /\ sess[x].from \notin Live
        BY <2>1, <3>1 DEF Listed, PredecessorsDead
      <3> QED BY <1>1, <2>2, <3>1, <3>2
    <2> QED BY <2>3, <2>4
  <1> QED BY <1>2, <1>5, <1>6, <1>7, <1>8, <1>9 DEF Listed

-----------------------------------------------------------------------------
(* Room for one session. *)

(* A set of naturals that is not empty has a least element. *)
LEMMA Least ==
  ASSUME NEW S \in SUBSET Nat, S # {}
  PROVE  \E n \in S : \A m \in S : n <= m
  <1>1. PICK n \in S : \A m \in S : ~ (<<m, n>> \in OpToRel(<, Nat))
    BY WFMin, NatLessThanWellFounded
  <1>2. \A m \in S : ~ (m < n)
    BY <1>1 DEF OpToRel
  <1> QED BY <1>2

(* Without the sessions that a sign-in drops, there is room for one more:  *)
(* the oldest that is left has fewer younger ones than the limit leaves.   *)
LEMMA RoomMade ==
  ASSUME Typed, Listed
  PROVE  Cardinality(Live \ Excess) <= Limit - 1
  <1> DEFINE left == Live \ Excess
             places == {i \in DOMAIN order : order[i] \in left}
  <1>1. Limit - 1 \in Nat
    BY SessionsAssumption
  <1>2. Live \subseteq Used
    BY DEF Live, Used
  <1>3. IsFiniteSet(left)
    BY <1>2, FS_Subset DEF Listed
  <1>4. CASE left = {}
    BY <1>1, <1>4, FS_EmptySet
  <1>5. CASE left # {}
    <2>1. places # {} /\ places \subseteq Nat
      BY <1>2, <1>5 DEF Listed, Typed
    <2>2. PICK i \in places : \A j \in places : i <= j
      BY <2>1, Least
    <2>3. i \in DOMAIN order /\ order[i] \in left /\ order[i] \in Live
      BY <2>2
    <2>4. ~ (Cardinality(Younger(i)) >= Limit - 1)
      BY <2>3 DEF Excess
    <2>5. IsFiniteSet(Younger(i)) /\ Cardinality(Younger(i)) \in Nat
      <3>1. i + 1 \in Int /\ Len(order) \in Int
        BY <2>3 DEF Typed
      <3>2. IsFiniteSet(i + 1 .. Len(order)) /\ Younger(i) \subseteq i + 1 .. Len(order)
        BY <3>1, FS_Interval DEF Younger
      <3> QED BY <3>2, FS_Subset, FS_CardinalityType
    <2>6. left \ {order[i]} \subseteq {order[j] : j \in Younger(i)}
      <3>1. SUFFICES ASSUME NEW s \in left, s # order[i]
                     PROVE  \E j \in Younger(i) : s = order[j]
        OBVIOUS
      <3>2. PICK j \in DOMAIN order : s = order[j]
        BY <1>2 DEF Listed
      <3>3. j \in places /\ j # i
        BY <3>1, <3>2
      <3>4. j \in i + 1 .. Len(order)
        BY <2>2, <2>3, <3>2, <3>3 DEF Typed
      <3> QED BY <3>2, <3>4 DEF Younger
    <2>7. /\ IsFiniteSet({order[j] : j \in Younger(i)})
          /\ Cardinality({order[j] : j \in Younger(i)}) <= Cardinality(Younger(i))
      <3> DEFINE T == {order[j] : j \in Younger(i)}
      <3>1. [j \in Younger(i) |-> order[j]] \in Surjection(Younger(i), T)
        BY DEF Surjection
      <3> QED BY <2>5, <3>1, FS_Surjection
    <2>8. Cardinality(left \ {order[i]}) <= Cardinality(Younger(i))
      BY <2>5, <2>6, <2>7, FS_Subset, FS_CardinalityType
    <2>9. Cardinality(left \ {order[i]}) = Cardinality(left) - 1 /\ Cardinality(left) \in Nat
      BY <1>3, <2>3, FS_RemoveElement, FS_CardinalityType
    <2> QED BY <1>1, <2>4, <2>5, <2>8, <2>9
  <1> QED BY <1>4, <1>5
-----------------------------------------------------------------------------
(* The steps of a request r, and those of time. *)

(* What is left to show of a step of r that was alone. *)
AloneKeeps(r) ==
  /\ job'[r].at = "signing" => Cardinality(Live' \ job'[r].drop) <= Limit - 1
  /\ job'[r].at = "refreshing" /\ job'[r].seen = "live" => job'[r].of \in Live'
  /\ Cardinality(Live') <= Limit
  /\ \A s \in Live' : ~ sess'[s].outdated

(* The rest of the invariant after a step of r, and of the other requests. *)
RestKeeps(r) ==
  /\ job' \in [Request -> Jobs]
  /\ \A q \in Request \ {r} : job'[q] = job[q]
  /\ sess' \in [Session -> Row]
  /\ order' \in Seq(Session)
  /\ Listed' /\ PredecessorsDead'
  /\ (~overlapped /\ Alone(r)) => AloneKeeps(r)

TokensKept ==
  /\ token' \in [Token -> {"none", "issued", "expired", "used"}]
  /\ resets' \in [Token -> Nat]
  /\ TokensFresh' /\ TokenUsedOnce'

(* What touches no token keeps what was proved about them. *)
LEMMA TokensUnchanged ==
  ASSUME Inv, token' = token, resets' = resets
  PROVE  TokensKept
  BY DEF Inv, Typed, TokensKept, TokensFresh, TokenUsedOnce

(* A step of r that begins or ends a request and leaves the rows alone. *)
LEMMA RowsUnchanged ==
  ASSUME Inv, NEW r \in Request, NEW j \in Jobs, job' = [job EXCEPT ![r] = j],
         sess' = sess, order' = order, Refers(j, Used),
         j.at = "signing" => Cardinality(Live \ j.drop) <= Limit - 1,
         j.at = "refreshing" /\ j.seen = "live" => j.of \in Live
  PROVE  RestKeeps(r)
  <1>1. /\ job' \in [Request -> Jobs] /\ job'[r] = j
        /\ \A q \in Request \ {r} : job'[q] = job[q]
    BY DEF Inv, Typed
  <1>2. Wanes /\ Live' = Live
    BY DEF Inv, Typed, Wanes, Used, Live
  <1>3. \A q \in Request : Refers(job'[q], Used)
    BY <1>1 DEF Inv, Listed
  <1>4. Listed' /\ PredecessorsDead'
    BY <1>2, <1>3, WaningKeeps DEF Inv
  <1>5. ~overlapped => AloneKeeps(r)
    BY <1>1, <1>2 DEF Inv, KeptOneAtATime, AloneKeeps
  <1> QED BY <1>1, <1>4, <1>5 DEF RestKeeps, Inv, Typed

(* A step of r after which it is idle, and fewer sessions live. *)
LEMMA RowsWane ==
  ASSUME Inv, NEW r \in Request, job' = [job EXCEPT ![r] = Idle], Wanes,
         \A s \in Live' : sess'[s].outdated => sess[s].outdated
  PROVE  RestKeeps(r)
  <1>1. Idle \in Jobs /\ Idle.at = "idle"
    BY JobKinds DEF Jobs
  <1>2. /\ job' \in [Request -> Jobs] /\ job'[r] = Idle
        /\ \A q \in Request \ {r} : job'[q] = job[q]
    BY <1>1 DEF Inv, Typed
  <1>3. \A q \in Request : Refers(job'[q], Used)
    BY <1>1, <1>2 DEF Inv, Listed, Refers
  <1>4. Listed' /\ PredecessorsDead'
    BY <1>3, WaningKeeps DEF Inv
  <1>5. ASSUME ~overlapped PROVE AloneKeeps(r)
    <2>1. IsFiniteSet(Live) /\ Live' \subseteq Live
      <3>1. Live \subseteq Used /\ IsFiniteSet(Used)
        BY DEF Inv, Listed, Live, Used
      <3> QED BY <3>1, FS_Subset DEF Wanes
    <2>2. Cardinality(Live') <= Cardinality(Live) /\ Cardinality(Live') \in Nat
            /\ Cardinality(Live) \in Nat
      BY <2>1, FS_Subset, FS_CardinalityType
    <2>3. Cardinality(Live) <= Limit /\ \A s \in Live : ~sess[s].outdated
      BY <1>5 DEF Inv, KeptOneAtATime
    <2>4. Limit \in Nat
      BY SessionsAssumption
    <2> QED BY <1>1, <1>2, <2>1, <2>2, <2>3, <2>4 DEF AloneKeeps
  <1> QED BY <1>2, <1>4, <1>5 DEF RestKeeps, Inv, Typed, Wanes

(* A step of r that issues a credential and ends the request. *)
LEMMA RowsIssue ==
  ASSUME Inv, NEW r \in Request, job' = [job EXCEPT ![r] = Idle],
         NEW s \in Session, NEW dead, dead \subseteq Used, NEW from, Issues(s, dead, from),
         from # Nothing => from \in Used /\ from \notin Live \ dead,
         ~overlapped => Cardinality(Live \ dead) <= Limit - 1 /\ ~ sess'[s].outdated
  PROVE  RestKeeps(r)
  <1>1. Idle \in Jobs /\ Idle.at = "idle"
    BY JobKinds DEF Jobs
  <1>2. /\ job' \in [Request -> Jobs] /\ job'[r] = Idle
        /\ \A q \in Request \ {r} : job'[q] = job[q]
    BY <1>1 DEF Inv, Typed
  <1>3. \A q \in Request : Refers(job'[q], Used)
    BY <1>1, <1>2 DEF Inv, Listed, Refers
  <1>4. Listed' /\ PredecessorsDead'
    BY <1>3, IssueKeeps DEF Inv
  <1>5. order' \in Seq(Session) /\ sess' \in [Session -> Row]
    BY DEF Issues, Inv, Typed
  <1>6. ASSUME ~overlapped PROVE AloneKeeps(r)
    <2>1. Live' = (Live \ dead) \cup {s} /\ \A x \in Live \ dead : sess'[x] = sess[x]
      BY DEF Issues
    <2>2. IsFiniteSet(Live \ dead) /\ s \notin Live \ dead
      <3>1. Live \subseteq Used /\ IsFiniteSet(Used) /\ s \notin Used
        BY DEF Inv, Listed, Live, Used, Issues
      <3> QED BY <3>1, FS_Subset
    <2>3. Cardinality(Live') = Cardinality(Live \ dead) + 1 /\ Cardinality(Live \ dead) \in Nat
      BY <2>1, <2>2, FS_AddElement, FS_CardinalityType
    <2>4. Cardinality(Live') <= Limit
      BY <1>6, <2>3, SessionsAssumption
    <2>5. \A x \in Live' : ~ sess'[x].outdated
      BY <1>6, <2>1 DEF Inv, KeptOneAtATime
    <2> QED BY <1>1, <1>2, <2>4, <2>5 DEF AloneKeeps
  <1> QED BY <1>2, <1>4, <1>5, <1>6 DEF RestKeeps
(* Revoking a set of sessions lets them die and changes no other row. *)
LEMMA RevokeWanes ==
  ASSUME Inv, NEW set, set \subseteq Used, NEW reason \in {"rotated", "ended"},
         sess' = Revoked(set, reason), order' = order
  PROVE  Wanes /\ \A s \in Live' : sess'[s].outdated => sess[s].outdated
  <1>1. /\ sess' \in [Session -> Row]
        /\ \A s \in Session : /\ sess'[s].from = sess[s].from
                              /\ sess'[s].state # "none" <=> s \in Used
                              /\ sess'[s].state = "live" <=> s \in Live \ set
                              /\ s \notin set => sess'[s] = sess[s]
    BY RevokedRows DEF Inv, Typed
  <1>2. Used' = Used
    BY <1>1 DEF Used
  <1>3. Live' = Live \ set
    BY <1>1 DEF Live
  <1> QED BY <1>1, <1>2, <1>3 DEF Wanes, Live

(* How the sets of sessions lie in one another. *)
LEMMA Sets == Live \subseteq Used /\ Live \subseteq Session /\ Excess \subseteq Live
                /\ Used \subseteq Session
  BY DEF Live, Used, Excess

(* To leave the job of an idle request alone is to set it to idle. *)
LEMMA IdleJob ==
  ASSUME Inv, NEW r \in Request, job[r] = Idle, job' = job
  PROVE  job' = [job EXCEPT ![r] = Idle]
  BY DEF Inv, Typed

(* Sign-in touches no token, and no other request. *)
LEMMA LoginSteps ==
  ASSUME Inv, NEW r \in Request,
         StartLogin(r) \/ \E s \in Session : FinishLogin(r, s)
  PROVE  RestKeeps(r) /\ TokensKept
  <1>1. CASE StartLogin(r)
    <2> DEFINE j == [at |-> "signing", drop |-> Excess]
    <2>1. j \in Jobs /\ j.at = "signing" /\ j.drop = Excess
      BY Sets DEF Jobs, Signing
    <2>2. Refers(j, Used) /\ Cardinality(Live \ j.drop) <= Limit - 1
      BY <2>1, Sets, RoomMade DEF Refers, Inv
    <2>3. job' = [job EXCEPT ![r] = j] /\ sess' = sess /\ order' = order
            /\ token' = token /\ resets' = resets
      BY <1>1 DEF StartLogin, Begin
    <2> HIDE DEF j
    <2> QED BY <2>1, <2>2, <2>3, RowsUnchanged, TokensUnchanged
  <1>2. ASSUME NEW s \in Session, FinishLogin(r, s)
        PROVE  RestKeeps(r) /\ TokensKept
    <2> DEFINE row == [NoRow EXCEPT !.state = "live", !.family = s]
               drop == job[r].drop
    <2>1. row \in Row /\ row.state = "live" /\ row.from = Nothing /\ row.outdated = FALSE
      BY DEF NoRow, Row
    <2>2. job[r].at = "signing" /\ drop \subseteq Used
      BY <1>2 DEF FinishLogin, Inv, Listed, Refers
    <2>3. Create(s, Revoked(drop, "ended"), row) /\ job' = [job EXCEPT ![r] = Idle]
            /\ token' = token /\ resets' = resets
      BY <1>2 DEF FinishLogin, End
    <2>4. ~overlapped => Cardinality(Live \ drop) <= Limit - 1
      BY <2>2 DEF Inv, FoundAlone
    <2> HIDE DEF row, drop
    <2>5. Issues(s, drop, Nothing) /\ sess'[s] = row
      BY <2>1, <2>2, <2>3, CreateIssues DEF Inv, Typed
    <2> QED BY <2>1, <2>2, <2>3, <2>4, <2>5, RowsIssue, TokensUnchanged
  <1> QED BY <1>1, <1>2

(* Nor does a refresh. *)
LEMMA RefreshSteps ==
  ASSUME Inv, NEW r \in Request,
         \/ RefuseRefresh(r)
         \/ \E s \in Session : StartRefresh(r, s) \/ FinishRotation(r, s)
  PROVE  RestKeeps(r) /\ TokensKept
  <1>1. ASSUME NEW s \in Session, StartRefresh(r, s)
        PROVE  RestKeeps(r) /\ TokensKept
    <2> DEFINE j == [at |-> "refreshing", of |-> s, seen |-> sess[s].state, late |-> sess[s].late]
    <2>1. sess[s] \in Row /\ sess[s].state # "none" /\ s \in Used
      BY <1>1 DEF StartRefresh, Inv, Typed, Used
    <2>2. j \in Jobs /\ j.at = "refreshing" /\ j.of = s /\ j.seen = sess[s].state
      BY <2>1 DEF Jobs, Refreshing, Row
    <2>3. Refers(j, Used) /\ (j.seen = "live" => j.of \in Live)
      BY <2>1, <2>2 DEF Refers, Live
    <2>4. job' = [job EXCEPT ![r] = j] /\ sess' = sess /\ order' = order
            /\ token' = token /\ resets' = resets
      BY <1>1 DEF StartRefresh, Begin
    <2> HIDE DEF j
    <2> QED BY <2>2, <2>3, <2>4, RowsUnchanged, TokensUnchanged
  <1>2. job[r].at = "refreshing" => job[r].of \in Used
    BY DEF Inv, Listed, Refers
  <1>3. ASSUME NEW s \in Session, FinishRotation(r, s)
        PROVE  RestKeeps(r) /\ TokensKept
    <2> DEFINE of == job[r].of
               row == [sess[of] EXCEPT !.state = "live", !.late = FALSE, !.from = of]
    <2>1. job[r].at = "refreshing" /\ job[r].seen = "live" /\ of \in Used /\ of \in Session
      BY <1>2, <1>3, Sets DEF FinishRotation
    <2>2. sess[of] \in Row
      BY <2>1 DEF Inv, Typed
    <2>3. row \in Row /\ row.state = "live" /\ row.from = of
            /\ row.outdated = sess[of].outdated
      BY <2>1, <2>2 DEF Row
    <2>4. Create(s, Revoked({of}, "rotated"), row) /\ job' = [job EXCEPT ![r] = Idle]
            /\ token' = token /\ resets' = resets
      BY <1>3 DEF FinishRotation, Rotate, End
    <2>5. ~overlapped => Cardinality(Live \ {of}) <= Limit - 1 /\ ~ sess[of].outdated
      <3>1. SUFFICES ASSUME ~overlapped
                     PROVE  Cardinality(Live \ {of}) <= Limit - 1 /\ ~ sess[of].outdated
        OBVIOUS
      <3>2. of \in Live /\ ~ sess[of].outdated /\ Cardinality(Live) <= Limit
        BY <2>1, <3>1 DEF Inv, FoundAlone, KeptOneAtATime
      <3>3. IsFiniteSet(Live)
        BY Sets, FS_Subset DEF Inv, Listed
      <3> HIDE DEF of
      <3>4. Cardinality(Live \ {of}) = Cardinality(Live) - 1 /\ Cardinality(Live) \in Nat
        BY <3>2, <3>3, FS_RemoveElement, FS_CardinalityType
      <3> QED BY <3>2, <3>4, SessionsAssumption
    <2> HIDE DEF of, row
    <2>6. {of} \subseteq Used
      BY <2>1
    <2>7. Issues(s, {of}, of) /\ sess'[s] = row
      BY <2>3, <2>4, <2>6, CreateIssues DEF Inv, Typed
    <2>8. of \in Used /\ of \notin Live \ {of}
      BY <2>1
    <2> QED BY <2>3, <2>4, <2>5, <2>6, <2>7, <2>8, RowsIssue, TokensUnchanged
  <1>4. CASE RefuseRefresh(r)
    <2>1. /\ job[r].of \in Used /\ job' = [job EXCEPT ![r] = Idle]
          /\ order' = order /\ token' = token /\ resets' = resets
      BY <1>2, <1>4 DEF RefuseRefresh, End
    <2>2. FamilyOf(job[r].of) \subseteq Used
      BY Sets DEF FamilyOf
    <2>3. \/ \E set : set \subseteq Used /\ sess' = Revoked(set, "ended")
          \/ sess' = sess
      BY <1>4, <2>1, <2>2 DEF RefuseRefresh
    <2>4. Wanes /\ \A s \in Live' : sess'[s].outdated => sess[s].outdated
      <3>1. CASE sess' = sess
        BY <2>1, <3>1 DEF Wanes, Used, Live, Inv, Typed
      <3> QED BY <2>1, <2>3, <3>1, RevokeWanes
    <2> QED BY <2>1, <2>4, RowsWane, TokensUnchanged
  <1> QED BY <1>1, <1>3, <1>4
(* Nor does a revocation. *)
LEMMA RevokeSteps ==
  ASSUME Inv, NEW r \in Request,
         \/ FinishRevoke(r) \/ RevokeAll(r) \/ Abort(r)
         \/ \E s \in Session : StartRevoke(r, s)
  PROVE  RestKeeps(r) /\ TokensKept
  <1>1. CASE FinishRevoke(r)
    <2>1. {job[r].of} \subseteq Used
      BY <1>1 DEF FinishRevoke, Inv, Listed, Refers
    <2>2. /\ sess' = Revoked({job[r].of}, "ended") /\ order' = order
          /\ job' = [job EXCEPT ![r] = Idle] /\ token' = token /\ resets' = resets
      BY <1>1 DEF FinishRevoke, End
    <2>3. Wanes /\ \A s \in Live' : sess'[s].outdated => sess[s].outdated
      BY <2>1, <2>2, RevokeWanes
    <2> QED BY <2>2, <2>3, RowsWane, TokensUnchanged
  <1>2. CASE RevokeAll(r)
    <2>1. /\ sess' = Revoked(Live, "ended") /\ order' = order
          /\ job' = [job EXCEPT ![r] = Idle] /\ token' = token /\ resets' = resets
      BY <1>2, IdleJob DEF RevokeAll
    <2>2. Wanes /\ \A s \in Live' : sess'[s].outdated => sess[s].outdated
      BY <2>1, Sets, RevokeWanes
    <2> QED BY <2>1, <2>2, RowsWane, TokensUnchanged
  <1>3. CASE Abort(r)
    <2>1. Idle \in Jobs /\ Idle.at = "idle" /\ Refers(Idle, Used)
      BY JobKinds DEF Jobs, Refers
    <2>2. /\ job' = [job EXCEPT ![r] = Idle] /\ sess' = sess /\ order' = order
          /\ token' = token /\ resets' = resets
      BY <1>3 DEF Abort, End
    <2> QED BY <2>1, <2>2, RowsUnchanged, TokensUnchanged
  <1>4. ASSUME NEW s \in Session, StartRevoke(r, s)
        PROVE  RestKeeps(r) /\ TokensKept
    <2> DEFINE j == [at |-> "revoking", of |-> s]
    <2>1. j \in Jobs /\ j.at = "revoking" /\ j.of = s
      BY DEF Jobs, Revoking
    <2>2. Refers(j, Used)
      BY <1>4, <2>1, Sets DEF Refers, StartRevoke
    <2>3. job' = [job EXCEPT ![r] = j] /\ sess' = sess /\ order' = order
            /\ token' = token /\ resets' = resets
      BY <1>4 DEF StartRevoke, Begin
    <2> HIDE DEF j
    <2> QED BY <2>1, <2>2, <2>3, RowsUnchanged, TokensUnchanged
  <1> QED BY <1>1, <1>2, <1>3, <1>4

(* The rows after a password was set, with all sessions but some revoked. *)
LEMMA PasswordRows ==
  ASSUME Inv, NEW set, set \subseteq Used
  PROVE  LET rows == Outdated(Revoked(set, "ended"))
         IN  /\ rows \in [Session -> Row]
             /\ \A s \in Session : /\ rows[s].from = sess[s].from
                                   /\ rows[s].state # "none" <=> s \in Used
                                   /\ rows[s].state = "live" <=> s \in Live \ set
  <1> DEFINE first == Revoked(set, "ended")
  <1>1. /\ first \in [Session -> Row]
        /\ \A s \in Session : /\ first[s].from = sess[s].from
                              /\ first[s].state # "none" <=> s \in Used
                              /\ first[s].state = "live" <=> s \in Live \ set
    BY RevokedRows DEF Inv, Typed
  <1> HIDE DEF first
  <1>2. /\ Outdated(first) \in [Session -> Row]
        /\ \A s \in Session : /\ Outdated(first)[s].from = first[s].from
                              /\ Outdated(first)[s].state = first[s].state
    BY <1>1, OutdatedRows
  <1> QED BY <1>1, <1>2 DEF first

(* A token is made unused, and used up by the reset that finds it unused. *)
LEMMA PasswordSteps ==
  ASSUME Inv, NEW r \in Request,
         \/ StartForgot(r)
         \/ \E s \in Session : ChangePassword(r, s)
         \/ \E t \in Token : FinishForgot(r, t) \/ ResetPassword(r, t)
  PROVE  RestKeeps(r) /\ TokensKept
  <1>1. CASE StartForgot(r)
    <2> DEFINE j == [at |-> "forgetting", expire |-> Unused]
    <2>1. j \in Jobs /\ j.at = "forgetting"
      BY DEF Jobs, Forgetting, Unused
    <2>2. Refers(j, Used)
      BY <2>1 DEF Refers
    <2>3. job' = [job EXCEPT ![r] = j] /\ sess' = sess /\ order' = order
            /\ token' = token /\ resets' = resets
      BY <1>1 DEF StartForgot, Begin
    <2> HIDE DEF j
    <2> QED BY <2>1, <2>2, <2>3, RowsUnchanged, TokensUnchanged
  <1>2. ASSUME NEW keep \in Session, ChangePassword(r, keep)
        PROVE  RestKeeps(r) /\ TokensKept
    <2> DEFINE rows == Outdated(Revoked(Live \ {keep}, "ended"))
    <2>1. Live \ {keep} \subseteq Used
      BY Sets
    <2>2. /\ rows \in [Session -> Row]
          /\ \A s \in Session : /\ rows[s].from = sess[s].from
                                /\ rows[s].state # "none" <=> s \in Used
                                /\ rows[s].state = "live" <=> s \in Live \ (Live \ {keep})
      BY <2>1, PasswordRows
    <2>3. /\ sess' = [rows EXCEPT ![keep].outdated = FALSE] /\ order' = order
          /\ job' = [job EXCEPT ![r] = Idle] /\ token' = token /\ resets' = resets
      BY <1>2, IdleJob DEF ChangePassword
    <2> HIDE DEF rows
    <2>4. rows[keep] \in Row
      BY <2>2
    <2>5. /\ sess' \in [Session -> Row]
          /\ \A s \in Session : sess'[s].from = rows[s].from /\ sess'[s].state = rows[s].state
          /\ sess'[keep].outdated = FALSE
      BY <2>2, <2>3, <2>4 DEF Row
    <2>6. Used' = Used
      BY <2>2, <2>5 DEF Used
    <2>7. Live' = Live \ (Live \ {keep})
      BY <2>2, <2>5 DEF Live
    <2>8. Wanes /\ \A s \in Live' : sess'[s].outdated => sess[s].outdated
      BY <2>2, <2>3, <2>5, <2>6, <2>7 DEF Wanes
    <2> QED BY <2>3, <2>8, RowsWane, TokensUnchanged
  <1>3. Idle \in Jobs /\ Idle.at = "idle" /\ Refers(Idle, Used)
    BY JobKinds DEF Jobs, Refers
  <1>4. ASSUME NEW t \in Token, FinishForgot(r, t)
        PROVE  RestKeeps(r) /\ TokensKept
    <2>1. job' = [job EXCEPT ![r] = Idle] /\ sess' = sess /\ order' = order /\ resets' = resets
      BY <1>4 DEF FinishForgot, End
    <2>2. RestKeeps(r)
      BY <1>3, <2>1, RowsUnchanged
    <2>3. \A x \in Token : /\ token'[x] \in {"none", "issued", "expired", "used"}
                           /\ token'[x] # "used" => token[x] # "used"
      BY <1>4 DEF FinishForgot, Inv, Typed, Superseded, Unused
    <2>4. token' \in [Token -> {"none", "issued", "expired", "used"}]
      BY <1>4, <2>3 DEF FinishForgot
    <2> QED BY <2>1, <2>2, <2>3, <2>4 DEF TokensKept, Inv, Typed, TokensFresh, TokenUsedOnce
  <1>5. ASSUME NEW t \in Token, ResetPassword(r, t)
        PROVE  RestKeeps(r) /\ TokensKept
    <2>1. /\ order' = order /\ job' = [job EXCEPT ![r] = Idle]
          /\ token[t] # "used" /\ token' = [token EXCEPT ![t] = "used"]
      BY <1>5, IdleJob DEF ResetPassword, UseToken
    <2>2. \/ sess' = sess /\ resets' = resets
          \/ sess' = Outdated(Revoked(Live, "ended")) /\ resets' = [resets EXCEPT ![t] = @ + 1]
      BY <1>5 DEF ResetPassword
    <2>3. TokensKept
      <3>1. resets[t] = 0
        BY <2>1 DEF Inv, TokensFresh
      <3>2. /\ token' \in [Token -> {"none", "issued", "expired", "used"}]
            /\ token'[t] = "used" /\ \A x \in Token \ {t} : token'[x] = token[x]
        BY <2>1 DEF Inv, Typed
      <3>3. /\ resets' \in [Token -> Nat] /\ resets'[t] <= 1
            /\ \A x \in Token \ {t} : resets'[x] = resets[x]
        BY <2>2, <3>1 DEF Inv, Typed
      <3> QED BY <3>2, <3>3 DEF TokensKept, Inv, TokensFresh, TokenUsedOnce
    <2>4. CASE sess' = sess
      BY <1>3, <2>1, <2>3, <2>4, RowsUnchanged
    <2>5. CASE sess' = Outdated(Revoked(Live, "ended"))
      <3>1. /\ sess' \in [Session -> Row]
            /\ \A s \in Session : /\ sess'[s].from = sess[s].from
                                  /\ sess'[s].state # "none" <=> s \in Used
                                  /\ sess'[s].state = "live" <=> s \in Live \ Live
        BY <2>5, Sets, PasswordRows
      <3>2. Used' = Used
        BY <3>1 DEF Used
      <3>3. Live' = {}
        BY <3>1 DEF Live
      <3>4. Wanes /\ \A s \in Live' : sess'[s].outdated => sess[s].outdated
        BY <2>1, <3>1, <3>2, <3>3 DEF Wanes
      <3> QED BY <2>1, <2>3, <3>4, RowsWane
    <2> QED BY <2>2, <2>4, <2>5
  <1> QED BY <1>1, <1>2, <1>4, <1>5
(* A step of a request keeps the invariant. *)
LEMMA StepKeeps ==
  ASSUME Inv, NEW r \in Request, Step(r), overlapped' = (overlapped \/ ~Alone(r))
  PROVE  Inv'
  <1>1. RestKeeps(r) /\ TokensKept
    BY LoginSteps, RefreshSteps, RevokeSteps, PasswordSteps DEF Step
  <1>2. overlapped' \in BOOLEAN
    BY DEF Inv, Typed
  <1>3. Typed' /\ Listed' /\ TokensFresh' /\ TokenUsedOnce' /\ PredecessorsDead'
    BY <1>1, <1>2 DEF Typed, RestKeeps, TokensKept
  <1>4. ASSUME ~overlapped' PROVE AloneKeeps(r) /\ \A q \in Request \ {r} : job'[q] = Idle
    BY <1>1, <1>4 DEF RestKeeps, Alone
  <1>5. FoundAlone' /\ KeptOneAtATime'
    BY <1>4, JobKinds DEF FoundAlone, KeptOneAtATime, AloneKeeps
  <1> QED BY <1>3, <1>5 DEF Inv

(* So does time. *)
LEMMA TimeKeeps ==
  ASSUME Inv, (\E s \in Session : LapseSession(s)) \/ (\E t \in Token : LapseToken(t)),
         overlapped' = overlapped
  PROVE  Inv'
  <1>1. ASSUME NEW s \in Session, LapseSession(s) PROVE Inv'
    <2>1. /\ sess' = [sess EXCEPT ![s].late = TRUE] /\ order' = order
          /\ token' = token /\ resets' = resets /\ job' = job
      BY <1>1 DEF LapseSession
    <2>2. sess[s] \in Row /\ sess \in [Session -> Row]
      BY DEF Inv, Typed
    <2>3. /\ sess' \in [Session -> Row]
          /\ \A x \in Session : /\ sess'[x].from = sess[x].from
                                /\ sess'[x].state = sess[x].state
                                /\ sess'[x].outdated = sess[x].outdated
      BY <2>1, <2>2 DEF Row
    <2>4. Used' = Used /\ Live' = Live
      BY <2>3 DEF Used, Live
    <2>5. Wanes
      BY <2>1, <2>3, <2>4 DEF Wanes
    <2>6. Listed' /\ PredecessorsDead'
      <3>1. \A r \in Request : Refers(job'[r], Used)
        BY <2>1 DEF Inv, Listed
      <3> QED BY <2>5, <3>1, WaningKeeps DEF Inv
    <2>7. TokensKept
      BY <2>1, TokensUnchanged
    <2>8. FoundAlone'
      BY <2>1, <2>4 DEF FoundAlone, Inv
    <2>9. KeptOneAtATime'
      BY <2>3, <2>4, Sets DEF KeptOneAtATime, Inv
    <2> QED BY <2>1, <2>3, <2>6, <2>7, <2>8, <2>9 DEF Inv, Typed, TokensKept
  <1>2. ASSUME NEW t \in Token, LapseToken(t) PROVE Inv'
    <2>1. /\ token' = [token EXCEPT ![t] = "expired"] /\ token[t] = "issued"
          /\ sess' = sess /\ order' = order /\ resets' = resets /\ job' = job
      BY <1>2 DEF LapseToken
    <2>2. TokensKept
      BY <2>1 DEF TokensKept, Inv, Typed, TokensFresh, TokenUsedOnce
    <2>3. Used' = Used /\ Live' = Live
      BY <2>1 DEF Used, Live
    <2> QED BY <2>1, <2>2, <2>3 DEF Inv, Typed, Listed, PredecessorsDead, FoundAlone,
                                    KeptOneAtATime, TokensKept
  <1> QED BY <1>1, <1>2

(* No session is there at first. *)
LEMMA InitKeeps == Init => Inv
  <1> SUFFICES ASSUME Init PROVE Inv
    OBVIOUS
  <1>1. NoRow \in Row
    BY DEF NoRow, Row
  <1>2. Typed
    <2>1. sess \in [Session -> Row] /\ order \in Seq(Session)
      BY <1>1 DEF Init
    <2>2. token \in [Token -> {"none", "issued", "expired", "used"}] /\ resets \in [Token -> Nat]
      BY DEF Init
    <2>3. job \in [Request -> Jobs] /\ overlapped \in BOOLEAN
      BY DEF Init, Jobs
    <2> QED BY <2>1, <2>2, <2>3 DEF Typed
  <1>3. Used = {} /\ Live = {}
    BY DEF Init, Used, Live, NoRow
  <1>4. Listed
    <2>1. \A s \in Session : sess[s].from = Nothing
      BY DEF Init, NoRow
    <2>2. Len(order) = 0 /\ DOMAIN order = {}
      BY DEF Init
    <2>3. \A r \in Request : Refers(job[r], Used)
      BY JobKinds DEF Init, Refers
    <2> QED BY <1>3, <2>1, <2>2, <2>3, FS_EmptySet DEF Listed
  <1>5. TokensFresh /\ TokenUsedOnce
    BY DEF Init, TokensFresh, TokenUsedOnce
  <1>6. FoundAlone
    BY JobKinds DEF Init, FoundAlone
  <1>7. PredecessorsDead /\ KeptOneAtATime
    <2>1. Cardinality(Live) <= Limit
      BY <1>3, FS_EmptySet, SessionsAssumption
    <2> QED BY <1>3, <2>1 DEF PredecessorsDead, KeptOneAtATime
  <1> QED BY <1>2, <1>4, <1>5, <1>6, <1>7 DEF Inv

(* Inv is an invariant. *)
LEMMA Invariance == Spec => []Inv
  <1>1. Inv /\ [Next]_vars => Inv'
    <2> SUFFICES ASSUME Inv, [Next]_vars PROVE Inv'
      OBVIOUS
    <2>1. CASE Next
      BY <2>1, StepKeeps, TimeKeeps DEF Next
    <2>2. CASE UNCHANGED vars
      <3>1. /\ sess' = sess /\ order' = order /\ token' = token /\ resets' = resets
            /\ job' = job /\ overlapped' = overlapped
        BY <2>2 DEF vars
      <3>2. Used' = Used /\ Live' = Live
        BY <3>1 DEF Used, Live
      <3>3. Typed' /\ Listed' /\ TokensFresh' /\ TokenUsedOnce'
        BY <3>1, <3>2 DEF Inv, Typed, Listed, TokensFresh, TokenUsedOnce
      <3>4. PredecessorsDead' /\ FoundAlone' /\ KeptOneAtATime'
        BY <3>1, <3>2 DEF Inv, PredecessorsDead, FoundAlone, KeptOneAtATime
      <3> QED BY <3>3, <3>4 DEF Inv
    <2> QED BY <2>1, <2>2
  <1> QED BY <1>1, InitKeeps, PTL DEF Spec

(* Sessions, tokens and requests keep their types, and the order of the    *)
(* sessions counts every row once (auth_sessions, password_reset_tokens).  *)
THEOREM SessionsTypeCorrect == Spec => []TypeOK
  <1>1. Inv => TypeOK
    BY JobKinds DEF Inv, Typed, Listed, Used, TypeOK
  <1> QED BY <1>1, Invariance, PTL

(* However requests interleave, a reset token sets a password at most once *)
(* (consume_password_reset_token).                                         *)
THEOREM ResetTokenOnce == Spec => []TokenUsedOnce
  <1>1. Inv => TokenUsedOnce
    BY DEF Inv
  <1> QED BY <1>1, Invariance, PTL

(* However requests interleave, a credential that was refreshed is dead    *)
(* while its successor lives (rotate_refresh_token).                       *)
THEOREM RotationRetires == Spec => []PredecessorsDead
  <1>1. Inv => PredecessorsDead
    BY DEF Inv
  <1> QED BY <1>1, Invariance, PTL

(* As long as requests come one at a time, a user has no more live sessions*)
(* than the limit, and none that goes back to an earlier password          *)
(* (_prune_session_limit, revoke_all_user_sessions).                       *)
THEOREM LimitKeptOneAtATime == Spec => []KeptOneAtATime
  <1>1. Inv => KeptOneAtATime
    BY DEF Inv
  <1> QED BY <1>1, Invariance, PTL

-----------------------------------------------------------------------------
(* Each step of AuthSessions is one of CredentialFamilies, or none.        *)

FamiliesStep == Families!FamiliesNext \/ UNCHANGED <<Fate, Root, Presented>>

(* No row moves to another family. *)
SameRoots == \A s \in Session : sess'[s].family = sess[s].family

(* The fate of a session says whether it has a row, and whether it lives. *)
LEMMA Fates ==
  ASSUME NEW rows \in [Session -> Row], NEW s \in Session
  PROVE  LET fate == IF rows[s].state \in {"none", "live"} THEN rows[s].state ELSE "over"
         IN  /\ fate \in {"none", "live", "over"}
             /\ fate = "none" <=> rows[s].state = "none"
             /\ fate = "live" <=> rows[s].state = "live"
  BY DEF Row

(* The sets of sessions of both modules are the same. *)
LEMMA FamiliesSets ==
  ASSUME Inv
  PROVE  /\ Families!Fresh = Session \ Used
         /\ Families!Living = Live
  <1>1. \A s \in Session : /\ Fate[s] = "none" <=> s \notin Used
                           /\ Fate[s] = "live" <=> s \in Live
    BY Fates DEF Fate, Used, Live, Inv, Typed
  <1> QED BY <1>1, Sets DEF Families!Fresh, Families!Living

(* Revoking sessions moves none to another family. *)
LEMMA RevokedRoots ==
  ASSUME sess \in [Session -> Row], NEW set, NEW reason \in {"rotated", "ended"}
  PROVE  \A s \in Session : Revoked(set, reason)[s].family = sess[s].family
  <1>1. \A s \in Session :
          [sess[s] EXCEPT !.state = reason, !.late = FALSE, !.outdated = FALSE].family
            = sess[s].family
    BY DEF Row
  <1> QED BY <1>1 DEF Revoked

(* When sessions only die, that is all that happens to their families. *)
LEMMA WaningMaps ==
  ASSUME Inv, Wanes, SameRoots, Presented' = Presented
  PROVE  FamiliesStep
  <1> DEFINE gone == Live \ Live'
  <1>1. gone \in SUBSET Families!Living
    BY FamiliesSets
  <1>2. ASSUME NEW s \in Session
        PROVE  Fate'[s] = IF s \in gone THEN "over" ELSE Fate[s]
    <2>1. /\ Fate[s] \in {"none", "live", "over"}
          /\ Fate[s] = "none" <=> sess[s].state = "none"
          /\ Fate[s] = "live" <=> sess[s].state = "live"
      BY Fates DEF Fate, Inv, Typed
    <2>2. /\ Fate'[s] \in {"none", "live", "over"}
          /\ Fate'[s] = "none" <=> sess'[s].state = "none"
          /\ Fate'[s] = "live" <=> sess'[s].state = "live"
      BY Fates DEF Fate, Wanes
    <2>3. /\ sess'[s].state = "none" <=> sess[s].state = "none"
          /\ sess'[s].state = "live" => sess[s].state = "live"
          /\ s \in gone <=> sess[s].state = "live" /\ sess'[s].state # "live"
      BY DEF Wanes, Used, Live
    <2> QED BY <2>1, <2>2, <2>3
  <1>3. Fate' = Families!Over(gone)
    BY <1>2 DEF Fate, Families!Over
  <1>4. Root' = Root
    BY DEF Root, SameRoots
  <1>5. Families!End(gone)
    BY <1>3, <1>4 DEF Families!End
  <1> QED BY <1>1, <1>5 DEF FamiliesStep, Families!FamiliesNext

(* A step that issues a session issues one of the family of its row. *)
LEMMA IssueMaps ==
  ASSUME Inv, NEW s, NEW dead, NEW from, Issues(s, dead, from), NEW root,
         sess'[s].family = root,
         \A x \in Session \ {s} : sess'[x].family = sess[x].family
  PROVE  /\ s \in Families!Fresh
         /\ \A gone : gone \cap Live = dead \cap Live /\ gone \subseteq Used
                        => Families!Issue(s, root, gone)
  <1>1. /\ s \in Session /\ s \notin Used /\ Used' = Used \cup {s}
        /\ Live' = (Live \ dead) \cup {s} /\ sess' \in [Session -> Row]
    BY DEF Issues
  <1>2. s \in Families!Fresh
    BY <1>1, FamiliesSets
  <1>3. ASSUME NEW gone, gone \cap Live = dead \cap Live, gone \subseteq Used
        PROVE  Families!Issue(s, root, gone)
    <2>1. ASSUME NEW x \in Session
          PROVE  Fate'[x] = IF x = s THEN "live"
                            ELSE IF x \in gone THEN "over" ELSE Fate[x]
      <3>1. /\ Fate[x] \in {"none", "live", "over"}
            /\ Fate[x] = "none" <=> sess[x].state = "none"
            /\ Fate[x] = "live" <=> sess[x].state = "live"
        BY Fates DEF Fate, Inv, Typed
      <3>2. /\ Fate'[x] \in {"none", "live", "over"}
            /\ Fate'[x] = "none" <=> sess'[x].state = "none"
            /\ Fate'[x] = "live" <=> sess'[x].state = "live"
        BY <1>1, Fates DEF Fate
      <3>3. /\ x \in Used <=> sess[x].state # "none"
            /\ x \in Used' <=> sess'[x].state # "none"
            /\ x \in Live <=> sess[x].state = "live"
            /\ x \in Live' <=> sess'[x].state = "live"
        BY DEF Used, Live
      <3>4. x \in Live => (x \in gone <=> x \in dead)
        BY <1>3
      <3>5. x \in gone => x \in Used
        BY <1>3
      <3> QED BY <1>1, <3>1, <3>2, <3>3, <3>4, <3>5
    <2>2. Fate' = [Families!Over(gone) EXCEPT ![s] = "live"]
      BY <1>1, <2>1 DEF Fate, Families!Over
    <2>3. Root' = [Root EXCEPT ![s] = root]
      BY <1>1 DEF Root
    <2> QED BY <2>2, <2>3 DEF Families!Issue
  <1> QED BY <1>2, <1>3
(* When request r becomes idle, what it presented is settled: others may   *)
(* have presented the same.                                                *)
LEMMA IdleSettles ==
  ASSUME Inv, NEW r \in Request, job' = [job EXCEPT ![r] = Idle]
  PROVE  /\ ~Presents(r) => Presented' = Presented
         /\ Presents(r) => job[r].of \in Presented /\ Families!Settled(job[r].of)
  <1>1. ~Presents(r)'
    BY JobKinds DEF Presents, Inv, Typed
  <1>2. \A q \in Request \ {r} : job'[q] = job[q] /\ (Presents(q)' <=> Presents(q))
    BY DEF Presents, Inv, Typed
  <1> DEFINE others == {job[q].of : q \in {x \in Request \ {r} : Presents(x)}}
  <1>3. Presented' = others
    BY <1>1, <1>2 DEF Presented
  <1>4. Presented = others \cup (IF Presents(r) THEN {job[r].of} ELSE {})
    BY DEF Presented
  <1>5. Presents(r) => Presented' \in {Presented, Presented \ {job[r].of}}
    BY <1>3, <1>4
  <1> QED BY <1>3, <1>4, <1>5 DEF Families!Settled

(* A request that begins presents a credential or none. *)
LEMMA BeginPresents ==
  ASSUME Inv, NEW r \in Request, NEW j, Begin(r, j)
  PROVE  Presented' = Presented \cup
           (IF j.at = "refreshing" /\ j.seen = "live" /\ ~j.late THEN {j.of} ELSE {})
  <1>1. ~Presents(r)
    BY JobKinds DEF Presents, Begin
  <1>2. job'[r] = j /\ \A q \in Request \ {r} : job'[q] = job[q]
    BY DEF Begin, Inv, Typed
  <1>3. Presents(r)' <=> j.at = "refreshing" /\ j.seen = "live" /\ ~j.late
    BY <1>2 DEF Presents
  <1>4. \A q \in Request \ {r} : Presents(q)' <=> Presents(q)
    BY <1>2 DEF Presents
  <1> QED BY <1>1, <1>2, <1>3, <1>4 DEF Presented

(* Reading is no step, unless a live credential is presented. *)
LEMMA ReadingMaps ==
  ASSUME Inv, NEW r \in Request,
         \/ StartLogin(r) \/ StartForgot(r)
         \/ \E s \in Session : StartRevoke(r, s) \/ StartRefresh(r, s)
  PROVE  FamiliesStep
  <1>1. Fate' = Fate /\ Root' = Root
    BY DEF StartLogin, StartForgot, StartRevoke, StartRefresh, Fate, Root
  <1>2. CASE StartLogin(r)
    <2>1. Presented' = Presented
      BY <1>2, BeginPresents DEF StartLogin
    <2> QED BY <1>1, <2>1 DEF FamiliesStep
  <1>3. CASE StartForgot(r)
    <2>1. Presented' = Presented
      BY <1>3, BeginPresents DEF StartForgot
    <2> QED BY <1>1, <2>1 DEF FamiliesStep
  <1>4. ASSUME NEW s \in Session, StartRevoke(r, s) PROVE FamiliesStep
    <2> DEFINE j == [at |-> "revoking", of |-> s]
    <2>2. Begin(r, j) /\ j.at # "refreshing"
      BY <1>4 DEF StartRevoke
    <2> HIDE DEF j
    <2>1. Presented' = Presented
      BY <2>2, BeginPresents
    <2> QED BY <1>1, <2>1 DEF FamiliesStep
  <1>5. ASSUME NEW s \in Session, StartRefresh(r, s) PROVE FamiliesStep
    <2>1. Presented' = Presented \cup
            (IF sess[s].state = "live" /\ ~sess[s].late THEN {s} ELSE {})
      BY <1>5, BeginPresents DEF StartRefresh
    <2>2. CASE sess[s].state = "live" /\ ~sess[s].late
      <3>1. s \in Families!Living
        BY <2>2, FamiliesSets DEF Live
      <3>2. Families!Present(s)
        BY <1>1, <2>1, <2>2 DEF Families!Present
      <3> QED BY <3>1, <3>2 DEF FamiliesStep, Families!FamiliesNext
    <2>3. CASE ~(sess[s].state = "live" /\ ~sess[s].late)
      BY <1>1, <2>1, <2>3 DEF FamiliesStep
    <2> QED BY <2>2, <2>3
  <1> QED BY <1>2, <1>3, <1>4, <1>5

(* A sign-in begins a family. *)
LEMMA LoginMaps ==
  ASSUME Inv, NEW r \in Request, NEW s \in Session, FinishLogin(r, s)
  PROVE  FamiliesStep
  <1> DEFINE row == [NoRow EXCEPT !.state = "live", !.family = s]
             drop == job[r].drop
             gone == drop \cap Live
  <1>1. row \in Row /\ row.state = "live" /\ row.from = Nothing /\ row.family = s
    BY DEF NoRow, Row
  <1>2. job[r].at = "signing" /\ drop \subseteq Used
    BY DEF FinishLogin, Inv, Listed, Refers
  <1>3. Create(s, Revoked(drop, "ended"), row) /\ job' = [job EXCEPT ![r] = Idle]
    BY DEF FinishLogin, End
  <1> HIDE DEF row, drop
  <1>4. Issues(s, drop, Nothing) /\ sess'[s] = row
    BY <1>1, <1>2, <1>3, CreateIssues DEF Inv, Typed
  <1>5. sess'[s].family = s /\ \A x \in Session \ {s} : sess'[x].family = sess[x].family
    <2> DEFINE rows == Revoked(drop, "ended")
    <2>1. rows \in [Session -> Row] /\ \A x \in Session : rows[x].family = sess[x].family
      BY <1>2, RevokedRows, RevokedRoots DEF Inv, Typed
    <2>3. sess' = [rows EXCEPT ![s] = row]
      BY <1>3 DEF Create
    <2> HIDE DEF rows
    <2>2. \A x \in Session \ {s} : sess'[x] = rows[x]
      BY <2>1, <2>3
    <2> QED BY <1>1, <1>4, <2>1, <2>2
  <1>6. gone \cap Live = drop \cap Live /\ gone \subseteq Used /\ gone \in SUBSET Families!Living
    BY <1>2, FamiliesSets
  <1> HIDE DEF gone
  <1>7. s \in Families!Fresh /\ Families!Issue(s, s, gone)
    BY <1>4, <1>5, <1>6, IssueMaps
  <1>8. Presented' = Presented
    BY <1>2, <1>3, IdleSettles DEF Presents
  <1>9. Families!SignIn(s, gone)
    BY <1>7, <1>8 DEF Families!SignIn
  <1> QED BY <1>6, <1>7, <1>9 DEF FamiliesStep, Families!FamiliesNext

(* A refresh issues a successor of the credential that was presented. *)
LEMMA RotationMaps ==
  ASSUME Inv, NEW r \in Request, NEW s \in Session, FinishRotation(r, s)
  PROVE  FamiliesStep
  <1> DEFINE of == job[r].of
             row == [sess[of] EXCEPT !.state = "live", !.late = FALSE, !.from = of]
  <1>1. Presents(r) /\ of \in Used /\ of \in Session
    BY Sets DEF FinishRotation, Presents, Inv, Listed, Refers
  <1>2. row \in Row /\ row.state = "live" /\ row.from = of /\ row.family = sess[of].family
    <2>1. sess[of] \in Row
      BY <1>1 DEF Inv, Typed
    <2> QED BY <1>1, <2>1 DEF Row
  <1>3. Create(s, Revoked({of}, "rotated"), row) /\ job' = [job EXCEPT ![r] = Idle]
    BY DEF FinishRotation, Rotate, End
  <1>4. of \in Presented /\ Families!Settled(of)
    BY <1>1, <1>3, IdleSettles
  <1> HIDE DEF row, of
  <1>5. Issues(s, {of}, of) /\ sess'[s] = row
    BY <1>1, <1>2, <1>3, CreateIssues DEF Inv, Typed
  <1>6. sess'[s].family = Root[of] /\ \A x \in Session \ {s} : sess'[x].family = sess[x].family
    <2> DEFINE rows == Revoked({of}, "rotated")
    <2>1. rows \in [Session -> Row] /\ \A x \in Session : rows[x].family = sess[x].family
      BY <1>1, RevokedRows, RevokedRoots DEF Inv, Typed
    <2>3. sess' = [rows EXCEPT ![s] = row]
      BY <1>3 DEF Create
    <2> HIDE DEF rows
    <2>2. \A x \in Session \ {s} : sess'[x] = rows[x]
      BY <2>1, <2>3
    <2> QED BY <1>1, <1>2, <1>5, <2>1, <2>2 DEF Root
  <1>7. s \in Families!Fresh /\ Families!Issue(s, Root[of], {of})
    BY <1>1, <1>5, <1>6, IssueMaps
  <1>8. Families!Succeed(s, of)
    BY <1>4, <1>7 DEF Families!Succeed
  <1> QED BY <1>4, <1>7, <1>8 DEF FamiliesStep, Families!FamiliesNext

(* Refusals and revocations end sessions, and passwords that are set do.   *)
LEMMA EndingMaps ==
  ASSUME Inv, NEW r \in Request,
         \/ RefuseRefresh(r) \/ FinishRevoke(r) \/ RevokeAll(r)
         \/ \E s \in Session : ChangePassword(r, s)
         \/ \E t \in Token : ResetPassword(r, t)
  PROVE  FamiliesStep
  <1>1. Presented' = Presented
    <2>1. job' = [job EXCEPT ![r] = Idle]
      BY IdleJob DEF RefuseRefresh, FinishRevoke, RevokeAll, ChangePassword, ResetPassword, End
    <2>2. ~Presents(r)
      BY JobKinds DEF RefuseRefresh, FinishRevoke, RevokeAll, ChangePassword, ResetPassword,
                      Presents
    <2> QED BY <2>1, <2>2, IdleSettles
  <1>2. order' = order
    BY DEF RefuseRefresh, FinishRevoke, RevokeAll, ChangePassword, ResetPassword
  <1>3. CASE sess' = sess
    BY <1>1, <1>3 DEF FamiliesStep, Fate, Root
  <1>4. CASE \E set : set \subseteq Used /\ sess' = Revoked(set, "ended")
    <2>1. Wanes
      BY <1>2, <1>4, RevokeWanes
    <2>2. SameRoots
      BY <1>4, RevokedRoots DEF SameRoots, Inv, Typed
    <2> QED BY <1>1, <2>1, <2>2, WaningMaps
  <1>5. CASE \E set, keep : /\ set \subseteq Used
                            /\ LET rows == Outdated(Revoked(set, "ended"))
                               IN  \/ sess' = rows
                                   \/ sess' = [rows EXCEPT ![keep].outdated = FALSE]
    <2>1. PICK set, keep : /\ set \subseteq Used
                           /\ LET rows == Outdated(Revoked(set, "ended"))
                              IN  \/ sess' = rows
                                  \/ sess' = [rows EXCEPT ![keep].outdated = FALSE]
      BY <1>5
    <2> DEFINE rows == Outdated(Revoked(set, "ended"))
    <2>2. /\ rows \in [Session -> Row]
          /\ \A s \in Session : /\ rows[s].from = sess[s].from
                                /\ rows[s].state # "none" <=> s \in Used
                                /\ rows[s].state = "live" <=> s \in Live \ set
      BY <2>1, PasswordRows
    <2>3. \A s \in Session : rows[s].family = sess[s].family
      <3>1. \A s \in Session : Revoked(set, "ended")[s].family = sess[s].family
        BY RevokedRoots DEF Inv, Typed
      <3>2. Revoked(set, "ended") \in [Session -> Row]
        BY <2>1, RevokedRows DEF Inv, Typed
      <3>3. \A s \in Session : rows[s].family = Revoked(set, "ended")[s].family
        BY <3>2 DEF Outdated, Row
      <3> QED BY <3>1, <3>3
    <2>4. sess' = rows \/ sess' = [rows EXCEPT ![keep].outdated = FALSE]
      BY <2>1
    <2> HIDE DEF rows
    <2>5. /\ sess' \in [Session -> Row]
          /\ \A s \in Session : /\ sess'[s].from = rows[s].from
                                /\ sess'[s].state = rows[s].state
                                /\ sess'[s].family = rows[s].family
      <3>1. CASE sess' = rows
        BY <2>2, <3>1
      <3>2. CASE sess' = [rows EXCEPT ![keep].outdated = FALSE]
        <4>1. ASSUME NEW s \in Session
              PROVE  LET row == [rows[s] EXCEPT !.outdated = FALSE]
                     IN  /\ row \in Row /\ row.from = rows[s].from
                         /\ row.state = rows[s].state /\ row.family = rows[s].family
          BY ZenonT(40), <2>2 DEF Row
        <4>2. \A s \in Session :
                 sess'[s] = IF s = keep THEN [rows[s] EXCEPT !.outdated = FALSE] ELSE rows[s]
          BY <2>2, <3>2
        <4>3. DOMAIN sess' = Session /\ sess' = [s \in Session |-> sess'[s]]
          BY <2>2, <3>2
        <4>4. ASSUME NEW s \in Session
              PROVE  /\ sess'[s] \in Row /\ sess'[s].from = rows[s].from
                     /\ sess'[s].state = rows[s].state /\ sess'[s].family = rows[s].family
          BY <2>2, <4>1, <4>2
        <4> QED BY <4>3, <4>4
      <3> QED BY <2>4, <3>1, <3>2
    <2>6. Used' = Used /\ Live' \subseteq Live
      BY <2>2, <2>5 DEF Used, Live
    <2>7. Wanes /\ SameRoots
      BY <1>2, <2>2, <2>3, <2>5, <2>6 DEF Wanes, SameRoots
    <2> QED BY <1>1, <2>7, WaningMaps
  <1>6. CASE RefuseRefresh(r)
    <2>1. job[r].of \in Used /\ FamilyOf(job[r].of) \subseteq Used
      BY <1>6, Sets DEF RefuseRefresh, Inv, Listed, Refers, FamilyOf
    <2>2. \/ \E set : set \subseteq Used /\ sess' = Revoked(set, "ended")
          \/ sess' = sess
      BY <1>6, <2>1 DEF RefuseRefresh
    <2> QED BY <1>3, <1>4, <2>2
  <1>7. CASE FinishRevoke(r)
    <2>1. {job[r].of} \subseteq Used
      BY <1>7 DEF FinishRevoke, Inv, Listed, Refers
    <2> QED BY <1>4, <1>7, <2>1 DEF FinishRevoke
  <1>8. CASE RevokeAll(r)
    BY <1>4, <1>8, Sets DEF RevokeAll
  <1>9. ASSUME NEW keep \in Session, ChangePassword(r, keep) PROVE FamiliesStep
    <2>1. Live \ {keep} \subseteq Used
      BY Sets
    <2> QED BY <1>5, <1>9, <2>1 DEF ChangePassword
  <1>10. ASSUME NEW t \in Token, ResetPassword(r, t) PROVE FamiliesStep
    <2>1. sess' = sess \/ sess' = Outdated(Revoked(Live, "ended"))
      BY <1>10 DEF ResetPassword
    <2> QED BY <1>3, <1>5, <2>1, Sets
  <1> QED BY <1>6, <1>7, <1>8, <1>9, <1>10

(* What is left touches no session. *)
LEMMA QuietMaps ==
  ASSUME Inv, NEW r \in Request, Abort(r) \/ \E t \in Token : FinishForgot(r, t)
  PROVE  FamiliesStep
  <1>1. job' = [job EXCEPT ![r] = Idle] /\ Fate' = Fate /\ Root' = Root
    BY DEF Abort, FinishForgot, End, Fate, Root
  <1>2. CASE Presents(r)
    <2>1. job[r].of \in Presented /\ Families!Settled(job[r].of)
      BY <1>1, <1>2, IdleSettles
    <2>2. Families!Withdraw(job[r].of)
      BY <1>1, <2>1 DEF Families!Withdraw
    <2> QED BY <2>1, <2>2 DEF FamiliesStep, Families!FamiliesNext
  <1>3. CASE ~Presents(r)
    BY <1>1, <1>3, IdleSettles DEF FamiliesStep
  <1> QED BY <1>2, <1>3

(* Nor do time and stuttering steps. *)
LEMMA TimeMaps ==
  ASSUME Inv, \/ \E s \in Session : LapseSession(s)
              \/ \E t \in Token : LapseToken(t)
              \/ UNCHANGED vars
  PROVE  FamiliesStep
  <1>1. Presented' = Presented
    BY DEF LapseSession, LapseToken, vars, Presented, Presents
  <1>2. \A s \in Session : sess'[s].state = sess[s].state /\ sess'[s].family = sess[s].family
    <2>1. ASSUME NEW s \in Session, sess' = [sess EXCEPT ![s].late = TRUE]
          PROVE  \A x \in Session : sess'[x].state = sess[x].state /\ sess'[x].family = sess[x].family
      BY <2>1 DEF Inv, Typed, Row
    <2> QED BY <2>1 DEF LapseSession, LapseToken, vars
  <1> QED BY <1>1, <1>2 DEF FamiliesStep, Fate, Root

(* For any number of sessions and requests, however they overlap, each     *)
(* step of the sessions is one of CredentialFamilies: a refresh retires    *)
(* what it was given and issues a successor only for what was live when it *)
(* was presented; otherwise sessions only end (rotate_refresh_token).      *)
THEOREM SessionsImplementFamilies == Spec => ImplementsFamilies
  <1>1. Init => Families!FamiliesInit
    <2> SUFFICES ASSUME Init PROVE Families!FamiliesInit
      OBVIOUS
    <2>1. Fate = [s \in Session |-> "none"] /\ Root = [s \in Session |-> Nothing]
      BY DEF Init, Fate, Root, NoRow
    <2>2. Presented = {}
      BY JobKinds DEF Init, Presented, Presents
    <2> QED BY <2>1, <2>2 DEF Families!FamiliesInit
  <1>2. Inv /\ [Next]_vars => [Families!FamiliesNext]_<<Fate, Root, Presented>>
    <2> SUFFICES ASSUME Inv, [Next]_vars PROVE FamiliesStep
      BY DEF FamiliesStep
    <2>1. ASSUME NEW r \in Request, Step(r) PROVE FamiliesStep
      BY <2>1, ReadingMaps, LoginMaps, RotationMaps, EndingMaps, QuietMaps DEF Step
    <2> QED BY <2>1, TimeMaps DEF Next
  <1> QED BY <1>1, <1>2, Invariance, PTL
       DEF Spec, ImplementsFamilies, Families!Spec, Families!familyVars

-----------------------------------------------------------------------------
(* The limits on sign-in attempts.  The guard reads the failures that were *)
(* counted, so between it and the count an attempt is in flight; what the  *)
(* guard bounds is the two together.                                       *)

Flying == {a \in Attempt : attempt[a].at \in {"verify", "count"}}
Counting == {a \in Attempt : attempt[a].at = "count"}

(* While no process has used its memory in the current window. *)
Guarded ==
  fallback[Failures] = {} =>
    /\ guesses <= shared[Failures] + Cardinality(Counting) + uncounted
    /\ shared[Failures] + Cardinality(Flying) <= LoginFailureLimit - 1 + Cardinality(Attempt)

LimiterInv ==
  /\ LimiterTypeOK
  /\ windows = [p \in Process |-> windows[p]]
  /\ Guarded

Sizes(counts) == \A k \in DOMAIN counts : k \in Scope \X Nat /\ counts[k] \in Nat

AttemptState == {Waiting} \cup [at : {"check", "verify", "count"}, process : Process]

(* Keys of windows are scopes and numbers. *)
LEMMA WindowNat ==
  ASSUME LimiterTypeOK, NEW s \in Scope
  PROVE  /\ Key(s) \in Scope \X Nat
         /\ Arrivals \in Scope /\ Failures \in Scope /\ Arrivals # Failures
  <1>1. FailSpan \in Nat \ {0} /\ now \in Nat
    BY RateLimiterAssumption DEF LimiterTypeOK
  <1>2. now \div FailSpan \in Nat
    BY <1>1
  <1> QED BY <1>1, <1>2 DEF Key, WindowAt, Scope, Arrivals, Failures

(* A prune keeps counts that are counts. *)
LEMMA PruneSizes ==
  ASSUME NEW counts, Sizes(counts)
  PROVE  Sizes(Prune(counts))
  BY DEF Sizes, Prune

(* A hit leaves types as they were, and a failure that Redis counts is one *)
(* more.                                                                   *)
LEMMA HitKeeps ==
  ASSUME LimiterInv, NEW p \in Process, NEW s \in Scope, NEW by \in {0, 1}, NEW count,
         Hit(p, s, by, count)
  PROVE  /\ count \in Nat
         /\ shared' \in [Scope -> Nat]
         /\ windows' = [q \in Process |-> windows'[q]]
         /\ \A q \in Process : Sizes(windows'[q])
         /\ fallback' \in [Scope -> SUBSET (Process \X {0, 1})]
         /\ fallback'[s] = {} => /\ fallback[s] = {} /\ count = shared[s] + by
                                /\ shared'[s] = count
         /\ \A x \in Scope \ {s} : shared'[x] = shared[x] /\ fallback'[x] = fallback[x]
  <1>1. shared \in [Scope -> Nat] /\ \A q \in Process : Sizes(windows[q])
    BY DEF LimiterInv, LimiterTypeOK, Sizes
  <1>2. CASE /\ count = shared[s] + by
             /\ shared' = [shared EXCEPT ![s] = count]
             /\ UNCHANGED <<windows, fallback>>
    <2>1. fallback' = fallback /\ fallback \in [Scope -> SUBSET (Process \X {0, 1})]
      BY <1>2 DEF LimiterInv, LimiterTypeOK
    <2>2. windows' = windows /\ windows = [q \in Process |-> windows[q]]
      BY <1>2 DEF LimiterInv
    <2>3. count \in Nat
      BY <1>1, <1>2
    <2>4. /\ shared' \in [Scope -> Nat] /\ shared'[s] = count
          /\ \A x \in Scope \ {s} : shared'[x] = shared[x]
      BY <1>1, <1>2, <2>3
    <2> QED BY <1>1, <1>2, <2>1, <2>2, <2>3, <2>4
  <1>3. CASE /\ \E done \in {0, by} : shared' = [shared EXCEPT ![s] = @ + done]
             /\ HitMemory(p, s, by, count)
    <2> DEFINE before == windows[p]
               after == [k \in DOMAIN before \cup {Key(s)} |->
                           IF k = Key(s) THEN count ELSE before[k]]
    <2>1. count \in Nat
      BY <1>1, <1>3 DEF HitMemory, Remembered, Sizes
    <2>2. Sizes(after)
      BY <1>1, <2>1, WindowNat DEF Sizes, LimiterInv
    <2>3. windows' = [windows EXCEPT ![p] = Prune(after)]
      BY <1>3 DEF HitMemory
    <2>4. Sizes(Prune(after))
      BY <2>2, PruneSizes
    <2> HIDE DEF after, before
    <2>5. /\ windows' = [q \in Process |-> windows'[q]]
          /\ \A q \in Process : Sizes(windows'[q])
      BY <1>1, <2>3, <2>4 DEF LimiterInv
    <2>6. /\ fallback' \in [Scope -> SUBSET (Process \X {0, 1})]
          /\ fallback'[s] # {}
          /\ \A x \in Scope \ {s} : fallback'[x] = fallback[x]
      <3>1. <<p, life[p]>> \in Process \X {0, 1}
        BY DEF LimiterInv, LimiterTypeOK
      <3>2. fallback' = [fallback EXCEPT ![s] = @ \cup {<<p, life[p]>>}]
        BY <1>3 DEF HitMemory
      <3> QED BY <3>1, <3>2 DEF LimiterInv, LimiterTypeOK
    <2>7. shared' \in [Scope -> Nat] /\ \A x \in Scope \ {s} : shared'[x] = shared[x]
      BY <1>1, <1>3
    <2> QED BY <2>1, <2>5, <2>6, <2>7
  <1> QED BY <1>2, <1>3 DEF Hit
(* The sets of attempts are finite, and an attempt is told apart by where  *)
(* it is.                                                                  *)
LEMMA AttemptSets ==
  ASSUME LimiterInv
  PROVE  /\ IsFiniteSet(Attempt) /\ Cardinality(Attempt) \in Nat
         /\ IsFiniteSet(Flying) /\ Cardinality(Flying) \in Nat
         /\ IsFiniteSet(Counting) /\ Cardinality(Counting) \in Nat
         /\ Cardinality(Counting) <= Cardinality(Flying)
         /\ Cardinality(Flying) <= Cardinality(Attempt)
  <1>1. IsFiniteSet(Attempt)
    BY RateLimiterAssumption
  <1>2. Flying \subseteq Attempt /\ Counting \subseteq Flying
    BY DEF Flying, Counting
  <1> QED BY <1>1, <1>2, FS_Subset, FS_CardinalityType

(* Which attempts are in flight after one has moved. *)
LEMMA Moves ==
  ASSUME LimiterInv, NEW a \in Attempt, NEW to \in AttemptState, Move(a, to)
  PROVE  /\ attempt' \in [Attempt -> AttemptState]
         /\ Flying' = IF to.at \in {"verify", "count"} THEN Flying \cup {a} ELSE Flying \ {a}
         /\ Counting' = IF to.at = "count" THEN Counting \cup {a} ELSE Counting \ {a}
  <1>1. /\ attempt' \in [Attempt -> AttemptState] /\ attempt'[a] = to
        /\ \A b \in Attempt \ {a} : attempt'[b] = attempt[b]
    BY DEF Move, LimiterInv, LimiterTypeOK, AttemptState
  <1> QED BY <1>1 DEF Flying, Counting

(* The states of an attempt. *)
LEMMA States ==
  /\ Waiting \in AttemptState /\ Waiting.at = "waiting"
  /\ \A p \in Process, phase \in {"check", "verify", "count"} :
       At(phase, p) \in AttemptState /\ At(phase, p).at = phase
  /\ \A to \in AttemptState : to.at # "waiting" => to.process \in Process
  BY DEF Waiting, At, AttemptState

(* An arrival is counted in its own window and is in flight from then on. *)
LEMMA ArriveKeeps ==
  ASSUME LimiterInv, NEW a \in Attempt, NEW p \in Process, Arrive(a, p)
  PROVE  LimiterInv'
  <1>1. /\ now' = now /\ life' = life /\ guesses' = guesses /\ uncounted' = uncounted
        /\ attempt[a] = Waiting /\ arrivals' \in Nat
    BY DEF Arrive, LimiterInv, LimiterTypeOK
  <1>2. a \notin Flying /\ a \notin Counting
    BY <1>1, States DEF Flying, Counting
  <1>3. CASE UNCHANGED <<shared, windows, fallback, attempt, admitted>>
    BY <1>1, <1>3 DEF LimiterInv, LimiterTypeOK, Guarded, Flying, Counting
  <1>4. ASSUME NEW count \in Count, Hit(p, Arrivals, 1, count),
               IF count > LoginEmailLimit
               THEN UNCHANGED <<attempt, admitted>>
               ELSE /\ Move(a, At("check", p))
                    /\ admitted' = [admitted EXCEPT ![Arrivals] = @ + 1]
        PROVE  LimiterInv'
    <2>1. Arrivals \in Scope /\ Failures \in Scope \ {Arrivals}
      BY DEF Scope, Arrivals, Failures
    <2>2. /\ shared' \in [Scope -> Nat] /\ shared'[Failures] = shared[Failures]
          /\ windows' = [q \in Process |-> windows'[q]] /\ \A q \in Process : Sizes(windows'[q])
          /\ fallback' \in [Scope -> SUBSET (Process \X {0, 1})]
          /\ fallback'[Failures] = fallback[Failures]
      BY <1>4, <2>1, HitKeeps
    <2>3. /\ attempt' \in [Attempt -> AttemptState] /\ admitted' \in [Scope -> Nat]
          /\ Flying' = Flying /\ Counting' = Counting
      <3>1. CASE UNCHANGED <<attempt, admitted>>
        BY <3>1 DEF Flying, Counting, LimiterInv, LimiterTypeOK, AttemptState
      <3>2. CASE Move(a, At("check", p)) /\ admitted' = [admitted EXCEPT ![Arrivals] = @ + 1]
        <4>1. At("check", p) \in AttemptState /\ At("check", p).at = "check"
          BY States
        <4> DEFINE to == At("check", p)
        <4>2. Move(a, to) /\ to \in AttemptState /\ to.at = "check"
          BY <3>2, <4>1
        <4> HIDE DEF to
        <4>3. /\ attempt' \in [Attempt -> AttemptState]
              /\ Flying' = Flying \ {a} /\ Counting' = Counting \ {a}
          BY <4>2, Moves
        <4> QED BY <1>2, <2>1, <3>2, <4>3 DEF LimiterInv, LimiterTypeOK
      <3> QED BY <1>4, <3>1, <3>2
    <2>4. Guarded'
      BY <1>1, <2>2, <2>3 DEF LimiterInv, Guarded
    <2> QED BY <1>1, <2>2, <2>3, <2>4 DEF LimiterInv, LimiterTypeOK, AttemptState, Sizes
  <1> QED BY <1>3, <1>4 DEF Arrive
(* An attempt that has looked at the failures goes on only below their limit. *)
LEMMA CheckKeeps ==
  ASSUME LimiterInv, NEW a \in Attempt, CheckFailures(a)
  PROVE  LimiterInv'
  <1> DEFINE p == attempt[a].process
  <1>1. /\ now' = now /\ life' = life /\ guesses' = guesses /\ uncounted' = uncounted
        /\ arrivals' = arrivals /\ admitted' = admitted /\ attempt[a].at = "check"
    BY DEF CheckFailures
  <1>2. p \in Process
    <2>1. attempt[a] \in AttemptState
      BY DEF LimiterInv, LimiterTypeOK, AttemptState
    <2> QED BY <1>1, <2>1, States
  <1>3. PICK count \in Count :
          /\ Hit(p, Failures, 0, count)
          /\ Move(a, IF count >= LoginFailureLimit THEN Waiting ELSE At("verify", p))
    BY DEF CheckFailures
  <1> HIDE DEF p
  <1>4. Failures \in Scope
    BY DEF Scope
  <1>5. /\ count \in Nat /\ shared' \in [Scope -> Nat]
        /\ windows' = [q \in Process |-> windows'[q]] /\ \A q \in Process : Sizes(windows'[q])
        /\ fallback' \in [Scope -> SUBSET (Process \X {0, 1})]
        /\ fallback'[Failures] = {} => /\ fallback[Failures] = {} /\ count = shared[Failures] + 0
                                      /\ shared'[Failures] = count
    BY <1>2, <1>3, <1>4, HitKeeps
  <1>6. /\ shared[Failures] \in Nat /\ guesses \in Nat /\ uncounted \in Nat
        /\ LoginFailureLimit \in Nat
    BY <1>4, RateLimiterAssumption DEF LimiterInv, LimiterTypeOK
  <1>7. a \notin Flying /\ a \notin Counting
    BY <1>1 DEF Flying, Counting
  <1> DEFINE to == IF count >= LoginFailureLimit THEN Waiting ELSE At("verify", p)
  <1>8. /\ to \in AttemptState /\ Move(a, to)
        /\ count >= LoginFailureLimit => to.at = "waiting"
        /\ ~ (count >= LoginFailureLimit) => to.at = "verify"
    BY <1>2, <1>3, States
  <1> HIDE DEF to
  <1>9. /\ attempt' \in [Attempt -> AttemptState] /\ Counting' = Counting
        /\ count >= LoginFailureLimit => Flying' = Flying
        /\ ~ (count >= LoginFailureLimit) => Flying' = Flying \cup {a}
    <2>1. /\ attempt' \in [Attempt -> AttemptState]
          /\ Flying' = IF to.at \in {"verify", "count"} THEN Flying \cup {a} ELSE Flying \ {a}
          /\ Counting' = IF to.at = "count" THEN Counting \cup {a} ELSE Counting \ {a}
      BY <1>8, Moves
    <2> QED BY <1>7, <1>8, <2>1
  <1>10. Guarded'
    <2>1. SUFFICES ASSUME fallback'[Failures] = {}
                   PROVE  /\ guesses <= shared'[Failures] + Cardinality(Counting) + uncounted
                          /\ shared'[Failures] + Cardinality(Flying')
                               <= LoginFailureLimit - 1 + Cardinality(Attempt)
      BY <1>1, <1>9 DEF Guarded
    <2>2. fallback[Failures] = {} /\ count = shared[Failures] /\ shared'[Failures] = count
      BY <1>5, <1>6, <2>1
    <2>3. /\ guesses <= shared[Failures] + Cardinality(Counting) + uncounted
          /\ shared[Failures] + Cardinality(Flying) <= LoginFailureLimit - 1 + Cardinality(Attempt)
      BY <2>2 DEF LimiterInv, Guarded
    <2>4. CASE count >= LoginFailureLimit
      BY <1>9, <2>2, <2>3, <2>4
    <2>5. CASE ~ (count >= LoginFailureLimit)
      <3>1. Flying' = Flying \cup {a} /\ Flying' \subseteq Attempt
        BY <1>9, <2>5 DEF Flying
      <3>2. Cardinality(Flying') <= Cardinality(Attempt) /\ Cardinality(Flying') \in Nat
              /\ Cardinality(Attempt) \in Nat
        BY <3>1, AttemptSets, FS_Subset, FS_CardinalityType
      <3> QED BY <1>5, <1>6, <2>2, <2>3, <2>5, <3>2
    <2> QED BY <2>4, <2>5
  <1> QED BY <1>1, <1>5, <1>9, <1>10 DEF LimiterInv, LimiterTypeOK, AttemptState, Sizes

(* A wrong password is verified before it is counted. *)
LEMMA VerifyKeeps ==
  ASSUME LimiterInv, NEW a \in Attempt, Verify(a)
  PROVE  LimiterInv'
  <1> DEFINE p == attempt[a].process
  <1>1. /\ now' = now /\ life' = life /\ uncounted' = uncounted /\ shared' = shared
        /\ arrivals' = arrivals /\ admitted' = admitted /\ attempt[a].at = "verify"
        /\ windows' = windows /\ fallback' = fallback
    BY DEF Verify
  <1>2. p \in Process
    <2>1. attempt[a] \in AttemptState
      BY DEF LimiterInv, LimiterTypeOK, AttemptState
    <2> QED BY <1>1, <2>1, States
  <1>3. a \in Flying /\ a \notin Counting
    BY <1>1 DEF Flying, Counting
  <1>4. /\ shared[Failures] \in Nat /\ guesses \in Nat /\ uncounted \in Nat
        /\ LoginFailureLimit \in Nat
    BY RateLimiterAssumption DEF LimiterInv, LimiterTypeOK, Scope
  <1>5. CASE Move(a, Waiting) /\ UNCHANGED guesses
    <2>1. /\ attempt' \in [Attempt -> AttemptState]
          /\ Flying' = Flying \ {a} /\ Counting' = Counting \ {a}
      BY <1>5, States, Moves
    <2>2. Cardinality(Flying') = Cardinality(Flying) - 1 /\ Counting' = Counting
      <3>1. IsFiniteSet(Flying)
        BY AttemptSets
      <3>2. Cardinality(Flying \ {a}) = Cardinality(Flying) - 1
        BY <1>3, <3>1, FS_RemoveElement
      <3> QED BY <1>3, <2>1, <3>2
    <2>3. Guarded'
      BY <1>1, <1>4, <1>5, <2>2, AttemptSets DEF LimiterInv, Guarded
    <2> QED BY <1>1, <1>5, <2>1, <2>3 DEF LimiterInv, LimiterTypeOK, AttemptState
  <1>6. CASE Move(a, At("count", p)) /\ guesses' = guesses + 1
    <2> DEFINE to == At("count", p)
    <2>1. Move(a, to) /\ to \in AttemptState /\ to.at = "count"
      BY <1>2, <1>6, States
    <2> HIDE DEF to
    <2>2. /\ attempt' \in [Attempt -> AttemptState]
          /\ Flying' = Flying \cup {a} /\ Counting' = Counting \cup {a}
      BY <2>1, Moves
    <2>3. Cardinality(Counting') = Cardinality(Counting) + 1 /\ Flying' = Flying
      <3>1. IsFiniteSet(Counting)
        BY AttemptSets
      <3>2. Cardinality(Counting \cup {a}) = Cardinality(Counting) + 1
        BY <1>3, <3>1, FS_AddElement
      <3>3. Flying \cup {a} = Flying
        BY <1>3
      <3> QED BY <2>2, <3>2, <3>3
    <2>4. Guarded'
      BY <1>1, <1>4, <1>6, <2>3, AttemptSets DEF LimiterInv, Guarded
    <2>5. guesses' \in Nat
      BY <1>4, <1>6
    <2> QED BY <1>1, <2>2, <2>4, <2>5 DEF LimiterInv, LimiterTypeOK, AttemptState
  <1> QED BY <1>5, <1>6 DEF Verify
(* Counting a failure moves it from those in flight to those counted. *)
LEMMA CountKeeps ==
  ASSUME LimiterInv, NEW a \in Attempt, CountFailure(a)
  PROVE  LimiterInv'
  <1> DEFINE p == attempt[a].process
  <1>1. /\ now' = now /\ life' = life /\ guesses' = guesses /\ uncounted' = uncounted
        /\ arrivals' = arrivals /\ attempt[a].at = "count" /\ Move(a, Waiting)
    BY DEF CountFailure
  <1>2. p \in Process
    <2>1. attempt[a] \in AttemptState
      BY DEF LimiterInv, LimiterTypeOK, AttemptState
    <2> QED BY <1>1, <2>1, States
  <1>3. PICK count \in Count :
          /\ Hit(p, Failures, 1, count)
          /\ admitted' = [admitted EXCEPT ![Failures] =
                            IF count > LoginFailureLimit THEN @ ELSE @ + 1]
    BY DEF CountFailure
  <1> HIDE DEF p
  <1>4. Failures \in Scope
    BY DEF Scope
  <1>5. /\ count \in Nat /\ shared' \in [Scope -> Nat]
        /\ windows' = [q \in Process |-> windows'[q]] /\ \A q \in Process : Sizes(windows'[q])
        /\ fallback' \in [Scope -> SUBSET (Process \X {0, 1})]
        /\ fallback'[Failures] = {} => /\ fallback[Failures] = {} /\ count = shared[Failures] + 1
                                      /\ shared'[Failures] = count
    BY <1>2, <1>3, <1>4, HitKeeps
  <1>6. /\ shared[Failures] \in Nat /\ guesses \in Nat /\ uncounted \in Nat
        /\ LoginFailureLimit \in Nat
    BY <1>4, RateLimiterAssumption DEF LimiterInv, LimiterTypeOK
  <1>7. admitted' \in [Scope -> Nat]
    <2>1. admitted \in [Scope -> Nat]
      BY DEF LimiterInv, LimiterTypeOK
    <2>2. (IF count > LoginFailureLimit THEN admitted[Failures] ELSE admitted[Failures] + 1) \in Nat
      BY <1>4, <2>1
    <2> QED BY <1>3, <2>1, <2>2
  <1>8. a \in Flying /\ a \in Counting
    BY <1>1 DEF Flying, Counting
  <1>9. /\ attempt' \in [Attempt -> AttemptState]
        /\ Flying' = Flying \ {a} /\ Counting' = Counting \ {a}
    BY <1>1, States, Moves
  <1>10. /\ Cardinality(Flying') = Cardinality(Flying) - 1
         /\ Cardinality(Counting') = Cardinality(Counting) - 1
    <2>1. IsFiniteSet(Flying) /\ IsFiniteSet(Counting)
      BY AttemptSets
    <2>2. Cardinality(Flying \ {a}) = Cardinality(Flying) - 1
      BY <1>8, <2>1, FS_RemoveElement
    <2>3. Cardinality(Counting \ {a}) = Cardinality(Counting) - 1
      BY <1>8, <2>1, FS_RemoveElement
    <2> QED BY <1>9, <2>2, <2>3
  <1>11. Guarded'
    BY <1>1, <1>5, <1>6, <1>10, AttemptSets DEF LimiterInv, Guarded
  <1> QED BY <1>1, <1>5, <1>7, <1>9, <1>11 DEF LimiterInv, LimiterTypeOK, AttemptState, Sizes

(* A restart loses the failures of one memory and the attempts of its process. *)
LEMMA RestartKeeps ==
  ASSUME LimiterInv, NEW p \in Process, Restart(p)
  PROVE  LimiterInv'
  <1> DEFINE lost == {a \in Attempt : attempt[a] # Waiting /\ attempt[a].process = p}
             gone == {a \in lost : attempt[a].at = "count"}
  <1>1. /\ now' = now /\ shared' = shared /\ arrivals' = arrivals /\ admitted' = admitted
        /\ fallback' = fallback /\ guesses' = guesses
        /\ life' = [life EXCEPT ![p] = 1]
        /\ windows' = [windows EXCEPT ![p] = << >>]
        /\ attempt' = [a \in Attempt |-> IF a \in lost THEN Waiting ELSE attempt[a]]
        /\ uncounted' = uncounted + Cardinality(gone)
    BY DEF Restart
  <1>2. gone \subseteq Counting
    BY DEF Counting
  <1> HIDE DEF gone
  <1>3. attempt' \in [Attempt -> AttemptState]
    BY <1>1, States DEF LimiterInv, LimiterTypeOK, AttemptState
  <1>4. Flying' \subseteq Flying
    BY <1>1, States DEF Flying
  <1>5. Counting' = Counting \ gone
    BY <1>1, States DEF Counting, gone
  <1>6. /\ Cardinality(Counting') = Cardinality(Counting) - Cardinality(gone)
        /\ Cardinality(gone) \in Nat /\ Cardinality(Flying') <= Cardinality(Flying)
        /\ Cardinality(Flying') \in Nat /\ Cardinality(Counting') \in Nat
    <2>1. IsFiniteSet(Flying) /\ IsFiniteSet(Counting) /\ Counting \cap gone = gone
      BY <1>2, AttemptSets
    <2>2. Cardinality(Counting \ gone) = Cardinality(Counting) - Cardinality(gone)
            /\ IsFiniteSet(Counting \ gone)
      BY <2>1, FS_Difference
    <2>3. IsFiniteSet(gone) /\ Cardinality(gone) \in Nat
      BY <1>2, <2>1, FS_Subset, FS_CardinalityType
    <2>4. IsFiniteSet(Flying') /\ Cardinality(Flying') <= Cardinality(Flying)
            /\ Cardinality(Flying') \in Nat
      BY <1>4, <2>1, FS_Subset, FS_CardinalityType
    <2> QED BY <1>5, <2>2, <2>3, <2>4, FS_CardinalityType
  <1>7. /\ shared[Failures] \in Nat /\ guesses \in Nat /\ uncounted \in Nat
        /\ LoginFailureLimit \in Nat
    BY RateLimiterAssumption DEF LimiterInv, LimiterTypeOK, Scope
  <1>8. Guarded'
    <2>1. SUFFICES ASSUME fallback[Failures] = {}
                   PROVE  /\ guesses <= shared[Failures] + Cardinality(Counting') + uncounted'
                          /\ shared[Failures] + Cardinality(Flying')
                               <= LoginFailureLimit - 1 + Cardinality(Attempt)
      BY <1>1 DEF Guarded
    <2>2. /\ guesses <= shared[Failures] + Cardinality(Counting) + uncounted
          /\ shared[Failures] + Cardinality(Flying) <= LoginFailureLimit - 1 + Cardinality(Attempt)
      BY <2>1 DEF LimiterInv, Guarded
    <2>3. uncounted' = uncounted + Cardinality(gone)
      BY <1>1
    <2> QED BY <1>6, <1>7, <2>2, <2>3, AttemptSets
  <1>9. windows' = [q \in Process |-> windows'[q]] /\ \A q \in Process : Sizes(windows'[q])
    <2>1. Sizes(<< >>)
      BY DEF Sizes
    <2>2. windows = [q \in Process |-> windows[q]] /\ \A q \in Process : Sizes(windows[q])
      BY DEF LimiterInv, LimiterTypeOK, Sizes
    <2>3. windows' = [windows EXCEPT ![p] = << >>]
      BY <1>1
    <2> QED BY <2>1, <2>2, <2>3
  <1>10. life' \in [Process -> {0, 1}] /\ uncounted' \in Nat
    BY <1>1, <1>6, <1>7 DEF LimiterInv, LimiterTypeOK
  <1> QED BY <1>1, <1>3, <1>8, <1>9, <1>10 DEF LimiterInv, LimiterTypeOK, AttemptState, Sizes

(* The next window begins with nothing counted. *)
LEMMA TickKeeps ==
  ASSUME LimiterInv, Tick
  PROVE  LimiterInv'
  <1> DEFINE Ends(s) == WindowAt(s, now') # WindowAt(s, now)
  <1>1. /\ now' = (now + 1) % Horizon /\ arrivals' = 0 /\ life' = life /\ attempt' = attempt
        /\ shared' = [s \in Scope |-> IF Ends(s) THEN 0 ELSE shared[s]]
        /\ admitted' = [s \in Scope |-> IF Ends(s) THEN 0 ELSE admitted[s]]
        /\ fallback' = [s \in Scope |-> IF Ends(s) THEN {} ELSE fallback[s]]
        /\ guesses' = IF Ends(Failures) THEN 0 ELSE guesses
        /\ uncounted' = IF Ends(Failures) THEN 0 ELSE uncounted
    BY DEF Tick
  <1>2. /\ windows' = [q \in Process |-> windows'[q]]
        /\ \A q \in Process : \A k \in DOMAIN windows'[q] :
             k \in DOMAIN windows[q] /\ windows'[q][k] = windows[q][k]
    BY DEF Tick
  <1> HIDE DEF Ends
  <1>3. now' \in Nat
    BY <1>1, RateLimiterAssumption DEF LimiterInv, LimiterTypeOK
  <1>4. Failures \in Scope
    BY DEF Scope
  <1>5. /\ shared[Failures] \in Nat /\ guesses \in Nat /\ uncounted \in Nat
        /\ LoginFailureLimit \in Nat \ {0}
    BY <1>4, RateLimiterAssumption DEF LimiterInv, LimiterTypeOK
  <1>6. Flying' = Flying /\ Counting' = Counting
    BY <1>1 DEF Flying, Counting
  <1>7. CASE Ends(Failures)
    <2>1. shared'[Failures] = 0 /\ guesses' = 0 /\ uncounted' = 0
      BY <1>1, <1>4, <1>7
    <2>2. Guarded'
      BY <1>5, <1>6, <2>1, AttemptSets DEF Guarded
    <2> QED BY <1>1, <1>2, <1>3, <2>1, <2>2 DEF LimiterInv, LimiterTypeOK, Sizes
  <1>8. CASE ~ Ends(Failures)
    <2>1. shared'[Failures] = shared[Failures] /\ guesses' = guesses /\ uncounted' = uncounted
            /\ fallback'[Failures] = fallback[Failures]
      BY <1>1, <1>4, <1>8
    <2>2. Guarded'
      BY <1>6, <2>1 DEF LimiterInv, Guarded
    <2> QED BY <1>1, <1>2, <1>3, <2>1, <2>2 DEF LimiterInv, LimiterTypeOK, Sizes
  <1> QED BY <1>7, <1>8

(* LimiterInv is an invariant. *)
LEMMA LimiterInvariance == LimiterSpec => []LimiterInv
  <1>1. LimiterInit => LimiterInv
    <2> SUFFICES ASSUME LimiterInit PROVE LimiterInv
      OBVIOUS
    <2>1. LimiterTypeOK
      BY DEF LimiterInit, LimiterTypeOK
    <2>2. Flying = {} /\ Counting = {}
      BY DEF LimiterInit, Flying, Counting, Waiting
    <2>3. Guarded
      <3>1. Cardinality({}) = 0 /\ Cardinality(Attempt) \in Nat
        BY FS_EmptySet, FS_CardinalityType, RateLimiterAssumption
      <3>2. shared[Failures] = 0 /\ guesses = 0 /\ uncounted = 0
        BY DEF LimiterInit, Scope
      <3> QED BY <2>2, <3>1, <3>2, RateLimiterAssumption DEF Guarded
    <2>4. windows = [p \in Process |-> windows[p]]
      BY DEF LimiterInit
    <2> QED BY <2>1, <2>3, <2>4 DEF LimiterInv
  <1>2. LimiterInv /\ [LimiterNext]_limiterVars => LimiterInv'
    <2> SUFFICES ASSUME LimiterInv, [LimiterNext]_limiterVars PROVE LimiterInv'
      OBVIOUS
    <2>1. CASE LimiterNext
      BY <2>1, ArriveKeeps, CheckKeeps, VerifyKeeps, CountKeeps, RestartKeeps, TickKeeps
         DEF LimiterNext
    <2>2. CASE UNCHANGED limiterVars
      BY <2>2 DEF limiterVars, LimiterInv, LimiterTypeOK, Guarded, Flying, Counting
    <2> QED BY <2>1, <2>2
  <1> QED BY <1>1, <1>2, PTL DEF LimiterSpec

(* Counters, windows and attempts keep their types (RateLimiter.hit).      *)
THEOREM LimiterTypeCorrect == LimiterSpec => []LimiterTypeOK
  <1>1. LimiterInv => LimiterTypeOK
    BY DEF LimiterInv
  <1> QED BY <1>1, LimiterInvariance, PTL

(* While Redis answers, the wrong passwords that are verified in a long    *)
(* window are bounded, although the guard of the login reads the failures  *)
(* before the one it lets through is counted.                              *)
THEOREM GuessesStayBounded == LimiterSpec => []GuessesBounded
  <1>1. LimiterInv => GuessesBounded
    <2> SUFFICES ASSUME LimiterInv, fallback[Failures] = {}
                 PROVE  guesses <= LoginFailureLimit - 1 + Cardinality(Attempt) + uncounted
      BY DEF GuessesBounded
    <2>1. /\ shared[Failures] \in Nat /\ guesses \in Nat /\ uncounted \in Nat
          /\ LoginFailureLimit \in Nat
      BY RateLimiterAssumption DEF LimiterInv, LimiterTypeOK, Scope
    <2> QED BY <2>1, AttemptSets DEF LimiterInv, Guarded
  <1> QED BY <1>1, LimiterInvariance, PTL

-----------------------------------------------------------------------------
(* What a window lets through, if processes may count in their memory. *)

(* What a set of counts says of a key. *)
InMemory(counts, key) == IF key \in DOMAIN counts THEN counts[key] ELSE 0

Redis == << >>

(* The hits let through are as many as numbers given by Redis, or by a     *)
(* process of this window in one of its lives: each gives a number up to   *)
(* the limit, and none twice while its count lasts.                        *)
Numbers(given, s) ==
  /\ given \subseteq ({Redis} \cup fallback[s]) \X (1 .. LimitOf[s])
  /\ Cardinality(given) = admitted[s]
  /\ \A x \in given :
       /\ x[1] = Redis => x[2] <= shared[s]
       /\ \A p \in Process : x[1] = <<p, life[p]>> => x[2] <= InMemory(windows[p], Key(s))

Fallen(s) ==
  /\ IsFiniteSet(fallback[s])
  /\ \A p \in Process : life[p] = 0 => <<p, 1>> \notin fallback[s]

AdmitInv == \A s \in Scope : Fallen(s) /\ \E given : Numbers(given, s)

(* Limits are numbers. *)
LEMMA LimitNat ==
  ASSUME NEW s \in Scope
  PROVE  LimitOf[s] \in Nat
  BY RateLimiterAssumption DEF LimitOf, Scope, Arrivals, Failures

(* The bound: there are no more numbers than that.                         *)
LEMMA AdmitBound == LimiterInv /\ AdmitInv => AdmittedWithinLimit
  <1> SUFFICES ASSUME LimiterInv, AdmitInv, NEW s \in Scope
               PROVE  admitted[s] <= LimitOf[s] * (1 + Cardinality(fallback[s]))
    BY DEF AdmittedWithinLimit
  <1>1. PICK given : Numbers(given, s)
    BY DEF AdmitInv
  <1> DEFINE givers == {Redis} \cup fallback[s]
             L == LimitOf[s]
  <1>2. L \in Nat /\ IsFiniteSet(fallback[s])
    BY LimitNat DEF AdmitInv, Fallen
  <1>3. Cardinality(fallback[s]) \in Nat
    BY <1>2, FS_CardinalityType
  <1>4. Redis \notin fallback[s]
    <2>1. fallback[s] \subseteq Process \X {0, 1}
      BY DEF LimiterInv, LimiterTypeOK
    <2>2. \A x \in Process \X {0, 1} : x # << >>
      OBVIOUS
    <2> QED BY <2>1, <2>2 DEF Redis
  <1>5. IsFiniteSet(givers) /\ Cardinality(givers) = Cardinality(fallback[s]) + 1
    <2>1. givers = fallback[s] \cup {Redis}
      OBVIOUS
    <2> QED BY <1>2, <1>4, <2>1, FS_AddElement
  <1>6. IsFiniteSet(1 .. L) /\ Cardinality(1 .. L) = L
    <2>1. L \in Int /\ 1 \in Int /\ (IF 1 > L THEN 0 ELSE L - 1 + 1) = L
      BY <1>2
    <2> HIDE DEF L
    <2> QED BY <2>1, FS_Interval
  <1> HIDE DEF givers, L
  <1>7. IsFiniteSet(givers \X (1 .. L)) /\ Cardinality(givers \X (1 .. L)) = Cardinality(givers) * L
    BY <1>5, <1>6, FS_Product
  <1>8. given \in SUBSET (givers \X (1 .. L)) /\ Cardinality(given) = admitted[s]
    BY <1>1 DEF Numbers, givers, L
  <1>9. Cardinality(given) <= Cardinality(givers) * L
    BY <1>7, <1>8, FS_Subset
  <1>10. Cardinality(givers) * L = L * (1 + Cardinality(fallback[s]))
    BY <1>2, <1>3, <1>5
  <1> QED BY <1>8, <1>9, <1>10 DEF L

(* A prune leaves the counts of the current windows.                       *)
LEMMA PruneLeaves ==
  ASSUME NEW s \in Scope, NEW counts, Sizes(counts)
  PROVE  InMemory(Prune(counts), Key(s)) = InMemory(counts, Key(s))
  <1>1. ~ WindowExpired(Key(s))
    BY DEF WindowExpired, Key
  <1>2. CASE Key(s) \in DOMAIN counts /\ counts[Key(s)] > 0
    BY <1>1, <1>2 DEF Prune, InMemory
  <1>3. CASE Key(s) \in DOMAIN counts /\ ~ (counts[Key(s)] > 0)
    <2>1. counts[Key(s)] = 0
      BY <1>3 DEF Sizes
    <2> QED BY <1>3, <2>1 DEF Prune, InMemory
  <1>4. CASE Key(s) \notin DOMAIN counts
    BY <1>4 DEF Prune, InMemory
  <1> QED BY <1>2, <1>3, <1>4

(* A hit gives a number that was not given: Redis, or the process in this  *)
(* life, now counts it.                                                    *)
LEMMA HitGives ==
  ASSUME LimiterInv, AdmitInv, NEW p \in Process, NEW s \in Scope, NEW by \in {0, 1},
         NEW count, Hit(p, s, by, count)
  PROVE  /\ shared'[s] >= shared[s]
         /\ \A x \in Scope \ {s} : shared'[x] = shared[x] /\ fallback'[x] = fallback[x]
         /\ \A q \in Process, x \in Scope :
              InMemory(windows'[q], Key(x)) >= InMemory(windows[q], Key(x))
         /\ fallback[s] \subseteq fallback'[s] /\ fallback'[s] \subseteq fallback[s] \cup {<<p, life[p]>>}
         /\ \E giver \in {Redis} \cup fallback'[s] :
              /\ giver = Redis => count <= shared'[s] /\ count = shared[s] + by
              /\ giver # Redis => /\ giver = <<p, life[p]>>
                                  /\ count <= InMemory(windows'[p], Key(s))
                                  /\ count = InMemory(windows[p], Key(s)) + by
  <1>1. /\ shared \in [Scope -> Nat] /\ \A q \in Process : Sizes(windows[q])
        /\ windows = [q \in Process |-> windows[q]]
        /\ fallback \in [Scope -> SUBSET (Process \X {0, 1})]
    BY DEF LimiterInv, LimiterTypeOK, Sizes
  <1>2. \A q \in Process, x \in Scope : InMemory(windows[q], Key(x)) \in Nat
    BY <1>1 DEF InMemory, Sizes
  <1>3. CASE /\ count = shared[s] + by
             /\ shared' = [shared EXCEPT ![s] = count]
             /\ UNCHANGED <<windows, fallback>>
    <2>1. shared'[s] = count /\ count \in Nat /\ count >= shared[s]
            /\ \A x \in Scope \ {s} : shared'[x] = shared[x]
      BY <1>1, <1>3
    <2>2. \A q \in Process, x \in Scope :
            InMemory(windows'[q], Key(x)) >= InMemory(windows[q], Key(x))
      BY <1>2, <1>3
    <2>3. count <= shared'[s]
      BY <2>1
    <2> QED BY <1>3, <2>1, <2>2, <2>3
  <1>4. CASE /\ \E done \in {0, by} : shared' = [shared EXCEPT ![s] = @ + done]
             /\ HitMemory(p, s, by, count)
    <2> DEFINE after == [k \in DOMAIN windows[p] \cup {Key(s)} |->
                           IF k = Key(s) THEN count ELSE windows[p][k]]
               was == InMemory(windows[p], Key(s))
    <2>1. count = was + by
      BY <1>4 DEF HitMemory, Remembered, InMemory
    <2>2. was \in Nat /\ count \in Nat /\ count >= was
      BY <1>2, <2>1
    <2>3. windows' = [windows EXCEPT ![p] = Prune(after)]
      BY <1>4 DEF HitMemory
    <2>4. Sizes(after)
      BY <1>1, <2>2, WindowNat DEF Sizes, LimiterInv
    <2>5. \A x \in Scope : InMemory(Prune(after), Key(x)) = InMemory(after, Key(x))
      BY <2>4, PruneLeaves
    <2>6. InMemory(after, Key(s)) = count
      BY DEF InMemory
    <2>7. \A x \in Scope \ {s} : InMemory(after, Key(x)) = InMemory(windows[p], Key(x))
      BY DEF InMemory, Key
    <2> HIDE DEF after, was
    <2>8. windows'[p] = Prune(after) /\ \A q \in Process \ {p} : windows'[q] = windows[q]
      BY <1>1, <2>3
    <2>9. ASSUME NEW q \in Process, NEW x \in Scope
          PROVE  InMemory(windows'[q], Key(x)) >= InMemory(windows[q], Key(x))
      <3>1. CASE q # p
        BY <1>2, <2>8, <3>1
      <3>2. CASE q = p /\ x # s
        <4>1. InMemory(windows'[q], Key(x)) = InMemory(windows[q], Key(x))
          BY <2>5, <2>7, <2>8, <3>2
        <4> QED BY <1>2, <4>1
      <3>3. CASE q = p /\ x = s
        BY <2>2, <2>5, <2>6, <2>8, <3>3 DEF was
      <3> QED BY <3>1, <3>2, <3>3
    <2>10. shared'[s] >= shared[s] /\ \A x \in Scope \ {s} : shared'[x] = shared[x]
      BY <1>1, <1>4
    <2>11. /\ fallback'[s] = fallback[s] \cup {<<p, life[p]>>}
           /\ \A x \in Scope \ {s} : fallback'[x] = fallback[x]
      BY <1>1, <1>4 DEF HitMemory
    <2>12. PICK giver : giver = <<p, life[p]>>
      OBVIOUS
    <2>13. giver # Redis
      <3>1. Len(giver) = 2 /\ Len(<< >>) = 0
        BY <2>12
      <3> QED BY <3>1 DEF Redis
    <2>14. count <= InMemory(windows'[p], Key(s))
      BY <2>2, <2>5, <2>6, <2>8
    <2>15. giver \in {Redis} \cup fallback'[s]
      BY <2>11, <2>12
    <2> QED BY <2>1, <2>9, <2>10, <2>11, <2>12, <2>13, <2>14, <2>15 DEF was
  <1> QED BY <1>3, <1>4 DEF Hit

(* A hit that lets through is a number more.                               *)
LEMMA HitAdmits ==
  ASSUME LimiterInv, AdmitInv, LimiterInv', NEW p \in Process, NEW s \in Scope,
         NEW by \in {0, 1}, NEW count, Hit(p, s, by, count), now' = now, life' = life,
         \A x \in Scope \ {s} : admitted'[x] = admitted[x],
         \/ admitted'[s] = admitted[s]
         \/ by = 1 /\ count <= LimitOf[s] /\ admitted'[s] = admitted[s] + 1
  PROVE  AdmitInv'
  <1>1. /\ shared'[s] >= shared[s]
        /\ \A x \in Scope \ {s} : shared'[x] = shared[x] /\ fallback'[x] = fallback[x]
        /\ \A q \in Process, x \in Scope :
             InMemory(windows'[q], Key(x)) >= InMemory(windows[q], Key(x))
        /\ fallback[s] \subseteq fallback'[s] /\ fallback'[s] \subseteq fallback[s] \cup {<<p, life[p]>>}
    BY HitGives
  <1>2. PICK giver \in {Redis} \cup fallback'[s] :
          /\ giver = Redis => count <= shared'[s] /\ count = shared[s] + by
          /\ giver # Redis => /\ giver = <<p, life[p]>>
                              /\ count <= InMemory(windows'[p], Key(s))
                              /\ count = InMemory(windows[p], Key(s)) + by
    BY HitGives
  <1>3. /\ shared \in [Scope -> Nat] /\ shared' \in [Scope -> Nat] /\ admitted \in [Scope -> Nat]
        /\ \A q \in Process : Sizes(windows[q]) /\ Sizes(windows'[q])
        /\ life \in [Process -> {0, 1}]
    BY DEF LimiterInv, LimiterTypeOK, Sizes
  <1>4. \A q \in Process, x \in Scope :
          InMemory(windows[q], Key(x)) \in Nat /\ InMemory(windows'[q], Key(x)) \in Nat
    BY <1>3 DEF InMemory, Sizes
  <1>5. \A x \in Scope : Key(x)' = Key(x) /\ LimitOf[x] \in Nat
    BY LimitNat DEF Key, WindowAt
  <1>6. ASSUME NEW x \in Scope
        PROVE  Fallen(x)'
    <2>1. CASE x # s
      BY <1>1, <2>1 DEF AdmitInv, Fallen
    <2>2. CASE x = s
      <3>1. IsFiniteSet(fallback[s] \cup {<<p, life[p]>>})
        BY FS_AddElement DEF AdmitInv, Fallen
      <3>2. IsFiniteSet(fallback'[s])
        BY <1>1, <3>1, FS_Subset
      <3>3. \A q \in Process : life[q] = 0 => <<q, 1>> \notin fallback'[s]
        BY <1>1 DEF AdmitInv, Fallen
      <3> QED BY <2>2, <3>2, <3>3 DEF Fallen
    <2> QED BY <2>1, <2>2
  <1>7. ASSUME NEW x \in Scope, NEW given, Numbers(given, x), admitted'[x] = admitted[x]
        PROVE  Numbers(given, x)'
    <2>1. given \subseteq ({Redis} \cup fallback'[x]) \X (1 .. LimitOf[x])
      BY <1>1, <1>7 DEF Numbers
    <2>2. ASSUME NEW g \in given
          PROVE  /\ g[1] = Redis => g[2] <= shared'[x]
                 /\ \A q \in Process : g[1] = <<q, life[q]>> =>
                      g[2] <= InMemory(windows'[q], Key(x))
      <3>1. g[2] \in Nat
        BY <1>5, <2>1
      <3>2. /\ g[1] = Redis => g[2] <= shared[x]
            /\ \A q \in Process : g[1] = <<q, life[q]>> => g[2] <= InMemory(windows[q], Key(x))
        BY <1>7 DEF Numbers
      <3>3. shared[x] \in Nat /\ shared'[x] \in Nat /\ shared'[x] >= shared[x]
        BY <1>1, <1>3
      <3>4. ASSUME NEW q \in Process, g[1] = <<q, life[q]>>
            PROVE  g[2] <= InMemory(windows'[q], Key(x))
        <4> DEFINE m == InMemory(windows[q], Key(x))
                   n == InMemory(windows'[q], Key(x))
        <4>1. m \in Nat /\ n \in Nat /\ n >= m /\ g[2] <= m
          BY <1>1, <1>4, <3>2, <3>4
        <4> HIDE DEF m, n
        <4>2. g[2] <= n
          BY <3>1, <4>1
        <4> QED BY <4>2 DEF n
      <3> QED BY <3>1, <3>2, <3>3, <3>4
    <2> QED BY <1>5, <1>7, <2>1, <2>2 DEF Numbers
  <1>8. ASSUME NEW given, Numbers(given, s), by = 1, count <= LimitOf[s],
               admitted'[s] = admitted[s] + 1
        PROVE  Numbers(given \cup {<<giver, count>>}, s)'
    <2>1. count \in 1 .. LimitOf[s]
      BY <1>2, <1>3, <1>4, <1>5, <1>8
    <2>2. given \subseteq ({Redis} \cup fallback'[s]) \X (1 .. LimitOf[s])
      BY <1>1, <1>8 DEF Numbers
    <2>3. given \cup {<<giver, count>>} \subseteq ({Redis} \cup fallback'[s]) \X (1 .. LimitOf[s])
      BY <2>1, <2>2
    <2>4. <<giver, count>> \notin given
      <3> SUFFICES ASSUME <<giver, count>> \in given
                   PROVE  FALSE
        OBVIOUS
      <3>1. /\ giver = Redis => count <= shared[s]
            /\ \A q \in Process : giver = <<q, life[q]>> => count <= InMemory(windows[q], Key(s))
        <4>1. PICK g \in given : g[1] = giver /\ g[2] = count
          OBVIOUS
        <4> QED BY <1>8, <4>1 DEF Numbers
      <3>2. CASE giver = Redis
        BY <1>2, <1>3, <1>8, <3>1, <3>2
      <3>3. CASE giver # Redis
        <4>1. count <= InMemory(windows[p], Key(s)) /\ count = InMemory(windows[p], Key(s)) + 1
          BY <1>2, <1>8, <3>1, <3>3
        <4>2. InMemory(windows[p], Key(s)) \in Nat
          BY <1>4
        <4> QED BY <4>1, <4>2
      <3> QED BY <3>2, <3>3
    <2>5. IsFiniteSet(given)
      <3>1. IsFiniteSet({Redis} \cup fallback'[s])
        <4>1. {Redis} \cup fallback'[s] = fallback'[s] \cup {Redis}
          OBVIOUS
        <4> QED BY <1>6, <4>1, FS_AddElement DEF Fallen
      <3>2. IsFiniteSet(1 .. LimitOf[s])
        <4>1. 1 \in Int /\ LimitOf[s] \in Int
          BY <1>5
        <4> QED BY <4>1, FS_Interval
      <3> QED BY <2>2, <3>1, <3>2, FS_Product, FS_Subset
    <2>6. Cardinality(given \cup {<<giver, count>>}) = admitted'[s]
      BY ZenonT(40), <1>8, <2>4, <2>5, FS_AddElement DEF Numbers
    <2>7. /\ giver = Redis => count <= shared'[s]
          /\ \A q \in Process : giver = <<q, life[q]>> => count <= InMemory(windows'[q], Key(s))
      <3> SUFFICES ASSUME NEW q \in Process, giver = <<q, life[q]>>
                   PROVE  count <= InMemory(windows'[q], Key(s))
        BY <1>2
      <3>1. giver # Redis
        <4>1. Len(giver) = 2 /\ Len(<< >>) = 0
          OBVIOUS
        <4> QED BY <4>1 DEF Redis
      <3>2. q = p
        BY <1>2, <3>1
      <3> QED BY <1>2, <3>1, <3>2
    <2>8. /\ given \subseteq ({Redis} \cup fallback[s]) \X (1 .. LimitOf[s])
          /\ \A g \in given :
               /\ g[1] = Redis => g[2] <= shared[s]
               /\ \A q \in Process : g[1] = <<q, life[q]>> => g[2] <= InMemory(windows[q], Key(s))
      BY <1>8 DEF Numbers
    <2>9. ASSUME NEW g \in given \cup {<<giver, count>>}
          PROVE  /\ g[1] = Redis => g[2] <= shared'[s]
                 /\ \A q \in Process : g[1] = <<q, life[q]>> =>
                      g[2] <= InMemory(windows'[q], Key(s))
      <3>1. CASE g = <<giver, count>>
        BY <2>7, <3>1
      <3>2. CASE g \in given
        <4>1. g[2] \in Nat
          BY <1>5, <2>2, <3>2
        <4>2. shared[s] \in Nat /\ shared'[s] \in Nat /\ shared'[s] >= shared[s]
          BY <1>1, <1>3
        <4>3. ASSUME NEW q \in Process, g[1] = <<q, life[q]>>
              PROVE  g[2] <= InMemory(windows'[q], Key(s))
          <5> DEFINE m == InMemory(windows[q], Key(s))
                     n == InMemory(windows'[q], Key(s))
          <5>1. m \in Nat /\ n \in Nat /\ n >= m /\ g[2] <= m
            BY <1>1, <1>4, <2>8, <3>2, <4>3
          <5> HIDE DEF m, n
          <5>2. g[2] <= n
            BY <4>1, <5>1
          <5> QED BY <5>2 DEF n
        <4>4. g[1] = Redis => g[2] <= shared[s]
          BY <2>8, <3>2
        <4> QED BY <4>1, <4>2, <4>3, <4>4
      <3> QED BY <3>1, <3>2
    <2> QED BY <1>5, <2>3, <2>6, <2>9 DEF Numbers
  <1>9. ASSUME NEW x \in Scope
        PROVE  \E given : Numbers(given, x)'
    <2>1. PICK given : Numbers(given, x)
      BY DEF AdmitInv
    <2>2. CASE admitted'[x] = admitted[x]
      BY <1>7, <2>1, <2>2
    <2>3. CASE admitted'[x] # admitted[x]
      <3>1. x = s /\ by = 1 /\ count <= LimitOf[s] /\ admitted'[s] = admitted[s] + 1
        BY <2>3
      <3>2. PICK more : more = given \cup {<<giver, count>>}
        OBVIOUS
      <3> QED BY <1>8, <2>1, <3>1, <3>2
    <2> QED BY <2>2, <2>3
  <1> QED BY <1>6, <1>9 DEF AdmitInv

(* A new life of a process has given no number yet. *)
LEMMA RestartAdmits ==
  ASSUME LimiterInv, AdmitInv, NEW p \in Process, Restart(p)
  PROVE  AdmitInv'
  <1>1. /\ life[p] = 0 /\ life' = [life EXCEPT ![p] = 1] /\ windows' = [windows EXCEPT ![p] = << >>]
        /\ UNCHANGED <<now, shared, admitted, fallback>>
    BY DEF Restart
  <1>2. /\ life'[p] = 1 /\ windows'[p] = << >>
        /\ \A q \in Process \ {p} : life'[q] = life[q] /\ windows'[q] = windows[q]
    BY <1>1 DEF LimiterInv, LimiterTypeOK
  <1>3. \A x \in Scope : Key(x)' = Key(x)
    BY <1>1 DEF Key, WindowAt
  <1>4. ASSUME NEW s \in Scope
        PROVE  Fallen(s)' /\ \E given : Numbers(given, s)'
    <2>1. Fallen(s)
      BY DEF AdmitInv
    <2>2. Fallen(s)'
      BY <1>1, <1>2, <2>1 DEF Fallen
    <2>3. PICK given : Numbers(given, s)
      BY DEF AdmitInv
    <2>4. ASSUME NEW g \in given, NEW q \in Process, g[1] = <<q, life'[q]>>
          PROVE  g[2] <= InMemory(windows'[q], Key(s))
      <3>1. q # p
        <4>1. g[1] \in {Redis} \cup fallback[s]
          BY <2>3 DEF Numbers
        <4>2. Redis # <<p, 1>>
          <5>1. Len(<<p, 1>>) = 2 /\ Len(<< >>) = 0
            OBVIOUS
          <5> QED BY <5>1 DEF Redis
        <4> QED BY <1>1, <1>2, <2>1, <2>4, <4>1, <4>2 DEF Fallen
      <3> QED BY <1>2, <2>3, <2>4, <3>1 DEF Numbers
    <2>5. Numbers(given, s)'
      BY <1>1, <1>3, <2>3, <2>4 DEF Numbers
    <2> QED BY <2>2, <2>5
  <1> QED BY <1>4 DEF AdmitInv

(* With a window its numbers end; the counts of one that goes on stay.     *)
LEMMA TickAdmits ==
  ASSUME LimiterInv, AdmitInv, Tick
  PROVE  AdmitInv'
  <1> DEFINE Ends(s) == WindowAt(s, now') # WindowAt(s, now)
  <1>1. /\ life' = life
        /\ shared' = [s \in Scope |-> IF Ends(s) THEN 0 ELSE shared[s]]
        /\ admitted' = [s \in Scope |-> IF Ends(s) THEN 0 ELSE admitted[s]]
        /\ fallback' = [s \in Scope |-> IF Ends(s) THEN {} ELSE fallback[s]]
    BY DEF Tick
  <1>2. ASSUME NEW s \in Scope, ~ Ends(s)
        PROVE  /\ Key(s)' = Key(s)
               /\ \A p \in Process : InMemory(windows'[p], Key(s)) = InMemory(windows[p], Key(s))
    <2>1. Key(s)' = Key(s) /\ Key(s)[1] = s
      BY <1>2 DEF Key
    <2> DEFINE Begins(key) == /\ WindowAt(key[1], now') # WindowAt(key[1], now)
                              /\ key[2] = WindowAt(key[1], now')
    <2>2. windows' = [p \in Process |->
                        [k \in {k \in DOMAIN windows[p] : ~Begins(k)} |-> windows[p][k]]]
      BY DEF Tick
    <2>3. ~ Begins(Key(s))
      BY <1>2, <2>1
    <2> HIDE DEF Begins
    <2> QED BY <2>1, <2>2, <2>3 DEF InMemory
  <1> HIDE DEF Ends
  <1>3. ASSUME NEW s \in Scope, Ends(s)
        PROVE  Fallen(s)' /\ \E given : Numbers(given, s)'
    <2>1. admitted'[s] = 0 /\ fallback'[s] = {}
      BY <1>1, <1>3
    <2>2. PICK given : given = {}
      OBVIOUS
    <2>3. Numbers(given, s)'
      BY <2>1, <2>2, FS_EmptySet DEF Numbers
    <2> QED BY <2>1, <2>3, FS_EmptySet DEF Fallen
  <1>4. ASSUME NEW s \in Scope, ~ Ends(s)
        PROVE  Fallen(s)' /\ \E given : Numbers(given, s)'
    <2>1. shared'[s] = shared[s] /\ admitted'[s] = admitted[s] /\ fallback'[s] = fallback[s]
      BY <1>1, <1>4
    <2>2. PICK given : Numbers(given, s)
      BY DEF AdmitInv
    <2>3. Numbers(given, s)'
      BY <1>1, <1>2, <1>4, <2>1, <2>2 DEF Numbers
    <2>4. Fallen(s)'
      BY <1>1, <2>1 DEF AdmitInv, Fallen
    <2> QED BY <2>3, <2>4
  <1> QED BY <1>3, <1>4 DEF AdmitInv

(* What neither hits nor restarts nor ticks lets nothing through. *)
LEMMA RestAdmits ==
  ASSUME AdmitInv, UNCHANGED <<now, shared, windows, life, admitted, fallback>>
  PROVE  AdmitInv'
  <1>1. ASSUME NEW s \in Scope
        PROVE  Fallen(s)' /\ \E given : Numbers(given, s)'
    <2>1. Key(s)' = Key(s)
      BY DEF Key, WindowAt
    <2>2. PICK given : Numbers(given, s)
      BY DEF AdmitInv
    <2>3. Numbers(given, s)'
      BY <2>1, <2>2 DEF Numbers
    <2>4. Fallen(s)'
      BY DEF AdmitInv, Fallen
    <2> QED BY <2>3, <2>4
  <1> QED BY <1>1 DEF AdmitInv

(* Every step keeps the numbers given apart. *)
LEMMA AdmitNext ==
  LimiterInv /\ LimiterInv' /\ AdmitInv /\ [LimiterNext]_limiterVars => AdmitInv'
  <1> SUFFICES ASSUME LimiterInv, LimiterInv', AdmitInv, [LimiterNext]_limiterVars
               PROVE  AdmitInv'
    OBVIOUS
  <1>1. /\ Arrivals \in Scope /\ Failures \in Scope /\ Arrivals # Failures
        /\ \A x \in Scope : x = Arrivals \/ x = Failures
        /\ LimitOf[Arrivals] = LoginEmailLimit /\ LimitOf[Failures] = LoginFailureLimit
    BY DEF Scope, Arrivals, Failures, LimitOf
  <1>2. admitted \in [Scope -> Nat]
    BY DEF LimiterInv, LimiterTypeOK
  <1>3. ASSUME NEW a \in Attempt, attempt[a].at \in {"check", "count"}
        PROVE  attempt[a].process \in Process
    <2>1. attempt[a] \in AttemptState
      BY DEF LimiterInv, LimiterTypeOK, AttemptState
    <2> QED BY <1>3, <2>1, States
  <1>4. ASSUME NEW a \in Attempt, NEW p \in Process, Arrive(a, p)
        PROVE  AdmitInv'
    <2>1. CASE UNCHANGED <<shared, windows, fallback, attempt, admitted>>
      BY <1>4, <2>1, RestAdmits DEF Arrive
    <2>2. ASSUME NEW count, Hit(p, Arrivals, 1, count),
                 \/ admitted' = admitted
                 \/ /\ ~ (count > LoginEmailLimit)
                    /\ admitted' = [admitted EXCEPT ![Arrivals] = @ + 1]
          PROVE  AdmitInv'
      <3>1. count \in Nat /\ LoginEmailLimit \in Nat
        BY <1>1, <2>2, HitKeeps, RateLimiterAssumption
      <3>2. \/ admitted'[Arrivals] = admitted[Arrivals]
            \/ count <= LimitOf[Arrivals] /\ admitted'[Arrivals] = admitted[Arrivals] + 1
        BY <1>1, <1>2, <2>2, <3>1
      <3>3. \A x \in Scope \ {Arrivals} : admitted'[x] = admitted[x]
        BY <1>2, <2>2
      <3>4. now' = now /\ life' = life
        BY <1>4 DEF Arrive
      <3> QED BY <1>1, <2>2, <3>2, <3>3, <3>4, HitAdmits
    <2> QED BY <1>4, <2>1, <2>2 DEF Arrive
  <1>5. ASSUME NEW a \in Attempt, CheckFailures(a)
        PROVE  AdmitInv'
    <2>1. PICK count : Hit(attempt[a].process, Failures, 0, count)
      BY <1>5 DEF CheckFailures
    <2>2. attempt[a].process \in Process /\ UNCHANGED <<now, life, admitted>>
      BY <1>3, <1>5 DEF CheckFailures
    <2> QED BY <1>1, <2>1, <2>2, HitAdmits
  <1>6. ASSUME NEW a \in Attempt, Verify(a)
        PROVE  AdmitInv'
    BY <1>6, RestAdmits DEF Verify
  <1>7. ASSUME NEW a \in Attempt, CountFailure(a)
        PROVE  AdmitInv'
    <2>1. PICK count :
            /\ Hit(attempt[a].process, Failures, 1, count)
            /\ admitted' = [admitted EXCEPT ![Failures] =
                              IF count > LoginFailureLimit THEN @ ELSE @ + 1]
      BY <1>7 DEF CountFailure
    <2>2. attempt[a].process \in Process /\ UNCHANGED <<now, life>>
      BY <1>3, <1>7 DEF CountFailure
    <2>3. count \in Nat /\ LoginFailureLimit \in Nat
      BY <1>1, <2>1, <2>2, HitKeeps, RateLimiterAssumption
    <2>4. \/ admitted'[Failures] = admitted[Failures]
          \/ count <= LimitOf[Failures] /\ admitted'[Failures] = admitted[Failures] + 1
      BY <1>1, <1>2, <2>1, <2>3
    <2>5. \A x \in Scope \ {Failures} : admitted'[x] = admitted[x]
      BY <1>2, <2>1
    <2> QED BY <1>1, <2>1, <2>2, <2>4, <2>5, HitAdmits
  <1>8. CASE UNCHANGED limiterVars
    BY <1>8, RestAdmits DEF limiterVars
  <1> QED BY <1>4, <1>5, <1>6, <1>7, <1>8, RestartAdmits, TickAdmits DEF LimiterNext

(* Nothing was let through at first. *)
LEMMA AdmitInit == LimiterInit => AdmitInv
  <1> SUFFICES ASSUME LimiterInit, NEW s \in Scope
               PROVE  Fallen(s) /\ \E given : Numbers(given, s)
    BY DEF AdmitInv
  <1>1. admitted[s] = 0 /\ fallback[s] = {}
    BY DEF LimiterInit
  <1>2. Numbers({}, s)
    BY <1>1, FS_EmptySet DEF Numbers
  <1> QED BY <1>1, <1>2, FS_EmptySet DEF Fallen

(* However the answers of Redis are lost, processes restart and windows    *)
(* pass, a scope lets through its limit in a window, and once more for     *)
(* every process, in each of its lives, that counted in its own memory     *)
(* (RateLimiter.hit, _MemoryStore._prune): for any limits and processes.   *)
THEOREM AdmittedStaysWithin == LimiterSpec => []AdmittedWithinLimit
  <1>1. LimiterInv /\ LimiterInv' /\ AdmitInv /\ [LimiterNext]_limiterVars => AdmitInv'
    BY AdmitNext
  <1> QED BY <1>1, AdmitInit, AdmitBound, LimiterInvariance, PTL DEF LimiterSpec
=============================================================================
