--------------------------- MODULE InventoryProofs ---------------------------
(***************************************************************************)
(* The stock service, for any materials, keys, requests and operations:    *)
(* its balances are sound, its ledger explains them, a key takes effect    *)
(* once, answers are true, and it implements the atomic service.           *)
(***************************************************************************)
EXTENDS Inventory, TLAPS, SequenceTheorems

(* The steps of a request that leave balances, ledger and calls alone, with *)
(* what each of them has found out about its call.                          *)
Quiet(r) == RefuseAtOnce(r) \/ ReplayAtOnce(r) \/ ConflictAtOnce(r) \/ PassChecks(r)
              \/ RefuseLocked(r) \/ ReplayRaced(r) \/ ConflictRaced(r) \/ Lose(r)

-----------------------------------------------------------------------------
(* Lemmas about the arithmetic and the write. *)

(* A movement of integer balances by an integer quantity has integer balances. *)
LEMMA MovedType ==
  ASSUME NEW lvl \in [on_hand : Int, reserved : Int],
         NEW type \in MovementType, NEW qty \in Int
  PROVE  Moved(lvl, type, qty) \in [on_hand : Int, reserved : Int]
  BY DEF Moved, OnHandChange, ReservedChange

(* Sound balances are integer balances. *)
LEMMA SoundIsInteger ==
  ASSUME NEW lvl \in SoundLevel
  PROVE  lvl \in [on_hand : Int, reserved : Int]
  BY DEF SoundLevel

(* What a request that writes adds to the ledger: one well-typed entry, at *)
(* the end of the sequence of its material.                                *)
NewEntry(r) ==
  [key |-> call[r].key, payload |-> call[r].payload,
   before |-> level[call[r].payload.material], after |-> After(r)]

(* Writing appends that entry and moves the balances of its material to After. *)
LEMMA WriteEffect ==
  ASSUME TypeOK, NEW r \in Request, Write(r)
  PROVE  LET m == call[r].payload.material
         IN  /\ m \in Material
             /\ NewEntry(r) \in Entry
             /\ level' = [level EXCEPT ![m] = After(r)]
             /\ ledger' = [ledger EXCEPT ![m] = Append(ledger[m], NewEntry(r))]
  <1> DEFINE m == call[r].payload.material
  <1>1. /\ call[r] \in Call
        /\ call[r].key \in Key
        /\ call[r].payload \in Payload
    BY DEF TypeOK, Call
  <1>2. /\ m \in Material
        /\ call[r].payload.type \in MovementType
        /\ call[r].payload.quantity \in Int
    BY <1>1, PayloadAssumption
  <1>3. level[m] \in [on_hand : Int, reserved : Int]
    BY <1>2, SoundIsInteger DEF TypeOK
  <1>4. After(r) \in [on_hand : Int, reserved : Int]
    BY <1>2, <1>3, MovedType DEF After
  <1>5. NewEntry(r) \in Entry
    BY <1>1, <1>3, <1>4 DEF NewEntry, Entry
  <1> QED
    BY <1>2, <1>5 DEF Write, NewEntry, TypeOK

(* A quiet step moves one request to a phase and changes nothing else. *)
LEMMA QuietEffect ==
  ASSUME NEW r \in Request, Quiet(r)
  PROVE  /\ UNCHANGED <<level, ledger, active, call>>
         /\ \E p \in Phase : phase' = [phase EXCEPT ![r] = p]
         /\ phase[r] \in {"new", "checked"}
  BY DEF Quiet, RefuseAtOnce, ReplayAtOnce, ConflictAtOnce, PassChecks, RefuseLocked,
         ReplayRaced, ConflictRaced, Lose, Finish, Phase, Answer

(* Every step is a write, a quiet step, or a material's activation. *)
LEMMA StepCases ==
  ASSUME [Next]_vars
  PROVE  \/ \E r \in Request : Record(r)
         \/ \E r \in Request : Quiet(r)
         \/ UNCHANGED <<level, ledger, phase, call>> /\ (\E m \in Material, b \in BOOLEAN :
              active' = [active EXCEPT ![m] = b])
         \/ UNCHANGED vars
  BY DEF Next, Check, Commit, Quiet, SetActive

-----------------------------------------------------------------------------
(* Every variable keeps its type; the balances of the stock_levels table are *)
(* sound in every state (0 <= reserved <= on_hand).                          *)
THEOREM TypeCorrect == Spec => []TypeOK
<1>1. Init => TypeOK
  BY DEF Init, TypeOK, SoundLevel, EmptyLevel, Phase
<1>2. TypeOK /\ [Next]_vars => TypeOK'
  <2> SUFFICES ASSUME TypeOK, [Next]_vars PROVE TypeOK'
    OBVIOUS
  <2>1. ASSUME NEW r \in Request, Record(r) PROVE TypeOK'
    <3> DEFINE m == call[r].payload.material
    <3>1. /\ m \in Material
          /\ NewEntry(r) \in Entry
          /\ level' = [level EXCEPT ![m] = After(r)]
          /\ ledger' = [ledger EXCEPT ![m] = Append(ledger[m], NewEntry(r))]
      BY <2>1, WriteEffect DEF Record
    <3>2. level' \in [Material -> SoundLevel]
      BY <2>1, <3>1 DEF Record, TypeOK
    <3>3. Append(ledger[m], NewEntry(r)) \in Seq(Entry)
      BY <3>1 DEF TypeOK
    <3>4. ledger' \in [Material -> Seq(Entry)]
      BY <3>1, <3>3 DEF TypeOK
    <3>5. phase' \in [Request -> Phase]
      BY <2>1 DEF Record, TypeOK, Phase, Answer
    <3> QED
      BY <2>1, <3>2, <3>4, <3>5 DEF Record, TypeOK
  <2>2. ASSUME NEW r \in Request, Quiet(r) PROVE TypeOK'
    BY <2>2, QuietEffect DEF TypeOK
  <2>3. CASE /\ UNCHANGED <<level, ledger, phase, call>>
             /\ \E m \in Material, b \in BOOLEAN : active' = [active EXCEPT ![m] = b]
    BY <2>3 DEF TypeOK
  <2>4. CASE UNCHANGED vars
    BY <2>4 DEF TypeOK, vars
  <2> QED
    BY <2>1, <2>2, <2>3, <2>4, StepCases
<1> QED
  BY <1>1, <1>2, PTL DEF Spec

-----------------------------------------------------------------------------
(* The ledger of one material grows at its end; the others stay. *)
LEMMA LedgerGrows ==
  ASSUME TypeOK, NEW r \in Request, Record(r)
  PROVE  \E m \in Material, n \in Nat \ {0} :
             /\ m = call[r].payload.material
             /\ n = Len(ledger[m]) + 1
             /\ ledger'[m] \in Seq(Entry)
             /\ DOMAIN ledger'[m] = 1 .. n
             /\ DOMAIN ledger[m] = 1 .. (n - 1)
             /\ ledger'[m][n] = NewEntry(r)
             /\ \A i \in 1 .. (n - 1) : ledger'[m][i] = ledger[m][i]
             /\ \A o \in Material \ {m} : ledger'[o] = ledger[o]
  <1>1. PICK m \in Material :
          /\ m = call[r].payload.material
          /\ NewEntry(r) \in Entry
          /\ ledger' = [ledger EXCEPT ![m] = Append(ledger[m], NewEntry(r))]
    BY WriteEffect DEF Record
  <1>2. PICK old \in Seq(Entry) :
          /\ old = ledger[m]
          /\ ledger'[m] = Append(old, NewEntry(r))
    BY <1>1 DEF TypeOK
  <1>3. \A o \in Material \ {m} : ledger'[o] = ledger[o]
    BY <1>1 DEF TypeOK
  <1>4. PICK n \in Nat \ {0} : n = Len(old) + 1
    BY <1>2
  <1>5. /\ DOMAIN old = 1 .. (n - 1)
        /\ DOMAIN Append(old, NewEntry(r)) = 1 .. n
        /\ Append(old, NewEntry(r))[n] = NewEntry(r)
        /\ \A i \in 1 .. (n - 1) : Append(old, NewEntry(r))[i] = old[i]
        /\ Append(old, NewEntry(r)) \in Seq(Entry)
    <2>1. Len(old) = n - 1 /\ NewEntry(r) \in Entry
      BY <1>1, <1>4
    <2> HIDE DEF NewEntry
    <2>2. Append(old, NewEntry(r)) \in Seq(Entry) /\ Len(Append(old, NewEntry(r))) = n
      BY <2>1, <1>4
    <2>3. \A i \in 1 .. n : Append(old, NewEntry(r))[i] =
            IF i <= n - 1 THEN old[i] ELSE NewEntry(r)
      BY <2>1, <1>4
    <2> QED BY <2>1, <2>2, <2>3, <1>4, SMTT(30)
  <1> WITNESS m \in Material, n \in Nat \ {0}
  <1> QED
    BY <1>1, <1>2, <1>3, <1>4, <1>5

(* What is recorded after a write: what was, and the new entry. *)
LEMMA RecordedGrows ==
  ASSUME TypeOK, NEW r \in Request, Record(r)
  PROVE  Recorded' = Recorded \cup {NewEntry(r)}
  <1>1. PICK m \in Material, n \in Nat \ {0} :
        /\ DOMAIN ledger'[m] = 1 .. n
        /\ DOMAIN ledger[m] = 1 .. (n - 1)
        /\ ledger'[m][n] = NewEntry(r)
        /\ \A i \in 1 .. (n - 1) : ledger'[m][i] = ledger[m][i]
        /\ \A o \in Material \ {m} : ledger'[o] = ledger[o]
    BY LedgerGrows
  <1>2. Entries(m)' = Entries(m) \cup {NewEntry(r)}
    <2>1. 1 .. n = (1 .. (n - 1)) \cup {n}
      BY <1>1
    <2>2. Entries(m)' = {ledger'[m][i] : i \in 1 .. n}
      BY <1>1 DEF Entries
    <2>3. Entries(m) = {ledger[m][i] : i \in 1 .. (n - 1)}
      BY <1>1 DEF Entries
    <2> QED
      BY <1>1, <2>1, <2>2, <2>3
  <1>3. \A o \in Material \ {m} : Entries(o)' = Entries(o)
    BY <1>1 DEF Entries
  <1> QED
    BY <1>1, <1>2, <1>3 DEF Recorded

(* Without a write nothing recorded changes. *)
LEMMA RecordedStays ==
  ASSUME UNCHANGED ledger
  PROVE  Recorded' = Recorded
  BY DEF Recorded, Entries

-----------------------------------------------------------------------------
(* An idempotency key takes effect at most once over the whole ledger. *)
THEOREM KeysAreUnique == Spec => []KeyOnce
<1>1. Init => KeyOnce
  BY DEF Init, KeyOnce
<1>2. TypeOK /\ KeyOnce /\ [Next]_vars => KeyOnce'
  <2> SUFFICES ASSUME TypeOK, KeyOnce, [Next]_vars PROVE KeyOnce'
    OBVIOUS
  <2>1. ASSUME NEW r \in Request, Record(r) PROVE KeyOnce'
    <3>1. PICK m \in Material, n \in Nat \ {0} :
          /\ DOMAIN ledger'[m] = 1 .. n
          /\ DOMAIN ledger[m] = 1 .. (n - 1)
          /\ ledger'[m][n] = NewEntry(r)
          /\ \A i \in 1 .. (n - 1) : ledger'[m][i] = ledger[m][i]
          /\ \A o \in Material \ {m} : ledger'[o] = ledger[o]
      BY <2>1, LedgerGrows
    <3>2. \A o \in Material : \A i \in DOMAIN ledger[o] :
            ledger[o][i].key # NewEntry(r).key
      BY <2>1 DEF Record, Taken, Recorded, Entries, NewEntry
    <3>3. ASSUME NEW o \in Material, NEW i \in DOMAIN ledger'[o]
          PROVE  \/ o = m /\ i = n /\ ledger'[o][i] = NewEntry(r)
                 \/ i \in DOMAIN ledger[o] /\ ledger'[o][i] = ledger[o][i] /\ (o = m => i # n)
      BY <3>1, <3>3
    <3>4. SUFFICES ASSUME NEW o \in Material, NEW p \in Material,
                          NEW i \in DOMAIN ledger'[o], NEW j \in DOMAIN ledger'[p],
                          ledger'[o][i].key = ledger'[p][j].key
                   PROVE  o = p /\ i = j
      BY DEF KeyOnce
    <3> QED
      BY <3>2, <3>3, <3>4 DEF KeyOnce
  <2>2. ASSUME NEW r \in Request, Quiet(r) PROVE KeyOnce'
    BY <2>2, QuietEffect DEF KeyOnce
  <2> QED
    BY <2>1, <2>2, StepCases DEF KeyOnce, vars
<1> QED
  BY <1>1, <1>2, TypeCorrect, PTL DEF Spec

-----------------------------------------------------------------------------
(* The balances are what the append-only ledger says they are. *)
THEOREM LedgerIsTheBalance == Spec => []LedgerExplainsLevel
<1>1. Init => LedgerExplainsLevel
  BY DEF Init, LedgerExplainsLevel
<1>2. TypeOK /\ LedgerExplainsLevel /\ [Next]_vars => LedgerExplainsLevel'
  <2> SUFFICES ASSUME TypeOK, LedgerExplainsLevel, [Next]_vars
               PROVE  LedgerExplainsLevel'
    OBVIOUS
  <2>1. ASSUME NEW r \in Request, Record(r) PROVE LedgerExplainsLevel'
    <3>1. PICK m \in Material, n \in Nat \ {0} :
          /\ m = call[r].payload.material
          /\ n = Len(ledger[m]) + 1
          /\ ledger'[m] \in Seq(Entry)
          /\ DOMAIN ledger'[m] = 1 .. n
          /\ DOMAIN ledger[m] = 1 .. (n - 1)
          /\ ledger'[m][n] = NewEntry(r)
          /\ \A i \in 1 .. (n - 1) : ledger'[m][i] = ledger[m][i]
          /\ \A o \in Material \ {m} : ledger'[o] = ledger[o]
      BY <2>1, LedgerGrows
    <3>2. /\ level'[m] = After(r)
          /\ \A o \in Material \ {m} : level'[o] = level[o]
      BY <2>1, <3>1, WriteEffect DEF Record, TypeOK
    <3>3. ASSUME NEW o \in Material \ {m}
          PROVE  /\ \A i \in DOMAIN ledger'[o] : Follows(o, i)'
                 /\ level'[o] = IF ledger'[o] = <<>> THEN EmptyLevel
                                ELSE ledger'[o][Len(ledger'[o])].after
      BY <3>1, <3>2 DEF LedgerExplainsLevel, Follows
    <3>4. ASSUME NEW i \in 1 .. (n - 1) PROVE Follows(m, i)'
      <4>1. Follows(m, i)
        BY <3>1 DEF LedgerExplainsLevel
      <4>2. i # 1 => i - 1 \in 1 .. (n - 1)
        OBVIOUS
      <4> QED
        BY <3>1, <4>1, <4>2 DEF Follows
    <3>5. level[m] = IF n = 1 THEN EmptyLevel ELSE ledger[m][n - 1].after
      <4>1. ledger[m] \in Seq(Entry)
        BY DEF TypeOK
      <4>2. ledger[m] = <<>> <=> n = 1
        BY <3>1, <4>1, EmptySeq
      <4> QED
        BY <3>1, <4>2 DEF LedgerExplainsLevel
    <3>6. Follows(m, n)'
      <4>1. level[m] = IF n = 1 THEN EmptyLevel ELSE ledger'[m][n - 1].after
        <5>1. n # 1 => n - 1 \in 1 .. (n - 1)
          OBVIOUS
        <5> QED
          BY <3>1, <3>5, <5>1
      <4>2. /\ NewEntry(r).payload.material = m
            /\ NewEntry(r).before = level[m]
            /\ NewEntry(r).after = Moved(NewEntry(r).before, NewEntry(r).payload.type,
                                         NewEntry(r).payload.quantity)
        BY <3>1 DEF NewEntry, After
      <4> QED
        BY <3>1, <4>1, <4>2 DEF Follows
    <3>7. /\ Len(ledger'[m]) = n
          /\ ledger'[m] # <<>>
      BY <3>1
    <3>8. \A i \in DOMAIN ledger'[m] : Follows(m, i)'
      BY <3>1, <3>4, <3>6
    <3>9. level'[m] = ledger'[m][Len(ledger'[m])].after
      <4>1. ledger'[m][n] = NewEntry(r)
        BY <3>1
      <4>2. NewEntry(r).after = level'[m]
        BY <3>1, <3>2 DEF NewEntry
      <4> QED BY <3>7, <4>1, <4>2
    <3> QED
      BY <3>3, <3>7, <3>8, <3>9 DEF LedgerExplainsLevel
  <2>2. ASSUME NEW r \in Request, Quiet(r) PROVE LedgerExplainsLevel'
    BY <2>2, QuietEffect DEF LedgerExplainsLevel, Follows
  <2> QED
    BY <2>1, <2>2, StepCases DEF LedgerExplainsLevel, Follows, vars
<1> QED
  BY <1>1, <1>2, TypeCorrect, PTL DEF Spec

-----------------------------------------------------------------------------
(* What clients are told is true, and every movement has exactly one author. *)
THEOREM AnswersAreTrue == Spec => []AnswersTrue
<1>1. Init => AnswersTrue
  BY DEF Init, AnswersTrue
<1>2. TypeOK /\ AnswersTrue /\ [Next]_vars => AnswersTrue'
  <2> SUFFICES ASSUME TypeOK, AnswersTrue, [Next]_vars PROVE AnswersTrue'
    OBVIOUS
  <2>1. ASSUME NEW r \in Request, Record(r) PROVE AnswersTrue'
    <3>1. Recorded' = Recorded \cup {NewEntry(r)}
      BY <2>1, RecordedGrows
    <3>2. Effective(NewEntry(r)) = call[r]
      BY DEF Effective, NewEntry, TypeOK, Call
    <3>3. /\ phase' = [phase EXCEPT ![r] = "applied"]
          /\ call' = call
      BY <2>1 DEF Record
    <3> QED
      BY <3>1, <3>2, <3>3 DEF AnswersTrue, TypeOK, Effective
  <2>2. ASSUME NEW r \in Request, Quiet(r) PROVE AnswersTrue'
    <3>1. /\ Recorded' = Recorded
          /\ call' = call
      BY <2>2, QuietEffect, RecordedStays
    <3>2. PICK p \in Phase :
            /\ phase' = [phase EXCEPT ![r] = p]
            /\ p # "applied"
            /\ p = "replayed" => SameOperation(call[r])
            /\ p = "conflict" => Taken(call[r].key) /\ ~SameOperation(call[r])
      BY <2>2 DEF Quiet, RefuseAtOnce, ReplayAtOnce, ConflictAtOnce, PassChecks,
                  RefuseLocked, ReplayRaced, ConflictRaced, Lose, Finish, Phase, Answer
    <3>3. SameOperation(call[r]) => \E e \in Recorded : Effective(e) = call[r]
      BY DEF SameOperation, Effective, TypeOK, Call
    <3>4. ~SameOperation(call[r]) /\ Taken(call[r].key)
            => \E e \in Recorded : e.key = call[r].key /\ Effective(e) # call[r]
      BY DEF SameOperation, Taken, Effective
    <3> QED
      BY <3>1, <3>2, <3>3, <3>4 DEF AnswersTrue, TypeOK, Effective
  <2> QED
    BY <2>1, <2>2, StepCases, RecordedStays DEF AnswersTrue, Effective, vars
<1> QED
  BY <1>1, <1>2, TypeCorrect, PTL DEF Spec

(* Every movement was performed by exactly one request, however often it was sent. *)
THEOREM EveryMovementHasOneAuthor == Spec => []OneAuthor
<1>1. Init => OneAuthor
  BY DEF Init, OneAuthor, Recorded, Entries
<1>2. TypeOK /\ AnswersTrue /\ OneAuthor /\ [Next]_vars => OneAuthor'
  <2> SUFFICES ASSUME TypeOK, AnswersTrue, OneAuthor, [Next]_vars PROVE OneAuthor'
    OBVIOUS
  <2>1. ASSUME NEW r \in Request, Record(r) PROVE OneAuthor'
    <3>1. Recorded' = Recorded \cup {NewEntry(r)}
      BY <2>1, RecordedGrows
    <3>2. Effective(NewEntry(r)) = call[r]
      BY DEF Effective, NewEntry, TypeOK, Call
    <3>3. /\ phase' = [phase EXCEPT ![r] = "applied"]
          /\ call' = call
          /\ phase[r] = "checked"
          /\ ~Taken(call[r].key)
      BY <2>1 DEF Record
    <3>4. \A s \in Request : phase[s] = "applied" => call[s].key # call[r].key
      <4> SUFFICES ASSUME NEW s \in Request, phase[s] = "applied",
                          call[s].key = call[r].key
                   PROVE  FALSE
        OBVIOUS
      <4>1. PICK e \in Recorded : Effective(e) = call[s]
        BY DEF AnswersTrue
      <4>2. e.key = call[s].key
        BY <4>1 DEF Effective
      <4> QED
        BY <3>3, <4>2 DEF Taken
    <3>5. \A e \in Recorded' : \E s \in Request :
            phase'[s] = "applied" /\ call'[s] = Effective(e)
      BY <3>1, <3>2, <3>3 DEF OneAuthor, TypeOK
    <3>6. \A s, t \in Request :
            phase'[s] = "applied" /\ phase'[t] = "applied" /\ call'[s].key = call'[t].key
              => s = t
      BY <3>3, <3>4 DEF OneAuthor, TypeOK
    <3> QED
      BY <3>5, <3>6 DEF OneAuthor, Effective
  <2>2. ASSUME NEW r \in Request, Quiet(r) PROVE OneAuthor'
    <3>1. /\ Recorded' = Recorded
          /\ call' = call
          /\ phase[r] # "applied"
      BY <2>2, QuietEffect, RecordedStays
    <3>2. PICK p \in Phase \ {"applied"} : phase' = [phase EXCEPT ![r] = p]
      BY <2>2 DEF Quiet, RefuseAtOnce, ReplayAtOnce, ConflictAtOnce, PassChecks,
                  RefuseLocked, ReplayRaced, ConflictRaced, Lose, Finish, Phase, Answer
    <3> QED
      BY <3>1, <3>2 DEF OneAuthor, TypeOK, Effective
  <2> QED
    BY <2>1, <2>2, StepCases, RecordedStays DEF OneAuthor, Effective, vars
<1> QED
  BY <1>1, <1>2, TypeCorrect, AnswersAreTrue, PTL DEF Spec

-----------------------------------------------------------------------------
(* The concurrent service implements the atomic one. *)

Done == {Effective(e) : e \in Recorded}
Answered == [r \in Request |-> IF phase[r] = "checked" THEN "new" ELSE phase[r]]

(* The two modules mean the same by the movement rules. *)
LEMMA SameRules ==
  /\ \A lvl, type, qty : Atomic!Moved(lvl, type, qty) = Moved(lvl, type, qty)
  /\ Atomic!SoundLevel = SoundLevel
  /\ Atomic!EmptyLevel = EmptyLevel
  /\ \A type, qty : Atomic!ValidQuantity(type, qty) = ValidQuantity(type, qty)
  BY DEF Atomic!Moved, Moved, Atomic!OnHandChange, OnHandChange, Atomic!ReservedChange,
         ReservedChange, Atomic!SoundLevel, SoundLevel, Atomic!EmptyLevel, EmptyLevel,
         Atomic!ValidQuantity, ValidQuantity

(* Both modules compute the same balances for a call.                        *)
LEMMA SameAfter ==
  ASSUME NEW r \in Request
  PROVE  Atomic!After(call[r]) = After(r)
  BY SameRules DEF Atomic!After, After

(* A request that is answered gets the answer in the abstract state too. *)
LEMMA AnswerMaps ==
  ASSUME TypeOK, NEW r \in Request, NEW a \in Answer,
         phase[r] \in {"new", "checked"}, phase' = [phase EXCEPT ![r] = a]
  PROVE  Answered[r] = "new" /\ Answered' = [Answered EXCEPT ![r] = a]
  BY DEF Answered, TypeOK, Answer

(* Requests that read before they lock give the same answers and balances as *)
(* requests served one at a time: the unlocked key check of apply_movement is *)
(* made good by the savepoint and the unique index.                          *)
THEOREM InventoryImplementsAtomic == Spec => ImplementsAtomic
<1>1. Init => Atomic!Init
  BY SameRules DEF Init, Atomic!Init, Recorded, Entries, Call
<1>2. TypeOK /\ [Next]_vars => [Atomic!Next]_Atomic!vars
  <2> SUFFICES ASSUME TypeOK, [Next]_vars
               PROVE  Atomic!Next \/ UNCHANGED Atomic!vars
    OBVIOUS
  <2>1. ASSUME NEW r \in Request, Record(r) PROVE Atomic!Next
    <3>1. Done' = Done \cup {call[r]}
      <4>1. Effective(NewEntry(r)) = call[r]
        BY DEF Effective, NewEntry, TypeOK, Call
      <4> QED
        BY <2>1, <4>1, RecordedGrows DEF Done, Effective
    <3>2. \A d \in Done : d.key # call[r].key
      BY <2>1 DEF Record, Taken, Done, Effective
    <3>3. Answered[r] = "new" /\ Answered' = [Answered EXCEPT ![r] = "applied"]
      BY <2>1, AnswerMaps DEF Record, Answer
    <3>4. level' = [level EXCEPT ![call[r].payload.material] = After(r)]
      BY <2>1, WriteEffect DEF Record
    <3> QED
      BY <2>1, <3>1, <3>2, <3>3, <3>4, SameRules, SameAfter
      DEF Atomic!Next, Atomic!Apply, Atomic!Reply, Record, Done, Answered
  <2>2. ASSUME NEW r \in Request, Quiet(r) PROVE Atomic!Next \/ UNCHANGED Atomic!vars
    <3>1. /\ UNCHANGED <<level, ledger, active, call>>
          /\ phase[r] \in {"new", "checked"}
      BY <2>2, QuietEffect
    <3>2. Done' = Done
      BY <3>1, RecordedStays DEF Done, Effective
    <3>3. SameOperation(call[r]) => call[r] \in Done
      BY DEF SameOperation, Done, Effective, TypeOK, Call
    <3>4. Taken(call[r].key) /\ ~SameOperation(call[r])
            => \E d \in Done : d.key = call[r].key /\ d # call[r]
      <4> SUFFICES ASSUME Taken(call[r].key), ~SameOperation(call[r])
                   PROVE  \E d \in Done : d.key = call[r].key /\ d # call[r]
        OBVIOUS
      <4>1. PICK e \in Recorded : e.key = call[r].key
        BY DEF Taken
      <4>2. e.payload # call[r].payload
        BY <4>1 DEF SameOperation
      <4>3. /\ Effective(e) \in Done
            /\ Effective(e).key = call[r].key
            /\ Effective(e) # call[r]
        BY <4>1, <4>2 DEF Done, Effective
      <4> QED
        BY <4>3
    <3>5. CASE PassChecks(r)
      <4>1. Answered' = Answered
        BY <3>5 DEF PassChecks, Finish, Answered, TypeOK
      <4> QED
        BY <3>1, <3>2, <4>1 DEF Atomic!vars, Done, Answered
    <3>6. CASE RefuseAtOnce(r) \/ RefuseLocked(r)
      <4>1. /\ phase' = [phase EXCEPT ![r] = "invalid"]
            /\ ~Admissible(call[r].payload) \/ After(r) \notin SoundLevel
        BY <3>6 DEF RefuseAtOnce, RefuseLocked, Finish
      <4>2. Answered[r] = "new" /\ Answered' = [Answered EXCEPT ![r] = "invalid"]
        BY <3>1, <4>1, AnswerMaps DEF Answer
      <4> QED
        BY <3>1, <3>2, <4>1, <4>2, SameRules, SameAfter
        DEF Atomic!Next, Atomic!Refuse, Atomic!Reply, Admissible, Done, Answered
    <3>7. CASE ReplayAtOnce(r) \/ ReplayRaced(r)
      <4>1. /\ phase' = [phase EXCEPT ![r] = "replayed"]
            /\ SameOperation(call[r])
        BY <3>7 DEF ReplayAtOnce, ReplayRaced, Finish
      <4>2. Answered[r] = "new" /\ Answered' = [Answered EXCEPT ![r] = "replayed"]
        BY <3>1, <4>1, AnswerMaps DEF Answer
      <4> QED
        BY <3>1, <3>2, <3>3, <4>1, <4>2
        DEF Atomic!Next, Atomic!Replay, Atomic!Reply, Done, Answered
    <3>8. CASE ConflictAtOnce(r) \/ ConflictRaced(r)
      <4>1. /\ phase' = [phase EXCEPT ![r] = "conflict"]
            /\ Taken(call[r].key) /\ ~SameOperation(call[r])
        BY <3>8 DEF ConflictAtOnce, ConflictRaced, Finish
      <4>2. Answered[r] = "new" /\ Answered' = [Answered EXCEPT ![r] = "conflict"]
        BY <3>1, <4>1, AnswerMaps DEF Answer
      <4> QED
        BY <3>1, <3>2, <3>4, <4>1, <4>2
        DEF Atomic!Next, Atomic!Conflict, Atomic!Reply, Done, Answered
    <3>9. CASE Lose(r)
      <4>1. phase' = [phase EXCEPT ![r] = "lost"]
        BY <3>9 DEF Lose, Finish
      <4>2. Answered[r] = "new" /\ Answered' = [Answered EXCEPT ![r] = "lost"]
        BY <3>1, <4>1, AnswerMaps DEF Answer
      <4> QED
        BY <3>1, <3>2, <4>2 DEF Atomic!Next, Atomic!Lose, Atomic!Reply, Done, Answered
    <3> QED
      BY <2>2, <3>5, <3>6, <3>7, <3>8, <3>9 DEF Quiet
  <2>3. ASSUME UNCHANGED <<level, ledger, phase, call>>,
               NEW m \in Material, NEW b \in BOOLEAN, active' = [active EXCEPT ![m] = b]
        PROVE  Atomic!Next
    <3>1. Done' = Done /\ Answered' = Answered
      BY <2>3, RecordedStays DEF Done, Answered, Effective
    <3> QED
      BY <2>3, <3>1 DEF Atomic!Next, Atomic!SetUsable, Done, Answered
  <2>4. CASE UNCHANGED vars
    BY <2>4, RecordedStays DEF vars, Atomic!vars, Effective
  <2> QED
    BY <2>1, <2>2, <2>3, <2>4, StepCases
<1> QED
  BY <1>1, <1>2, TypeCorrect, PTL DEF Spec, ImplementsAtomic, Atomic!Spec
=============================================================================
