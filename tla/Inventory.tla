------------------------------ MODULE Inventory ------------------------------
(***************************************************************************)
(* The stock service of the API: apply_movement, through which every       *)
(* change of a stock balance goes, run by concurrent requests.             *)
(*                                                                         *)
(* A request is one database transaction.  It first reads without a lock   *)
(* (is the material active? is the idempotency key taken?), and only then  *)
(* locks the stock row, computes the new balances, writes them together    *)
(* with the movement and commits.  The row lock is held until the commit,  *)
(* so everything from the lock to the commit is one action; everything     *)
(* another request does between the two reads and the lock is an           *)
(* interleaving here.                                                      *)
(*                                                                         *)
(* The movement row and its audit event are written in the same            *)
(* transaction; ledger[m] is the sequence of both for material m, in       *)
(* commit order.                                                           *)
(***************************************************************************)
EXTENDS StockRules, Sequences

CONSTANTS Material,   \* materials that exist
          Key,        \* idempotency keys clients send
          Request,    \* requests; a retry is another request
          Payload     \* operations clients ask for: all that the fingerprint hashes

ASSUME PayloadAssumption ==
  Payload \subseteq [material : Material, type : MovementType, quantity : Int]

VARIABLES level,      \* [Material -> balances]: the stock_levels table
          ledger,     \* [Material -> Seq(Entry)]: stock_movements and its audit
          active,     \* [Material -> BOOLEAN]: Material.is_active
          phase,      \* [Request -> Phase]: how far a request has got
          call        \* [Request -> Call]: what it asks for

vars == <<level, ledger, active, phase, call>>

(* Calls with equal payloads are the same operation, whatever their keys. *)
Call == [key : Key, payload : Payload]
Entry == [key : Key, payload : Payload,
          before : [on_hand : Int, reserved : Int],
          after : [on_hand : Int, reserved : Int]]

Answer == {"applied", "replayed", "conflict", "invalid", "lost"}
Phase == {"new", "checked"} \cup Answer

Entries(m) == {ledger[m][i] : i \in DOMAIN ledger[m]}
Recorded == UNION {Entries(m) : m \in Material}
Taken(key) == \E e \in Recorded : e.key = key
(* Mutant: a replay is recognised by its key alone. *)
SameOperation_KeyOnly(c) == \E e \in Recorded : e.key = c.key
SameOperation(c) == \E e \in Recorded : e.key = c.key /\ e.payload = c.payload

Init ==
  /\ level = [m \in Material |-> EmptyLevel]
  /\ ledger = [m \in Material |-> <<>>]
  /\ active = [m \in Material |-> TRUE]
  /\ phase = [r \in Request |-> "new"]
  /\ call \in [Request -> Call]

-----------------------------------------------------------------------------
(* The reads before the lock. *)

Admissible(p) == ValidQuantity(p.type, p.quantity) /\ active[p.material]

Finish(r, answer) ==
  /\ phase' = [phase EXCEPT ![r] = answer]
  /\ UNCHANGED <<level, ledger, active, call>>

RefuseAtOnce(r) ==
  /\ phase[r] = "new"
  /\ ~Admissible(call[r].payload)
  /\ Finish(r, "invalid")

ReplayAtOnce(r) ==
  /\ phase[r] = "new"
  /\ Admissible(call[r].payload)
  /\ SameOperation(call[r])
  /\ Finish(r, "replayed")

ConflictAtOnce(r) ==
  /\ phase[r] = "new"
  /\ Admissible(call[r].payload)
  /\ Taken(call[r].key) /\ ~SameOperation(call[r])
  /\ Finish(r, "conflict")

PassChecks(r) ==
  /\ phase[r] = "new"
  /\ Admissible(call[r].payload)
  /\ ~Taken(call[r].key)
  /\ Finish(r, "checked")

-----------------------------------------------------------------------------
(* From the row lock to the commit.  The balances are tested before the    *)
(* insert can find out that the key is taken by now.                       *)

After(r) == LET p == call[r].payload
            IN  Moved(level[p.material], p.type, p.quantity)

(* The balances, the movement and its audit event, written together. *)
Write(r) ==
  LET m == call[r].payload.material
      entry == [key |-> call[r].key, payload |-> call[r].payload,
                before |-> level[m], after |-> After(r)]
  IN  /\ level' = [level EXCEPT ![m] = After(r)]
      /\ ledger' = [ledger EXCEPT ![m] = Append(@, entry)]

RefuseLocked(r) ==
  /\ phase[r] = "checked"
  /\ After(r) \notin SoundLevel
  /\ Finish(r, "invalid")

(* Mutant: no unique index on the key, only the unlocked read. *)
Record_NoUniqueIndex(r) ==
  /\ phase[r] = "checked"
  /\ After(r) \in SoundLevel
  /\ Write(r)
  /\ phase' = [phase EXCEPT ![r] = "applied"]
  /\ UNCHANGED <<active, call>>

Record(r) ==
  /\ phase[r] = "checked"
  /\ After(r) \in SoundLevel
  /\ ~Taken(call[r].key)
  /\ Write(r)
  /\ phase' = [phase EXCEPT ![r] = "applied"]
  /\ UNCHANGED <<active, call>>

(* Mutant: the balances are assigned outside the savepoint, so the loser's  *)
(* write survives the rollback of its movement.                             *)
ReplayRaced_MovesAgain(r) ==
  /\ phase[r] = "checked"
  /\ After(r) \in SoundLevel
  /\ SameOperation(call[r])
  /\ level' = [level EXCEPT ![call[r].payload.material] = After(r)]
  /\ phase' = [phase EXCEPT ![r] = "replayed"]
  /\ UNCHANGED <<ledger, active, call>>

ReplayRaced(r) ==
  /\ phase[r] = "checked"
  /\ After(r) \in SoundLevel
  /\ SameOperation(call[r])
  /\ Finish(r, "replayed")

ConflictRaced(r) ==
  /\ phase[r] = "checked"
  /\ After(r) \in SoundLevel
  /\ Taken(call[r].key) /\ ~SameOperation(call[r])
  /\ Finish(r, "conflict")

-----------------------------------------------------------------------------
(* The server or the connection dies before the commit: the transaction    *)
(* rolls back and nothing of it remains.                                   *)
(* Mutant: the movement is committed before the request fails. *)
Lose_Committed(r) ==
  /\ phase[r] = "checked"
  /\ After(r) \in SoundLevel /\ ~Taken(call[r].key)
  /\ Write(r)
  /\ phase' = [phase EXCEPT ![r] = "lost"]
  /\ UNCHANGED <<active, call>>

Lose(r) ==
  /\ phase[r] \in {"new", "checked"}
  /\ Finish(r, "lost")

(* An owner (de)activates a material; nothing is locked. *)
SetActive(m, b) ==
  /\ active[m] # b
  /\ active' = [active EXCEPT ![m] = b]
  /\ UNCHANGED <<level, ledger, phase, call>>

Check(r) == RefuseAtOnce(r) \/ ReplayAtOnce(r) \/ ConflictAtOnce(r) \/ PassChecks(r)
Commit(r) == RefuseLocked(r) \/ Record(r) \/ ReplayRaced(r) \/ ConflictRaced(r)

Next ==
  \/ \E r \in Request : Check(r) \/ Commit(r) \/ Lose(r)
  \/ \E m \in Material, b \in BOOLEAN : SetActive(m, b)

Spec == Init /\ [][Next]_vars

-----------------------------------------------------------------------------
(* Properties. *)

TypeOK ==
  /\ level \in [Material -> SoundLevel]
  /\ ledger \in [Material -> Seq(Entry)]
  /\ active \in [Material -> BOOLEAN]
  /\ phase \in [Request -> Phase]
  /\ call \in [Request -> Call]

Effective(c) == [key |-> c.key, payload |-> c.payload]

(* An idempotency key is recorded at most once over the whole ledger, across *)
(* materials: two requests that both passed the unlocked key check of        *)
(* apply_movement never both write a movement.                               *)
KeyOnce ==
  \A m, n \in Material : \A i \in DOMAIN ledger[m], j \in DOMAIN ledger[n] :
    ledger[m][i].key = ledger[n][j].key => m = n /\ i = j

(* The append-only ledger explains the balances: each movement starts from   *)
(* the balances the previous one of its material left, its delta vector      *)
(* leads to the balances its audit event states, and the stock level is what *)
(* the last one left.  No request computed from balances it read too early.  *)
Follows(m, i) ==
  LET e == ledger[m][i]
  IN  /\ e.payload.material = m
      /\ e.before = IF i = 1 THEN EmptyLevel ELSE ledger[m][i - 1].after
      /\ e.after = Moved(e.before, e.payload.type, e.payload.quantity)

LedgerExplainsLevel ==
  \A m \in Material :
    /\ \A i \in DOMAIN ledger[m] : Follows(m, i)
    /\ level[m] = IF ledger[m] = <<>> THEN EmptyLevel
                  ELSE ledger[m][Len(ledger[m])].after

(* What a client is told is true: "applied" and "replayed" are only said of  *)
(* an operation that is in the ledger with that very payload, a conflict     *)
(* only of a key that is there with another one.                             *)
AnswersTrue ==
  \A r \in Request :
    /\ phase[r] \in {"applied", "replayed"} =>
         \E e \in Recorded : Effective(e) = call[r]
    /\ phase[r] = "conflict" =>
         \E e \in Recorded : e.key = call[r].key /\ Effective(e) # call[r]

(* However often an operation is sent, exactly one request is told that it   *)
(* performed it: no movement without an author, none with two.               *)
OneAuthor ==
  /\ \A e \in Recorded : \E r \in Request :
       phase[r] = "applied" /\ call[r] = Effective(e)
  /\ \A r, s \in Request :
       phase[r] = "applied" /\ phase[s] = "applied" /\ call[r].key = call[s].key
         => r = s

(* The service implements the atomic one: a call that is past its unlocked   *)
(* reads has not been answered yet.                                          *)
Atomic == INSTANCE IdempotentStock WITH
  stock  <- level,
  done   <- {Effective(e) : e \in Recorded},
  usable <- active,
  answer <- [r \in Request |-> IF phase[r] = "checked" THEN "new" ELSE phase[r]]

ImplementsAtomic == Atomic!Spec
=============================================================================
