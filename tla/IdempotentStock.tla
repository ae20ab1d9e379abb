--------------------------- MODULE IdempotentStock ---------------------------
(***************************************************************************)
(* What the stock service promises its callers: each request is served in  *)
(* one indivisible step, an idempotency key takes effect at most once, and *)
(* the balances are always sound.  It has no reads before the lock and no  *)
(* races; Inventory is shown to implement it.                              *)
(***************************************************************************)
EXTENDS StockRules

CONSTANTS Material, Key, Request, Payload

VARIABLES stock,    \* [Material -> balances]
          done,     \* the calls that took effect
          usable,   \* [Material -> BOOLEAN]
          answer,   \* [Request -> "new" or the answer given]
          call      \* [Request -> the call it makes]

vars == <<stock, done, usable, answer, call>>

Init ==
  /\ stock = [m \in Material |-> EmptyLevel]
  /\ done = {}
  /\ usable = [m \in Material |-> TRUE]
  /\ answer = [r \in Request |-> "new"]
  /\ call \in [Request -> [key : Key, payload : Payload]]

After(c) == Moved(stock[c.payload.material], c.payload.type, c.payload.quantity)

Reply(r, a) ==
  /\ answer[r] = "new"
  /\ answer' = [answer EXCEPT ![r] = a]
  /\ UNCHANGED <<usable, call>>

(* The operation takes effect: its key is fresh and the balances stay sound. *)
Apply(r) ==
  /\ Reply(r, "applied")
  /\ \A d \in done : d.key # call[r].key
  /\ After(call[r]) \in SoundLevel
  /\ stock' = [stock EXCEPT ![call[r].payload.material] = After(call[r])]
  /\ done' = done \cup {call[r]}

(* The operation took effect before; nothing happens again. *)
Replay(r) ==
  /\ Reply(r, "replayed")
  /\ call[r] \in done
  /\ UNCHANGED <<stock, done>>

(* The key took effect for another operation. *)
Conflict(r) ==
  /\ Reply(r, "conflict")
  /\ \E d \in done : d.key = call[r].key /\ d # call[r]
  /\ UNCHANGED <<stock, done>>

(* The operation is not possible at this moment. *)
Refuse(r) ==
  /\ Reply(r, "invalid")
  /\ \/ ~ValidQuantity(call[r].payload.type, call[r].payload.quantity)
     \/ ~usable[call[r].payload.material]
     \/ After(call[r]) \notin SoundLevel
  /\ UNCHANGED <<stock, done>>

(* The request dies and leaves nothing behind. *)
Lose(r) ==
  /\ Reply(r, "lost")
  /\ UNCHANGED <<stock, done>>

SetUsable(m, b) ==
  /\ usable' = [usable EXCEPT ![m] = b]
  /\ UNCHANGED <<stock, done, answer, call>>

Next ==
  \/ \E r \in Request : Apply(r) \/ Replay(r) \/ Conflict(r) \/ Refuse(r) \/ Lose(r)
  \/ \E m \in Material, b \in BOOLEAN : SetUsable(m, b)

Spec == Init /\ [][Next]_vars
=============================================================================
