----------------------------- MODULE StockLocks -----------------------------
(***************************************************************************)
(* The row locks production transactions take, one at a time, and who      *)
(* waits for whom.  Production takes every lock of a transaction in one    *)
(* action; here only the locks are left, in the order the code asks for    *)
(* them:                                                                   *)
(*   reserve  the order; the stock levels it finds, by material id; the    *)
(*            levels it does not find, which it inserts row by row; then   *)
(*            its rows                                                     *)
(*   cancel   the order; its rows; stock, in the order of its rows         *)
(*   use      a reservation row, then its stock                            *)
(*   staff    one stock level                                              *)
(* PostgreSQL breaks a circle of waiting transactions by aborting one.     *)
(* How much is in stock, and the status of an order or a row, are left     *)
(* open: a transaction that does not wait may be refused.                  *)
(***************************************************************************)
EXTENDS Naturals, FiniteSets

CONSTANTS ProductionOrder,
          Material,    \* numbers, which stand for the order of material ids
          Row,         \* reservation rows, numbers in table order
          OrderOf, MaterialOf,
          Txn          \* transactions

ASSUME LocksAssumption ==
  /\ Material \subseteq Nat /\ IsFiniteSet(Material)
  /\ Row \subseteq Nat /\ IsFiniteSet(Row)
  /\ OrderOf \in [Row -> ProductionOrder] /\ MaterialOf \in [Row -> Material]

VARIABLES job,     \* [Txn -> Job]: what the transaction does
          levels,  \* materials that have a committed row in stock_levels
          found,   \* [Txn -> SUBSET Material]: levels a reservation has read
          held,    \* [Txn -> SUBSET Lock]
          state    \* [Txn -> State]

vars == <<job, levels, found, held, state>>

(* A reservation that has not read the stock levels yet is "starting".       *)
State == {"starting", "running", "committed", "aborted"}

OrderLock(o) == <<"order", o>>
StockLock(m) == <<"stock", m>>
RowLock(r) == <<"row", r>>
Lock == {OrderLock(o) : o \in ProductionOrder} \cup {StockLock(m) : m \in Material}
          \cup {RowLock(r) : r \in Row}

OrderRows(o) == {r \in Row : OrderOf[r] = o}
MaterialsOf(rows) == {MaterialOf[r] : r \in rows}
Least(numbers) == {x \in numbers : \A y \in numbers : x <= y}

(* A cancellation finds some of its rows open: they still hold material.     *)
Reserves == [kind : {"reserve"}, order : ProductionOrder]
Cancels == [kind : {"cancel"}, order : ProductionOrder, open : SUBSET Row]
Uses == [kind : {"use"}, row : Row]
Movements == [kind : {"staff"}, material : Material]
Job == Reserves \cup Cancels \cup Uses \cup Movements

(* What has been reserved has a stock level.                                 *)
Stocked(j) ==
  /\ j \in Cancels => j.open \subseteq {r \in OrderRows(j.order) : MaterialOf[r] \in levels}
  /\ j \in Uses => MaterialOf[j.row] \in levels

Init ==
  /\ levels \in SUBSET Material
  /\ job \in [Txn -> {j \in Job : Stocked(j)}]
  /\ found = [t \in Txn |-> {}]
  /\ held = [t \in Txn |-> {}]
  /\ state = [t \in Txn |-> IF job[t] \in Reserves THEN "starting" ELSE "running"]

-----------------------------------------------------------------------------
(* The next lock: a set of at most one. *)

StockHeld(t) == {m \in Material : StockLock(m) \in held[t]}
RowsHeld(t) == {r \in Row : RowLock(r) \in held[t]}

(* Levels found are locked first, by material id.                            *)
ToLock(t) == (MaterialsOf(OrderRows(job[t].order)) \cap found[t]) \ StockHeld(t)

(* Mutant: the levels found are locked as the requirements were entered.     *)
NextToLock_ByRow(t) ==
  MaterialsOf(Least({r \in OrderRows(job[t].order) : MaterialOf[r] \in ToLock(t)}))

NextToLock(t) == Least(ToLock(t))

(* Levels not found are inserted, each at the first row that needs it.       *)
ToInsert(t) == {r \in OrderRows(job[t].order) : MaterialOf[r] \notin found[t] \cup StockHeld(t)}

(* Rows are written until one needs a level that was just created: there is  *)
(* nothing on hand, and the reservation is refused.                          *)
ToWrite(t) ==
  {r \in OrderRows(job[t].order) :
     /\ RowLock(r) \notin held[t]
     /\ \A q \in OrderRows(job[t].order) : q <= r => MaterialOf[q] \in found[t]}

ReserveWants(t) ==
  IF ToLock(t) # {} THEN {StockLock(m) : m \in NextToLock(t)}
  ELSE IF ToInsert(t) # {} THEN {StockLock(MaterialOf[r]) : r \in Least(ToInsert(t))}
  ELSE {RowLock(r) : r \in Least(ToWrite(t))}

CancelWants(t) ==
  LET rows == OrderRows(job[t].order) \ RowsHeld(t)
      open == {r \in job[t].open : MaterialOf[r] \notin StockHeld(t)}
  IN  IF rows # {} THEN {RowLock(r) : r \in Least(rows)}
      ELSE {StockLock(MaterialOf[r]) : r \in Least(open)}

UseWants(t) ==
  IF RowLock(job[t].row) \notin held[t] THEN {RowLock(job[t].row)}
  ELSE {StockLock(MaterialOf[job[t].row])} \ held[t]

LacksOrder(t) ==
  job[t].kind \in {"reserve", "cancel"} /\ OrderLock(job[t].order) \notin held[t]

Wants(t) ==
  IF state[t] \notin {"starting", "running"} THEN {}
  ELSE IF LacksOrder(t) THEN {OrderLock(job[t].order)}
  ELSE IF state[t] = "starting" THEN {}
  ELSE IF job[t].kind = "reserve" THEN ReserveWants(t)
  ELSE IF job[t].kind = "cancel" THEN CancelWants(t)
  ELSE IF job[t].kind = "use" THEN UseWants(t)
  ELSE {StockLock(job[t].material)} \ held[t]

-----------------------------------------------------------------------------
(* Waiting. *)

(* A reservation wants a level that it has not found: it inserts it.         *)
Inserts(t, m) == job[t].kind = "reserve" /\ StockLock(m) \in Wants(t) /\ m \notin found[t]

(* The levels a transaction has inserted or updated.  A reservation only     *)
(* locks those it finds, until it comes to a row of them; the others write   *)
(* a level as soon as they have locked it.                                   *)
Written(t) ==
  IF job[t].kind = "reserve"
    THEN StockHeld(t) \ (found[t] \ MaterialsOf(RowsHeld(t)))
    ELSE StockHeld(t)

(* Who wants a lock waits for its holder; who inserts a level waits, under   *)
(* the unique index, for who writes it and for no one who has locked it.     *)
WaitsFor(t, u) ==
  /\ t # u
  /\ \E l \in Wants(t) \cap held[u] :
       \A m \in Material : l = StockLock(m) /\ Inserts(t, m) => m \in Written(u)

Waits(t) == \E u \in Txn : WaitsFor(t, u)

(* The level has been committed since the reservation looked for it.         *)
ComesLate(t) == \E m \in levels : Inserts(t, m)

-----------------------------------------------------------------------------
(* The steps. *)

(* The locking read of the stock levels: which of them there are.            *)
Look(t) ==
  /\ state[t] = "starting" /\ ~LacksOrder(t)
  /\ found' = [found EXCEPT ![t] = levels \cap MaterialsOf(OrderRows(job[t].order))]
  /\ state' = [state EXCEPT ![t] = "running"]
  /\ UNCHANGED <<job, levels, held>>

TakeLock(t) ==
  /\ Wants(t) # {} /\ ~ComesLate(t)
  /\ \A u \in Txn \ {t} : Wants(t) \cap held[u] = {}
  /\ held' = [held EXCEPT ![t] = @ \cup Wants(t)]
  /\ UNCHANGED <<job, levels, found, state>>

Abort(t) ==
  /\ state' = [state EXCEPT ![t] = "aborted"]
  /\ held' = [held EXCEPT ![t] = {}]
  /\ UNCHANGED <<job, levels, found>>

(* Refused by a status, by what is on hand, or by the unique index on the    *)
(* level it inserts: a violation there is not caught.                        *)
Refuse(t) ==
  /\ state[t] \in {"starting", "running"}
  /\ Waits(t) => ComesLate(t)
  /\ Abort(t)

(* A level the reservation created itself has nothing on hand to reserve.    *)
Commit(t) ==
  /\ state[t] = "running" /\ Wants(t) = {}
  /\ job[t].kind = "reserve" => MaterialsOf(OrderRows(job[t].order)) \subseteq found[t]
  /\ state' = [state EXCEPT ![t] = "committed"]
  /\ levels' = levels \cup StockHeld(t)
  /\ held' = [held EXCEPT ![t] = {}]
  /\ UNCHANGED <<job, found>>

Circle(S) == S # {} /\ \A t \in S : \E u \in S : WaitsFor(t, u)

(* One of the waiting transactions of a circle, nobody else.                 *)
AbortVictim(t) ==
  /\ \E S \in SUBSET Txn : t \in S /\ Circle(S) /\ \A R \in SUBSET S : Circle(R) => R = S
  /\ Abort(t)

Next == \E t \in Txn : Look(t) \/ TakeLock(t) \/ Refuse(t) \/ Commit(t) \/ AbortVictim(t)

Spec == Init /\ [][Next]_vars

-----------------------------------------------------------------------------
(* Properties. *)

(* A cancellation has its rows and wants stock, in the order of the rows.    *)
CancelsRowByRow(t) ==
  /\ job[t].kind = "cancel" /\ RowsHeld(t) # {}
  /\ \E m \in Material : StockLock(m) \in Wants(t)

(* A reservation has inserted one level and inserts another.                 *)
CreatesLevels(t) ==
  /\ job[t].kind = "reserve" /\ StockHeld(t) \ found[t] # {}
  /\ \E m \in Material : Inserts(t, m)

(* A reservation wants a row that is being used: its order was reserved      *)
(* before, and planned again on what the plan had read before its lock.      *)
ReservesUsedRow(t, u) ==
  /\ job[t].kind = "reserve" /\ job[u].kind = "use"
  /\ RowLock(job[u].row) \in Wants(t) \cap held[u]

(* reserve_materials locks stock by material id, "to prevent deadlocks".     *)
(* What is left: in every circle of waiting transactions there is a          *)
(* cancellation that locks stock row by row, or there are two reservations   *)
(* that create levels in the order of their rows, or a reservation and a use *)
(* of one order.  Stock that exists is never the cause by itself.            *)
OnlyKnownCircles ==
  \A S \in SUBSET Txn : Circle(S) =>
    \/ \E t \in S : CancelsRowByRow(t)
    \/ \E t, u \in S : t # u /\ CreatesLevels(t) /\ CreatesLevels(u)
    \/ \E t, u \in S : ReservesUsedRow(t, u)
=============================================================================
