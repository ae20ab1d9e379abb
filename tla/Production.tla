----------------------------- MODULE Production -----------------------------
(***************************************************************************)
(* Production orders that reserve, use and give back material: the         *)
(* production service on top of the stock service, run by concurrent       *)
(* requests against the same rows.                                         *)
(*                                                                         *)
(* A request is one transaction.  Whatever it does between taking the row  *)
(* locks that protect all it reads and its commit is one action.  A request*)
(* that reads without a lock, or reads one row under the lock of another,  *)
(* is split there: job[s] is how far the request in slot s has got, and a  *)
(* slot is free again when its transaction has ended.                      *)
(*   planning    the plan endpoint has read the order, without a lock      *)
(*   reserving   holds the order's lock and has read its reservation rows  *)
(*   inspecting  the same, for starting the quality check                  *)
(*   admitted    a use of material has read the order's status, no lock    *)
(*   holding     ... and holds its reservation row's lock and is allowed   *)
(*                                                                         *)
(* The order and the material of a reservation row never change, so rows   *)
(* are named after them: OrderOf and MaterialOf are constants.             *)
(***************************************************************************)
EXTENDS StockRules, ProductionTables, FiniteSetsExt

CONSTANTS ProductionOrder, Material, User, Nobody,
          Reservation,          \* reservation rows that plans may create
          OrderOf, MaterialOf,  \* [Reservation -> ...]: whose row, of what
          Required,             \* quantities a plan may require
          Slot,                 \* requests in flight
          Key,                  \* idempotency keys of clients
          Use,                  \* uses of material that clients ask for
          StaffMove,            \* movements staff post on the stock endpoint
          InitialLevel,         \* [Material -> SoundLevel]
          MaxOnHand,            \* bound: staff moves leave at most this on hand
          PlanPreloads          \* the plan endpoint reads the order beforehand

(* How reserved material leaves a reservation: the movement types of the   *)
(* four counters quantity_consumed, _wasted, _returned and _released.      *)
UseType == {"consume", "production_waste", "return", "release"}

ASSUME ConstantsAssumption ==
  /\ IsFiniteSet(Reservation)
  /\ OrderOf \in [Reservation -> ProductionOrder]
  /\ MaterialOf \in [Reservation -> Material]
  /\ Required \subseteq Nat
  /\ Use \subseteq [row : Reservation, type : UseType, quantity : Nat, key : Key]
  /\ StaffMove \subseteq [type : MovementType, quantity : Int]
  /\ InitialLevel \in [Material -> SoundLevel]
  /\ Nobody \notin User
  /\ PlanPreloads \in BOOLEAN

VARIABLES status,     \* [ProductionOrder -> Status]
          worker,     \* [ProductionOrder -> User or Nobody]: assigned_worker_id
          inspector,  \* [ProductionOrder -> User or Nobody]: qc_inspector_id
          mr,         \* [Reservation -> Row]: production_material_reservations
          level,      \* [Material -> balances]: stock_levels
          active,     \* [Material -> BOOLEAN]: Material.is_active
          moved,      \* the movements recorded under keys of clients
          job         \* [Slot -> Job]

orderVars == <<status, worker, inspector>>
stockVars == <<level, moved>>
vars == <<status, worker, inspector, mr, level, active, moved, job>>

Row == [status : RowStatus, required : Nat, reserved : Nat, used : [UseType -> Nat]]
NoUse == [t \in UseType |-> 0]
Movement == [key : Key, order : ProductionOrder, material : Material,
             type : UseType, quantity : Nat]

Idle == [at |-> "idle"]
Planning == [at : {"planning"}, order : ProductionOrder]
Reserving == [at : {"reserving"}, order : ProductionOrder,
              seen : [Reservation -> RowStatus]]
Inspecting == [at : {"inspecting"}, order : ProductionOrder, by : User]
Using == [at : {"admitted", "holding"}, use : Use]
Job == {Idle} \cup Planning \cup Reserving \cup Inspecting \cup Using

Rows(o) == {r \in Reservation : OrderOf[r] = o /\ mr[r].status # "none"}

(* Mutant: forgets that released material is gone. *)
Remaining_ForgetsReleased(row) ==
  row.reserved - row.used["consume"] - row.used["production_waste"] - row.used["return"]

(* compute_remaining_reserved *)
Remaining(row) ==
  row.reserved - row.used["consume"] - row.used["production_waste"]
    - row.used["return"] - row.used["release"]

Adding(row, type, quantity) == [row.used EXCEPT ![type] = @ + quantity]

Locked(o) == \E s \in Slot : job[s].at \in {"reserving", "inspecting"} /\ job[s].order = o
RowLocked(r) == \E s \in Slot : job[s].at = "holding" /\ job[s].use.row = r

Init ==
  /\ status = [o \in ProductionOrder |-> "absent"]
  /\ worker = [o \in ProductionOrder |-> Nobody]
  /\ inspector = [o \in ProductionOrder |-> Nobody]
  /\ mr = [r \in Reservation |->
            [status |-> "none", required |-> 0, reserved |-> 0, used |-> NoUse]]
  /\ level = InitialLevel
  /\ active = [m \in Material |-> TRUE]
  /\ moved = {}
  /\ job = [s \in Slot |-> Idle]

Begin(s, j) == job[s] = Idle /\ job' = [job EXCEPT ![s] = j]
End(s) == job' = [job EXCEPT ![s] = Idle]

(* A refusal, an error, a lost connection: the transaction rolls back. *)
Abort(s) ==
  /\ job[s] # Idle
  /\ End(s)
  /\ UNCHANGED <<orderVars, mr, stockVars, active>>

-----------------------------------------------------------------------------
(* Creating and planning. *)

CreateProductionOrder(o) ==
  /\ status[o] = "absent"
  /\ status' = [status EXCEPT ![o] = "pending"]
  /\ UNCHANGED <<worker, inspector, mr, stockVars, active, job>>

(* One row per requirement, all pending; `wants` gives each what it requires. *)
Plan(o, wants) ==
  /\ DOMAIN wants # {}
  /\ status' = [status EXCEPT ![o] = "planned"]
  /\ mr' = [r \in Reservation |->
             IF r \in DOMAIN wants
             THEN [status |-> "pending", required |-> wants[r],
                   reserved |-> 0, used |-> NoUse]
             ELSE mr[r]]
  /\ UNCHANGED <<worker, inspector, stockVars, active>>

NewRows(o) == {r \in Reservation : OrderOf[r] = o /\ mr[r].status = "none"}
Requirements(o) == UNION {[rows -> Required] : rows \in SUBSET NewRows(o)}

(* The service on its own: it decides on the row it has locked. *)
PlanProduction(o, wants) ==
  /\ ~PlanPreloads
  /\ ~Locked(o)
  /\ status[o] = "pending"
  /\ Plan(o, wants)
  /\ UNCHANGED job

(* The endpoint loads the order first; a later locking read of a row that   *)
(* the session has already loaded does not refresh it, so the decision is   *)
(* taken on the status that was read here.                                  *)
PreloadForPlan(s, o) ==
  /\ PlanPreloads
  /\ status[o] = "pending"
  /\ Begin(s, [at |-> "planning", order |-> o])
  /\ UNCHANGED <<orderVars, mr, stockVars, active>>

PlanPreloaded(s, wants) ==
  /\ job[s].at = "planning"
  /\ ~Locked(job[s].order)
  /\ Plan(job[s].order, wants)
  /\ End(s)

-----------------------------------------------------------------------------
(* Reserving: all rows of the order or none. *)

ReadForReserve(s, o) ==
  /\ ~Locked(o)
  /\ status[o] = "planned"
  /\ Rows(o) # {}
  /\ Begin(s, [at |-> "reserving", order |-> o,
               seen |-> [r \in Reservation |-> mr[r].status]])
  /\ UNCHANGED <<orderVars, mr, stockVars, active>>

(* The quantities q of some rows, summed over those of material m. *)
Total(q, m) == MapThenSumSet(LAMBDA r : q[r], {r \in DOMAIN q : MaterialOf[r] = m})

(* The stock after one movement of the given type for each of these rows. *)
MovedFor(q, type) == [m \in Material |-> Moved(level[m], type, Total(q, m))]

(* Mutant: the stock is booked here and by the stock service once more.      *)
Booked_Twice(rows) == [r \in rows |-> 2 * mr[r].required]

Booked(rows) == [r \in rows |-> mr[r].required]

(* Every row must fit into what its material has available; then each is     *)
(* reserved through the stock service, one after the other, so that rows of  *)
(* one material must fit together.  The transition is validated on the       *)
(* status that was read, and writing "reserved" over it is no write at all   *)
(* when it was "reserved" already.  The writes wait for the rows' locks.     *)
ReserveMaterials(s) ==
  /\ job[s].at = "reserving"
  /\ LET o == job[s].order
         seen == job[s].seen
         rows == {r \in Rows(o) : seen[r] # "none"}
         after == MovedFor(Booked(rows), "reserve")
     IN  /\ \A r \in rows :
              /\ ~RowLocked(r)
              /\ RowMayMove(seen[r], "reserved")
              /\ active[MaterialOf[r]] /\ ValidQuantity("reserve", mr[r].required)
         /\ \A m \in Material : after[m] \in SoundLevel
         /\ mr' = [r \in Reservation |->
                    IF r \notin rows THEN mr[r]
                    ELSE [mr[r] EXCEPT !.reserved = mr[r].required,
                                       !.status = IF seen[r] = "pending" THEN "reserved"
                                                  ELSE mr[r].status]]
         /\ level' = after
         /\ status' = [status EXCEPT ![o] = "materials_reserved"]
  /\ End(s)
  /\ UNCHANGED <<worker, inspector, active, moved>>

-----------------------------------------------------------------------------
(* Transitions decided and written under the order's lock alone. *)

Transition(o, from, to) ==
  /\ ~Locked(o)
  /\ status[o] = from /\ MayMove(from, to)
  /\ status' = [status EXCEPT ![o] = to]
  /\ UNCHANGED <<mr, stockVars, active, job>>

(* Mutant: whoever starts or resumes last is the worker. *)
AssignWorker_Overwrites(o, u) ==
  /\ worker' = [worker EXCEPT ![o] = u]
  /\ UNCHANGED inspector

AssignWorker(o, u) ==
  /\ worker' = [worker EXCEPT ![o] = IF @ = Nobody THEN u ELSE @]
  /\ UNCHANGED inspector

StartProduction(o, u) ==
  Transition(o, "materials_reserved", "in_production") /\ AssignWorker(o, u)
PauseProduction(o) ==
  Transition(o, "in_production", "paused") /\ UNCHANGED <<worker, inspector>>
ResumeProduction(o, u) ==
  Transition(o, "paused", "in_production") /\ AssignWorker(o, u)
CompleteProduction(o) ==
  Transition(o, "ready", "completed") /\ UNCHANGED <<worker, inspector>>

(* _reject_self_approval *)
MayInspect(o, u) == worker[o] # u

(* Mutant: only starting the check looks at who the worker is. *)
CompleteQualityCheck_AnyInspector(o, u, approved) ==
  /\ Transition(o, "quality_check", IF approved THEN "ready" ELSE "in_production")
  /\ inspector' = [inspector EXCEPT ![o] = u]
  /\ UNCHANGED worker

CompleteQualityCheck(o, u, approved) ==
  /\ Transition(o, "quality_check", IF approved THEN "ready" ELSE "in_production")
  /\ MayInspect(o, u)
  /\ inspector' = [inspector EXCEPT ![o] = u]
  /\ UNCHANGED worker

(* Starting the check locks the order and then reads its rows, unlocked. *)
(* Mutant: only the row statuses are looked at, not what remains.         *)
ReadForQualityCheck_Statuses(s, o, u) ==
  /\ ~Locked(o)
  /\ MayInspect(o, u)
  /\ status[o] = "in_production"
  /\ \A r \in Rows(o) : mr[r].status # "pending"
  /\ Begin(s, [at |-> "inspecting", order |-> o, by |-> u])
  /\ UNCHANGED <<orderVars, mr, stockVars, active>>

ReadForQualityCheck(s, o, u) ==
  /\ ~Locked(o)
  /\ MayInspect(o, u)
  /\ status[o] = "in_production"
  /\ \A r \in Rows(o) : Remaining(mr[r]) <= 0
  /\ Begin(s, [at |-> "inspecting", order |-> o, by |-> u])
  /\ UNCHANGED <<orderVars, mr, stockVars, active>>

StartQualityCheck(s) ==
  /\ job[s].at = "inspecting"
  /\ status' = [status EXCEPT ![job[s].order] = "quality_check"]
  /\ inspector' = [inspector EXCEPT ![job[s].order] = job[s].by]
  /\ End(s)
  /\ UNCHANGED <<worker, mr, stockVars, active>>

-----------------------------------------------------------------------------
(* Cancelling releases what remains of every row still open.  The rows are  *)
(* locked, and read only then.                                              *)

Open(row) == row.status \in {"pending", "reserved"} /\ Remaining(row) > 0

Released(row) ==
  [row EXCEPT !.used = Adding(row, "release", Remaining(row)), !.status = "released"]

OpenRows(o) == {r \in Rows(o) : Open(mr[r])}
GivenBack(o) == [r \in OpenRows(o) |-> Remaining(mr[r])]

(* Everything the cancellation tests; what it does besides is to assign.     *)
CancelAllowed(o) ==
  /\ ~Locked(o)
  /\ MayMove(status[o], "cancelled")
  /\ \A r \in Rows(o) : ~RowLocked(r)
  /\ \A r \in OpenRows(o) :
       active[MaterialOf[r]] /\ RowMayMove(mr[r].status, "released")
  /\ \A m \in Material : MovedFor(GivenBack(o), "release")[m] \in SoundLevel

(* Mutant: releases all that was reserved, also what has been used since. *)
CancelProduction_ReleasesAll(o) ==
  LET after == MovedFor([r \in OpenRows(o) |-> mr[r].reserved], "release")
  IN  /\ CancelAllowed(o)
      /\ \A m \in Material : after[m] \in SoundLevel
      /\ mr' = [r \in Reservation |-> IF r \in OpenRows(o) THEN Released(mr[r]) ELSE mr[r]]
      /\ level' = after
      /\ status' = [status EXCEPT ![o] = "cancelled"]
      /\ UNCHANGED <<worker, inspector, active, moved, job>>

CancelProduction(o) ==
  /\ CancelAllowed(o)
  /\ mr' = [r \in Reservation |-> IF r \in OpenRows(o) THEN Released(mr[r]) ELSE mr[r]]
  /\ level' = MovedFor(GivenBack(o), "release")
  /\ status' = [status EXCEPT ![o] = "cancelled"]
  /\ UNCHANGED <<worker, inspector, active, moved, job>>

-----------------------------------------------------------------------------
(* Using material: consume, waste, return or release part of a row. *)

UsableIn(type) ==
  CASE type \in {"consume", "production_waste"} -> {"in_production", "paused"}
    [] type = "return" -> {"in_production", "paused", "materials_reserved"}
    [] type = "release" -> {"materials_reserved", "planned"}

(* The order's status is read without a lock, and not looked at again. *)
AdmitUse(s, u) ==
  /\ mr[u.row].status # "none"
  /\ status[OrderOf[u.row]] \in UsableIn(u.type)
  /\ Begin(s, [at |-> "admitted", use |-> u])
  /\ UNCHANGED <<orderVars, mr, stockVars, active>>

(* The movement a use records: it names the order, not the row. *)
MovementOf(u) ==
  [key |-> u.key, order |-> OrderOf[u.row], material |-> MaterialOf[u.row],
   type |-> u.type, quantity |-> u.quantity]

RowStatusesFor(type) ==
  CASE type \in {"consume", "production_waste"} -> {"reserved"}
    [] type = "release" -> {"pending", "reserved"}
    [] type = "return" -> RowStatus

(* Answering a retry: the same movement is recorded, so nothing is done. *)
ReplayUse(s) ==
  /\ job[s].at = "admitted"
  /\ ~RowLocked(job[s].use.row)
  /\ MovementOf(job[s].use) \in moved
  /\ End(s)
  /\ UNCHANGED <<orderVars, mr, stockVars, active>>

(* Mutant: no replay check before the counters (a retry that raced is then  *)
(* counted although its movement is not made again).                        *)
HoldRow_NoReplayCheck(s) ==
  /\ job[s].at = "admitted"
  /\ LET u == job[s].use
     IN  /\ ~RowLocked(u.row)
         /\ mr[u.row].status \in RowStatusesFor(u.type)
         /\ u.quantity <= Remaining(mr[u.row])
         /\ job' = [job EXCEPT ![s] = [at |-> "holding", use |-> u]]
  /\ UNCHANGED <<orderVars, mr, stockVars, active>>

(* Mutant: the row is read without its lock. *)
HoldRow_NoRowLock(s) ==
  /\ job[s].at = "admitted"
  /\ LET u == job[s].use
     IN  /\ MovementOf(u) \notin moved
         /\ mr[u.row].status \in RowStatusesFor(u.type)
         /\ u.quantity <= Remaining(mr[u.row])
         /\ job' = [job EXCEPT ![s] = [at |-> "holding", use |-> u]]
  /\ UNCHANGED <<orderVars, mr, stockVars, active>>

HoldRow(s) ==
  /\ job[s].at = "admitted"
  /\ LET u == job[s].use
     IN  /\ ~RowLocked(u.row)
         /\ MovementOf(u) \notin moved
         /\ mr[u.row].status \in RowStatusesFor(u.type)
         /\ u.quantity <= Remaining(mr[u.row])
         /\ job' = [job EXCEPT ![s] = [at |-> "holding", use |-> u]]
  /\ UNCHANGED <<orderVars, mr, stockVars, active>>

(* The status of a row once a use of the given type has been counted. *)
AfterConsume(row) ==
  IF row.used["consume"] >= row.reserved THEN "consumed" ELSE "reserved"
AfterWaste(row) ==
  IF row.used["consume"] + row.used["production_waste"] >= row.reserved
  THEN "consumed" ELSE "reserved"
AfterReturn(row) ==
  IF row.used["return"] + row.used["consume"] + row.used["production_waste"] >= row.reserved
  THEN "released" ELSE row.status
AfterRelease(row) == IF Remaining(row) <= 0 THEN "released" ELSE row.status

Settled(row, type) ==
  CASE type = "consume" -> AfterConsume(row)
    [] type = "production_waste" -> AfterWaste(row)
    [] type = "return" -> AfterReturn(row)
    [] type = "release" -> AfterRelease(row)

Counted(row, u) ==
  LET after == [row EXCEPT !.used = Adding(row, u.type, u.quantity)]
  IN  [after EXCEPT !.status = Settled(after, u.type)]

Count(u) ==
  /\ RowMayMove(mr[u.row].status, Counted(mr[u.row], u).status)
  /\ mr' = [mr EXCEPT ![u.row] = Counted(@, u)]

(* The stock service moves the stock, and the row's counter follows. *)
CommitUse(s) ==
  /\ job[s].at = "holding"
  /\ LET u == job[s].use
         m == MaterialOf[u.row]
         after == Moved(level[m], u.type, u.quantity)
     IN  /\ ValidQuantity(u.type, u.quantity) /\ active[m]
         /\ \A v \in moved : v.key # u.key
         /\ after \in SoundLevel
         /\ level' = [level EXCEPT ![m] = after]
         /\ moved' = moved \cup {MovementOf(u)}
         /\ Count(u)
  /\ End(s)
  /\ UNCHANGED <<orderVars, active>>

(* The stock service finds the same movement recorded since the replay check *)
(* and moves nothing; the row's counter follows all the same.                *)
CommitUseRaced(s) ==
  /\ job[s].at = "holding"
  /\ LET u == job[s].use
     IN  /\ ValidQuantity(u.type, u.quantity) /\ active[MaterialOf[u.row]]
         /\ MovementOf(u) \in moved
         /\ Count(u)
  /\ End(s)
  /\ UNCHANGED <<orderVars, stockVars, active>>

-----------------------------------------------------------------------------
(* What else happens to the stock: movements staff post directly, each under *)
(* a key of its own, and the owner's switch on a material.                   *)

StaffMovement(m, v) ==
  LET after == Moved(level[m], v.type, v.quantity)
  IN  /\ ValidQuantity(v.type, v.quantity) /\ active[m]
      /\ after \in SoundLevel /\ after.on_hand <= MaxOnHand
      /\ level' = [level EXCEPT ![m] = after]
      /\ UNCHANGED <<orderVars, mr, active, moved, job>>

SetActive(m, b) ==
  /\ active[m] # b
  /\ active' = [active EXCEPT ![m] = b]
  /\ UNCHANGED <<orderVars, mr, stockVars, job>>

-----------------------------------------------------------------------------
OrderStep(o) ==
  \/ CreateProductionOrder(o)
  \/ \E wants \in Requirements(o) : PlanProduction(o, wants)
  \/ \E u \in User : StartProduction(o, u) \/ ResumeProduction(o, u)
  \/ PauseProduction(o) \/ CompleteProduction(o) \/ CancelProduction(o)
  \/ \E u \in User, b \in BOOLEAN : CompleteQualityCheck(o, u, b)

BeginStep(s) ==
  \/ \E o \in ProductionOrder :
       \/ PreloadForPlan(s, o) \/ ReadForReserve(s, o)
       \/ \E u \in User : ReadForQualityCheck(s, o, u)
  \/ \E u \in Use : AdmitUse(s, u)

SlotStep(s) ==
  \/ job[s].at = "planning"
     /\ \E wants \in Requirements(job[s].order) : PlanPreloaded(s, wants)
  \/ ReserveMaterials(s) \/ StartQualityCheck(s)
  \/ ReplayUse(s) \/ HoldRow(s) \/ CommitUse(s) \/ CommitUseRaced(s)
  \/ Abort(s)

StockStep ==
  \E m \in Material :
    (\E v \in StaffMove : StaffMovement(m, v)) \/ (\E b \in BOOLEAN : SetActive(m, b))

Next ==
  \/ \E o \in ProductionOrder : OrderStep(o)
  \/ \E s \in Slot : BeginStep(s) \/ SlotStep(s)
  \/ StockStep

Spec == Init /\ [][Next]_vars

-----------------------------------------------------------------------------
(* Properties. *)

TypeOK ==
  /\ status \in [ProductionOrder -> Status]
  /\ worker \in [ProductionOrder -> User \cup {Nobody}]
  /\ inspector \in [ProductionOrder -> User \cup {Nobody}]
  /\ mr \in [Reservation -> Row]
  /\ level \in [Material -> SoundLevel]
  /\ active \in [Material -> BOOLEAN]
  /\ moved \subseteq Movement
  /\ job \in [Slot -> Job]

(* A reservation row says what happened to it: nothing is used that was not  *)
(* reserved, an untouched row holds nothing, a row is closed only when       *)
(* nothing remains of it.  (Not the converse: a row used up by waste before  *)
(* consumption stays "reserved" with nothing left.)                          *)
RowSound(row) ==
  /\ Remaining(row) >= 0
  /\ row.status \in {"none", "pending"} => row.reserved = 0
  /\ row.status \in {"reserved", "consumed", "released"} => row.reserved = row.required
  /\ row.status \in {"consumed", "released"} => Remaining(row) = 0

ReservationSound == \A r \in Reservation : RowSound(mr[r])

(* Two requests never hold the lock of the same order or of the same row.    *)
LocksExclusive ==
  \A s, t \in Slot : s # t =>
    /\ job[s].at \in {"reserving", "inspecting"} /\ job[t].at \in {"reserving", "inspecting"}
         => job[s].order # job[t].order
    /\ job[s].at = "holding" /\ job[t].at = "holding" => job[s].use.row # job[t].use.row

(* What a request in flight has read is still true when it writes: the rows  *)
(* of the order it reserves for, what the inspected order has left, what a   *)
(* use may take.  The plan endpoint and a use's order status are the two     *)
(* reads for which this does not hold.                                       *)
ReadsStillTrue ==
  \A s \in Slot :
    /\ job[s].at = "reserving" =>
         /\ status[job[s].order] = "planned"
         /\ \A r \in Reservation :
              /\ OrderOf[r] = job[s].order
              /\ {mr[r].status, job[s].seen[r]} \cap {"none", "pending"} # {}
              => job[s].seen[r] = mr[r].status
    /\ job[s].at = "inspecting" =>
         /\ status[job[s].order] = "in_production"
         /\ worker[job[s].order] # job[s].by
         /\ \A r \in Reservation :
              OrderOf[r] = job[s].order => Remaining(mr[r]) = 0
    /\ job[s].at = "holding" => job[s].use.quantity <= Remaining(mr[job[s].use.row])

(* From quality check on, and once it is cancelled, an order holds no        *)
(* material: whatever the requests in flight, no use of material can still   *)
(* be counted, and no stock stays reserved for it for ever.                  *)
FinishedOrdersHoldNothing ==
  \A r \in Reservation : status[OrderOf[r]] \in Finished => Remaining(mr[r]) = 0

(* Segregation of duties: an order in quality check or past it has a worker  *)
(* and an inspector, and they are two people.                                *)
SegregationOfDuties ==
  \A o \in ProductionOrder :
    /\ status[o] \in {"in_production", "paused"} => worker[o] # Nobody
    /\ status[o] \in {"quality_check", "ready", "completed"} =>
         worker[o] # Nobody /\ inspector[o] # Nobody /\ inspector[o] # worker[o]

(* What is reserved of a material is, to the unit, what its reservations     *)
(* still hold, and the warehouse has it: orders never hold more than is kept *)
(* for them, nothing is kept for no one, and rows of one material that each  *)
(* fit alone are not reserved together unless they fit together.             *)
ReservedBacked ==
  \A m \in Material :
    /\ level[m].reserved = Total([r \in Reservation |-> Remaining(mr[r])], m)
    /\ level[m].reserved <= level[m].on_hand

(* What is reserved of a material beyond what its rows hold.  Whatever the    *)
(* requests in flight, production never takes from it: the books and the     *)
(* rows part only when an order that was planned too late is reserved again, *)
(* when two uses under one key race, and both leave more reserved than held; *)
(* all that takes from it are movements of staff.                            *)
Held(m) == Total([r \in Reservation |-> Remaining(mr[r])], m)
Surplus(m) == level[m].reserved - Held(m)

StaffMoves == UNCHANGED <<status, mr, job>>

ReservesAgain ==
  \E r \in Reservation :
    /\ mr[r].status \notin {"none", "pending"}
    /\ status[OrderOf[r]] = "planned" /\ status'[OrderOf[r]] = "materials_reserved"

CountsAgain ==
  \E s \in Slot :
    job[s].at = "holding" /\ MovementOf(job[s].use) \in moved /\ job'[s] = Idle

KeepsBooks ==
  \A m \in Material :
    \/ StaffMoves
    \/ Surplus(m)' = Surplus(m)
    \/ (ReservesAgain \/ CountsAgain) /\ Surplus(m)' > Surplus(m)

ProductionKeepsBooks == [][KeepsBooks]_vars

(* The counters of an order's reservations agree with the movements recorded *)
(* for it: a use is counted once however often it is sent, and a key of      *)
(* another operation is no replay (docstring of _is_idempotent_replay).      *)
CountersMatchMovements ==
  \A o \in ProductionOrder, m \in Material, t \in UseType \ {"release"} :
    Total([r \in Rows(o) |-> mr[r].used[t]], m)
    = MapThenSumSet(LAMBDA v : v.quantity,
                    {v \in moved : v.order = o /\ v.material = m /\ v.type = t})

Unlocked(o) == ~Locked(o) /\ \A r \in Rows(o) : ~RowLocked(r)

(* An order that is not finished can be cancelled, as long as the materials  *)
(* it holds are active: the rows are in statuses that may be released, and   *)
(* the stock service accepts every release that takes, since what is         *)
(* reserved of a material covers what this order's rows have left together.  *)
CancelPossible ==
  \A o \in ProductionOrder :
    /\ status[o] \notin Terminal \cup {"absent"} /\ Unlocked(o)
    /\ \A r \in Rows(o) : Open(mr[r]) => active[MaterialOf[r]]
    => CancelAllowed(o)

(* The comment on PRODUCTION_ORDER_TRANSITIONS: "Terminal states (COMPLETED,  *)
(* CANCELLED) map to an empty set" of transitions.                           *)
TerminalIsFinal ==
  [][\A o \in ProductionOrder : status[o] \in Terminal => status'[o] = status[o]]_vars

(* Each order keeps the promises of ProductionLifecycle; material is held    *)
(* for an order while something remains of one of its rows.                  *)
Holders == {o \in ProductionOrder : \E r \in Rows(o) : Remaining(mr[r]) > 0}

Lifecycle == INSTANCE ProductionLifecycle WITH
  stage <- status,
  holders <- Holders,
  maker <- worker,
  judge <- inspector

ImplementsLifecycle == Lifecycle!Spec
=============================================================================
