-------------------------- MODULE ProductionProofs --------------------------
(***************************************************************************)
(* Proofs about Production, for every set of orders, rows, materials,      *)
(* users and requests in flight, whatever staff do to the stock, however   *)
(* clients use their keys, and with the plan endpoint as it is.            *)
(***************************************************************************)
EXTENDS Production, FiniteSetTheorems, WellFoundedInduction, TLAPS

-----------------------------------------------------------------------------
(* One row. *)

(* The fields of a row, for the steps that only calculate with them. *)
LEMMA RowFields ==
  \A row \in Row :
         /\ row.reserved \in Nat /\ row.required \in Nat
         /\ row.used \in [UseType -> Nat]
         /\ \A t \in UseType : row.used[t] \in Nat
         /\ row.used["consume"] \in Nat /\ row.used["production_waste"] \in Nat
         /\ row.used["return"] \in Nat /\ row.used["release"] \in Nat
         /\ row.status \in RowStatus
  BY DEF Row, UseType

(* What remains of a row is an integer. *)
LEMMA RemainingType == \A row \in Row : Remaining(row) \in Int
  BY SMT DEF Row, Remaining, UseType

(* A row that has something left is a reserved one (compute_remaining_reserved *)
(* is zero on every other status).                                             *)
LEMMA OnlyReservedRemains ==
  ASSUME NEW row \in Row, RowSound(row), Remaining(row) > 0
  PROVE  row.status = "reserved"
  BY SMT DEF Row, RowSound, Remaining, RowStatus, UseType

(* Counting a use that fits keeps a row sound and takes exactly its quantity. *)
LEMMA CountedSound ==
  ASSUME NEW row \in Row, RowSound(row), NEW u \in Use,
         0 < u.quantity, u.quantity <= Remaining(row)
  PROVE  /\ Counted(row, u) \in Row
         /\ RowSound(Counted(row, u))
         /\ Remaining(Counted(row, u)) = Remaining(row) - u.quantity
         /\ Counted(row, u).status \notin {"none", "pending"}
<1> DEFINE used == Adding(row, u.type, u.quantity)
           after == [row EXCEPT !.used = used]
           c == Counted(row, u)
<1>1. u.type \in UseType /\ u.quantity \in Nat
  BY ConstantsAssumption
<1>2. used \in [UseType -> Nat] /\ after \in Row
  BY <1>1, SMT DEF Row, Adding
<1>3. Remaining(after) = Remaining(row) - u.quantity
  BY <1>1, <1>2, SMT DEF Row, Remaining, UseType, Adding
<1>4. row.status = "reserved" /\ row.reserved = row.required
  BY OnlyReservedRemains, RemainingType, <1>1, SMT DEF RowSound
<1>5. c = [after EXCEPT !.status = Settled(after, u.type)]
  BY DEF Counted
<1>6. Settled(after, u.type) \in {"reserved", "consumed", "released"}
  BY <1>1, <1>2, <1>4, SMT DEF Settled, AfterConsume, AfterWaste, AfterReturn, AfterRelease, UseType, Row
<1>7. c \in Row /\ Remaining(c) = Remaining(after)
  <2>1. c \in Row
    BY <1>2, <1>5, <1>6 DEF Row, RowStatus
  <2>2. c.used = after.used /\ c.reserved = after.reserved /\ c.required = after.required
        /\ c.status = Settled(after, u.type)
    BY <1>2, <1>5, SMT DEF Row
  <2> QED BY <2>1, <2>2 DEF Remaining
<1>8. ASSUME c.status \in {"consumed", "released"} PROVE Remaining(after) = 0
  <2>1. Settled(after, u.type) \in {"consumed", "released"}
    BY <1>2, <1>5, <1>8, SMT DEF Row
  <2>2. Remaining(after) >= 0
    BY <1>1, <1>3, RemainingType, SMT
  <2>3. after.status = "reserved"
    BY <1>4, <1>2, SMT DEF Row
  <2> HIDE DEF after
  <2>4. CASE u.type = "consume"
    BY <2>1, <2>2, <2>3, <2>4, <1>2, RowFields, SMT DEF Settled, AfterConsume, AfterWaste, AfterReturn, AfterRelease, Remaining
  <2>5. CASE u.type = "production_waste"
    BY <2>1, <2>2, <2>3, <2>5, <1>2, RowFields, SMT DEF Settled, AfterConsume, AfterWaste, AfterReturn, AfterRelease, Remaining
  <2>6. CASE u.type = "return"
    BY <2>1, <2>2, <2>3, <2>6, <1>2, RowFields, SMT DEF Settled, AfterConsume, AfterWaste, AfterReturn, AfterRelease, Remaining
  <2>7. CASE u.type = "release"
    BY <2>1, <2>2, <2>3, <2>7, <1>2, RowFields, SMT DEF Settled, AfterConsume, AfterWaste, AfterReturn, AfterRelease, Remaining
  <2> QED BY <1>1, <2>4, <2>5, <2>6, <2>7 DEF UseType
<1>9. RowSound(c)
  BY <1>1, <1>2, <1>3, <1>4, <1>5, <1>6, <1>7, <1>8, RemainingType, SMT DEF RowSound, Row
<1> QED
  BY <1>3, <1>5, <1>6, <1>7, <1>9, <1>2, SMT DEF Row

(* Releasing all that remains of an open row keeps it sound and empties it. *)
LEMMA ReleasedSound ==
  ASSUME NEW row \in Row, RowSound(row), Open(row)
  PROVE  /\ Released(row) \in Row
         /\ RowSound(Released(row))
         /\ Remaining(Released(row)) = 0
         /\ Released(row).status = "released"
<1> DEFINE used == Adding(row, "release", Remaining(row))
<1>1. Remaining(row) \in Nat /\ row.status = "reserved"
  BY RemainingType, OnlyReservedRemains, SMT DEF Open
<1>2. used \in [UseType -> Nat]
  BY <1>1, RowFields, SMT DEF UseType, Adding
<1>3. Released(row) = [row EXCEPT !.used = used, !.status = "released"]
  BY DEF Released
<1>4. Released(row) \in Row
  BY <1>2, <1>3 DEF Row, RowStatus
<1>5. /\ Released(row).used = used /\ Released(row).reserved = row.reserved
      /\ Released(row).required = row.required /\ Released(row).status = "released"
  BY <1>2, <1>3 DEF Row
<1>6a. /\ used["consume"] = row.used["consume"] /\ used["return"] = row.used["return"]
       /\ used["production_waste"] = row.used["production_waste"]
       /\ used["release"] = row.used["release"] + Remaining(row)
  BY <1>1, RowFields, SMT DEF UseType, Adding
<1>6. Remaining(Released(row)) = 0
  BY <1>1, <1>5, <1>6a, RowFields, SMT DEF Remaining
<1> QED BY <1>1, <1>4, <1>5, <1>6, SMT DEF RowSound

(* A pending row that is reserved in full is sound. *)
Reserved(row) == [row EXCEPT !.reserved = row.required, !.status = "reserved"]

(* Reserving a sound pending row in full leaves it sound.                    *)
LEMMA ReservedSound ==
  ASSUME NEW row \in Row, RowSound(row), row.status = "pending"
  PROVE  Reserved(row) \in Row /\ RowSound(Reserved(row))
         /\ Reserved(row).status = "reserved"
         /\ Remaining(Reserved(row)) = row.required
<1>1. Reserved(row) \in Row
  BY DEF Row, Reserved, RowStatus
<1>2. /\ Reserved(row).used = row.used /\ Reserved(row).reserved = row.required
      /\ Reserved(row).required = row.required /\ Reserved(row).status = "reserved"
  BY DEF Row, Reserved
<1>3. /\ row.used["consume"] = 0 /\ row.used["production_waste"] = 0
      /\ row.used["return"] = 0 /\ row.used["release"] = 0
  <2>1. row.reserved = 0 /\ Remaining(row) >= 0
    BY DEF RowSound
  <2>2. /\ row.used["consume"] \in Nat /\ row.used["production_waste"] \in Nat
        /\ row.used["return"] \in Nat /\ row.used["release"] \in Nat
    BY RowFields
  <2> QED BY <2>1, <2>2, SMTT(30) DEF Remaining
<1>4. Remaining(Reserved(row)) = row.required
  BY <1>2, <1>3, RowFields, SMT DEF Remaining
<1> QED BY <1>1, <1>2, <1>4, RowFields, SMT DEF RowSound
-----------------------------------------------------------------------------
(* The inductive invariant: a finished order holds nothing because nobody    *)
(* can change what a request that holds its lock has read.                   *)
Inv ==
  /\ TypeOK
  /\ ReservationSound
  /\ LocksExclusive
  /\ ReadsStillTrue
  /\ FinishedOrdersHoldNothing
  /\ SegregationOfDuties

(* A job has the fields of its kind. *)
LEMMA JobFields ==
  ASSUME TypeOK, NEW s \in Slot
  PROVE  /\ job[s].at \in {"planning", "reserving", "inspecting"}
              => job[s].order \in ProductionOrder
         /\ job[s].at = "reserving" => job[s].seen \in [Reservation -> RowStatus]
         /\ job[s].at = "inspecting" => job[s].by \in User
         /\ job[s].at \in {"admitted", "holding"} =>
              /\ job[s].use \in Use /\ job[s].use.row \in Reservation
              /\ job[s].use.type \in UseType /\ job[s].use.quantity \in Nat
<1>1. job[s] \in Job
  BY DEF TypeOK
<1> QED
  BY <1>1, ConstantsAssumption DEF Job, Idle, Planning, Reserving, Inspecting, Using

(* What a step may do to a row, and what it needs for it. *)
RowKept(r) == mr'[r] = mr[r]

RowPlanned(r) ==
  /\ mr[r].status = "none" /\ mr'[r].status = "pending"
  /\ Remaining(mr'[r]) = 0 /\ ~Locked(OrderOf[r])

RowReserved(r) ==
  /\ mr[r].status = "pending" /\ mr'[r].status = "reserved"
  /\ status'[OrderOf[r]] = "materials_reserved"
  /\ \E s \in Slot : /\ job[s].at = "reserving" /\ job[s].order = OrderOf[r]
                     /\ job'[s] = Idle
  /\ ~RowLocked(r)

RowCounted(r) ==
  /\ mr[r].status = "reserved" /\ mr'[r].status \notin {"none", "pending"}
  /\ 0 < Remaining(mr[r])
  /\ \E s \in Slot : /\ job[s].at = "holding" /\ job[s].use.row = r
                     /\ job'[s] = Idle

RowReleased(r) ==
  /\ mr[r].status = "reserved" /\ mr'[r].status = "released"
  /\ Remaining(mr'[r]) = 0 /\ ~Locked(OrderOf[r]) /\ ~RowLocked(r)

RowEffect(r) ==
  /\ mr'[r] \in Row /\ RowSound(mr'[r])
  /\ \/ RowKept(r) \/ RowPlanned(r) \/ RowReserved(r)
     \/ RowCounted(r) \/ RowReleased(r)

RowsEffect ==
  mr' \in [Reservation -> Row] /\ \A r \in Reservation : RowEffect(r)

(* A step that leaves the rows alone. *)
LEMMA RowsKept ==
  ASSUME Inv, mr' = mr
  PROVE  RowsEffect
  BY DEF Inv, TypeOK, ReservationSound, RowsEffect, RowEffect, RowKept

(* Planning creates pending rows that hold nothing. *)
LEMMA RowsPlanned ==
  ASSUME Inv, NEW o \in ProductionOrder, NEW wants \in Requirements(o),
         ~Locked(o), Plan(o, wants)
  PROVE  RowsEffect
<1>1. PICK rows \in SUBSET NewRows(o) : wants \in [rows -> Required]
  BY DEF Requirements
<1>2. \A r \in DOMAIN wants : /\ r \in Reservation /\ OrderOf[r] = o
                             /\ mr[r].status = "none" /\ wants[r] \in Nat
  BY <1>1, ConstantsAssumption DEF NewRows
<1>3. /\ NoUse \in [UseType -> Nat] /\ NoUse["consume"] = 0
      /\ NoUse["production_waste"] = 0 /\ NoUse["return"] = 0 /\ NoUse["release"] = 0
  BY DEF NoUse, UseType
<1> DEFINE new(r) == [status |-> "pending", required |-> wants[r],
                      reserved |-> 0, used |-> NoUse]
<1>4. ASSUME NEW r \in DOMAIN wants
      PROVE  new(r) \in Row /\ Remaining(new(r)) = 0 /\ RowSound(new(r))
  <2>1. new(r) \in Row
    BY <1>2, <1>3 DEF Row, RowStatus
  <2>2. Remaining(new(r)) = 0
    BY <1>3, SMT DEF Remaining
  <2> QED BY <2>1, <2>2, SMT DEF RowSound
<1>5. mr' = [r \in Reservation |-> IF r \in DOMAIN wants THEN new(r) ELSE mr[r]]
  BY DEF Plan
<1>6. \A r \in Reservation : mr[r] \in Row /\ RowSound(mr[r])
  BY DEF Inv, TypeOK, ReservationSound
<1> HIDE DEF new
<1>7. mr' \in [Reservation -> Row]
  BY <1>4, <1>5, <1>6
<1>8. ASSUME NEW r \in Reservation PROVE RowEffect(r)
  <2>1. CASE r \in DOMAIN wants
    <3>1. mr'[r] = new(r) /\ new(r).status = "pending"
      BY <1>5, <2>1 DEF new
    <3> QED BY <3>1, <1>2, <1>4, <2>1 DEF RowEffect, RowPlanned
  <2>2. CASE r \notin DOMAIN wants
    BY <1>5, <1>6, <2>2 DEF RowEffect, RowKept
  <2> QED BY <2>1, <2>2
<1> QED BY <1>7, <1>8 DEF RowsEffect

(* Reserving turns the order's pending rows into reserved ones, and leaves   *)
(* a row that was reserved before as it is.                                  *)
LEMMA RowsReserved ==
  ASSUME Inv, NEW s \in Slot, ReserveMaterials(s)
  PROVE  RowsEffect
<1> DEFINE o == job[s].order
           seen == job[s].seen
           rows == {r \in Rows(o) : seen[r] # "none"}
<1>1. job[s].at = "reserving" /\ o \in ProductionOrder /\ job'[s] = Idle
  BY JobFields DEF ReserveMaterials, Inv, End, TypeOK
<1>2. mr' = [r \in Reservation |->
              IF r \notin rows THEN mr[r]
              ELSE [mr[r] EXCEPT !.reserved = mr[r].required,
                                 !.status = IF seen[r] = "pending" THEN "reserved"
                                            ELSE mr[r].status]]
  BY DEF ReserveMaterials
<1>3. status'[o] = "materials_reserved"
  BY <1>1 DEF ReserveMaterials, Inv, TypeOK
<1>4. \A r \in rows : ~RowLocked(r) /\ RowMayMove(seen[r], "reserved")
  BY DEF ReserveMaterials
<1>5. \A r \in rows : /\ r \in Reservation /\ OrderOf[r] = o
                      /\ mr[r].status # "none"
  BY DEF Rows
<1>6. \A r \in Reservation :
        /\ OrderOf[r] = o /\ {mr[r].status, seen[r]} \cap {"none", "pending"} # {}
        => seen[r] = mr[r].status
  BY <1>1 DEF Inv, ReadsStillTrue
<1>7. \A r \in Reservation : mr[r] \in Row /\ RowSound(mr[r])
  BY DEF Inv, TypeOK, ReservationSound
<1> HIDE DEF o, seen
<1>8. ASSUME NEW r \in Reservation
      PROVE  RowEffect(r)
  <2>1. CASE r \notin rows
    BY <1>2, <1>7, <2>1 DEF RowEffect, RowKept
  <2>2. CASE r \in rows /\ seen[r] = "pending"
    <3>1. mr[r].status = "pending"
      BY <1>5, <1>6, <2>2
    <3>2. mr'[r] = Reserved(mr[r])
      BY <1>2, <2>2 DEF Reserved
    <3>3. RowReserved(r)
      BY <1>1, <1>3, <1>4, <1>5, <1>7, <2>2, <3>1, <3>2, ReservedSound DEF RowReserved, o
    <3> QED BY <1>7, <3>1, <3>2, <3>3, ReservedSound DEF RowEffect
  <2>3. CASE r \in rows /\ seen[r] # "pending"
    <3>1. seen[r] = "reserved"
      BY <1>4, <2>3 DEF RowMayMove
    <3>2. mr[r].status \in {"reserved", "consumed", "released"}
      BY <1>5, <1>6, <1>7, <2>3, <3>1 DEF Row, RowStatus
    <3>3. mr[r].reserved = mr[r].required
      BY <1>7, <3>2 DEF RowSound
    <3>4. mr'[r] = [mr[r] EXCEPT !.reserved = mr[r].required, !.status = mr[r].status]
      BY <1>2, <2>3
    <3>5. mr'[r] = mr[r]
      BY <1>7, <3>3, <3>4 DEF Row
    <3> QED BY <1>7, <3>5 DEF RowEffect, RowKept
  <2> QED BY <2>1, <2>2, <2>3
<1>9. mr' \in [Reservation -> Row]
  <2>1. DOMAIN mr' = Reservation /\ mr' = [r \in Reservation |-> mr'[r]]
    BY <1>2
  <2> QED BY <1>8, <2>1 DEF RowEffect
<1> QED BY <1>8, <1>9 DEF RowsEffect
(* A use that commits changes its own row only, and takes what fits.         *)
LEMMA RowsCounted ==
  ASSUME Inv, NEW s \in Slot, CommitUse(s) \/ CommitUseRaced(s)
  PROVE  RowsEffect
<1> DEFINE u == job[s].use
<1>1. /\ job[s].at = "holding" /\ job'[s] = Idle
      /\ ValidQuantity(u.type, u.quantity) /\ Count(u)
  BY DEF CommitUse, CommitUseRaced, End, Inv, TypeOK
<1>2. u \in Use /\ u.row \in Reservation /\ u.quantity \in Nat
  BY <1>1, JobFields DEF Inv
<1>3. 0 < u.quantity /\ u.quantity <= Remaining(mr[u.row])
  BY <1>1, <1>2, SMT DEF ValidQuantity, Inv, ReadsStillTrue
<1>4. \A r \in Reservation : mr[r] \in Row /\ RowSound(mr[r])
  BY DEF Inv, TypeOK, ReservationSound
<1>5. mr' = [mr EXCEPT ![u.row] = Counted(mr[u.row], u)]
  BY <1>1 DEF Count
<1> HIDE DEF u
<1>6. /\ Counted(mr[u.row], u) \in Row /\ RowSound(Counted(mr[u.row], u))
      /\ Counted(mr[u.row], u).status \notin {"none", "pending"}
  BY <1>2, <1>3, <1>4, CountedSound
<1>7. mr' \in [Reservation -> Row] /\ mr'[u.row] = Counted(mr[u.row], u)
  BY <1>2, <1>5, <1>6 DEF Inv, TypeOK
<1>8. 0 < Remaining(mr[u.row]) /\ mr[u.row].status = "reserved"
  <2>1. 0 < Remaining(mr[u.row])
    BY <1>2, <1>3, <1>4, RemainingType, SMT
  <2> QED BY <1>2, <1>4, <2>1, OnlyReservedRemains, RemainingType, SMT
<1>9. ASSUME NEW r \in Reservation PROVE RowEffect(r)
  <2>1. CASE r = u.row
    <3>1. RowCounted(r)
      BY <1>1, <1>6, <1>7, <1>8, <2>1 DEF RowCounted, u
    <3> QED BY <1>6, <1>7, <2>1, <3>1 DEF RowEffect
  <2>2. CASE r # u.row
    <3>1. mr'[r] = mr[r]
      BY <1>2, <1>5, <2>2 DEF Inv, TypeOK
    <3> QED BY <1>4, <3>1 DEF RowEffect, RowKept
  <2> QED BY <2>1, <2>2
<1> QED BY <1>7, <1>9 DEF RowsEffect

(* Cancelling empties every row of the order that is still open.             *)
LEMMA RowsReleased ==
  ASSUME Inv, NEW o \in ProductionOrder, CancelProduction(o)
  PROVE  /\ RowsEffect
         /\ \A r \in Reservation : OrderOf[r] = o => Remaining(mr'[r]) = 0
<1> DEFINE rows == {r \in Rows(o) : Open(mr[r])}
<1>1. mr' = [r \in Reservation |-> IF r \in rows THEN Released(mr[r]) ELSE mr[r]]
  BY DEF CancelProduction, OpenRows
<1>2. ~Locked(o) /\ \A r \in Rows(o) : ~RowLocked(r)
  BY DEF CancelProduction, CancelAllowed
<1>3. \A r \in Reservation : mr[r] \in Row /\ RowSound(mr[r])
  BY DEF Inv, TypeOK, ReservationSound
<1>4. ASSUME NEW r \in Reservation
      PROVE  RowEffect(r) /\ (OrderOf[r] = o => Remaining(mr'[r]) = 0)
  <2>1. CASE r \in rows
    <3>1. /\ mr'[r] = Released(mr[r]) /\ Open(mr[r])
          /\ OrderOf[r] = o /\ ~RowLocked(r)
      BY <1>1, <1>2, <2>1 DEF Rows
    <3>2. mr[r].status = "reserved"
      BY <1>3, <3>1, OnlyReservedRemains DEF Open
    <3>3. /\ Released(mr[r]) \in Row /\ RowSound(Released(mr[r]))
          /\ Remaining(Released(mr[r])) = 0 /\ Released(mr[r]).status = "released"
      BY <1>3, <3>1, ReleasedSound
    <3>4. RowReleased(r)
      BY <1>2, <3>1, <3>2, <3>3 DEF RowReleased
    <3> QED BY <3>1, <3>3, <3>4 DEF RowEffect
  <2>2. CASE r \notin rows
    <3>1. mr'[r] = mr[r]
      BY <1>1, <2>2
    <3>2. RowEffect(r)
      BY <1>3, <3>1 DEF RowEffect, RowKept
    <3>3. ASSUME OrderOf[r] = o PROVE ~(Remaining(mr[r]) > 0)
      <4> SUFFICES ASSUME Remaining(mr[r]) > 0 PROVE FALSE
        OBVIOUS
      <4>1. mr[r].status = "reserved"
        BY <1>3, OnlyReservedRemains
      <4> QED BY <4>1, <2>2, <3>3 DEF Rows, Open
    <3>4. OrderOf[r] = o => Remaining(mr[r]) = 0
      BY <1>3, <3>3, RemainingType, SMT DEF RowSound
    <3> QED BY <3>1, <3>2, <3>4
  <2> QED BY <2>1, <2>2
<1>5. mr' \in [Reservation -> Row]
  <2>1. mr' = [r \in Reservation |-> mr'[r]]
    BY <1>1
  <2> QED BY <1>4, <2>1 DEF RowEffect
<1> QED BY <1>4, <1>5 DEF RowsEffect

(* Every step has one of these effects on every row. *)
LEMMA RowsStep ==
  ASSUME Inv, [Next]_vars
  PROVE  RowsEffect
<1>1. CASE mr' = mr
  BY <1>1, RowsKept
<1>2. ASSUME NEW o \in ProductionOrder, OrderStep(o), mr' # mr PROVE RowsEffect
  <2>1. CASE \E wants \in Requirements(o) : PlanProduction(o, wants)
    BY <2>1, RowsPlanned DEF PlanProduction
  <2>2. CASE CancelProduction(o)
    BY <2>2, RowsReleased
  <2> QED
    BY <1>2, <2>1, <2>2
    DEF OrderStep, CreateProductionOrder, StartProduction, ResumeProduction,
        PauseProduction, CompleteProduction, CompleteQualityCheck, Transition
<1>3. ASSUME NEW s \in Slot, BeginStep(s) PROVE mr' = mr
  BY <1>3 DEF BeginStep, PreloadForPlan, ReadForReserve, ReadForQualityCheck, AdmitUse
<1>4. ASSUME NEW s \in Slot, SlotStep(s), mr' # mr PROVE RowsEffect
  <2>1. CASE \E wants \in Requirements(job[s].order) : PlanPreloaded(s, wants)
    <3>1. job[s].order \in ProductionOrder
      BY <2>1, JobFields DEF PlanPreloaded, Inv
    <3> QED BY <2>1, <3>1, RowsPlanned DEF PlanPreloaded
  <2>2. CASE ReserveMaterials(s)
    BY <2>2, RowsReserved
  <2>3. CASE CommitUse(s) \/ CommitUseRaced(s)
    BY <2>3, RowsCounted
  <2> QED
    BY <1>4, <2>1, <2>2, <2>3
    DEF SlotStep, StartQualityCheck, ReplayUse, HoldRow, Abort
<1>5. ASSUME StockStep PROVE mr' = mr
  BY <1>5 DEF StockStep, StaffMovement, SetActive
<1> QED
  BY <1>1, <1>2, <1>3, <1>4, <1>5 DEF Next, vars
-----------------------------------------------------------------------------
(* What a step does to the requests in flight: at most one changes.          *)
JobEnds(t) == job' = [job EXCEPT ![t] = Idle]

JobBeginsUnlocked(t) ==
  \E j \in Planning \cup Using :
    /\ j.at \in {"planning", "admitted"} /\ (j.at = "planning" => PlanPreloads)
    /\ job' = [job EXCEPT ![t] = j]

JobReads(t) ==
  /\ UNCHANGED <<status, worker, mr>>
  /\ \/ \E o \in ProductionOrder :
          /\ ~Locked(o) /\ status[o] = "planned" /\ Rows(o) # {}
          /\ job' = [job EXCEPT ![t] = [at |-> "reserving", order |-> o,
                                       seen |-> [r \in Reservation |-> mr[r].status]]]
     \/ \E o \in ProductionOrder, u \in User :
          /\ ~Locked(o) /\ status[o] = "in_production" /\ worker[o] # u
          /\ \A r \in Rows(o) : Remaining(mr[r]) <= 0
          /\ job' = [job EXCEPT ![t] = [at |-> "inspecting", order |-> o, by |-> u]]
     \/ \E u \in Use :
          /\ ~RowLocked(u.row) /\ u.quantity <= Remaining(mr[u.row])
          /\ job' = [job EXCEPT ![t] = [at |-> "holding", use |-> u]]

JobsEffect ==
  job' = job \/ \E t \in Slot : JobEnds(t) \/ JobBeginsUnlocked(t) \/ JobReads(t)

(* A step starts, advances or ends at most one request, in one of these ways. *)
LEMMA JobsStep ==
  ASSUME Inv, [Next]_vars
  PROVE  JobsEffect
<1>1. ASSUME NEW o \in ProductionOrder, OrderStep(o) PROVE job' = job
  BY <1>1
  DEF OrderStep, CreateProductionOrder, PlanProduction, CancelProduction,
      StartProduction, ResumeProduction, PauseProduction, CompleteProduction,
      CompleteQualityCheck, Transition
<1>2. ASSUME NEW s \in Slot, BeginStep(s) PROVE JobsEffect
  <2>1. ASSUME NEW o \in ProductionOrder, PreloadForPlan(s, o) PROVE JobBeginsUnlocked(s)
    <3>1. [at |-> "planning", order |-> o] \in Planning \cup Using
      BY DEF Planning
    <3> QED BY <2>1, <3>1 DEF PreloadForPlan, Begin, JobBeginsUnlocked
  <2>2. ASSUME NEW o \in ProductionOrder, ReadForReserve(s, o) PROVE JobReads(s)
    BY <2>2 DEF ReadForReserve, Begin, JobReads, orderVars
  <2>3. ASSUME NEW o \in ProductionOrder, NEW u \in User, ReadForQualityCheck(s, o, u)
        PROVE  JobReads(s)
    BY <2>3 DEF ReadForQualityCheck, MayInspect, Begin, JobReads, orderVars
  <2>4. ASSUME NEW u \in Use, AdmitUse(s, u) PROVE JobBeginsUnlocked(s)
    <3>1. [at |-> "admitted", use |-> u] \in Planning \cup Using
      BY DEF Using
    <3> QED BY <2>4, <3>1 DEF AdmitUse, Begin, JobBeginsUnlocked
  <2> QED BY <1>2, <2>1, <2>2, <2>3, <2>4 DEF BeginStep, JobsEffect
<1>3. ASSUME NEW s \in Slot, SlotStep(s) PROVE JobsEffect
  <2>1. CASE HoldRow(s)
    <3>1. job[s].use \in Use
      BY <2>1, JobFields DEF HoldRow, Inv
    <3>2. JobReads(s)
      BY <2>1, <3>1 DEF HoldRow, JobReads, orderVars
    <3> QED BY <3>2 DEF JobsEffect
  <2>2. CASE ~HoldRow(s)
    <3>1. JobEnds(s)
      BY <1>3, <2>2
      DEF SlotStep, PlanPreloaded, ReserveMaterials, StartQualityCheck, ReplayUse,
          CommitUse, CommitUseRaced, Abort, End, JobEnds
    <3> QED BY <3>1 DEF JobsEffect
  <2> QED BY <2>1, <2>2
<1>4. ASSUME StockStep PROVE job' = job
  BY <1>4 DEF StockStep, StaffMovement, SetActive
<1>5. CASE UNCHANGED vars
  BY <1>5 DEF vars, JobsEffect
<1> QED
  BY <1>1, <1>2, <1>3, <1>4, <1>5 DEF Next, JobsEffect

(* An order changes its status or its worker only while nobody holds its     *)
(* lock, or in the last step of the request that does.                       *)
OrderFree(o) ==
  \/ ~Locked(o)
  \/ \E s \in Slot : /\ job[s].at \in {"reserving", "inspecting"}
                     /\ job[s].order = o /\ job'[s] = Idle

(* Status and worker of an order change only as OrderFree says.              *)
LEMMA OrdersStep ==
  ASSUME Inv, [Next]_vars, NEW o \in ProductionOrder
  PROVE  OrderFree(o) \/ (status'[o] = status[o] /\ worker'[o] = worker[o])
<1>1. ASSUME NEW p \in ProductionOrder, OrderStep(p), p # o
      PROVE  status'[o] = status[o] /\ worker'[o] = worker[o]
  BY <1>1
  DEF OrderStep, CreateProductionOrder, PlanProduction, Plan, CancelProduction,
      StartProduction, ResumeProduction, PauseProduction, CompleteProduction,
      CompleteQualityCheck, Transition, AssignWorker, Inv, TypeOK
<1>2. ASSUME OrderStep(o), Locked(o)
      PROVE  status[o] = "absent"
  BY <1>2
  DEF OrderStep, CreateProductionOrder, PlanProduction, CancelProduction, CancelAllowed,
      StartProduction, ResumeProduction, PauseProduction, CompleteProduction,
      CompleteQualityCheck, Transition
<1>3. Locked(o) => status[o] # "absent"
  BY DEF Locked, Inv, ReadsStillTrue
<1>4. ASSUME NEW s \in Slot, BeginStep(s)
      PROVE  status' = status /\ worker' = worker
  BY <1>4
  DEF BeginStep, PreloadForPlan, ReadForReserve, ReadForQualityCheck, AdmitUse, orderVars
<1>5. ASSUME NEW s \in Slot, SlotStep(s)
      PROVE  OrderFree(o) \/ (status'[o] = status[o] /\ worker'[o] = worker[o])
  <2>1. CASE \E wants \in Requirements(job[s].order) : PlanPreloaded(s, wants)
    BY <2>1 DEF PlanPreloaded, Plan, OrderFree, Inv, TypeOK
  <2>2. CASE ReserveMaterials(s) \/ StartQualityCheck(s)
    <3>1. job[s].at \in {"reserving", "inspecting"} /\ job'[s] = Idle
      BY <2>2 DEF ReserveMaterials, StartQualityCheck, End, Inv, TypeOK
    <3>2. o # job[s].order => status'[o] = status[o] /\ worker'[o] = worker[o]
      BY <2>2 DEF ReserveMaterials, StartQualityCheck, Inv, TypeOK
    <3> QED BY <3>1, <3>2 DEF OrderFree
  <2> QED
    BY <1>5, <2>1, <2>2
    DEF SlotStep, ReplayUse, HoldRow, CommitUse, CommitUseRaced, Abort, orderVars
<1>6. ASSUME StockStep PROVE status' = status /\ worker' = worker
  BY <1>6 DEF StockStep, StaffMovement, SetActive, orderVars
<1> QED
  BY <1>1, <1>2, <1>3, <1>4, <1>5, <1>6 DEF Next, vars, OrderFree
-----------------------------------------------------------------------------
(* Every step keeps the types of the requests in flight. *)
LEMMA JobsTyped ==
  ASSUME Inv, [Next]_vars
  PROVE  job' \in [Slot -> Job]
<1>1. job \in [Slot -> Job] /\ Idle \in Job
  BY DEF Inv, TypeOK, Job
<1>2. ASSUME NEW t \in Slot, JobBeginsUnlocked(t) PROVE job' \in [Slot -> Job]
  BY <1>1, <1>2 DEF JobBeginsUnlocked, Job
<1>3. ASSUME NEW t \in Slot, JobReads(t) PROVE job' \in [Slot -> Job]
  <2>1. [r \in Reservation |-> mr[r].status] \in [Reservation -> RowStatus]
    BY DEF Inv, TypeOK, Row
  <2>2. \A o \in ProductionOrder :
          [at |-> "reserving", order |-> o,
           seen |-> [r \in Reservation |-> mr[r].status]] \in Job
    BY <2>1 DEF Job, Reserving
  <2>3. \A o \in ProductionOrder, u \in User :
          [at |-> "inspecting", order |-> o, by |-> u] \in Job
    BY DEF Job, Inspecting
  <2>4. \A u \in Use : [at |-> "holding", use |-> u] \in Job
    BY DEF Job, Using
  <2> QED BY <1>1, <1>3, <2>2, <2>3, <2>4 DEF JobReads
<1> QED BY <1>1, <1>2, <1>3, JobsStep DEF JobsEffect, JobEnds

(* Every step keeps the types of the orders.                                 *)
LEMMA OrdersTyped ==
  ASSUME Inv, [Next]_vars
  PROVE  /\ status' \in [ProductionOrder -> Status]
         /\ worker' \in [ProductionOrder -> User \cup {Nobody}]
         /\ inspector' \in [ProductionOrder -> User \cup {Nobody}]
<1> DEFINE Goal == /\ status' \in [ProductionOrder -> Status]
                   /\ worker' \in [ProductionOrder -> User \cup {Nobody}]
                   /\ inspector' \in [ProductionOrder -> User \cup {Nobody}]
<1>1. TypeOK
  BY DEF Inv
<1>2. ASSUME NEW o \in ProductionOrder, OrderStep(o) PROVE Goal
  <2>1. CASE \E u \in User, b \in BOOLEAN : CompleteQualityCheck(o, u, b)
    BY <1>1, <2>1 DEF CompleteQualityCheck, Transition, TypeOK, Status
  <2>2. CASE \E u \in User : StartProduction(o, u) \/ ResumeProduction(o, u)
    BY <1>1, <2>2
    DEF StartProduction, ResumeProduction, Transition, AssignWorker, TypeOK, Status
  <2> QED
    BY <1>1, <1>2, <2>1, <2>2
    DEF OrderStep, CreateProductionOrder, PlanProduction, Plan, CancelProduction,
        PauseProduction, CompleteProduction, Transition, TypeOK, Status
<1>3. ASSUME NEW s \in Slot, BeginStep(s) PROVE Goal
  BY <1>1, <1>3
  DEF BeginStep, PreloadForPlan, ReadForReserve, ReadForQualityCheck, AdmitUse,
      orderVars, TypeOK
<1>4. ASSUME NEW s \in Slot, SlotStep(s) PROVE Goal
  <2>1. CASE StartQualityCheck(s)
    <3>1. job[s].by \in User
      BY <1>1, <2>1, JobFields DEF StartQualityCheck
    <3> QED BY <1>1, <2>1, <3>1 DEF StartQualityCheck, TypeOK, Status
  <2> QED
    BY <1>1, <1>4, <2>1
    DEF SlotStep, PlanPreloaded, Plan, ReserveMaterials, ReplayUse, HoldRow,
        CommitUse, CommitUseRaced, Abort, orderVars, TypeOK, Status
<1>5. ASSUME StockStep PROVE Goal
  BY <1>1, <1>5 DEF StockStep, StaffMovement, SetActive, orderVars, TypeOK
<1>6. CASE UNCHANGED vars
  BY <1>1, <1>6 DEF vars, TypeOK
<1> QED BY <1>2, <1>3, <1>4, <1>5, <1>6 DEF Next

(* Every step keeps the balances sound and the movements well-typed.         *)
LEMMA StockTyped ==
  ASSUME Inv, [Next]_vars
  PROVE  /\ level' \in [Material -> SoundLevel]
         /\ active' \in [Material -> BOOLEAN]
         /\ moved' \subseteq Movement
<1> DEFINE Goal == /\ level' \in [Material -> SoundLevel]
                   /\ active' \in [Material -> BOOLEAN]
                   /\ moved' \subseteq Movement
<1>1. /\ level \in [Material -> SoundLevel] /\ active \in [Material -> BOOLEAN]
      /\ moved \subseteq Movement
  BY DEF Inv, TypeOK
<1>2. ASSUME NEW o \in ProductionOrder, OrderStep(o) PROVE Goal
  <2>1. CASE CancelProduction(o)
    BY <1>1, <2>1 DEF CancelProduction, CancelAllowed, MovedFor
  <2> QED
    BY <1>1, <1>2, <2>1
    DEF OrderStep, CreateProductionOrder, PlanProduction, Plan, StartProduction,
        ResumeProduction, PauseProduction, CompleteProduction, CompleteQualityCheck,
        Transition, stockVars
<1>3. ASSUME NEW s \in Slot, BeginStep(s) PROVE Goal
  BY <1>1, <1>3
  DEF BeginStep, PreloadForPlan, ReadForReserve, ReadForQualityCheck, AdmitUse, stockVars
<1>4. ASSUME NEW s \in Slot, SlotStep(s) PROVE Goal
  <2>1. CASE ReserveMaterials(s)
    BY <1>1, <2>1 DEF ReserveMaterials, MovedFor
  <2>2. CASE CommitUse(s)
    <3>1. job[s].use \in Use
      BY <2>2, JobFields DEF CommitUse, Inv
    <3>2. MovementOf(job[s].use) \in Movement
      BY <3>1, ConstantsAssumption DEF MovementOf, Movement
    <3> QED BY <1>1, <2>2, <3>2 DEF CommitUse
  <2> QED
    BY <1>1, <1>4, <2>1, <2>2
    DEF SlotStep, PlanPreloaded, Plan, StartQualityCheck, ReplayUse, HoldRow,
        CommitUseRaced, Abort, stockVars
<1>5. ASSUME StockStep PROVE Goal
  BY <1>1, <1>5 DEF StockStep, StaffMovement, SetActive, stockVars
<1>6. CASE UNCHANGED vars
  BY <1>1, <1>6 DEF vars
<1> QED BY <1>2, <1>3, <1>4, <1>5, <1>6 DEF Next

(* Every step keeps the type invariant.                                      *)
LEMMA TypeStep ==
  ASSUME Inv, [Next]_vars
  PROVE  TypeOK'
  BY JobsTyped, OrdersTyped, StockTyped, RowsStep DEF TypeOK, RowsEffect

-----------------------------------------------------------------------------
(* The locks.                                                                *)
LEMMA LocksStep ==
  ASSUME Inv, [Next]_vars
  PROVE  LocksExclusive'
<1>1. LocksExclusive /\ job \in [Slot -> Job]
  BY DEF Inv, TypeOK
<1> SUFFICES ASSUME NEW s \in Slot, NEW t \in Slot, s # t
             PROVE
        /\ /\ job'[s].at \in {"reserving", "inspecting"}
           /\ job'[t].at \in {"reserving", "inspecting"}
           => job'[s].order # job'[t].order
        /\ job'[s].at = "holding" /\ job'[t].at = "holding"
             => job'[s].use.row # job'[t].use.row
  BY DEF LocksExclusive
<1>2. CASE job' = job
  BY <1>1, <1>2 DEF LocksExclusive
<1>3. ASSUME NEW v \in Slot, JobEnds(v) \/ JobBeginsUnlocked(v)
      PROVE  /\ job'[v].at \in {"idle", "planning", "admitted"}
             /\ \A w \in Slot : w # v => job'[w] = job[w]
  BY <1>1, <1>3 DEF JobEnds, JobBeginsUnlocked, Idle
<1>4. ASSUME NEW v \in Slot, JobReads(v)
      PROVE  /\ \A w \in Slot : w # v => job'[w] = job[w]
             /\ job'[v].at \in {"reserving", "inspecting"} => ~Locked(job'[v].order)
             /\ job'[v].at = "holding" => ~RowLocked(job'[v].use.row)
             /\ job'[v].at \in {"reserving", "inspecting", "holding"}
  BY <1>1, <1>4 DEF JobReads
<1>5. ASSUME NEW v \in Slot, JobReads(v), NEW w \in Slot, w # v
      PROVE  /\ /\ job'[w].at \in {"reserving", "inspecting"}
                /\ job'[v].at \in {"reserving", "inspecting"}
                => job'[w].order # job'[v].order
             /\ job'[w].at = "holding" /\ job'[v].at = "holding"
                  => job'[w].use.row # job'[v].use.row
  <2>1. job'[w] = job[w]
    BY <1>4, <1>5
  <2>2. job[w].at \in {"reserving", "inspecting"} => Locked(job[w].order)
    BY DEF Locked
  <2>3. job[w].at = "holding" => RowLocked(job[w].use.row)
    BY DEF RowLocked
  <2> QED BY <1>4, <1>5, <2>1, <2>2, <2>3
<1>6. ASSUME NEW v \in Slot, s # v, t # v, job'[s] = job[s], job'[t] = job[t]
      PROVE  /\ /\ job'[s].at \in {"reserving", "inspecting"}
                /\ job'[t].at \in {"reserving", "inspecting"}
                => job'[s].order # job'[t].order
             /\ job'[s].at = "holding" /\ job'[t].at = "holding"
                  => job'[s].use.row # job'[t].use.row
  BY <1>1, <1>6 DEF LocksExclusive
<1>7. ASSUME NEW v \in Slot, JobReads(v)
      PROVE  /\ /\ job'[s].at \in {"reserving", "inspecting"}
                /\ job'[t].at \in {"reserving", "inspecting"}
                => job'[s].order # job'[t].order
             /\ job'[s].at = "holding" /\ job'[t].at = "holding"
                  => job'[s].use.row # job'[t].use.row
  <2>1. CASE v = s
    BY <1>5, <1>7, <2>1
  <2>2. CASE v = t
    BY <1>5, <1>7, <2>2
  <2>3. CASE v # s /\ v # t
    BY <1>4, <1>6, <1>7, <2>3
  <2> QED BY <2>1, <2>2, <2>3
<1>8. ASSUME NEW v \in Slot, JobEnds(v) \/ JobBeginsUnlocked(v)
      PROVE  /\ /\ job'[s].at \in {"reserving", "inspecting"}
                /\ job'[t].at \in {"reserving", "inspecting"}
                => job'[s].order # job'[t].order
             /\ job'[s].at = "holding" /\ job'[t].at = "holding"
                  => job'[s].use.row # job'[t].use.row
  <2>1. CASE v \in {s, t}
    BY <1>3, <1>8, <2>1
  <2>2. CASE v \notin {s, t}
    BY <1>3, <1>6, <1>8, <2>2
  <2> QED BY <2>1, <2>2
<1> QED
  BY <1>2, <1>7, <1>8, JobsStep DEF JobsEffect

(* What a request has read stays true until it ends.                         *)
LEMMA ReadsStep ==
  ASSUME Inv, [Next]_vars
  PROVE  ReadsStillTrue'
<1>1. /\ ReadsStillTrue /\ LocksExclusive /\ TypeOK
      /\ \A r \in Reservation : mr[r] \in Row /\ RowSound(mr[r])
      /\ \A r \in Reservation : RowEffect(r)
  BY RowsStep DEF Inv, RowsEffect, TypeOK, ReservationSound
<1> SUFFICES ASSUME NEW s \in Slot
             PROVE
    /\ job'[s].at = "reserving" =>
         /\ status'[job'[s].order] = "planned"
         /\ \A r \in Reservation :
              /\ OrderOf[r] = job'[s].order
              /\ {mr'[r].status, job'[s].seen[r]} \cap {"none", "pending"} # {}
              => job'[s].seen[r] = mr'[r].status
    /\ job'[s].at = "inspecting" =>
         /\ status'[job'[s].order] = "in_production"
         /\ worker'[job'[s].order] # job'[s].by
         /\ \A r \in Reservation :
              OrderOf[r] = job'[s].order => Remaining(mr'[r]) = 0
    /\ job'[s].at = "holding" => job'[s].use.quantity <= Remaining(mr'[job'[s].use.row])
  BY DEF ReadsStillTrue
<1>2. CASE job'[s] = job[s]
  <2>1. ASSUME job[s].at \in {"reserving", "inspecting"}
        PROVE  /\ status'[job[s].order] = status[job[s].order]
               /\ worker'[job[s].order] = worker[job[s].order]
    <3>1. job[s].order \in ProductionOrder /\ Locked(job[s].order)
      BY <1>1, <2>1, JobFields DEF Locked
    <3>2. ~OrderFree(job[s].order)
      <4>1. ASSUME NEW t \in Slot, job[t].at \in {"reserving", "inspecting"},
                   job[t].order = job[s].order, job'[t] = Idle
            PROVE  FALSE
        <5>1. t = s
          BY <1>1, <2>1, <4>1 DEF LocksExclusive
        <5> QED BY <1>2, <2>1, <4>1, <5>1 DEF Idle
      <4> QED BY <3>1, <4>1 DEF OrderFree
    <3> QED BY <3>1, <3>2, OrdersStep
  <2>2. ASSUME job[s].at \in {"reserving", "inspecting"},
               NEW r \in Reservation, OrderOf[r] = job[s].order
        PROVE  RowKept(r) \/ RowCounted(r)
    <3>1. Locked(OrderOf[r])
      BY <2>2 DEF Locked
    <3>2. ~RowReserved(r)
      <4>1. ASSUME NEW t \in Slot, job[t].at = "reserving",
                   job[t].order = OrderOf[r], job'[t] = Idle
            PROVE  FALSE
        <5>1. t = s
          BY <1>1, <2>2, <4>1 DEF LocksExclusive
        <5> QED BY <1>2, <2>2, <4>1, <5>1 DEF Idle
      <4> QED BY <4>1 DEF RowReserved
    <3> QED BY <1>1, <3>1, <3>2 DEF RowEffect, RowPlanned, RowReleased
  <2>3. CASE job[s].at = "reserving"
    BY <1>1, <1>2, <2>1, <2>2, <2>3 DEF ReadsStillTrue, RowKept, RowCounted
  <2>4. CASE job[s].at = "inspecting"
    <3>1. ASSUME NEW r \in Reservation, OrderOf[r] = job[s].order
          PROVE  Remaining(mr'[r]) = 0
      <4>1. Remaining(mr[r]) = 0
        BY <1>1, <2>4, <3>1 DEF ReadsStillTrue
      <4>2. ~RowCounted(r)
        BY <4>1, SMT DEF RowCounted
      <4> QED BY <2>2, <2>4, <3>1, <4>1, <4>2 DEF RowKept
    <3> QED BY <1>1, <1>2, <2>1, <2>4, <3>1 DEF ReadsStillTrue
  <2>5. CASE job[s].at = "holding"
    <3> DEFINE r == job[s].use.row
    <3>1. r \in Reservation /\ RowLocked(r)
      BY <1>1, <2>5, JobFields DEF RowLocked
    <3>2. ~RowCounted(r)
      <4>1. ASSUME NEW t \in Slot, job[t].at = "holding", job[t].use.row = r, job'[t] = Idle
            PROVE  FALSE
        <5>1. t = s
          BY <1>1, <2>5, <4>1 DEF LocksExclusive
        <5> QED BY <1>2, <2>5, <4>1, <5>1 DEF Idle
      <4> QED BY <4>1 DEF RowCounted
    <3>3. RowKept(r) \/ RowPlanned(r)
      BY <1>1, <3>1, <3>2 DEF RowEffect, RowReserved, RowReleased
    <3>4. Remaining(mr[r]) <= Remaining(mr'[r])
      <4>1. CASE RowKept(r)
        BY <1>1, <3>1, <4>1, RemainingType, SMT DEF RowKept
      <4>2. CASE RowPlanned(r)
        <5>1. ~(Remaining(mr[r]) > 0)
          BY <1>1, <3>1, <4>2, OnlyReservedRemains DEF RowPlanned
        <5> QED BY <1>1, <3>1, <4>2, <5>1, RemainingType, SMT DEF RowPlanned
      <4> QED BY <3>3, <4>1, <4>2
    <3>5. job[s].use.quantity <= Remaining(mr[r]) /\ job[s].use.quantity \in Nat
      BY <1>1, <2>5, JobFields DEF ReadsStillTrue
    <3>6. Remaining(mr[r]) \in Int /\ Remaining(mr'[r]) \in Int
      BY <1>1, <3>1, RemainingType DEF RowEffect
    <3>7. job[s].use.quantity <= Remaining(mr'[r])
      BY <3>4, <3>5, <3>6, SMT
    <3> QED BY <1>2, <2>5, <3>7
  <2> QED BY <1>2, <2>3, <2>4, <2>5
<1>3. CASE JobReads(s)
  <2>1. job \in [Slot -> Job] /\ status' = status /\ worker' = worker /\ mr' = mr
    BY <1>1, <1>3 DEF JobReads, TypeOK
  <2>2. CASE job'[s].at = "reserving"
    <3>1. PICK o \in ProductionOrder :
            /\ status[o] = "planned"
            /\ job'[s] = [at |-> "reserving", order |-> o,
                          seen |-> [r \in Reservation |-> mr[r].status]]
      BY <1>3, <2>1, <2>2 DEF JobReads
    <3> QED BY <2>1, <3>1
  <2>3. CASE job'[s].at = "inspecting"
    <3>1. PICK o \in ProductionOrder, u \in User :
            /\ status[o] = "in_production" /\ worker[o] # u
            /\ \A r \in Rows(o) : Remaining(mr[r]) <= 0
            /\ job'[s] = [at |-> "inspecting", order |-> o, by |-> u]
      BY <1>3, <2>1, <2>3 DEF JobReads
    <3>2. ASSUME NEW r \in Reservation, OrderOf[r] = o PROVE Remaining(mr[r]) = 0
      <4>1. ~(Remaining(mr[r]) > 0)
        <5> SUFFICES ASSUME Remaining(mr[r]) > 0 PROVE FALSE
          OBVIOUS
        <5>1. mr[r].status = "reserved"
          BY <1>1, OnlyReservedRemains
        <5>2. Remaining(mr[r]) <= 0
          BY <3>1, <3>2, <5>1 DEF Rows
        <5> QED BY <1>1, <5>2, RemainingType, SMT
      <4> QED BY <1>1, <4>1, RemainingType, SMT DEF RowSound
    <3> QED BY <2>1, <3>1, <3>2
  <2>4. CASE job'[s].at = "holding"
    BY <1>3, <2>1, <2>4 DEF JobReads
  <2> QED BY <2>2, <2>3, <2>4
<1>4. CASE JobEnds(s) \/ JobBeginsUnlocked(s)
  <2>1. job'[s].at \in {"idle", "planning", "admitted"}
    BY <1>1, <1>4 DEF JobEnds, JobBeginsUnlocked, Idle, TypeOK
  <2> QED BY <2>1
<1>5. ASSUME NEW t \in Slot, JobEnds(t) \/ JobBeginsUnlocked(t) \/ JobReads(t), s # t
      PROVE  job'[s] = job[s]
  BY <1>1, <1>5 DEF JobEnds, JobBeginsUnlocked, JobReads, TypeOK
<1>6. job' = job => job'[s] = job[s]
  OBVIOUS
<1> QED
  BY <1>2, <1>3, <1>4, <1>5, <1>6, JobsStep DEF JobsEffect
-----------------------------------------------------------------------------
(* An order becomes finished with nothing left: by starting its quality      *)
(* check, or by being cancelled.                                             *)
LEMMA BecomingFinished ==
  ASSUME Inv, [Next]_vars, NEW o \in ProductionOrder,
         status[o] \notin Finished, status'[o] \in Finished
  PROVE  \A r \in Reservation : OrderOf[r] = o => Remaining(mr'[r]) = 0
<1>1. TypeOK /\ ReadsStillTrue
  BY DEF Inv
<1>2. ASSUME NEW p \in ProductionOrder, OrderStep(p) PROVE CancelProduction(o)
  <2>1. CASE CancelProduction(p)
    BY <1>1, <2>1 DEF CancelProduction, TypeOK
  <2>2. CASE \E u \in User : StartProduction(p, u) \/ ResumeProduction(p, u)
    BY <1>1, <2>2
    DEF StartProduction, ResumeProduction, Transition, TypeOK, Finished, Terminal
  <2>3. CASE \E u \in User, b \in BOOLEAN : CompleteQualityCheck(p, u, b)
    BY <1>1, <2>3 DEF CompleteQualityCheck, Transition, TypeOK, Finished, Terminal
  <2> QED
    BY <1>1, <1>2, <2>1, <2>2, <2>3
    DEF OrderStep, CreateProductionOrder, PlanProduction, Plan, PauseProduction,
        CompleteProduction, Transition, TypeOK, Finished, Terminal
<1>3. ASSUME NEW s \in Slot, BeginStep(s) PROVE FALSE
  BY <1>3
  DEF BeginStep, PreloadForPlan, ReadForReserve, ReadForQualityCheck, AdmitUse, orderVars
<1>4. ASSUME NEW s \in Slot, SlotStep(s)
      PROVE  StartQualityCheck(s) /\ job[s].order = o
  <2>1. CASE StartQualityCheck(s)
    BY <1>1, <2>1 DEF StartQualityCheck, TypeOK
  <2>2. CASE \E wants \in Requirements(job[s].order) : PlanPreloaded(s, wants)
    BY <1>1, <2>2 DEF PlanPreloaded, Plan, TypeOK, Finished, Terminal
  <2>3. CASE ReserveMaterials(s)
    <3>1. status' = [status EXCEPT ![job[s].order] = "materials_reserved"]
      BY <2>3 DEF ReserveMaterials
    <3> QED BY <1>1, <3>1 DEF TypeOK, Finished, Terminal
  <2>4. CASE \/ ReplayUse(s) \/ HoldRow(s) \/ CommitUse(s)
             \/ CommitUseRaced(s) \/ Abort(s)
    <3>1. status' = status
      BY <2>4 DEF ReplayUse, HoldRow, CommitUse, CommitUseRaced, Abort, orderVars
    <3> QED BY <3>1
  <2> QED
    BY <1>4, <2>1, <2>2, <2>3, <2>4 DEF SlotStep
<1>5. ASSUME StockStep PROVE FALSE
  BY <1>5 DEF StockStep, StaffMovement, SetActive, orderVars
<1>6. CASE CancelProduction(o)
  BY <1>6, RowsReleased
<1>7. ASSUME NEW s \in Slot, StartQualityCheck(s), job[s].order = o
      PROVE  \A r \in Reservation : OrderOf[r] = o => Remaining(mr'[r]) = 0
  BY <1>1, <1>7 DEF StartQualityCheck, ReadsStillTrue
<1>8. ~UNCHANGED vars
  BY DEF vars
<1> QED BY <1>2, <1>3, <1>4, <1>5, <1>6, <1>7, <1>8 DEF Next

(* No step leaves material with a finished order.                            *)
LEMMA FinishedStep ==
  ASSUME Inv, [Next]_vars
  PROVE  FinishedOrdersHoldNothing'
<1> SUFFICES ASSUME NEW r \in Reservation, status'[OrderOf[r]] \in Finished
             PROVE  Remaining(mr'[r]) = 0
  BY DEF FinishedOrdersHoldNothing
<1>1. OrderOf[r] \in ProductionOrder /\ RowEffect(r)
  BY ConstantsAssumption, RowsStep DEF RowsEffect
<1>2. CASE status[OrderOf[r]] \notin Finished
  BY <1>1, <1>2, BecomingFinished
<1>3. CASE status[OrderOf[r]] \in Finished
  <2>1. Remaining(mr[r]) = 0
    BY <1>3 DEF Inv, FinishedOrdersHoldNothing
  <2>2. ~RowCounted(r)
    BY <2>1, SMT DEF RowCounted
  <2>3. ~RowReserved(r)
    BY DEF RowReserved, Finished, Terminal
  <2> QED BY <1>1, <2>1, <2>2, <2>3 DEF RowEffect, RowKept, RowPlanned, RowReleased
<1> QED BY <1>2, <1>3

-----------------------------------------------------------------------------
(* Segregation of duties, order by order.                                    *)
Segregated(st, w, i) ==
  /\ st \in {"in_production", "paused"} => w # Nobody
  /\ st \in {"quality_check", "ready", "completed"} => w # Nobody /\ i # Nobody /\ i # w

(* No step makes an inspector of the worker, or a worker of the inspector.   *)
LEMMA SegregationStep ==
  ASSUME Inv, [Next]_vars
  PROVE  SegregationOfDuties'
<1> SUFFICES ASSUME NEW o \in ProductionOrder
             PROVE  Segregated(status'[o], worker'[o], inspector'[o])
  BY DEF SegregationOfDuties, Segregated
<1> DEFINE Goal == Segregated(status'[o], worker'[o], inspector'[o])
<1>1. TypeOK /\ ReadsStillTrue /\ Segregated(status[o], worker[o], inspector[o])
  BY DEF Inv, SegregationOfDuties, Segregated
<1>2. ASSUME NEW p \in ProductionOrder, OrderStep(p) PROVE Goal
  <2>1. CASE p # o
    BY <1>1, <1>2, <2>1
    DEF OrderStep, CreateProductionOrder, PlanProduction, Plan, CancelProduction,
        StartProduction, ResumeProduction, PauseProduction, CompleteProduction,
        CompleteQualityCheck, Transition, AssignWorker, TypeOK
  <2>2. CASE \E u \in User : StartProduction(o, u) \/ ResumeProduction(o, u)
    BY <1>1, <2>2, ConstantsAssumption
    DEF StartProduction, ResumeProduction, Transition, AssignWorker, TypeOK, Segregated
  <2>3. CASE \E u \in User, b \in BOOLEAN : CompleteQualityCheck(o, u, b)
    <3>1. PICK u \in User, b \in BOOLEAN : CompleteQualityCheck(o, u, b)
      BY <2>3
    <3>2. /\ status[o] = "quality_check" /\ worker[o] # u
          /\ status'[o] \in {"ready", "in_production"}
          /\ worker'[o] = worker[o] /\ inspector'[o] = u
      BY <1>1, <3>1 DEF CompleteQualityCheck, Transition, MayInspect, TypeOK
    <3> QED BY <1>1, <3>2, ConstantsAssumption DEF Segregated
  <2>4. CASE CreateProductionOrder(o) \/ CancelProduction(o)
             \/ \E wants \in Requirements(o) : PlanProduction(o, wants)
    BY <1>1, <2>4
    DEF CreateProductionOrder, CancelProduction, PlanProduction, Plan, TypeOK, Segregated
  <2>5. CASE PauseProduction(o) \/ CompleteProduction(o)
    BY <1>1, <2>5
    DEF PauseProduction, CompleteProduction, Transition, TypeOK, Segregated
  <2> QED BY <1>2, <2>1, <2>2, <2>3, <2>4, <2>5 DEF OrderStep
<1>3. ASSUME NEW s \in Slot, BeginStep(s) PROVE Goal
  BY <1>1, <1>3
  DEF BeginStep, PreloadForPlan, ReadForReserve, ReadForQualityCheck, AdmitUse, orderVars
<1>4. ASSUME NEW s \in Slot, SlotStep(s) PROVE Goal
  <2>1. CASE StartQualityCheck(s)
    <3>1. /\ job[s].order \in ProductionOrder /\ job[s].by \in User
          /\ status[job[s].order] = "in_production"
          /\ worker[job[s].order] # job[s].by
      BY <1>1, <2>1, JobFields DEF StartQualityCheck, ReadsStillTrue
    <3>2. CASE job[s].order = o
      BY <1>1, <2>1, <3>1, <3>2, ConstantsAssumption
      DEF StartQualityCheck, TypeOK, Segregated
    <3>3. CASE job[s].order # o
      BY <1>1, <2>1, <3>1, <3>3 DEF StartQualityCheck, TypeOK
    <3> QED BY <3>2, <3>3
  <2> QED
    BY <1>1, <1>4, <2>1
    DEF SlotStep, PlanPreloaded, Plan, ReserveMaterials, ReplayUse, HoldRow,
        CommitUse, CommitUseRaced, Abort, orderVars, TypeOK, Segregated
<1>5. ASSUME StockStep PROVE Goal
  BY <1>1, <1>5 DEF StockStep, StaffMovement, SetActive, orderVars
<1>6. CASE UNCHANGED vars
  BY <1>1, <1>6 DEF vars
<1> QED BY <1>2, <1>3, <1>4, <1>5, <1>6 DEF Next

-----------------------------------------------------------------------------
(* The invariant holds at first and is kept by every step.                   *)
LEMMA InvInit == Init => Inv
<1> SUFFICES ASSUME Init PROVE Inv
  OBVIOUS
<1>1. /\ NoUse \in [UseType -> Nat] /\ NoUse["consume"] = 0
      /\ NoUse["production_waste"] = 0 /\ NoUse["return"] = 0 /\ NoUse["release"] = 0
  BY DEF NoUse, UseType
<1> DEFINE blank == [status |-> "none", required |-> 0, reserved |-> 0, used |-> NoUse]
<1>2. blank \in Row /\ Remaining(blank) = 0 /\ RowSound(blank)
  <2>1. blank \in Row
    BY <1>1 DEF Row, RowStatus
  <2>2. Remaining(blank) = 0
    BY <1>1, SMT DEF Remaining
  <2> QED BY <2>1, <2>2, SMT DEF RowSound
<1>3. \A r \in Reservation : mr[r] = blank
  BY DEF Init
<1> HIDE DEF blank
<1>4. TypeOK
  <2>1. mr \in [Reservation -> Row]
    BY <1>2, <1>3 DEF Init
  <2>2. \A s \in Slot : job[s] \in Job
    BY DEF Init, Job
  <2> QED BY <2>1, <2>2, ConstantsAssumption DEF Init, TypeOK, Status
<1>5. ReservationSound /\ FinishedOrdersHoldNothing
  BY <1>2, <1>3 DEF ReservationSound, FinishedOrdersHoldNothing
<1>6. LocksExclusive /\ ReadsStillTrue
  BY DEF Init, LocksExclusive, ReadsStillTrue, Idle
<1>7. SegregationOfDuties
  BY DEF Init, SegregationOfDuties
<1> QED BY <1>4, <1>5, <1>6, <1>7 DEF Inv

(* Inv is inductive: it is kept by every step.                               *)
LEMMA InvStep == Inv /\ [Next]_vars => Inv'
<1> SUFFICES ASSUME Inv, [Next]_vars PROVE Inv'
  OBVIOUS
<1>1. ReservationSound'
  BY RowsStep DEF RowsEffect, RowEffect, ReservationSound
<1> QED
  BY <1>1, TypeStep, LocksStep, ReadsStep, FinishedStep, SegregationStep DEF Inv

(* Inv holds in every reachable state.                                       *)
LEMMA Invariance == Spec => []Inv
  BY InvInit, InvStep, PTL DEF Spec

(* The tables stay well-typed: in particular no order operation, staff       *)
(* movement or retry takes a stock balance below zero or reserves more than  *)
(* there is on hand.                                                         *)
THEOREM TypeCorrect == Spec => []TypeOK
  BY Invariance, PTL DEF Inv

(* Reservation rows tell the truth about themselves, for any number of       *)
(* concurrent uses of one row.                                               *)
THEOREM ReservationsAreSound == Spec => []ReservationSound
  BY Invariance, PTL DEF Inv

(* The row locks exclude each other.                                         *)
THEOREM LocksAreExclusive == Spec => []LocksExclusive
  BY Invariance, PTL DEF Inv

(* What reserving, starting a quality check and using material have read     *)
(* under their lock holds until they commit.                                 *)
THEOREM ReadsStayTrue == Spec => []ReadsStillTrue
  BY Invariance, PTL DEF Inv

(* No finished order holds material, whatever is in flight when it finishes: *)
(* the uses that read its status before cannot take anything any more.       *)
THEOREM FinishedOrdersAreEmpty == Spec => []FinishedOrdersHoldNothing
  BY Invariance, PTL DEF Inv

(* The inspector of an order is never its worker.                            *)
THEOREM DutiesAreSegregated == Spec => []SegregationOfDuties
  BY Invariance, PTL DEF Inv
-----------------------------------------------------------------------------
(* As long as no plan is written over an order that has moved on, the service*)
(* keeps the promises of ProductionLifecycle.  Then a row stays pending until*)
(* its order is reserved, so that reserving leaves something held.           *)
Early == {"absent", "pending", "planned"}

(* A plan is in time if its order is not past planning when it is written.   *)
(* (Two plans of one order may both be: the second stutters.)                *)
PlansInTime ==
  \A o \in ProductionOrder : status'[o] = "planned" => status[o] \in {"pending", "planned"}

PlanInv ==
  /\ Inv
  /\ \A r \in Reservation :
       status[OrderOf[r]] \in Early => mr[r].status \in {"none", "pending"}
  /\ \A s \in Slot : job[s].at = "reserving" =>
       \E r \in Reservation : OrderOf[r] = job[s].order /\ mr[r].status # "none"

(* No order goes back to planning. *)
LEMMA EarlyStep ==
  ASSUME PlanInv, PlansInTime, [Next]_vars, NEW o \in ProductionOrder, status'[o] \in Early
  PROVE  status[o] \in Early
<1>1. TypeOK
  BY DEF PlanInv, Inv
<1>2. ASSUME NEW p \in ProductionOrder, OrderStep(p) PROVE status[o] \in Early
  BY <1>1, <1>2
  DEF OrderStep, CreateProductionOrder, PlanProduction, Plan, CancelProduction, CancelAllowed,
      StartProduction, ResumeProduction, PauseProduction, CompleteProduction,
      CompleteQualityCheck, Transition, TypeOK, Early
<1>3. ASSUME NEW s \in Slot, BeginStep(s) PROVE status' = status
  BY <1>3
  DEF BeginStep, PreloadForPlan, ReadForReserve, ReadForQualityCheck, AdmitUse, orderVars
<1>4. ASSUME NEW s \in Slot, SlotStep(s) PROVE status[o] \in Early
  <2>1. CASE StartQualityCheck(s)
    <3>1. status' = [status EXCEPT ![job[s].order] = "quality_check"]
      BY <2>1 DEF StartQualityCheck
    <3> QED BY <1>1, <3>1 DEF TypeOK, Early
  <2>2. CASE ReserveMaterials(s)
    <3>1. status' = [status EXCEPT ![job[s].order] = "materials_reserved"]
      BY <2>2 DEF ReserveMaterials
    <3> QED BY <1>1, <3>1 DEF TypeOK, Early
  <2>3. CASE \/ ReplayUse(s) \/ HoldRow(s) \/ CommitUse(s)
             \/ CommitUseRaced(s) \/ Abort(s)
    <3>1. status' = status
      BY <2>3 DEF ReplayUse, HoldRow, CommitUse, CommitUseRaced, Abort, orderVars
    <3> QED BY <3>1
  <2>4. CASE job[s].at = "planning" /\ \E wants \in Requirements(job[s].order) : PlanPreloaded(s, wants)
    <3>1. status' = [status EXCEPT ![job[s].order] = "planned"]
      BY <2>4 DEF PlanPreloaded, Plan
    <3>2. CASE o = job[s].order
      BY <1>1, <3>1, <3>2 DEF TypeOK, Early, PlansInTime
    <3>3. CASE o # job[s].order
      BY <1>1, <3>1, <3>3 DEF TypeOK
    <3> QED BY <3>2, <3>3
  <2> QED BY <1>4, <2>1, <2>2, <2>3, <2>4 DEF SlotStep
<1>5. ASSUME StockStep PROVE status' = status
  BY <1>5 DEF StockStep, StaffMovement, SetActive, orderVars
<1> QED BY <1>2, <1>3, <1>4, <1>5 DEF Next, vars

(* PlanInv is kept by every step that plans in time.                         *)
LEMMA PlanInvStep ==
  ASSUME PlansInTime, PlanInv, [Next]_vars
  PROVE  PlanInv'
<1>1. Inv /\ Inv' /\ TypeOK
  BY InvStep DEF PlanInv, Inv
<1>2. \A r \in Reservation : RowEffect(r) /\ OrderOf[r] \in ProductionOrder
  BY <1>1, RowsStep, ConstantsAssumption DEF RowsEffect
<1>3. ASSUME NEW s \in Slot
      PROVE  job'[s].at = "reserving" =>
               \E r \in Reservation : OrderOf[r] = job'[s].order /\ mr'[r].status # "none"
  <2>1. CASE job'[s] = job[s]
    <3>1. \A r \in Reservation : mr[r].status # "none" => mr'[r].status # "none"
      BY <1>2 DEF RowEffect, RowKept, RowPlanned, RowReserved, RowCounted, RowReleased
    <3> QED BY <2>1, <3>1 DEF PlanInv
  <2>2. CASE JobEnds(s) \/ JobBeginsUnlocked(s)
    BY <1>1, <2>2 DEF JobEnds, JobBeginsUnlocked, Idle, TypeOK
  <2>3. CASE JobReads(s)
    <3>1. mr' = mr
      BY <2>3 DEF JobReads
    <3>2. ASSUME job'[s].at = "reserving"
          PROVE  Rows(job'[s].order) # {}
      <4>1. job \in [Slot -> Job]
        BY <1>1 DEF TypeOK
      <4>2. PICK o \in ProductionOrder :
              /\ Rows(o) # {}
              /\ job' = [job EXCEPT ![s] = [at |-> "reserving", order |-> o,
                                            seen |-> [r \in Reservation |-> mr[r].status]]]
        BY <2>3, <3>2, <4>1 DEF JobReads
      <4> QED BY <4>1, <4>2
    <3> QED BY <3>1, <3>2 DEF Rows
  <2>4. job'[s] = job[s] \/ JobEnds(s) \/ JobBeginsUnlocked(s) \/ JobReads(s)
    <3>1. ASSUME NEW t \in Slot, JobEnds(t) \/ JobBeginsUnlocked(t) \/ JobReads(t), s # t
          PROVE  job'[s] = job[s]
      BY <1>1, <3>1 DEF JobEnds, JobBeginsUnlocked, JobReads, TypeOK
    <3> QED BY <1>1, <3>1, JobsStep DEF JobsEffect
  <2> QED BY <2>1, <2>2, <2>3, <2>4
<1>4. ASSUME NEW r \in Reservation, status'[OrderOf[r]] \in Early
      PROVE  mr'[r].status \in {"none", "pending"}
  <2>1. mr[r].status \in {"none", "pending"}
    BY <1>2, <1>4, EarlyStep DEF PlanInv
  <2> QED
    BY <1>2, <1>4, <2>1
    DEF RowEffect, RowKept, RowPlanned, RowReserved, RowCounted, RowReleased, Early
<1> QED BY <1>1, <1>3, <1>4 DEF PlanInv

(* An order holds material exactly when something remains of one of its rows. *)
HoldersExact ==
  \A o \in ProductionOrder :
    o \in Holders <=> \E r \in Reservation : OrderOf[r] = o /\ Remaining(mr[r]) > 0

(* Rows that no plan created hold nothing, so they can be left out.          *)
LEMMA HoldersAre == Inv => HoldersExact
  BY OnlyReservedRemains
  DEF Holders, HoldersExact, Rows, Inv, ReservationSound, TypeOK

(* The orders whose rows a step leaves alone are holders as before. *)
LEMMA HoldersKept ==
  ASSUME Inv, [Next]_vars
  PROVE  /\ HoldersExact /\ HoldersExact'
         /\ \A o \in ProductionOrder :
              (\A r \in Reservation : OrderOf[r] = o => RowKept(r) \/ RowPlanned(r))
              => (o \in Holders' <=> o \in Holders)
<1>1. Inv'
  BY InvStep
<1>2. HoldersExact /\ HoldersExact'
  BY <1>1, HoldersAre, PTL
<1>4. ASSUME NEW o \in ProductionOrder, NEW r \in Reservation,
             OrderOf[r] = o, RowKept(r) \/ RowPlanned(r)
      PROVE  Remaining(mr'[r]) > 0 <=> Remaining(mr[r]) > 0
  <2>1. CASE RowKept(r)
    BY <2>1 DEF RowKept
  <2>2. CASE RowPlanned(r)
    <3>1. mr[r] \in Row /\ RowSound(mr[r])
      BY DEF Inv, TypeOK, ReservationSound
    <3>2. ~(Remaining(mr[r]) > 0)
      BY <2>2, <3>1, OnlyReservedRemains DEF RowPlanned
    <3>3. ~(Remaining(mr'[r]) > 0)
      BY <2>2, SMT DEF RowPlanned
    <3> QED BY <3>2, <3>3
  <2> QED BY <1>4, <2>1, <2>2
<1> QED BY <1>2, <1>4 DEF HoldersExact
(* What the abstract module sees of a step. *)
AbstractStep ==
  \/ Lifecycle!LCNext
  \/ UNCHANGED <<status, Holders, worker, inspector>>

(* If the rows are left alone, so are the holders. *)
LEMMA HoldersStay ==
  ASSUME Inv, [Next]_vars,
         \A r \in Reservation : RowKept(r) \/ RowPlanned(r)
  PROVE  Holders' = Holders
<1>1. \A o \in ProductionOrder : o \in Holders' <=> o \in Holders
  BY HoldersKept
<1> QED BY <1>1 DEF Holders

(* A plan in time is the lifecycle's Plan, or changes nothing it sees.       *)
LEMMA PlanMaps ==
  ASSUME PlanInv, PlansInTime, Next, NEW o \in ProductionOrder,
         NEW wants \in Requirements(o), Plan(o, wants)
  PROVE  AbstractStep
<1>1. Inv /\ TypeOK /\ [Next]_vars
  BY DEF PlanInv, Inv
<1>2. \A r \in Reservation : RowKept(r) \/ RowPlanned(r)
  <2>1. PICK rows \in SUBSET NewRows(o) : wants \in [rows -> Required]
    BY DEF Requirements
  <2>2. \A r \in Reservation : r \notin DOMAIN wants => RowKept(r)
    BY DEF Plan, RowKept
  <2>3. \A r \in DOMAIN wants :
          mr[r].status = "none" /\ mr'[r].status = "pending" /\ OrderOf[r] = o
    BY <2>1 DEF Plan, NewRows
  <2>4. RowsEffect
    BY <1>1, RowsStep
  <2> QED
    BY <2>2, <2>3, <2>4
    DEF RowsEffect, RowEffect, RowReserved, RowCounted, RowReleased
<1>3. Holders' = Holders
  BY <1>1, <1>2, HoldersStay
<1>4. status' = [status EXCEPT ![o] = "planned"] /\ UNCHANGED <<worker, inspector>>
  BY DEF Plan
<1>5. status[o] \in {"pending", "planned"}
  BY <1>1, <1>4 DEF PlansInTime, TypeOK
<1>6. CASE status[o] = "pending"
  <2>1. Lifecycle!Plan(o)
    BY <1>3, <1>4, <1>6 DEF Lifecycle!Plan, Lifecycle!Move, Lifecycle!MayMove
  <2> QED BY <2>1 DEF AbstractStep, Lifecycle!LCNext
<1>7. CASE status[o] = "planned"
  <2>1. status' = status
    BY <1>1, <1>4, <1>7 DEF TypeOK
  <2> QED BY <1>3, <1>4, <2>1 DEF AbstractStep
<1> QED BY <1>5, <1>6, <1>7

(* Each order operation is a step, or a stutter, of the lifecycle.           *)
LEMMA OrderStepMaps ==
  ASSUME PlanInv, PlansInTime, Next, NEW o \in ProductionOrder, OrderStep(o)
  PROVE  AbstractStep
<1>1. Inv /\ TypeOK /\ [Next]_vars
  BY DEF PlanInv, Inv
<1>2. ASSUME mr' = mr PROVE Holders' = Holders
  BY <1>1, <1>2, HoldersStay DEF RowKept
<1>3. CASE CreateProductionOrder(o)
  <2>1. Lifecycle!Open(o)
    BY <1>2, <1>3 DEF CreateProductionOrder, Lifecycle!Open
  <2> QED BY <2>1 DEF AbstractStep, Lifecycle!LCNext
<1>4. CASE \E wants \in Requirements(o) : PlanProduction(o, wants)
  BY <1>4, PlanMaps DEF PlanProduction
<1>5. ASSUME NEW u \in User, StartProduction(o, u) \/ ResumeProduction(o, u)
      PROVE  AbstractStep
  <2>1. Lifecycle!Work(o, u)
    BY <1>2, <1>5
    DEF StartProduction, ResumeProduction, Transition, AssignWorker,
        Lifecycle!Work, Lifecycle!Move, MayMove, Lifecycle!MayMove
  <2> QED BY <2>1 DEF AbstractStep, Lifecycle!LCNext
<1>6. CASE PauseProduction(o)
  <2>1. Lifecycle!Rest(o)
    BY <1>2, <1>6
    DEF PauseProduction, Transition, Lifecycle!Rest, Lifecycle!Move, MayMove, Lifecycle!MayMove
  <2> QED BY <2>1 DEF AbstractStep, Lifecycle!LCNext
<1>7. CASE CompleteProduction(o)
  <2>1. Lifecycle!Complete(o)
    BY <1>2, <1>7
    DEF CompleteProduction, Transition, Lifecycle!Complete, Lifecycle!Move, MayMove,
        Lifecycle!MayMove
  <2> QED BY <2>1 DEF AbstractStep, Lifecycle!LCNext
<1>8. CASE CancelProduction(o)
  <2>1. /\ \A r \in Reservation : OrderOf[r] = o => Remaining(mr'[r]) = 0
        /\ \A r \in Reservation : OrderOf[r] # o => RowKept(r)
    <3>1. \A r \in Reservation : OrderOf[r] # o => RowKept(r)
      BY <1>8 DEF CancelProduction, OpenRows, Rows, RowKept
    <3> QED BY <1>1, <1>8, <3>1, RowsReleased
  <2>2. o \notin Holders'
    <3>1. \A r \in Reservation : OrderOf[r] = o => ~(Remaining(mr'[r]) > 0)
      BY <2>1, SMT
    <3> QED BY <1>1, <3>1, HoldersKept DEF HoldersExact
  <2>3. \A p \in ProductionOrder : p # o => (p \in Holders' <=> p \in Holders)
    BY <1>1, <2>1, HoldersKept
  <2>4. Holders' = Holders \ {o}
    BY <2>2, <2>3 DEF Holders
  <2>5. Lifecycle!Cancel(o)
    BY <1>8, <2>4
    DEF CancelProduction, CancelAllowed, Lifecycle!Cancel, Lifecycle!Move, MayMove, Lifecycle!MayMove,
        Terminal, Lifecycle!Terminal
  <2> QED BY <2>5 DEF AbstractStep, Lifecycle!LCNext
<1>9. ASSUME NEW u \in User, NEW b \in BOOLEAN, CompleteQualityCheck(o, u, b)
      PROVE  AbstractStep
  <2>1. Lifecycle!Decide(o, u)
    BY <1>2, <1>9
    DEF CompleteQualityCheck, Transition, MayInspect, Lifecycle!Decide, Lifecycle!Judge,
        Lifecycle!Move, MayMove, Lifecycle!MayMove
  <2> QED BY <2>1 DEF AbstractStep, Lifecycle!LCNext
<1> QED BY <1>3, <1>4, <1>5, <1>6, <1>7, <1>8, <1>9 DEF OrderStep
(* Reserving leaves something held: every row of the order was pending, there *)
(* is one, and what it requires is positive.                                  *)
LEMMA ReserveMaps ==
  ASSUME PlanInv, Next, NEW s \in Slot, ReserveMaterials(s)
  PROVE  AbstractStep
<1> DEFINE o == job[s].order
<1>1. /\ Inv /\ TypeOK /\ [Next]_vars /\ ReadsStillTrue
      /\ \A r \in Reservation : mr[r] \in Row /\ RowSound(mr[r])
  BY DEF PlanInv, Inv, TypeOK, ReservationSound
<1>2. /\ job[s].at = "reserving" /\ o \in ProductionOrder /\ status[o] = "planned"
      /\ \A r \in Reservation :
           /\ OrderOf[r] = o
           /\ {mr[r].status, job[s].seen[r]} \cap {"none", "pending"} # {}
           => job[s].seen[r] = mr[r].status
  BY <1>1, JobFields DEF ReserveMaterials, ReadsStillTrue
<1>3. PICK r \in Reservation : OrderOf[r] = o /\ mr[r].status # "none"
  BY <1>2 DEF PlanInv
<1>4. mr[r].status = "pending" /\ job[s].seen[r] = "pending"
  BY <1>2, <1>3 DEF PlanInv, Early
<1>5. mr'[r] = Reserved(mr[r]) /\ ValidQuantity("reserve", mr[r].required)
  BY <1>3, <1>4 DEF ReserveMaterials, Reserved, Rows
<1>6. Remaining(mr'[r]) > 0
  <2>1. Remaining(mr'[r]) = mr[r].required /\ mr[r].required \in Nat
    BY <1>1, <1>4, <1>5, ReservedSound, RowFields
  <2>2. mr[r].required # 0
    BY <1>5 DEF ValidQuantity
  <2> QED BY <2>1, <2>2, SMT
<1>7. \A p \in ProductionOrder : p # o => (p \in Holders' <=> p \in Holders)
  <2>1. \A q \in Reservation : OrderOf[q] # o => RowKept(q)
    BY DEF ReserveMaterials, Rows, RowKept
  <2> QED BY <1>1, <2>1, HoldersKept
<1>8. o \in Holders'
  BY <1>1, <1>2, <1>3, <1>6, HoldersKept DEF HoldersExact
<1>9. Holders' = Holders \cup {o}
  BY <1>2, <1>7, <1>8 DEF Holders
<1>10. Lifecycle!Reserve(o)
  BY <1>2, <1>9
  DEF ReserveMaterials, Lifecycle!Reserve, Lifecycle!Move, MayMove, Lifecycle!MayMove
<1> QED BY <1>2, <1>10 DEF AbstractStep, Lifecycle!LCNext

(* A use takes the last that is held for an order, or is not seen at all. *)
LEMMA UseMaps ==
  ASSUME PlanInv, Next, NEW s \in Slot, CommitUse(s) \/ CommitUseRaced(s)
  PROVE  AbstractStep
<1> DEFINE r == job[s].use.row
<1>1. /\ Inv /\ TypeOK /\ [Next]_vars /\ job[s].at = "holding"
      /\ \A q \in Reservation : mr[q] \in Row /\ RowSound(mr[q])
  BY DEF PlanInv, Inv, TypeOK, ReservationSound, CommitUse, CommitUseRaced
<1>2. r \in Reservation /\ OrderOf[r] \in ProductionOrder
  BY <1>1, JobFields, ConstantsAssumption
<1>3. \A q \in Reservation : q # r => RowKept(q)
  BY <1>1, <1>2 DEF CommitUse, CommitUseRaced, Count, RowKept, TypeOK
<1>4. UNCHANGED <<status, worker, inspector>>
  BY DEF CommitUse, CommitUseRaced, orderVars
<1> DEFINE o == OrderOf[r]
<1>5. \A p \in ProductionOrder : p # o => (p \in Holders' <=> p \in Holders)
  BY <1>1, <1>3, HoldersKept
<1>6. o \in Holders /\ status[o] \notin Finished
  <2>1. 0 < Remaining(mr[r])
    <3>1. /\ job[s].use.quantity \in Nat /\ job[s].use.quantity # 0
          /\ job[s].use.quantity <= Remaining(mr[r])
      BY <1>1, JobFields
      DEF CommitUse, CommitUseRaced, ValidQuantity, Inv, ReadsStillTrue
    <3>2. Remaining(mr[r]) \in Int
      BY <1>1, <1>2, RemainingType
    <3> QED BY <3>1, <3>2, SMT
  <2>2. Remaining(mr[r]) # 0 /\ Remaining(mr[r]) > 0
    BY <2>1, <1>1, <1>2, RemainingType, SMT
  <2> QED BY <1>1, <1>2, <2>2, HoldersKept DEF HoldersExact, Inv, FinishedOrdersHoldNothing
<1>7. CASE o \in Holders'
  <2>1. Holders' = Holders
    BY <1>5, <1>6, <1>7 DEF Holders
  <2> QED BY <1>4, <2>1 DEF AbstractStep
<1>8. CASE o \notin Holders'
  <2>1. Holders' = Holders \ {o}
    BY <1>5, <1>6, <1>8 DEF Holders
  <2>2. Lifecycle!LetGo(o)
    BY <1>4, <1>6, <2>1
    DEF Lifecycle!LetGo, Finished, Lifecycle!Finished, Terminal, Lifecycle!Terminal
  <2> QED BY <1>2, <2>2 DEF AbstractStep, Lifecycle!LCNext
<1> QED BY <1>7, <1>8

(* Starting a quality check is the lifecycle's Inspect.                      *)
LEMMA InspectMaps ==
  ASSUME PlanInv, Next, NEW s \in Slot, StartQualityCheck(s)
  PROVE  AbstractStep
<1> DEFINE o == job[s].order
           u == job[s].by
<1>1. /\ Inv /\ TypeOK /\ [Next]_vars /\ job[s].at = "inspecting"
      /\ o \in ProductionOrder /\ u \in User
  BY JobFields DEF PlanInv, Inv, StartQualityCheck
<1>2. /\ status[o] = "in_production" /\ worker[o] # u
      /\ \A r \in Reservation : OrderOf[r] = o => Remaining(mr[r]) = 0
  BY <1>1 DEF Inv, ReadsStillTrue
<1>3. Holders' = Holders
  BY <1>1, HoldersStay DEF StartQualityCheck, RowKept
<1>4. o \notin Holders
  <2>1. \A r \in Reservation : OrderOf[r] = o => ~(Remaining(mr[r]) > 0)
    BY <1>2, SMT
  <2> QED BY <1>1, <2>1, HoldersKept DEF HoldersExact
<1>5. Lifecycle!Inspect(o, u)
  BY <1>2, <1>3, <1>4
  DEF StartQualityCheck, Lifecycle!Inspect, Lifecycle!Judge, Lifecycle!Move, MayMove,
      Lifecycle!MayMove
<1> QED BY <1>1, <1>5 DEF AbstractStep, Lifecycle!LCNext

(* Every step is a step, or a stutter, of the lifecycle.                     *)
LEMMA StepMaps ==
  ASSUME PlanInv, PlansInTime, [Next]_vars
  PROVE  AbstractStep
<1>1. Inv /\ [Next]_vars
  BY DEF PlanInv
<1>2. ASSUME mr' = mr PROVE Holders' = Holders
  BY <1>1, <1>2, HoldersStay DEF RowKept
<1>3. CASE UNCHANGED vars
  BY <1>2, <1>3 DEF vars, AbstractStep
<1>4. CASE Next
  <2>1. ASSUME NEW o \in ProductionOrder, OrderStep(o) PROVE AbstractStep
    BY <1>4, <2>1, OrderStepMaps
  <2>2. ASSUME NEW s \in Slot, BeginStep(s) PROVE AbstractStep
    BY <1>2, <2>2
    DEF BeginStep, PreloadForPlan, ReadForReserve, ReadForQualityCheck, AdmitUse,
        orderVars, AbstractStep
  <2>3. ASSUME NEW s \in Slot, SlotStep(s) PROVE AbstractStep
    <3>1. CASE ReserveMaterials(s)
      BY <1>4, <3>1, ReserveMaps
    <3>2. CASE CommitUse(s) \/ CommitUseRaced(s)
      BY <1>4, <3>2, UseMaps
    <3>3. CASE StartQualityCheck(s)
      BY <1>4, <3>3, InspectMaps
    <3>4. CASE job[s].at = "planning" /\ \E wants \in Requirements(job[s].order) : PlanPreloaded(s, wants)
      <4>1. job[s].order \in ProductionOrder
        BY <3>4, JobFields DEF PlanInv, Inv
      <4> QED BY <1>4, <3>4, <4>1, PlanMaps DEF PlanPreloaded
    <3> QED
      BY <1>2, <2>3, <3>1, <3>2, <3>3, <3>4
      DEF SlotStep, ReplayUse, HoldRow, Abort, orderVars, AbstractStep
  <2>4. ASSUME StockStep PROVE AbstractStep
    BY <1>2, <2>4 DEF StockStep, StaffMovement, SetActive, orderVars, AbstractStep
  <2> QED BY <1>4, <2>1, <2>2, <2>3, <2>4 DEF Next
<1> QED BY <1>3, <1>4

(* PlanInv holds at first.                                                   *)
LEMMA PlanInvInit == Init => PlanInv
<1> SUFFICES ASSUME Init PROVE PlanInv
  OBVIOUS
<1>1. Inv
  BY InvInit
<1> QED BY <1>1 DEF PlanInv, Init, Idle

(* The initial states are initial states of the lifecycle.                   *)
LEMMA InitMaps == Init => Lifecycle!LCInit
<1> SUFFICES ASSUME Init PROVE Lifecycle!LCInit
  OBVIOUS
<1>1. Holders = {}
  BY DEF Holders, Rows, Init
<1> QED BY <1>1 DEF Init, Lifecycle!LCInit

(* Of all that can happen, only a plan written over an order that has moved  *)
(* on breaks what ProductionLifecycle promises: every run of the code as it  *)
(* is, in which no plan comes too late, keeps the transition table with its  *)
(* terminal statuses, holds material only between reserving and the quality  *)
(* check, and has an inspector who is not the worker.                        *)
THEOREM ProductionImplementsLifecycle ==
  Spec /\ [][PlansInTime]_vars => ImplementsLifecycle
<1>1. PlanInv /\ PlansInTime /\ [Next]_vars => PlanInv'
  BY PlanInvStep
<1>2. PlanInv /\ UNCHANGED vars => PlanInv'
  <2> SUFFICES ASSUME PlanInv, UNCHANGED vars PROVE PlanInv'
    OBVIOUS
  <2>1. Inv'
    BY InvStep DEF PlanInv
  <2> QED BY <2>1 DEF PlanInv, vars
<1>3. PlanInv /\ [Next]_vars /\ [PlansInTime]_vars => PlanInv'
  BY <1>1, <1>2
<1>4. Spec /\ [][PlansInTime]_vars => []PlanInv
  BY <1>3, PlanInvInit, PTL DEF Spec
<1>5. PlanInv /\ [Next]_vars /\ [PlansInTime]_vars
        => [Lifecycle!LCNext]_<<status, Holders, worker, inspector>>
  <2> SUFFICES ASSUME PlanInv, [Next]_vars, [PlansInTime]_vars PROVE AbstractStep
    BY DEF AbstractStep
  <2>1. CASE PlansInTime
    BY <2>1, StepMaps
  <2>2. CASE UNCHANGED vars
    <3>1. Holders' = Holders
      BY <2>2, HoldersStay DEF PlanInv, RowKept, vars
    <3> QED BY <2>2, <3>1 DEF AbstractStep, vars
  <2> QED BY <2>1, <2>2
<1> QED BY <1>4, <1>5, InitMaps, PTL DEF Spec, ImplementsLifecycle, Lifecycle!Spec

(* If the plan endpoint does not read beforehand, its plans are in time.     *)
NobodyPlans == \A s \in Slot : job[s].at # "planning"

(* Then nobody is between that reading and its writing.                      *)
LEMMA NobodyPlansStep ==
  ASSUME ~PlanPreloads, Inv, NobodyPlans, [Next]_vars
  PROVE  NobodyPlans'
<1>1. TypeOK
  BY DEF Inv
<1>2. ASSUME NEW t \in Slot, JobEnds(t) \/ JobBeginsUnlocked(t) \/ JobReads(t)
      PROVE  NobodyPlans'
  BY <1>1, <1>2 DEF JobEnds, JobBeginsUnlocked, JobReads, Idle, TypeOK, NobodyPlans
<1> QED BY <1>2, JobsStep DEF JobsEffect, NobodyPlans

(* And what is planned was pending, or had been planned before.              *)
LEMMA PlansAreInTime ==
  ASSUME ~PlanPreloads, Inv, NobodyPlans, [Next]_vars
  PROVE  PlansInTime
<1> SUFFICES ASSUME NEW o \in ProductionOrder, status'[o] = "planned"
             PROVE  status[o] \in {"pending", "planned"}
  BY DEF PlansInTime
<1>1. TypeOK
  BY DEF Inv
<1>2. ASSUME NEW p \in ProductionOrder, OrderStep(p)
      PROVE  status[o] \in {"pending", "planned"}
  BY <1>1, <1>2
  DEF OrderStep, CreateProductionOrder, PlanProduction, Plan, CancelProduction, CancelAllowed,
      StartProduction, ResumeProduction, PauseProduction, CompleteProduction,
      CompleteQualityCheck, Transition, TypeOK
<1>3. ASSUME NEW s \in Slot, BeginStep(s) PROVE status' = status
  BY <1>3
  DEF BeginStep, PreloadForPlan, ReadForReserve, ReadForQualityCheck, AdmitUse, orderVars
<1>4. ASSUME NEW s \in Slot, SlotStep(s) PROVE status[o] \in {"pending", "planned"}
  <2>1. CASE StartQualityCheck(s) \/ ReserveMaterials(s)
    <3>1. PICK to \in {"quality_check", "materials_reserved"} :
            status' = [status EXCEPT ![job[s].order] = to]
      BY <2>1 DEF StartQualityCheck, ReserveMaterials
    <3>2. status'[o] = to \/ status'[o] = status[o]
      BY <1>1, <3>1 DEF TypeOK
    <3> QED BY <3>2
  <2>2. CASE \/ ReplayUse(s) \/ HoldRow(s) \/ CommitUse(s)
             \/ CommitUseRaced(s) \/ Abort(s)
    BY <2>2 DEF ReplayUse, HoldRow, CommitUse, CommitUseRaced, Abort, orderVars
  <2> QED BY <1>4, <2>1, <2>2 DEF SlotStep, NobodyPlans
<1>5. ASSUME StockStep PROVE status' = status
  BY <1>5 DEF StockStep, StaffMovement, SetActive, orderVars
<1> QED BY <1>2, <1>3, <1>4, <1>5 DEF Next, vars

(* So the plan endpoint's unlocked read is all that contradicts the comment  *)
(* on PRODUCTION_ORDER_TRANSITIONS (production_stale_plan): without it, no   *)
(* order ever leaves COMPLETED or CANCELLED.                                 *)
THEOREM TerminalStaysFinal ==
  ASSUME ~PlanPreloads
  PROVE  Spec => TerminalIsFinal
<1> DEFINE I == PlanInv /\ NobodyPlans
<1>1. Init => I
  BY PlanInvInit DEF Init, Idle, NobodyPlans
<1>2. I /\ [Next]_vars => I'
  BY PlanInvStep, NobodyPlansStep, PlansAreInTime DEF PlanInv
<1>3. I /\ [Next]_vars
        => [\A o \in ProductionOrder : status[o] \in Terminal => status'[o] = status[o]]_vars
  <2> SUFFICES ASSUME PlanInv, NobodyPlans, [Next]_vars,
                      NEW o \in ProductionOrder, status[o] \in Terminal
               PROVE  status'[o] = status[o]
    OBVIOUS
  <2>1. status \in [ProductionOrder -> Status] /\ PlansInTime
    BY PlansAreInTime DEF PlanInv, Inv, TypeOK
  <2>2. \A to : ~Lifecycle!MayMove(status[o], to)
    BY DEF Terminal, Lifecycle!MayMove, Lifecycle!Terminal
  <2>3. ASSUME NEW p \in ProductionOrder, NEW to, Lifecycle!Move(p, to)
        PROVE  status'[o] = status[o]
    BY <2>1, <2>2, <2>3 DEF Lifecycle!Move
  <2>4. CASE Lifecycle!LCNext
    <3>1. status[o] # "absent"
      BY DEF Terminal
    <3> QED
      BY <2>1, <2>3, <2>4, <3>1
      DEF Lifecycle!LCNext, Lifecycle!Open, Lifecycle!Plan, Lifecycle!Reserve,
          Lifecycle!Work, Lifecycle!Rest, Lifecycle!Inspect, Lifecycle!Decide,
          Lifecycle!Complete, Lifecycle!Cancel, Lifecycle!LetGo
  <2> QED BY <2>1, <2>4, StepMaps DEF AbstractStep
<1> HIDE DEF I
<1> QED BY <1>1, <1>2, <1>3, PTL DEF Spec, TerminalIsFinal

-----------------------------------------------------------------------------
(* Sums over finite sets.  The induction is over the subsets of a set, as a  *)
(* set of those for which something holds.                                   *)

(* What holds of a set whenever it holds of the set without any one of its  *)
(* elements, holds of every finite set.                                     *)
LEMMA SetsInduction ==
  ASSUME NEW S, IsFiniteSet(S), NEW X,
         \A T \in SUBSET S : (\A x \in T : T \ {x} \in X) => T \in X
  PROVE  S \in X
<1> DEFINE Left == {n \in Nat : \E T \in SUBSET S : Cardinality(T) = n /\ T \notin X}
<1>1. SUFFICES ASSUME S \notin X
               PROVE  FALSE
  OBVIOUS
<1>2. Cardinality(S) \in Left
  BY <1>1, FS_CardinalityType
<1>3. PICK n \in Left : \A k \in Left : ~(<<k, n>> \in OpToRel(<, Nat))
  <2>1. Left # {} /\ Left \subseteq Nat
    BY <1>2
  <2> HIDE DEF Left
  <2> QED BY <2>1, NatLessThanWellFounded, WFMin
<1>4. PICK T \in SUBSET S : Cardinality(T) = n /\ T \notin X
  OBVIOUS
<1>5. IsFiniteSet(T)
  BY FS_Subset
<1>6. ASSUME NEW x \in T
      PROVE  T \ {x} \in X
  <2>1. Cardinality(T \ {x}) = n - 1 /\ n - 1 \in Nat
    <3>1. Cardinality(T \ {x}) = n - 1 /\ IsFiniteSet(T \ {x})
      BY <1>4, <1>5, FS_RemoveElement
    <3> QED BY <3>1, FS_CardinalityType
  <2>2. <<n - 1, n>> \in OpToRel(<, Nat)
    <3>1. n - 1 < n /\ n \in Nat
      BY <2>1
    <3> QED BY <2>1, <3>1, Zenon DEF OpToRel
  <2>3. n - 1 \notin Left
    BY <1>3, <2>2, Zenon
  <2> QED BY <2>1, <2>3
<1> QED BY <1>4, <1>6

Sum(q, S) == MapThenSumSet(LAMBDA x : q[x], S)
Some(s) == CHOOSE x \in s : TRUE

(* F is the function on the subsets of S by which a sum over S is defined. *)
IsFold(q, F, S) ==
  F = [s \in SUBSET S |-> IF s = {} THEN 0 ELSE q[Some(s)] + F[s \ {Some(s)}]]

(* MapThenSumSet is the value of such a function, should there be one. *)
LEMMA SumIsFold ==
  ASSUME NEW q, NEW S
  PROVE  Sum(q, S) = (CHOOSE F : IsFold(q, F, S))[S]
  BY Zenon DEF Sum, MapThenSumSet, MapThenFoldSet, Some, IsFold

(* What is chosen of a set is in it. *)
LEMMA SomeIn == ASSUME NEW s, s # {} PROVE Some(s) \in s
  BY DEF Some

(* There is such a function. *)
LEMMA FoldExists ==
  ASSUME NEW q, NEW S, IsFiniteSet(S)
  PROVE  \E F : IsFold(q, F, S)
<1> DEFINE To(n) == {s \in SUBSET S : Cardinality(s) <= n}
           G(F, n) == F = [s \in To(n) |-> IF s = {} THEN 0 ELSE q[Some(s)] + F[s \ {Some(s)}]]
           X == {T \in SUBSET S : \E F : G(F, Cardinality(T))}
<1>0. \A s \in SUBSET S : /\ IsFiniteSet(s) /\ Cardinality(s) \in Nat
                          /\ s # {} => /\ Some(s) \in s /\ Cardinality(s \ {Some(s)}) = Cardinality(s) - 1
                                       /\ Cardinality(s) # 0
  <2> SUFFICES ASSUME NEW s \in SUBSET S
               PROVE  /\ IsFiniteSet(s) /\ Cardinality(s) \in Nat
                      /\ s # {} => /\ Some(s) \in s
                                   /\ Cardinality(s \ {Some(s)}) = Cardinality(s) - 1
                                   /\ Cardinality(s) # 0
    OBVIOUS
  <2>1. IsFiniteSet(s) /\ Cardinality(s) \in Nat
    BY FS_Subset, FS_CardinalityType
  <2>2. ASSUME s # {}
        PROVE  /\ Some(s) \in s /\ Cardinality(s \ {Some(s)}) = Cardinality(s) - 1
               /\ Cardinality(s) # 0
    BY <2>1, <2>2, FS_RemoveElement, FS_EmptySet, SomeIn
  <2> QED BY <2>1, <2>2
<1>1. {} \in X
  <2>1. Cardinality({}) = 0
    BY FS_EmptySet
  <2>2. ASSUME NEW s \in To(0)
        PROVE  s = {}
    <3>1. s \in SUBSET S /\ Cardinality(s) <= 0
      OBVIOUS
    <3>2. Cardinality(s) = 0
      <4>1. Cardinality(s) \in Nat
        BY <3>1, <1>0
      <4> QED BY <3>1, <4>1
    <3> QED BY <3>1, <3>2, <1>0
  <2>3. G([s \in To(0) |-> 0], 0)
    BY <2>2
  <2> QED BY <2>1, <2>3
<1>2. ASSUME NEW T \in SUBSET S, NEW x \in T, T \ {x} \in X
      PROVE  T \in X
  <2> DEFINE n == Cardinality(T \ {x})
  <2>1. n \in Nat /\ Cardinality(T) = n + 1
    <3>1. IsFiniteSet(T) /\ Cardinality(T) \in Nat /\ T \ {x} \in SUBSET S
      BY <1>0
    <3>2. Cardinality(T \ {x}) = Cardinality(T) - 1
      BY <3>1, FS_RemoveElement
    <3>3. Cardinality(T \ {x}) \in Nat
      BY <3>1, <1>0
    <3> QED BY <3>1, <3>2, <3>3
  <2>2. PICK F : G(F, n)
    BY <1>2
  <2> DEFINE H == [s \in To(n + 1) |-> IF s = {} THEN 0 ELSE q[Some(s)] + F[s \ {Some(s)}]]
  <2>3. \A s \in To(n) : H[s] = F[s]
    <3>1. ASSUME NEW s \in To(n)
          PROVE  s \in To(n + 1)
      <4>1. Cardinality(s) \in Nat /\ Cardinality(s) <= n
        <5>1. s \in SUBSET S /\ Cardinality(s) <= n
          OBVIOUS
        <5> QED BY <5>1, <1>0
      <4>2. Cardinality(s) <= n + 1
        BY <4>1, <2>1
      <4> QED BY <4>2
    <3> QED BY <2>2, <3>1
  <2>4. \A s \in To(n + 1) : s # {} => s \ {Some(s)} \in To(n)
    BY <2>1, <1>0
  <2>5. H = [s \in To(n + 1) |-> IF s = {} THEN 0 ELSE q[Some(s)] + H[s \ {Some(s)}]]
    BY <2>3, <2>4
  <2>6. G(H, n + 1)
    BY <2>5
  <2> QED BY <2>1, <2>6
<1>3. S \in X
  <2>1. ASSUME NEW T \in SUBSET S, \A x \in T : T \ {x} \in X
        PROVE  T \in X
    <3>1. CASE T = {}
      BY <1>1, <3>1
    <3>2. CASE T # {}
      BY <1>2, <2>1, <3>2
    <3> QED BY <3>1, <3>2
  <2> HIDE DEF X
  <2> QED BY <2>1, SetsInduction
<1>4. PICK F : G(F, Cardinality(S))
  BY <1>3
<1>5. To(Cardinality(S)) = SUBSET S
  BY FS_Subset, <1>0
<1> QED BY <1>4, <1>5 DEF IsFold

(* So a sum is a value of that function. *)
LEMMA FoldOf ==
  ASSUME NEW q, NEW S, IsFiniteSet(S)
  PROVE  \E F : IsFold(q, F, S) /\ Sum(q, S) = F[S]
  BY FoldExists, SumIsFold, Zenon

(* The functions for a set and for a part of it agree on the part. *)
LEMMA FoldsAgree ==
  ASSUME NEW q, NEW S, IsFiniteSet(S), NEW T \in SUBSET S, NEW F, NEW G,
         IsFold(q, F, S), IsFold(q, G, T)
  PROVE  F[T] = G[T]
<1> DEFINE X == {R \in SUBSET T : F[R] = G[R]}
<1>1. ASSUME NEW R \in SUBSET T, \A x \in R : R \ {x} \in X
      PROVE  R \in X
  <2>1. CASE R = {}
    BY <2>1 DEF IsFold
  <2>2. CASE R # {}
    <3> DEFINE y == Some(R)
    <3>1. y \in R /\ R \in SUBSET S
      BY <2>2, SomeIn
    <3>2. F[R] = q[y] + F[R \ {y}] /\ G[R] = q[y] + G[R \ {y}]
      BY <2>2, <3>1 DEF IsFold
    <3> QED BY <1>1, <3>1, <3>2
  <2> QED BY <2>1, <2>2
<1>2. IsFiniteSet(T)
  BY FS_Subset
<1>3. T \in X
  <2> HIDE DEF X
  <2> QED BY <1>1, <1>2, SetsInduction
<1> QED BY <1>3

(* Nothing adds up to zero. *)
LEMMA SumEmpty == ASSUME NEW q PROVE Sum(q, {}) = 0
<1>1. PICK F : IsFold(q, F, {}) /\ Sum(q, {}) = F[{}]
  BY FoldOf, FS_EmptySet
<1> QED BY <1>1 DEF IsFold

(* A sum in the order in which the fold takes the elements. *)
LEMMA SumPicks ==
  ASSUME NEW q, NEW S, IsFiniteSet(S), S # {}
  PROVE  Sum(q, S) = q[Some(S)] + Sum(q, S \ {Some(S)})
<1> DEFINE y == Some(S)
<1>1. y \in S /\ IsFiniteSet(S \ {y}) /\ S \ {y} \in SUBSET S
  BY SomeIn, FS_Subset
<1>2. PICK F : IsFold(q, F, S) /\ Sum(q, S) = F[S]
  BY FoldOf
<1>3. PICK G : IsFold(q, G, S \ {y}) /\ Sum(q, S \ {y}) = G[S \ {y}]
  BY <1>1, FoldOf
<1>4. F[S] = q[y] + F[S \ {y}]
  BY <1>1, <1>2 DEF IsFold
<1>5. F[S \ {y}] = G[S \ {y}]
  BY <1>1, <1>2, <1>3, FoldsAgree
<1> QED BY <1>2, <1>3, <1>4, <1>5

(* A sum of integers is one. *)
LEMMA SumType ==
  ASSUME NEW q, NEW S, IsFiniteSet(S), \A x \in S : q[x] \in Int
  PROVE  Sum(q, S) \in Int
<1> DEFINE X == {T \in SUBSET S : Sum(q, T) \in Int}
<1>1. ASSUME NEW T \in SUBSET S, \A x \in T : T \ {x} \in X
      PROVE  T \in X
  <2>1. CASE T = {}
    BY <2>1, SumEmpty
  <2>2. CASE T # {}
    <3> DEFINE y == Some(T)
    <3>1. y \in T /\ Sum(q, T) = q[y] + Sum(q, T \ {y})
      BY <2>2, SomeIn, SumPicks, FS_Subset
    <3> QED BY <1>1, <3>1
  <2> QED BY <2>1, <2>2
<1>2. S \in X
  <2> HIDE DEF X
  <2> QED BY <1>1, SetsInduction
<1> QED BY <1>2

(* A sum of naturals is one. *)
LEMMA SumNat ==
  ASSUME NEW q, NEW S, IsFiniteSet(S), \A x \in S : q[x] \in Nat
  PROVE  Sum(q, S) \in Nat
<1> DEFINE X == {T \in SUBSET S : Sum(q, T) \in Nat}
<1>1. ASSUME NEW T \in SUBSET S, \A x \in T : T \ {x} \in X
      PROVE  T \in X
  <2>1. CASE T = {}
    BY <2>1, SumEmpty
  <2>2. CASE T # {}
    <3> DEFINE y == Some(T)
    <3>1. y \in T /\ Sum(q, T) = q[y] + Sum(q, T \ {y})
      BY <2>2, SomeIn, SumPicks, FS_Subset
    <3> QED BY <1>1, <3>1
  <2> QED BY <2>1, <2>2
<1>2. S \in X
  <2> HIDE DEF X
  <2> QED BY <1>1, SetsInduction
<1> QED BY <1>2

(* Any element can be taken out of a sum first. *)
LEMMA SumTakesOut ==
  ASSUME NEW q, NEW S, IsFiniteSet(S), \A x \in S : q[x] \in Int, NEW x \in S
  PROVE  Sum(q, S) = q[x] + Sum(q, S \ {x})
<1> DEFINE Good(T) == \A z \in T : Sum(q, T) = q[z] + Sum(q, T \ {z})
           X == {T \in SUBSET S : Good(T)}
<1>1. ASSUME NEW T \in SUBSET S, \A z \in T : T \ {z} \in X
      PROVE  T \in X
  <2>1. CASE T = {}
    BY <2>1
  <2>2. CASE T # {}
    <3> DEFINE y == Some(T)
    <3>1. y \in T /\ Sum(q, T) = q[y] + Sum(q, T \ {y})
      BY <2>2, SomeIn, SumPicks, FS_Subset
    <3>2. ASSUME NEW z \in T, z # y
          PROVE  Sum(q, T) = q[z] + Sum(q, T \ {z})
      <4>1. Good(T \ {y}) /\ Good(T \ {z}) /\ z \in T \ {y} /\ y \in T \ {z}
        BY <1>1, <3>1, <3>2
      <4> DEFINE rest == Sum(q, (T \ {z}) \ {y})
      <4>2. (T \ {z}) \ {y} = (T \ {y}) \ {z}
        OBVIOUS
      <4>3. Sum(q, T \ {y}) = q[z] + rest /\ Sum(q, T \ {z}) = q[y] + rest
        BY <4>1, <4>2
      <4>4. rest \in Int /\ q[y] \in Int /\ q[z] \in Int
        BY <3>1, SumType, FS_Subset
      <4> HIDE DEF rest
      <4> QED BY <3>1, <4>3, <4>4
    <3>3. Good(T)
      <4> HIDE DEF y
      <4> QED BY <3>1, <3>2
    <3> QED BY <3>3
  <2> QED BY <2>1, <2>2
<1>2. S \in X
  <2> HIDE DEF X
  <2> QED BY <1>1, SetsInduction
<1> QED BY <1>2

(* Sums of the same values are the same. *)
LEMMA SumSame ==
  ASSUME NEW p, NEW q, NEW S, \A x \in S : p[x] = q[x]
  PROVE  Sum(p, S) = Sum(q, S)
<1>1. \A s \in SUBSET S : s # {} => p[Some(s)] = q[Some(s)]
  BY SomeIn
<1>2. \A F : IsFold(p, F, S) <=> IsFold(q, F, S)
  BY <1>1 DEF IsFold
<1>3. (CHOOSE F : IsFold(p, F, S)) = (CHOOSE F : IsFold(q, F, S))
  BY <1>2, Zenon
<1> QED BY <1>3, SumIsFold

(* Values are added one by one or in sum. *)
LEMMA SumAdds ==
  ASSUME NEW p, NEW q, NEW d, NEW S, IsFiniteSet(S),
         \A x \in S : q[x] \in Int /\ d[x] \in Int /\ p[x] = q[x] + d[x]
  PROVE  Sum(p, S) = Sum(q, S) + Sum(d, S)
<1> DEFINE X == {T \in SUBSET S : Sum(p, T) = Sum(q, T) + Sum(d, T)}
<1>1. ASSUME NEW T \in SUBSET S, \A x \in T : T \ {x} \in X
      PROVE  T \in X
  <2>1. CASE T = {}
    BY <2>1, SumEmpty
  <2>2. CASE T # {}
    <3>1. PICK x \in T : TRUE
      BY <2>2
    <3> DEFINE R == T \ {x}
    <3>2. IsFiniteSet(T) /\ IsFiniteSet(R)
      BY FS_Subset
    <3>3. /\ Sum(p, T) = p[x] + Sum(p, R) /\ Sum(q, T) = q[x] + Sum(q, R)
          /\ Sum(d, T) = d[x] + Sum(d, R)
      BY <3>2, SumTakesOut
    <3>4. Sum(q, R) \in Int /\ Sum(d, R) \in Int
      BY <3>2, SumType
    <3>5. Sum(p, R) = Sum(q, R) + Sum(d, R)
      BY <1>1
    <3> HIDE DEF R
    <3> QED BY <3>3, <3>4, <3>5
  <2> QED BY <2>1, <2>2
<1>2. S \in X
  <2> HIDE DEF X
  <2> QED BY <1>1, SetsInduction
<1> QED BY <1>2

(* What is zero elsewhere is summed over a part alone. *)
LEMMA SumOfPart ==
  ASSUME NEW q, NEW S, IsFiniteSet(S), NEW P \in SUBSET S,
         \A x \in S : q[x] \in Int /\ (x \notin P => q[x] = 0)
  PROVE  Sum(q, S) = Sum(q, P)
<1> DEFINE X == {T \in SUBSET S : Sum(q, T) = Sum(q, T \cap P)}
<1>1. ASSUME NEW T \in SUBSET S, \A x \in T : T \ {x} \in X
      PROVE  T \in X
  <2>1. CASE T \in SUBSET P
    <3>1. T \cap P = T
      BY <2>1
    <3> QED BY <3>1
  <2>2. CASE T \notin SUBSET P
    <3>1. PICK x \in T : x \notin P
      BY <2>2
    <3>2. Sum(q, T) = 0 + Sum(q, T \ {x})
      BY <3>1, SumTakesOut, FS_Subset
    <3>3. Sum(q, T \ {x}) \in Int
      BY SumType, FS_Subset
    <3>4. (T \ {x}) \cap P = T \cap P
      BY <3>1
    <3> QED BY <1>1, <3>2, <3>3, <3>4
  <2> QED BY <2>1, <2>2
<1>2. S \in X
  <2> HIDE DEF X
  <2> QED BY <1>1, SetsInduction
<1>3. S \cap P = P
  OBVIOUS
<1> QED BY <1>2, <1>3

-----------------------------------------------------------------------------
(* The books: what is reserved of each material and what its rows hold.      *)
OfMaterial(m) == {r \in Reservation : MaterialOf[r] = m}

(* One movement is only ever asked for one row of an order's material.       *)
OneRowPerMovement ==
  \A u, v \in Use : MovementOf(u) = MovementOf(v) => u.row = v.row

(* A sum over the rows of one material, as Total has it.                     *)
LEMMA TotalIsSum ==
  ASSUME NEW q, NEW m
  PROVE  Total(q, m) = Sum(q, {r \in DOMAIN q : MaterialOf[r] = m})
  BY Zenon DEF Total, Sum

(* The rows of one material are finitely many.                               *)
LEMMA OfMaterialFinite == ASSUME NEW m PROVE IsFiniteSet(OfMaterial(m))
<1>1. OfMaterial(m) \in SUBSET Reservation
  BY DEF OfMaterial
<1> QED BY <1>1, FS_Subset, ConstantsAssumption

(* Values that are all zero. *)
LEMMA SumZero ==
  ASSUME NEW d, NEW S, IsFiniteSet(S), \A x \in S : d[x] = 0
  PROVE  Sum(d, S) = 0
<1>1. Sum(d, S) = Sum(d, {})
  BY SumOfPart
<1> QED BY <1>1, SumEmpty

(* Values of a few rows, which are zero in d for all others, have the same   *)
(* total per material.                                                       *)
LEMMA TotalOfRows ==
  ASSUME NEW rows \in SUBSET Reservation, NEW q, NEW d, NEW m,
         DOMAIN q = rows,
         \A r \in rows : d[r] = q[r] /\ q[r] \in Int,
         \A r \in Reservation \ rows : d[r] = 0
  PROVE  Total(q, m) = Sum(d, OfMaterial(m))
<1> DEFINE P == {r \in rows : MaterialOf[r] = m}
<1>1. P \in SUBSET OfMaterial(m) /\ OfMaterial(m) \in SUBSET Reservation
  BY DEF OfMaterial
<1>2. Total(q, m) = Sum(q, P)
  BY TotalIsSum
<1>3. Sum(d, P) = Sum(q, P)
  <2>1. \A r \in P : d[r] = q[r]
    OBVIOUS
  <2> QED BY <2>1, SumSame
<1>4. Sum(d, OfMaterial(m)) = Sum(d, P)
  <2>1. \A r \in OfMaterial(m) : d[r] \in Int /\ (r \notin P => d[r] = 0)
    BY <1>1 DEF OfMaterial
  <2> HIDE DEF P
  <2> QED BY <1>1, <2>1, SumOfPart, OfMaterialFinite
<1> QED BY <1>2, <1>3, <1>4

(* What a movement does to what is reserved. *)
LEMMA ReservedMoved ==
  ASSUME NEW lvl, NEW type, NEW n
  PROVE  Moved(lvl, type, n).reserved = lvl.reserved + ReservedChange(type, n)
  BY DEF Moved

(* A balance is natural, and no more is reserved than there is.              *)
LEMMA LevelType ==
  ASSUME TypeOK, NEW m \in Material
  PROVE  level[m].reserved \in Nat /\ level[m].on_hand \in Nat
         /\ level[m].reserved <= level[m].on_hand
  BY DEF TypeOK, SoundLevel

(* A step is balanced if the rows of each material hold as much more or less *)
(* as is reserved of it.                                                     *)
Balanced ==
  \E d \in [Reservation -> Int] :
    /\ \A r \in Reservation : Remaining(mr'[r]) = Remaining(mr[r]) + d[r]
    /\ \A m \in Material : level'[m].reserved = level[m].reserved + Sum(d, OfMaterial(m))

(* What the rows of a material hold is the sum of what remains of each.      *)
LEMMA HeldIsSum ==
  ASSUME NEW m
  PROVE  /\ Held(m) = Sum([r \in Reservation |-> Remaining(mr[r])], OfMaterial(m))
         /\ Held(m)' = Sum([r \in Reservation |-> Remaining(mr'[r])], OfMaterial(m))
<1>1. Held(m) = Total([r \in Reservation |-> Remaining(mr[r])], m)
  BY Zenon DEF Held
<1>2. Held(m)' = Total([r \in Reservation |-> Remaining(mr'[r])], m)
  BY Zenon DEF Held
<1> QED BY <1>1, <1>2, TotalIsSum DEF OfMaterial

(* If what remains of each row changes by d, what they hold changes by its   *)
(* sum.                                                                      *)
LEMMA HeldChanges ==
  ASSUME TypeOK, NEW d \in [Reservation -> Int],
         \A r \in Reservation : Remaining(mr'[r]) = Remaining(mr[r]) + d[r],
         NEW m \in Material
  PROVE  /\ Held(m) \in Int /\ Sum(d, OfMaterial(m)) \in Int
         /\ Held(m)' = Held(m) + Sum(d, OfMaterial(m))
<1> DEFINE before == [r \in Reservation |-> Remaining(mr[r])]
           after == [r \in Reservation |-> Remaining(mr'[r])]
<1>1. \A r \in OfMaterial(m) : before[r] \in Int /\ d[r] \in Int /\ after[r] = before[r] + d[r]
  <2>1. \A r \in OfMaterial(m) : r \in Reservation /\ mr[r] \in Row
    BY DEF OfMaterial, TypeOK
  <2> QED BY <2>1, RemainingType
<1>2. Held(m) = Sum(before, OfMaterial(m)) /\ Held(m)' = Sum(after, OfMaterial(m))
  BY HeldIsSum
<1> HIDE DEF before, after
<1>3. Sum(after, OfMaterial(m)) = Sum(before, OfMaterial(m)) + Sum(d, OfMaterial(m))
  BY <1>1, OfMaterialFinite, SumAdds
<1>4. Sum(before, OfMaterial(m)) \in Int /\ Sum(d, OfMaterial(m)) \in Int
  BY <1>1, OfMaterialFinite, SumType
<1> QED BY <1>2, <1>3, <1>4

(* A balanced step leaves every surplus as it is.                            *)
LEMMA BalancedKeeps ==
  ASSUME TypeOK, Balanced, NEW m \in Material
  PROVE  Surplus(m)' = Surplus(m)
<1>1. PICK d \in [Reservation -> Int] :
        /\ \A r \in Reservation : Remaining(mr'[r]) = Remaining(mr[r]) + d[r]
        /\ \A n \in Material : level'[n].reserved = level[n].reserved + Sum(d, OfMaterial(n))
  BY DEF Balanced
<1>2. /\ Held(m) \in Int /\ Sum(d, OfMaterial(m)) \in Int
      /\ Held(m)' = Held(m) + Sum(d, OfMaterial(m))
  BY <1>1, HeldChanges
<1>3. Surplus(m)' = level'[m].reserved - Held(m)' /\ Surplus(m) = level[m].reserved - Held(m)
  BY DEF Surplus
<1> QED BY <1>1, <1>2, <1>3, LevelType

(* A step that moves nothing and leaves what remains of each row. *)
LEMMA NothingMoves ==
  ASSUME TypeOK, \A m \in Material : level'[m].reserved = level[m].reserved,
         \A r \in Reservation : Remaining(mr'[r]) = Remaining(mr[r])
  PROVE  Balanced
<1> DEFINE d == [r \in Reservation |-> 0]
<1>1. ASSUME NEW m \in Material
      PROVE  level'[m].reserved = level[m].reserved + Sum(d, OfMaterial(m))
  <2>1. Sum(d, OfMaterial(m)) = 0
    <3>1. \A r \in OfMaterial(m) : d[r] = 0
      BY DEF OfMaterial
    <3> HIDE DEF d
    <3> QED BY <3>1, SumZero, OfMaterialFinite
  <2> HIDE DEF d
  <2> QED BY <2>1, LevelType
<1>2. \A r \in Reservation : Remaining(mr'[r]) = Remaining(mr[r]) + d[r]
  BY RemainingType DEF TypeOK
<1>3. d \in [Reservation -> Int]
  OBVIOUS
<1> HIDE DEF d
<1> QED BY <1>1, <1>2, <1>3 DEF Balanced

(* What the invariant says of one row; a pending one holds nothing.          *)
LEMMA RowAt ==
  ASSUME Inv, NEW r \in Reservation
  PROVE  /\ mr[r] \in Row /\ RowSound(mr[r]) /\ Remaining(mr[r]) \in Nat
         /\ mr[r].required \in Nat
         /\ mr[r].status \in {"none", "pending"} =>
              /\ Remaining(mr[r]) = 0
              /\ \A t \in UseType : mr[r].used[t] = 0
<1>1. mr[r] \in Row /\ RowSound(mr[r])
  BY DEF Inv, TypeOK, ReservationSound
<1>2. Remaining(mr[r]) \in Nat
  BY <1>1, RemainingType DEF RowSound
<1>3. ASSUME mr[r].status \in {"none", "pending"}
      PROVE  Remaining(mr[r]) = 0 /\ \A t \in UseType : mr[r].used[t] = 0
  <2>1. mr[r].reserved = 0
    BY <1>1, <1>3 DEF RowSound
  <2>2. /\ mr[r].used["consume"] \in Nat /\ mr[r].used["production_waste"] \in Nat
        /\ mr[r].used["return"] \in Nat /\ mr[r].used["release"] \in Nat
    BY <1>1, RowFields
  <2>3. /\ mr[r].used["consume"] = 0 /\ mr[r].used["production_waste"] = 0
        /\ mr[r].used["return"] = 0 /\ mr[r].used["release"] = 0
    <3> DEFINE c == mr[r].used["consume"]
               w == mr[r].used["production_waste"]
               b == mr[r].used["return"]
               f == mr[r].used["release"]
    <3>1. 0 - c - w - b - f >= 0
      BY <1>2, <2>1 DEF Remaining
    <3>2. c \in Nat /\ w \in Nat /\ b \in Nat /\ f \in Nat
      BY <2>2
    <3> HIDE DEF c, w, b, f
    <3>3. c = 0 /\ w = 0 /\ b = 0 /\ f = 0
      BY <3>1, <3>2
    <3> QED BY <3>3 DEF c, w, b, f
  <2> QED BY <2>1, <2>3 DEF Remaining, UseType
<1> QED BY <1>1, <1>2, <1>3, RowFields

(* Reserving books what the pending rows come to hold and, for rows that     *)
(* were reserved before, what they require once more.                        *)
LEMMA ReserveGains ==
  ASSUME Inv, NEW s \in Slot, ReserveMaterials(s), NEW m \in Material
  PROVE  \/ Surplus(m)' = Surplus(m)
         \/ ReservesAgain /\ Surplus(m)' > Surplus(m)
<1> DEFINE o == job[s].order
           rows == {r \in Rows(o) : job[s].seen[r] # "none"}
           q == [r \in rows |-> mr[r].required]
           booked == [r \in Reservation |-> IF r \in rows THEN mr[r].required ELSE 0]
           new == [r \in Reservation |->
                    IF r \in rows /\ mr[r].status = "pending" THEN mr[r].required ELSE 0]
           again == [r \in Reservation |->
                      IF r \in rows /\ mr[r].status # "pending" THEN mr[r].required ELSE 0]
<1>1. TypeOK
  BY DEF Inv
<1>2. job[s].at = "reserving" /\ status[o] = "planned" /\ o \in ProductionOrder
  BY <1>1, JobFields DEF ReserveMaterials, Inv, ReadsStillTrue
<1>3. \A r \in rows : /\ r \in Reservation /\ OrderOf[r] = o /\ mr[r].status # "none"
                      /\ RowMayMove(job[s].seen[r], "reserved")
  BY DEF Rows, ReserveMaterials
<1>4. \A r \in rows : mr[r].status = "pending" <=> job[s].seen[r] = "pending"
  BY <1>2, <1>3 DEF Inv, ReadsStillTrue
<1>5. mr' = [r \in Reservation |->
              IF r \notin rows THEN mr[r]
              ELSE [mr[r] EXCEPT !.reserved = mr[r].required,
                                 !.status = IF job[s].seen[r] = "pending" THEN "reserved"
                                            ELSE mr[r].status]]
  BY DEF ReserveMaterials
<1>6. level'[m] = Moved(level[m], "reserve", Total(q, m))
  BY DEF ReserveMaterials, MovedFor, Booked
<1>7. status'[o] = "materials_reserved"
  BY <1>1, <1>2 DEF ReserveMaterials, TypeOK
<1> HIDE DEF rows, o
<1>8. \A r \in Reservation : /\ booked[r] \in Nat /\ new[r] \in Nat /\ again[r] \in Nat
                            /\ booked[r] = new[r] + again[r]
  BY RowAt
<1>9. ASSUME NEW r \in Reservation
      PROVE  Remaining(mr'[r]) = Remaining(mr[r]) + new[r]
  <2>1. CASE r \in rows /\ mr[r].status = "pending"
    <3>1. mr'[r] = Reserved(mr[r])
      BY <1>4, <1>5, <2>1 DEF Reserved
    <3> QED BY <2>1, <3>1, RowAt, ReservedSound
  <2>2. CASE r \in rows /\ mr[r].status # "pending"
    <3>1. mr[r] \in Row /\ RowSound(mr[r])
      BY RowAt
    <3>2. mr[r].reserved = mr[r].required
      BY <1>3, <2>2, <3>1 DEF RowSound, Row, RowStatus
    <3>3. mr'[r] = [mr[r] EXCEPT !.reserved = mr[r].required, !.status = mr[r].status]
      BY <1>4, <1>5, <2>2
    <3>4. mr'[r] = mr[r]
      BY <3>1, <3>2, <3>3 DEF Row
    <3> QED BY <2>2, <3>4, RowAt
  <2>3. CASE r \notin rows
    <3>1. mr'[r] = mr[r] /\ new[r] = 0
      BY <1>5, <2>3
    <3> QED BY <3>1, RowAt
  <2> QED BY <2>1, <2>2, <2>3
<1>10. level'[m].reserved = level[m].reserved + Sum(booked, OfMaterial(m))
  <2>1. Total(q, m) = Sum(booked, OfMaterial(m))
    <3>1. rows \in SUBSET Reservation
      BY <1>3
    <3>2. /\ DOMAIN q = rows
          /\ \A r \in rows : booked[r] = q[r] /\ q[r] \in Int
          /\ \A r \in Reservation \ rows : booked[r] = 0
      BY <3>1, RowAt
    <3> HIDE DEF q, booked
    <3> QED BY <3>1, <3>2, TotalOfRows
  <2> QED BY <1>6, <2>1, ReservedMoved DEF ReservedChange
<1>11. new \in [Reservation -> Int]
  BY <1>8
<1>12. ASSUME Sum(again, OfMaterial(m)) # 0
       PROVE  ReservesAgain
  <2>1. PICK r \in OfMaterial(m) : again[r] # 0
    <3> HIDE DEF again
    <3> QED BY <1>12, OfMaterialFinite, SumZero
  <2>2. r \in Reservation /\ r \in rows /\ mr[r].status # "pending"
    BY <2>1 DEF OfMaterial
  <2> QED BY <1>2, <1>3, <1>7, <2>2 DEF ReservesAgain
<1> HIDE DEF booked, new, again
<1>13. \A r \in OfMaterial(m) : /\ new[r] \in Nat /\ again[r] \in Nat
                                /\ booked[r] = new[r] + again[r]
  BY <1>8 DEF OfMaterial
<1>14. /\ Sum(booked, OfMaterial(m)) = Sum(new, OfMaterial(m)) + Sum(again, OfMaterial(m))
       /\ Sum(new, OfMaterial(m)) \in Nat /\ Sum(again, OfMaterial(m)) \in Nat
  BY <1>13, OfMaterialFinite, SumAdds, SumNat
<1>15. Held(m) \in Int /\ Held(m)' = Held(m) + Sum(new, OfMaterial(m))
  BY <1>1, <1>9, <1>11, HeldChanges
<1>16. Surplus(m)' = level'[m].reserved - Held(m)' /\ Surplus(m) = level[m].reserved - Held(m)
  BY DEF Surplus
<1>17. Surplus(m) \in Int /\ Surplus(m)' = Surplus(m) + Sum(again, OfMaterial(m))
  BY <1>1, <1>10, <1>14, <1>15, <1>16, LevelType
<1> QED BY <1>12, <1>14, <1>17

(* Cancelling: each open row gives back what remains of it.                  *)
LEMMA CancelBalanced ==
  ASSUME Inv, NEW o \in ProductionOrder, CancelProduction(o)
  PROVE  Balanced
<1> DEFINE rows == {r \in Rows(o) : Open(mr[r])}
           q == [r \in rows |-> Remaining(mr[r])]
           e == [r \in Reservation |-> IF r \in rows THEN Remaining(mr[r]) ELSE 0]
           d == [r \in Reservation |-> -e[r]]
           zero == [r \in Reservation |-> 0]
<1>1. TypeOK
  BY DEF Inv
<1>2. \A r \in rows : r \in Reservation /\ Open(mr[r])
  BY DEF Rows
<1>3. /\ mr' = [r \in Reservation |-> IF r \in rows THEN Released(mr[r]) ELSE mr[r]]
      /\ \A m \in Material : level'[m] = Moved(level[m], "release", Total(q, m))
  BY DEF CancelProduction, OpenRows, GivenBack, MovedFor
<1> HIDE DEF rows
<1>4. \A r \in Reservation : e[r] \in Int /\ d[r] \in Int /\ zero[r] = e[r] + d[r]
  BY RowAt
<1>5. ASSUME NEW r \in Reservation
      PROVE  Remaining(mr'[r]) = Remaining(mr[r]) + d[r]
  <2>1. CASE r \in rows
    BY <1>2, <1>3, <2>1, RowAt, ReleasedSound
  <2>2. CASE r \notin rows
    BY <1>3, <2>2, RowAt
  <2> QED BY <2>1, <2>2
<1>6. ASSUME NEW m \in Material
      PROVE  level'[m].reserved = level[m].reserved + Sum(d, OfMaterial(m))
  <2>1. Total(q, m) = Sum(e, OfMaterial(m))
    <3>1. rows \in SUBSET Reservation
      BY <1>2
    <3>2. /\ DOMAIN q = rows
          /\ \A r \in rows : e[r] = q[r] /\ q[r] \in Int
          /\ \A r \in Reservation \ rows : e[r] = 0
      BY <3>1, RowAt
    <3> HIDE DEF q, e
    <3> QED BY <3>1, <3>2, TotalOfRows
  <2>2. \A r \in OfMaterial(m) : r \in Reservation /\ zero[r] = 0
    BY DEF OfMaterial
  <2> HIDE DEF d, e, zero, q
  <2>3. Sum(zero, OfMaterial(m)) = Sum(e, OfMaterial(m)) + Sum(d, OfMaterial(m))
    BY <1>4, <2>2, OfMaterialFinite, SumAdds
  <2>4. Sum(zero, OfMaterial(m)) = 0
    BY <2>2, OfMaterialFinite, SumZero
  <2>5. Sum(e, OfMaterial(m)) \in Int /\ Sum(d, OfMaterial(m)) \in Int
    BY <1>4, <2>2, OfMaterialFinite, SumType
  <2>6. level'[m].reserved = level[m].reserved - Sum(e, OfMaterial(m))
    <3>1. level'[m].reserved = level[m].reserved + ReservedChange("release", Sum(e, OfMaterial(m)))
      BY <1>3, <2>1, ReservedMoved
    <3> QED BY <1>1, <2>5, <3>1, LevelType DEF ReservedChange
  <2> QED BY <1>1, <2>3, <2>4, <2>5, <2>6, LevelType
<1>7. d \in [Reservation -> Int]
  BY <1>4
<1> HIDE DEF d
<1> QED BY <1>5, <1>6, <1>7 DEF Balanced

(* What a use takes from the rows: its quantity, from its own row.           *)
Taken(u) == [r \in Reservation |-> IF r = u.row THEN -u.quantity ELSE 0]

(* A use that is counted takes that much of what its rows hold.              *)
LEMMA UseTakes ==
  ASSUME Inv, NEW s \in Slot, NEW u, u = job[s].use, CommitUse(s) \/ CommitUseRaced(s)
  PROVE  /\ u \in Use /\ u.quantity \in Nat /\ 0 < u.quantity
         /\ u.type \in UseType /\ MaterialOf[u.row] \in Material
         /\ Taken(u) \in [Reservation -> Int]
         /\ \A r \in Reservation : Remaining(mr'[r]) = Remaining(mr[r]) + Taken(u)[r]
         /\ \A m \in Material :
              Sum(Taken(u), OfMaterial(m)) = IF m = MaterialOf[u.row] THEN -u.quantity ELSE 0
<1> DEFINE d == Taken(u)
<1>1. TypeOK
  BY DEF Inv
<1>2. job[s].at = "holding" /\ ValidQuantity(u.type, u.quantity) /\ Count(u)
  BY DEF CommitUse, CommitUseRaced
<1>3. /\ u \in Use /\ u.row \in Reservation /\ u.quantity \in Nat
      /\ u.type \in UseType /\ MaterialOf[u.row] \in Material
  BY <1>1, <1>2, JobFields, ConstantsAssumption
<1>4. 0 < u.quantity /\ u.quantity <= Remaining(mr[u.row])
  BY <1>2, <1>3 DEF ValidQuantity, Inv, ReadsStillTrue
<1>5. mr' = [mr EXCEPT ![u.row] = Counted(mr[u.row], u)]
  BY <1>2 DEF Count
<1>6. /\ d \in [Reservation -> Int] /\ d[u.row] = -u.quantity
      /\ \A r \in Reservation : r # u.row => d[r] = 0
  BY <1>3 DEF Taken
<1> HIDE DEF d
<1>7. ASSUME NEW r \in Reservation
      PROVE  Remaining(mr'[r]) = Remaining(mr[r]) + d[r]
  <2>1. CASE r = u.row
    <3>1. mr'[r] = Counted(mr[r], u)
      BY <1>1, <1>5, <2>1 DEF TypeOK
    <3>2. Remaining(Counted(mr[r], u)) = Remaining(mr[r]) - u.quantity
      BY <1>3, <1>4, <2>1, RowAt, CountedSound
    <3> QED BY <1>3, <1>6, <2>1, <3>1, <3>2, RowAt
  <2>2. CASE r # u.row
    <3>1. mr'[r] = mr[r]
      BY <1>1, <1>5, <2>2 DEF TypeOK
    <3> QED BY <1>6, <2>2, <3>1, RowAt
  <2> QED BY <2>1, <2>2
<1>8. ASSUME NEW m \in Material
      PROVE  Sum(d, OfMaterial(m)) = IF m = MaterialOf[u.row] THEN -u.quantity ELSE 0
  <2>1. CASE m = MaterialOf[u.row]
    <3>1. u.row \in OfMaterial(m) /\ \A r \in OfMaterial(m) : r \in Reservation
      BY <1>3, <2>1 DEF OfMaterial
    <3>2. Sum(d, OfMaterial(m)) = d[u.row] + Sum(d, OfMaterial(m) \ {u.row})
      BY <1>6, <3>1, OfMaterialFinite, SumTakesOut
    <3>3. Sum(d, OfMaterial(m) \ {u.row}) = 0
      <4>1. IsFiniteSet(OfMaterial(m) \ {u.row})
        BY OfMaterialFinite, FS_Subset
      <4> QED BY <1>6, <3>1, <4>1, SumZero
    <3> QED BY <1>3, <1>6, <2>1, <3>2, <3>3
  <2>2. CASE m # MaterialOf[u.row]
    <3>1. \A r \in OfMaterial(m) : d[r] = 0
      BY <1>6, <2>2 DEF OfMaterial
    <3>2. Sum(d, OfMaterial(m)) = 0
      BY <3>1, OfMaterialFinite, SumZero
    <3> QED BY <2>2, <3>2
  <2> QED BY <2>1, <2>2
<1> QED BY <1>3, <1>4, <1>6, <1>7, <1>8 DEF d

(* A use that moves the stock takes as much from what is reserved.           *)
LEMMA UseBalanced ==
  ASSUME Inv, NEW s \in Slot, CommitUse(s)
  PROVE  Balanced
<1> DEFINE u == job[s].use
           w == MaterialOf[u.row]
           d == Taken(u)
<1>1. TypeOK
  BY DEF Inv
<1>2. level' = [level EXCEPT ![w] = Moved(level[w], u.type, u.quantity)]
  BY DEF CommitUse
<1>3. /\ u.quantity \in Nat /\ u.type \in UseType /\ w \in Material
      /\ d \in [Reservation -> Int]
      /\ \A r \in Reservation : Remaining(mr'[r]) = Remaining(mr[r]) + d[r]
      /\ \A m \in Material : Sum(d, OfMaterial(m)) = IF m = w THEN -u.quantity ELSE 0
  BY UseTakes
<1> HIDE DEF u, w, d
<1>4. ASSUME NEW m \in Material
      PROVE  level'[m].reserved = level[m].reserved + Sum(d, OfMaterial(m))
  <2>1. CASE m = w
    <3>1. level'[m].reserved = level[m].reserved + ReservedChange(u.type, u.quantity)
      BY <1>1, <1>2, <1>3, <2>1, ReservedMoved DEF TypeOK
    <3>2. ReservedChange(u.type, u.quantity) = -u.quantity
      BY <1>3 DEF UseType, ReservedChange
    <3> QED BY <1>3, <2>1, <3>1, <3>2
  <2>2. CASE m # w
    <3>1. level'[m] = level[m]
      BY <1>1, <1>2, <2>2 DEF TypeOK
    <3> QED BY <1>1, <1>3, <2>2, <3>1, LevelType
  <2> QED BY <2>1, <2>2
<1> QED BY <1>3, <1>4 DEF Balanced

(* A use that is counted again leaves as much more reserved than held.       *)
LEMMA RacedGains ==
  ASSUME Inv, NEW s \in Slot, CommitUseRaced(s), NEW m \in Material
  PROVE  \/ Surplus(m)' = Surplus(m)
         \/ CountsAgain /\ Surplus(m)' > Surplus(m)
<1> DEFINE u == job[s].use
           d == Taken(u)
<1>1. TypeOK /\ job \in [Slot -> Job]
  BY DEF Inv, TypeOK
<1>2. /\ job[s].at = "holding" /\ MovementOf(u) \in moved /\ level' = level
      /\ job' = [job EXCEPT ![s] = Idle]
  BY DEF CommitUseRaced, stockVars, End
<1>3. CountsAgain
  BY <1>1, <1>2 DEF CountsAgain
<1>4. /\ u.quantity \in Nat /\ 0 < u.quantity
      /\ d \in [Reservation -> Int]
      /\ \A r \in Reservation : Remaining(mr'[r]) = Remaining(mr[r]) + d[r]
      /\ Sum(d, OfMaterial(m)) = IF m = MaterialOf[u.row] THEN -u.quantity ELSE 0
  BY UseTakes
<1> HIDE DEF u, d
<1>5. Held(m) \in Int /\ Held(m)' = Held(m) + Sum(d, OfMaterial(m))
  BY <1>1, <1>4, HeldChanges
<1>6. Surplus(m)' = level'[m].reserved - Held(m)' /\ Surplus(m) = level[m].reserved - Held(m)
  BY DEF Surplus
<1>7. Surplus(m) \in Int /\ Surplus(m)' = Surplus(m) - Sum(d, OfMaterial(m))
      /\ Sum(d, OfMaterial(m)) \in Int
  BY <1>1, <1>2, <1>4, <1>5, <1>6, LevelType
<1> QED BY <1>3, <1>4, <1>7

(* Nobody who holds a row is about to repeat a movement that was recorded    *)
(* since the look-up: the other one would have held the same row.            *)
NothingRaced ==
  \A s \in Slot : job[s].at = "holding" => MovementOf(job[s].use) \notin moved

(* Every step keeps it: the lock of the row serialises the uses of a key.    *)
LEMMA NothingRacedStep ==
  ASSUME OneRowPerMovement, Inv, NothingRaced, [Next]_vars
  PROVE  NothingRaced'
<1> DEFINE Kept == moved' = moved /\ \A s \in Slot : job'[s].at = "holding" => job'[s] = job[s]
<1>1. job \in [Slot -> Job]
  BY DEF Inv, TypeOK
<1>2. ASSUME Kept PROVE NothingRaced'
  BY <1>2 DEF NothingRaced, MovementOf
<1>3. ASSUME NEW o \in ProductionOrder, OrderStep(o) PROVE Kept
  BY <1>3
  DEF OrderStep, CreateProductionOrder, PlanProduction, Plan, CancelProduction,
      StartProduction, ResumeProduction, PauseProduction, CompleteProduction,
      CompleteQualityCheck, Transition, stockVars
<1>4. ASSUME NEW s \in Slot, BeginStep(s) PROVE Kept
  BY <1>1, <1>4
  DEF BeginStep, PreloadForPlan, ReadForReserve, ReadForQualityCheck, AdmitUse, Begin, stockVars
<1>5. ASSUME NEW s \in Slot, SlotStep(s) PROVE NothingRaced'
  <2>1. CASE HoldRow(s)
    <3>1. /\ moved' = moved /\ MovementOf(job[s].use) \notin moved
          /\ job' = [job EXCEPT ![s] = [at |-> "holding", use |-> job[s].use]]
      BY <2>1 DEF HoldRow, stockVars
    <3> QED BY <1>1, <3>1 DEF NothingRaced, MovementOf
  <2>2. CASE CommitUse(s)
    <3>1. /\ job[s].at = "holding" /\ job' = [job EXCEPT ![s] = Idle]
          /\ moved' = moved \cup {MovementOf(job[s].use)}
      BY <2>2 DEF CommitUse, End
    <3>2. ASSUME NEW t \in Slot, job'[t].at = "holding"
          PROVE  MovementOf(job'[t].use) \notin moved'
      <4>1. t # s /\ job'[t] = job[t] /\ job[t].at = "holding"
        BY <1>1, <3>1, <3>2 DEF Idle
      <4>2. job[s].use.row # job[t].use.row
        BY <3>1, <4>1 DEF Inv, LocksExclusive
      <4>3. job[s].use \in Use /\ job[t].use \in Use
        BY <3>1, <4>1, JobFields DEF Inv
      <4>4. MovementOf(job[s].use) # MovementOf(job[t].use)
        BY <4>2, <4>3 DEF OneRowPerMovement
      <4>5. MovementOf(job[t].use) \notin moved
        BY <4>1 DEF NothingRaced
      <4> QED BY <3>1, <4>1, <4>4, <4>5
    <3> QED BY <3>2 DEF NothingRaced, MovementOf
  <2>3. CASE ~HoldRow(s) /\ ~CommitUse(s)
    <3>1. ASSUME End(s), moved' = moved PROVE Kept
      BY <1>1, <3>1 DEF End, Idle
    <3>2. ASSUME NEW wants, PlanPreloaded(s, wants) PROVE End(s) /\ moved' = moved
      BY <3>2 DEF PlanPreloaded, Plan, stockVars
    <3>3. End(s) /\ moved' = moved
      BY <1>5, <2>3, <3>2
      DEF SlotStep, Abort, ReplayUse, CommitUseRaced, StartQualityCheck, ReserveMaterials,
          stockVars
    <3>4. Kept
      <4> HIDE DEF Kept
      <4> QED BY <3>1, <3>3
    <3> QED BY <1>2, <3>4
  <2> QED BY <2>1, <2>2, <2>3
<1>6. ASSUME StockStep PROVE Kept
  BY <1>6 DEF StockStep, StaffMovement, SetActive, stockVars
<1>7. CASE UNCHANGED vars
  BY <1>2, <1>7 DEF vars
<1> HIDE DEF Kept
<1> QED BY <1>2, <1>3, <1>4, <1>5, <1>6, <1>7 DEF Next

(* Planning: a row that is created holds nothing, as before it was there.    *)
LEMMA PlanBalanced ==
  ASSUME Inv, NEW o \in ProductionOrder, NEW wants \in Requirements(o),
         ~Locked(o), Plan(o, wants)
  PROVE  Balanced
<1>1. RowsEffect /\ TypeOK
  BY RowsPlanned DEF Inv
<1>2. ASSUME NEW r \in Reservation
      PROVE  Remaining(mr'[r]) = Remaining(mr[r])
  <2>1. CASE r \in DOMAIN wants
    <3>1. mr[r].status = "none"
      BY <2>1 DEF Requirements, NewRows
    <3>2. RowKept(r) \/ RowPlanned(r)
      BY <1>1, <3>1 DEF RowsEffect, RowEffect, RowReserved, RowCounted, RowReleased
    <3> QED BY <3>1, <3>2, RowAt DEF RowKept, RowPlanned
  <2>2. CASE r \notin DOMAIN wants
    BY <2>2 DEF Plan
  <2> QED BY <2>1, <2>2
<1>3. level' = level
  BY DEF Plan, stockVars
<1> QED BY <1>1, <1>2, <1>3, NothingMoves

(* Every step keeps the books as KeepsBooks says.                            *)
LEMMA BooksStep ==
  ASSUME Inv, [Next]_vars
  PROVE  KeepsBooks
<1>1. TypeOK
  BY DEF Inv
<1>2. ASSUME Balanced PROVE KeepsBooks
  <2>1. \A m \in Material : Surplus(m)' = Surplus(m)
    BY <1>1, <1>2, BalancedKeeps
  <2> QED BY <2>1, Zenon DEF KeepsBooks
<1>3. ASSUME level' = level, mr' = mr PROVE KeepsBooks
  BY <1>1, <1>2, <1>3, NothingMoves
<1>4. ASSUME NEW o \in ProductionOrder, OrderStep(o) PROVE KeepsBooks
  <2>1. CASE \E wants \in Requirements(o) : PlanProduction(o, wants)
    BY <1>2, <2>1, PlanBalanced DEF PlanProduction
  <2>2. CASE CancelProduction(o)
    BY <1>2, <2>2, CancelBalanced
  <2> QED
    BY <1>3, <1>4, <2>1, <2>2
    DEF OrderStep, CreateProductionOrder, StartProduction, ResumeProduction,
        PauseProduction, CompleteProduction, CompleteQualityCheck, Transition, stockVars
<1>5. ASSUME NEW s \in Slot, BeginStep(s) PROVE KeepsBooks
  BY <1>3, <1>5
  DEF BeginStep, PreloadForPlan, ReadForReserve, ReadForQualityCheck, AdmitUse, stockVars
<1>6. ASSUME NEW s \in Slot, SlotStep(s) PROVE KeepsBooks
  <2>1. CASE ReserveMaterials(s)
    <3>1. \A m \in Material : \/ Surplus(m)' = Surplus(m)
                              \/ ReservesAgain /\ Surplus(m)' > Surplus(m)
      BY <2>1, ReserveGains
    <3> QED BY <3>1, Zenon DEF KeepsBooks
  <2>2. CASE CommitUse(s)
    BY <1>2, <2>2, UseBalanced
  <2>3. CASE CommitUseRaced(s)
    <3>1. \A m \in Material : \/ Surplus(m)' = Surplus(m)
                              \/ CountsAgain /\ Surplus(m)' > Surplus(m)
      BY <2>3, RacedGains
    <3> QED BY <3>1, Zenon DEF KeepsBooks
  <2>4. CASE job[s].at = "planning" /\ \E wants \in Requirements(job[s].order) : PlanPreloaded(s, wants)
    <3>1. job[s].order \in ProductionOrder
      BY <1>1, <2>4, JobFields
    <3> QED BY <1>2, <2>4, <3>1, PlanBalanced DEF PlanPreloaded
  <2> QED
    BY <1>3, <1>6, <2>1, <2>2, <2>3, <2>4
    DEF SlotStep, StartQualityCheck, ReplayUse, HoldRow, Abort, stockVars
<1>7. ASSUME StaffMoves PROVE KeepsBooks
  BY <1>7, Zenon DEF KeepsBooks
<1>8. CASE StockStep
  BY <1>7, <1>8 DEF StockStep, StaffMovement, SetActive, orderVars, StaffMoves
<1>9. CASE UNCHANGED vars
  BY <1>7, <1>9 DEF vars, StaffMoves
<1> QED BY <1>4, <1>5, <1>6, <1>8, <1>9 DEF Next

(* Whatever the requests in flight, the plans that come too late and the     *)
(* uses that race, production never takes from what is reserved beyond what  *)
(* its rows hold: only an order reserved again and a use counted again part  *)
(* the two, both leave more reserved than held, and whatever is missing was  *)
(* taken by staff.                                                           *)
THEOREM BooksAreKept == Spec => ProductionKeepsBooks
<1>1. Inv /\ [Next]_vars => [KeepsBooks]_vars
  BY BooksStep
<1> QED BY <1>1, Invariance, PTL DEF Spec, ProductionKeepsBooks

(* Enough is reserved of each material for all that its rows hold.           *)
Covered == \A m \in Material : Held(m) <= level[m].reserved

(* What the open rows of an order hold of a material together is covered by  *)
(* what is reserved of it: the other rows hold the rest, and none holds less *)
(* than nothing.                                                             *)
LEMMA GivenBackCovered ==
  ASSUME Inv, Covered, NEW o \in ProductionOrder, NEW m \in Material
  PROVE  Total(GivenBack(o), m) \in 0..level[m].reserved
<1> DEFINE rows == OpenRows(o)
           all == [r \in Reservation |-> Remaining(mr[r])]
           mine == [r \in Reservation |-> IF r \in rows THEN Remaining(mr[r]) ELSE 0]
           others == [r \in Reservation |-> IF r \in rows THEN 0 ELSE Remaining(mr[r])]
<1>1. rows \in SUBSET Reservation
  BY DEF OpenRows, Rows
<1>2. \A r \in Reservation :
        /\ mine[r] \in Nat /\ others[r] \in Nat /\ all[r] = mine[r] + others[r]
  BY RowAt
<1>3. Total(GivenBack(o), m) = Sum(mine, OfMaterial(m))
  <2> DEFINE q == GivenBack(o)
  <2>1. /\ DOMAIN q = rows
        /\ \A r \in rows : mine[r] = q[r] /\ q[r] \in Int
        /\ \A r \in Reservation \ rows : mine[r] = 0
    BY <1>1, RowAt DEF GivenBack
  <2> HIDE DEF q, mine, rows
  <2>2. Total(q, m) = Sum(mine, OfMaterial(m))
    BY <1>1, <2>1, TotalOfRows
  <2> QED BY <2>2 DEF q
<1>4. Sum(all, OfMaterial(m)) <= level[m].reserved /\ level[m].reserved \in Nat
  BY HeldIsSum, LevelType DEF Covered, Inv
<1> HIDE DEF all, mine, others
<1>5. \A r \in OfMaterial(m) : mine[r] \in Nat /\ others[r] \in Nat /\ all[r] = mine[r] + others[r]
  BY <1>2 DEF OfMaterial
<1>6. Sum(all, OfMaterial(m)) = Sum(mine, OfMaterial(m)) + Sum(others, OfMaterial(m))
  BY <1>5, OfMaterialFinite, SumAdds
<1>7. Sum(mine, OfMaterial(m)) \in Nat /\ Sum(others, OfMaterial(m)) \in Nat
  BY <1>5, OfMaterialFinite, SumNat
<1> QED BY <1>3, <1>4, <1>6, <1>7

(* Whenever enough is reserved of each material for what its rows hold, an   *)
(* order that is not finished can be cancelled while the materials it holds  *)
(* are active: neither the statuses of its rows nor the stock service refuse *)
(* what the cancellation gives back.  The comment at models/enums.py:268-269 *)
(* says so of every non-terminal state; staff taking reserved stock are the  *)
(* only way to lose the cover (BooksAreKept).                                *)
THEOREM OrdersCanBeCancelled == Spec => [](Covered => CancelPossible)
<1>1. Spec => []Inv
  BY Invariance
<1>2. Inv => (Covered => CancelPossible)
  <2> SUFFICES ASSUME Inv, Covered, NEW o \in ProductionOrder,
                      status[o] \notin Terminal \cup {"absent"}, Unlocked(o),
                      \A r \in Rows(o) : Open(mr[r]) => active[MaterialOf[r]]
               PROVE  CancelAllowed(o)
    BY DEF CancelPossible
  <2>1. TypeOK
    BY DEF Inv
  <2>2. MayMove(status[o], "cancelled")
    BY DEF MayMove
  <2>3. ASSUME NEW r \in OpenRows(o)
        PROVE  active[MaterialOf[r]] /\ RowMayMove(mr[r].status, "released")
    <3>1. r \in Rows(o) /\ r \in Reservation /\ Open(mr[r])
      BY DEF OpenRows, Rows
    <3>2. mr[r].status = "reserved"
      BY <2>1, <3>1, RowAt, OnlyReservedRemains DEF Open
    <3> QED BY <3>1, <3>2 DEF RowMayMove
  <2>4. ASSUME NEW m \in Material
        PROVE  MovedFor(GivenBack(o), "release")[m] \in SoundLevel
    <3> DEFINE n == Total(GivenBack(o), m)
    <3>1. n \in 0..level[m].reserved
      BY <2>1, GivenBackCovered
    <3>2. MovedFor(GivenBack(o), "release")[m] = Moved(level[m], "release", n)
      BY DEF MovedFor
    <3> HIDE DEF n
    <3>3. Moved(level[m], "release", n)
          = [on_hand |-> level[m].on_hand + 0, reserved |-> level[m].reserved + (-n)]
      BY DEF Moved, OnHandChange, ReservedChange
    <3> QED BY <2>1, <3>1, <3>2, <3>3, LevelType DEF SoundLevel
  <2> QED BY <2>2, <2>3, <2>4 DEF CancelAllowed, Unlocked
<1> QED BY <1>1, <1>2, PTL

-----------------------------------------------------------------------------
(* The counters: what the rows of an order count and what was recorded.      *)
OfOrder(o, m) == {r \in Reservation : OrderOf[r] = o /\ MaterialOf[r] = m}
Recorded(o, m, t) == {v \in moved : v.order = o /\ v.material = m /\ v.type = t}

(* The same with the sums over all rows, created or not.                     *)
CountersMatch ==
  \A o \in ProductionOrder, m \in Material, t \in UseType \ {"release"} :
    Sum([r \in Reservation |-> mr[r].used[t]], OfOrder(o, m))
    = Sum([v \in Movement |-> v.quantity], Recorded(o, m, t))

(* The quantities of some movements, summed as CountersMatchMovements does.  *)
LEMMA QuantitiesSum ==
  ASSUME NEW S \in SUBSET Movement
  PROVE  MapThenSumSet(LAMBDA v : v.quantity, S) = Sum([v \in Movement |-> v.quantity], S)
<1> DEFINE q == [v \in Movement |-> v.quantity]
           IsQuantityFold(F) ==
             F = [s \in SUBSET S |-> IF s = {} THEN 0
                                     ELSE Some(s).quantity + F[s \ {Some(s)}]]
<1>1. MapThenSumSet(LAMBDA v : v.quantity, S) = (CHOOSE F : IsQuantityFold(F))[S]
  BY Zenon DEF MapThenSumSet, MapThenFoldSet, Some
<1>2. \A s \in SUBSET S : s # {} => q[Some(s)] = Some(s).quantity
  BY SomeIn
<1>3. \A F : IsFold(q, F, S) <=> IsQuantityFold(F)
  BY <1>2 DEF IsFold
<1> HIDE DEF IsQuantityFold, q
<1>4. (CHOOSE F : IsFold(q, F, S)) = (CHOOSE F : IsQuantityFold(F))
  BY <1>3, Zenon
<1>5. Sum(q, S) = (CHOOSE F : IsFold(q, F, S))[S]
  BY SumIsFold
<1>6. MapThenSumSet(LAMBDA v : v.quantity, S) = Sum(q, S)
  BY <1>1, <1>4, <1>5, Zenon
<1> QED BY <1>6 DEF q

(* The rows of one order and material are finitely many.                     *)
LEMMA OfOrderFinite == ASSUME NEW o, NEW m PROVE IsFiniteSet(OfOrder(o, m))
<1>1. OfOrder(o, m) \in SUBSET Reservation
  BY DEF OfOrder
<1> QED BY <1>1, FS_Subset, ConstantsAssumption

(* A use is counted on its row, under its type, and nowhere else.            *)
LEMMA CountedOnce ==
  ASSUME NEW row \in Row, NEW u, u.type \in UseType, u.quantity \in Nat
  PROVE  \A t \in UseType :
           Counted(row, u).used[t] = row.used[t] + (IF t = u.type THEN u.quantity ELSE 0)
<1> DEFINE used == Adding(row, u.type, u.quantity)
<1>1. Counted(row, u).used = used
  BY DEF Counted, Row
<1>2. row.used \in [UseType -> Nat]
  BY DEF Row
<1>3. \A t \in UseType : used[t] = row.used[t] + (IF t = u.type THEN u.quantity ELSE 0)
  BY <1>2 DEF Adding
<1> QED BY <1>1, <1>3

(* A step that counts nothing and records nothing.                           *)
LEMMA NothingCounted ==
  ASSUME CountersMatch, moved' = moved,
         \A r \in Reservation, t \in UseType \ {"release"} : mr'[r].used[t] = mr[r].used[t]
  PROVE  CountersMatch'
<1> SUFFICES ASSUME NEW o \in ProductionOrder, NEW m \in Material, NEW t \in UseType \ {"release"}
             PROVE  Sum([r \in Reservation |-> mr'[r].used[t]], OfOrder(o, m))
                    = Sum([v \in Movement |-> v.quantity], Recorded(o, m, t)')
  BY DEF CountersMatch, OfOrder
<1>1. Recorded(o, m, t)' = Recorded(o, m, t)
  BY DEF Recorded
<1>2. [r \in Reservation |-> mr'[r].used[t]] = [r \in Reservation |-> mr[r].used[t]]
  OBVIOUS
<1> QED BY <1>1, <1>2 DEF CountersMatch

(* A use counts on its row what it records.                                  *)
LEMMA UseCounted ==
  ASSUME Inv, IsFiniteSet(moved), CountersMatch, NEW s \in Slot, CommitUse(s)
  PROVE  CountersMatch' /\ IsFiniteSet(moved')
<1> DEFINE u == job[s].use
           new == MovementOf(u)
           quantity == [v \in Movement |-> v.quantity]
<1>1. TypeOK
  BY DEF Inv
<1>2. /\ job[s].at = "holding" /\ Count(u) /\ \A v \in moved : v.key # u.key
      /\ moved' = moved \cup {new}
  BY DEF CommitUse
<1>3. /\ u.row \in Reservation /\ u.quantity \in Nat /\ u.type \in UseType
      /\ new \in Movement /\ new.key = u.key
  <2>1. u \in Use /\ u.row \in Reservation /\ u.quantity \in Nat /\ u.type \in UseType
    BY <1>1, <1>2, JobFields, ConstantsAssumption
  <2> QED BY <2>1, ConstantsAssumption DEF MovementOf, Movement
<1>4. new \notin moved
  BY <1>2, <1>3
<1>5. mr' = [mr EXCEPT ![u.row] = Counted(mr[u.row], u)]
  BY <1>2 DEF Count
<1>6. moved \subseteq Movement /\ IsFiniteSet(moved')
  BY <1>1, <1>2, FS_AddElement DEF TypeOK
<1>7. new.order = OrderOf[u.row] /\ new.material = MaterialOf[u.row]
      /\ new.type = u.type /\ new.quantity = u.quantity
  BY DEF MovementOf
<1> HIDE DEF u, new
<1>8. ASSUME NEW o \in ProductionOrder, NEW m \in Material, NEW t \in UseType \ {"release"}
      PROVE  Sum([r \in Reservation |-> mr'[r].used[t]], OfOrder(o, m))
             = Sum(quantity, Recorded(o, m, t)')
  <2> DEFINE before == [r \in Reservation |-> mr[r].used[t]]
             after == [r \in Reservation |-> mr'[r].used[t]]
             R == Recorded(o, m, t)
             Here == new.order = o /\ new.material = m /\ new.type = t
  <2>1. \A r \in OfOrder(o, m) : r \in Reservation /\ before[r] \in Int
    BY <1>1, RowFields DEF OfOrder, TypeOK, Row
  <2>2. Sum(before, OfOrder(o, m)) = Sum(quantity, R)
    BY DEF CountersMatch
  <2>3. \A r \in Reservation : after[r] = before[r] + (IF r = u.row /\ u.type = t
                                                     THEN u.quantity ELSE 0)
    <3>1. ASSUME NEW r \in Reservation, r = u.row
          PROVE  mr'[r] = Counted(mr[r], u)
      BY <1>1, <1>5, <3>1 DEF TypeOK
    <3>2. ASSUME NEW r \in Reservation, r # u.row
          PROVE  mr'[r] = mr[r]
      BY <1>1, <1>5, <3>2 DEF TypeOK
    <3>3. \A r \in Reservation : mr[r] \in Row /\ mr[r].used[t] \in Nat
      BY <1>1 DEF TypeOK, Row
    <3> QED BY <1>3, <3>1, <3>2, <3>3, CountedOnce
  <2>4. CASE Here
    <3>1. u.row \in OfOrder(o, m) /\ u.type = t
      BY <1>3, <1>7, <2>4 DEF OfOrder
    <3>2. Recorded(o, m, t)' = R \cup {new}
      BY <1>2, <2>4 DEF Recorded
    <3> DEFINE d == [r \in Reservation |-> IF r = u.row THEN u.quantity ELSE 0]
    <3>3. Sum(after, OfOrder(o, m)) = Sum(before, OfOrder(o, m)) + Sum(d, OfOrder(o, m))
      <4>1. \A r \in OfOrder(o, m) : d[r] \in Int /\ after[r] = before[r] + d[r]
        BY <1>3, <2>1, <2>3, <3>1
      <4> HIDE DEF d, after, before
      <4> QED BY <2>1, <4>1, OfOrderFinite, SumAdds
    <3>4. Sum(d, OfOrder(o, m)) = u.quantity
      <4>1. \A r \in OfOrder(o, m) : d[r] \in Int /\ (r # u.row => d[r] = 0)
        BY <1>3 DEF OfOrder
      <4>2. d[u.row] = u.quantity
        BY <1>3
      <4> HIDE DEF d
      <4>3. Sum(d, OfOrder(o, m)) = u.quantity + Sum(d, OfOrder(o, m) \ {u.row})
        BY <3>1, <4>1, <4>2, OfOrderFinite, SumTakesOut
      <4>4. Sum(d, OfOrder(o, m) \ {u.row}) = 0
        <5>1. IsFiniteSet(OfOrder(o, m) \ {u.row})
          BY OfOrderFinite, FS_Subset
        <5> QED BY <4>1, <5>1, SumZero
      <4> QED BY <1>3, <4>3, <4>4
    <3>5. Sum(quantity, R \cup {new}) = u.quantity + Sum(quantity, R)
      <4>1. /\ new \in R \cup {new} /\ (R \cup {new}) \ {new} = R
            /\ R \cup {new} \in SUBSET moved'
        BY <1>2, <1>4 DEF Recorded
      <4>2. IsFiniteSet(R \cup {new})
        BY <1>6, <4>1, FS_Subset
      <4>3. \A v \in R \cup {new} : quantity[v] \in Int
        BY <1>3, <1>6 DEF Movement, Recorded
      <4>4. quantity[new] = u.quantity
        BY <1>3, <1>7
      <4> HIDE DEF quantity, R
      <4>5. Sum(quantity, R \cup {new}) = quantity[new] + Sum(quantity, (R \cup {new}) \ {new})
        BY <4>1, <4>2, <4>3, SumTakesOut
      <4> QED BY <4>1, <4>4, <4>5
    <3>6. Sum(before, OfOrder(o, m)) \in Int
      <4> HIDE DEF before
      <4> QED BY <2>1, OfOrderFinite, SumType
    <3> HIDE DEF d, before, after, R, quantity
    <3>7. Sum(after, OfOrder(o, m)) = Sum(quantity, Recorded(o, m, t)')
      BY <1>3, <2>2, <3>2, <3>3, <3>4, <3>5, <3>6
    <3> QED BY <3>7 DEF after
  <2>5. CASE ~Here
    <3>1. Recorded(o, m, t)' = R
      BY <1>2, <2>5 DEF Recorded
    <3>2. \A r \in OfOrder(o, m) : after[r] = before[r]
      <4>1. \A r \in OfOrder(o, m) : ~(r = u.row /\ u.type = t)
        BY <1>7, <2>5 DEF OfOrder
      <4>2. \A r \in OfOrder(o, m) : after[r] = before[r] + 0
        <5> HIDE DEF before, after
        <5> QED BY <2>1, <2>3, <4>1
      <4> HIDE DEF before, after
      <4> QED BY <2>1, <4>2
    <3> HIDE DEF before, after, R, quantity
    <3>3. Sum(after, OfOrder(o, m)) = Sum(quantity, Recorded(o, m, t)')
      BY <2>2, <3>1, <3>2, SumSame
    <3> QED BY <3>3 DEF after
  <2> QED BY <2>4, <2>5
<1> QED BY <1>6, <1>8 DEF CountersMatch, OfOrder

(* Every step keeps the counters.                                            *)
LEMMA CountersStep ==
  ASSUME Inv, NothingRaced, IsFiniteSet(moved), CountersMatch, [Next]_vars
  PROVE  CountersMatch' /\ IsFiniteSet(moved')
<1> DEFINE Goal == CountersMatch' /\ IsFiniteSet(moved')
           Kept == /\ moved' = moved
                   /\ \A r \in Reservation, t \in UseType \ {"release"} :
                        mr'[r].used[t] = mr[r].used[t]
<1>1. ASSUME Kept PROVE Goal
  BY <1>1, NothingCounted
<1>2. ASSUME mr' = mr, moved' = moved PROVE Kept
  BY <1>2
<1>3. ASSUME NEW o \in ProductionOrder, NEW wants \in Requirements(o), Plan(o, wants)
      PROVE  Kept
  <2>1. \A r \in DOMAIN wants : mr[r].status = "none"
    BY DEF Requirements, NewRows
  <2>2. \A r \in Reservation : r \in DOMAIN wants => \A t \in UseType : mr[r].used[t] = 0
    BY <2>1, RowAt
  <2> QED BY <1>3, <2>2 DEF Plan, NoUse, stockVars
<1>4. ASSUME NEW o \in ProductionOrder, CancelProduction(o) PROVE Kept
  <2>1. moved' = moved
    BY <1>4 DEF CancelProduction
  <2>2. \A r \in Reservation : mr'[r] = mr[r] \/ mr'[r] = Released(mr[r])
    BY <1>4 DEF CancelProduction
  <2>3. \A r \in Reservation : mr[r] \in Row
    BY RowAt
  <2>4. ASSUME NEW row \in Row, NEW t \in UseType \ {"release"}
        PROVE  Released(row).used[t] = row.used[t]
    BY DEF Row, Released, Adding
  <2> QED BY <2>1, <2>2, <2>3, <2>4
<1>5. ASSUME NEW s \in Slot, ReserveMaterials(s) PROVE Kept
  <2>1. \A r \in Reservation : mr[r] \in Row
    BY RowAt
  <2>2. moved' = moved
    BY <1>5 DEF ReserveMaterials
  <2>3. ASSUME NEW r \in Reservation PROVE mr'[r].used = mr[r].used
    BY <1>5, <2>1 DEF ReserveMaterials, Row
  <2> QED BY <2>2, <2>3
<1>6. ASSUME NEW o \in ProductionOrder, OrderStep(o) PROVE Kept
  <2>1. CASE \E wants \in Requirements(o) : PlanProduction(o, wants)
    BY <1>3, <2>1 DEF PlanProduction
  <2>2. CASE CancelProduction(o)
    BY <1>4, <2>2
  <2> HIDE DEF Kept
  <2> QED
    BY <1>2, <1>6, <2>1, <2>2
    DEF OrderStep, CreateProductionOrder, StartProduction, ResumeProduction,
        PauseProduction, CompleteProduction, CompleteQualityCheck, Transition, stockVars
<1>7. ASSUME NEW s \in Slot, BeginStep(s) PROVE Kept
  <2> HIDE DEF Kept
  <2> QED
    BY <1>2, <1>7
    DEF BeginStep, PreloadForPlan, ReadForReserve, ReadForQualityCheck, AdmitUse, stockVars
<1>8. ASSUME NEW s \in Slot, SlotStep(s) PROVE Goal
  <2>1. CASE CommitUse(s)
    BY <2>1, UseCounted
  <2>2. ~CommitUseRaced(s)
    BY DEF CommitUseRaced, NothingRaced
  <2>3. ASSUME job[s].at = "planning", NEW wants \in Requirements(job[s].order),
               PlanPreloaded(s, wants)
        PROVE  Kept
    <3>1. job[s].order \in ProductionOrder
      BY <2>3, JobFields DEF Inv, TypeOK
    <3> QED BY <1>3, <2>3, <3>1 DEF PlanPreloaded
  <2> HIDE DEF Kept, Goal
  <2> QED
    BY <1>1, <1>2, <1>5, <1>8, <2>1, <2>2, <2>3
    DEF SlotStep, StartQualityCheck, ReplayUse, HoldRow, Abort, stockVars, Goal
<1>9. ASSUME StockStep PROVE Kept
  <2> HIDE DEF Kept
  <2> QED BY <1>2, <1>9 DEF StockStep, StaffMovement, SetActive, stockVars
<1>10. ASSUME UNCHANGED vars PROVE Goal
  <2> HIDE DEF Kept, Goal
  <2> QED BY <1>1, <1>2, <1>10 DEF vars, Goal
<1> HIDE DEF Kept, Goal
<1>11. ASSUME Next PROVE Goal
  BY <1>1, <1>6, <1>7, <1>8, <1>9, <1>11 DEF Next
<1>12. Goal
  BY <1>10, <1>11
<1> QED BY <1>12 DEF Goal

(* The inductive invariant of the counters.                                  *)
CountersInv == Inv /\ NothingRaced /\ CountersMatch /\ IsFiniteSet(moved)

(* It holds in the beginning: nothing is counted, nothing recorded.          *)
LEMMA CountersInvInit == Init => CountersInv
<1> SUFFICES ASSUME Init PROVE CountersInv
  OBVIOUS
<1>1. Inv /\ NothingRaced
  BY InvInit DEF Init, Idle, NothingRaced
<1>2. moved = {} /\ IsFiniteSet(moved)
  BY FS_EmptySet DEF Init
<1>3. ASSUME NEW o \in ProductionOrder, NEW m \in Material, NEW t \in UseType \ {"release"}
      PROVE  Sum([r \in Reservation |-> mr[r].used[t]], OfOrder(o, m))
             = Sum([v \in Movement |-> v.quantity], Recorded(o, m, t))
  <2> DEFINE q == [r \in Reservation |-> mr[r].used[t]]
  <2>1. Recorded(o, m, t) = {}
    BY <1>2 DEF Recorded
  <2>2. \A r \in OfOrder(o, m) : q[r] = 0
    BY DEF Init, NoUse, OfOrder
  <2> HIDE DEF q
  <2>3. Sum(q, OfOrder(o, m)) = 0
    BY <2>2, OfOrderFinite, SumZero
  <2>4. Sum([v \in Movement |-> v.quantity], {}) = 0
    BY SumEmpty
  <2> QED BY <2>1, <2>3, <2>4 DEF q
<1> QED BY <1>1, <1>2, <1>3 DEF CountersInv, CountersMatch

(* The sums of the property are those of the invariant: a row that no plan   *)
(* has created counts nothing.                                               *)
LEMMA CountersAsStated == CountersInv => CountersMatchMovements
<1> SUFFICES ASSUME CountersInv, NEW o \in ProductionOrder, NEW m \in Material,
                    NEW t \in UseType \ {"release"}
             PROVE  Total([r \in Rows(o) |-> mr[r].used[t]], m)
                    = MapThenSumSet(LAMBDA v : v.quantity, Recorded(o, m, t))
  BY Zenon DEF CountersMatchMovements, Recorded
<1> DEFINE some == [r \in Rows(o) |-> mr[r].used[t]]
           all == [r \in Reservation |-> mr[r].used[t]]
           P == {r \in Rows(o) : MaterialOf[r] = m}
<1>1. Inv /\ TypeOK /\ CountersMatch
  BY DEF CountersInv, Inv
<1>2. Recorded(o, m, t) \in SUBSET Movement
  BY <1>1 DEF Recorded, TypeOK
<1>3. Sum(some, P) = Sum(all, P)
  <2>1. \A r \in P : some[r] = all[r]
    BY DEF Rows
  <2> HIDE DEF some, all, P
  <2> QED BY <2>1, SumSame
<1>4. Sum(all, OfOrder(o, m)) = Sum(all, P)
  <2>1. P \in SUBSET OfOrder(o, m)
    BY DEF Rows, OfOrder
  <2>2. ASSUME NEW r \in OfOrder(o, m) PROVE all[r] \in Int /\ (r \notin P => all[r] = 0)
    <3>1. r \in Reservation /\ mr[r] \in Row
      BY <1>1, RowAt DEF OfOrder
    <3>2. r \notin P => mr[r].status = "none"
      BY <3>1 DEF Rows, OfOrder
    <3> QED BY <1>1, <3>1, <3>2, RowAt DEF Row
  <2> HIDE DEF all, P
  <2> QED BY <2>1, <2>2, OfOrderFinite, SumOfPart
<1>5. Total(some, m) = Sum(some, P)
  BY TotalIsSum
<1>6. Sum(all, OfOrder(o, m)) = Sum([v \in Movement |-> v.quantity], Recorded(o, m, t))
  BY <1>1 DEF CountersMatch
<1>7. MapThenSumSet(LAMBDA v : v.quantity, Recorded(o, m, t))
      = Sum([v \in Movement |-> v.quantity], Recorded(o, m, t))
  BY <1>2, QuantitiesSum
<1> HIDE DEF some, all, P
<1>8. Total(some, m) = MapThenSumSet(LAMBDA v : v.quantity, Recorded(o, m, t))
  BY <1>3, <1>4, <1>5, <1>6, <1>7, Zenon
<1> QED BY <1>8, Zenon DEF some

(* However often a use is sent, raced or retried, the counters of an order's *)
(* rows agree with the movements recorded for the order, as long as clients  *)
(* use a key for one row of an order's material.                             *)
THEOREM CountersAgree ==
  ASSUME OneRowPerMovement
  PROVE  Spec => []CountersMatchMovements
<1>1. Init => CountersInv
  BY CountersInvInit
<1>2. CountersInv /\ [Next]_vars => CountersInv'
  <2> SUFFICES ASSUME CountersInv, [Next]_vars PROVE CountersInv'
    OBVIOUS
  <2>1. Inv' /\ NothingRaced' /\ CountersMatch' /\ IsFiniteSet(moved')
    BY InvStep, NothingRacedStep, CountersStep DEF CountersInv
  <2> QED BY <2>1 DEF CountersInv
<1> QED BY <1>1, <1>2, CountersAsStated, PTL DEF Spec
=============================================================================
