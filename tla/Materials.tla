----------------------------- MODULE Materials -----------------------------
(***************************************************************************)
(* Materials and their price history (materials_service.py and the         *)
(* handlers of materials.py).                                              *)
(*                                                                         *)
(* A price holds from a day on, until the next.  A price may be added for  *)
(* any day, also one in the past; the table is only ever added to.  The    *)
(* handler first reads the price that is in force, for the audit event,    *)
(* and then adds the row: work[c] is how far clerk c's request is.         *)
(***************************************************************************)
EXTENDS Naturals, FiniteSets, Sequences

CONSTANTS Material,     \* codes
          Clerk,
          Cost,         \* unit_price_minor
          LastDay,      \* bound: days are 0 .. LastDay
          MaxPrices     \* bound: rows of a material

ASSUME MaterialsAssumption == LastDay \in Nat /\ MaxPrices \in Nat /\ Cost \subseteq Nat

VARIABLES today,
          material,   \* [Material -> "absent", or whether it is active]: materials
          history,    \* [Material -> its rows]: material_prices
          events,     \* [Material -> its price events, as they were committed]
          work        \* [Clerk -> what the request has read]

materialsVars == <<today, material, history, events, work>>

Day == 0 .. LastDay

PriceRow == [from : Day, cost : Cost]

(* MATERIAL_PRICE_CHANGED: the row that was added, and the price, if any,   *)
(* that the handler had found in force.                                    *)
PriceEvent == [from : Day, previous : SUBSET Cost, new : Cost]

AtRest == [at |-> "rest"]

MaterialsInit ==
  /\ today = 0
  /\ material = [m \in Material |-> "absent"]
  /\ history = [m \in Material |-> {}]
  /\ events = [m \in Material |-> <<>>]
  /\ work = [c \in Clerk |-> AtRest]

Rest(c) == work' = [work EXCEPT ![c] = AtRest]

(* create_material: the code is free. *)
CheckCode(c, m) ==
  /\ work[c] = AtRest
  /\ material[m] = "absent"
  /\ work' = [work EXCEPT ![c] = [at |-> "creating", material |-> m]]
  /\ UNCHANGED <<today, material, history, events>>

(* The unique index refuses the second of two: 409 after all attempts. *)
InsertMaterial(c) ==
  /\ work[c].at = "creating"
  /\ material' = [material EXCEPT ![work[c].material] = IF @ = "absent" THEN "active" ELSE @]
  /\ Rest(c)
  /\ UNCHANGED <<today, history, events>>

(* update_material: an inactive material keeps its prices and gets new ones. *)
SetActive(m, to) ==
  /\ material[m] # "absent"
  /\ material' = [material EXCEPT ![m] = to]
  /\ UNCHANGED <<today, history, events, work>>

(* The price in force on day d by these rows, if any: the one of the       *)
(* latest day up to d (resolve_unit_price_minor).                          *)
InForce(rows, d) ==
  LET past == {row \in rows : row.from <= d}
  IN  {row.cost : row \in {row \in past : \A other \in past : other.from <= row.from}}

(* add_material_price reads the previous price without a lock. *)
ReadPrevious(c, m) ==
  /\ work[c] = AtRest
  /\ material[m] # "absent"
  /\ work' = [work EXCEPT ![c] =
       [at |-> "pricing", material |-> m, previous |-> InForce(history[m], today)]]
  /\ UNCHANGED <<today, material, history, events>>

(* Mutant: the previous price is read after the row was added. *)
AddPrice_ReadsLate(c, d, cost) ==
  /\ work[c].at = "pricing"
  /\ LET m == work[c].material
         row == [from |-> d, cost |-> cost]
     IN  IF \E other \in history[m] : other.from = d
         THEN UNCHANGED <<history, events>>
         ELSE /\ Cardinality(history[m]) < MaxPrices
              /\ history' = [history EXCEPT ![m] = @ \cup {row}]
              /\ events' = [events EXCEPT ![m] =
                   Append(@, [from |-> d, new |-> cost,
                              previous |-> InForce(history[m] \cup {row}, today)])]
  /\ Rest(c)
  /\ UNCHANGED <<today, material>>

(* add_price and the event, for any day; 409 when the material has a row   *)
(* of that day.                                                            *)
AddPrice(c, d, cost) ==
  /\ work[c].at = "pricing"
  /\ LET m == work[c].material
     IN  IF \E row \in history[m] : row.from = d
         THEN UNCHANGED <<history, events>>
         ELSE /\ Cardinality(history[m]) < MaxPrices
              /\ history' = [history EXCEPT ![m] = @ \cup {[from |-> d, cost |-> cost]}]
              /\ events' = [events EXCEPT ![m] =
                   Append(@, [from |-> d, new |-> cost, previous |-> work[c].previous])]
  /\ Rest(c)
  /\ UNCHANGED <<today, material>>

(* A request that is refused or fails. *)
GiveUp(c) ==
  /\ work[c] # AtRest
  /\ Rest(c)
  /\ UNCHANGED <<today, material, history, events>>

NextDay ==
  /\ today < LastDay
  /\ today' = today + 1
  /\ UNCHANGED <<material, history, events, work>>

MaterialsNext ==
  \/ \E c \in Clerk, m \in Material : CheckCode(c, m) \/ ReadPrevious(c, m)
  \/ \E c \in Clerk : InsertMaterial(c) \/ GiveUp(c)
  \/ \E m \in Material, to \in {"active", "inactive"} : SetActive(m, to)
  \/ \E c \in Clerk, d \in Day, cost \in Cost : AddPrice(c, d, cost)
  \/ NextDay

MaterialsSpec == MaterialsInit /\ [][MaterialsNext]_materialsVars

-----------------------------------------------------------------------------
MaterialsTypeOK ==
  /\ today \in Day
  /\ material \in [Material -> {"absent", "active", "inactive"}]
  /\ history \in [Material -> SUBSET PriceRow]
  /\ events \in [Material -> Seq(PriceEvent)]
  /\ \A c \in Clerk : work[c].at \in {"rest", "creating", "pricing"}

(* The rows that the first n of these events have added. *)
Added(trail, n) == {[from |-> trail[i].from, cost |-> trail[i].new] : i \in 1..n}

(* The rows of a material are those of its price events; and the previous   *)
(* price of an event was really in force, by the rows that were there before *)
(* its own: however many prices other clerks added between the reading and   *)
(* the insert, and for whatever days (add_material_price).                   *)
PricesAreTraced ==
  \A m \in Material :
    LET trail == events[m]
    IN  /\ history[m] = Added(trail, Len(trail))
        /\ \A i \in 1..Len(trail) : \E n \in 0..(i - 1), d \in 0..today :
             trail[i].previous = InForce(Added(trail, n), d)
=============================================================================
