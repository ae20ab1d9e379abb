----------------------------- MODULE StockRules -----------------------------
(***************************************************************************)
(* The arithmetic of a stock movement: what each movement type does to the *)
(* two balances of a material, and which balances the service accepts.     *)
(* Pure operators, shared by Inventory (the stock service on its own) and  *)
(* Production (orders that reserve and use the same stock).                *)
(***************************************************************************)
EXTENDS Integers

MovementType == {"purchase", "reserve", "release", "consume",
                 "production_waste", "inventory_waste", "adjust", "return"}

(* The delta vectors of _MOVEMENT_DELTAS, already multiplied by the quantity. *)

OnHandChange(type, qty) ==
  IF type \in {"purchase", "adjust"} THEN qty
  ELSE IF type \in {"consume", "production_waste", "inventory_waste"} THEN -qty
  ELSE 0

ReservedChange(type, qty) ==
  IF type = "reserve" THEN qty
  ELSE IF type \in {"release", "consume", "production_waste", "return"} THEN -qty
  ELSE 0

Moved(lvl, type, qty) ==
  [on_hand  |-> lvl.on_hand + OnHandChange(type, qty),
   reserved |-> lvl.reserved + ReservedChange(type, qty)]

(* The balances apply_movement lets through, which are also the three CHECK *)
(* constraints of the stock_levels table.                                   *)
SoundLevel ==
  {lvl \in [on_hand : Nat, reserved : Nat] : lvl.reserved <= lvl.on_hand}

EmptyLevel == [on_hand |-> 0, reserved |-> 0]

(* Zero never moves; only an adjustment may carry a negative quantity. *)
ValidQuantity(type, qty) == qty # 0 /\ (qty > 0 \/ type = "adjust")
=============================================================================
