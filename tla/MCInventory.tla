---------------------------- MODULE MCInventory ----------------------------
(* Model-checking instances of Inventory. *)
EXTENDS Inventory, TLC

CONSTANTS m1, m2, k1, k2, k3, r1, r2, r3

Interchangeable == Permutations(Request) \cup Permutations(Key)

Op(m, type, qty) == [material |-> m, type |-> type, quantity |-> qty]

(* Every movement type by one unit, an adjustment down, a quantity the       *)
(* service refuses, and one operation on another material so that a key can  *)
(* be reused across materials.                                               *)
EveryOperation ==
  {Op(m1, t, 1) : t \in MovementType}
    \cup {Op(m1, "adjust", -1), Op(m1, "consume", -1), Op(m2, "purchase", 1)}
=============================================================================
