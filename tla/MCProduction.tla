---------------------------- MODULE MCProduction ----------------------------
(* Small instances of Production.  Rows r1 and r2 belong to order o1, row r3 *)
(* to o2; r1 and r3 are of material m1, r2 of the material Second.           *)
EXTENDS Production, TLC

CONSTANTS o1, o2, r1, r2, r3, m1, m2, k1, k2, k3, k4, Second

RowsOfOrders == r1 :> o1 @@ r2 :> o1 @@ r3 :> o2
RowsOfMaterials == r1 :> m1 @@ r2 :> Second @@ r3 :> m1
Restricted(f) == [r \in Reservation |-> f[r]]
MCOrderOf == Restricted(RowsOfOrders)
MCMaterialOf == Restricted(RowsOfMaterials)

Interchangeable == Permutations(User) \cup Permutations(Slot)

Stocked == [m \in Material |-> [on_hand |-> 2, reserved |-> 0]]

Asks(r, t, q, k) == [row |-> r, type |-> t, quantity |-> q, key |-> k]

Buying == {[type |-> "purchase", quantity |-> 1]}

(* Two orders after the same material: used, wasted and given back in part. *)
EachItsKey ==
  {Asks(r1, "consume", 1, k1), Asks(r1, "return", 1, k2),
   Asks(r3, "production_waste", 1, k3), Asks(r3, "release", 1, k4)}

(* One key for two rows of the same order and material: a client's mistake. *)
OneKeyTwoRows == {Asks(r1, "consume", 1, k1), Asks(r2, "consume", 1, k1)}
CarelessKeys == OneKeyTwoRows \cup {Asks(r1, "return", 1, k1), Asks(r1, "return", 0, k2)}

(* Staff who buy, but also write off and release what orders have reserved. *)
Meddling ==
  Buying \cup {[type |-> "consume", quantity |-> 1], [type |-> "release", quantity |-> 1],
               [type |-> "adjust", quantity |-> -1]}
=============================================================================
