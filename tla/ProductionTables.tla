-------------------------- MODULE ProductionTables --------------------------
(***************************************************************************)
(* The two transition tables of production: the lifecycle of a production  *)
(* order and of one of its material reservations.  Shared by the detailed  *)
(* model (Production) and by what it promises (ProductionLifecycle).       *)
(***************************************************************************)

Status == {"absent", "pending", "planned", "materials_reserved", "in_production",
           "quality_check", "paused", "ready", "completed", "cancelled"}

Terminal == {"completed", "cancelled"}

(* PRODUCTION_ORDER_TRANSITIONS; cancelling is the last disjunct. *)
MayMove(from, to) ==
  \/ <<from, to>> \in
       {<<"pending", "planned">>,
        <<"planned", "materials_reserved">>,
        <<"materials_reserved", "in_production">>,
        <<"in_production", "quality_check">>, <<"in_production", "paused">>,
        <<"paused", "in_production">>,
        <<"quality_check", "ready">>, <<"quality_check", "in_production">>,
        <<"ready", "completed">>}
  \/ to = "cancelled" /\ from \notin Terminal \cup {"absent"}

(* "none": a row that no plan has created yet. *)
RowStatus == {"none", "pending", "reserved", "consumed", "released"}

(* PRODUCTION_MATERIAL_RESERVATION_TRANSITIONS, with the stutter the code *)
(* allows by validating only a status that changes.                       *)
RowMayMove(from, to) ==
  from = to \/ <<from, to>> \in {<<"pending", "reserved">>,
                                 <<"reserved", "consumed">>, <<"reserved", "released">>}

(* The statuses in which no material may still be held for the order. *)
Finished == {"quality_check", "ready"} \cup Terminal
=============================================================================
