------------------------- MODULE ProductionLifecycle -------------------------
(***************************************************************************)
(* What production promises to the workshop and to the warehouse, one      *)
(* order at a time and in one step per change:                             *)
(*   - an order moves along its transition table, and never out of a       *)
(*     terminal status;                                                    *)
(*   - it comes to hold material only by the step that reserves it, and    *)
(*     holds none from quality check on, nor once it is cancelled;         *)
(*   - an inspector is recorded by the step into quality check and by the  *)
(*     decision, and is never the order's worker.                          *)
(* Production implements this module: see ImplementsLifecycle there.       *)
(***************************************************************************)
EXTENDS ProductionTables

CONSTANTS ProductionOrder, User, Nobody

VARIABLES stage,   \* [ProductionOrder -> Status]
          holders, \* the orders for which material is held
          maker,   \* [ProductionOrder -> User or Nobody]: its worker
          judge    \* [ProductionOrder -> User or Nobody]: its inspector

LCInit ==
  /\ stage = [o \in ProductionOrder |-> "absent"]
  /\ holders = {}
  /\ maker = [o \in ProductionOrder |-> Nobody]
  /\ judge = [o \in ProductionOrder |-> Nobody]

Move(o, to) == MayMove(stage[o], to) /\ stage' = [stage EXCEPT ![o] = to]

Open(o) ==
  /\ stage[o] = "absent"
  /\ stage' = [stage EXCEPT ![o] = "pending"]
  /\ UNCHANGED <<holders, maker, judge>>

Plan(o) == Move(o, "planned") /\ UNCHANGED <<holders, maker, judge>>

Reserve(o) ==
  /\ Move(o, "materials_reserved")
  /\ holders' = holders \cup {o}
  /\ UNCHANGED <<maker, judge>>

(* Starting or resuming names the worker, unless there is one already. *)
Work(o, u) ==
  /\ stage[o] \in {"materials_reserved", "paused"} /\ Move(o, "in_production")
  /\ maker' = [maker EXCEPT ![o] = IF maker[o] = Nobody THEN u ELSE maker[o]]
  /\ UNCHANGED <<holders, judge>>

Rest(o) == Move(o, "paused") /\ UNCHANGED <<holders, maker, judge>>

Judge(o, u) == u # maker[o] /\ judge' = [judge EXCEPT ![o] = u]

Inspect(o, u) ==
  /\ o \notin holders
  /\ Move(o, "quality_check") /\ Judge(o, u)
  /\ UNCHANGED <<holders, maker>>

Decide(o, u) ==
  /\ stage[o] = "quality_check"
  /\ Move(o, "ready") \/ Move(o, "in_production")
  /\ Judge(o, u)
  /\ UNCHANGED <<holders, maker>>

Complete(o) == Move(o, "completed") /\ UNCHANGED <<holders, maker, judge>>

Cancel(o) ==
  /\ Move(o, "cancelled")
  /\ holders' = holders \ {o}
  /\ UNCHANGED <<maker, judge>>

(* The last of the material held is used, wasted, returned or released. *)
LetGo(o) ==
  /\ o \in holders /\ stage[o] \notin Finished
  /\ holders' = holders \ {o}
  /\ UNCHANGED <<stage, maker, judge>>

LCNext ==
  \E o \in ProductionOrder :
    \/ Open(o) \/ Plan(o) \/ Reserve(o) \/ Rest(o)
    \/ Complete(o) \/ Cancel(o) \/ LetGo(o)
    \/ \E u \in User : Work(o, u) \/ Inspect(o, u) \/ Decide(o, u)

Spec == LCInit /\ [][LCNext]_<<stage, holders, maker, judge>>
=============================================================================
