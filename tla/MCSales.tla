------------------------------ MODULE MCSales ------------------------------
(* Small instances of Sales: q1 asks for a deposit in up to two parts, q2   *)
(* for none, and q3 for all of its total.                                   *)
EXTENDS Sales, TLC

CONSTANTS q1, q2, q3

Totals == q1 :> 3 @@ q2 :> 2 @@ q3 :> 2
Deposits == q1 :> 2 @@ q2 :> 0 @@ q3 :> 2
MCTotal == [q \in Quote |-> Totals[q]]
MCDeposit == [q \in Quote |-> Deposits[q]]

Viewers == Permutations(Viewer)
=============================================================================
