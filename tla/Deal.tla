-------------------------------- MODULE Deal --------------------------------
(***************************************************************************)
(* What a quote and its order promise together, as one agreement: it is    *)
(* offered, agreed, and then won, by payment of the deposit or by waiving  *)
(* it, or lost.  Money is taken only while it is agreed, and a deal that   *)
(* is won or lost stays so.  Sales is shown to implement it.               *)
(***************************************************************************)
EXTENDS Naturals

CONSTANTS Quote, Total, Deposit   \* Total, Deposit: [Quote -> Nat]

VARIABLES deal,       \* [Quote -> Phase]
          collected   \* [Quote -> Nat]

Phase == {"none", "offered", "agreed", "won", "lost"}

Init == deal = [q \in Quote |-> "none"] /\ collected = [q \in Quote |-> 0]

Become(q, from, to) == deal[q] \in from /\ deal' = [deal EXCEPT ![q] = to]

Offer(q) == Become(q, {"none"}, "offered") /\ UNCHANGED collected
Agree(q) == Become(q, {"offered"}, "agreed") /\ UNCHANGED collected
Waive(q) == Become(q, {"agreed"}, "won") /\ UNCHANGED collected
Lose(q) == Become(q, {"offered", "agreed"}, "lost") /\ UNCHANGED collected

(* The deal is won by the very payment that completes the deposit. *)
Collect(q) ==
  \E sum \in (collected[q] + 1)..Total[q] :
    /\ collected' = [collected EXCEPT ![q] = sum]
    /\ Become(q, {"agreed"}, IF sum >= Deposit[q] THEN "won" ELSE "agreed")

Next == \E q \in Quote : Offer(q) \/ Agree(q) \/ Collect(q) \/ Waive(q) \/ Lose(q)

Spec == Init /\ [][Next]_<<deal, collected>>
=============================================================================
