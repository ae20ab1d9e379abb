----------------------------- MODULE SalesProofs -----------------------------
(***************************************************************************)
(* Quotes and orders, for any quotes, terms, payments and viewers, with    *)
(* the view endpoint as it is: the books, the orders and production are    *)
(* safe whatever it does, and a quote and its order agree, and together    *)
(* implement the abstract agreement, until a view comes too late.          *)
(***************************************************************************)
EXTENDS Sales, TLAPS

(* The steps that change orders, one by one, and the others. *)
OrderStep(q) ==
  \/ AcceptQuote(q) \/ ConfirmWithoutDeposit(q) \/ CancelOrder(q)
  \/ \E amount \in Amount : RecordDeposit(q, amount)

QuoteStep(q) ==
  CreateQuote(q) \/ SendQuote(q) \/ CancelQuote(q) \/ Expire(q) \/ RejectQuote(q)

ViewStep ==
  \/ \E q \in Quote : ViewQuote(q) \/ Lapse(q)
  \/ \E v \in Viewer, q \in Quote : OpenQuote(v, q)
  \/ \E v \in Viewer : RecordView(v) \/ AbandonView(v)

(* Every step is one of those or starts production. *)
LEMMA StepCases ==
  ASSUME [Next]_vars
  PROVE  \/ \E q \in Quote : OrderStep(q) \/ QuoteStep(q) \/ CreateProductionOrder(q)
         \/ ViewStep
         \/ UNCHANGED vars
  BY DEF Next, OrderStep, QuoteStep, ViewStep

(* Only order steps and production touch orders and production. *)
LEMMA ViewEffect ==
  ASSUME ViewStep
  PROVE  UNCHANGED <<order, produced>>
  BY DEF ViewStep, ViewQuote, Lapse, OpenQuote, RecordView, AbandonView, MarkViewed, salesVars

LEMMA QuoteEffect ==
  ASSUME NEW q \in Quote, QuoteStep(q)
  PROVE  UNCHANGED <<order, overdue, produced, reading>>
  BY DEF QuoteStep, CreateQuote, SendQuote, CancelQuote, Expire, RejectQuote

(* What an order step makes of the order: one of four things. *)
Made(q) ==
  /\ order[q].status = "none"
  /\ order' = [order EXCEPT ![q] =
                [status |-> "pending_deposit", paid |-> 0, balance |-> Total[q]]]
Decided(q, status) ==
  /\ order[q].status = "pending_deposit"
  /\ order' = [order EXCEPT ![q].status = status]
Paid(q, paid) ==
  /\ order[q].status = "pending_deposit"
  /\ order[q].paid < paid
  /\ paid <= Total[q]
  /\ order' = [order EXCEPT ![q] =
       [status |-> IF paid >= Deposit[q] THEN "confirmed" ELSE "pending_deposit",
        paid |-> paid, balance |-> Total[q] - paid]]

LEMMA OrderEffect ==
  ASSUME TypeOK, NEW q \in Quote, OrderStep(q)
  PROVE  /\ UNCHANGED <<overdue, produced, reading>>
         /\ \/ Made(q)
            \/ \E status \in {"confirmed", "cancelled"} : Decided(q, status)
            \/ \E paid \in Nat : Paid(q, paid)
  <1>1. CASE AcceptQuote(q)
    BY <1>1 DEF AcceptQuote, Made
  <1>2. CASE ConfirmWithoutDeposit(q)
    BY <1>2 DEF ConfirmWithoutDeposit, Decided, SetOrder
  <1>3. CASE CancelOrder(q)
    BY <1>3 DEF CancelOrder, Decided, SetOrder
  <1>4. ASSUME NEW amount \in Amount, RecordDeposit(q, amount)
        PROVE  /\ UNCHANGED <<overdue, produced, reading>>
               /\ \E paid \in Nat : Paid(q, paid)
    <2> DEFINE paid == order[q].paid + amount
    <2>1. /\ amount \in Nat /\ amount > 0
          /\ order \in [Quote -> Order]
          /\ order[q].paid \in Nat
          /\ paid \in Nat
      BY SalesAssumption DEF TypeOK, Order
    <2>2. order' = [order EXCEPT ![q] =
            [status |-> IF paid >= Deposit[q] THEN "confirmed" ELSE "pending_deposit",
             paid |-> paid, balance |-> Total[q] - paid]]
      BY <1>4, <2>1 DEF RecordDeposit, Deposited, Order
    <2>3. Paid(q, paid)
      BY <1>4, <2>1, <2>2 DEF RecordDeposit, Paid
    <2> QED
      BY <1>4, <2>1, <2>3 DEF RecordDeposit
  <1> QED
    BY <1>1, <1>2, <1>3, <1>4 DEF OrderStep

(* The three effects written out, for the order of q and for every other. *)
LEMMA OtherOrders ==
  ASSUME TypeOK, NEW q \in Quote, OrderStep(q)
  PROVE  /\ order' \in [Quote -> Order]
         /\ \A p \in Quote : p # q => order'[p] = order[p]
  <1>1. Total[q] \in Nat /\ order \in [Quote -> Order] /\ order[q] \in Order
    BY SalesAssumption DEF TypeOK
  <1>2. CASE Made(q)
    BY <1>1, <1>2 DEF Made, Order, OrderStatus
  <1>3. ASSUME NEW status \in {"confirmed", "cancelled"}, Decided(q, status)
        PROVE  /\ order' \in [Quote -> Order]
               /\ \A p \in Quote : p # q => order'[p] = order[p]
    BY <1>1, <1>3 DEF Decided, Order, OrderStatus
  <1>4. ASSUME NEW paid \in Nat, Paid(q, paid)
        PROVE  /\ order' \in [Quote -> Order]
               /\ \A p \in Quote : p # q => order'[p] = order[p]
    <2>1. Total[q] - paid \in Nat
      BY <1>1, <1>4 DEF Paid
    <2> QED
      BY <1>1, <1>4, <2>1 DEF Paid, Order, OrderStatus
  <1> QED
    BY <1>2, <1>3, <1>4, OrderEffect

-----------------------------------------------------------------------------
(* Every variable keeps its type; in particular balances never go below 0. *)
THEOREM TypeCorrect == Spec => []TypeOK
<1>1. Init => TypeOK
  BY DEF Init, TypeOK, QuoteStatus, Order, OrderStatus, NoOrder
<1>2. TypeOK /\ [Next]_vars => TypeOK'
  <2> SUFFICES ASSUME TypeOK, [Next]_vars PROVE TypeOK'
    OBVIOUS
  <2>1. ASSUME NEW q \in Quote, OrderStep(q) PROVE TypeOK'
    <3>1. quote' \in [Quote -> QuoteStatus]
      BY <2>1 DEF OrderStep, AcceptQuote, ConfirmWithoutDeposit, CancelOrder, RecordDeposit,
         Advance, SetQuote, TypeOK, QuoteStatus, Terminal
    <3> QED
      BY <2>1, <3>1, OrderEffect, OtherOrders DEF TypeOK
  <2>2. ASSUME NEW q \in Quote, QuoteStep(q) PROVE TypeOK'
    <3>1. quote' \in [Quote -> QuoteStatus]
      BY <2>2 DEF QuoteStep, CreateQuote, SendQuote, CancelQuote, Expire, RejectQuote, SetQuote,
         TypeOK, QuoteStatus, Terminal
    <3> QED
      BY <2>2, <3>1, QuoteEffect DEF TypeOK
  <2>3. ASSUME NEW q \in Quote, CreateProductionOrder(q) PROVE TypeOK'
    BY <2>3 DEF CreateProductionOrder, TypeOK, salesVars
  <2>4. CASE ViewStep
    <3>1. ASSUME NEW q \in Quote, MarkViewed(q)
          PROVE  quote' \in [Quote -> QuoteStatus]
                 /\ UNCHANGED <<order, overdue, produced>>
      BY <3>1 DEF MarkViewed, SetQuote, TypeOK, QuoteStatus
    <3>2. ASSUME NEW q \in Quote, ViewQuote(q) \/ Lapse(q) PROVE TypeOK'
      BY <3>1, <3>2 DEF ViewQuote, Lapse, TypeOK, salesVars
    <3>3. ASSUME NEW v \in Viewer, NEW q \in Quote, OpenQuote(v, q) PROVE TypeOK'
      BY <3>3 DEF OpenQuote, TypeOK, salesVars
    <3>4. ASSUME NEW v \in Viewer, RecordView(v) PROVE TypeOK'
      <4>1. reading[v] \in Quote
        BY <3>4 DEF RecordView, TypeOK
      <4> QED
        BY <3>1, <3>4, <4>1 DEF RecordView, TypeOK
    <3>5. ASSUME NEW v \in Viewer, AbandonView(v) PROVE TypeOK'
      BY <3>5 DEF AbandonView, TypeOK, salesVars
    <3> QED
      BY <2>4, <3>2, <3>3, <3>4, <3>5 DEF ViewStep
  <2>5. CASE UNCHANGED vars
    BY <2>5 DEF TypeOK, vars
  <2> QED
    BY <2>1, <2>2, <2>3, <2>4, <2>5, StepCases
<1> QED
  BY <1>1, <1>2, PTL DEF Spec

-----------------------------------------------------------------------------
(* An order that has not been made has received nothing. *)
Unmade == \A q \in Quote : order[q].status = "none" => order[q].paid = 0

OrderInv == Books /\ Unmade /\ ProducedIfConfirmed

LEMMA OrderInvInductive == TypeOK /\ OrderInv /\ [Next]_vars => OrderInv'
<1> SUFFICES ASSUME TypeOK, OrderInv, [Next]_vars PROVE OrderInv'
  OBVIOUS
<1>1. ASSUME NEW q \in Quote, OrderStep(q) PROVE OrderInv'
  <2>1. /\ order' \in [Quote -> Order]
        /\ \A p \in Quote : p # q => order'[p] = order[p]
        /\ order \in [Quote -> Order]
        /\ produced' = produced
        /\ order[q].status # "confirmed"
    BY <1>1, OtherOrders, OrderEffect DEF TypeOK, Made, Decided, Paid
  <2>2. Total[q] \in Nat /\ Deposit[q] \in Nat /\ order[q] \in Order
    BY SalesAssumption DEF TypeOK
  <2>3. /\ order'[q].status # "none"
        /\ order'[q].balance + order'[q].paid = Total[q]
        /\ order'[q].status = "pending_deposit" => order'[q].paid = 0 \/ order'[q].paid < Deposit[q]
    <3>1. CASE Made(q)
      BY <2>1, <2>2, <3>1 DEF Made, Order
    <3>2. ASSUME NEW status \in {"confirmed", "cancelled"}, Decided(q, status)
          PROVE  /\ order'[q].status = status
                 /\ order'[q].balance = order[q].balance
                 /\ order'[q].paid = order[q].paid
                 /\ order[q].balance + order[q].paid = Total[q]
      BY <2>1, <2>2, <3>2 DEF Decided, Order, OrderInv, Books
    <3>3. ASSUME NEW paid \in Nat, Paid(q, paid)
          PROVE  /\ order'[q].status =
                      (IF paid >= Deposit[q] THEN "confirmed" ELSE "pending_deposit")
                 /\ order'[q].paid = paid
                 /\ order'[q].balance = Total[q] - paid
      BY <2>1, <2>2, <3>3 DEF Paid, Order
    <3> QED
      BY <1>1, <2>2, <3>1, <3>2, <3>3, OrderEffect
  <2> QED
    BY <2>1, <2>3 DEF OrderInv, Books, Unmade, ProducedIfConfirmed, TypeOK
<1>2. ASSUME NEW q \in Quote, QuoteStep(q) PROVE OrderInv'
  BY <1>2, QuoteEffect DEF OrderInv, Books, Unmade, ProducedIfConfirmed
<1>3. ASSUME NEW q \in Quote, CreateProductionOrder(q) PROVE OrderInv'
  BY <1>3 DEF CreateProductionOrder, salesVars, OrderInv, Books, Unmade, ProducedIfConfirmed
<1>4. CASE ViewStep
  BY <1>4, ViewEffect DEF OrderInv, Books, Unmade, ProducedIfConfirmed
<1>5. CASE UNCHANGED vars
  BY <1>5 DEF vars, OrderInv, Books, Unmade, ProducedIfConfirmed
<1> QED
  BY <1>1, <1>2, <1>3, <1>4, <1>5, StepCases

(* The books of orders add up and production waits for a confirmed order,   *)
(* whatever the views, with every interleaving of requests.                 *)
THEOREM BooksAndProduction == Spec => [](Books /\ ProducedIfConfirmed)
<1>1. Init => OrderInv
  BY DEF Init, OrderInv, Books, Unmade, ProducedIfConfirmed, NoOrder
<1>2. OrderInv => Books /\ ProducedIfConfirmed
  BY DEF OrderInv
<1> QED
  BY <1>1, <1>2, TypeCorrect, OrderInvInductive, PTL DEF Spec

(* Orders are made once, keep their payments, and stay as they were decided. *)
THEOREM OrdersStandAlways == Spec => OrdersStand
<1> DEFINE Stands(q) ==
      /\ order'[q].paid >= order[q].paid
      /\ order[q].status # "none" => order'[q].status # "none"
      /\ order[q].status \in {"confirmed", "cancelled"} => order'[q] = order[q]
<1>1. Init => OrderInv
  BY DEF Init, OrderInv, Books, Unmade, ProducedIfConfirmed, NoOrder
<1>2. TypeOK /\ OrderInv /\ [Next]_vars => [\A q \in Quote : Stands(q)]_vars
  <2> SUFFICES ASSUME TypeOK, OrderInv, [Next]_vars PROVE \A q \in Quote : Stands(q)
    OBVIOUS
  <2>1. order' = order => \A q \in Quote : Stands(q)
    BY DEF TypeOK, Order
  <2>2. ASSUME NEW q \in Quote, OrderStep(q) PROVE \A p \in Quote : Stands(p)
    <3>1. ASSUME NEW p \in Quote, p # q PROVE Stands(p)
      BY <2>2, <3>1, OtherOrders DEF TypeOK, Order
    <3>2. order \in [Quote -> Order] /\ order[q] \in Order
      BY DEF TypeOK
    <3>3. CASE Made(q)
      BY <3>2, <3>3 DEF Made, Order, OrderInv, Unmade
    <3>4. ASSUME NEW status \in {"confirmed", "cancelled"}, Decided(q, status) PROVE Stands(q)
      BY <3>2, <3>4 DEF Decided, Order
    <3>5. ASSUME NEW paid \in Nat, Paid(q, paid) PROVE Stands(q)
      BY <3>2, <3>5 DEF Paid, Order
    <3>6. Stands(q)
      BY <2>2, <3>3, <3>4, <3>5, OrderEffect
    <3> QED
      BY <3>1, <3>6
  <2>3. CASE \E q \in Quote : QuoteStep(q)
    BY <2>1, <2>3, QuoteEffect
  <2>4. CASE \E q \in Quote : CreateProductionOrder(q)
    BY <2>1, <2>4 DEF CreateProductionOrder, salesVars
  <2>5. CASE ViewStep
    BY <2>1, <2>5, ViewEffect
  <2>6. CASE UNCHANGED vars
    BY <2>1, <2>6 DEF vars
  <2> QED
    BY <2>2, <2>3, <2>4, <2>5, <2>6, StepCases
<1> QED
  BY <1>1, <1>2, TypeCorrect, OrderInvInductive, PTL DEF Spec, OrdersStand

-----------------------------------------------------------------------------
(* As long as no view is written over a quote that has been decided. *)

(* A view is in time if its quote is still sent, or viewed, when it is      *)
(* written.                                                                 *)
ViewInTime ==
  \A q \in Quote : quote'[q] = "viewed" => quote[q] \in {"sent", "viewed"}

(* A view step in time marks a sent quote viewed or leaves quotes alone.    *)
LEMMA FreshView ==
  ASSUME TypeOK, ViewInTime, ViewStep
  PROVE  \/ quote' = quote
         \/ \E q \in Quote : quote[q] = "sent" /\ quote' = [quote EXCEPT ![q] = "viewed"]
<1>1. ASSUME NEW q \in Quote, quote' = [quote EXCEPT ![q] = "viewed"]
      PROVE  \/ quote' = quote
             \/ quote[q] = "sent" /\ quote' = [quote EXCEPT ![q] = "viewed"]
  <2>1. quote \in [Quote -> QuoteStatus] /\ quote[q] \in {"sent", "viewed"}
    BY <1>1 DEF TypeOK, ViewInTime
  <2> QED BY <1>1, <2>1
<1>2. ASSUME NEW v \in Viewer, RecordView(v)
      PROVE  reading[v] \in Quote /\ quote' = [quote EXCEPT ![reading[v]] = "viewed"]
  BY <1>2 DEF RecordView, MarkViewed, SetQuote, TypeOK
<1> QED
  BY <1>1, <1>2
  DEF ViewStep, ViewQuote, Lapse, OpenQuote, AbandonView, MarkViewed, SetQuote, salesVars

(* What each step makes of a quote together with its order. *)
LEMMA QuoteOfOrderStep ==
  ASSUME TypeOK, QuoteFollowsOrder, NEW q \in Quote, OrderStep(q)
  PROVE  \/ /\ Made(q)
            /\ quote[q] \in {"sent", "viewed"}
            /\ quote' = [quote EXCEPT ![q] = "deposit_required"]
         \/ /\ Decided(q, "confirmed")
            /\ quote[q] = "deposit_required"
            /\ quote' = [quote EXCEPT ![q] = "converted"]
         \/ /\ Decided(q, "cancelled")
            /\ quote[q] = "deposit_required"
            /\ quote' = [quote EXCEPT ![q] = "cancelled"]
         \/ /\ quote[q] = "deposit_required"
            /\ \E paid \in Nat :
                 /\ Paid(q, paid)
                 /\ quote' = IF paid >= Deposit[q]
                             THEN [quote EXCEPT ![q] = "converted"] ELSE quote
  <1>1. CASE AcceptQuote(q)
    BY <1>1 DEF AcceptQuote, Made, Allowed, SetQuote
  <1>2. CASE ConfirmWithoutDeposit(q)
    BY <1>2 DEF ConfirmWithoutDeposit, Decided, SetOrder, SetQuote, Advance, QuoteFollowsOrder
  <1>3. CASE CancelOrder(q)
    BY <1>3 DEF CancelOrder, Decided, SetOrder, SetQuote, Advance, QuoteFollowsOrder
  <1>4. ASSUME NEW amount \in Amount, RecordDeposit(q, amount)
        PROVE  /\ quote[q] = "deposit_required"
               /\ \E paid \in Nat :
                    /\ Paid(q, paid)
                    /\ quote' = IF paid >= Deposit[q]
                                THEN [quote EXCEPT ![q] = "converted"] ELSE quote
    <2> DEFINE paid == order[q].paid + amount
    <2>1. /\ amount \in Nat /\ amount > 0
          /\ order \in [Quote -> Order]
          /\ order[q].paid \in Nat
          /\ paid \in Nat
      BY SalesAssumption DEF TypeOK, Order
    <2>2. order' = [order EXCEPT ![q] =
            [status |-> IF paid >= Deposit[q] THEN "confirmed" ELSE "pending_deposit",
             paid |-> paid, balance |-> Total[q] - paid]]
      BY <1>4, <2>1 DEF RecordDeposit, Deposited, Order
    <2>3. Paid(q, paid)
      BY <1>4, <2>1, <2>2 DEF RecordDeposit, Paid
    <2>4. quote[q] = "deposit_required"
      BY <1>4 DEF RecordDeposit, QuoteFollowsOrder
    <2>5. quote' = IF paid >= Deposit[q] THEN [quote EXCEPT ![q] = "converted"] ELSE quote
      BY <1>4, <2>4 DEF RecordDeposit, Advance, SetQuote
    <2> QED
      BY <2>1, <2>3, <2>4, <2>5
  <1> QED
    BY <1>1, <1>2, <1>3, <1>4 DEF OrderStep

LEMMA QuoteOfQuoteStep ==
  ASSUME NEW q \in Quote, QuoteStep(q)
  PROVE  \/ quote[q] = "none" /\ quote' = [quote EXCEPT ![q] = "draft"]
         \/ /\ quote[q] = "draft"
            /\ \E s \in {"sent", "cancelled"} : quote' = [quote EXCEPT ![q] = s]
         \/ /\ quote[q] \in {"sent", "viewed", "accepted"}
            /\ \E s \in {"expired", "rejected", "cancelled"} : quote' = [quote EXCEPT ![q] = s]
  BY DEF QuoteStep, CreateQuote, SendQuote, CancelQuote, Expire, Expired, RejectQuote,
         Allowed, SetQuote

(* Quote and order agree after every step in which views are in time.       *)
LEMMA AgreeInductive ==
  TypeOK /\ QuoteFollowsOrder /\ [Next]_vars /\ [ViewInTime]_vars => QuoteFollowsOrder'
<1> SUFFICES ASSUME TypeOK, QuoteFollowsOrder, [Next]_vars, [ViewInTime]_vars
             PROVE  QuoteFollowsOrder'
  OBVIOUS
<1>1. ASSUME NEW q \in Quote, OrderStep(q) PROVE QuoteFollowsOrder'
  <2>2. /\ \A p \in Quote : p # q => order'[p] = order[p]
        /\ quote \in [Quote -> QuoteStatus] /\ order \in [Quote -> Order]
        /\ order[q] \in Order
    BY <1>1, OtherOrders DEF TypeOK
  <2>3. QuoteFollowsOrder'
    <3>1. CASE Made(q) /\ quote' = [quote EXCEPT ![q] = "deposit_required"]
      BY <2>2, <3>1 DEF Made, QuoteFollowsOrder
    <3>2. CASE Decided(q, "confirmed") /\ quote' = [quote EXCEPT ![q] = "converted"]
      BY <2>2, <3>2 DEF Decided, QuoteFollowsOrder, Order
    <3>3. CASE Decided(q, "cancelled") /\ quote' = [quote EXCEPT ![q] = "cancelled"]
      BY <2>2, <3>3 DEF Decided, QuoteFollowsOrder, Order
    <3>4. ASSUME NEW paid \in Nat, Paid(q, paid), quote[q] = "deposit_required",
                 quote' = IF paid >= Deposit[q]
                          THEN [quote EXCEPT ![q] = "converted"] ELSE quote
          PROVE  QuoteFollowsOrder'
      <4>1. CASE paid >= Deposit[q]
        BY <2>2, <3>4, <4>1 DEF Paid, QuoteFollowsOrder
      <4>2. CASE ~(paid >= Deposit[q])
        BY <2>2, <3>4, <4>2 DEF Paid, QuoteFollowsOrder
      <4> QED
        BY <4>1, <4>2
    <3> QED
      BY <1>1, <3>1, <3>2, <3>3, <3>4, QuoteOfOrderStep
  <2> QED
    BY <2>3
<1>2. ASSUME NEW q \in Quote, QuoteStep(q) PROVE QuoteFollowsOrder'
  <2>1. order' = order /\ reading' = reading
    BY <1>2, QuoteEffect
  <2> QED
    BY <1>2, <2>1, QuoteOfQuoteStep DEF QuoteFollowsOrder, TypeOK
<1>3. ASSUME NEW q \in Quote, CreateProductionOrder(q) PROVE QuoteFollowsOrder'
  BY <1>3 DEF CreateProductionOrder, salesVars, QuoteFollowsOrder
<1>4. CASE ViewStep /\ ViewInTime
  <2>1. order' = order
    BY <1>4, ViewEffect
  <2> QED
    BY <1>4, <2>1, FreshView DEF QuoteFollowsOrder, TypeOK
<1>5. CASE UNCHANGED vars
  BY <1>5 DEF vars, QuoteFollowsOrder
<1> QED
  BY <1>1, <1>2, <1>3, <1>4, <1>5, StepCases

LEMMA AgreeInitially == Init => QuoteFollowsOrder
<1> SUFFICES ASSUME Init, NEW q \in Quote
             PROVE  order[q].status = "none" /\ quote[q] = "none"
  BY DEF QuoteFollowsOrder
<1> QED BY DEF Init, NoOrder

(* Quote and order part only when a view is written over a quote that has   *)
(* been decided: in every run of the code as it is, in which no view comes  *)
(* too late, they agree in every state.                                     *)
THEOREM QuotesFollowOrders == Spec /\ [][ViewInTime]_vars => []QuoteFollowsOrder
  BY AgreeInductive, AgreeInitially, TypeCorrect, PTL DEF Spec

(* No view is under way between a read and its lock. *)
NoStaleView == \A v \in Viewer : reading[v] = NoQuote

(* With a view that decides on the row it has locked there is none, and     *)
(* every view is in time.                                                   *)
LEMMA LockedViews ==
  ASSUME ~ViewPreloads, TypeOK, NoStaleView, [Next]_vars
  PROVE  NoStaleView' /\ ViewInTime
<1>1. ASSUME NEW q \in Quote, OrderStep(q) PROVE NoStaleView' /\ ViewInTime
  <2>1. NoStaleView'
    BY <1>1, OrderEffect DEF NoStaleView
  <2>2. quote \in [Quote -> QuoteStatus] /\ order[q].status \in OrderStatus
    BY DEF TypeOK, Order
  <2>3. \E s \in {"deposit_required", "converted", "cancelled", quote[q]} :
          quote' = [quote EXCEPT ![q] = s]
    BY <1>1, <2>2
    DEF OrderStep, AcceptQuote, ConfirmWithoutDeposit, CancelOrder, RecordDeposit, Advance, SetQuote
  <2>4. ViewInTime
    BY <2>2, <2>3 DEF ViewInTime
  <2> QED BY <2>1, <2>4
<1>2. ASSUME NEW q \in Quote, QuoteStep(q) PROVE NoStaleView' /\ ViewInTime
  <2>1. reading' = reading
    BY <1>2, QuoteEffect
  <2> QED
    BY <1>2, <2>1, QuoteOfQuoteStep DEF ViewInTime, TypeOK, NoStaleView
<1>3. ASSUME NEW q \in Quote, CreateProductionOrder(q) PROVE NoStaleView' /\ ViewInTime
  BY <1>3 DEF CreateProductionOrder, salesVars, NoStaleView, ViewInTime
<1>4. CASE ViewStep
  BY <1>4 DEF NoStaleView, ViewStep, ViewQuote, Lapse, OpenQuote, RecordView, AbandonView,
              MarkViewed, SetQuote, salesVars, ViewInTime, TypeOK
<1>5. CASE UNCHANGED vars
  BY <1>5 DEF vars, NoStaleView, ViewInTime
<1> QED
  BY <1>1, <1>2, <1>3, <1>4, <1>5, StepCases

(* So the unlocked read of the view endpoint is all that contradicts the     *)
(* docstring of get_quote_for_update (sales_two_decisions): without it, a    *)
(* quote that has an order is never rejected or left to expire.              *)
THEOREM OneDecisionOfSeveral ==
  ASSUME ~ViewPreloads
  PROVE  Spec => []OneDecisionWins
<1>1. TypeOK /\ QuoteFollowsOrder => OneDecisionWins
  <2> SUFFICES ASSUME TypeOK, QuoteFollowsOrder, NEW q \in Quote, order[q].status # "none"
               PROVE  quote[q] \notin {"rejected", "expired"}
    BY DEF OneDecisionWins
  <2>1. order[q].status \in {"pending_deposit", "confirmed", "cancelled"}
    BY DEF TypeOK, Order, OrderStatus
  <2> QED BY <2>1 DEF QuoteFollowsOrder
<1>2. TypeOK /\ NoStaleView /\ [Next]_vars => NoStaleView' /\ ViewInTime
  BY LockedViews
<1>3. Init => NoStaleView
  BY DEF Init, NoStaleView
<1> QED BY <1>1, <1>2, <1>3, TypeCorrect, QuotesFollowOrders, PTL DEF Spec

-----------------------------------------------------------------------------
(* The agreement that quotes and orders implement. *)

Deals == [q \in Quote |-> DealOf(q)]
Sums == [q \in Quote |-> order[q].paid]

(* A step that touches the quote and the order of q only changes q's deal. *)
LEMMA OneDeal ==
  ASSUME NEW q \in Quote,
         \A p \in Quote : p # q => order'[p] = order[p] /\ quote'[p] = quote[p]
  PROVE  /\ Deals' = [Deals EXCEPT ![q] = DealOf(q)']
         /\ Sums' = [Sums EXCEPT ![q] = order'[q].paid]
  <1>1. \A p \in Quote : p # q => DealOf(p)' = DealOf(p)
    BY DEF DealOf
  <1> QED
    BY <1>1 DEF Deals, Sums

(* Under the invariants a deal is what its quote says. *)
LEMMA DealByQuote ==
  ASSUME QuoteFollowsOrder, TypeOK, NEW q \in Quote
  PROVE  /\ quote[q] \in {"draft", "sent", "viewed"} => DealOf(q) = "offered"
         /\ quote[q] = "none" => DealOf(q) = "none"
         /\ quote[q] = "deposit_required" => DealOf(q) = "agreed"
         /\ quote[q] = "converted" => DealOf(q) = "won"
         /\ quote[q] \in {"expired", "rejected", "cancelled"} => DealOf(q) = "lost"
  <1>1. order[q].status \in OrderStatus
    BY DEF TypeOK, Order
  <1> QED
    BY <1>1 DEF QuoteFollowsOrder, DealOf, OrderStatus

LEMMA OrderStepMaps ==
  ASSUME TypeOK, TypeOK', QuoteFollowsOrder, QuoteFollowsOrder', Unmade,
         NEW q \in Quote, OrderStep(q)
  PROVE  Agreement!Agree(q) \/ Agreement!Collect(q) \/ Agreement!Waive(q) \/ Agreement!Lose(q)
<1>1. /\ quote \in [Quote -> QuoteStatus]
      /\ order \in [Quote -> Order]
      /\ order[q] \in Order
      /\ \A p \in Quote : p # q => order'[p] = order[p]
      /\ Total[q] \in Nat
  BY OtherOrders, SalesAssumption DEF TypeOK
<1>2. \A p \in Quote : p # q => quote'[p] = quote[p]
  BY <1>1, QuoteOfOrderStep
<1>3. /\ Deals' = [Deals EXCEPT ![q] = DealOf(q)']
      /\ Sums' = [Sums EXCEPT ![q] = order'[q].paid]
  BY <1>1, <1>2, OneDeal
<1>4. Deals[q] = DealOf(q) /\ Sums[q] = order[q].paid
  BY DEF Deals, Sums
<1>5. order'[q].paid = order[q].paid => Sums' = Sums
  BY <1>3, <1>4 DEF Sums
<1>6. CASE Made(q) /\ quote[q] \in {"sent", "viewed"}
           /\ quote' = [quote EXCEPT ![q] = "deposit_required"]
  <2>1. DealOf(q) = "offered" /\ DealOf(q)' = "agreed"
    BY <1>1, <1>6, DealByQuote DEF DealOf, Made
  <2>2. order'[q].paid = order[q].paid
    BY <1>1, <1>6 DEF Made, Unmade
  <2> QED
    BY <1>3, <1>4, <1>5, <2>1, <2>2 DEF Agreement!Agree, Agreement!Become, Deals, Sums
<1>7. CASE Decided(q, "confirmed") /\ quote[q] = "deposit_required"
           /\ quote' = [quote EXCEPT ![q] = "converted"]
  <2>1. DealOf(q) = "agreed" /\ DealOf(q)' = "won"
    BY <1>1, <1>7, DealByQuote DEF DealOf, Decided, Order
  <2>2. order'[q].paid = order[q].paid
    BY <1>1, <1>7 DEF Decided, Order
  <2> QED
    BY <1>3, <1>4, <1>5, <2>1, <2>2 DEF Agreement!Waive, Agreement!Become, Deals, Sums
<1>8. CASE Decided(q, "cancelled") /\ quote[q] = "deposit_required"
           /\ quote' = [quote EXCEPT ![q] = "cancelled"]
  <2>1. DealOf(q) = "agreed" /\ DealOf(q)' = "lost"
    BY <1>1, <1>8, DealByQuote DEF DealOf, Decided, Order
  <2>2. order'[q].paid = order[q].paid
    BY <1>1, <1>8 DEF Decided, Order
  <2> QED
    BY <1>3, <1>4, <1>5, <2>1, <2>2 DEF Agreement!Lose, Agreement!Become, Deals, Sums
<1>9. ASSUME NEW paid \in Nat, Paid(q, paid), quote[q] = "deposit_required",
             quote' = IF paid >= Deposit[q]
                      THEN [quote EXCEPT ![q] = "converted"] ELSE quote
      PROVE  Agreement!Collect(q)
  <2>1. /\ DealOf(q) = "agreed"
        /\ DealOf(q)' = IF paid >= Deposit[q] THEN "won" ELSE "agreed"
    <3>1. CASE paid >= Deposit[q]
      BY <1>1, <1>9, <3>1, DealByQuote DEF DealOf, Paid
    <3>2. CASE ~(paid >= Deposit[q])
      BY <1>1, <1>9, <3>2, DealByQuote DEF DealOf, Paid
    <3> QED
      BY <3>1, <3>2
  <2>2. order'[q].paid = paid /\ order[q].paid < paid /\ paid <= Total[q]
    BY <1>1, <1>9 DEF Paid
  <2>3. paid \in (Sums[q] + 1)..Total[q]
    BY <1>1, <1>4, <2>2 DEF Order
  <2> QED
    BY <1>3, <1>4, <2>1, <2>2, <2>3 DEF Agreement!Collect, Agreement!Become, Deals, Sums
<1> QED
  BY <1>6, <1>7, <1>8, <1>9, QuoteOfOrderStep

LEMMA QuoteStepMaps ==
  ASSUME TypeOK, TypeOK', QuoteFollowsOrder, QuoteFollowsOrder',
         NEW q \in Quote, QuoteStep(q)
  PROVE  Agreement!Offer(q) \/ Agreement!Lose(q) \/ UNCHANGED <<Deals, Sums>>
<1>1. order' = order /\ quote \in [Quote -> QuoteStatus]
  BY QuoteEffect DEF TypeOK
<1>2. \A p \in Quote : p # q => order'[p] = order[p] /\ quote'[p] = quote[p]
  BY <1>1, QuoteOfQuoteStep
<1>3. Deals' = [Deals EXCEPT ![q] = DealOf(q)'] /\ Sums' = Sums
  BY <1>1, <1>2, OneDeal DEF Sums
<1>4. Deals[q] = DealOf(q)
  BY DEF Deals
<1>5. /\ quote'[q] \in {"draft", "sent", "viewed"} => DealOf(q)' = "offered"
      /\ quote'[q] \in {"expired", "rejected", "cancelled"} => DealOf(q)' = "lost"
  <2>1. order'[q].status \in OrderStatus
    BY DEF TypeOK, Order
  <2> QED
    BY <2>1 DEF QuoteFollowsOrder, DealOf, OrderStatus
<1>6. CASE quote[q] = "none" /\ quote' = [quote EXCEPT ![q] = "draft"]
  BY <1>1, <1>3, <1>4, <1>5, <1>6, DealByQuote
     DEF Agreement!Offer, Agreement!Become, Deals, Sums
<1>7. CASE quote[q] \in {"draft", "sent", "viewed"}
           /\ quote'[q] \in {"expired", "rejected", "cancelled"}
  BY <1>1, <1>3, <1>4, <1>5, <1>7, DealByQuote
     DEF Agreement!Lose, Agreement!Become, Deals, Sums
<1>8. CASE quote[q] = "draft" /\ quote' = [quote EXCEPT ![q] = "sent"]
  <2>1. DealOf(q) = "offered" /\ DealOf(q)' = "offered"
    BY <1>1, <1>5, <1>8, DealByQuote
  <2>2. Deals' = Deals
    BY <1>3, <1>4, <2>1 DEF Deals
  <2> QED
    BY <1>3, <2>2
<1> QED
  BY <1>1, <1>6, <1>7, <1>8, QuoteOfQuoteStep DEF QuoteFollowsOrder

LEMMA OtherStepMaps ==
  ASSUME TypeOK, QuoteFollowsOrder, QuoteFollowsOrder', order' = order,
         \/ quote' = quote
         \/ \E q \in Quote : quote[q] = "sent" /\ quote' = [quote EXCEPT ![q] = "viewed"]
  PROVE  UNCHANGED <<Deals, Sums>>
<1>1. Sums' = Sums
  BY DEF Sums
<1>2. \A p \in Quote : DealOf(p)' = DealOf(p)
  BY DEF DealOf, TypeOK
<1> QED
  BY <1>1, <1>2 DEF Deals

(* Every decision about a quote and its order is one decision of the        *)
(* abstract agreement, and money is taken only while it stands: in every    *)
(* run of the code as it is, in which no view comes too late.               *)
THEOREM SalesImplementDeal == Spec /\ [][ViewInTime]_vars => RefinesDeal
<1> DEFINE All == TypeOK /\ OrderInv /\ QuoteFollowsOrder
<1>1. Init => All
  BY AgreeInitially
     DEF Init, OrderInv, Books, Unmade, ProducedIfConfirmed, NoOrder, TypeOK, QuoteStatus,
         Order, OrderStatus
<1>3. Spec /\ [][ViewInTime]_vars => []All
  BY <1>1, AgreeInductive, TypeCorrect, OrderInvInductive, PTL DEF Spec
<1>4. Init => Agreement!Init
  BY DEF Init, Agreement!Init, DealOf, NoOrder
<1>5. All /\ All' /\ [Next]_vars /\ [ViewInTime]_vars => [Agreement!Next]_<<Deals, Sums>>
  <2> SUFFICES ASSUME All, All', [Next]_vars, [ViewInTime]_vars
               PROVE  Agreement!Next \/ UNCHANGED <<Deals, Sums>>
    OBVIOUS
  <2> USE DEF OrderInv
  <2>1. ASSUME NEW q \in Quote, OrderStep(q) PROVE Agreement!Next
    BY <2>1, OrderStepMaps DEF Agreement!Next
  <2>2. ASSUME NEW q \in Quote, QuoteStep(q)
        PROVE  Agreement!Next \/ UNCHANGED <<Deals, Sums>>
    BY <2>2, QuoteStepMaps DEF Agreement!Next
  <2>3. ASSUME NEW q \in Quote, CreateProductionOrder(q) PROVE UNCHANGED <<Deals, Sums>>
    BY <2>3, OtherStepMaps DEF CreateProductionOrder, salesVars
  <2>4. CASE ViewStep /\ ViewInTime
    BY <2>4, ViewEffect, FreshView, OtherStepMaps
  <2>5. CASE UNCHANGED vars
    BY <2>5, OtherStepMaps DEF vars
  <2> QED
    BY <2>1, <2>2, <2>3, <2>4, <2>5, StepCases
<1> QED
  BY <1>3, <1>4, <1>5, PTL DEF Spec, RefinesDeal, Agreement!Spec, Deals, Sums
=============================================================================
