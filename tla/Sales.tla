-------------------------------- MODULE Sales --------------------------------
(***************************************************************************)
(* Quotes, the orders made of them and the production orders made of those.*)
(*                                                                         *)
(* Every request that changes a quote or an order first locks its row, the *)
(* order before the quote where it needs both, and decides on what it then *)
(* reads: it is one action.  The exception is a customer's view of a quote,*)
(* which reads it first without a lock; reading[v] is the quote that the   *)
(* request of viewer v has read so far.  An order belongs to one quote and *)
(* is named after it.                                                      *)
(***************************************************************************)
EXTENDS Naturals

CONSTANTS Quote, Viewer, NoQuote,
          Total, Deposit,  \* [Quote -> Nat]: total_minor, deposit_amount_minor
          Amount,          \* payments that staff record
          ViewPreloads     \* the view endpoint reads the quote beforehand

ASSUME SalesAssumption ==
  /\ Total \in [Quote -> Nat]
  /\ Deposit \in [Quote -> Nat]
  /\ \A q \in Quote : Deposit[q] <= Total[q]
  /\ Amount \subseteq Nat \ {0}
  /\ ViewPreloads \in BOOLEAN
  /\ NoQuote \notin Quote

VARIABLES quote,      \* [Quote -> QuoteStatus]
          order,      \* [Quote -> Order]: the order of the quote
          overdue,    \* quotes whose valid_until has passed
          produced,   \* quotes whose order has a production order
          reading     \* [Viewer -> Quote or NoQuote]

salesVars == <<quote, order>>
vars == <<quote, order, overdue, produced, reading>>

Terminal == {"converted", "expired", "cancelled", "rejected"}
QuoteStatus ==
  {"none", "draft", "sent", "viewed", "accepted", "deposit_required"} \cup Terminal
OrderStatus == {"none", "pending_deposit", "confirmed", "cancelled"}
Order == [status : OrderStatus, paid : Nat, balance : Nat]
NoOrder == [status |-> "none", paid |-> 0, balance |-> 0]

(* QUOTE_TRANSITIONS *)
Allowed(from, to) ==
  \/ from = "draft" /\ to \in {"sent", "cancelled"}
  \/ from = "sent" /\ to \in {"viewed", "accepted", "rejected", "cancelled"}
  \/ from = "viewed" /\ to \in {"accepted", "rejected", "cancelled"}
  \/ from = "accepted" /\ to = "deposit_required"
  \/ from = "deposit_required" /\ to = "converted"

Init ==
  /\ quote = [q \in Quote |-> "none"]
  /\ order = [q \in Quote |-> NoOrder]
  /\ overdue = {}
  /\ produced = {}
  /\ reading = [v \in Viewer |-> NoQuote]

SetQuote(q, status) == quote' = [quote EXCEPT ![q] = status]
SetOrder(q, status) == order' = [order EXCEPT ![q].status = status]

-----------------------------------------------------------------------------
(* Quotes. *)

CreateQuote(q) ==
  /\ quote[q] = "none"
  /\ q \notin overdue
  /\ SetQuote(q, "draft")
  /\ UNCHANGED <<order, overdue, produced, reading>>

(* Staff send and cancel quotes whether or not they are overdue. *)
SendQuote(q) ==
  /\ Allowed(quote[q], "sent")
  /\ SetQuote(q, "sent")
  /\ UNCHANGED <<order, overdue, produced, reading>>

CancelQuote(q) ==
  /\ Allowed(quote[q], "cancelled")
  /\ SetQuote(q, "cancelled")
  /\ UNCHANGED <<order, overdue, produced, reading>>

(* A customer who accepts or rejects too late finds the quote expired, and  *)
(* that is what is committed.                                               *)
Expired(q) == q \in overdue /\ quote[q] \in {"sent", "viewed", "accepted"}

Expire(q) ==
  /\ Expired(q)
  /\ SetQuote(q, "expired")
  /\ UNCHANGED <<order, overdue, produced, reading>>

RejectQuote(q) ==
  /\ ~Expired(q)
  /\ Allowed(quote[q], "rejected")
  /\ SetQuote(q, "rejected")
  /\ UNCHANGED <<order, overdue, produced, reading>>

(* Mutant: does not look for an existing order. *)
AcceptQuote_NoExistingCheck(q) ==
  /\ ~Expired(q)
  /\ Allowed(quote[q], "accepted")
  /\ order' = [order EXCEPT ![q] =
                [status |-> "pending_deposit", paid |-> 0, balance |-> Total[q]]]
  /\ SetQuote(q, "deposit_required")
  /\ UNCHANGED <<overdue, produced, reading>>

(* Mutant: the balance starts without the deposit. *)
AcceptQuote_NetBalance(q) ==
  /\ ~Expired(q)
  /\ Allowed(quote[q], "accepted")
  /\ order[q].status = "none"
  /\ order' = [order EXCEPT ![q] =
                [status |-> "pending_deposit", paid |-> 0, balance |-> Total[q] - Deposit[q]]]
  /\ SetQuote(q, "deposit_required")
  /\ UNCHANGED <<overdue, produced, reading>>

(* accepted is passed through on the way to deposit_required; a quote that  *)
(* already has an order makes the whole request fail.                       *)
AcceptQuote(q) ==
  /\ ~Expired(q)
  /\ Allowed(quote[q], "accepted")
  /\ order[q].status = "none"
  /\ order' = [order EXCEPT ![q] =
                [status |-> "pending_deposit", paid |-> 0, balance |-> Total[q]]]
  /\ SetQuote(q, "deposit_required")
  /\ UNCHANGED <<overdue, produced, reading>>

(* The first view: unless the quote has expired meanwhile, viewed is written*)
(* and audited.                                                             *)
MarkViewed(q) ==
  /\ q \notin overdue
  /\ SetQuote(q, "viewed")
  /\ UNCHANGED <<order, overdue, produced>>

(* The service on its own: it decides on the row it has locked. *)
ViewQuote(q) ==
  /\ ~ViewPreloads
  /\ quote[q] = "sent"
  /\ MarkViewed(q)
  /\ UNCHANGED reading

(* The endpoint loads the quote first; a later locking read of a row that   *)
(* the session has already loaded does not refresh it, so viewed is written *)
(* over whatever the quote has become since.                                *)
OpenQuote(v, q) ==
  /\ ViewPreloads
  /\ reading[v] = NoQuote
  /\ quote[q] = "sent"
  /\ reading' = [reading EXCEPT ![v] = q]
  /\ UNCHANGED <<salesVars, overdue, produced>>

RecordView(v) ==
  /\ reading[v] # NoQuote
  /\ MarkViewed(reading[v])
  /\ reading' = [reading EXCEPT ![v] = NoQuote]

(* The view finds the quote overdue, or the request dies: nothing is kept. *)
AbandonView(v) ==
  /\ reading[v] # NoQuote
  /\ reading' = [reading EXCEPT ![v] = NoQuote]
  /\ UNCHANGED <<salesVars, overdue, produced>>

Lapse(q) ==
  /\ overdue' = overdue \cup {q}
  /\ UNCHANGED <<salesVars, produced, reading>>

-----------------------------------------------------------------------------
(* Orders.  The quote follows its order when it is where it should be. *)

Advance(q, from, to) == IF quote[q] \in from THEN SetQuote(q, to) ELSE UNCHANGED quote

ConfirmWithoutDeposit(q) ==
  /\ order[q].status = "pending_deposit"
  /\ SetOrder(q, "confirmed")
  /\ Advance(q, {"deposit_required"}, "converted")
  /\ UNCHANGED <<overdue, produced, reading>>

Deposited(q, amount) ==
  [order EXCEPT ![q].paid = @ + amount, ![q].balance = Total[q] - (order[q].paid + amount)]

(* Mutant: a payment that exactly completes the deposit does not confirm. *)
RecordDeposit_MustExceed(q, amount) ==
  LET paid == order[q].paid + amount
  IN  /\ order[q].status = "pending_deposit"
      /\ paid <= Total[q]
      /\ IF paid > Deposit[q]
         THEN /\ order' = [Deposited(q, amount) EXCEPT ![q].status = "confirmed"]
              /\ Advance(q, {"deposit_required"}, "converted")
         ELSE order' = Deposited(q, amount) /\ UNCHANGED quote
      /\ UNCHANGED <<overdue, produced, reading>>

(* A payment that does not complete the deposit leaves the order pending;   *)
(* one that does confirms it.                                               *)
RecordDeposit(q, amount) ==
  LET paid == order[q].paid + amount
  IN  /\ order[q].status = "pending_deposit"
      /\ paid <= Total[q]
      /\ IF paid >= Deposit[q]
         THEN /\ order' = [Deposited(q, amount) EXCEPT ![q].status = "confirmed"]
              /\ Advance(q, {"deposit_required"}, "converted")
         ELSE order' = Deposited(q, amount) /\ UNCHANGED quote
      /\ UNCHANGED <<overdue, produced, reading>>

(* Mutant: only the order is cancelled. *)
CancelOrder_QuoteStays(q) ==
  /\ order[q].status = "pending_deposit"
  /\ SetOrder(q, "cancelled")
  /\ UNCHANGED <<quote, overdue, produced, reading>>

CancelOrder(q) ==
  /\ order[q].status = "pending_deposit"
  /\ SetOrder(q, "cancelled")
  /\ Advance(q, {"accepted", "deposit_required"}, "cancelled")
  /\ UNCHANGED <<overdue, produced, reading>>

CreateProductionOrder(q) ==
  /\ order[q].status = "confirmed"
  /\ q \notin produced
  /\ produced' = produced \cup {q}
  /\ UNCHANGED <<salesVars, overdue, reading>>

-----------------------------------------------------------------------------
Next ==
  \/ \E q \in Quote :
       \/ CreateQuote(q) \/ SendQuote(q) \/ CancelQuote(q)
       \/ Expire(q) \/ RejectQuote(q) \/ AcceptQuote(q) \/ ViewQuote(q) \/ Lapse(q)
       \/ ConfirmWithoutDeposit(q) \/ CancelOrder(q) \/ CreateProductionOrder(q)
  \/ \E q \in Quote, amount \in Amount : RecordDeposit(q, amount)
  \/ \E v \in Viewer, q \in Quote : OpenQuote(v, q)
  \/ \E v \in Viewer : RecordView(v) \/ AbandonView(v)

Spec == Init /\ [][Next]_vars

-----------------------------------------------------------------------------
(* Properties. *)

TypeOK ==
  /\ quote \in [Quote -> QuoteStatus]
  /\ order \in [Quote -> Order]
  /\ overdue \subseteq Quote
  /\ produced \subseteq Quote
  /\ reading \in [Viewer -> Quote \cup {NoQuote}]

(* The books of every order add up after any mixture of payments, waivers   *)
(* and cancellations: what is owed is the total without what was paid, and  *)
(* an order that still waits for its deposit has not received it (the checks*)
(* ck_orders_balance_consistent and ck_orders_deposit_paid_bounds).         *)
Books ==
  \A q \in Quote : order[q].status # "none" =>
    /\ order[q].balance + order[q].paid = Total[q]
    /\ order[q].status = "pending_deposit" => order[q].paid = 0 \/ order[q].paid < Deposit[q]

(* Nothing is produced for an order that is not, or no longer, confirmed:   *)
(* create_production_order and cancel_order serialize on the order's row.   *)
ProducedIfConfirmed == \A q \in produced : order[q].status = "confirmed"

(* Once made, an order is not made again; its payments are never lost; and  *)
(* confirmed or cancelled, it stays as it is, whatever happens to its quote.*)
OrdersStand ==
  [][\A q \in Quote :
       /\ order'[q].paid >= order[q].paid
       /\ order[q].status # "none" => order'[q].status # "none"
       /\ order[q].status \in {"confirmed", "cancelled"} => order'[q] = order[q]]_vars

(* A quote and its order tell the same story: a live order exists exactly   *)
(* for a quote that asks for its deposit or has been converted.             *)
QuoteFollowsOrder ==
  \A q \in Quote :
    /\ order[q].status = "pending_deposit" <=> quote[q] = "deposit_required"
    /\ order[q].status = "confirmed" <=> quote[q] = "converted"
    /\ order[q].status = "cancelled" => quote[q] = "cancelled"
    /\ quote[q] # "accepted"

(* A quote and its order seen as one agreement; where they contradict each  *)
(* other there is none.                                                     *)
DealOf(q) ==
  CASE quote[q] = "none" /\ order[q].status = "none" -> "none"
    [] quote[q] \in {"draft", "sent", "viewed"} /\ order[q].status = "none" -> "offered"
    [] quote[q] = "deposit_required" /\ order[q].status = "pending_deposit" -> "agreed"
    [] quote[q] = "converted" /\ order[q].status = "confirmed" -> "won"
    [] quote[q] \in {"expired", "rejected"} /\ order[q].status = "none" -> "lost"
    [] quote[q] = "cancelled" /\ order[q].status \in {"none", "cancelled"} -> "lost"
    [] OTHER -> "contradiction"

Agreement ==
  INSTANCE Deal WITH deal <- [q \in Quote |-> DealOf(q)],
                     collected <- [q \in Quote |-> order[q].paid]

(* Quotes and orders implement the agreement: money is taken only while it  *)
(* stands, and every decision about a quote and its order is one decision.  *)
RefinesDeal == Agreement!Spec

(* Of several decisions on a quote one wins (get_quote_for_update): a quote *)
(* that was accepted, and so has an order, is not rejected or left to expire.*)
OneDecisionWins ==
  \A q \in Quote : order[q].status # "none" => quote[q] \notin {"rejected", "expired"}
=============================================================================
