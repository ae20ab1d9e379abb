------------------------------ MODULE Pricing ------------------------------
(***************************************************************************)
(* The arithmetic of money: amounts (money.py), the totals of a quote      *)
(* (quotes_service.py) and the cost estimate with its selling price        *)
(* (cost_engine.py).                                                       *)
(*                                                                         *)
(* An amount is a natural number of minor units with a ceiling.  A         *)
(* quantity is a decimal: here a number of parts, Scale of which are one.  *)
(* A request is answered with its amounts or refused (422) as a whole.     *)
(***************************************************************************)
EXTENDS Integers, Sequences, SequencesExt

CONSTANTS MaxAmount,     \* MAX_AMOUNT_MINOR
          Scale,         \* parts of one in a quantity
          Amount,        \* the amounts that requests name
          Quantity,      \* the quantities they name, in parts
          Percent,       \* the percentages they name
          MaxLines       \* bound: lines of a quote

ASSUME PricingAssumption ==
  /\ MaxAmount \in Nat \ {0} /\ Scale \in Nat \ {0}
  /\ Amount \subseteq 0 .. MaxAmount
  /\ Quantity \subseteq Nat \ {0}
  /\ Percent \subseteq Nat
  /\ MaxLines \in Nat

VARIABLE sheet   \* the request that is answered, with its amounts or refused

Blank == [kind |-> "blank"]

(* n / d to the nearest unit, a half upwards: quantize, ROUND_HALF_UP. *)
Rounded(n, d) == (2 * n + d) \div (2 * d)

(* n / d to the nearest unit, a half to the even one: quantize as it is    *)
(* by default.                                                             *)
RoundedEven(n, d) ==
  LET down == n \div d
      rest == 2 * (n % d)
  IN  IF rest < d \/ (rest = d /\ down % 2 = 0) THEN down ELSE down + 1

Valid(n) == n \in 0 .. MaxAmount

Percentage(n, percent) == Rounded(n * percent, 100)

Add(m, n) == m + n

(* Every partial sum is validated; none is greater than the last. *)
SumOf(amounts) == FoldSeq(Add, 0, amounts)

-----------------------------------------------------------------------------
(* Quotes and orders *)

QuoteLine == [price : Amount, quantity : Quantity]

LineTotal(line) == Rounded(line.price * line.quantity, Scale)

LineTotals(lines) == [i \in 1 .. Len(lines) |-> LineTotal(lines[i])]

(* The deposit is taken from the subtotal. *)
TotalsOf_Gross(subtotal, discount, delivery, percent) ==
  LET total == subtotal - discount + delivery
      deposit == Percentage(subtotal, percent)
  IN  [subtotal |-> subtotal, total |-> total,
       deposit |-> deposit, balance |-> total - deposit]

TotalsOf(subtotal, discount, delivery, percent) ==
  LET total == subtotal - discount + delivery
      deposit == Percentage(total, percent)
  IN  [subtotal |-> subtotal, total |-> total,
       deposit |-> deposit, balance |-> total - deposit]

TotalsAccepted(subtotal, discount, delivery, percent) ==
  LET totals == TotalsOf(subtotal, discount, delivery, percent)
  IN  /\ Valid(subtotal) /\ discount <= subtotal
      /\ Valid(totals.total)
      /\ percent # 0 => totals.total # 0 /\ totals.deposit # 0

(* compute_totals, for a request that names percent between 0 and 100. *)
Quote(lines, discount, delivery, percent) ==
  LET subtotal == SumOf(LineTotals(lines))
      totals == TotalsOf(subtotal, discount, delivery, percent)
  IN  sheet' = IF TotalsAccepted(subtotal, discount, delivery, percent)
               THEN [kind |-> "quote", lines |-> lines, discount |-> discount,
                     delivery |-> delivery, percent |-> percent,
                     amounts |-> LineTotals(lines), totals |-> totals]
               ELSE [kind |-> "refused"]

-----------------------------------------------------------------------------
(* Cost estimates *)

MaterialLine == [price : Amount, quantity : Quantity, waste : Percent \cap 0 .. 100]
LaborLine == [rate : Amount, hours : Quantity \cup {0}]
ExpenseLine == [by : {"amount"}, of : Amount] \cup [by : {"percent"}, of : Percent \cap 0 .. 1000]

MaterialAmount(line) ==
  Rounded(line.price * line.quantity * (100 + line.waste), 100 * Scale)

LaborAmount(line) == Rounded(line.rate * line.hours, Scale)

ExpenseAmount(line, production) ==
  IF line.by = "amount" THEN line.of ELSE Percentage(production, line.of)

(* PricingPolicy: a margin below 100 per cent, or one that may be added. *)
Policy == [method : {"target_margin"}, of : Percent \cap 0 .. 99]
            \cup [method : {"markup"}, of : Percent \cap 0 .. 1000]
            \cup [method : {"manual"}, of : Amount]

SellingPrice(policy, real) ==
  CASE policy.method = "target_margin" -> Rounded(100 * real, 100 - policy.of)
    [] policy.method = "markup" -> Rounded(real * (100 + policy.of), 100)
    [] policy.method = "manual" -> policy.of

(* In hundredths of a per cent of the selling price. *)
GrossMargin(selling, real) ==
  IF selling = 0 THEN 0 ELSE RoundedEven((selling - real) * 10000, selling)

(* compute_cost: the percentages are of the materials and the labor.      *)
(* Bound: one line of each kind; several are summed like those of a quote. *)
Estimate(material, labor, expense, policy) ==
  LET production == MaterialAmount(material) + LaborAmount(labor)
      real == production + ExpenseAmount(expense, production)
      selling == SellingPrice(policy, real)
  IN  sheet' = IF Valid(real) /\ Valid(selling)
               THEN [kind |-> "estimate", policy |-> policy, real |-> real,
                     selling |-> selling, margin |-> GrossMargin(selling, real)]
               ELSE [kind |-> "refused"]

PricingInit == sheet = Blank

(* Nothing is kept between two requests. *)
PricingNext ==
  \/ sheet # Blank /\ sheet' = Blank
  \/ /\ sheet = Blank
     /\ \E n \in 1 .. MaxLines : \E lines \in [1 .. n -> QuoteLine] :
        \E discount, delivery \in Amount, percent \in Percent \cap 0 .. 100 :
          Quote(lines, discount, delivery, percent)
  \/ /\ sheet = Blank
     /\ \E material \in MaterialLine, labor \in LaborLine, expense \in ExpenseLine :
        \E policy \in Policy :
          Estimate(material, labor, expense, policy)

PricingSpec == PricingInit /\ [][PricingNext]_sheet

-----------------------------------------------------------------------------
(* n is the unit nearest to the fraction num / den. *)
Nearest(n, num, den) == 2 * (den * n - num) <= den /\ 2 * (num - den * n) <= den

(* The totals of an accepted quote: every line is its exact amount to the  *)
(* nearest unit, nothing is lost between the lines and the total, and the  *)
(* deposit is the asked share of the total, more than nothing when one is  *)
(* asked, and never more than the total, so that the balance is none.      *)
QuoteAddsUp ==
  sheet.kind = "quote" =>
    LET totals == sheet.totals
        part == sheet.percent * totals.total
    IN  /\ \A i \in 1 .. Len(sheet.lines) :
             Nearest(sheet.amounts[i], sheet.lines[i].price * sheet.lines[i].quantity, Scale)
        /\ SumOf(sheet.amounts) + sheet.delivery = totals.total + sheet.discount
        /\ totals.deposit + totals.balance = totals.total /\ Valid(totals.balance)
        /\ Nearest(totals.deposit, part, 100)
        /\ sheet.percent > 0 => totals.deposit > 0

(* A selling price that is derived from the cost is never below it, and it *)
(* is the unit nearest to the price that has the margin or the markup.     *)
PriceCoversCost ==
  sheet.kind = "estimate" =>
    LET policy == sheet.policy
    IN  /\ policy.method # "manual" => sheet.selling >= sheet.real /\ sheet.margin >= 0
        /\ policy.method = "target_margin" =>
             Nearest(sheet.selling, 100 * sheet.real, 100 - policy.of)
        /\ policy.method = "markup" =>
             Nearest(sheet.selling, (100 + policy.of) * sheet.real, 100)

PricesAddUp == QuoteAddsUp /\ PriceCoversCost
=============================================================================
