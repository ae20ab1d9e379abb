----------------------------- MODULE References -----------------------------
(* The numbers of requests, quotes, orders and products (references.py).    *)
(* A reference is text, a prefix and a number padded with zeros to a fixed  *)
(* width, and the database compares it as text; here it is its number.      *)
EXTENDS Naturals

CONSTANT Limit     \* the first number that is wider than the padding, 10^width

ASSUME LimitAssumption == Limit \in Nat /\ Limit >= 10

(* The order of the texts of two numbers below 10 * Limit: "1000" < "999".  *)
TextBefore(m, n) ==
  \/ m < n /\ (m >= Limit \/ n < Limit)
  \/ m < Limit /\ n >= Limit /\ 10 * m <= n
  \/ n < Limit /\ m >= Limit /\ m < 10 * n

(* One more than the greatest of those taken, as SELECT max(...) finds it.  *)
NextNumber(taken) ==
  IF taken = {} THEN 1
  ELSE 1 + CHOOSE m \in taken : \A n \in taken \ {m} : TextBefore(n, m)
=============================================================================
