CONSTANTS
  q1 = q1  q2 = q2  q3 = q3
  NoQuote = NoQuote
  Quote = {q1, q2}
  Viewer = {v1, v2}
  Total <- MCTotal
  Deposit <- MCDeposit
  Amount = {1, 2}
  ViewPreloads = TRUE
SYMMETRY Viewers
SPECIFICATION Spec
INVARIANTS
  Books
PROPERTIES
  OrdersStand
