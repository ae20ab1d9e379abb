CONSTANTS
  q1 = q1  q2 = q2  q3 = q3
  NoQuote = NoQuote
  Quote = {q1, q2, q3}
  Viewer = {v1}
  Total <- MCTotal
  Deposit <- MCDeposit
  Amount = {1, 2}
  ViewPreloads = FALSE
SYMMETRY Viewers
SPECIFICATION Spec
INVARIANTS
  QuoteFollowsOrder
PROPERTIES
  RefinesDeal
