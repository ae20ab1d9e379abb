CONSTANTS
  m1 = m1
  m2 = m2
  k1 = k1
  k2 = k2
  k3 = k3
  r1 = r1
  r2 = r2
  r3 = r3
  Material = {m1, m2}
  Key = {k1, k2, k3}
  Request = {r1, r2, r3}
  Payload <- EveryOperation
SPECIFICATION Spec
SYMMETRY Interchangeable
INVARIANTS
  LedgerExplainsLevel
  AnswersTrue
  OneAuthor
PROPERTIES
  ImplementsAtomic
