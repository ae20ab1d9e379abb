CONSTANTS
  o1 = o1  o2 = o2
  r1 = r1  r2 = r2  r3 = r3
  m1 = m1  m2 = m2
  k1 = k1  k2 = k2  k3 = k3  k4 = k4
  Nobody = Nobody
  ProductionOrder = {o1}
  Material = {m1}
  Second = m1
  User = {u1, u2}
  Reservation = {r1, r2}
  OrderOf <- MCOrderOf
  MaterialOf <- MCMaterialOf
  Required = {1}
  Slot = {s1, s2}
  Key = {k1, k2}
  Use <- CarelessKeys
  StaffMove = {}
  InitialLevel <- Stocked
  MaxOnHand = 2
  PlanPreloads = TRUE
SYMMETRY Interchangeable
SPECIFICATION Spec
PROPERTY TerminalIsFinal
