CONSTANTS
  ProductionOrder = {1, 2}
  Material = {1, 2}
  Row = {1, 2, 3, 4}
  OrderOf <- MCOrderOf
  MaterialOf <- MCMaterialOf
  Txn = {t1, t2, t3}
SYMMETRY MCSymmetry
SPECIFICATION Spec
CHECK_DEADLOCK FALSE
INVARIANTS
  OnlyKnownCircles
