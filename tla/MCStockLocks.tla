---------------------------- MODULE MCStockLocks ----------------------------
(* Two orders with the same two materials, entered in opposite orders: rows  *)
(* 1 and 2 belong to order 1, rows 3 and 4 to order 2.                       *)
EXTENDS StockLocks, TLC

MCOrderOf == <<1, 1, 2, 2>>
MCMaterialOf == <<1, 2, 2, 1>>
MCSymmetry == Permutations(Txn)
=============================================================================
