-------------------------- MODULE StockLocksProofs --------------------------
(***************************************************************************)
(* Waiting in a circle, for any orders, materials, rows and transactions.  *)
(*                                                                         *)
(* Without one of the three known causes nobody in a circle inserts a      *)
(* level, and no reservation in it wants a row.  The waits that are left   *)
(* go up: from an order to a row or to stock, from a row to a higher row   *)
(* or to stock, and from stock to a higher material.  A circle would go up *)
(* for ever, and there are only so many rows and materials.                *)
(***************************************************************************)
EXTENDS StockLocks, FiniteSetTheorems, FunctionTheorems, TLAPS

-----------------------------------------------------------------------------
(* Finite sets of numbers: a number has a rank, and the last one is the    *)
(* largest.                                                                *)

Rank(numbers, n) == Cardinality({m \in numbers : m <= n})

(* The members of a finite set of numbers are ranked 1, 2, ... without a gap. *)
LEMMA Ranks ==
  ASSUME NEW S \in SUBSET Nat, IsFiniteSet(S)
  PROVE  /\ Cardinality(S) \in Nat
         /\ \A x \in S : Rank(S, x) \in 1 .. Cardinality(S)
         /\ \A x, y \in S : x < y => Rank(S, x) < Rank(S, y)
         /\ \A i \in 1 .. Cardinality(S) : \E x \in S : Rank(S, x) = i
  <1> DEFINE upto(x) == {y \in S : y <= x}
             n == Cardinality(S)
             rank == [x \in S |-> Rank(S, x)]
  <1>1. n \in Nat
    BY FS_CardinalityType
  <1>2. ASSUME NEW x \in S
        PROVE  /\ IsFiniteSet(upto(x)) /\ Cardinality(upto(x)) \in Nat
               /\ Cardinality(upto(x)) <= n /\ Cardinality(upto(x)) # 0
    <2>1. upto(x) \in SUBSET S /\ x \in upto(x)
      OBVIOUS
    <2>2. IsFiniteSet(upto(x)) /\ Cardinality(upto(x)) <= n
      BY <2>1, FS_Subset
    <2> QED BY <2>1, <2>2, FS_CardinalityType, FS_EmptySet
  <1>3. \A x \in S : Rank(S, x) = Cardinality(upto(x))
    BY DEF Rank
  <1>4. ASSUME NEW x \in S
        PROVE  Rank(S, x) \in 1 .. n
    <2> DEFINE c == Cardinality(upto(x))
    <2>1. c \in Nat /\ c <= n /\ c # 0 /\ Rank(S, x) = c
      BY <1>2, <1>3
    <2> HIDE DEF c, n
    <2> QED BY <1>1, <2>1
  <1>5. ASSUME NEW x \in S, NEW y \in S, x < y
        PROVE  Rank(S, x) < Rank(S, y)
    <2>1. upto(x) \in SUBSET upto(y) /\ y \in upto(y) /\ y \notin upto(x)
      <3>1. x \in Nat /\ y \in Nat
        OBVIOUS
      <3>2. ASSUME NEW z \in upto(x)
            PROVE  z \in upto(y)
        <4>1. z \in S /\ z \in Nat /\ z <= x
          OBVIOUS
        <4> QED BY <1>5, <3>1, <4>1
      <3>3. y \in upto(y) /\ y \notin upto(x)
        BY <1>5, <3>1
      <3> HIDE DEF upto
      <3> QED BY <3>2, <3>3
    <2>2. IsFiniteSet(upto(y))
      BY <1>2
    <2>3. upto(x) # upto(y)
      BY <2>1
    <2> HIDE DEF upto
    <2>4. Cardinality(upto(x)) <= Cardinality(upto(y)) /\ Cardinality(upto(x)) # Cardinality(upto(y))
      BY <2>1, <2>2, <2>3, FS_Subset
    <2> QED BY <1>2, <1>3, <2>4
  <1> HIDE DEF n
  <1>6. rank \in Injection(S, 1 .. n)
    <2>1. rank \in [S -> 1 .. n]
      BY <1>4
    <2>2. ASSUME NEW x \in S, NEW y \in S, rank[x] = rank[y]
          PROVE  x = y
      <3>1. ~ (x < y) /\ ~ (y < x)
        BY <1>1, <1>4, <1>5, <2>2
      <3> QED BY <3>1
    <2> QED BY <2>1, <2>2, Fun_IsInj
  <1>7. IsFiniteSet(1 .. n) /\ Cardinality(1 .. n) = n
    BY <1>1, FS_Interval
  <1>8. rank \in Surjection(S, 1 .. n)
    BY <1>6, <1>7, FS_Injection DEF n
  <1>9. \A i \in 1 .. n : \E x \in S : rank[x] = i
    BY <1>8 DEF Surjection
  <1> QED BY <1>1, <1>4, <1>5, <1>9 DEF n

(* A finite set of numbers has a largest one. *)
LEMMA Largest ==
  ASSUME NEW S \in SUBSET Nat, IsFiniteSet(S), S # {}
  PROVE  \E x \in S : \A y \in S : y <= x
  <1>1. Cardinality(S) \in 1 .. Cardinality(S)
    <2>1. Cardinality(S) \in Nat /\ Cardinality(S) # 0
      BY FS_CardinalityType, FS_EmptySet
    <2> QED BY <2>1
  <1>2. PICK x \in S : Rank(S, x) = Cardinality(S)
    BY <1>1, Ranks
  <1>3. ASSUME NEW y \in S, x < y
        PROVE  FALSE
    BY <1>2, <1>3, Ranks
  <1> QED BY <1>3

-----------------------------------------------------------------------------
(* Locks and what is wanted of them. *)

(* Locks of different kinds or numbers differ. *)
LEMMA LockKinds ==
  /\ \A x, y : /\ OrderLock(x) # StockLock(y) /\ OrderLock(x) # RowLock(y)
               /\ StockLock(x) # RowLock(y)
  /\ \A x, y : /\ OrderLock(x) = OrderLock(y) => x = y
               /\ StockLock(x) = StockLock(y) => x = y
               /\ RowLock(x) = RowLock(y) => x = y
  BY DEF OrderLock, StockLock, RowLock

(* What a reservation wants that has read the stock levels. *)
LEMMA ReserveWanted ==
  ASSUME NEW t \in Txn, job[t] \in Reserves, NEW l \in ReserveWants(t)
  PROVE  \/ \E m \in ToLock(t) : l = StockLock(m) /\ \A n \in ToLock(t) : m <= n
         \/ /\ ToLock(t) = {}
            /\ \E r \in ToInsert(t) : l = StockLock(MaterialOf[r])
         \/ /\ ToLock(t) = {} /\ ToInsert(t) = {}
            /\ \E r \in OrderRows(job[t].order) : l = RowLock(r)
  BY DEF ReserveWants, NextToLock, Least, ToWrite

(* What a cancellation wants that has its order. *)
LEMMA CancelWanted ==
  ASSUME NEW t \in Txn, job[t] \in Cancels, NEW l \in CancelWants(t)
  PROVE  \/ \E r \in OrderRows(job[t].order) \ RowsHeld(t) :
              /\ l = RowLock(r)
              /\ \A q \in OrderRows(job[t].order) \ RowsHeld(t) : r <= q
         \/ /\ OrderRows(job[t].order) \subseteq RowsHeld(t)
            /\ \E r \in job[t].open : l = StockLock(MaterialOf[r])
  BY DEF CancelWants, Least

(* What the next lock of each kind of job can be. *)
LEMMA LockWanted ==
  ASSUME NEW t \in Txn, job[t] \in Job, NEW l \in Wants(t)
  PROVE  /\ state[t] \in {"starting", "running"}
         /\ \/ LacksOrder(t) /\ l = OrderLock(job[t].order)
            \/ /\ ~LacksOrder(t) /\ state[t] = "running"
               /\ \/ job[t].kind = "reserve" /\ l \in ReserveWants(t)
                  \/ job[t].kind = "cancel" /\ l \in CancelWants(t)
                  \/ job[t].kind = "use" /\ l \in UseWants(t)
                  \/ job[t].kind = "staff" /\ l = StockLock(job[t].material) /\ l \notin held[t]
  BY DEF Wants, Job, Reserves, Cancels, Uses, Movements

(* Nobody wants two locks at once. *)
LEMMA OneLock ==
  ASSUME NEW t \in Txn, job[t] \in Job, NEW k \in Wants(t), NEW l \in Wants(t)
  PROVE  k = l
  <1>1. ASSUME NEW S \in SUBSET Nat, NEW x \in Least(S), NEW y \in Least(S)
        PROVE  x = y
    BY <1>1 DEF Least
  <1>2. Material \subseteq Nat /\ \A o : OrderRows(o) \subseteq Nat
    BY LocksAssumption DEF OrderRows
  <1>3. ASSUME k \in ReserveWants(t), l \in ReserveWants(t) PROVE k = l
    <2>1. ToLock(t) \subseteq Nat /\ ToInsert(t) \subseteq Nat /\ ToWrite(t) \subseteq Nat
      <3>1. found[t] \cap MaterialsOf(OrderRows(job[t].order)) \subseteq Nat
        BY LocksAssumption DEF MaterialsOf, OrderRows
      <3> QED BY <1>2, <3>1 DEF ToLock, ToInsert, ToWrite
    <2> QED BY <1>1, <1>3, <2>1 DEF ReserveWants, NextToLock
  <1>4. ASSUME job[t] \in Cancels, k \in CancelWants(t), l \in CancelWants(t) PROVE k = l
    <2>1. OrderRows(job[t].order) \ RowsHeld(t) \subseteq Nat
      BY <1>2
    <2>2. {r \in job[t].open : MaterialOf[r] \notin StockHeld(t)} \subseteq Nat
      BY <1>4, LocksAssumption DEF Cancels
    <2> QED BY <1>1, <1>4, <2>1, <2>2 DEF CancelWants
  <1> QED BY <1>3, <1>4 DEF Wants, UseWants, Job, Reserves, Cancels, Uses, Movements

-----------------------------------------------------------------------------
(* What transactions hold. *)

TypeOK ==
  /\ job \in [Txn -> Job]
  /\ levels \in SUBSET Material
  /\ found \in [Txn -> SUBSET Material]
  /\ held \in [Txn -> SUBSET Lock]
  /\ state \in [Txn -> State]

(* A lock has one holder. *)
Exclusive == \A t, u \in Txn : t # u => held[t] \cap held[u] = {}

(* Who locks an order locks its own, and before anything else. *)
OrderFirst(t) ==
  /\ LacksOrder(t) => held[t] = {}
  /\ \A o \in ProductionOrder :
       OrderLock(o) \in held[t] => job[t].kind \in {"reserve", "cancel"} /\ job[t].order = o

(* A reservation locks the levels it finds by material id, then inserts the  *)
(* others, and then writes rows.                                             *)
ReserveHolds(t) ==
  job[t].kind = "reserve" =>
    /\ state[t] = "starting" => StockHeld(t) = {} /\ RowsHeld(t) = {}
    /\ RowsHeld(t) \subseteq OrderRows(job[t].order)
    /\ \A m \in StockHeld(t), n \in ToLock(t) : m \in found[t] /\ m < n
    /\ RowsHeld(t) # {} => ToLock(t) = {} /\ ToInsert(t) = {}

(* A cancellation locks its rows in order, and stock after them. *)
CancelHolds(t) ==
  job[t].kind = "cancel" =>
    /\ job[t].open \subseteq OrderRows(job[t].order)
    /\ RowsHeld(t) \subseteq OrderRows(job[t].order)
    /\ \A r \in RowsHeld(t), q \in OrderRows(job[t].order) \ RowsHeld(t) : r < q
    /\ StockHeld(t) # {} => OrderRows(job[t].order) \subseteq RowsHeld(t)

(* A use locks its row, then its stock; staff lock one stock level. *)
OthersHold(t) ==
  /\ job[t].kind = "use" =>
       /\ held[t] \subseteq {RowLock(job[t].row), StockLock(MaterialOf[job[t].row])}
       /\ StockHeld(t) # {} => RowLock(job[t].row) \in held[t]
  /\ job[t].kind = "staff" => held[t] \subseteq {StockLock(job[t].material)}

Holds(t) == OrderFirst(t) /\ ReserveHolds(t) /\ CancelHolds(t) /\ OthersHold(t)

LocksInv == TypeOK /\ Exclusive /\ \A t \in Txn : Holds(t)

LEMMA LocksInvInit == Init => LocksInv
  <1> SUFFICES ASSUME Init
               PROVE  LocksInv
    OBVIOUS
  <1>1. job \in [Txn -> Job] /\ \A t \in Txn : Stocked(job[t])
    BY DEF Init
  <1>2. TypeOK
    BY <1>1 DEF Init, TypeOK, State
  <1>3. Exclusive
    BY DEF Init, Exclusive
  <1>4. ASSUME NEW t \in Txn
        PROVE  Holds(t)
    <2>1. held[t] = {} /\ StockHeld(t) = {} /\ RowsHeld(t) = {}
      BY DEF Init, StockHeld, RowsHeld
    <2>2. job[t].kind = "cancel" => job[t].open \subseteq OrderRows(job[t].order)
      <3>1. job[t] \in Job /\ Stocked(job[t])
        BY <1>1
      <3> QED BY <3>1 DEF Stocked, Job, Reserves, Cancels, Uses, Movements
    <2> QED BY <2>1, <2>2 DEF Holds, OrderFirst, ReserveHolds, CancelHolds, OthersHold
  <1> QED BY <1>2, <1>3, <1>4 DEF LocksInv

(* Nothing changes for a transaction that takes no step. *)
LEMMA HoldsStays ==
  ASSUME NEW t \in Txn, Holds(t), job'[t] = job[t], found'[t] = found[t], held'[t] = held[t],
         state'[t] = state[t]
  PROVE  Holds(t)'
  BY DEF Holds, OrderFirst, ReserveHolds, CancelHolds, OthersHold, LacksOrder, StockHeld, RowsHeld,
         ToLock, ToInsert

(* A transaction that has ended holds nothing. *)
LEMMA HoldsEnds ==
  ASSUME NEW t \in Txn, TypeOK, Holds(t), job'[t] = job[t], found'[t] = found[t], held'[t] = {},
         state'[t] \in {"committed", "aborted"}
  PROVE  Holds(t)'
  <1>1. StockHeld(t)' = {} /\ RowsHeld(t)' = {}
    BY DEF StockHeld, RowsHeld
  <1> QED BY <1>1 DEF Holds, OrderFirst, ReserveHolds, CancelHolds, OthersHold

(* The read of the stock levels finds some and locks none yet. *)
LEMMA HoldsLook ==
  ASSUME NEW t \in Txn, TypeOK, Holds(t), job' = job, held' = held,
         job[t].kind = "reserve", state[t] = "starting", state'[t] = "running"
  PROVE  Holds(t)'
  <1>1. StockHeld(t)' = {} /\ RowsHeld(t)' = {}
    BY DEF Holds, ReserveHolds, StockHeld, RowsHeld
  <1>2. OrderFirst(t)'
    BY DEF Holds, OrderFirst, LacksOrder
  <1> QED BY <1>1, <1>2 DEF Holds, ReserveHolds, CancelHolds, OthersHold

(* Which stock and which rows are held with one lock more. *)
LEMMA OneMore ==
  ASSUME NEW t \in Txn, NEW l \in Lock, held'[t] = held[t] \cup {l}
  PROVE  /\ \A m \in Material : l = StockLock(m) =>
              StockHeld(t)' = StockHeld(t) \cup {m} /\ RowsHeld(t)' = RowsHeld(t)
         /\ \A r \in Row : l = RowLock(r) =>
              StockHeld(t)' = StockHeld(t) /\ RowsHeld(t)' = RowsHeld(t) \cup {r}
         /\ \A o \in ProductionOrder : l = OrderLock(o) =>
              StockHeld(t)' = StockHeld(t) /\ RowsHeld(t)' = RowsHeld(t)
  BY LockKinds DEF StockHeld, RowsHeld

(* The next lock keeps to the order of locks. *)
LEMMA HoldsTake ==
  ASSUME NEW t \in Txn, TypeOK, Holds(t), NEW l \in Wants(t), l \in Lock,
         held'[t] = held[t] \cup {l}, job' = job, found' = found, state' = state
  PROVE  Holds(t)'
  <1> USE DEF Holds
  <1>1. job[t] \in Job /\ found[t] \in SUBSET Material
    BY DEF TypeOK
  <1>2. CASE LacksOrder(t) /\ l = OrderLock(job[t].order)
    <2>1. job[t].kind \in {"reserve", "cancel"} /\ job[t].order \in ProductionOrder
      BY <1>1, <1>2 DEF LacksOrder, Job, Reserves, Cancels, Uses, Movements
    <2>2. held[t] = {} /\ held'[t] = {l}
      BY <1>2 DEF OrderFirst
    <2>3. StockHeld(t)' = {} /\ RowsHeld(t)' = {}
      BY <1>2, <2>2, LockKinds DEF StockHeld, RowsHeld
    <2>4. OrderFirst(t)'
      BY <1>2, <2>1, <2>2, LockKinds DEF OrderFirst, LacksOrder
    <2> QED BY <2>1, <2>3, <2>4 DEF ReserveHolds, CancelHolds, OthersHold
  <1>3. ASSUME ~LacksOrder(t), \A o : l # OrderLock(o)
        PROVE  OrderFirst(t)'
    BY <1>3 DEF OrderFirst, LacksOrder
  <1>4. CASE ~LacksOrder(t) /\ state[t] = "running" /\ job[t].kind = "reserve" /\ l \in ReserveWants(t)
    <2>1. job[t] \in Reserves
      BY <1>1, <1>4 DEF Job, Cancels, Uses, Movements
    <2>2. CASE \E m \in ToLock(t) : l = StockLock(m) /\ \A n \in ToLock(t) : m <= n
      <3>1. PICK m \in ToLock(t) : l = StockLock(m) /\ \A n \in ToLock(t) : m <= n
        BY <2>2
      <3>2. m \in Material /\ m \in found[t]
        BY <1>1, <3>1 DEF ToLock
      <3>3. StockHeld(t)' = StockHeld(t) \cup {m} /\ RowsHeld(t)' = RowsHeld(t)
        BY <3>1, <3>2, OneMore
      <3>4. ToLock(t)' = ToLock(t) \ {m}
        BY <3>3 DEF ToLock
      <3>5. RowsHeld(t) = {}
        BY <1>4, <3>1 DEF ReserveHolds
      <3>6. ASSUME NEW x \in StockHeld(t)', NEW n \in ToLock(t)'
            PROVE  x \in found'[t] /\ x < n
        <4>1. m \in Nat /\ n \in Nat /\ m <= n /\ m # n /\ n \in ToLock(t)
          <5>1. n \in ToLock(t) /\ n # m /\ n \in Material
            BY <1>1, <3>4, <3>6 DEF ToLock
          <5> QED BY <3>1, <3>2, <5>1, LocksAssumption
        <4> QED BY <1>4, <3>2, <3>3, <3>6, <4>1 DEF ReserveHolds
      <3>7. ReserveHolds(t)'
        BY <1>4, <3>3, <3>5, <3>6 DEF ReserveHolds
      <3> QED BY <1>3, <1>4, <3>1, <3>7, LockKinds DEF CancelHolds, OthersHold
    <2>3. CASE ToLock(t) = {} /\ \E r \in ToInsert(t) : l = StockLock(MaterialOf[r])
      <3>1. PICK r \in ToInsert(t) : l = StockLock(MaterialOf[r])
        BY <2>3
      <3>2. MaterialOf[r] \in Material
        BY <3>1, LocksAssumption DEF ToInsert, OrderRows
      <3>3. StockHeld(t)' = StockHeld(t) \cup {MaterialOf[r]} /\ RowsHeld(t)' = RowsHeld(t)
        BY <3>1, <3>2, OneMore
      <3>4. ToLock(t)' = {}
        BY <2>3, <3>3 DEF ToLock
      <3>5. RowsHeld(t) = {}
        BY <1>4, <3>1 DEF ReserveHolds
      <3>6. ReserveHolds(t)'
        BY <1>4, <3>3, <3>4, <3>5 DEF ReserveHolds
      <3> QED BY <1>3, <1>4, <3>1, <3>6, LockKinds DEF CancelHolds, OthersHold
    <2>4. CASE ToLock(t) = {} /\ ToInsert(t) = {} /\ \E r \in OrderRows(job[t].order) : l = RowLock(r)
      <3>1. PICK r \in OrderRows(job[t].order) : l = RowLock(r)
        BY <2>4
      <3>2. StockHeld(t)' = StockHeld(t) /\ RowsHeld(t)' = RowsHeld(t) \cup {r}
        BY <3>1, OneMore DEF OrderRows
      <3>3. ToLock(t)' = {} /\ ToInsert(t)' = {}
        BY <2>4, <3>2 DEF ToLock, ToInsert
      <3>4. ReserveHolds(t)'
        BY <1>4, <3>1, <3>2, <3>3 DEF ReserveHolds
      <3> QED BY <1>3, <1>4, <3>1, <3>4, LockKinds DEF CancelHolds, OthersHold
    <2> QED BY <1>4, <2>1, <2>2, <2>3, <2>4, ReserveWanted
  <1>5. CASE ~LacksOrder(t) /\ job[t].kind = "cancel" /\ l \in CancelWants(t)
    <2>1. job[t] \in Cancels
      BY <1>1, <1>5 DEF Job, Reserves, Uses, Movements
    <2>2. CASE \E r \in OrderRows(job[t].order) \ RowsHeld(t) :
                 l = RowLock(r) /\ \A q \in OrderRows(job[t].order) \ RowsHeld(t) : r <= q
      <3>1. PICK r \in OrderRows(job[t].order) \ RowsHeld(t) :
                 l = RowLock(r) /\ \A q \in OrderRows(job[t].order) \ RowsHeld(t) : r <= q
        BY <2>2
      <3>2. StockHeld(t)' = StockHeld(t) /\ RowsHeld(t)' = RowsHeld(t) \cup {r}
        BY <3>1, OneMore DEF OrderRows
      <3>3. ASSUME NEW p \in RowsHeld(t)', NEW q \in OrderRows(job[t].order) \ RowsHeld(t)'
            PROVE  p < q
        <4>1. r \in Nat /\ q \in Nat /\ r <= q /\ r # q
          BY <3>1, <3>2, <3>3, LocksAssumption DEF OrderRows
        <4> QED BY <1>5, <3>2, <3>3, <4>1 DEF CancelHolds
      <3>4. StockHeld(t) = {}
        BY <1>5, <3>1 DEF CancelHolds
      <3>5. CancelHolds(t)'
        BY <1>5, <3>1, <3>2, <3>3, <3>4 DEF CancelHolds
      <3> QED BY <1>3, <1>5, <3>1, <3>5, LockKinds DEF ReserveHolds, OthersHold
    <2>3. CASE /\ OrderRows(job[t].order) \subseteq RowsHeld(t)
               /\ \E r \in job[t].open : l = StockLock(MaterialOf[r])
      <3>1. PICK r \in job[t].open : l = StockLock(MaterialOf[r])
        BY <2>3
      <3>2. MaterialOf[r] \in Material
        BY <2>1, LocksAssumption DEF Cancels
      <3>3. StockHeld(t)' = StockHeld(t) \cup {MaterialOf[r]} /\ RowsHeld(t)' = RowsHeld(t)
        BY <3>1, <3>2, OneMore
      <3>4. CancelHolds(t)'
        BY <1>5, <2>3, <3>3 DEF CancelHolds
      <3> QED BY <1>3, <1>5, <3>1, <3>4, LockKinds DEF ReserveHolds, OthersHold
    <2> QED BY <1>5, <2>1, <2>2, <2>3, CancelWanted
  <1>6. CASE ~LacksOrder(t) /\ job[t].kind = "use" /\ l \in UseWants(t)
    <2>1. job[t].row \in Row /\ MaterialOf[job[t].row] \in Material
      BY <1>1, <1>6, LocksAssumption DEF Job, Reserves, Cancels, Uses, Movements
    <2>2. \/ l = RowLock(job[t].row) /\ RowLock(job[t].row) \notin held[t]
          \/ l = StockLock(MaterialOf[job[t].row]) /\ RowLock(job[t].row) \in held[t]
      BY <1>6 DEF UseWants
    <2>3. OthersHold(t)'
      <3>1. held'[t] \subseteq {RowLock(job[t].row), StockLock(MaterialOf[job[t].row])}
        BY <1>6, <2>2 DEF OthersHold
      <3>2. RowLock(job[t].row) \in held'[t]
        BY <2>2
      <3> QED BY <1>6, <3>1, <3>2 DEF OthersHold
    <2> QED BY <1>3, <1>6, <2>2, <2>3, LockKinds DEF ReserveHolds, CancelHolds
  <1>7. CASE ~LacksOrder(t) /\ job[t].kind = "staff" /\ l = StockLock(job[t].material)
    BY <1>3, <1>7, LockKinds DEF ReserveHolds, CancelHolds, OthersHold
  <1> QED BY <1>1, <1>2, <1>4, <1>5, <1>6, <1>7, LockWanted

(* Locks that are wanted are locks. *)
LEMMA WantsLocks ==
  ASSUME NEW t \in Txn, TypeOK
  PROVE  Wants(t) \subseteq Lock
  <1>1. job[t] \in Job /\ found[t] \in SUBSET Material
    BY DEF TypeOK
  <1>2. \A r \in Row : RowLock(r) \in Lock /\ StockLock(MaterialOf[r]) \in Lock
    BY LocksAssumption DEF Lock
  <1>3. \A m \in Material : StockLock(m) \in Lock
    BY DEF Lock
  <1>4. ASSUME job[t] \in Reserves, NEW l \in ReserveWants(t) PROVE l \in Lock
    <2>1. ToLock(t) \subseteq Material /\ ToInsert(t) \subseteq Row /\ OrderRows(job[t].order) \subseteq Row
      BY <1>1 DEF ToLock, ToInsert, OrderRows
    <2> QED BY <1>2, <1>3, <1>4, <2>1, ReserveWanted
  <1>5. ASSUME job[t] \in Cancels, NEW l \in CancelWants(t) PROVE l \in Lock
    <2>1. job[t].open \subseteq Row /\ OrderRows(job[t].order) \subseteq Row
      BY <1>5 DEF Cancels, OrderRows
    <2> QED BY <1>2, <1>5, <2>1, CancelWanted
  <1>6. ASSUME job[t] \in Uses, NEW l \in UseWants(t) PROVE l \in Lock
    BY <1>2, <1>6 DEF UseWants, Uses
  <1>7. LacksOrder(t) => OrderLock(job[t].order) \in Lock
    BY <1>1 DEF LacksOrder, Lock, Job, Reserves, Cancels, Uses, Movements
  <1>8. job[t].kind = "staff" => StockLock(job[t].material) \in Lock
    BY <1>1, <1>3 DEF Job, Reserves, Cancels, Uses, Movements
  <1>9. /\ job[t].kind = "reserve" => job[t] \in Reserves
        /\ job[t].kind = "cancel" => job[t] \in Cancels
        /\ job[t].kind = "use" => job[t] \in Uses
    BY <1>1 DEF Job, Reserves, Cancels, Uses, Movements
  <1> QED BY <1>1, <1>4, <1>5, <1>6, <1>7, <1>8, <1>9, LockWanted

LEMMA LocksInvNext == LocksInv /\ [Next]_vars => LocksInv'
  <1> SUFFICES ASSUME LocksInv, [Next]_vars
               PROVE  LocksInv'
    OBVIOUS
  <1> USE DEF LocksInv
  <1>1. CASE UNCHANGED vars
    <2>1. TypeOK' /\ Exclusive'
      BY <1>1 DEF vars, TypeOK, Exclusive
    <2> QED BY <1>1, <2>1, HoldsStays DEF vars
  <1>2. ASSUME NEW t \in Txn, Look(t)
        PROVE  LocksInv'
    <2>1. /\ job' = job /\ held' = held /\ levels' = levels /\ state[t] = "starting" /\ state'[t] = "running"
          /\ state' \in [Txn -> State] /\ found' \in [Txn -> SUBSET Material]
          /\ \A u \in Txn \ {t} : state'[u] = state[u] /\ found'[u] = found[u]
      BY <1>2 DEF Look, TypeOK, State
    <2>2. TypeOK' /\ Exclusive'
      BY <2>1 DEF TypeOK, Exclusive
    <2>3. Holds(t)'
      <3>1. CASE job[t].kind = "reserve"
        BY <2>1, <3>1, HoldsLook
      <3>2. CASE job[t].kind # "reserve"
        BY <2>1, <3>2 DEF Holds, OrderFirst, ReserveHolds, CancelHolds, OthersHold, LacksOrder,
                          StockHeld, RowsHeld
      <3> QED BY <3>1, <3>2
    <2>4. \A u \in Txn \ {t} : Holds(u)'
      BY <2>1, HoldsStays
    <2> QED BY <2>2, <2>3, <2>4
  <1>3. ASSUME NEW t \in Txn, TakeLock(t)
        PROVE  LocksInv'
    <2>1. PICK l \in Wants(t) : TRUE
      BY <1>3 DEF TakeLock
    <2>2. Wants(t) = {l} /\ l \in Lock
      BY OneLock, WantsLocks DEF TypeOK
    <2>3. /\ job' = job /\ found' = found /\ state' = state /\ levels' = levels
          /\ held' \in [Txn -> SUBSET Lock] /\ held'[t] = held[t] \cup {l}
          /\ \A u \in Txn \ {t} : held'[u] = held[u] /\ l \notin held[u]
      BY <1>3, <2>2 DEF TakeLock, TypeOK
    <2>4. TypeOK' /\ Exclusive'
      BY <2>3 DEF TypeOK, Exclusive
    <2>5. Holds(t)'
      BY <2>2, <2>3, HoldsTake
    <2>6. \A u \in Txn \ {t} : Holds(u)'
      BY <2>3, HoldsStays
    <2> QED BY <2>4, <2>5, <2>6
  <1>4. ASSUME NEW t \in Txn, Refuse(t) \/ Commit(t) \/ AbortVictim(t)
        PROVE  LocksInv'
    <2>1. /\ job' = job /\ found' = found /\ levels' \in SUBSET Material
          /\ state' \in [Txn -> State] /\ state'[t] \in {"committed", "aborted"}
          /\ held' \in [Txn -> SUBSET Lock] /\ held'[t] = {}
          /\ \A u \in Txn \ {t} : held'[u] = held[u] /\ state'[u] = state[u]
      BY <1>4 DEF Refuse, Commit, AbortVictim, Abort, TypeOK, State, StockHeld
    <2>2. TypeOK' /\ Exclusive'
      BY <2>1 DEF TypeOK, Exclusive
    <2>3. Holds(t)'
      BY <2>1, HoldsEnds
    <2>4. \A u \in Txn \ {t} : Holds(u)'
      BY <2>1, HoldsStays
    <2> QED BY <2>2, <2>3, <2>4
  <1> QED BY <1>1, <1>2, <1>3, <1>4 DEF Next

-----------------------------------------------------------------------------
(* Circles. *)

(* Stock that a use or a staff movement holds, it has finished with. *)
LEMMA OthersWithStock ==
  ASSUME LocksInv, NEW t \in Txn, StockHeld(t) # {}, job[t].kind \in {"use", "staff"}
  PROVE  Wants(t) = {}
  <1>1. Holds(t) /\ job[t] \in Job
    BY DEF LocksInv, TypeOK
  <1>2. PICK m \in Material : StockLock(m) \in held[t]
    BY DEF StockHeld
  <1> QED BY <1>1, <1>2, LockKinds
          DEF Holds, OthersHold, Wants, LacksOrder, UseWants

(* A cancellation that wants stock has rows; with a row, it wants a higher   *)
(* one.                                                                      *)
LEMMA CancelsInOrder ==
  ASSUME LocksInv, NEW t \in Txn, job[t].kind = "cancel", NEW l \in Wants(t), held[t] # {}
  PROVE  \/ CancelsRowByRow(t)
         \/ \E r \in Row : l = RowLock(r) /\ StockHeld(t) = {} /\ \A q \in RowsHeld(t) : q < r
  <1>1. Holds(t) /\ job[t] \in Job
    BY DEF LocksInv, TypeOK
  <1>2. job[t] \in Cancels
    BY <1>1 DEF Job, Reserves, Uses, Movements
  <1>3. ~LacksOrder(t)
    BY <1>1 DEF Holds, OrderFirst
  <1>4. l \in CancelWants(t)
    BY <1>1, <1>3, LockWanted
  <1>5. CASE \E r \in OrderRows(job[t].order) \ RowsHeld(t) : l = RowLock(r)
    BY <1>1, <1>5 DEF Holds, CancelHolds, OrderRows
  <1>6. CASE /\ OrderRows(job[t].order) \subseteq RowsHeld(t)
             /\ \E r \in job[t].open : l = StockLock(MaterialOf[r])
    <2>1. PICK r \in job[t].open : l = StockLock(MaterialOf[r])
      BY <1>6
    <2>2. MaterialOf[r] \in Material /\ r \in RowsHeld(t)
      BY <1>1, <1>2, <1>6, <2>1, LocksAssumption DEF Cancels, Holds, CancelHolds
    <2> QED BY <2>1, <2>2 DEF CancelsRowByRow
  <1> QED BY <1>2, <1>4, <1>5, <1>6, CancelWanted

(* A reservation that holds locks wants a higher level, a level to insert    *)
(* or a row.                                                                 *)
LEMMA ReservesInOrder ==
  ASSUME LocksInv, NEW t \in Txn, job[t].kind = "reserve", NEW l \in Wants(t), held[t] # {}
  PROVE  \/ \E n \in Material : /\ l = StockLock(n) /\ n \in found[t]
                                /\ \A m \in StockHeld(t) : m < n
                                /\ Written(t) = {}
         \/ \E n \in Material : /\ l = StockLock(n) /\ Inserts(t, n)
                                /\ \A m \in Written(t) : m \notin found[t]
         \/ \E r \in OrderRows(job[t].order) : l = RowLock(r) /\ OrderLock(job[t].order) \in held[t]
  <1>1. Holds(t) /\ job[t] \in Job /\ found[t] \in SUBSET Material
    BY DEF LocksInv, TypeOK
  <1>2. job[t] \in Reserves
    BY <1>1 DEF Job, Cancels, Uses, Movements
  <1>3. ~LacksOrder(t) /\ OrderLock(job[t].order) \in held[t]
    BY <1>1 DEF Holds, OrderFirst, LacksOrder
  <1>4. l \in ReserveWants(t)
    BY <1>1, <1>3, LockWanted
  <1>5. CASE \E n \in ToLock(t) : l = StockLock(n)
    <2>1. PICK n \in ToLock(t) : l = StockLock(n)
      BY <1>5
    <2>2. n \in Material /\ n \in found[t]
      BY <1>1, <2>1 DEF ToLock
    <2>3. \A m \in StockHeld(t) : m \in found[t] /\ m < n
      BY <1>1, <2>1 DEF Holds, ReserveHolds
    <2>4. RowsHeld(t) = {}
      BY <1>1, <2>1 DEF Holds, ReserveHolds
    <2>5. Written(t) = {}
      BY <2>3, <2>4 DEF Written, MaterialsOf
    <2> QED BY <2>1, <2>2, <2>3, <2>5
  <1>6. CASE \E r \in ToInsert(t) : l = StockLock(MaterialOf[r])
    <2>1. PICK r \in ToInsert(t) : l = StockLock(MaterialOf[r])
      BY <1>6
    <2>2. MaterialOf[r] \in Material /\ MaterialOf[r] \notin found[t]
      BY <2>1, LocksAssumption DEF ToInsert, OrderRows
    <2>3. Inserts(t, MaterialOf[r])
      BY <2>1, <2>2 DEF Inserts
    <2>4. RowsHeld(t) = {}
      BY <1>1, <2>1 DEF Holds, ReserveHolds
    <2>5. \A m \in Written(t) : m \notin found[t]
      BY <2>4 DEF Written, MaterialsOf
    <2> QED BY <2>1, <2>2, <2>3, <2>5
  <1> QED BY <1>2, <1>3, <1>4, <1>5, <1>6, ReserveWanted

(* A circle without the known causes would go up for ever. *)
LEMMA CircleHasCause ==
  ASSUME LocksInv, NEW S \in SUBSET Txn, Circle(S),
         \A t \in S : ~CancelsRowByRow(t),
         \A t, u \in S : t # u => ~(CreatesLevels(t) /\ CreatesLevels(u)),
         \A t, u \in S : ~ReservesUsedRow(t, u)
  PROVE  FALSE
  <1>1. ASSUME NEW t \in Txn
        PROVE  job[t] \in Job /\ Holds(t)
    BY DEF LocksInv, TypeOK
  <1>2. ASSUME NEW t \in S
        PROVE  \E u \in S, l \in Wants(t) :
                 /\ t # u /\ l \in held[u]
                 /\ \A m \in Material : l = StockLock(m) /\ Inserts(t, m) => m \in Written(u)
    BY DEF Circle, WaitsFor
  <1>3. \A t \in S : \A k, l \in Wants(t) : k = l
    BY <1>1, OneLock
  <1>4. \A t \in S : job[t].kind \in {"reserve", "cancel", "use", "staff"}
    BY <1>1 DEF Job, Reserves, Cancels, Uses, Movements
  (* No reservation wants a row: only a use can hold it. *)
  <1>5. ASSUME NEW t \in S, job[t].kind = "reserve", NEW r \in OrderRows(job[t].order),
               RowLock(r) \in Wants(t), OrderLock(job[t].order) \in held[t]
        PROVE  FALSE
    <2>1. PICK u \in S : t # u /\ RowLock(r) \in held[u]
      BY <1>2, <1>3, <1>5
    <2>2. r \in Row /\ OrderOf[r] = job[t].order /\ r \in RowsHeld(u)
      BY <2>1 DEF OrderRows, RowsHeld
    <2>3. OrderLock(job[t].order) \notin held[u]
      BY <1>5, <2>1 DEF LocksInv, Exclusive
    <2>4. CASE job[u].kind \in {"reserve", "cancel"}
      <3>1. OrderLock(job[u].order) \in held[u]
        BY <1>1, <2>1, <2>4 DEF Holds, OrderFirst, LacksOrder
      <3>2. r \in OrderRows(job[u].order)
        BY <1>1, <2>2, <2>4 DEF Holds, ReserveHolds, CancelHolds
      <3>3. job[u].order = job[t].order
        BY <2>2, <3>2 DEF OrderRows
      <3> QED BY <2>3, <3>1, <3>3
    <2>5. CASE job[u].kind = "use"
      <3>1. r = job[u].row
        BY <1>1, <2>1, <2>5, LockKinds DEF Holds, OthersHold
      <3> QED BY <1>5, <2>1, <2>5, <3>1 DEF ReservesUsedRow
    <2>6. CASE job[u].kind = "staff"
      BY <1>1, <2>1, <2>6, LockKinds DEF Holds, OthersHold
    <2> QED BY <1>4, <2>4, <2>5, <2>6
  (* Who has written a level that another inserts has created it, and wants  *)
  (* to create one more.                                                     *)
  <1>6. ASSUME NEW u \in S, NEW m \in Written(u)
        PROVE  CreatesLevels(u)
    <2>1. m \in StockHeld(u) /\ held[u] # {}
      BY <1>6 DEF Written, StockHeld
    <2>2. PICK l \in Wants(u) : TRUE
      BY <1>2
    <2>3. job[u].kind \notin {"use", "staff"}
      BY <2>1, <2>2, OthersWithStock
    <2>4. job[u].kind # "cancel"
      BY <2>1, <2>2, CancelsInOrder
    <2>5. job[u].kind = "reserve"
      BY <1>4, <2>3, <2>4
    <2>6. PICK n \in Material : Inserts(u, n) /\ \A x \in Written(u) : x \notin found[u]
      BY <1>5, <1>6, <2>1, <2>2, <2>5, ReservesInOrder
    <2> QED BY <1>6, <2>1, <2>5, <2>6 DEF CreatesLevels
  (* So nobody inserts: two would create levels. *)
  <1>7. ASSUME NEW t \in S, NEW n \in Material, Inserts(t, n)
        PROVE  FALSE
    <2>1. StockLock(n) \in Wants(t)
      BY <1>7 DEF Inserts
    <2>2. PICK u \in S : t # u /\ n \in Written(u)
      BY <1>2, <1>3, <1>7, <2>1
    <2>3. CreatesLevels(u)
      BY <1>6, <2>2
    <2>4. PICK x \in Material : Inserts(u, x)
      BY <2>3 DEF CreatesLevels
    <2>5. StockLock(x) \in Wants(u)
      BY <2>4 DEF Inserts
    <2>6. PICK v \in S : u # v /\ x \in Written(v)
      BY <1>2, <1>3, <2>4, <2>5
    <2>7. CreatesLevels(v)
      BY <1>6, <2>6
    <2> QED BY <2>3, <2>6, <2>7
  (* Who holds stock wants more of a higher material. *)
  <1>8. ASSUME NEW u \in S, NEW m \in StockHeld(u)
        PROVE  \E n \in Material : StockLock(n) \in Wants(u) /\ m < n
    <2>1. held[u] # {}
      BY <1>8 DEF StockHeld
    <2>2. PICK l \in Wants(u) : TRUE
      BY <1>2
    <2>3. job[u].kind \notin {"use", "staff"}
      BY <1>8, <2>2, OthersWithStock
    <2>4. job[u].kind # "cancel"
      BY <1>8, <2>1, <2>2, CancelsInOrder
    <2>5. job[u].kind = "reserve"
      BY <1>4, <2>3, <2>4
    <2> QED BY <1>5, <1>7, <1>8, <2>1, <2>2, <2>5, ReservesInOrder
  (* Nobody wants stock: it would be the largest that is wanted. *)
  <1>9. ASSUME NEW t \in S, NEW m \in Material, StockLock(m) \in Wants(t)
        PROVE  FALSE
    <2> DEFINE W == {n \in Material : \E u \in S : StockLock(n) \in Wants(u)}
    <2>1. W \in SUBSET Nat /\ IsFiniteSet(W) /\ W # {}
      <3>1. W \in SUBSET Material /\ m \in W
        BY <1>9
      <3> QED BY <3>1, LocksAssumption, FS_Subset
    <2>2. PICK n \in W : \A x \in W : x <= n
      BY <2>1, Largest
    <2>3. PICK u \in S : StockLock(n) \in Wants(u)
      OBVIOUS
    <2>4. PICK v \in S : StockLock(n) \in held[v]
      BY <1>2, <1>3, <2>3
    <2>5. PICK x \in Material : StockLock(x) \in Wants(v) /\ n < x
      BY <1>8, <2>4 DEF StockHeld
    <2>6. x \in W /\ x \in Nat /\ n \in Nat
      BY <2>1, <2>5
    <2> QED BY <2>2, <2>5, <2>6
  (* Nor a row. *)
  <1>10. ASSUME NEW t \in S, NEW r \in Row, RowLock(r) \in Wants(t)
         PROVE  FALSE
    <2> DEFINE W == {q \in Row : \E u \in S : RowLock(q) \in Wants(u)}
    <2>1. W \in SUBSET Nat /\ IsFiniteSet(W) /\ W # {}
      <3>1. W \in SUBSET Row /\ r \in W
        BY <1>10
      <3> QED BY <3>1, LocksAssumption, FS_Subset
    <2>2. PICK q \in W : \A x \in W : x <= q
      BY <2>1, Largest
    <2>3. PICK u \in S : RowLock(q) \in Wants(u)
      OBVIOUS
    <2>4. PICK v \in S : RowLock(q) \in held[v]
      BY <1>2, <1>3, <2>3
    <2>5. q \in RowsHeld(v) /\ held[v] # {}
      BY <2>4 DEF RowsHeld
    <2>6. PICK l \in Wants(v) : TRUE
      BY <1>2
    <2>7. job[v].kind = "cancel"
      <3>1. CASE job[v].kind = "reserve"
        BY <1>5, <1>9, <2>5, <2>6, <3>1, ReservesInOrder
      <3>2. CASE job[v].kind = "use"
        <4>1. RowLock(job[v].row) \in held[v] /\ ~LacksOrder(v)
          BY <1>1, <2>4, <3>2, LockKinds DEF Holds, OthersHold, LacksOrder
        <4>2. l = StockLock(MaterialOf[job[v].row])
          BY <1>1, <2>6, <3>2, <4>1, LockWanted DEF UseWants
        <4>3. MaterialOf[job[v].row] \in Material
          BY <1>1, <3>2, LocksAssumption DEF Job, Reserves, Cancels, Uses, Movements
        <4> QED BY <1>9, <2>6, <4>2, <4>3
      <3>3. CASE job[v].kind = "staff"
        BY <1>1, <2>4, <3>3, LockKinds DEF Holds, OthersHold
      <3> QED BY <1>4, <3>1, <3>2, <3>3
    <2>8. PICK x \in Row : l = RowLock(x) /\ \A y \in RowsHeld(v) : y < x
      BY <2>5, <2>6, <2>7, CancelsInOrder
    <2>9. x \in W /\ x \in Nat /\ q \in Nat /\ q < x
      BY <2>1, <2>5, <2>6, <2>8
    <2> QED BY <2>2, <2>9
  (* But who holds an order wants one of them. *)
  <1>11. PICK t \in S : TRUE
    BY DEF Circle
  <1>12. PICK u \in S, l \in Wants(t) : l \in held[u]
    BY <1>2
  <1>13. l = OrderLock(job[t].order) /\ job[t].order \in ProductionOrder
    <2>1. Wants(t) \subseteq Lock
      BY WantsLocks DEF LocksInv
    <2>2. PICK o \in ProductionOrder : l = OrderLock(o)
      BY <1>9, <1>10, <1>12, <2>1 DEF Lock
    <2> QED BY <1>1, <1>12, <2>2, LockWanted, ReserveWanted, CancelWanted, LockKinds
            DEF UseWants, Job, Reserves, Cancels, Uses, Movements
  <1>14. job[u].kind \in {"reserve", "cancel"} /\ held[u] # {}
    BY <1>1, <1>12, <1>13 DEF Holds, OrderFirst
  <1>15. PICK k \in Wants(u) : TRUE
    BY <1>2
  <1>16. CASE job[u].kind = "reserve"
    BY <1>5, <1>9, <1>14, <1>15, <1>16, ReservesInOrder
  <1>17. CASE job[u].kind = "cancel"
    BY <1>10, <1>14, <1>15, <1>17, CancelsInOrder
  <1> QED BY <1>14, <1>16, <1>17

(* In every circle of waiting transactions there is a cancellation that      *)
(* locks stock row by row (cancel_production), or there are two reservations *)
(* that create stock levels in the order of their rows (reserve_materials),  *)
(* or a reservation wants a row that a use of its order holds: stock that    *)
(* exists, which is locked by material id, is never the cause by itself,     *)
(* however many transactions, orders, rows and materials there are.          *)
THEOREM CirclesHaveCauses == Spec => []OnlyKnownCircles
  <1>1. LocksInv => OnlyKnownCircles
    BY CircleHasCause DEF OnlyKnownCircles
  <1> QED BY <1>1, LocksInvInit, LocksInvNext, PTL DEF Spec
=============================================================================
