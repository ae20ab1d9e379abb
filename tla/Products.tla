------------------------------ MODULE Products ------------------------------
(***************************************************************************)
(* Products of the catalog: their lifecycle, their price with its audit    *)
(* trail, and the numbers of their variants.                               *)
(*                                                                         *)
(* Every handler first reads the product without a lock and decides on     *)
(* that reading; job[r] is how far request r has got.  The ORM then writes *)
(* only the columns that differ from the reading, in one step with the     *)
(* audit event and the commit.  A new variant locks the product row first, *)
(* so that its number is still free when it is committed.                  *)
(***************************************************************************)
EXTENDS Naturals, FiniteSets, Sequences

CONSTANTS Product, Request,
          Price,       \* selling_price_minor: 0 is a product without a price
          MaxTrail,    \* bound: price changes of a product
          MaxVariants  \* bound: variants of a product

ASSUME ProductsAssumption ==
  /\ Price \subseteq Nat /\ 0 \in Price
  /\ MaxTrail \in Nat /\ MaxVariants \in Nat

VARIABLES product,  \* [Product -> its row]: products
          trail,    \* [Product -> Seq(PriceChange)]: its price events in the audit log
          skus,     \* [Product -> numbers of its variants]: product_variants
          job       \* [Request -> what it has read]

vars == <<product, trail, skus, job>>

(* "absent": a product that nobody has created yet. *)
Row == [status : {"absent", "draft", "active", "archived"}, price : Price]

PriceChange == [old : Price, new : Price]

Idle == [at |-> "idle"]
Reading == [at : {"reading"}, product : Product, row : Row]
Adding == [at : {"adding"}, product : Product, sku : Nat]

Init ==
  /\ product = [p \in Product |-> [status |-> "absent", price |-> 0]]
  /\ trail = [p \in Product |-> <<>>]
  /\ skus = [p \in Product |-> {}]
  /\ job = [r \in Request |-> Idle]

CreateProduct(p) ==
  /\ product[p].status = "absent"
  /\ product' = [product EXCEPT ![p] = [status |-> "draft", price |-> 0]]
  /\ UNCHANGED <<trail, skus, job>>

(* The reading that every handler starts with. *)
GetProduct(r, p) ==
  /\ job[r] = Idle
  /\ product[p].status # "absent"
  /\ job' = [job EXCEPT ![r] = [at |-> "reading", product |-> p, row |-> product[p]]]
  /\ UNCHANGED <<product, trail, skus>>

End(r) == job' = [job EXCEPT ![r] = Idle]

(* The row of p is locked by a request that is adding a variant. *)
Locked(p) == \E r \in Request : job[r].at = "adding" /\ job[r].product = p

(* UPDATE of the columns in which new differs from the row that was read. *)
Flush(p, read, new) ==
  /\ new # read => ~Locked(p)
  /\ product' = [product EXCEPT ![p] =
       [status |-> IF new.status = read.status THEN product[p].status ELSE new.status,
        price  |-> IF new.price = read.price THEN product[p].price ELSE new.price]]

Publish(r) ==
  /\ job[r].at = "reading"
  /\ job[r].row.status = "draft" /\ job[r].row.price > 0
  /\ Flush(job[r].product, job[r].row, [job[r].row EXCEPT !.status = "active"])
  /\ End(r)
  /\ UNCHANGED <<trail, skus>>

Archive(r) ==
  /\ job[r].at = "reading"
  /\ job[r].row.status # "archived"
  /\ Flush(job[r].product, job[r].row, [job[r].row EXCEPT !.status = "archived"])
  /\ End(r)
  /\ UNCHANGED <<trail, skus>>

(* The event names the price stored now, not the one that n was compared   *)
(* with.                                                                   *)
SetPrice_LogsStored(r, n) ==
  /\ job[r].at = "reading"
  /\ Len(trail[job[r].product]) < MaxTrail
  /\ Flush(job[r].product, job[r].row, [job[r].row EXCEPT !.price = n])
  /\ trail' = [trail EXCEPT ![job[r].product] =
                 Append(@, [old |-> product[job[r].product].price, new |-> n])]
  /\ End(r)
  /\ UNCHANGED skus

(* Any price from zero on, in any status; the event names the price read. *)
SetPrice(r, n) ==
  /\ job[r].at = "reading"
  /\ Len(trail[job[r].product]) < MaxTrail
  /\ Flush(job[r].product, job[r].row, [job[r].row EXCEPT !.price = n])
  /\ trail' = [trail EXCEPT ![job[r].product] =
                 Append(@, [old |-> job[r].row.price, new |-> n])]
  /\ End(r)
  /\ UNCHANGED skus

(* The first number after as many as there are that is not taken. *)
NextSku(taken) ==
  CHOOSE n \in Cardinality(taken) + 1 .. 2 * Cardinality(taken) + 1 :
    /\ n \notin taken
    /\ \A k \in Cardinality(taken) + 1 .. n - 1 : k \in taken

(* The number is read without the lock on the product. *)
LockParent_NoLock(r) ==
  /\ job[r].at = "reading"
  /\ Cardinality(skus[job[r].product]) < MaxVariants
  /\ job' = [job EXCEPT ![r] = [at |-> "adding", product |-> job[r].product,
                                sku |-> NextSku(skus[job[r].product])]]
  /\ UNCHANGED <<product, trail, skus>>

(* SELECT ... FOR UPDATE on the product, and the number read under it. *)
LockParent(r) ==
  /\ job[r].at = "reading"
  /\ ~Locked(job[r].product)
  /\ Cardinality(skus[job[r].product]) < MaxVariants
  /\ job' = [job EXCEPT ![r] = [at |-> "adding", product |-> job[r].product,
                                sku |-> NextSku(skus[job[r].product])]]
  /\ UNCHANGED <<product, trail, skus>>

(* The unique index on sku would refuse a number that is taken. *)
AddVariant(r) ==
  /\ job[r].at = "adding"
  /\ job[r].sku \notin skus[job[r].product]
  /\ skus' = [skus EXCEPT ![job[r].product] = @ \cup {job[r].sku}]
  /\ End(r)
  /\ UNCHANGED <<product, trail>>

(* A request that is refused, fails or only reads. *)
Abort(r) ==
  /\ job[r] # Idle
  /\ End(r)
  /\ UNCHANGED <<product, trail, skus>>

Next ==
  \/ \E p \in Product : CreateProduct(p)
  \/ \E r \in Request :
       \/ \E p \in Product : GetProduct(r, p)
       \/ Publish(r) \/ Archive(r)
       \/ \E n \in Price : SetPrice(r, n)
       \/ LockParent(r) \/ AddVariant(r)
       \/ Abort(r)

Spec == Init /\ [][Next]_vars
-----------------------------------------------------------------------------
(* Rows, trails and jobs have their types, and numbers of variants count.  *)
ProductsTypeOK ==
  /\ product \in [Product -> Row]
  /\ trail \in [Product -> Seq(PriceChange)]
  /\ skus \in [Product -> SUBSET Nat]
  /\ job \in [Request -> {Idle} \cup Reading \cup Adding]

(* The price of a product is that of the last change in its trail which    *)
(* was one: handlers that read the same price and interleave may log a     *)
(* stale old price, or a change to the price they read that writes nothing.*)
LastChangeIsPrice(p) ==
  \/ /\ product[p].price = 0
     /\ \A i \in DOMAIN trail[p] : trail[p][i].new = trail[p][i].old
  \/ \E i \in DOMAIN trail[p] :
       /\ trail[p][i].new # trail[p][i].old
       /\ trail[p][i].new = product[p].price
       /\ \A j \in i + 1 .. Len(trail[p]) : trail[p][j].new = trail[p][j].old

(* n was the price of p at some time before its i-th change was logged. *)
PriceBefore(p, n, i) == n = 0 \/ \E j \in 1 .. i - 1 : trail[p][j].new = n

(* Prices are changed by set_product_price alone, which logs old and new   *)
(* price with each change: the trail of a product explains its price       *)
(* whatever requests interleave, an old price in it was the price once, and*)
(* no product is on sale whose trail shows no price above zero.            *)
TrailExplainsPrice ==
  \A p \in Product :
    /\ LastChangeIsPrice(p)
    /\ \A i \in DOMAIN trail[p] : PriceBefore(p, trail[p][i].old, i)
    /\ product[p].status = "active" => \E i \in DOMAIN trail[p] : trail[p][i].new > 0

(* create_variant numbers the variants of a product without a gap, and the *)
(* number that a request has read under the lock of the product is the     *)
(* next one until the request ends: no retry is ever needed.               *)
VariantsAreNumbered ==
  /\ \A p \in Product : skus[p] = 1 .. Cardinality(skus[p])
  /\ \A r \in Request : job[r].at = "adding" =>
       job[r].sku = Cardinality(skus[job[r].product]) + 1
=============================================================================
