--------------------------- MODULE CatalogProofs ---------------------------
(***************************************************************************)
(* The parts of the catalog for any products, prices, materials, clerks,   *)
(* pages, fields, translators, names, images and amounts of money, however *)
(* their requests interleave.  Each part is proved from its own            *)
(* specification.                                                          *)
(***************************************************************************)
EXTENDS MCCatalog, FiniteSetTheorems, FunctionTheorems, WellFoundedInduction, TLAPS

-----------------------------------------------------------------------------
(* Products: the handlers decide on unlocked readings; what makes the      *)
(* trail sufficient is that a reading shows a price the product once had,  *)
(* and what makes the numbers good is that the lock on the product is held *)
(* from the count to the commit.                                           *)

Jobs == {Idle} \cup Reading \cup Adding

(* A job is told apart by where it is. *)
LEMMA JobKinds ==
  /\ Idle.at = "idle"
  /\ \A j \in Jobs : j.at = "reading" <=> j \in Reading
  /\ \A j \in Jobs : j.at = "adding" <=> j \in Adding
  <1>1. Idle.at = "idle"
    BY DEF Idle
  <1>2. \A j \in Reading : j.at = "reading"
    BY DEF Reading
  <1>3. \A j \in Adding : j.at = "adding"
    BY DEF Adding
  <1> QED BY <1>1, <1>2, <1>3 DEF Jobs

(* The row that a flush leaves is one. *)
LEMMA FlushType ==
  ASSUME ProductsTypeOK, NEW p \in Product, NEW read \in Row, NEW new \in Row,
         Flush(p, read, new)
  PROVE  product' \in [Product -> Row]
  <1>1. product[p] \in Row
    BY DEF ProductsTypeOK
  <1> DEFINE written == [status |-> IF new.status = read.status THEN product[p].status ELSE new.status,
                         price  |-> IF new.price = read.price THEN product[p].price ELSE new.price]
  <1>2. written \in Row
    BY <1>1 DEF Row
  <1>3. product' = [product EXCEPT ![p] = written]
    BY DEF Flush
  <1> HIDE DEF written
  <1> QED BY <1>2, <1>3 DEF ProductsTypeOK

(* A reading, with the row that a handler makes of it. *)
LEMMA ReadingType ==
  ASSUME ProductsTypeOK, NEW r \in Request, job[r].at = "reading"
  PROVE  /\ job[r].product \in Product
         /\ job[r].row \in Row
         /\ \A s \in {"active", "archived"} : [job[r].row EXCEPT !.status = s] \in Row
         /\ \A n \in Price : [job[r].row EXCEPT !.price = n] \in Row
  <1>1. job[r] \in Reading
    BY JobKinds DEF ProductsTypeOK, Jobs
  <1> QED BY <1>1 DEF Reading, Row

(* What a request that adds a variant remembers. *)
LEMMA AddingType ==
  ASSUME ProductsTypeOK, NEW r \in Request, job[r].at = "adding"
  PROVE  job[r].product \in Product /\ job[r].sku \in Nat
  <1>1. job[r] \in Adding
    BY JobKinds DEF ProductsTypeOK, Jobs
  <1> QED BY <1>1 DEF Adding
-----------------------------------------------------------------------------
(* Numbers of variants.  They are the first ones, at most one request per   *)
(* product is adding one, and it has read the next number.                  *)

Count(p) == Cardinality(skus[p])

NumbersInv ==
  /\ \A p \in Product : Count(p) \in Nat /\ skus[p] = 1..Count(p)
  /\ \A r \in Request : job[r].at = "adding" => job[r].sku = Count(job[r].product) + 1
  /\ \A r, s \in Request :
       job[r].at = "adding" /\ job[s].at = "adding" /\ job[r].product = job[s].product
         => r = s

(* After the first k numbers comes the next one. *)
LEMMA NextSkuIsNext ==
  ASSUME NEW k \in Nat
  PROVE  NextSku(1..k) = k + 1
  <1>1. Cardinality(1..k) = k
    BY FS_Interval
  <1> DEFINE Free(n) == n \notin 1..k /\ \A i \in k + 1 .. n - 1 : i \in 1..k
  <1>2. k + 1 \in k + 1 .. 2 * k + 1 /\ Free(k + 1)
    OBVIOUS
  <1>3. \A n \in k + 1 .. 2 * k + 1 : Free(n) => n = k + 1
    <2>1. SUFFICES ASSUME NEW n \in k + 1 .. 2 * k + 1, Free(n), n # k + 1 PROVE FALSE
      OBVIOUS
    <2>2. k + 1 \in k + 1 .. n - 1
      BY <2>1
    <2> QED BY <2>1, <2>2
  <1>4. NextSku(1..k) = CHOOSE n \in k + 1 .. 2 * k + 1 : Free(n)
    BY <1>1 DEF NextSku
  <1> HIDE DEF Free
  <1> QED BY <1>2, <1>3, <1>4

(* The numbers that a count of the existing ones gives. *)
LEMMA CountedUp ==
  ASSUME NEW k \in Nat
  PROVE  /\ Cardinality((1..k) \cup {k + 1}) = k + 1
         /\ (1..k) \cup {k + 1} = 1..(k + 1)
  <1>1. (1..k) \cup {k + 1} = 1..(k + 1)
    OBVIOUS
  <1>2. Cardinality(1..(k + 1)) = k + 1
    BY FS_Interval
  <1> QED BY <1>1, <1>2

NumberedInv == ProductsTypeOK /\ NumbersInv

(* A job that ends, or begins without adding, disturbs no number. *)
LEMMA JobStep ==
  ASSUME NumberedInv, NEW r \in Request, NEW j \in {Idle} \cup Reading,
         job' = [job EXCEPT ![r] = j], UNCHANGED skus,
         product' \in [Product -> Row], trail' \in [Product -> Seq(PriceChange)]
  PROVE  NumberedInv'
  <1>1. j \in Jobs /\ j.at # "adding"
    BY JobKinds DEF Jobs, Idle, Reading
  <1>2. job' \in [Request -> Jobs]
    BY <1>1 DEF NumberedInv, ProductsTypeOK, Jobs
  <1>3. ProductsTypeOK'
    BY <1>2 DEF NumberedInv, ProductsTypeOK, Jobs
  <1>4. \A s \in Request : job'[s].at = "adding" => job[s].at = "adding" /\ job'[s] = job[s]
    BY <1>1 DEF NumberedInv, ProductsTypeOK
  <1>5. NumbersInv'
    BY <1>4 DEF NumberedInv, NumbersInv, Count
  <1> QED BY <1>3, <1>5 DEF NumberedInv

(* Taking the lock, and the next number under it. *)
LEMMA NumberTaken ==
  ASSUME NumberedInv, NEW r \in Request, LockParent(r)
  PROVE  NumberedInv'
  <1> DEFINE p == job[r].product
             j == [at |-> "adding", product |-> p, sku |-> NextSku(skus[p])]
  <1>1. p \in Product /\ skus[p] = 1..Count(p) /\ Count(p) \in Nat
    BY ReadingType DEF LockParent, NumberedInv, NumbersInv
  <1>2. NextSku(skus[p]) = Count(p) + 1
    BY <1>1, NextSkuIsNext
  <1>3. j \in Adding /\ j.at = "adding" /\ j.product = p /\ j.sku = Count(p) + 1
    BY <1>1, <1>2 DEF Adding
  <1>4. job' = [job EXCEPT ![r] = j] /\ UNCHANGED <<product, trail, skus>>
    BY DEF LockParent
  <1>5. \A s \in Request : job[s].at = "adding" => job[s].product # p
    BY DEF LockParent, Locked
  <1> HIDE DEF p, j
  <1>6. ProductsTypeOK'
    BY <1>3, <1>4 DEF NumberedInv, ProductsTypeOK
  <1>7. job'[r] = j /\ \A s \in Request \ {r} : job'[s] = job[s]
    BY <1>4 DEF NumberedInv, ProductsTypeOK
  <1>8. NumbersInv'
    BY <1>3, <1>4, <1>5, <1>7 DEF NumberedInv, NumbersInv, Count
  <1> QED BY <1>6, <1>8 DEF NumberedInv

(* Committing the variant, which gives the lock back. *)
LEMMA NumberAdded ==
  ASSUME NumberedInv, NEW r \in Request, AddVariant(r)
  PROVE  NumberedInv'
  <1>0. PICK p \in Product : p = job[r].product
    BY AddingType DEF AddVariant, NumberedInv
  <1>1. Count(p) \in Nat /\ skus[p] = 1..Count(p) /\ job[r].sku = Count(p) + 1
    BY <1>0 DEF AddVariant, NumberedInv, NumbersInv
  <1>2. /\ skus' = [skus EXCEPT ![p] = skus[p] \cup {job[r].sku}]
        /\ job' = [job EXCEPT ![r] = Idle] /\ UNCHANGED <<product, trail>>
        /\ job[r].at = "adding"
    BY <1>0 DEF AddVariant, End
  <1>3. skus'[p] = (1..Count(p)) \cup {Count(p) + 1} /\ \A q \in Product \ {p} : skus'[q] = skus[q]
    BY <1>1, <1>2 DEF NumberedInv, ProductsTypeOK
  <1>4. skus'[p] = 1..(Count(p) + 1) /\ Cardinality(skus'[p]) = Count(p) + 1
    BY <1>1, <1>3, CountedUp
  <1>5. ProductsTypeOK'
    <2>1. skus' \in [Product -> SUBSET Nat]
      BY <1>1, <1>2 DEF NumberedInv, ProductsTypeOK
    <2>2. job' \in [Request -> Jobs]
      BY <1>2 DEF NumberedInv, ProductsTypeOK, Jobs
    <2> QED BY <2>1, <2>2, <1>2 DEF NumberedInv, ProductsTypeOK, Jobs
  <1>6. job'[r] = Idle /\ \A s \in Request \ {r} : job'[s] = job[s]
    BY <1>2 DEF NumberedInv, ProductsTypeOK
  <1>7. \A s \in Request : job'[s].at = "adding" =>
          s # r /\ job'[s] = job[s] /\ job[s].product \in Product /\ job[s].product # p
    <2>1. ASSUME NEW s \in Request, job'[s].at = "adding"
          PROVE  s # r /\ job'[s] = job[s] /\ job[s].at = "adding"
      BY <2>1, <1>6, JobKinds
    <2>2. ASSUME NEW s \in Request, job'[s].at = "adding"
          PROVE  job[s].product \in Product /\ job[s].product # p
      BY <1>0, <2>1, <2>2, <1>2, AddingType DEF NumberedInv, NumbersInv
    <2> QED BY <2>1, <2>2
  <1>8. NumbersInv'
    <2>1. \A q \in Product : Count(q)' \in Nat /\ skus'[q] = 1..Count(q)'
      <3>1. Count(p)' \in Nat /\ skus'[p] = 1..Count(p)'
        BY <1>1, <1>4 DEF Count
      <3>2. \A q \in Product \ {p} : Count(q)' = Count(q)
        BY <1>3 DEF Count
      <3> QED BY <3>1, <3>2, <1>3 DEF NumberedInv, NumbersInv
    <2>2. \A s \in Request : job'[s].at = "adding" => job'[s].sku = Count(job[s].product)' + 1
      BY <1>3, <1>7 DEF NumberedInv, NumbersInv, Count
    <2>3. \A s, t \in Request :
            job'[s].at = "adding" /\ job'[t].at = "adding" /\ job'[s].product = job'[t].product
              => s = t
      BY <1>7 DEF NumberedInv, NumbersInv
    <2> QED BY <2>1, <2>2, <2>3 DEF NumbersInv
  <1> QED BY <1>5, <1>8 DEF NumberedInv

(* There are no variants to begin with. *)
LEMMA NumberedInit == Init => NumberedInv
  <1> SUFFICES ASSUME Init PROVE NumberedInv
    OBVIOUS
  <1>1. [status |-> "absent", price |-> 0] \in Row
    BY ProductsAssumption DEF Row
  <1>2. ProductsTypeOK
    BY <1>1 DEF Init, ProductsTypeOK
  <1>3. \A p \in Product : skus[p] = {}
    BY DEF Init
  <1>4. \A r \in Request : job[r].at = "idle"
    BY JobKinds DEF Init
  <1>5. \A p \in Product : Count(p) \in Nat /\ skus[p] = 1..Count(p)
    <2>1. Cardinality({}) = 0 /\ 1..0 = {}
      BY FS_EmptySet
    <2>2. ASSUME NEW p \in Product PROVE Count(p) \in Nat /\ skus[p] = 1..Count(p)
      <3>1. Count(p) = 0
        BY <1>3, <2>1 DEF Count
      <3>2. 1..Count(p) = {}
        BY <3>1
      <3> QED BY <1>3, <3>1, <3>2
    <2> QED BY <2>2
  <1>6. NumbersInv
    BY <1>4, <1>5 DEF NumbersInv
  <1> QED BY <1>2, <1>6 DEF NumberedInv

(* Every other step leaves the numbers alone. *)
LEMMA NumberedNext == NumberedInv /\ [Next]_vars => NumberedInv'
  <1> SUFFICES ASSUME NumberedInv, [Next]_vars PROVE NumberedInv'
    OBVIOUS
  <1> USE DEF NumberedInv
  <1>1. ASSUME NEW p \in Product, CreateProduct(p) PROVE NumberedInv'
    <2>1. [status |-> "draft", price |-> 0] \in Row
      BY ProductsAssumption DEF Row
    <2>2. ProductsTypeOK'
      BY <1>1, <2>1 DEF CreateProduct, ProductsTypeOK
    <2>3. NumbersInv'
      BY <1>1 DEF CreateProduct, NumbersInv, Count
    <2> QED BY <2>2, <2>3
  <1>2. ASSUME NEW r \in Request, NEW p \in Product, GetProduct(r, p) PROVE NumberedInv'
    <2>1. [at |-> "reading", product |-> p, row |-> product[p]] \in Reading
      BY DEF Reading, ProductsTypeOK
    <2> QED BY <1>2, <2>1, JobStep DEF GetProduct, ProductsTypeOK
  <1>3. ASSUME NEW r \in Request, Publish(r) \/ Archive(r) PROVE NumberedInv'
    <2>1. product' \in [Product -> Row]
      BY <1>3, ReadingType, FlushType DEF Publish, Archive
    <2>2. job' = [job EXCEPT ![r] = Idle] /\ UNCHANGED <<trail, skus>>
      BY <1>3 DEF Publish, Archive, End
    <2> QED BY <2>1, <2>2, JobStep DEF ProductsTypeOK
  <1>4. ASSUME NEW r \in Request, NEW n \in Price, SetPrice(r, n) PROVE NumberedInv'
    <2>1. job[r].product \in Product /\ job[r].row \in Row
      BY <1>4, ReadingType DEF SetPrice
    <2>2. product' \in [Product -> Row]
      BY <1>4, ReadingType, FlushType DEF SetPrice
    <2>3. [old |-> job[r].row.price, new |-> n] \in PriceChange
      BY <2>1 DEF PriceChange, Row
    <2>4. trail' \in [Product -> Seq(PriceChange)]
      BY <1>4, <2>1, <2>3 DEF SetPrice, ProductsTypeOK
    <2>5. job' = [job EXCEPT ![r] = Idle] /\ UNCHANGED skus
      BY <1>4 DEF SetPrice, End
    <2> QED BY <2>2, <2>4, <2>5, JobStep
  <1>5. ASSUME NEW r \in Request, Abort(r) PROVE NumberedInv'
    BY <1>5, JobStep DEF Abort, End, ProductsTypeOK
  <1>6. CASE UNCHANGED vars
    BY <1>6 DEF vars, ProductsTypeOK, NumbersInv, Count
  <1> QED BY <1>1, <1>2, <1>3, <1>4, <1>5, <1>6, NumberTaken, NumberAdded DEF Next

(* Statuses, prices, trails and numbers keep their types, and a number that *)
(* a request is about to give a variant is one (models/product.py).         *)
THEOREM ProductsTypeCorrect == Spec => []ProductsTypeOK
  <1>1. NumberedInv => ProductsTypeOK
    BY DEF NumberedInv
  <1> QED BY <1>1, NumberedInit, NumberedNext, PTL DEF Spec

(* However many requests add variants to a product at once, its variants    *)
(* have the first numbers without a gap, and the number a request has read  *)
(* under the lock is still the next one when it commits (create_variant).   *)
THEOREM VariantsNumbered == Spec => []VariantsAreNumbered
  <1>1. NumberedInv => VariantsAreNumbered
    BY DEF NumberedInv, NumbersInv, VariantsAreNumbered, Count
  <1> QED BY <1>1, NumberedInit, NumberedNext, PTL DEF Spec
-----------------------------------------------------------------------------
(* Trails as sequences, apart from the product they belong to: t shows a     *)
(* price n, explains it as the last one, names only old prices that it has   *)
(* shown before, and shows one at which to sell.                            *)

ShowsPrice(t, n) == n = 0 \/ \E i \in DOMAIN t : t[i].new = n

Explains(t, n) ==
  \/ n = 0 /\ \A i \in DOMAIN t : t[i].new = t[i].old
  \/ \E i \in DOMAIN t : /\ t[i].new # t[i].old
                         /\ t[i].new = n
                         /\ \A j \in i + 1 .. Len(t) : t[j].new = t[j].old

OldShown(t) ==
  \A i \in DOMAIN t : t[i].old = 0 \/ \E j \in 1 .. i - 1 : t[j].new = t[i].old

Sells(t) == \E i \in DOMAIN t : t[i].new > 0

(* The price that a trail explains is one it shows. *)
LEMMA ExplainedIsShown ==
  ASSUME NEW t \in Seq(PriceChange), NEW n \in Price, Explains(t, n)
  PROVE  ShowsPrice(t, n)
  BY DEF Explains, ShowsPrice

(* A price to sell at is above zero. *)
LEMMA ShownSells ==
  ASSUME NEW t \in Seq(PriceChange), NEW n \in Price, ShowsPrice(t, n), n > 0
  PROVE  Sells(t)
  BY ProductsAssumption DEF ShowsPrice, Sells

(* One more event, of which the old price was shown before. *)
LEMMA Appended ==
  ASSUME NEW t \in Seq(PriceChange), NEW e \in PriceChange
  PROVE  /\ Append(t, e) \in Seq(PriceChange)
         /\ Len(Append(t, e)) = Len(t) + 1
         /\ DOMAIN t = 1..Len(t) /\ Len(t) \in Nat
         /\ DOMAIN Append(t, e) = 1..(Len(t) + 1)
         /\ \A i \in 1..Len(t) : Append(t, e)[i] = t[i]
         /\ Append(t, e)[Len(t) + 1] = e
  OBVIOUS

(* What a trail showed, sold at and explained it still does with one more event. *)
LEMMA AppendedTrail ==
  ASSUME NEW t \in Seq(PriceChange), NEW e \in PriceChange
  PROVE  /\ \A n \in Price : ShowsPrice(t, n) => ShowsPrice(Append(t, e), n)
         /\ Sells(t) => Sells(Append(t, e))
         /\ OldShown(t) /\ ShowsPrice(t, e.old) => OldShown(Append(t, e))
         /\ e.new # e.old => Explains(Append(t, e), e.new)
         /\ e.new = e.old => \A n \in Price : Explains(t, n) => Explains(Append(t, e), n)
  <1> DEFINE u == Append(t, e)
             k == Len(t)
  <1>1. /\ k \in Nat /\ DOMAIN t = 1..k /\ DOMAIN u = 1..(k + 1) /\ Len(u) = k + 1
        /\ \A i \in 1..k : u[i] = t[i]
        /\ u[k + 1] = e
    BY Appended
  <1> HIDE DEF u, k
  <1>2. ASSUME NEW n \in Price, ShowsPrice(t, n) PROVE ShowsPrice(u, n)
    BY <1>1, <1>2 DEF ShowsPrice
  <1>3. ASSUME Sells(t) PROVE Sells(u)
    BY <1>1, <1>3 DEF Sells
  <1>4. ASSUME OldShown(t), ShowsPrice(t, e.old) PROVE OldShown(u)
    <2>1. ASSUME NEW i \in 1..k
          PROVE  u[i].old = 0 \/ \E j \in 1 .. i - 1 : u[j].new = u[i].old
      BY <1>1, <1>4 DEF OldShown
    <2>2. u[k + 1].old = 0 \/ \E j \in 1 .. (k + 1) - 1 : u[j].new = u[k + 1].old
      BY <1>1, <1>4 DEF ShowsPrice
    <2> QED BY <1>1, <2>1, <2>2 DEF OldShown
  <1>5. ASSUME e.new # e.old PROVE Explains(u, e.new)
    <2>1. \A j \in (k + 1) + 1 .. Len(u) : u[j].new = u[j].old
      BY <1>1
    <2>2. k + 1 \in DOMAIN u
      BY <1>1
    <2> QED BY <1>1, <1>5, <2>1, <2>2 DEF Explains
  <1>6. ASSUME e.new = e.old, NEW n \in Price, Explains(t, n) PROVE Explains(u, n)
    <2>1. CASE n = 0 /\ \A i \in DOMAIN t : t[i].new = t[i].old
      BY <1>1, <1>6, <2>1 DEF Explains
    <2>2. CASE \E i \in DOMAIN t : /\ t[i].new # t[i].old /\ t[i].new = n
                                   /\ \A j \in i + 1 .. Len(t) : t[j].new = t[j].old
      <3>1. PICK i \in 1..k : /\ t[i].new # t[i].old /\ t[i].new = n
                              /\ \A j \in i + 1 .. k : t[j].new = t[j].old
        BY <1>1, <2>2 DEF k
      <3>2. \A j \in i + 1 .. Len(u) : u[j].new = u[j].old
        BY <1>1, <1>6, <3>1
      <3>3. i \in DOMAIN u /\ u[i] = t[i]
        BY <1>1
      <3> QED BY <3>1, <3>2, <3>3 DEF Explains
    <2> QED BY <1>6, <2>1, <2>2 DEF Explains
  <1> QED BY <1>2, <1>3, <1>4, <1>5, <1>6 DEF u
-----------------------------------------------------------------------------
(* The price and its trail.  The strengthening is that a price which a       *)
(* request has read was shown by the trail, and that nobody has read a       *)
(* product before it was created.                                           *)

PricedWell(written, t) ==
  /\ written.status = "absent" => written.price = 0 /\ t = <<>>
  /\ Explains(t, written.price)
  /\ OldShown(t)
  /\ written.status = "active" => Sells(t)

ReadWell(j) ==
  j.at = "reading" =>
    /\ product[j.product].status # "absent" /\ j.row.status # "absent"
    /\ ShowsPrice(trail[j.product], j.row.price)

TrailInv ==
  /\ \A p \in Product : PricedWell(product[p], trail[p])
  /\ \A r \in Request : ReadWell(job[r])

(* The invariant is what the property says of the variables. *)
LEMMA TrailSuffices ==
  ASSUME ProductsTypeOK, TrailInv
  PROVE  TrailExplainsPrice
  <1> SUFFICES ASSUME NEW p \in Product
               PROVE  /\ LastChangeIsPrice(p)
                      /\ \A i \in DOMAIN trail[p] : PriceBefore(p, trail[p][i].old, i)
                      /\ product[p].status = "active" => \E i \in DOMAIN trail[p] : trail[p][i].new > 0
    BY DEF TrailExplainsPrice
  <1>1. PricedWell(product[p], trail[p])
    BY DEF TrailInv
  <1>2. LastChangeIsPrice(p)
    BY <1>1 DEF PricedWell, Explains, LastChangeIsPrice
  <1>3. \A i \in DOMAIN trail[p] : PriceBefore(p, trail[p][i].old, i)
    BY <1>1 DEF PricedWell, OldShown, PriceBefore
  <1> QED BY <1>1, <1>2, <1>3 DEF PricedWell, Sells

(* A step that leaves the trails alone: of one product, the row may change   *)
(* to one that its trail goes with; of one request, the job.                *)
LEMMA QuietStep ==
  ASSUME ProductsTypeOK, TrailInv, UNCHANGED trail,
         NEW p \in Product, NEW written, product' = [product EXCEPT ![p] = written],
         PricedWell(written, trail[p]), written.status = "absent" => product[p].status = "absent",
         NEW r \in Request, NEW j, job' = [job EXCEPT ![r] = j],
         j.at = "reading" => ReadWell(j)'
  PROVE  TrailInv'
  <1>1. \A q \in Product : PricedWell(product'[q], trail'[q])
    BY DEF TrailInv, ProductsTypeOK
  <1>2. \A q \in Product : product[q].status # "absent" => product'[q].status # "absent"
    BY DEF ProductsTypeOK
  <1>3. ASSUME NEW s \in Request, s # r, job[s].at = "reading"
        PROVE  ReadWell(job[s])'
    <2>1. job'[s] = job[s] /\ job[s].product \in Product
      BY <1>3, ReadingType DEF ProductsTypeOK
    <2> QED BY <1>2, <1>3, <2>1 DEF TrailInv, ReadWell
  <1> QED BY <1>1, <1>3 DEF TrailInv, ReadWell, ProductsTypeOK

(* Publishing needs a price that was read, and so was shown. *)
LEMMA StatusWritten ==
  ASSUME ProductsTypeOK, TrailInv, NEW r \in Request, Publish(r) \/ Archive(r)
  PROVE  TrailInv'
  <1>1. PICK p \in Product, read \in Row : p = job[r].product /\ read = job[r].row
    BY ReadingType DEF Publish, Archive
  <1>2. PICK target \in {"active", "archived"} :
          /\ Flush(p, read, [read EXCEPT !.status = target])
          /\ target = "active" => read.price > 0
          /\ target # read.status
    BY <1>1 DEF Publish, Archive
  <1>3. PICK written : written = [status |-> target, price |-> product[p].price]
    OBVIOUS
  <1>4. product' = [product EXCEPT ![p] = written]
    <2>1. [read EXCEPT !.status = target].status = target
            /\ [read EXCEPT !.status = target].price = read.price
      BY DEF Row
    <2> QED BY <1>2, <1>3, <2>1 DEF Flush
  <1>5. /\ PricedWell(product[p], trail[p]) /\ trail[p] \in Seq(PriceChange)
        /\ product[p].status # "absent" /\ ShowsPrice(trail[p], read.price)
    BY <1>1 DEF TrailInv, ReadWell, Publish, Archive, ProductsTypeOK
  <1>6. target = "active" => Sells(trail[p])
    BY <1>2, <1>5, ShownSells DEF Row
  <1>7. written.status = target /\ written.price = product[p].price
    BY <1>3
  <1>8. PricedWell(written, trail[p])
    BY <1>5, <1>6, <1>7 DEF PricedWell
  <1>9. job' = [job EXCEPT ![r] = Idle] /\ UNCHANGED trail
    BY DEF Publish, Archive, End
  <1> QED BY <1>4, <1>5, <1>7, <1>8, <1>9, QuietStep, JobKinds

(* A price that is written is logged, and explained by that event. *)
LEMMA PriceWritten ==
  ASSUME ProductsTypeOK, TrailInv, NEW r \in Request, NEW n \in Price, SetPrice(r, n)
  PROVE  TrailInv'
  <1>1. PICK p \in Product, read \in Row : p = job[r].product /\ read = job[r].row
    BY ReadingType DEF SetPrice
  <1>2. PICK e : e = [old |-> read.price, new |-> n]
    OBVIOUS
  <1>3. PICK written : written = [status |-> product[p].status,
                              price |-> IF n = read.price THEN product[p].price ELSE n]
    OBVIOUS
  <1>4. product' = [product EXCEPT ![p] = written]
    <2>1. [read EXCEPT !.price = n].status = read.status /\ [read EXCEPT !.price = n].price = n
      BY DEF Row
    <2>2. Flush(p, read, [read EXCEPT !.price = n])
      BY <1>1 DEF SetPrice
    <2> QED BY <1>3, <2>1, <2>2 DEF Flush
  <1>5. trail' = [trail EXCEPT ![p] = Append(trail[p], e)] /\ job' = [job EXCEPT ![r] = Idle]
    BY <1>1, <1>2 DEF SetPrice, End
  <1>6. /\ PricedWell(product[p], trail[p]) /\ trail[p] \in Seq(PriceChange)
        /\ product[p].status # "absent" /\ product[p].price \in Price
        /\ ShowsPrice(trail[p], read.price)
    BY <1>1 DEF TrailInv, ReadWell, SetPrice, ProductsTypeOK, Row
  <1>7. e \in PriceChange /\ e.old = read.price /\ e.new = n
    BY <1>2 DEF PriceChange, Row
  <1>8. PricedWell(written, Append(trail[p], e))
    <2>1. OldShown(Append(trail[p], e)) /\ (Sells(trail[p]) => Sells(Append(trail[p], e)))
      BY <1>6, <1>7, AppendedTrail DEF PricedWell
    <2>2. Explains(Append(trail[p], e), written.price)
      <3>1. CASE n = read.price
        BY <1>3, <1>6, <1>7, <3>1, AppendedTrail DEF PricedWell
      <3>2. CASE n # read.price
        BY <1>3, <1>6, <1>7, <3>2, AppendedTrail
      <3> QED BY <3>1, <3>2
    <2> QED BY <1>3, <1>6, <2>1, <2>2 DEF PricedWell
  <1>9. \A q \in Product : PricedWell(product'[q], trail'[q])
    BY <1>4, <1>5, <1>8 DEF TrailInv, ProductsTypeOK
  <1>10. ASSUME NEW s \in Request PROVE ReadWell(job[s])'
    <2>1. CASE s = r
      BY <1>5, <2>1, JobKinds DEF ReadWell, ProductsTypeOK
    <2>2. CASE s # r /\ job[s].at = "reading"
      <3>1. job'[s] = job[s] /\ job[s].product \in Product /\ job[s].row \in Row
        BY <1>5, <2>2, ReadingType DEF ProductsTypeOK
      <3>2. ShowsPrice(trail[job[s].product], job[s].row.price) /\ job[s].row.price \in Price
        BY <2>2, <3>1 DEF TrailInv, ReadWell, Row
      <3>3. ShowsPrice(trail'[job[s].product], job[s].row.price)
        <4>1. CASE job[s].product = p
          BY <1>5, <1>6, <1>7, <3>2, <4>1, AppendedTrail DEF ProductsTypeOK
        <4>2. CASE job[s].product # p
          BY <1>5, <3>1, <3>2, <4>2 DEF ProductsTypeOK
        <4> QED BY <4>1, <4>2
      <3>4. product'[job[s].product].status # "absent" /\ job[s].row.status # "absent"
        BY <1>3, <1>4, <2>2, <3>1 DEF TrailInv, ReadWell, ProductsTypeOK
      <3> QED BY <3>1, <3>3, <3>4 DEF ReadWell
    <2>3. CASE s # r /\ job[s].at # "reading"
      BY <1>5, <2>3 DEF ReadWell, ProductsTypeOK
    <2> QED BY <2>1, <2>2, <2>3
  <1> QED BY <1>9, <1>10 DEF TrailInv

(* No product is there to begin with. *)
LEMMA TrailInit == Init => TrailInv
  <1> SUFFICES ASSUME Init PROVE TrailInv
    OBVIOUS
  <1>1. \A p \in Product :
          product[p] = [status |-> "absent", price |-> 0] /\ trail[p] = <<>>
    BY DEF Init
  <1>2. Explains(<<>>, 0) /\ OldShown(<<>>)
    BY DEF Explains, OldShown
  <1>3. \A p \in Product : PricedWell(product[p], trail[p])
    BY <1>1, <1>2 DEF PricedWell
  <1>4. \A r \in Request : ReadWell(job[r])
    BY JobKinds DEF Init, ReadWell
  <1> QED BY <1>3, <1>4 DEF TrailInv

(* The remaining steps leave the trails alone. *)
LEMMA TrailNext == ProductsTypeOK /\ TrailInv /\ [Next]_vars => TrailInv'
  <1> SUFFICES ASSUME ProductsTypeOK, TrailInv, [Next]_vars PROVE TrailInv'
    OBVIOUS
  <1>1. ASSUME NEW p \in Product, CreateProduct(p) PROVE TrailInv'
    <2>1. PICK written : written = [status |-> "draft", price |-> 0]
      OBVIOUS
    <2>2. product' = [product EXCEPT ![p] = written] /\ UNCHANGED <<trail, job>>
      BY <1>1, <2>1 DEF CreateProduct
    <2>3. PricedWell(written, trail[p])
      <3>1. PricedWell(product[p], trail[p]) /\ product[p].status = "absent"
        BY <1>1 DEF CreateProduct, TrailInv
      <3> QED BY <2>1, <3>1 DEF PricedWell
    <2>4. \A q \in Product : PricedWell(product'[q], trail'[q])
      BY <2>2, <2>3 DEF TrailInv, ProductsTypeOK
    <2>5. ASSUME NEW s \in Request, job[s].at = "reading" PROVE ReadWell(job[s])'
      <3>1. job'[s] = job[s] /\ job[s].product \in Product
        BY <2>2, <2>5, ReadingType
      <3> QED BY <2>1, <2>2, <2>5, <3>1 DEF TrailInv, ReadWell, ProductsTypeOK
    <2> QED BY <2>2, <2>4, <2>5 DEF TrailInv, ReadWell
  <1>2. ASSUME NEW r \in Request, NEW p \in Product, GetProduct(r, p) PROVE TrailInv'
    <2>1. PICK j : j = [at |-> "reading", product |-> p, row |-> product[p]]
      OBVIOUS
    <2>2. product[p] \in Row /\ trail[p] \in Seq(PriceChange) /\ product[p].price \in Price
      BY DEF ProductsTypeOK, Row
    <2>3. PricedWell(product[p], trail[p]) /\ product[p].status # "absent"
      BY <1>2 DEF TrailInv, GetProduct
    <2>4. ShowsPrice(trail[p], product[p].price)
      BY <2>2, <2>3, ExplainedIsShown DEF PricedWell
    <2>5. UNCHANGED <<product, trail>> /\ job' = [job EXCEPT ![r] = j]
      BY <1>2, <2>1 DEF GetProduct
    <2>6. ReadWell(j)'
      BY <2>1, <2>3, <2>4, <2>5 DEF ReadWell
    <2>7. PICK written : written = product[p]
      OBVIOUS
    <2>8. product' = [product EXCEPT ![p] = written]
      BY <2>5, <2>7 DEF ProductsTypeOK
    <2> QED BY <2>3, <2>5, <2>6, <2>7, <2>8, QuietStep
  <1>3. ASSUME NEW r \in Request, UNCHANGED <<product, trail>>,
               job' = [job EXCEPT ![r] = Idle]
        PROVE  TrailInv'
    <2>1. \A s \in Request : job'[s].at = "reading" => job'[s] = job[s] /\ job[s].at = "reading"
      BY <1>3, JobKinds DEF ProductsTypeOK
    <2> QED BY <1>3, <2>1 DEF TrailInv, ReadWell
  <1>4. ASSUME NEW r \in Request, LockParent(r) PROVE TrailInv'
    <2>1. PICK j : j = [at |-> "adding", product |-> job[r].product,
                        sku |-> NextSku(skus[job[r].product])]
      OBVIOUS
    <2>2. j.at = "adding" /\ job' = [job EXCEPT ![r] = j] /\ UNCHANGED <<product, trail>>
      BY <1>4, <2>1 DEF LockParent
    <2>3. \A s \in Request : job'[s].at = "reading" => job'[s] = job[s] /\ job[s].at = "reading"
      BY <2>2 DEF ProductsTypeOK
    <2> QED BY <2>2, <2>3 DEF TrailInv, ReadWell
  <1>5. ASSUME NEW r \in Request, AddVariant(r) \/ Abort(r) PROVE TrailInv'
    BY <1>3, <1>5 DEF AddVariant, Abort, End
  <1>6. CASE UNCHANGED vars
    BY <1>6 DEF vars, TrailInv, ReadWell
  <1> QED BY <1>1, <1>2, <1>4, <1>5, <1>6, StatusWritten, PriceWritten DEF Next

(* Whatever requests read and write a product at once, its audit trail       *)
(* explains its price and names no old price that it never had, and nothing  *)
(* is on sale that never had a price (set_product_price, publish_product).   *)
THEOREM TrailExplains == Spec => []TrailExplainsPrice
  <1>1. NumberedInv /\ TrailInv => TrailExplainsPrice
    BY TrailSuffices DEF NumberedInv
  <1>2. NumberedInv /\ TrailInv /\ [Next]_vars => TrailInv'
    BY TrailNext DEF NumberedInv
  <1> QED BY <1>1, <1>2, NumberedInit, NumberedNext, TrailInit, PTL DEF Spec

-----------------------------------------------------------------------------
(* Materials: events are only appended, so the rows that the first of them  *)
(* have added are a snapshot that no later price disturbs.                  *)

Found(changes, price, n, day) ==
  \E k \in 0..n, d \in 0..day : price = InForce(Added(changes, k), d)

MaterialWork == {AtRest} \cup [at : {"creating"}, material : Material]
                  \cup [at : {"pricing"}, material : Material, previous : SUBSET Cost]

Traced(m) ==
  /\ history[m] = Added(events[m], Len(events[m]))
  /\ \A i \in 1..Len(events[m]) : Found(events[m], events[m][i].previous, i - 1, today)

FoundBy(todo) ==
  todo.at = "pricing" =>
    Found(events[todo.material], todo.previous, Len(events[todo.material]), today)

MaterialsInv ==
  /\ today \in Day
  /\ material \in [Material -> {"absent", "active", "inactive"}]
  /\ history \in [Material -> SUBSET PriceRow]
  /\ events \in [Material -> Seq(PriceEvent)]
  /\ work \in [Clerk -> MaterialWork]
  /\ \A m \in Material : Traced(m)
  /\ \A c \in Clerk : FoundBy(work[c])

(* At first there are no prices and no events. *)
LEMMA MaterialsInvInit == MaterialsInit => MaterialsInv
  <1> SUFFICES ASSUME MaterialsInit
               PROVE  MaterialsInv
    OBVIOUS
  <1>1. 0 \in Day
    BY MaterialsAssumption DEF Day
  <1>2. \A m \in Material : Traced(m)
    BY DEF MaterialsInit, Traced, Added
  <1>3. \A c \in Clerk : FoundBy(work[c])
    BY DEF MaterialsInit, FoundBy, AtRest
  <1> QED BY <1>1, <1>2, <1>3 DEF MaterialsInit, MaterialsInv, MaterialWork, AtRest

(* What is in force on a day is a set of prices. *)
LEMMA InForceType ==
  ASSUME NEW prices \in SUBSET PriceRow, NEW d
  PROVE  InForce(prices, d) \subseteq Cost
  BY DEF InForce, PriceRow

(* One more event leaves the snapshots before it as they were. *)
LEMMA SnapshotsStay ==
  ASSUME NEW changes \in Seq(PriceEvent), NEW event \in PriceEvent
  PROVE  LET longer == Append(changes, event)
         IN  /\ Added(longer, Len(longer))
                  = Added(changes, Len(changes)) \cup {[from |-> event.from, cost |-> event.new]}
             /\ \A n \in 0..Len(changes), day \in Nat : \A price :
                  Found(changes, price, n, day) => Found(longer, price, n, day)
  <1> DEFINE longer == Append(changes, event)
  <1>1. /\ Len(changes) \in Nat /\ Len(longer) = Len(changes) + 1
        /\ longer[Len(changes) + 1] = event
        /\ \A i \in 1..Len(changes) : longer[i] = changes[i]
    OBVIOUS
  <1> HIDE DEF longer
  <1>2. ASSUME NEW n \in 0..Len(changes) PROVE Added(longer, n) = Added(changes, n)
    <2>1. \A i \in 1..n : longer[i] = changes[i]
      BY <1>1
    <2> QED BY <2>1 DEF Added
  <1>3. Added(longer, Len(longer))
          = Added(longer, Len(changes)) \cup {[from |-> event.from, cost |-> event.new]}
    <2>1. 1..Len(longer) = (1..Len(changes)) \cup {Len(changes) + 1}
      BY <1>1
    <2> QED BY <1>1, <2>1 DEF Added
  <1>4. Added(longer, Len(changes)) = Added(changes, Len(changes))
    BY <1>1, <1>2
  <1>5. ASSUME NEW n \in 0..Len(changes), NEW day \in Nat, NEW price, Found(changes, price, n, day)
        PROVE  Found(longer, price, n, day)
    <2>1. PICK k \in 0..n, d \in 0..day : price = InForce(Added(changes, k), d)
      BY <1>5 DEF Found
    <2>2. Added(longer, k) = Added(changes, k)
      BY <1>1, <1>2, <2>1
    <2> QED BY <2>1, <2>2 DEF Found
  <1> QED BY <1>3, <1>4, <1>5 DEF longer

(* A step of a clerk that adds no price. *)
LEMMA ClerkMoves ==
  ASSUME MaterialsInv, NEW c \in Clerk, NEW todo \in MaterialWork, FoundBy(todo),
         work' = [work EXCEPT ![c] = todo],
         material' \in [Material -> {"absent", "active", "inactive"}],
         UNCHANGED <<today, history, events>>
  PROVE  MaterialsInv'
  <1>1. work' \in [Clerk -> MaterialWork]
    BY DEF MaterialsInv
  <1>2. ASSUME NEW x \in Clerk PROVE FoundBy(work[x])'
    <2>1. work'[x] = todo \/ work'[x] = work[x]
      BY DEF MaterialsInv
    <2> QED BY <2>1 DEF MaterialsInv, FoundBy
  <1>3. \A m \in Material : Traced(m)'
    BY DEF MaterialsInv, Traced
  <1> QED BY <1>1, <1>2, <1>3 DEF MaterialsInv

(* What a clerk reads is in force today. *)
LEMMA ReadingFound ==
  ASSUME MaterialsInv, NEW c \in Clerk, NEW m \in Material, ReadPrevious(c, m)
  PROVE  MaterialsInv'
  <1> DEFINE price == InForce(history[m], today)
             todo == [at |-> "pricing", material |-> m, previous |-> price]
  <1>1. price \in SUBSET Cost
    BY InForceType DEF MaterialsInv
  <1>2. todo \in MaterialWork
    BY <1>1 DEF MaterialWork
  <1>3. FoundBy(todo)
    <2>1. /\ price = InForce(Added(events[m], Len(events[m])), today)
          /\ Len(events[m]) \in 0..Len(events[m]) /\ today \in 0..today
      BY MaterialsAssumption DEF MaterialsInv, Traced, Day
    <2> HIDE DEF price
    <2> QED BY <2>1 DEF FoundBy, Found
  <1>4. /\ work' = [work EXCEPT ![c] = todo]
        /\ UNCHANGED <<today, material, history, events>>
    BY DEF ReadPrevious
  <1> HIDE DEF todo
  <1> QED BY <1>2, <1>3, <1>4, ClerkMoves DEF MaterialsInv

(* A price is added with what its clerk has found. *)
LEMMA AddedTraced ==
  ASSUME MaterialsInv, NEW c \in Clerk, NEW d \in Day, NEW cost \in Cost, AddPrice(c, d, cost)
  PROVE  MaterialsInv'
  <1> DEFINE m == work[c].material
             priced == [from |-> d, cost |-> cost]
             event == [from |-> d, new |-> cost, previous |-> work[c].previous]
             changes == events[m]
  <1>1. AtRest \in MaterialWork /\ FoundBy(AtRest)
    BY DEF MaterialWork, AtRest, FoundBy
  <1>2. /\ work[c] \in MaterialWork /\ work[c].at = "pricing" /\ m \in Material
        /\ work[c].previous \in SUBSET Cost /\ FoundBy(work[c])
    BY DEF AddPrice, MaterialsInv, MaterialWork, AtRest
  <1>3. work' = [work EXCEPT ![c] = AtRest] /\ UNCHANGED <<today, material>>
    BY DEF AddPrice, Rest
  <1>4. CASE UNCHANGED <<history, events>>
    BY <1>1, <1>3, <1>4, ClerkMoves DEF MaterialsInv
  <1>5. CASE /\ history' = [history EXCEPT ![m] = @ \cup {priced}]
             /\ events' = [events EXCEPT ![m] = Append(@, event)]
    <2>1. /\ event \in PriceEvent /\ priced \in PriceRow
          /\ priced = [from |-> event.from, cost |-> event.new]
          /\ event.previous = work[c].previous
      BY <1>2 DEF PriceEvent, PriceRow
    <2>2. /\ changes \in Seq(PriceEvent) /\ Len(changes) \in Nat /\ today \in Nat
          /\ Found(changes, event.previous, Len(changes), today)
      BY <1>2, <2>1, MaterialsAssumption DEF MaterialsInv, FoundBy, Day
    <2> HIDE DEF event, priced, m
    <2>3. /\ history'[m] = history[m] \cup {priced} /\ events'[m] = Append(changes, event)
          /\ history' \in [Material -> SUBSET PriceRow]
          /\ events' \in [Material -> Seq(PriceEvent)]
          /\ \A x \in Material \ {m} : history'[x] = history[x] /\ events'[x] = events[x]
      BY <1>2, <1>5, <2>1 DEF MaterialsInv
    <2>4. /\ Added(events'[m], Len(events'[m])) = Added(changes, Len(changes)) \cup {priced}
          /\ \A n \in 0..Len(changes), day \in Nat : \A price :
               Found(changes, price, n, day) => Found(events'[m], price, n, day)
      BY <2>1, <2>2, <2>3, SnapshotsStay
    <2>5. ASSUME NEW x \in Material PROVE Traced(x)'
      <3>1. CASE x # m
        BY <1>3, <2>3, <3>1 DEF MaterialsInv, Traced
      <3>2. CASE x = m
        <4>1. history'[m] = Added(events'[m], Len(events'[m]))
          BY <1>2, <2>3, <2>4 DEF MaterialsInv, Traced
        <4>2. ASSUME NEW i \in 1..Len(events'[m])
              PROVE  Found(events'[m], events'[m][i].previous, i - 1, today)
          <5>1. CASE i = Len(changes) + 1
            <6>1. events'[m][i] = event /\ i - 1 = Len(changes)
              BY <2>2, <2>3, <5>1
            <6> QED BY <2>2, <2>4, <6>1
          <5>2. CASE i \in 1..Len(changes)
            <6>1. events'[m][i] = changes[i] /\ i - 1 \in 0..Len(changes)
              BY <2>2, <2>3, <5>2
            <6>2. Found(changes, changes[i].previous, i - 1, today)
              BY <1>2, <5>2 DEF MaterialsInv, Traced
            <6> QED BY <2>2, <2>4, <6>1, <6>2
          <5> QED BY <2>2, <2>3, <5>1, <5>2
        <4> QED BY <1>3, <3>2, <4>1, <4>2 DEF Traced
      <3> QED BY <3>1, <3>2
    <2>6. ASSUME NEW x \in Clerk PROVE FoundBy(work[x])'
      <3>1. CASE x = c
        BY <1>3, <3>1 DEF MaterialsInv, FoundBy, AtRest
      <3>2. CASE x # c /\ work[x].at = "pricing"
        <4>1. work'[x] = work[x] /\ work[x].material \in Material /\ FoundBy(work[x])
          BY <1>3, <3>2 DEF MaterialsInv, MaterialWork, AtRest
        <4>2. CASE work[x].material # m
          BY <1>3, <2>3, <4>1, <4>2 DEF FoundBy
        <4>3. CASE work[x].material = m
          <5>1. Found(events'[m], work[x].previous, Len(changes), today)
            BY <2>2, <2>4, <3>2, <4>1, <4>3 DEF FoundBy
          <5>2. 0..Len(changes) \subseteq 0..Len(events'[m])
            BY <2>2, <2>3
          <5>3. Found(events'[m], work[x].previous, Len(events'[m]), today)
            BY <5>1, <5>2 DEF Found
          <5> QED BY <1>3, <4>1, <4>3, <5>3 DEF FoundBy
        <4> QED BY <4>2, <4>3
      <3>3. CASE x # c /\ work[x].at # "pricing"
        BY <1>3, <3>3 DEF MaterialsInv, FoundBy
      <3> QED BY <3>1, <3>2, <3>3
    <2>7. work' \in [Clerk -> MaterialWork]
      BY <1>1, <1>3 DEF MaterialsInv
    <2> QED BY <1>3, <2>3, <2>5, <2>6, <2>7 DEF MaterialsInv
  <1> QED BY <1>4, <1>5 DEF AddPrice

(* A day later, what was found is found still. *)
LEMMA DayTraced ==
  ASSUME MaterialsInv, NextDay
  PROVE  MaterialsInv'
  <1>1. /\ today \in Nat /\ today' \in Day /\ today' = today + 1
        /\ UNCHANGED <<material, history, events, work>>
    BY MaterialsAssumption DEF NextDay, MaterialsInv, Day
  <1>2. \A changes, price, n : Found(changes, price, n, today) => Found(changes, price, n, today')
    <2>1. 0..today \subseteq 0..today'
      BY <1>1
    <2> QED BY <2>1 DEF Found
  <1>3. \A m \in Material : Traced(m)'
    BY <1>1, <1>2 DEF MaterialsInv, Traced
  <1>4. \A c \in Clerk : FoundBy(work[c])'
    BY <1>1, <1>2 DEF MaterialsInv, FoundBy
  <1> QED BY <1>1, <1>3, <1>4 DEF MaterialsInv

(* Every step keeps the prices traced. *)
LEMMA MaterialsInvNext == MaterialsInv /\ [MaterialsNext]_materialsVars => MaterialsInv'
  <1> SUFFICES ASSUME MaterialsInv, [MaterialsNext]_materialsVars
               PROVE  MaterialsInv'
    OBVIOUS
  <1>1. ASSUME NEW c \in Clerk, NEW m \in Material, CheckCode(c, m)
        PROVE  MaterialsInv'
    <2> DEFINE todo == [at |-> "creating", material |-> m]
    <2>1. todo \in MaterialWork /\ FoundBy(todo)
      BY DEF MaterialWork, FoundBy
    <2>2. /\ work' = [work EXCEPT ![c] = todo]
          /\ UNCHANGED <<today, material, history, events>>
      BY <1>1 DEF CheckCode
    <2> HIDE DEF todo
    <2> QED BY <2>1, <2>2, ClerkMoves DEF MaterialsInv
  <1>2. ASSUME NEW c \in Clerk, InsertMaterial(c) \/ GiveUp(c)
        PROVE  MaterialsInv'
    <2>1. AtRest \in MaterialWork /\ FoundBy(AtRest)
      BY DEF MaterialWork, AtRest, FoundBy
    <2>2. /\ work' = [work EXCEPT ![c] = AtRest]
          /\ UNCHANGED <<today, history, events>>
          /\ material' \in [Material -> {"absent", "active", "inactive"}]
      BY <1>2 DEF InsertMaterial, GiveUp, Rest, MaterialsInv
    <2> QED BY <2>1, <2>2, ClerkMoves
  <1>3. ASSUME NEW m \in Material, NEW to \in {"active", "inactive"}, SetActive(m, to)
        PROVE  MaterialsInv'
    BY <1>3 DEF SetActive, MaterialsInv, Traced, FoundBy
  <1>4. CASE UNCHANGED materialsVars
    BY <1>4 DEF materialsVars, MaterialsInv, Traced, FoundBy
  <1> QED BY <1>1, <1>2, <1>3, <1>4, ReadingFound, AddedTraced, DayTraced DEF MaterialsNext

(* Materials and their prices keep their types. *)
THEOREM MaterialsTypeCorrect == MaterialsSpec => []MaterialsTypeOK
  <1>1. MaterialsInv => MaterialsTypeOK
    <2>1. \A j \in MaterialWork : j.at \in {"rest", "creating", "pricing"}
      BY DEF MaterialWork, AtRest
    <2> QED BY <2>1 DEF MaterialsInv, MaterialsTypeOK
  <1> QED BY <1>1, MaterialsInvInit, MaterialsInvNext, PTL DEF MaterialsSpec

(* The price history is traced by its events, each with a previous price     *)
(* that was in force by rows committed before it (add_price,                 *)
(* add_material_price): for any materials, days and prices, and any number   *)
(* of clerks who read and add without a lock.                               *)
THEOREM PriceHistoryTraced == MaterialsSpec => []PricesAreTraced
  <1>1. MaterialsInv => PricesAreTraced
    BY DEF MaterialsInv, PricesAreTraced, Traced, Found
  <1> QED BY <1>1, MaterialsInvInit, MaterialsInvNext, PTL DEF MaterialsSpec

-----------------------------------------------------------------------------
(* The form: what a page has not typed is what it shows.  A draft, a save  *)
(* on its way and an answer each name the version they go back to; as long *)
(* as that is the newest, they hold what is stored.                        *)

FormDraft == [draft : Fields, typed : SUBSET Field, shows : Nat, own : Nat, crossed : BOOLEAN]
SentSave == [at : {"sent"}, draft : Fields, typed : SUBSET Field, shows : Nat, crossed : BOOLEAN]
ReadSave == [at : {"read"}, row : Fields, version : Nat, draft : Fields,
             typed : SUBSET Field, shows : Nat, crossed : BOOLEAN]
AnsweredSave == [at : {"answered"}, row : Fields, version : Nat]
FormSave == {NoCall} \cup SentSave \cup ReadSave \cup AnsweredSave
FormReading == {NoCall} \cup [at : {"sent"}] \cup AnsweredSave

FormTypes ==
  /\ details \in Fields /\ commits \in Nat
  /\ page \in [Page -> FormDraft]
  /\ save \in [Page -> FormSave]
  /\ reading \in [Page -> FormReading]

(* A draft that shows a version has its fields, but for those typed and for  *)
(* blanks around a text.                                                    *)
Shows(d) ==
  /\ d.shows <= commits
  /\ d.shows = commits =>
       \A f \in Field \ d.typed : Trim[f][d.draft[f]] = Trim[f][details[f]]

(* An answer with a row goes back to a version. *)
GoesBack(answer) ==
  /\ answer.version <= commits
  /\ answer.version = commits => answer.row = details

(* A page's own last save is in its draft, unless a reading crossed it. *)
PageInv(p) ==
  /\ Shows(page[p])
  /\ page[p].own <= commits
  /\ page[p].own <= page[p].shows \/ page[p].crossed
  /\ save[p].at \in {"sent", "read"} =>
       /\ Shows(save[p])
       /\ page[p].own <= save[p].shows \/ save[p].crossed
  /\ save[p].at \in {"read", "answered"} => GoesBack(save[p])
  /\ reading[p].at = "answered" =>
       /\ GoesBack(reading[p])
       /\ page[p].own <= reading[p].version \/ page[p].crossed

FormInv == FormTypes /\ \A p \in Page : PageInv(p)

(* A call is told apart by how far it is. *)
LEMMA CallKinds ==
  /\ NoCall.at = "none"
  /\ \A s \in FormSave : /\ s.at = "sent" <=> s \in SentSave
                         /\ s.at = "read" <=> s \in ReadSave
                         /\ s.at = "answered" <=> s \in AnsweredSave
  /\ \A s \in FormReading : s.at = "answered" <=> s \in AnsweredSave
  <1>1. NoCall.at = "none"
    BY DEF NoCall
  <1>2. \A s \in SentSave : s.at = "sent"
    BY DEF SentSave
  <1>3. \A s \in ReadSave : s.at = "read"
    BY DEF ReadSave
  <1>4. \A s \in AnsweredSave : s.at = "answered"
    BY DEF AnsweredSave
  <1>5. \A s \in [at : {"sent"}] : s.at = "sent"
    OBVIOUS
  <1> QED BY <1>1, <1>2, <1>3, <1>4, <1>5 DEF FormSave, FormReading

(* At first every page shows the first version. *)
LEMMA FormInvInit == FormInit => FormInv
  <1> SUFFICES ASSUME FormInit
               PROVE  FormInv
    OBVIOUS
  <1>1. details \in Fields /\ commits = 0
    BY ProductFormAssumption DEF FormInit, Fields
  <1>2. \A p \in Page : /\ page[p] = Draft(details, 0, 0, FALSE)
                       /\ save[p] = NoCall /\ reading[p] = NoCall
    BY DEF FormInit
  <1>3. Draft(details, 0, 0, FALSE) \in FormDraft
    BY <1>1 DEF Draft, FormDraft
  <1>4. FormTypes
    <2>1. page \in [Page -> FormDraft]
      BY <1>3 DEF FormInit
    <2>2. save \in [Page -> FormSave] /\ reading \in [Page -> FormReading]
      BY DEF FormInit, FormSave, FormReading
    <2> QED BY <1>1, <2>1, <2>2 DEF FormTypes
  <1>5. \A p \in Page : PageInv(p)
    BY <1>1, <1>2, CallKinds DEF PageInv, Shows, Draft
  <1> QED BY <1>4, <1>5 DEF FormInv

(* What a page that does nothing knows stays true when nothing is written. *)
LEMMA PageRests ==
  ASSUME NEW p \in Page, PageInv(p),
         page'[p] = page[p], save'[p] = save[p], reading'[p] = reading[p],
         details' = details, commits' = commits
  PROVE  PageInv(p)'
  BY DEF PageInv, Shows, GoesBack

(* ... and when another writes, it only knows it has an older version. *)
LEMMA PageOvertaken ==
  ASSUME FormTypes, NEW p \in Page, PageInv(p),
         page'[p] = page[p], save'[p] = save[p], reading'[p] = reading[p],
         commits' = commits + 1
  PROVE  PageInv(p)'
  <1>1. /\ commits \in Nat /\ page[p] \in FormDraft
        /\ save[p] \in FormSave /\ reading[p] \in FormReading
    BY DEF FormTypes
  <1>2. page[p].shows \in Nat /\ page[p].own \in Nat
    BY <1>1 DEF FormDraft
  <1>3. Shows(page[p])'
    BY <1>1, <1>2 DEF PageInv, Shows
  <1>4. save[p].at \in {"sent", "read"} =>
          (Shows(save[p]) /\ (page[p].own <= save[p].shows \/ save[p].crossed))'
    <2> SUFFICES ASSUME save[p].at \in {"sent", "read"}
                 PROVE  (Shows(save[p]) /\ (page[p].own <= save[p].shows \/ save[p].crossed))'
      OBVIOUS
    <2>1. save[p].shows \in Nat
      BY <1>1, CallKinds DEF SentSave, ReadSave
    <2> QED BY <1>1, <2>1 DEF PageInv, Shows
  <1>5. save[p].at \in {"read", "answered"} => GoesBack(save[p])'
    <2> SUFFICES ASSUME save[p].at \in {"read", "answered"}
                 PROVE  GoesBack(save[p])'
      OBVIOUS
    <2>1. save[p].version \in Nat
      BY <1>1, CallKinds DEF ReadSave, AnsweredSave
    <2> QED BY <1>1, <2>1 DEF PageInv, GoesBack
  <1>6. reading[p].at = "answered" =>
          (GoesBack(reading[p]) /\ (page[p].own <= reading[p].version \/ page[p].crossed))'
    <2> SUFFICES ASSUME reading[p].at = "answered"
                 PROVE  (GoesBack(reading[p])
                          /\ (page[p].own <= reading[p].version \/ page[p].crossed))'
      OBVIOUS
    <2>1. reading[p].version \in Nat
      BY <1>1, CallKinds DEF AnsweredSave
    <2> QED BY <1>1, <2>1 DEF PageInv, GoesBack
  <1>7. (page[p].own <= commits)' /\ (page[p].own <= page[p].shows \/ page[p].crossed)'
    BY <1>1, <1>2 DEF PageInv
  <1> QED BY <1>3, <1>4, <1>5, <1>6, <1>7 DEF PageInv

(* A step of one page leaves the others alone. *)
LEMMA OtherPages ==
  ASSUME FormInv, NEW p \in Page,
         NEW d \in FormDraft, page' = [page EXCEPT ![p] = d],
         NEW s \in FormSave, save' = [save EXCEPT ![p] = s],
         NEW r \in FormReading, reading' = [reading EXCEPT ![p] = r],
         details' \in Fields,
         (details' = details /\ commits' = commits) \/ commits' = commits + 1,
         PageInv(p)'
  PROVE  FormInv'
  <1>1. FormTypes'
    BY DEF FormInv, FormTypes
  <1>2. ASSUME NEW x \in Page
        PROVE  PageInv(x)'
    <2>1. CASE x = p
      BY <2>1
    <2>2. CASE x # p
      <3>1. page'[x] = page[x] /\ save'[x] = save[x] /\ reading'[x] = reading[x]
        BY <2>2 DEF FormInv, FormTypes
      <3> QED BY <3>1, PageRests, PageOvertaken DEF FormInv
    <2> QED BY <2>1, <2>2
  <1> QED BY <1>1, <1>2 DEF FormInv

(* What a page has, with its types. *)
LEMMA PageHas ==
  ASSUME FormInv, NEW p \in Page
  PROVE  /\ details \in Fields /\ commits \in Nat
         /\ page[p] \in FormDraft /\ save[p] \in FormSave /\ reading[p] \in FormReading
         /\ page = [page EXCEPT ![p] = page[p]]
         /\ save = [save EXCEPT ![p] = save[p]]
         /\ reading = [reading EXCEPT ![p] = reading[p]]
         /\ PageInv(p)
  BY DEF FormInv, FormTypes

(* To type into a field marks it as typed. *)
LEMMA TypeStep ==
  ASSUME FormInv, NEW p \in Page, NEW f \in Field, NEW v \in Value, Type(p, f, v)
  PROVE  FormInv'
  <1> DEFINE d == [page[p] EXCEPT !.draft[f] = v, !.typed = @ \cup {f}]
  <1>1. /\ page' = [page EXCEPT ![p] = d]
        /\ UNCHANGED <<details, commits, save, reading>>
    BY DEF Type
  <1>2. /\ d \in FormDraft
        /\ d.shows = page[p].shows /\ d.own = page[p].own /\ d.crossed = page[p].crossed
        /\ d.typed = page[p].typed \cup {f}
        /\ \A g \in Field \ {f} : d.draft[g] = page[p].draft[g]
    BY PageHas DEF FormDraft, Fields
  <1>3. page'[p] = d /\ save'[p] = save[p] /\ reading'[p] = reading[p]
    BY <1>1 DEF FormInv, FormTypes
  <1> HIDE DEF d
  <1>4. PageInv(p)'
    BY <1>1, <1>2, <1>3, PageHas DEF PageInv, Shows, GoesBack
  <1> QED BY <1>1, <1>2, <1>4, PageHas, OtherPages

(* What is sent has no blanks around its texts. *)
LEMMA TrimmedIs ==
  ASSUME NEW draft \in Fields
  PROVE  /\ Trimmed(draft) \in Fields
         /\ \A f \in Field : Trim[f][Trimmed(draft)[f]] = Trim[f][draft[f]]
  BY ProductFormAssumption DEF Trimmed, Fields

(* A save sends the draft, trimmed. *)
LEMMA SaveStep ==
  ASSUME FormInv, NEW p \in Page, Save(p)
  PROVE  FormInv'
  <1> DEFINE s == [at |-> "sent", draft |-> Trimmed(page[p].draft), typed |-> page[p].typed,
                   shows |-> page[p].shows, crossed |-> page[p].crossed]
  <1>1. /\ save' = [save EXCEPT ![p] = s]
        /\ UNCHANGED <<details, commits, page, reading>>
    BY DEF Save
  <1>2. /\ s \in FormSave
        /\ \A f \in Field : Trim[f][s.draft[f]] = Trim[f][page[p].draft[f]]
    <2>1. page[p].draft \in Fields
      BY PageHas DEF FormDraft
    <2> QED BY <2>1, TrimmedIs, PageHas DEF FormSave, SentSave, FormDraft
  <1>3. page'[p] = page[p] /\ save'[p] = s /\ reading'[p] = reading[p]
    BY <1>1 DEF FormInv, FormTypes
  <1>4. PageInv(p)'
    BY <1>1, <1>2, <1>3, PageHas DEF PageInv, Shows, GoesBack
  <1> HIDE DEF s
  <1> QED BY <1>1, <1>2, <1>4, PageHas, OtherPages

(* The handler of a save reads the version of this moment. *)
LEMMA ReadForSaveStep ==
  ASSUME FormInv, NEW p \in Page, ReadForSave(p)
  PROVE  FormInv'
  <1> DEFINE s == [at |-> "read", row |-> details, version |-> commits,
                   draft |-> save[p].draft, typed |-> save[p].typed,
                   shows |-> save[p].shows, crossed |-> save[p].crossed]
  <1>1. /\ save' = [save EXCEPT ![p] = s]
        /\ UNCHANGED <<details, commits, page, reading>>
        /\ save[p].at = "sent"
    BY DEF ReadForSave
  <1>2. s \in FormSave
    <2>1. save[p] \in SentSave
      BY <1>1, PageHas, CallKinds
    <2> QED BY <2>1, PageHas DEF FormSave, SentSave, ReadSave
  <1>3. page'[p] = page[p] /\ save'[p] = s /\ reading'[p] = reading[p]
    BY <1>1 DEF FormInv, FormTypes
  <1>4. PageInv(p)'
    BY <1>1, <1>3, PageHas DEF PageInv, Shows, GoesBack
  <1> HIDE DEF s
  <1> QED BY <1>1, <1>2, <1>4, PageHas, OtherPages

(* The answer of a save names the version it made only if nobody wrote     *)
(* between its reading and its commit; then the draft is what is stored.   *)
LEMMA CommitSaveStep ==
  ASSUME FormInv, NEW p \in Page, CommitSave(p)
  PROVE  FormInv'
  <1> DEFINE version == IF save[p].version = commits THEN commits + 1 ELSE save[p].version
             s == [at |-> "answered", row |-> save[p].draft, version |-> version]
  <1>1. /\ save[p].at = "read"
        /\ details' = Written(save[p]) /\ commits' = commits + 1
        /\ save' = [save EXCEPT ![p] = s]
        /\ UNCHANGED <<page, reading>>
    BY DEF CommitSave
  <1>2. /\ save[p] \in ReadSave /\ GoesBack(save[p])
        /\ save[p].draft \in Fields /\ save[p].version \in Nat /\ commits \in Nat
    BY <1>1, PageHas, CallKinds DEF ReadSave, PageInv
  <1>3. details' \in Fields
    BY <1>1, <1>2, PageHas DEF Written, Fields
  <1>4. s \in FormSave
    BY <1>2 DEF FormSave, AnsweredSave
  <1>5. page'[p] = page[p] /\ save'[p] = s /\ reading'[p] = reading[p]
    BY <1>1 DEF FormInv, FormTypes
  <1>6. GoesBack(save[p])'
    <2>1. CASE save[p].version = commits
      <3>1. save[p].row = details
        BY <1>2, <2>1 DEF GoesBack
      <3>2. \A f \in Field : Written(save[p])[f] = save[p].draft[f]
        BY <3>1 DEF Written
      <3>3. details' = save[p].draft
        BY <1>1, <1>2, <1>3, <3>2 DEF Fields
      <3> QED BY <1>1, <1>2, <1>5, <2>1, <3>3 DEF GoesBack
    <2>2. CASE save[p].version # commits
      BY <1>1, <1>2, <1>5, <2>2 DEF GoesBack
    <2> QED BY <2>1, <2>2
  <1>7. Shows(page[p])' /\ (page[p].own <= commits)'
    <2>1. page[p].shows \in Nat /\ page[p].own \in Nat
      BY PageHas DEF FormDraft
    <2> QED BY <1>1, <1>2, <2>1, PageHas DEF PageInv, Shows
  <1>8. (reading[p].at = "answered" =>
          GoesBack(reading[p]) /\ (page[p].own <= reading[p].version \/ page[p].crossed))'
    <2>1. CASE reading[p].at = "answered"
      <3>1. reading[p].version \in Nat
        BY <2>1, PageHas, CallKinds DEF AnsweredSave
      <3> QED BY <1>1, <1>2, <2>1, <3>1, PageHas DEF PageInv, GoesBack
    <2>2. CASE reading[p].at # "answered"
      BY <1>1, <2>2
    <2> QED BY <2>1, <2>2
  <1>9. (page[p].own <= page[p].shows \/ page[p].crossed)'
    BY <1>1, PageHas DEF PageInv
  <1>10. s.at = "answered"
    OBVIOUS
  <1> HIDE DEF s
  <1>11. PageInv(p)'
    BY <1>5, <1>6, <1>7, <1>8, <1>9, <1>10 DEF PageInv
  <1> QED BY <1>1, <1>3, <1>4, <1>11, PageHas, OtherPages

(* The answer to a save replaces the draft. *)
LEMMA EndSaveStep ==
  ASSUME FormInv, NEW p \in Page, EndSave(p)
  PROVE  FormInv'
  <1> DEFINE d == Draft(save[p].row, save[p].version, save[p].version, reading[p] # NoCall)
  <1>1. /\ save[p].at = "answered"
        /\ page' = [page EXCEPT ![p] = d] /\ save' = [save EXCEPT ![p] = NoCall]
        /\ UNCHANGED <<details, commits, reading>>
    BY DEF EndSave
  <1>2. /\ save[p].row \in Fields /\ save[p].version \in Nat /\ GoesBack(save[p])
    BY <1>1, PageHas, CallKinds DEF AnsweredSave, PageInv
  <1>3. d \in FormDraft /\ NoCall \in FormSave
    BY <1>2 DEF Draft, FormDraft, FormSave
  <1>4. page'[p] = d /\ save'[p] = NoCall /\ reading'[p] = reading[p]
    BY <1>1 DEF FormInv, FormTypes
  <1>5. PageInv(p)'
    <2>1. reading[p].at = "answered" => reading[p] # NoCall
      BY CallKinds
    <2>2. /\ d.draft = save[p].row /\ d.shows = save[p].version
          /\ d.own = save[p].version /\ d.crossed = (reading[p] # NoCall)
      BY DEF Draft
    <2> HIDE DEF d
    <2>3. Shows(page[p])' /\ (page[p].own <= commits)' /\ (page[p].own <= page[p].shows)'
      BY <1>1, <1>2, <1>4, <2>2, PageHas DEF Shows, GoesBack
    <2>4. (reading[p].at = "answered" =>
            GoesBack(reading[p]) /\ (page[p].own <= reading[p].version \/ page[p].crossed))'
      BY <1>1, <1>4, <2>1, <2>2, PageHas DEF PageInv, GoesBack
    <2> QED BY <1>4, <2>3, <2>4, CallKinds DEF PageInv
  <1> HIDE DEF d
  <1> QED BY <1>1, <1>3, <1>5, PageHas, OtherPages

(* A reading of a page shows the version of this moment. *)
LEMMA ReadProductStep ==
  ASSUME FormInv, NEW p \in Page, ReadProduct(p)
  PROVE  FormInv'
  <1> DEFINE r == [at |-> "answered", row |-> details, version |-> commits]
  <1>1. /\ reading' = [reading EXCEPT ![p] = r]
        /\ UNCHANGED <<details, commits, page, save>>
    BY DEF ReadProduct
  <1>2. r \in FormReading
    BY PageHas DEF FormReading, AnsweredSave
  <1>3. page'[p] = page[p] /\ save'[p] = save[p] /\ reading'[p] = r
    BY <1>1 DEF FormInv, FormTypes
  <1>4. PageInv(p)'
    BY <1>1, <1>3, PageHas DEF PageInv, Shows, GoesBack
  <1> HIDE DEF r
  <1> QED BY <1>1, <1>2, <1>4, PageHas, OtherPages

(* A reading that was overtaken by the page's own save marks the page. *)
LEMMA EndReloadStep ==
  ASSUME FormInv, NEW p \in Page, EndReload(p)
  PROVE  FormInv'
  <1> DEFINE d == Draft(reading[p].row, reading[p].version, page[p].own,
                        page[p].crossed /\ reading[p].version < page[p].own)
  <1>1. /\ reading[p].at = "answered"
        /\ page' = [page EXCEPT ![p] = d] /\ reading' = [reading EXCEPT ![p] = NoCall]
        /\ UNCHANGED <<details, commits, save>>
    BY DEF EndReload
  <1>2. /\ reading[p].row \in Fields /\ reading[p].version \in Nat /\ GoesBack(reading[p])
        /\ page[p].own <= reading[p].version \/ page[p].crossed
        /\ page[p].own \in Nat /\ page[p].crossed \in BOOLEAN
    BY <1>1, PageHas, CallKinds DEF AnsweredSave, PageInv, FormDraft
  <1>3. d \in FormDraft /\ NoCall \in FormReading
    BY <1>2 DEF Draft, FormDraft, FormReading
  <1>4. page'[p] = d /\ save'[p] = save[p] /\ reading'[p] = NoCall
    BY <1>1 DEF FormInv, FormTypes
  <1>5. /\ d.draft = reading[p].row /\ d.shows = reading[p].version
        /\ d.own = page[p].own
        /\ d.own <= d.shows \/ d.crossed
    BY <1>2 DEF Draft
  <1> HIDE DEF d
  <1>6. PageInv(p)'
    BY <1>1, <1>2, <1>4, <1>5, PageHas, CallKinds DEF PageInv, Shows, GoesBack
  <1> QED BY <1>1, <1>3, <1>6, PageHas, OtherPages

(* A call that is sent, or is lost, says nothing of the product. *)
LEMMA CallStep ==
  ASSUME FormInv, NEW p \in Page, FailSave(p) \/ Reload(p) \/ FailReload(p)
  PROVE  FormInv'
  <1>1. PICK s \in FormSave, r \in FormReading :
          /\ s \in {save[p], NoCall} /\ r \in {reading[p], NoCall, [at |-> "sent"]}
          /\ save' = [save EXCEPT ![p] = s] /\ reading' = [reading EXCEPT ![p] = r]
          /\ UNCHANGED <<details, commits, page>>
    <2>1. NoCall \in FormSave /\ NoCall \in FormReading /\ [at |-> "sent"] \in FormReading
      BY DEF FormSave, FormReading
    <2> QED BY <2>1, PageHas DEF FailSave, Reload, FailReload
  <1>2. page'[p] = page[p] /\ save'[p] = s /\ reading'[p] = r
    BY <1>1 DEF FormInv, FormTypes
  <1>3. PageInv(p)'
    BY <1>1, <1>2, PageHas, CallKinds DEF PageInv, Shows, GoesBack
  <1> QED BY <1>1, <1>3, PageHas, OtherPages

(* Every step keeps drafts and readings at the versions they show. *)
LEMMA FormInvNext == FormInv /\ [FormNext]_formVars => FormInv'
  <1> SUFFICES ASSUME FormInv, [FormNext]_formVars
               PROVE  FormInv'
    OBVIOUS
  <1>1. ASSUME NEW values \in Fields, SaveElsewhere(values)
        PROVE  FormInv'
    <2>1. /\ details' = values /\ commits' = commits + 1
          /\ UNCHANGED <<page, save, reading>>
      BY <1>1 DEF SaveElsewhere
    <2>2. FormTypes'
      BY <2>1 DEF FormInv, FormTypes
    <2>3. \A p \in Page : PageInv(p)'
      BY <2>1, PageOvertaken DEF FormInv
    <2> QED BY <2>2, <2>3 DEF FormInv
  <1>2. CASE UNCHANGED formVars
    <2>1. FormTypes'
      BY <1>2 DEF formVars, FormInv, FormTypes
    <2>2. \A p \in Page : PageInv(p)'
      BY <1>2, PageRests DEF formVars, FormInv
    <2> QED BY <2>1, <2>2 DEF FormInv
  <1> QED BY <1>1, <1>2, TypeStep, SaveStep, ReadForSaveStep, CommitSaveStep, EndSaveStep,
             ReadProductStep, EndReloadStep, CallStep DEF FormNext

(* The form keeps its types. *)
THEOREM FormTypeCorrect == FormSpec => []FormTypeOK
  <1>1. FormInv => FormTypeOK
    <2>1. \A d \in FormDraft : d.draft \in Fields /\ d.typed \subseteq Field
      BY DEF FormDraft
    <2>2. \A s \in FormSave : s.at \in {"none", "sent", "read", "answered"}
      BY DEF FormSave, NoCall, SentSave, ReadSave, AnsweredSave
    <2>3. \A r \in FormReading : r.at \in {"none", "sent", "answered"}
      BY DEF FormReading, NoCall, AnsweredSave
    <2> QED BY <2>1, <2>2, <2>3 DEF FormInv, FormTypes, FormTypeOK
  <1> QED BY <1>1, FormInvInit, FormInvNext, PTL DEF FormSpec

(* A save undoes, blanks around a text aside, only what its page has not   *)
(* seen, or what a reading that crossed the page's own save brought back    *)
(* (saveDetails, load, update_product): for any pages, fields and values.   *)
THEOREM SavesKeepSeen == FormSpec => SavesUndoOnlyUnseen
  <1> DEFINE KeepsSeen(p) ==
        /\ save[p].at = "read" /\ save'[p].at = "answered"
        /\ \E f \in Field \ save[p].typed : Trim[f][details'[f]] # Trim[f][details[f]]
        => /\ save[p].shows < commits
           /\ page[p].own <= save[p].shows \/ save[p].crossed
  <1>1. ASSUME FormInv, [FormNext]_formVars, NEW p \in Page
        PROVE  KeepsSeen(p)
    <2> SUFFICES ASSUME save[p].at = "read", save'[p].at = "answered",
                        NEW f \in Field \ save[p].typed,
                        Trim[f][details'[f]] # Trim[f][details[f]]
                 PROVE  /\ save[p].shows < commits
                        /\ page[p].own <= save[p].shows \/ save[p].crossed
      OBVIOUS
    <2>1. /\ save[p] \in ReadSave /\ Shows(save[p]) /\ commits \in Nat
          /\ page[p].own <= save[p].shows \/ save[p].crossed
          /\ save[p].shows \in Nat
      BY <1>1, PageHas, CallKinds DEF PageInv, ReadSave
    <2>2. CommitSave(p)
      <3>1. ASSUME NEW x \in Page, CommitSave(x)
            PROVE  x = p
        BY <1>1, <3>1 DEF CommitSave, FormInv, FormTypes
      <3>2. ASSUME NEW x \in Page,
                   Save(x) \/ ReadForSave(x) \/ EndSave(x) \/ FailSave(x)
            PROVE  save'[p].at # "answered" \/ save'[p] = save[p]
        BY <1>1, <3>2, CallKinds DEF Save, ReadForSave, EndSave, FailSave, FormInv, FormTypes
      <3>3. ASSUME save' = save
            PROVE  FALSE
        BY <3>3
      <3>4. save'[p] # save[p]
        OBVIOUS
      <3> QED BY <1>1, <3>1, <3>2, <3>3, <3>4
              DEF FormNext, formVars, Type, Reload, ReadProduct, EndReload, FailReload, SaveElsewhere
    <2>3. details'[f] = Written(save[p])[f]
      BY <2>2 DEF CommitSave
    <2>4. Trim[f][save[p].draft[f]] # Trim[f][details[f]]
      BY <2>3 DEF Written
    <2> QED BY <2>1, <2>4 DEF Shows
  <1>2. FormInv /\ [FormNext]_formVars => [\A p \in Page : KeepsSeen(p)]_formVars
    BY <1>1
  <1> QED BY <1>2, FormInvInit, FormInvNext, PTL DEF FormSpec, SavesUndoOnlyUnseen

-----------------------------------------------------------------------------
(* Translations: a row is written as it was sent, unless the writer found  *)
(* another than it overwrites.                                             *)

StoredRow == [id : Nat \ {0}, name : Text, description : Text]
FoundRow == {NoTranslation} \cup StoredRow
FoundPut == {NoPut} \cup [at : {"found"}, row : FoundRow]

TranslationsInv ==
  /\ row \in FoundRow
  /\ inserted \in Nat /\ mixed \in BOOLEAN
  /\ put \in [Translator -> FoundPut]
  /\ <<0, 0>> \in sent /\ sent \subseteq (Text \cup {0}) \X (Text \cup {0})
  /\ row.id <= inserted
  /\ row = NoTranslation \/ mixed \/ <<row.name, row.description>> \in sent

(* A row that is not there has no number. *)
LEMMA RowsAreNumbered ==
  /\ NoTranslation.id = 0
  /\ \A r \in StoredRow : r.id \in Nat \ {0} /\ r # NoTranslation
  BY DEF NoTranslation, StoredRow

(* At first no translation has been mixed. *)
LEMMA TranslationsInvInit == TranslationsInit => TranslationsInv
  <1> SUFFICES ASSUME TranslationsInit
               PROVE  TranslationsInv
    OBVIOUS
  <1>1. row \in FoundRow /\ put \in [Translator -> FoundPut] /\ mixed \in BOOLEAN
    BY DEF TranslationsInit, FoundRow, FoundPut
  <1>2. inserted \in Nat /\ <<0, 0>> \in sent /\ row = NoTranslation
    BY DEF TranslationsInit
  <1>3. row.id <= inserted
    BY RowsAreNumbered DEF TranslationsInit
  <1>4. sent \subseteq (Text \cup {0}) \X (Text \cup {0})
    BY DEF TranslationsInit
  <1> QED BY <1>1, <1>2, <1>3, <1>4 DEF TranslationsInv

(* A write over the row that was read leaves it whole; over another one, mixed. *)
LEMMA UpdatedWhole ==
  ASSUME TranslationsInv, NEW t \in Translator, NEW name \in Text,
         NEW description \in Text, UpdateTranslation(t, name, description)
  PROVE  TranslationsInv'
  <1> DEFINE read == put[t].row
  <1>1. read \in StoredRow
    BY DEF UpdateTranslation, TranslationsInv, FoundPut, FoundRow, NoPut
  <1>2. put' \in [Translator -> FoundPut]
    BY DEF UpdateTranslation, Answered, TranslationsInv, FoundPut
  <1>3. sent' = sent \cup {<<name, description>>} /\ inserted' = inserted
    BY DEF UpdateTranslation
  <1>6. sent' \subseteq (Text \cup {0}) \X (Text \cup {0})
    BY <1>3 DEF TranslationsInv
  <1>4. CASE row.id # read.id
    BY <1>2, <1>3, <1>4, <1>6 DEF UpdateTranslation, TranslationsInv
  <1>5. CASE row.id = read.id
    <2>1. row \in StoredRow
      BY <1>1, <1>5, RowsAreNumbered DEF TranslationsInv, FoundRow
    <2>2. /\ row' = [id |-> row.id,
                    name |-> Column(read.name, row.name, name),
                    description |-> Column(read.description, row.description, description)]
          /\ mixed' = (row # read)
      BY <1>5 DEF UpdateTranslation
    <2>3. row' \in StoredRow
      BY <2>1, <2>2 DEF StoredRow, Column
    <2>4. mixed' \/ <<row'.name, row'.description>> \in sent'
      <3>1. CASE row = read
        <4>1. row'.name = name /\ row'.description = description
          BY <2>2, <3>1 DEF Column
        <4> QED BY <1>3, <4>1
      <3>2. CASE row # read
        BY <2>2, <3>2
      <3> QED BY <3>1, <3>2
    <2>5. mixed' \in BOOLEAN
      BY <2>2
    <2>6. row'.id <= inserted'
      BY <1>3, <2>2 DEF TranslationsInv
    <2> QED BY <1>2, <1>3, <1>6, <2>3, <2>4, <2>5, <2>6 DEF TranslationsInv, FoundRow
  <1> QED BY <1>4, <1>5

(* Every step keeps translations whole or marked as mixed. *)
LEMMA TranslationsInvNext ==
  TranslationsInv /\ [TranslationsNext]_translationVars => TranslationsInv'
  <1> SUFFICES ASSUME TranslationsInv, [TranslationsNext]_translationVars
               PROVE  TranslationsInv'
    OBVIOUS
  <1>1. ASSUME NEW t \in Translator, FindRow(t)
        PROVE  TranslationsInv'
    <2>1. [at |-> "found", row |-> row] \in FoundPut
      BY DEF TranslationsInv, FoundPut
    <2> QED BY <1>1, <2>1 DEF FindRow, TranslationsInv
  <1>2. ASSUME NEW t \in Translator, NEW name \in Text, NEW description \in Text,
               InsertTranslation(t, name, description)
        PROVE  TranslationsInv'
    <2>1. put' \in [Translator -> FoundPut]
      BY <1>2 DEF InsertTranslation, Answered, TranslationsInv, FoundPut
    <2>2. sent' = sent \cup {<<name, description>>}
      BY <1>2 DEF InsertTranslation
    <2>5. sent' \subseteq (Text \cup {0}) \X (Text \cup {0})
      BY <2>2 DEF TranslationsInv
    <2>3. CASE row # NoTranslation
      BY <1>2, <2>1, <2>2, <2>3, <2>5 DEF InsertTranslation, TranslationsInv
    <2>4. CASE row = NoTranslation
      <3>1. /\ row' = [id |-> inserted + 1, name |-> name, description |-> description]
            /\ inserted' = inserted + 1 /\ mixed' = FALSE
        BY <1>2, <2>4 DEF InsertTranslation
      <3>2. row' \in StoredRow
        BY <3>1 DEF StoredRow, TranslationsInv
      <3>3. <<row'.name, row'.description>> \in sent'
        BY <2>2, <3>1
      <3>4. row' \in FoundRow
        BY <3>2 DEF FoundRow
      <3>5. mixed' \in BOOLEAN /\ inserted' \in Nat /\ <<0, 0>> \in sent'
        <4>1. inserted \in Nat /\ <<0, 0>> \in sent
          BY DEF TranslationsInv
        <4>2. mixed' \in BOOLEAN
          BY <3>1
        <4>3. inserted' \in Nat
          BY <3>1, <4>1
        <4> QED BY <2>2, <4>1, <4>2, <4>3
      <3>6. row'.id <= inserted'
        BY <3>1 DEF TranslationsInv
      <3> QED BY <2>1, <2>5, <3>3, <3>4, <3>5, <3>6 DEF TranslationsInv
    <2> QED BY <2>3, <2>4
  <1>3. ASSUME NEW t \in Translator, DeleteTranslation(t)
        PROVE  TranslationsInv'
    <2>1. put' \in [Translator -> FoundPut]
      BY <1>3 DEF DeleteTranslation, Answered, TranslationsInv, FoundPut
    <2>2. /\ row' \in {NoTranslation, row} /\ UNCHANGED <<inserted, sent>>
          /\ mixed' = (mixed /\ row' = row)
      BY <1>3 DEF DeleteTranslation
    <2>3. row'.id <= inserted'
      BY <2>2, RowsAreNumbered DEF TranslationsInv
    <2> QED BY <2>1, <2>2, <2>3 DEF TranslationsInv, FoundRow
  <1>4. ASSUME NEW t \in Translator, DropPut(t)
        PROVE  TranslationsInv'
    BY <1>4 DEF DropPut, Answered, TranslationsInv, FoundPut
  <1>5. CASE UNCHANGED translationVars
    BY <1>5 DEF translationVars, TranslationsInv
  <1> QED BY <1>1, <1>2, <1>3, <1>4, <1>5, UpdatedWhole DEF TranslationsNext

(* The translations keep their types. *)
THEOREM TranslationsTypeCorrect == TranslationsSpec => []TranslationsTypeOK
  <1>1. TranslationsInv => TranslationsTypeOK
    <2> SUFFICES ASSUME TranslationsInv
                 PROVE  TranslationsTypeOK
      OBVIOUS
    <2>1. row = NoTranslation \/ row \in [id : 1 .. inserted, name : Text, description : Text]
      BY DEF TranslationsInv, FoundRow, StoredRow
    <2>2. \A t \in Translator : put[t].at \in {"none", "found"}
      BY DEF TranslationsInv, FoundPut, NoPut
    <2> QED BY <2>1, <2>2 DEF TranslationsInv, TranslationsTypeOK
  <1> QED BY <1>1, TranslationsInvInit, TranslationsInvNext, PTL DEF TranslationsSpec

(* A name is shown with a description that was sent with it, unless two    *)
(* requests wrote the row at once (upsert_product_localization).           *)
THEOREM TranslationsStayWhole == TranslationsSpec => []TranslationsWhole
  <1>1. TranslationsInv => TranslationsWhole
    BY DEF TranslationsInv, TranslationsWhole, Shown
  <1> QED BY <1>1, TranslationsInvInit, TranslationsInvNext, PTL DEF TranslationsSpec

-----------------------------------------------------------------------------
(* Names: among the names base, base-2, base-3, ... one more than are      *)
(* taken, one is not.                                                      *)

(* A set of numbers has a least one. *)
LEMMA LeastNat ==
  ASSUME NEW S \in SUBSET Nat, S # {}
  PROVE  \E n \in S : \A m \in S : n <= m
  <1>1. PICK n \in S : \A m \in S : ~ (<<m, n>> \in OpToRel(<, Nat))
    BY WFMin, NatLessThanWellFounded
  <1>2. \A m \in S : ~ (m < n)
    BY <1>1 DEF OpToRel
  <1> QED BY <1>2

(* Two numbers never make the same slug of one name. *)
LEMMA NumberedIsInjective ==
  ASSUME NEW base \in Seq(Nat), NEW j \in Nat \ {0}, NEW k \in Nat \ {0},
         Numbered(base, j) = Numbered(base, k)
  PROVE  j = k
  <1>1. \A n \in Nat : /\ Append(base, n) \in Seq(Nat)
                      /\ Len(Append(base, n)) = Len(base) + 1
                      /\ Append(base, n)[Len(base) + 1] = n
    OBVIOUS
  <1>2. \A n \in Nat : Append(base, n) # base
    BY <1>1
  <1>3. CASE j = 1 \/ k = 1
    BY <1>2, <1>3 DEF Numbered
  <1>4. CASE j # 1 /\ k # 1
    <2>1. Append(base, j) = Append(base, k)
      BY <1>4 DEF Numbered
    <2> QED BY <1>1, <2>1
  <1> QED BY <1>3, <1>4

(* unique_slug finds a slug that is free, with a number at most one more than are taken. *)
LEMMA UniqueSlugIsNumbered ==
  ASSUME NEW base \in Seq(Nat), NEW taken, IsFiniteSet(taken)
  PROVE  \E k \in 1 .. Cardinality(taken) + 1 :
           /\ UniqueSlug(base, taken) = Numbered(base, k)
           /\ Numbered(base, k) \notin taken
  <1> DEFINE n == Cardinality(taken)
             free == {k \in 1 .. n + 1 : Numbered(base, k) \notin taken}
             f == [k \in 1 .. n + 1 |-> Numbered(base, k)]
  <1>1. n \in Nat
    BY FS_CardinalityType
  <1>2. free # {}
    <2> SUFFICES ASSUME free = {}
                 PROVE  FALSE
      OBVIOUS
    <2>2. f \in [1 .. n + 1 -> taken]
      OBVIOUS
    <2> HIDE DEF f
    <2>4. \E j, k \in 1 .. n + 1 : j # k /\ f[j] = f[k]
      <3> DEFINE numbers == 1 .. n + 1
      <3>1. IsFiniteSet(numbers) /\ Cardinality(numbers) = n + 1
        <4>1. n + 1 \in Int /\ ~ (1 > n + 1) /\ n + 1 - 1 + 1 = n + 1
          BY <1>1
        <4> QED BY <4>1, FS_Interval
      <3>2. Cardinality(taken) < Cardinality(numbers)
        BY <1>1, <3>1
      <3>3. f \in [numbers -> taken]
        BY <2>2
      <3> HIDE DEF numbers
      <3>4. \E j, k \in numbers : j # k /\ f[j] = f[k]
        BY <3>1, <3>2, <3>3, FS_PigeonHole
      <3> QED BY <3>4 DEF numbers
    <2>5. PICK j \in 1 .. n + 1, k \in 1 .. n + 1 : j # k /\ f[j] = f[k]
      BY <2>4
    <2>6. Numbered(base, j) = Numbered(base, k) /\ j \in Nat \ {0} /\ k \in Nat \ {0}
      BY <1>1, <2>5 DEF f
    <2> QED BY <2>5, <2>6, NumberedIsInjective
  <1>3. free \in SUBSET Nat
    BY <1>1
  <1>4. \E k \in free : \A j \in free : k <= j
    BY <1>2, <1>3, LeastNat
  <1>5. PICK k \in free : UniqueSlug(base, taken) = Numbered(base, k)
    BY <1>4 DEF UniqueSlug
  <1> QED BY <1>5

(* Slugs are no more than their entries. *)
LEMMA SlugsCounted ==
  ASSUME NEW entries, IsFiniteSet(entries)
  PROVE  /\ IsFiniteSet(SlugsOf(entries))
         /\ Cardinality(SlugsOf(entries)) <= Cardinality(entries)
  <1> DEFINE f == [e \in entries |-> entry[e].slug]
  <1>1. f \in Surjection(entries, SlugsOf(entries))
    BY DEF SlugsOf, Surjection
  <1> QED BY <1>1, FS_Surjection

(* The slug is that of the name, numbered perhaps. *)
Derived(name, slug) ==
  \E k \in 1 .. Cardinality(Entry) : slug = Numbered(SlugOf[name], k)

EntryRow(r) ==
  /\ r = [name |-> r.name, slug |-> r.slug, code |-> r.code]
  /\ r.name \in Title \cup {""}

EntryInv(e) ==
  /\ EntryRow(entry[e])
  /\ e \in Present =>
       /\ entry[e].name \in Title
       /\ torn[e] \/ Derived(entry[e].name, entry[e].slug)
       /\ entry[e].slug \notin SlugsOf(Present \ {e})

(* A creation that finds every entry taken can never insert. *)
EditInv(x) ==
  /\ edit[x].at \in {"none", "looking", "inserting", "reading", "renaming"}
  /\ edit[x].at \in {"looking", "inserting"} => edit[x].title \in Title
  /\ edit[x].at = "inserting" => Derived(edit[x].title, edit[x].slug) \/ Present = Entry
  /\ edit[x].at \in {"reading", "renaming"} => edit[x].entry \in Present
  /\ edit[x].at = "renaming" =>
       edit[x].title \in Title /\ Derived(edit[x].title, edit[x].slug)

NamesInv ==
  /\ table \in {"products", "categories"}
  /\ entry = [e \in Entry |-> entry[e]] /\ torn \in [Entry -> BOOLEAN]
  /\ edit = [x \in Editor |-> edit[x]]
  /\ \A e \in Entry : EntryInv(e)
  /\ \A x \in Editor : EditInv(x)

(* At first there are no names. *)
LEMMA NamesInvInit == NamesInit => NamesInv
  <1> SUFFICES ASSUME NamesInit
               PROVE  NamesInv
    OBVIOUS
  <1>1. Present = {}
    BY DEF NamesInit, Present
  <1>2. \A e \in Entry : EntryInv(e)
    BY <1>1 DEF NamesInit, EntryInv, EntryRow, NoEntry
  <1>3. \A x \in Editor : EditInv(x)
    BY DEF NamesInit, EditInv, NoEdit
  <1> QED BY <1>2, <1>3 DEF NamesInit, NamesInv

(* The slug that is proposed beside other entries than all is derived. *)
LEMMA ProposalDerives ==
  ASSUME NEW title \in Title, NEW others \in SUBSET Entry, others # Entry
  PROVE  Derived(title, UniqueSlug(SlugOf[title], SlugsOf(others)))
  <1> DEFINE taken == SlugsOf(others)
             slug == UniqueSlug(SlugOf[title], taken)
  <1>1. /\ IsFiniteSet(others) /\ Cardinality(others) <= Cardinality(Entry)
        /\ Cardinality(others) # Cardinality(Entry)
        /\ IsFiniteSet(Entry) /\ SlugOf[title] \in Seq(Nat)
    BY FS_Subset, NamesAssumption
  <1>2. Cardinality(others) \in Nat /\ Cardinality(Entry) \in Nat
    BY <1>1, FS_CardinalityType
  <1>3. IsFiniteSet(taken) /\ Cardinality(taken) <= Cardinality(others)
    BY <1>1, SlugsCounted
  <1>4. Cardinality(taken) \in Nat
    BY <1>3, FS_CardinalityType
  <1> HIDE DEF taken
  <1>5. PICK k \in 1 .. Cardinality(taken) + 1 : slug = Numbered(SlugOf[title], k)
    BY <1>1, <1>3, UniqueSlugIsNumbered
  <1>6. k \in 1 .. Cardinality(Entry)
    BY <1>1, <1>2, <1>3, <1>4, <1>5
  <1> QED BY <1>5, <1>6 DEF Derived, taken

(* A step of one editor keeps what the others know. *)
LEMMA EditStep ==
  ASSUME NamesInv, NEW x \in Editor, NEW j, edit' = [edit EXCEPT ![x] = j],
         Present \subseteq Present', EditInv(x)'
  PROVE  /\ edit' = [y \in Editor |-> edit'[y]]
         /\ \A y \in Editor : EditInv(y)'
  <1>1. edit' = [y \in Editor |-> edit'[y]]
    BY DEF NamesInv
  <1>2. ASSUME NEW y \in Editor
        PROVE  EditInv(y)'
    <2>1. CASE y = x
      BY <2>1
    <2>2. CASE y # x
      <3>1. edit'[y] = edit[y]
        BY <2>2 DEF NamesInv
      <3>2. EditInv(y)
        BY DEF NamesInv
      <3>3. Present = Entry => Present' = Entry
        BY DEF Present
      <3> QED BY <3>1, <3>2, <3>3 DEF EditInv, Derived
    <2> QED BY <2>1, <2>2
  <1> QED BY <1>1, <1>2

(* A step that writes no entry. *)
LEMMA EditOnly ==
  ASSUME NamesInv, NEW x \in Editor, NEW j, edit' = [edit EXCEPT ![x] = j],
         UNCHANGED <<table, entry, torn>>, EditInv(x)'
  PROVE  NamesInv'
  <1>1. Present' = Present
    BY DEF Present
  <1>2. \A e \in Entry : EntryInv(e)'
    BY <1>1 DEF NamesInv, EntryInv, SlugsOf
  <1>3. /\ edit' = [y \in Editor |-> edit'[y]]
        /\ \A y \in Editor : EditInv(y)'
    BY <1>1, EditStep
  <1> QED BY <1>2, <1>3 DEF NamesInv

(* An insert adds an entry whose slug and code nobody has. *)
LEMMA InsertStep ==
  ASSUME NamesInv, NEW x \in Editor, NEW e \in Entry, Insert(x, e)
  PROVE  NamesInv'
  <1> DEFINE new == [name |-> edit[x].title, slug |-> edit[x].slug, code |-> edit[x].code]
  <1>1. /\ edit[x].at = "inserting" /\ e \notin Present
        /\ edit[x].slug \notin SlugsOf(Present)
        /\ entry' = [entry EXCEPT ![e] = new]
        /\ edit' = [edit EXCEPT ![x] = NoEdit]
        /\ torn' = torn /\ table' = table
    BY DEF Insert, Taken, Finish
  <1>2. edit[x].title \in Title /\ Derived(edit[x].title, edit[x].slug)
    BY <1>1 DEF NamesInv, EditInv
  <1>3. new.name = edit[x].title /\ new.slug = edit[x].slug /\ EntryRow(new) /\ new # NoEntry
    BY <1>2, NamesAssumption DEF EntryRow, NoEntry
  <1> HIDE DEF new
  <1>4. /\ entry' = [f \in Entry |-> entry'[f]] /\ entry'[e] = new
        /\ \A f \in Entry \ {e} : entry'[f] = entry[f]
    BY <1>1 DEF NamesInv
  <1>5. Present' = Present \cup {e}
    BY <1>3, <1>4 DEF Present
  <1>6. ASSUME NEW f \in Entry
        PROVE  EntryInv(f)'
    <2>1. CASE f = e
      <3>1. SlugsOf(Present \ {e})' = SlugsOf(Present)
        <4>1. Present' \ {e} = Present /\ \A g \in Present : entry'[g] = entry[g]
          BY <1>1, <1>4, <1>5 DEF Present
        <4> QED BY <4>1 DEF SlugsOf
      <3> QED BY <1>1, <1>2, <1>3, <1>4, <2>1, <3>1 DEF EntryInv, Derived
    <2>2. CASE f # e
      <3>1. EntryInv(f) /\ entry'[f] = entry[f] /\ torn'[f] = torn[f]
        BY <1>1, <1>4, <2>2 DEF NamesInv
      <3>2. ASSUME f \in Present'
            PROVE  (entry[f].slug \notin SlugsOf(Present \ {f}))'
        <4>1. f \in Present /\ entry[f].slug \in SlugsOf(Present)
          BY <1>5, <2>2, <3>2 DEF SlugsOf
        <4>2. SUFFICES ASSUME NEW g \in Present' \ {f}, entry'[g].slug = entry'[f].slug
                       PROVE  FALSE
          BY DEF SlugsOf
        <4>3. CASE g = e
          BY <1>1, <1>3, <1>4, <3>1, <4>1, <4>2, <4>3
        <4>4. CASE g # e
          <5>1. g \in Present \ {f} /\ entry'[g] = entry[g]
            BY <1>4, <1>5, <4>4 DEF Present
          <5> QED BY <3>1, <4>1, <4>2, <5>1 DEF EntryInv, SlugsOf
        <4> QED BY <4>3, <4>4
      <3>3. f \in Present' => f \in Present
        BY <1>5, <2>2
      <3> QED BY <3>1, <3>2, <3>3 DEF EntryInv, Derived
    <2> QED BY <2>1, <2>2
  <1>7. EditInv(x)'
    <2>1. edit'[x] = NoEdit
      BY <1>1 DEF NamesInv
    <2> QED BY <2>1 DEF EditInv, NoEdit
  <1>8. /\ edit' = [y \in Editor |-> edit'[y]]
        /\ \A y \in Editor : EditInv(y)'
    BY <1>1, <1>5, <1>7, EditStep
  <1> QED BY <1>1, <1>4, <1>6, <1>8 DEF NamesInv

(* A rename over the row that was read writes a name with its slug; no     *)
(* rename writes a slug that another entry has.                            *)
LEMMA RenameStep ==
  ASSUME NamesInv, NEW x \in Editor, Rename(x)
  PROVE  NamesInv'
  <1>0. PICK e \in Entry : e = edit[x].entry
    BY DEF Rename, NamesInv, EditInv, Present
  <1> DEFINE slug == IF edit[x].slug = edit[x].row.slug THEN entry[e].slug ELSE edit[x].slug
             new == [entry[e] EXCEPT !.name = edit[x].title, !.slug = slug]
  <1>1. /\ edit[x].at = "renaming" /\ edit' = [edit EXCEPT ![x] = NoEdit]
        /\ e \in Present /\ table' = table
        /\ edit[x].title \in Title /\ Derived(edit[x].title, edit[x].slug)
    BY <1>0 DEF Rename, Finish, NamesInv, EditInv
  <1>2. (EditInv(x))'
    <2>1. edit'[x] = NoEdit
      BY <1>1 DEF NamesInv
    <2> QED BY <2>1 DEF EditInv, NoEdit
  <1>3. CASE slug \in SlugsOf(Present \ {e})
    <2>1. UNCHANGED <<table, entry, torn>>
      BY <1>0, <1>3 DEF Rename
    <2> QED BY <1>1, <1>2, <2>1, EditOnly
  <1>4. CASE slug \notin SlugsOf(Present \ {e})
    <2>1. /\ entry' = [entry EXCEPT ![e] = new]
          /\ torn' = [torn EXCEPT ![e] = entry[e] # edit[x].row]
      BY <1>0, <1>1, <1>4 DEF Rename, NamesInv
    <2>2. EntryRow(entry[e])
      BY <1>1 DEF NamesInv, EntryInv
    <2>3. new.name = edit[x].title /\ new.slug = slug /\ EntryRow(new) /\ new # NoEntry
      <3> HIDE DEF slug
      <3>1. new = [name |-> edit[x].title, slug |-> slug, code |-> entry[e].code]
        <4> DEFINE n == entry[e].name
                   s == entry[e].slug
                   c == entry[e].code
        <4>1. entry[e] = [name |-> n, slug |-> s, code |-> c]
          BY <2>2 DEF EntryRow
        <4> HIDE DEF n, s, c
        <4> DEFINE named == [entry[e] EXCEPT !.name = edit[x].title]
        <4>2. named = [name |-> edit[x].title, slug |-> s, code |-> c]
          BY <4>1
        <4>3. new = [named EXCEPT !.slug = slug]
          OBVIOUS
        <4> HIDE DEF named
        <4>4. [named EXCEPT !.slug = slug] = [name |-> edit[x].title, slug |-> slug, code |-> c]
          BY <4>2
        <4> QED BY <4>3, <4>4 DEF c
      <3> HIDE DEF new
      <3> QED BY <1>1, <3>1, NamesAssumption DEF EntryRow, NoEntry
    <2>4. entry[e] = edit[x].row => slug = edit[x].slug
      OBVIOUS
    <2> HIDE DEF new, slug
    <2>5. /\ entry' = [f \in Entry |-> entry'[f]] /\ entry'[e] = new
          /\ \A f \in Entry \ {e} : entry'[f] = entry[f] /\ torn'[f] = torn[f]
          /\ torn' \in [Entry -> BOOLEAN] /\ torn'[e] = (entry[e] # edit[x].row)
      BY <1>1, <2>1 DEF NamesInv
    <2>6. Present' = Present
      BY <1>1, <2>3, <2>5 DEF Present
    <2>7. ASSUME NEW f \in Entry
          PROVE  EntryInv(f)'
      <3>1. CASE f = e
        <4>1. SlugsOf(Present \ {e})' = SlugsOf(Present \ {e})
          <5>1. \A g \in Present \ {e} : entry'[g] = entry[g]
            BY <2>5 DEF Present
          <5> QED BY <2>6, <5>1 DEF SlugsOf
        <4>2. torn'[e] \/ Derived(new.name, new.slug)
          BY <1>1, <2>3, <2>4, <2>5
        <4>3. entry'[f] = new /\ new.name \in Title /\ new.slug \notin SlugsOf(Present \ {e})
          BY <1>1, <1>4, <2>3, <2>5, <3>1
        <4> QED BY <2>3, <2>6, <3>1, <4>1, <4>2, <4>3 DEF EntryInv, Derived
      <3>2. CASE f # e
        <4>1. EntryInv(f) /\ entry'[f] = entry[f] /\ torn'[f] = torn[f]
          BY <2>5, <3>2 DEF NamesInv
        <4>2. ASSUME f \in Present
              PROVE  (entry[f].slug \notin SlugsOf(Present \ {f}))'
          <5>1. entry[f].slug \in SlugsOf(Present \ {e})
            BY <3>2, <4>2 DEF SlugsOf
          <5>2. SUFFICES ASSUME NEW g \in Present' \ {f}, entry'[g].slug = entry'[f].slug
                         PROVE  FALSE
            BY DEF SlugsOf
          <5>3. CASE g = e
            BY <1>4, <2>3, <2>5, <4>1, <5>1, <5>2, <5>3
          <5>4. CASE g # e
            <6>1. g \in Present \ {f} /\ entry'[g] = entry[g]
              BY <2>5, <2>6, <5>4 DEF Present
            <6> QED BY <4>1, <4>2, <5>2, <6>1 DEF EntryInv, SlugsOf
          <5> QED BY <5>3, <5>4
        <4> QED BY <2>6, <4>1, <4>2 DEF EntryInv, Derived
      <3> QED BY <3>1, <3>2
    <2>8. /\ edit' = [y \in Editor |-> edit'[y]]
          /\ \A y \in Editor : EditInv(y)'
      BY <1>1, <1>2, <2>6, EditStep
    <2> QED BY <1>1, <2>5, <2>7, <2>8 DEF NamesInv
  <1> QED BY <1>3, <1>4

(* Every step keeps names whole or marked as torn. *)
LEMMA NamesInvNext == NamesInv /\ [NamesNext]_namesVars => NamesInv'
  <1> SUFFICES ASSUME NamesInv, [NamesNext]_namesVars
               PROVE  NamesInv'
    OBVIOUS
  <1>1. ASSUME NEW x \in Editor, NEW title \in Title, StartCreate(x, title)
        PROVE  NamesInv'
    <2> DEFINE j == [at |-> "looking", title |-> title, tried |-> 0]
    <2>1. edit' = [edit EXCEPT ![x] = j] /\ UNCHANGED <<table, entry, torn>>
      BY <1>1 DEF StartCreate
    <2>2. (EditInv(x))'
      <3>1. edit'[x] = j
        BY <2>1 DEF NamesInv
      <3> QED BY <3>1 DEF EditInv
    <2> QED BY <2>1, <2>2, EditOnly
  <1>2. ASSUME NEW x \in Editor, Propose(x)
        PROVE  NamesInv'
    <2> DEFINE slug == UniqueSlug(SlugOf[edit[x].title], SlugsOf(Present))
               j == [at |-> "inserting", title |-> edit[x].title, tried |-> edit[x].tried,
                     slug |-> slug, code |-> NextCode]
    <2>1. edit' = [edit EXCEPT ![x] = j] /\ UNCHANGED <<table, entry, torn>>
          /\ edit[x].at = "looking"
      BY <1>2 DEF Propose
    <2>2. edit[x].title \in Title
      BY <2>1 DEF NamesInv, EditInv
    <2>3. Derived(edit[x].title, slug) \/ Present = Entry
      <3>1. Present \in SUBSET Entry
        BY DEF Present
      <3> QED BY <2>2, <3>1, ProposalDerives
    <2>4. edit'[x] = j /\ Present' = Present
      BY <2>1 DEF NamesInv, Present
    <2> HIDE DEF slug
    <2>5. (EditInv(x))'
      BY <2>2, <2>3, <2>4 DEF EditInv, Derived
    <2> QED BY <2>1, <2>5, EditOnly
  <1>3. ASSUME NEW x \in Editor, Collide(x)
        PROVE  NamesInv'
    <2> DEFINE retry == [at |-> "looking", title |-> edit[x].title, tried |-> edit[x].tried + 1]
    <2>1. edit[x].at = "inserting" /\ UNCHANGED <<table, entry, torn>>
      BY <1>3 DEF Collide
    <2>2. PICK j \in {NoEdit, retry} : edit' = [edit EXCEPT ![x] = j]
      BY <1>3 DEF Collide, Finish
    <2>3. edit'[x] = j /\ edit[x].title \in Title
      BY <2>1, <2>2 DEF NamesInv, EditInv
    <2>4. (EditInv(x))'
      BY <2>2, <2>3 DEF EditInv, NoEdit
    <2> QED BY <2>1, <2>2, <2>4, EditOnly
  <1>4. ASSUME NEW x \in Editor, NEW e \in Entry, GetEntry(x, e)
        PROVE  NamesInv'
    <2> DEFINE j == [at |-> "reading", entry |-> e, row |-> entry[e]]
    <2>1. edit' = [edit EXCEPT ![x] = j] /\ UNCHANGED <<table, entry, torn>> /\ e \in Present
      BY <1>4 DEF GetEntry
    <2>2. edit'[x] = j /\ Present' = Present
      BY <2>1 DEF NamesInv, Present
    <2>3. (EditInv(x))'
      BY <2>1, <2>2 DEF EditInv
    <2> QED BY <2>1, <2>3, EditOnly
  <1>5. ASSUME NEW x \in Editor, NEW title \in Title, LookUpSlug(x, title)
        PROVE  NamesInv'
    <2> DEFINE others == Present \ {edit[x].entry}
               slug == UniqueSlug(SlugOf[title], SlugsOf(others))
               j == [at |-> "renaming", entry |-> edit[x].entry, row |-> edit[x].row,
                     title |-> title, slug |-> slug]
    <2>1. edit' = [edit EXCEPT ![x] = j] /\ UNCHANGED <<table, entry, torn>>
          /\ edit[x].at = "reading"
      BY <1>5 DEF LookUpSlug
    <2>2. edit[x].entry \in Present
      BY <2>1 DEF NamesInv, EditInv
    <2>3. Derived(title, slug)
      <3>1. others \in SUBSET Entry /\ others # Entry
        BY <2>2 DEF Present
      <3> QED BY <3>1, ProposalDerives
    <2>4. edit'[x] = j /\ Present' = Present
      BY <2>1 DEF NamesInv, Present
    <2> HIDE DEF slug
    <2>5. (EditInv(x))'
      BY <2>2, <2>3, <2>4 DEF EditInv, Derived
    <2> QED BY <2>1, <2>5, EditOnly
  <1>6. ASSUME NEW x \in Editor, Leave(x)
        PROVE  NamesInv'
    <2>1. edit' = [edit EXCEPT ![x] = NoEdit] /\ UNCHANGED <<table, entry, torn>>
      BY <1>6 DEF Leave, Finish
    <2>2. (EditInv(x))'
      <3>1. edit'[x] = NoEdit
        BY <2>1 DEF NamesInv
      <3> QED BY <3>1 DEF EditInv, NoEdit
    <2> QED BY <2>1, <2>2, EditOnly
  <1>7. CASE UNCHANGED namesVars
    <2>1. UNCHANGED <<table, entry, torn, edit>> /\ Present' = Present
      BY <1>7 DEF namesVars, Present
    <2>2. \A e \in Entry : EntryInv(e)'
      BY <2>1 DEF NamesInv, EntryInv, SlugsOf
    <2>3. \A x \in Editor : EditInv(x)'
      BY <2>1 DEF NamesInv, EditInv
    <2> QED BY <2>1, <2>2, <2>3 DEF NamesInv
  <1> QED BY <1>1, <1>2, <1>3, <1>4, <1>5, <1>6, <1>7, InsertStep, RenameStep DEF NamesNext

(* Names keep their types. *)
THEOREM NamesTypeCorrect == NamesSpec => []NamesTypeOK
  <1>1. NamesInv => NamesTypeOK
    BY DEF NamesInv, EntryInv, EditInv, NamesTypeOK, Present
  <1> QED BY <1>1, NamesInvInit, NamesInvNext, PTL DEF NamesSpec

(* Every slug is that of its name, numbered perhaps, and is of one entry   *)
(* (unique_slug, create_category, create_product and their updates).       *)
LEMMA SlugsStayDerived == NamesSpec => []SlugsDerive
  <1>1. NamesInv => SlugsDerive
    BY DEF NamesInv, EntryInv, SlugsDerive, Present, Derived
  <1> QED BY <1>1, NamesInvInit, NamesInvNext, PTL DEF NamesSpec

(* What names a thing belongs together: its slug with its name             *)
(* (references.py, catalog_service.py) and its name with its description   *)
(* (catalog_admin.py), for any entries, editors and translators.           *)
THEOREM NamesStayWhole == NamesSpec /\ TranslationsSpec => []NamesWhole
  BY SlugsStayDerived, TranslationsStayWhole, PTL DEF NamesWhole

-----------------------------------------------------------------------------
(* Images: only an upload stores a file, and while it runs there is no row *)
(* for its asset, so that no request can delete it.                        *)

MediaJobs == {Resting} \cup Operation \cup Load \cup Answer

(* A task that rests is in no other phase. *)
LEMMA RestingPhase == Resting.at = "resting"
  BY DEF Resting

(* The phase of a task says what it carries. *)
LEMMA JobPhases ==
  ASSUME NEW j \in MediaJobs
  PROVE  /\ j.at \in {"sent", "read", "filed"} <=> j \in Operation
         /\ j.at = "asking" <=> j \in Load
         /\ j.at = "answered" <=> j \in Answer
  <1>1. j \in Operation => j.at \in {"sent", "read", "filed"}
    BY DEF Operation
  <1>2. j \in Load => j.at = "asking"
    BY DEF Load
  <1>3. j \in Answer => j.at = "answered"
    BY DEF Answer
  <1>4. j = Resting => j.at = "resting"
    BY RestingPhase
  <1>5. j = Resting \/ j \in Operation \/ j \in Load \/ j \in Answer
    BY DEF MediaJobs
  <1> DEFINE at == j.at
  <1> HIDE DEF at
  <1>6. /\ j \in Operation => at \in {"sent", "read", "filed"}
        /\ j \in Load => at = "asking"
        /\ j \in Answer => at = "answered"
        /\ j = Resting => at = "resting"
    BY <1>1, <1>2, <1>3, <1>4 DEF at
  <1>7. /\ at \in {"sent", "read", "filed"} <=> j \in Operation
        /\ at = "asking" <=> j \in Load
        /\ at = "answered" <=> j \in Answer
    BY <1>5, <1>6
  <1> QED BY <1>7 DEF at

(* Lists of images are functions into places. *)
LEMMA Lists ==
  /\ \A S \in SUBSET Asset : \A l \in [S -> Position] : l \in List
  /\ \A l \in List : DOMAIN l \in SUBSET Asset /\ l \in [DOMAIN l -> Position]
  BY DEF List

Uploads(j) == j.at \in {"sent", "filed"} /\ j.op = "upload"
Deletes(j) == j.at \in {"read", "filed"} /\ j.op = "delete"

TaskInv(t) ==
  /\ Uploads(task[t]) =>
       /\ task[t].asset \in used \ DOMAIN rows
       /\ \A u \in Task \ {t} : Uploads(task[u]) \/ Deletes(task[u]) =>
            task[u].asset # task[t].asset
  /\ Deletes(task[t]) => task[t].asset \in used
  /\ task[t].at = "filed" => (task[t].asset \in stored <=> task[t].op = "upload")
  /\ task[t].at = "read" => task[t].op # "upload"
  /\ task[t].at = "filed" => task[t].op # "patch"

MediaInv == MediaTypeOK /\ FilesMatchRows /\ \A t \in Task : TaskInv(t)

(* At first there are no images and no files. *)
LEMMA MediaInvInit == MediaInit => MediaInv
  <1> SUFFICES ASSUME MediaInit
               PROVE  MediaInv
    OBVIOUS
  <1>1. <<>> \in List /\ DOMAIN <<>> = {}
    BY DEF List
  <1>2. MediaTypeOK
    BY <1>1 DEF MediaInit, MediaTypeOK
  <1>3. FilesMatchRows
    BY <1>1 DEF MediaInit, FilesMatchRows
  <1>4. \A t \in Task : TaskInv(t)
    BY RestingPhase DEF MediaInit, TaskInv, Uploads, Deletes
  <1> QED BY <1>2, <1>3, <1>4 DEF MediaInv

(* Neither uploads nor deletes, nor has touched a file. *)
Harmless(j) ==
  ~ Uploads(j) /\ ~ Deletes(j) /\ j.at # "filed" /\ (j.at = "read" => j.op # "upload")

(* Tasks that stop, or begin with what touches no file. *)
LEMMA HarmlessStep ==
  ASSUME MediaInv, MediaTypeOK', UNCHANGED <<rows, stored, used>>, broken \subseteq broken',
         \A x \in Task : \/ task'[x] = task[x]
                        \/ /\ Harmless(task'[x])
                           /\ task[x].at = "filed" => task[x].asset \in broken'
  PROVE  MediaInv'
  <1>1. ASSUME NEW t \in Task
        PROVE  TaskInv(t)'
    <2>1. CASE task'[t] = task[t]
      BY <2>1 DEF MediaInv, TaskInv, Harmless
    <2>2. CASE task'[t] # task[t]
      BY <2>2 DEF TaskInv, Harmless
    <2> QED BY <2>1, <2>2
  <1>2. FilesMatchRows'
    BY DEF MediaInv, FilesMatchRows
  <1> QED BY <1>1, <1>2 DEF MediaInv

(* The types of a page and its tasks. *)
LEMMA MediaTypes ==
  ASSUME MediaInv, NEW t \in Task
  PROVE  /\ task[t] \in MediaJobs
         /\ task \in [Task -> MediaJobs]
         /\ rows \in List /\ shown \in List /\ busy \in BOOLEAN /\ informed \in BOOLEAN
         /\ stored \subseteq used /\ broken \subseteq used /\ DOMAIN rows \subseteq used
         /\ used \subseteq Asset
         /\ TaskInv(t)
  BY DEF MediaInv, MediaTypeOK, MediaJobs

(* A click sends a request that has touched nothing yet. *)
LEMMA SentJob ==
  ASSUME NEW op \in {"upload", "patch", "delete"}, NEW a \in Asset, NEW to \in SUBSET Position
  PROVE  /\ Sent(op, a, to) \in MediaJobs
         /\ op # "upload" => Harmless(Sent(op, a, to))
  <1>1. 0 \in Position
    BY FS_CardinalityType, MediaAssumption DEF Position
  <1>2. Sent(op, a, to) \in Operation
    BY <1>1 DEF Sent, Operation
  <1> QED BY <1>2 DEF Sent, MediaJobs, Harmless, Uploads, Deletes

(* A click changes the buttons and what staff know, not the list. *)
LEMMA ClickTypes ==
  ASSUME MediaInv, Click
  PROVE  busy' \in BOOLEAN /\ informed' \in BOOLEAN /\ shown' = shown
  <1>1. busy' = TRUE /\ shown' = shown
    BY DEF Click
  <1>2. informed' \in BOOLEAN
    BY DEF Click
  <1> QED BY <1>1, <1>2

(* A click on edit, remove or move leaves rows and files as they are. *)
LEMMA StartStep ==
  ASSUME MediaInv, NEW t \in Task, NEW u \in Task, NEW a \in Asset, NEW b \in Asset,
         StartEdit(t, a) \/ StartRemove(t, a) \/ StartMove(t, u, a, b)
  PROVE  MediaInv'
  <1>1. UNCHANGED <<rows, stored, used, broken>> /\ Click
    BY DEF StartEdit, StartRemove, StartMove, server
  <1>2. /\ task' \in [Task -> MediaJobs]
        /\ \A x \in Task : task'[x] = task[x] \/ (Harmless(task'[x]) /\ task[x] = Resting)
    <2>1. CASE StartEdit(t, a)
      <3>1. Sent("patch", a, {}) \in MediaJobs /\ Harmless(Sent("patch", a, {}))
        BY SentJob
      <3> QED BY <2>1, <3>1, MediaTypes DEF StartEdit
    <2>2. CASE StartRemove(t, a)
      <3>1. Sent("delete", a, {}) \in MediaJobs /\ Harmless(Sent("delete", a, {}))
        BY SentJob
      <3> QED BY <2>2, <3>1, MediaTypes DEF StartRemove
    <2>3. CASE StartMove(t, u, a, b)
      <3> DEFINE j == Sent("patch", a, {shown[b]})
                 k == Sent("patch", b, {shown[a]})
      <3>1. shown[a] \in Position /\ shown[b] \in Position
        BY <2>3, MediaTypes, Lists DEF StartMove
      <3>2. j \in MediaJobs /\ k \in MediaJobs /\ Harmless(j) /\ Harmless(k)
        BY <3>1, SentJob
      <3> HIDE DEF j, k
      <3>3. task' = [task EXCEPT ![t] = j, ![u] = k] /\ task[t] = Resting /\ task[u] = Resting
        BY <2>3 DEF StartMove, j, k
      <3> QED BY <3>2, <3>3, MediaTypes
    <2> QED BY <2>1, <2>2, <2>3
  <1>3. MediaTypeOK'
    BY <1>1, <1>2, ClickTypes DEF MediaInv, MediaTypeOK, MediaJobs
  <1> QED BY <1>1, <1>2, <1>3, HarmlessStep, RestingPhase

(* The page asks for the list and shows it, or a request fails: one that   *)
(* fails between its two steps leaves its asset marked.                    *)
LEMMA PageStep ==
  ASSUME MediaInv, NEW t \in Task, Open(t) \/ ReadList(t) \/ Show(t) \/ Fail(t)
  PROVE  MediaInv'
  <1>1. \A opening \in BOOLEAN : [at |-> "asking", opening |-> opening] \in MediaJobs
    BY DEF MediaJobs, Load
  <1>2. Resting \in MediaJobs /\ Harmless(Resting)
    BY DEF MediaJobs, Resting, Harmless, Uploads, Deletes
  <1>3. Enable(t) => busy' \in BOOLEAN
    <2>1. CASE "opening" \in DOMAIN task[t] /\ task[t].opening
      BY <2>1, MediaTypes DEF Enable
    <2>2. CASE ~ ("opening" \in DOMAIN task[t] /\ task[t].opening)
      BY <2>2 DEF Enable
    <2> QED BY <2>1, <2>2
  <1>4. CASE Open(t)
    <2> DEFINE j == [at |-> "asking", opening |-> TRUE]
    <2>1. j \in MediaJobs /\ Harmless(j)
      BY <1>1 DEF Harmless, Uploads, Deletes
    <2>2. /\ task' = [task EXCEPT ![t] = j] /\ UNCHANGED <<rows, stored, used, broken, informed>>
          /\ shown' = <<>> /\ busy' = FALSE /\ task[t] = Resting
      BY <1>4 DEF Open, server, Quiet
    <2> HIDE DEF j
    <2>3. <<>> \in List
      BY DEF List
    <2>6. busy' \in BOOLEAN
      BY <2>2
    <2>4. MediaTypeOK'
      BY <2>1, <2>2, <2>3, <2>6, MediaTypes DEF MediaInv, MediaTypeOK, MediaJobs
    <2>5. \A x \in Task : task'[x] = task[x] \/ (Harmless(task'[x]) /\ task[x] = Resting)
      BY <2>1, <2>2, MediaTypes
    <2> QED BY <2>2, <2>4, <2>5, HarmlessStep, RestingPhase
  <1>5. CASE ReadList(t)
    <2> DEFINE j == [at |-> "answered", opening |-> task[t].opening, list |-> rows]
    <2>1. task[t] \in Load /\ task[t].at = "asking"
      BY <1>5, MediaTypes, JobPhases DEF ReadList
    <2>2. j \in MediaJobs /\ Harmless(j)
      BY <2>1, MediaTypes DEF MediaJobs, Load, Answer, Harmless, Uploads, Deletes
    <2>3. /\ task' = [task EXCEPT ![t] = j]
          /\ UNCHANGED <<rows, stored, used, broken, informed, shown, busy>>
      BY <1>5 DEF ReadList, server
    <2> HIDE DEF j
    <2>4. MediaTypeOK'
      BY <2>2, <2>3, MediaTypes DEF MediaInv, MediaTypeOK, MediaJobs
    <2>5. \A x \in Task : task'[x] = task[x] \/ (Harmless(task'[x]) /\ task[x].at = "asking")
      BY <2>1, <2>2, <2>3, MediaTypes
    <2> QED BY <2>3, <2>4, <2>5, HarmlessStep
  <1>6. CASE Show(t)
    <2>1. task[t] \in Answer /\ task[t].at = "answered"
      BY <1>6, MediaTypes, JobPhases DEF Show
    <2>2. /\ task' = [task EXCEPT ![t] = Resting] /\ shown' = task[t].list
          /\ UNCHANGED <<rows, stored, used, broken, informed>> /\ Enable(t)
      BY <1>6 DEF Show, server
    <2>3. shown' \in List
      BY <2>1, <2>2 DEF Answer
    <2>4. MediaTypeOK'
      BY <1>2, <1>3, <2>2, <2>3, MediaTypes DEF MediaInv, MediaTypeOK, MediaJobs
    <2>5. \A x \in Task : task'[x] = task[x] \/ (Harmless(task'[x]) /\ task[x].at = "answered")
      BY <1>2, <2>1, <2>2, MediaTypes
    <2> QED BY <2>2, <2>4, <2>5, HarmlessStep
  <1>7. CASE Fail(t)
    <2>1. /\ task' = [task EXCEPT ![t] = Resting]
          /\ broken' = IF task[t].at = "filed" THEN broken \cup {task[t].asset} ELSE broken
          /\ UNCHANGED <<rows, stored, used, shown>> /\ Enable(t) /\ informed' = FALSE
      BY <1>7 DEF Fail
    <2>2. task[t].at = "filed" => task[t].asset \in used
      <3> SUFFICES ASSUME task[t].at = "filed"
                   PROVE  task[t].asset \in used
        OBVIOUS
      <3>1. task[t] \in Operation
        BY MediaTypes, JobPhases
      <3> QED BY <3>1, MediaTypes DEF TaskInv, Uploads, Deletes, Operation
    <2>3. broken' \subseteq used /\ informed' \in BOOLEAN /\ broken \subseteq broken'
      BY <2>1, <2>2, MediaTypes
    <2>4. MediaTypeOK'
      BY <1>2, <1>3, <2>1, <2>3, MediaTypes DEF MediaInv, MediaTypeOK, MediaJobs
    <2>5. \A x \in Task : \/ task'[x] = task[x]
                         \/ /\ Harmless(task'[x])
                            /\ task[x].at = "filed" => task[x].asset \in broken'
      BY <1>2, <2>1, MediaTypes
    <2> QED BY <2>1, <2>3, <2>4, <2>5, HarmlessStep
  <1> QED BY <1>4, <1>5, <1>6, <1>7

(* What a step of one task must leave to the others. *)
LEMMA OtherTasks ==
  ASSUME MediaInv, NEW t \in Task, NEW j, task' = [task EXCEPT ![t] = j], used \subseteq used',
         \A x \in Task \ {t} : Uploads(task[x]) =>
           /\ task[x].asset \notin DOMAIN rows'
           /\ Uploads(j) \/ Deletes(j) => j.asset # task[x].asset,
         \A x \in Task \ {t} : task[x].at = "filed" =>
           (task[x].asset \in stored' <=> task[x].asset \in stored)
  PROVE  \A x \in Task \ {t} : TaskInv(x)'
  <1> SUFFICES ASSUME NEW x \in Task \ {t}
               PROVE  TaskInv(x)'
    OBVIOUS
  <1>1. /\ task'[x] = task[x] /\ task'[t] = j
        /\ \A u \in Task \ {t} : task'[u] = task[u]
    BY MediaTypes
  <1>2. TaskInv(x)
    BY DEF MediaInv
  <1>3. Uploads(task[x]) =>
          /\ task[x].asset \in used' \ DOMAIN rows'
          /\ \A u \in Task \ {x} : Uploads(task'[u]) \/ Deletes(task'[u]) =>
               task'[u].asset # task[x].asset
    BY <1>1, <1>2 DEF TaskInv
  <1> QED BY <1>1, <1>2, <1>3 DEF TaskInv

(* An upload is of an image that was never used. *)
LEMMA StartUploadStep ==
  ASSUME MediaInv, NEW t \in Task, StartUpload(t)
  PROVE  MediaInv'
  <1> DEFINE fresh == Asset \ used
  <1>1. fresh # {} /\ fresh \in SUBSET Nat
    BY MediaTypes, MediaAssumption DEF StartUpload
  <1>2. \E n \in fresh : \A m \in fresh : n <= m
    BY <1>1, LeastNat
  <1>3. PICK a \in fresh : a = Min(fresh)
    BY <1>2 DEF Min
  <1> DEFINE j == Sent("upload", a, {NextSortOrder})
  <1>4. /\ task[t] = Resting /\ NextSortOrder \in Position /\ Click
        /\ used' = used \cup {a} /\ task' = [task EXCEPT ![t] = j]
        /\ UNCHANGED <<rows, stored, broken>>
    BY <1>3 DEF StartUpload
  <1>5. j \in MediaJobs /\ j.at = "sent" /\ j.op = "upload" /\ j.asset = a
    BY <1>3, <1>4, SentJob DEF Sent
  <1> HIDE DEF j, fresh
  <1>6. a \in Asset /\ a \notin used
    BY <1>3 DEF fresh
  <1>7. MediaTypeOK'
    BY <1>4, <1>5, <1>6, ClickTypes, MediaTypes DEF MediaInv, MediaTypeOK, MediaJobs
  <1>8. \A x \in Task \ {t} : TaskInv(x)'
    <2>1. \A x \in Task : Uploads(task[x]) =>
            task[x].asset \in used /\ task[x].asset \notin DOMAIN rows
      BY DEF MediaInv, TaskInv
    <2> QED BY <1>4, <1>5, <1>6, <2>1, OtherTasks
  <1>9. TaskInv(t)'
    <2>1. task'[t] = j /\ \A u \in Task \ {t} : task'[u] = task[u]
      BY <1>4, MediaTypes
    <2>2. \A u \in Task \ {t} : Uploads(task[u]) \/ Deletes(task[u]) => task[u].asset \in used
      BY DEF MediaInv, TaskInv
    <2>3. a \notin DOMAIN rows
      BY <1>6, MediaTypes
    <2> QED BY <1>4, <1>5, <1>6, <2>1, <2>2, <2>3 DEF TaskInv, Uploads, Deletes
  <1>10. FilesMatchRows'
    <2>1. \A u \in Task : task[u].at = "filed" => task'[u] = task[u]
      BY <1>4, MediaTypes, RestingPhase
    <2> QED BY <1>4, <2>1 DEF MediaInv, FilesMatchRows
  <1> QED BY <1>7, <1>8, <1>9, <1>10 DEF MediaInv

(* The image whose file is touched is between its two steps. *)
LEMMA FileStep ==
  ASSUME MediaInv, NEW t \in Task, SaveFile(t) \/ DeleteFile(t)
  PROVE  MediaInv'
  <1> DEFINE j == [task[t] EXCEPT !.at = "filed"]
  <1>1. /\ task' = [task EXCEPT ![t] = j]
        /\ UNCHANGED <<rows, used, broken, shown, busy, informed>>
    BY DEF SaveFile, DeleteFile, Become
  <1>2. PICK a : a = task[t].asset
    OBVIOUS
  <1>3. \/ task[t].at = "sent" /\ task[t].op = "upload" /\ stored' = stored \cup {a}
        \/ task[t].at = "read" /\ task[t].op = "delete" /\ stored' = stored \ {a}
    BY <1>2 DEF SaveFile, DeleteFile
  <1>4. task[t] \in Operation
    BY <1>3, MediaTypes, JobPhases
  <1>5. /\ j \in Operation /\ j.at = "filed" /\ j.op = task[t].op /\ j.asset = a
    BY <1>2, <1>4 DEF Operation
  <1> HIDE DEF j
  <1>6. /\ a \in used
        /\ task[t].op = "upload" => a \notin DOMAIN rows
        /\ \A u \in Task \ {t} : Uploads(task[u]) => task[u].asset # a
        /\ task[t].op = "upload" => \A u \in Task \ {t} : Deletes(task[u]) => task[u].asset # a
    BY <1>2, <1>3 DEF MediaInv, TaskInv, Uploads, Deletes
  <1>7. MediaTypeOK'
    <2>1. task' \in [Task -> MediaJobs]
      BY <1>1, <1>5, MediaTypes DEF MediaJobs
    <2>2. stored' \subseteq used'
      BY <1>1, <1>3, <1>6, MediaTypes
    <2> QED BY <1>1, <2>1, <2>2, MediaTypes DEF MediaInv, MediaTypeOK, MediaJobs
  <1>8. \A x \in Task \ {t} : TaskInv(x)'
    <2>1. \A x \in Task \ {t} : Uploads(task[x]) => task[x].asset \notin DOMAIN rows
      BY DEF MediaInv, TaskInv
    <2>2. ASSUME NEW x \in Task \ {t}, task[x].at = "filed"
          PROVE  task[x].asset \in stored' <=> task[x].asset \in stored
      <3>1. task[x].op \in {"upload", "delete"}
        <4>1. task[x] \in Operation /\ TaskInv(x)
          BY <2>2, MediaTypes, JobPhases
        <4> QED BY <2>2, <4>1 DEF TaskInv, Operation
      <3>2. CASE task[x].asset # a
        BY <1>3, <3>2
      <3>3. CASE task[x].asset = a
        <4>1. ~ Uploads(task[x]) /\ Deletes(task[x]) /\ task[t].op # "upload"
          BY <1>6, <2>2, <3>1, <3>3 DEF Uploads, Deletes
        <4>2. a \notin stored
          BY <2>2, <3>3, <4>1 DEF MediaInv, TaskInv, Deletes
        <4> QED BY <1>3, <3>3, <4>1, <4>2
      <3> QED BY <3>2, <3>3
    <2> QED BY <1>1, <1>5, <1>6, <2>1, <2>2, OtherTasks
  <1>9. TaskInv(t)'
    <2>1. task'[t] = j /\ \A u \in Task \ {t} : task'[u] = task[u]
      BY <1>1, MediaTypes
    <2> QED BY <1>1, <1>3, <1>5, <1>6, <2>1 DEF TaskInv, Uploads, Deletes
  <1>10. FilesMatchRows'
    <2>1. task'[t] = j /\ \A u \in Task \ {t} : task'[u] = task[u]
      BY <1>1, MediaTypes
    <2>2. ASSUME NEW b \in Asset, (b \in DOMAIN rows) # (b \in stored')
          PROVE  b \in broken \/ \E u \in Task : task'[u].at = "filed" /\ task'[u].asset = b
      <3>1. CASE b = a
        BY <1>5, <2>1, <3>1
      <3>2. CASE b # a
        <4>1. (b \in DOMAIN rows) # (b \in stored)
          BY <1>3, <2>2, <3>2
        <4>2. b \in broken \/ \E u \in Task : task[u].at = "filed" /\ task[u].asset = b
          BY <4>1 DEF MediaInv, FilesMatchRows
        <4> QED BY <1>2, <2>1, <3>2, <4>2
      <3> QED BY <3>1, <3>2
    <2> QED BY <1>1, <2>2 DEF FilesMatchRows
  <1> QED BY <1>7, <1>8, <1>9, <1>10 DEF MediaInv

(* A row that comes or goes: its file is there, or is not. *)
LEMMA RowStep ==
  ASSUME MediaInv, NEW t \in Task, InsertRow(t) \/ DeleteRow(t)
  PROVE  MediaInv'
  <1> DEFINE j == [at |-> "asking", opening |-> FALSE]
  <1>1. /\ task' = [task EXCEPT ![t] = j]
        /\ UNCHANGED <<stored, used, broken, shown, busy, informed>>
        /\ task[t].at = "filed"
    BY DEF InsertRow, DeleteRow, Commit
  <1>2. j \in MediaJobs /\ Harmless(j)
    BY DEF MediaJobs, Load, Harmless, Uploads, Deletes
  <1> HIDE DEF j
  <1>3. PICK a : a = task[t].asset
    OBVIOUS
  <1>4. task[t] \in Operation /\ a \in Asset /\ task[t].to \in SUBSET Position
    BY <1>1, <1>3, MediaTypes, JobPhases DEF Operation
  <1>5. \/ /\ task[t].op = "upload" /\ DOMAIN rows' = DOMAIN rows \cup {a} /\ a \in stored
        \/ /\ task[t].op = "delete" /\ DOMAIN rows' = DOMAIN rows \ {a} /\ a \notin stored
    BY <1>1, <1>3 DEF InsertRow, DeleteRow, MediaInv, TaskInv
  <1>6. rows' \in List /\ DOMAIN rows' \subseteq used /\ a \in used
    <2>1. a \in used
      BY <1>1, <1>3, <1>5 DEF MediaInv, TaskInv, Uploads, Deletes
    <2>2. DOMAIN rows \in SUBSET Asset /\ rows \in [DOMAIN rows -> Position]
      BY MediaTypes, Lists
    <2>3. CASE InsertRow(t)
      <3>1. PICK n \in Position :
              rows' = [b \in DOMAIN rows \cup {a} |-> IF b = a THEN n ELSE rows[b]]
        BY <1>3, <1>4, <2>3 DEF InsertRow
      <3>2. rows' \in [DOMAIN rows \cup {a} -> Position] /\ DOMAIN rows \cup {a} \in SUBSET Asset
        BY <1>4, <2>2, <3>1
      <3> QED BY <2>1, <3>2, MediaTypes, Lists
    <2>4. CASE DeleteRow(t)
      <3>1. rows' = [b \in DOMAIN rows \ {a} |-> rows[b]]
        BY <1>3, <2>4 DEF DeleteRow
      <3>2. rows' \in [DOMAIN rows \ {a} -> Position] /\ DOMAIN rows \ {a} \in SUBSET Asset
        BY <2>2, <3>1
      <3> QED BY <2>1, <3>2, MediaTypes, Lists
    <2> QED BY <2>3, <2>4
  <1>7. MediaTypeOK'
    BY <1>1, <1>2, <1>6, MediaTypes DEF MediaInv, MediaTypeOK, MediaJobs
  <1>8. \A x \in Task \ {t} : TaskInv(x)'
    <2>1. ASSUME NEW x \in Task \ {t}, Uploads(task[x])
          PROVE  task[x].asset \notin DOMAIN rows'
      <3>1. task[x].asset \notin DOMAIN rows /\ task[x].asset # a
        BY <1>1, <1>3, <1>5, <2>1 DEF MediaInv, TaskInv, Uploads, Deletes
      <3> QED BY <1>5, <3>1
    <2> QED BY <1>1, <1>2, <2>1, OtherTasks DEF Harmless
  <1>9. TaskInv(t)'
    <2>1. task'[t] = j
      BY <1>1, MediaTypes
    <2> QED BY <1>2, <2>1 DEF TaskInv, Harmless
  <1>10. FilesMatchRows'
    <2>1. \A u \in Task \ {t} : task'[u] = task[u]
      BY <1>1, MediaTypes
    <2>2. ASSUME NEW b \in Asset, (b \in DOMAIN rows') # (b \in stored)
          PROVE  b \in broken \/ \E u \in Task : task'[u].at = "filed" /\ task'[u].asset = b
      <3>1. b # a
        BY <1>5, <2>2
      <3>2. (b \in DOMAIN rows) # (b \in stored)
        BY <1>5, <2>2, <3>1
      <3>3. b \in broken \/ \E u \in Task : task[u].at = "filed" /\ task[u].asset = b
        BY <3>2 DEF MediaInv, FilesMatchRows
      <3> QED BY <1>3, <2>1, <3>1, <3>3
    <2> QED BY <1>1, <2>2 DEF FilesMatchRows
  <1> QED BY <1>7, <1>8, <1>9, <1>10 DEF MediaInv

(* A request that has found a row is not about an upload that still runs. *)
LEMMA ReadRowStep ==
  ASSUME MediaInv, NEW t \in Task, ReadRow(t)
  PROVE  MediaInv'
  <1> DEFINE seen == IF task[t].to = {} THEN 0 ELSE rows[task[t].asset]
             j == [task[t] EXCEPT !.at = "read", !.seen = seen]
  <1>1. /\ task[t].at = "sent" /\ task[t].op \in {"patch", "delete"}
        /\ task[t].asset \in DOMAIN rows
        /\ task' = [task EXCEPT ![t] = j]
        /\ UNCHANGED <<rows, stored, used, broken, shown, busy, informed>>
    BY DEF ReadRow, server
  <1>2. task[t] \in Operation
    BY <1>1, MediaTypes, JobPhases
  <1>3. seen \in Position
    <2>1. 0 \in Position
      BY FS_CardinalityType, MediaAssumption DEF Position
    <2> QED BY <1>1, <2>1, MediaTypes, Lists
  <1> HIDE DEF seen
  <1>4. j \in Operation /\ j.at = "read" /\ j.op = task[t].op /\ j.asset = task[t].asset
    BY <1>2, <1>3 DEF Operation
  <1> HIDE DEF j
  <1>5. MediaTypeOK'
    BY <1>1, <1>4, MediaTypes DEF MediaInv, MediaTypeOK, MediaJobs
  <1>6. \A x \in Task \ {t} : TaskInv(x)'
    <2>1. \A x \in Task : Uploads(task[x]) => task[x].asset \notin DOMAIN rows
      BY DEF MediaInv, TaskInv
    <2>2. \A x \in Task \ {t} : Uploads(task[x]) =>
            task[x].asset \notin DOMAIN rows' /\ j.asset # task[x].asset
      BY <1>1, <1>4, <2>1
    <2>3. used \subseteq used' /\ stored' = stored
      BY <1>1
    <2> QED BY <1>1, <2>2, <2>3, OtherTasks
  <1>7. TaskInv(t)'
    <2>1. task'[t] = j /\ task[t].asset \in used
      BY <1>1, MediaTypes
    <2> QED BY <1>1, <1>4, <2>1 DEF TaskInv, Uploads, Deletes
  <1>8. FilesMatchRows'
    <2>1. \A u \in Task : task[u].at = "filed" => task'[u] = task[u]
      BY <1>1, MediaTypes
    <2> QED BY <1>1, <2>1 DEF MediaInv, FilesMatchRows
  <1> QED BY <1>5, <1>6, <1>7, <1>8 DEF MediaInv

(* A written row has another place; the rows there are stay the same. *)
LEMMA WriteRowStep ==
  ASSUME MediaInv, NEW t \in Task, WriteRow(t)
  PROVE  MediaInv'
  <1> DEFINE j == [at |-> "asking", opening |-> FALSE]
  <1>1. /\ task' = [task EXCEPT ![t] = j]
        /\ UNCHANGED <<stored, used, broken, shown, busy, informed>>
        /\ task[t].at = "read"
    BY DEF WriteRow, Commit
  <1>2. j \in MediaJobs /\ Harmless(j)
    BY DEF MediaJobs, Load, Harmless, Uploads, Deletes
  <1> HIDE DEF j
  <1>3. task[t].to \in SUBSET Position
    BY <1>1, MediaTypes, JobPhases DEF Operation
  <1>4. rows' \in List /\ DOMAIN rows' = DOMAIN rows
    <2>1. DOMAIN rows \in SUBSET Asset /\ rows \in [DOMAIN rows -> Position]
      BY MediaTypes, Lists
    <2>2. rows' \in [DOMAIN rows -> Position]
      BY <1>3, <2>1 DEF WriteRow
    <2> QED BY <2>1, <2>2, Lists
  <1>5. MediaTypeOK'
    BY <1>1, <1>2, <1>4, MediaTypes DEF MediaInv, MediaTypeOK, MediaJobs
  <1>6. \A x \in Task \ {t} : TaskInv(x)'
    <2>1. \A x \in Task : Uploads(task[x]) => task[x].asset \notin DOMAIN rows
      BY DEF MediaInv, TaskInv
    <2> QED BY <1>1, <1>2, <1>4, <2>1, OtherTasks DEF Harmless
  <1>7. TaskInv(t)'
    <2>1. task'[t] = j
      BY <1>1, MediaTypes
    <2> QED BY <1>2, <2>1 DEF TaskInv, Harmless
  <1>8. FilesMatchRows'
    <2>1. \A u \in Task : task[u].at = "filed" => task'[u] = task[u]
      BY <1>1, MediaTypes
    <2> QED BY <1>1, <1>4, <2>1 DEF MediaInv, FilesMatchRows
  <1> QED BY <1>5, <1>6, <1>7, <1>8 DEF MediaInv

(* Every step keeps files and rows together. *)
LEMMA MediaInvNext == MediaInv /\ [MediaNext]_mediaVars => MediaInv'
  <1> SUFFICES ASSUME MediaInv, [MediaNext]_mediaVars
               PROVE  MediaInv'
    OBVIOUS
  <1>1. CASE UNCHANGED mediaVars
    BY <1>1 DEF mediaVars, MediaInv, MediaTypeOK, FilesMatchRows, TaskInv
  <1>2. CASE MediaNext
    BY <1>2, StartUploadStep, StartStep, PageStep, FileStep, RowStep, ReadRowStep, WriteRowStep
       DEF MediaNext
  <1> QED BY <1>1, <1>2

(* The images and the page that shows them keep their types. *)
THEOREM MediaTypeCorrect == MediaSpec => []MediaTypeOK
  <1>1. MediaInv => MediaTypeOK
    BY DEF MediaInv
  <1> QED BY <1>1, MediaInvInit, MediaInvNext, PTL DEF MediaSpec

(* An image has its row and its file or neither, unless a request for it   *)
(* is between its two steps or has failed there (file_storage.py,          *)
(* files.py): for any assets and any number of requests.                   *)
THEOREM FilesStayMatched == MediaSpec => []FilesMatchRows
  <1>1. MediaInv => FilesMatchRows
    BY DEF MediaInv
  <1> QED BY <1>1, MediaInvInit, MediaInvNext, PTL DEF MediaSpec

-----------------------------------------------------------------------------
(* The order of the images: while staff wait for what they asked for, the  *)
(* requests on their way belong to one click, and there is an order F,     *)
(* without two images in one place, that their end will have reached.      *)

Working(j) == j.at \in {"sent", "read", "filed"}

(* Writes the row of image a. *)
Moves(j, a) == Working(j) /\ j.op = "patch" /\ j.asset = a /\ j.to # {}

Plan(F) ==
  /\ \A a, b \in DOMAIN F : F[a] = F[b] => a = b
  /\ \A t \in Task : Working(task[t]) /\ task[t].op # "delete" =>
       task[t].asset \in DOMAIN F /\ task[t].to \subseteq {F[task[t].asset]}
  /\ \A a \in DOMAIN rows :
       /\ a \in DOMAIN F
       /\ rows[a] = F[a] \/ \E t \in Task : Moves(task[t], a)
       /\ \A t \in Task : Moves(task[t], a) /\ task[t].at = "read" =>
            rows[a] \in {task[t].seen, F[a]}

(* Whoever stores or deletes a file is the only one at work, so that a     *)
(* list read before is not shown after.                                    *)
Alone ==
  \A t \in Task : Working(task[t]) /\ task[t].op # "patch" =>
    \A u \in Task \ {t} : task[u] = Resting

Listed ==
  /\ \A t \in Task : task[t].at = "answered" => DOMAIN task[t].list = DOMAIN rows
  /\ DOMAIN shown = DOMAIN rows \/ \E t \in Task : task[t].at \in {"asking", "answered"}

OrderInv == informed => (\E F : Plan(F)) /\ Alone /\ Listed

(* At first there is nothing to order. *)
LEMMA OrderInvInit == MediaInit => OrderInv
  <1> SUFFICES ASSUME MediaInit
               PROVE  OrderInv
    OBVIOUS
  <1>1. \A t \in Task : ~ Working(task[t]) /\ task[t].at # "answered"
    BY RestingPhase DEF MediaInit, Working
  <1>2. Plan(rows)
    BY <1>1 DEF MediaInit, Plan, Moves
  <1>3. Alone /\ Listed
    BY <1>1 DEF MediaInit, Alone, Listed
  <1> QED BY <1>2, <1>3 DEF OrderInv

(* When everything has ended, the rows are in the order that was planned.  *)
LEMMA OrderHolds == OrderInv => OrderPersists
  <1> SUFFICES ASSUME OrderInv, informed, Quiet
               PROVE  /\ DOMAIN shown = DOMAIN rows
                      /\ \A a, b \in DOMAIN rows : rows[a] = rows[b] => a = b
    BY DEF OrderPersists
  <1>1. \A t \in Task : task[t].at = "resting"
    BY RestingPhase DEF Quiet
  <1>2. DOMAIN shown = DOMAIN rows
    BY <1>1 DEF OrderInv, Listed
  <1>3. PICK F : Plan(F)
    BY DEF OrderInv
  <1>4. \A a \in DOMAIN rows : a \in DOMAIN F /\ rows[a] = F[a]
    BY <1>1, <1>3 DEF Plan, Moves, Working
  <1>5. \A a, b \in DOMAIN F : F[a] = F[b] => a = b
    BY <1>3 DEF Plan
  <1> QED BY <1>2, <1>4, <1>5

(* A click that staff are informed of comes when everything has ended: the *)
(* plan is made anew, from what is stored.                                 *)
LEMMA InformedClick ==
  ASSUME MediaInv, OrderInv, Click, informed'
  PROVE  /\ \A t \in Task : task[t] = Resting
         /\ shown = rows /\ shown' = shown
         /\ \A a, b \in DOMAIN rows : rows[a] = rows[b] => a = b
  <1>1. informed /\ Quiet /\ shown = rows /\ shown' = shown
    BY DEF Click
  <1>2. OrderPersists
    BY OrderHolds
  <1> QED BY <1>1, <1>2 DEF Quiet, OrderPersists

(* A click leaves the order that its own tasks will reach. *)
LEMMA ClickOrders ==
  ASSUME MediaInv, OrderInv, Click, informed', UNCHANGED rows, NEW F, Plan(F)',
         \A t \in Task : task'[t] = Resting \/ task'[t].at = "sent",
         Alone'
  PROVE  OrderInv'
  <1>1. \A t \in Task : task'[t].at # "answered"
    BY RestingPhase
  <1>2. Listed'
    BY <1>1, InformedClick DEF Listed
  <1> QED BY <1>2 DEF OrderInv

(* The sort_order that the page gives to a new image is of no other.       *)
LEMMA NextIsNew ==
  ASSUME MediaInv, NEW a \in DOMAIN shown
  PROVE  shown[a] # NextSortOrder
  <1> DEFINE N == Cardinality(Asset)
             places == {shown[b] : b \in DOMAIN shown}
             gaps == {N - n : n \in places}
  <1>1. N \in Nat /\ Position = 0 .. N
    BY FS_CardinalityType, MediaAssumption DEF Position
  <1>2. places \subseteq 0 .. N /\ shown[a] \in places
    BY <1>1, MediaTypes, Lists DEF MediaInv, MediaTypeOK
  <1> HIDE DEF N, places
  <1>3. gaps \in SUBSET Nat /\ gaps # {}
    <2>1. \A n \in places : N - n \in Nat
      BY <1>1, <1>2
    <2> QED BY <1>2, <2>1
  <1>4. PICK g \in gaps : \A h \in gaps : g <= h
    BY <1>3, LeastNat
  <1>5. PICK m \in places : g = N - m
    BY <1>4
  <1>6. \A n \in places : n \in Int /\ m >= n
    <2> SUFFICES ASSUME NEW n \in places
                 PROVE  n \in Int /\ m >= n
      OBVIOUS
    <2>1. N - m <= N - n
      BY <1>4, <1>5
    <2> QED BY <1>1, <1>2, <2>1
  <1>7. Max(places) \in places /\ \A n \in places : Max(places) >= n
    BY <1>5, <1>6 DEF Max
  <1>8. shown # <<>>
    OBVIOUS
  <1>9. NextSortOrder = Max(places) + 1
    BY <1>8 DEF NextSortOrder, places
  <1>10. PICK top \in places : top = Max(places)
    BY <1>7
  <1> QED BY <1>2, <1>6, <1>7, <1>9, <1>10

(* An upload comes after the last image. *)
LEMMA UploadOrders ==
  ASSUME MediaInv, OrderInv, NEW t \in Task, StartUpload(t), informed'
  PROVE  OrderInv'
  <1> DEFINE a == Min(Asset \ used)
             j == Sent("upload", a, {NextSortOrder})
             plan == [b \in DOMAIN rows \cup {a} |-> IF b = a THEN NextSortOrder ELSE rows[b]]
  <1>1. Click /\ task' = [task EXCEPT ![t] = j] /\ UNCHANGED rows
    BY DEF StartUpload
  <1>2. j.at = "sent" /\ j.op = "upload" /\ j.asset = a /\ j.to = {NextSortOrder}
    BY DEF Sent
  <1> HIDE DEF j, a
  <1>3. task'[t] = j /\ \A u \in Task \ {t} : task'[u] = Resting
    BY <1>1, InformedClick, MediaTypes
  <1>4. \A u \in Task : Working(task'[u]) => u = t
    BY <1>3, RestingPhase DEF Working
  <1>5. a \notin DOMAIN rows
    <2>1. Asset \ used # {} /\ Asset \ used \in SUBSET Nat
      BY MediaTypes, MediaAssumption DEF StartUpload
    <2>2. \E n \in Asset \ used : \A m \in Asset \ used : n <= m
      BY <2>1, LeastNat
    <2>3. a \in Asset \ used
      BY <2>2 DEF Min, a
    <2> QED BY <2>3, MediaTypes
  <1>6. PICK F : F = plan
    OBVIOUS
  <1>10. Plan(F)'
    <2>1. /\ DOMAIN F = DOMAIN rows \cup {a} /\ F[a] = NextSortOrder
          /\ \A b \in DOMAIN rows : rows[b] = F[b]
      BY <1>5, <1>6
    <2>2. \A b \in DOMAIN rows : rows[b] # NextSortOrder
      BY <1>1, InformedClick, NextIsNew
    <2>3. \A b, c \in DOMAIN F : F[b] = F[c] => b = c
      BY <1>1, <2>1, <2>2, InformedClick
    <2>4. \A x \in Task : Working(task'[x]) =>
            task'[x].asset \in DOMAIN F /\ task'[x].to \subseteq {F[task'[x].asset]}
      BY <1>2, <1>3, <1>4, <2>1
    <2>5. \A x \in Task, b \in DOMAIN rows : ~ Moves(task'[x], b)
      BY <1>2, <1>3, <1>4 DEF Moves
    <2> QED BY <1>1, <2>1, <2>3, <2>4, <2>5 DEF Plan
  <1>7. Alone'
    BY <1>3, <1>4 DEF Alone
  <1> QED BY <1>1, <1>2, <1>3, <1>7, <1>10, ClickOrders

(* To edit an image leaves it in its place, and to remove it leaves the others. *)
LEMMA EditOrders ==
  ASSUME MediaInv, OrderInv, NEW t \in Task, NEW a \in Asset,
         StartEdit(t, a) \/ StartRemove(t, a), informed'
  PROVE  OrderInv'
  <1>1. PICK op \in {"patch", "delete"} : task' = [task EXCEPT ![t] = Sent(op, a, {})]
    BY DEF StartEdit, StartRemove
  <1> DEFINE j == Sent(op, a, {})
  <1>2. Click /\ a \in DOMAIN shown /\ UNCHANGED rows
    BY DEF StartEdit, StartRemove, server
  <1>3. j.at = "sent" /\ j.asset = a /\ j.to = {}
    BY DEF Sent
  <1>4. task' = [task EXCEPT ![t] = j]
    BY <1>1
  <1> HIDE DEF j
  <1>5. task'[t] = j /\ \A u \in Task \ {t} : task'[u] = Resting
    BY <1>2, <1>4, InformedClick, MediaTypes
  <1>6. \A u \in Task : Working(task'[u]) => u = t
    BY <1>5, RestingPhase DEF Working
  <1>7. a \in DOMAIN rows /\ \A b, c \in DOMAIN rows : rows[b] = rows[c] => b = c
    BY <1>2, InformedClick
  <1>10. PICK F : F = rows
    OBVIOUS
  <1>8. Plan(F)'
    BY <1>2, <1>3, <1>5, <1>6, <1>7, <1>10 DEF Plan, Moves
  <1>9. Alone'
    BY <1>5, <1>6 DEF Alone
  <1> QED BY <1>2, <1>3, <1>5, <1>8, <1>9, ClickOrders

(* The two halves of a move exchange the places of two images.             *)
LEMMA MoveOrders ==
  ASSUME MediaInv, OrderInv, NEW t \in Task, NEW u \in Task, NEW a \in Asset, NEW b \in Asset,
         StartMove(t, u, a, b), informed'
  PROVE  OrderInv'
  <1> DEFINE j == Sent("patch", a, {shown[b]})
             k == Sent("patch", b, {shown[a]})
             plan == [c \in DOMAIN rows |-> IF c = a THEN rows[b] ELSE IF c = b THEN rows[a]
                                            ELSE rows[c]]
  <1>1. /\ t # u /\ Click /\ UNCHANGED rows /\ task' = [task EXCEPT ![t] = j, ![u] = k]
        /\ a \in DOMAIN shown /\ b \in DOMAIN shown
    BY DEF StartMove, server
  <1>2. a # b
    <2>1. Before(a, b)
      BY DEF StartMove, Neighbours
    <2>2. a \in Nat /\ shown[a] \in Int
      <3>1. shown[a] \in Position
        BY <1>1, MediaTypes, Lists
      <3>2. Position \subseteq Int
        BY DEF Position
      <3> QED BY <3>1, <3>2, MediaAssumption
    <2> QED BY <2>1, <2>2 DEF Before
  <1>3. /\ j.at = "sent" /\ j.op = "patch" /\ j.asset = a /\ j.to = {rows[b]}
        /\ k.at = "sent" /\ k.op = "patch" /\ k.asset = b /\ k.to = {rows[a]}
    BY <1>1, InformedClick DEF Sent
  <1> HIDE DEF j, k
  <1>4. /\ task'[t] = j /\ task'[u] = k
        /\ \A x \in Task \ {t, u} : task'[x] = Resting
    BY <1>1, InformedClick, MediaTypes
  <1>5. \A x \in Task : Working(task'[x]) => x = t \/ x = u
    BY <1>4, RestingPhase DEF Working
  <1>6. /\ a \in DOMAIN rows /\ b \in DOMAIN rows
        /\ \A c, d \in DOMAIN rows : rows[c] = rows[d] => c = d
    BY <1>1, InformedClick
  <1>9. PICK F : F = plan
    OBVIOUS
  <1>7. Plan(F)'
    <2>1. DOMAIN F = DOMAIN rows /\ F[a] = rows[b] /\ F[b] = rows[a]
      BY <1>2, <1>6, <1>9
    <2>2. \A c \in DOMAIN rows : c # a /\ c # b => F[c] = rows[c]
      BY <1>9
    <2>3. \A c, d \in DOMAIN F : F[c] = F[d] => c = d
      BY <1>6, <1>9
    <2>4. Moves(task'[t], a) /\ Moves(task'[u], b)
      BY <1>3, <1>4 DEF Moves, Working
    <2>5. \A x \in Task : task'[x].at # "read"
      BY <1>3, <1>4, RestingPhase
    <2>6. \A x \in Task : Working(task'[x]) =>
            task'[x].asset \in DOMAIN F /\ task'[x].to \subseteq {F[task'[x].asset]}
      BY <1>3, <1>4, <1>5, <1>6, <2>1
    <2>7. \A c \in DOMAIN rows : rows[c] = F[c] \/ \E x \in Task : Moves(task'[x], c)
      BY <2>2, <2>4
    <2> QED BY <1>1, <2>1, <2>3, <2>5, <2>6, <2>7 DEF Plan
  <1>8. Alone'
    BY <1>3, <1>4, <1>5 DEF Alone
  <1> QED BY <1>1, <1>3, <1>4, <1>7, <1>8, ClickOrders

(* A step of one request keeps the plan, if it writes what is planned.     *)
LEMMA PlanKept ==
  ASSUME MediaInv, NEW F, Plan(F), NEW t \in Task, NEW j, task' = [task EXCEPT ![t] = j],
         Working(j) => /\ Working(task[t])
                       /\ j.op = task[t].op /\ j.asset = task[t].asset /\ j.to = task[t].to,
         \A a \in DOMAIN rows' :
           \/ a \in DOMAIN rows /\ rows'[a] = rows[a]
           \/ a \in DOMAIN F /\ rows'[a] = F[a],
         \A a \in DOMAIN rows' :
           /\ Moves(j, a) /\ j.at = "read" => rows'[a] \in {j.seen, F[a]}
           /\ Moves(task[t], a) /\ ~ Working(j) => rows'[a] = F[a]
  PROVE  Plan(F)'
  <1>1. task'[t] = j /\ \A u \in Task \ {t} : task'[u] = task[u]
    BY MediaTypes
  <1>2. \A u \in Task : Working(task'[u]) =>
          /\ Working(task[u]) /\ task'[u].op = task[u].op
          /\ task'[u].asset = task[u].asset /\ task'[u].to = task[u].to
    BY <1>1
  <1>3. \A u \in Task : Working(task'[u]) /\ task'[u].op # "delete" =>
          task'[u].asset \in DOMAIN F /\ task'[u].to \subseteq {F[task'[u].asset]}
    BY <1>2 DEF Plan
  <1>4. ASSUME NEW a \in DOMAIN rows'
        PROVE  /\ a \in DOMAIN F
               /\ rows'[a] = F[a] \/ \E u \in Task : Moves(task'[u], a)
    <2>1. a \in DOMAIN F
      BY DEF Plan
    <2>2. CASE rows'[a] = F[a]
      BY <2>1, <2>2
    <2>3. CASE a \in DOMAIN rows /\ rows'[a] = rows[a] /\ rows[a] # F[a]
      <3>1. PICK u \in Task : Moves(task[u], a)
        BY <2>3 DEF Plan
      <3>2. CASE u # t
        BY <1>1, <2>1, <3>1, <3>2
      <3>3. CASE u = t
        BY <1>1, <2>1, <2>3, <3>1, <3>3 DEF Moves
      <3> QED BY <3>2, <3>3
    <2> QED BY <2>2, <2>3
  <1>5. ASSUME NEW a \in DOMAIN rows', NEW u \in Task, Moves(task'[u], a), task'[u].at = "read"
        PROVE  rows'[a] \in {task'[u].seen, F[a]}
    <2>1. CASE u = t
      BY <1>1, <1>5, <2>1
    <2>2. CASE u # t
      <3>1. task'[u] = task[u]
        BY <1>1, <2>2
      <3> QED BY <1>5, <3>1 DEF Plan
    <2> QED BY <2>1, <2>2
  <1> QED BY <1>3, <1>4, <1>5 DEF Plan

(* While one request goes on, those that rest stay at rest.                *)
LEMMA AloneKept ==
  ASSUME MediaInv, Alone, NEW t \in Task, task[t] # Resting, NEW j,
         task' = [task EXCEPT ![t] = j],
         Working(j) => Working(task[t]) /\ j.op = task[t].op
  PROVE  Alone'
  <1>1. task'[t] = j /\ \A u \in Task \ {t} : task'[u] = task[u]
    BY MediaTypes
  <1> SUFFICES ASSUME NEW u \in Task, Working(task'[u]), task'[u].op # "patch",
                      NEW x \in Task \ {u}
               PROVE  task'[x] = Resting
    BY DEF Alone
  <1>2. CASE u = t
    BY <1>1, <1>2 DEF Alone
  <1>3. CASE u # t
    <2>1. task[t] = Resting
      BY <1>1, <1>3 DEF Alone
    <2> QED BY <2>1
  <1> QED BY <1>2, <1>3

(* Storing or deleting a file leaves the rows.                             *)
LEMMA FileOrders ==
  ASSUME MediaInv, OrderInv, NEW t \in Task, SaveFile(t) \/ DeleteFile(t), informed'
  PROVE  OrderInv'
  <1> DEFINE j == [task[t] EXCEPT !.at = "filed"]
  <1>1. /\ task' = [task EXCEPT ![t] = j] /\ UNCHANGED <<rows, shown, informed>>
        /\ task[t].at \in {"sent", "read"} /\ task[t].op \in {"upload", "delete"}
    BY DEF SaveFile, DeleteFile, Become
  <1>2. task[t] \in Operation /\ Working(task[t])
    BY <1>1, MediaTypes, JobPhases DEF Working
  <1>3. /\ j.at = "filed" /\ j.op = task[t].op /\ j.asset = task[t].asset /\ j.to = task[t].to
    BY <1>2 DEF Operation
  <1> HIDE DEF j
  <1>4. PICK F : Plan(F)
    BY <1>1 DEF OrderInv
  <1>5. Plan(F)'
    BY <1>1, <1>2, <1>3, <1>4, PlanKept DEF Moves
  <1>6. Alone'
    BY <1>1, <1>2, <1>3, AloneKept, RestingPhase DEF OrderInv
  <1>7. Listed'
    BY <1>1, <1>3, MediaTypes DEF OrderInv, Listed
  <1> QED BY <1>5, <1>6, <1>7 DEF OrderInv

(* A handler that reads its row still writes the place it was asked to. *)
LEMMA ReadOrders ==
  ASSUME MediaInv, OrderInv, NEW t \in Task, ReadRow(t), informed'
  PROVE  OrderInv'
  <1> DEFINE seen == IF task[t].to = {} THEN 0 ELSE rows[task[t].asset]
             j == [task[t] EXCEPT !.at = "read", !.seen = seen]
  <1>1. /\ task' = [task EXCEPT ![t] = j] /\ UNCHANGED <<rows, shown, informed>>
        /\ task[t].at = "sent"
    BY DEF ReadRow, server
  <1>2. task[t] \in Operation /\ Working(task[t])
    BY <1>1, MediaTypes, JobPhases DEF Working
  <1> HIDE DEF seen
  <1>3. /\ j.at = "read" /\ j.op = task[t].op /\ j.asset = task[t].asset /\ j.to = task[t].to
        /\ j.seen = seen
    BY <1>2 DEF Operation
  <1> HIDE DEF j
  <1>4. PICK F : Plan(F)
    BY <1>1 DEF OrderInv
  <1>5. Plan(F)'
    <2>1. \A a \in DOMAIN rows : Moves(j, a) => rows[a] = j.seen
      BY <1>3 DEF Moves, seen
    <2>2. Working(j)
      BY <1>3 DEF Working
    <2> QED BY <1>1, <1>2, <1>3, <1>4, <2>1, <2>2, PlanKept
  <1>6. Alone'
    BY <1>1, <1>2, <1>3, AloneKept, RestingPhase DEF OrderInv
  <1>7. Listed'
    BY <1>1, <1>3, MediaTypes DEF OrderInv, Listed
  <1> QED BY <1>5, <1>6, <1>7 DEF OrderInv

(* The half of a move that ends leaves its image in the planned place.     *)
LEMMA WriteOrders ==
  ASSUME MediaInv, OrderInv, NEW t \in Task, WriteRow(t), informed'
  PROVE  OrderInv'
  <1> DEFINE j == [at |-> "asking", opening |-> FALSE]
  <1>1. /\ task' = [task EXCEPT ![t] = j] /\ UNCHANGED <<shown, informed>>
        /\ task[t].at = "read" /\ task[t].op = "patch"
    BY DEF WriteRow, Commit
  <1>2. j.at = "asking" /\ ~ Working(j)
    BY DEF Working
  <1> HIDE DEF j
  <1>3. PICK F : Plan(F)
    BY <1>1 DEF OrderInv
  <1>4. Working(task[t]) /\ task[t] \in Operation
    BY <1>1, MediaTypes, JobPhases DEF Working
  <1>5. PICK a : a = task[t].asset
    OBVIOUS
  <1>6. a \in DOMAIN F /\ task[t].to \subseteq {F[a]}
    BY <1>1, <1>3, <1>4, <1>5 DEF Plan
  <1>7. /\ DOMAIN rows' = DOMAIN rows
        /\ \A b \in DOMAIN rows : rows'[b] = rows[b] \/ (b = a /\ rows'[b] = F[b])
        /\ a \in DOMAIN rows /\ task[t].to # {} => rows'[a] = F[a]
    <2>1. CASE task[t].to \subseteq {task[t].seen} /\ UNCHANGED rows
      <3>1. a \in DOMAIN rows /\ task[t].to # {} => rows[a] \in {task[t].seen, F[a]}
        BY <1>1, <1>3, <1>4, <1>5 DEF Plan, Moves
      <3>2. task[t].to # {} => task[t].seen = F[a]
        BY <1>6, <2>1
      <3> QED BY <2>1, <3>1, <3>2
    <2>2. CASE /\ a \in DOMAIN rows
               /\ \E n \in task[t].to \ {task[t].seen} : rows' = [rows EXCEPT ![a] = n]
      <3>1. rows' = [rows EXCEPT ![a] = F[a]]
        BY <1>6, <2>2
      <3> QED BY <2>2, <3>1
    <2> QED BY <1>5, <2>1, <2>2 DEF WriteRow
  <1>8. Plan(F)'
    <2>1. \A b \in DOMAIN rows' : Moves(task[t], b) => rows'[b] = F[b]
      BY <1>5, <1>7 DEF Moves
    <2>2. \A b \in DOMAIN rows' : ~ Moves(j, b)
      BY <1>2 DEF Moves
    <2>3. \A b \in DOMAIN rows' : \/ b \in DOMAIN rows /\ rows'[b] = rows[b]
                                  \/ b \in DOMAIN F /\ rows'[b] = F[b]
      BY <1>6, <1>7
    <2> QED BY <1>1, <1>2, <1>3, <2>1, <2>2, <2>3, PlanKept
  <1>9. Alone'
    BY <1>1, <1>2, AloneKept, RestingPhase DEF OrderInv
  <1>10. Listed'
    BY <1>1, <1>2, <1>7, MediaTypes DEF OrderInv, Listed
  <1> QED BY <1>8, <1>9, <1>10 DEF OrderInv

(* A row that comes or goes: no list is on its way, and the page asks.     *)
LEMMA RowOrders ==
  ASSUME MediaInv, OrderInv, NEW t \in Task, InsertRow(t) \/ DeleteRow(t), informed'
  PROVE  OrderInv'
  <1> DEFINE j == [at |-> "asking", opening |-> FALSE]
  <1>1. /\ task' = [task EXCEPT ![t] = j] /\ UNCHANGED <<shown, informed>>
        /\ task[t].at = "filed" /\ task[t].op \in {"upload", "delete"}
    BY DEF InsertRow, DeleteRow, Commit
  <1>2. j.at = "asking" /\ ~ Working(j)
    BY DEF Working
  <1> HIDE DEF j
  <1>3. PICK F : Plan(F)
    BY <1>1 DEF OrderInv
  <1>4. Working(task[t])
    BY <1>1 DEF Working
  <1>5. \A b \in DOMAIN rows' : \/ b \in DOMAIN rows /\ rows'[b] = rows[b]
                                \/ b \in DOMAIN F /\ rows'[b] = F[b]
    <2>1. CASE InsertRow(t)
      <3>1. PICK n \in task[t].to :
              rows' = [b \in DOMAIN rows \cup {task[t].asset} |->
                         IF b = task[t].asset THEN n ELSE rows[b]]
        BY <2>1 DEF InsertRow
      <3>2. task[t].asset \in DOMAIN F /\ n = F[task[t].asset]
        <4>1. task[t].op = "upload"
          BY <2>1 DEF InsertRow
        <4> QED BY <1>3, <1>4, <4>1 DEF Plan
      <3> QED BY <3>1, <3>2
    <2>2. CASE DeleteRow(t)
      BY <2>2 DEF DeleteRow
    <2> QED BY <2>1, <2>2
  <1>6. Plan(F)'
    BY <1>1, <1>2, <1>3, <1>5, PlanKept DEF Moves
  <1>7. Alone'
    BY <1>1, <1>2, AloneKept, RestingPhase DEF OrderInv
  <1>8. \A u \in Task \ {t} : task'[u] = Resting
    BY <1>1, <1>4, MediaTypes DEF OrderInv, Alone
  <1>9. Listed'
    BY <1>1, <1>2, <1>8, MediaTypes, RestingPhase DEF Listed
  <1> QED BY <1>6, <1>7, <1>9 DEF OrderInv

(* The page asks for the list and shows it.                                *)
LEMMA ListOrders ==
  ASSUME MediaInv, OrderInv, NEW t \in Task, Open(t) \/ ReadList(t) \/ Show(t), informed'
  PROVE  OrderInv'
  <1>1. informed /\ UNCHANGED rows
    BY DEF Open, ReadList, Show, server
  <1>2. PICK F : Plan(F)
    BY <1>1 DEF OrderInv
  <1>3. CASE Open(t)
    <2> DEFINE j == [at |-> "asking", opening |-> TRUE]
    <2>1. task' = [task EXCEPT ![t] = j] /\ \A u \in Task : task[u] = Resting
      BY <1>3 DEF Open, Quiet
    <2>2. j.at = "asking" /\ ~ Working(j) /\ ~ Working(Resting)
      BY RestingPhase DEF Working
    <2> HIDE DEF j
    <2>3. task'[t] = j /\ \A u \in Task \ {t} : task'[u] = Resting
      BY <2>1, MediaTypes
    <2>4. Plan(F)'
      BY <1>1, <1>2, <2>1, <2>2, PlanKept DEF Moves
    <2>5. \A u \in Task : ~ Working(task'[u]) /\ task'[u].at # "answered"
      BY <2>2, <2>3, RestingPhase
    <2>6. Alone' /\ Listed'
      BY <2>2, <2>3, <2>5 DEF Alone, Listed
    <2> QED BY <2>4, <2>6 DEF OrderInv
  <1>4. CASE ReadList(t)
    <2> DEFINE j == [at |-> "answered", opening |-> task[t].opening, list |-> rows]
    <2>1. task' = [task EXCEPT ![t] = j] /\ task[t].at = "asking" /\ UNCHANGED shown
      BY <1>4 DEF ReadList
    <2>2. j.at = "answered" /\ j.list = rows /\ ~ Working(j) /\ ~ Working(task[t])
      BY <2>1 DEF Working
    <2> HIDE DEF j
    <2>3. Plan(F)'
      BY <1>1, <1>2, <2>1, <2>2, PlanKept DEF Moves
    <2>4. Alone'
      BY <1>1, <2>1, <2>2, AloneKept, RestingPhase DEF OrderInv
    <2>5. Listed'
      BY <1>1, <2>1, <2>2, MediaTypes DEF OrderInv, Listed
    <2> QED BY <2>3, <2>4, <2>5 DEF OrderInv
  <1>5. CASE Show(t)
    <2>1. /\ task' = [task EXCEPT ![t] = Resting] /\ task[t].at = "answered"
          /\ shown' = task[t].list
      BY <1>5 DEF Show
    <2>2. Resting.at = "resting" /\ ~ Working(Resting) /\ ~ Working(task[t])
      BY <2>1, RestingPhase DEF Working
    <2>3. Plan(F)'
      BY <1>1, <1>2, <2>1, <2>2, PlanKept DEF Moves
    <2>4. Alone'
      BY <1>1, <2>1, <2>2, AloneKept DEF OrderInv
    <2>5. Listed'
      BY <1>1, <2>1, <2>2, MediaTypes DEF OrderInv, Listed
    <2> QED BY <2>3, <2>4, <2>5 DEF OrderInv
  <1> QED BY <1>3, <1>4, <1>5

(* Every step leaves an order that the pending requests will reach. *)
LEMMA OrderInvNext ==
  MediaInv /\ OrderInv /\ [MediaNext]_mediaVars => OrderInv'
  <1> SUFFICES ASSUME MediaInv, OrderInv, [MediaNext]_mediaVars, informed'
               PROVE  OrderInv'
    BY DEF OrderInv
  <1>1. CASE UNCHANGED mediaVars
    <2>1. UNCHANGED <<rows, shown, task, informed>>
      BY <1>1 DEF mediaVars
    <2>2. PICK F : Plan(F)
      BY <2>1 DEF OrderInv
    <2>3. Plan(F)'
      BY <2>1, <2>2 DEF Plan
    <2>4. Alone' /\ Listed'
      BY <2>1 DEF OrderInv, Alone, Listed
    <2> QED BY <2>3, <2>4 DEF OrderInv
  <1>2. CASE MediaNext
    <2>1. \A t \in Task : ~ Fail(t)
      BY DEF Fail
    <2> QED BY <1>2, <2>1, UploadOrders, EditOrders, MoveOrders, FileOrders, RowOrders,
               ReadOrders, WriteOrders, ListOrders DEF MediaNext
  <1> QED BY <1>1, <1>2

(* If staff act when everything has ended and on what is stored, no two    *)
(* images come to share a place and the page shows the images there are    *)
(* (move and refresh of the images page, upload, update and delete of      *)
(* files.py): for any images, and any number of requests.                  *)
THEOREM OrderStays == MediaSpec => []OrderPersists
  <1>1. MediaInit => MediaInv /\ OrderInv
    BY MediaInvInit, OrderInvInit
  <1>2. MediaInv /\ OrderInv /\ [MediaNext]_mediaVars => (MediaInv /\ OrderInv)'
    BY MediaInvNext, OrderInvNext
  <1> QED BY <1>1, <1>2, OrderHolds, PTL DEF MediaSpec

-----------------------------------------------------------------------------
(* Money: rounding gives the nearest unit, so that a share of a total is   *)
(* none greater than it, and a price above the cost stays there.           *)

(* Amounts and quantities are numbers. *)
LEMMA AmountsAreNat ==
  /\ \A n \in Amount : n \in Nat
  /\ \A n \in Quantity : n \in Nat
  BY PricingAssumption

(* What a whole quotient is. *)
LEMMA Division ==
  ASSUME NEW a \in Nat, NEW b \in Nat \ {0}
  PROVE  /\ a \div b \in Nat
         /\ b * (a \div b) <= a
         /\ a < b * (a \div b) + b
  OBVIOUS

(* The rounded quotient is a unit nearest to the fraction. *)
LEMMA RoundedNearest ==
  ASSUME NEW n \in Nat, NEW d \in Nat \ {0}
  PROVE  Rounded(n, d) \in Nat /\ Nearest(Rounded(n, d), n, d)
  <1> DEFINE a == 2 * n + d
             b == 2 * d
             q == a \div b
  <1>1. a \in Nat /\ b \in Nat \ {0}
    OBVIOUS
  <1>2. q \in Nat /\ b * q <= a /\ a < b * q + b
    BY <1>1, Division
  <1>3. b * q = 2 * (d * q) /\ d * q \in Nat
    BY <1>2
  <1>4. Rounded(n, d) = q
    BY DEF Rounded
  <1> HIDE DEF q
  <1> QED BY <1>2, <1>3, <1>4 DEF Nearest

(* What is at least m units is not rounded to fewer. *)
LEMMA RoundedKeepsFloor ==
  ASSUME NEW n \in Nat, NEW d \in Nat \ {0}, NEW m \in Nat, d * m <= n
  PROVE  m <= Rounded(n, d)
  <1> DEFINE r == Rounded(n, d)
  <1>1. r \in Nat /\ 2 * (n - d * r) <= d
    BY RoundedNearest DEF Nearest
  <1> HIDE DEF r
  <1>2. SUFFICES ASSUME r + 1 <= m
                 PROVE  FALSE
    BY <1>1 DEF r
  <1>3. d * (r + 1) = d * r + d /\ d * r \in Nat /\ d * m \in Nat
    BY <1>1
  <1>4. d * (r + 1) <= d * m
    <2>1. PICK k \in Nat : m = r + 1 + k
      <3>1. m - (r + 1) \in Nat /\ m = r + 1 + (m - (r + 1))
        BY <1>1, <1>2
      <3> QED BY <3>1
    <2>2. d * m = d * (r + 1) + d * k /\ d * k \in Nat
      BY <1>1, <2>1
    <2> QED BY <1>1, <1>3, <2>2
  <1> QED BY <1>1, <1>3, <1>4

(* What is at most m units is not rounded to more. *)
LEMMA RoundedKeepsCeiling ==
  ASSUME NEW n \in Nat, NEW d \in Nat \ {0}, NEW m \in Nat, n <= d * m
  PROVE  Rounded(n, d) <= m
  <1> DEFINE r == Rounded(n, d)
  <1>1. r \in Nat /\ 2 * (d * r - n) <= d
    BY RoundedNearest DEF Nearest
  <1> HIDE DEF r
  <1>2. SUFFICES ASSUME m + 1 <= r
                 PROVE  FALSE
    BY <1>1 DEF r
  <1>3. PICK k \in Nat : r = m + 1 + k
    <2>1. r - (m + 1) \in Nat /\ r = m + 1 + (r - (m + 1))
      BY <1>1, <1>2
    <2> QED BY <2>1
  <1>4. d * r = d * m + d + d * k /\ d * k \in Nat /\ d * m \in Nat
    BY <1>3
  <1> QED BY <1>1, <1>4

(* Rounding to even gives a number. *)
LEMMA RoundedEvenIsNat ==
  ASSUME NEW n \in Nat, NEW d \in Nat \ {0}
  PROVE  RoundedEven(n, d) \in Nat
  BY Division DEF RoundedEven

-----------------------------------------------------------------------------
(* Shares and totals. *)

(* The deposit is none greater than the total it is a share of. *)
LEMMA ShareOfTotal ==
  ASSUME NEW n \in Nat, NEW percent \in 0 .. 100
  PROVE  /\ Percentage(n, percent) \in 0 .. n
         /\ Nearest(Percentage(n, percent), percent * n, 100)
  <1>1. n * percent \in Nat /\ n * percent = percent * n /\ n * percent <= 100 * n
    <2>1. PICK k \in Nat : percent + k = 100
      <3>1. 100 - percent \in Nat /\ percent + (100 - percent) = 100
        OBVIOUS
      <3> QED BY <3>1
    <2>2. n * percent + n * k = n * 100 /\ n * k \in Nat /\ n * percent \in Nat
      <3>1. n * (percent + k) = n * percent + n * k
        BY <2>1
      <3> QED BY <2>1, <3>1
    <2> QED BY <2>2
  <1>2. Rounded(n * percent, 100) <= n
    BY <1>1, RoundedKeepsCeiling
  <1>3. /\ Rounded(n * percent, 100) \in Nat
        /\ Nearest(Rounded(n * percent, 100), n * percent, 100)
    BY <1>1, RoundedNearest
  <1> QED BY <1>1, <1>2, <1>3 DEF Percentage

(* Totals that are accepted: the deposit leaves a balance that is an       *)
(* amount, which is what later payments on the order rely on.              *)
LEMMA AcceptedTotals ==
  ASSUME NEW subtotal \in 0 .. MaxAmount, NEW discount \in Amount, NEW delivery \in Amount,
         NEW percent \in 0 .. 100,
         TotalsAccepted(subtotal, discount, delivery, percent)
  PROVE  LET totals == TotalsOf(subtotal, discount, delivery, percent)
         IN  /\ totals.total \in 0 .. MaxAmount
             /\ subtotal + delivery = totals.total + discount
             /\ totals.deposit \in 0 .. totals.total
             /\ totals.deposit + totals.balance = totals.total
             /\ Valid(totals.balance)
             /\ Nearest(totals.deposit, percent * totals.total, 100)
             /\ percent > 0 => totals.deposit > 0
  <1> DEFINE total == subtotal - discount + delivery
             deposit == Percentage(total, percent)
  <1>1. /\ subtotal \in 0 .. MaxAmount /\ total \in 0 .. MaxAmount
        /\ percent # 0 => deposit # 0
    BY DEF TotalsAccepted, TotalsOf, Valid
  <1>2. MaxAmount \in Nat /\ discount \in Nat /\ delivery \in Nat
    BY PricingAssumption
  <1>3. /\ deposit \in 0 .. total
        /\ Nearest(deposit, percent * total, 100)
    <2>1. total \in Nat
      BY <1>1, <1>2
    <2> HIDE DEF total
    <2> QED BY <2>1, ShareOfTotal
  <1>4. /\ TotalsOf(subtotal, discount, delivery, percent).total = total
        /\ TotalsOf(subtotal, discount, delivery, percent).deposit = deposit
        /\ TotalsOf(subtotal, discount, delivery, percent).balance = total - deposit
    BY DEF TotalsOf
  <1>5. subtotal + delivery = total + discount
    BY <1>1, <1>2
  <1> HIDE DEF deposit
  <1>6. deposit + (total - deposit) = total /\ total - deposit \in 0 .. MaxAmount
    BY <1>1, <1>2, <1>3
  <1>7. percent > 0 => deposit > 0
    BY <1>1, <1>3
  <1> QED BY <1>1, <1>3, <1>4, <1>5, <1>6, <1>7 DEF Valid

-----------------------------------------------------------------------------
(* Prices over costs. *)

(* A derived selling price covers the cost and is as near as rounding allows. *)
LEMMA PriceOverCost ==
  ASSUME NEW policy \in Policy, NEW real \in 0 .. MaxAmount
  PROVE  /\ policy.method # "manual" => SellingPrice(policy, real) >= real
         /\ policy.method = "target_margin" =>
              Nearest(SellingPrice(policy, real), 100 * real, 100 - policy.of)
         /\ policy.method = "markup" =>
              Nearest(SellingPrice(policy, real), (100 + policy.of) * real, 100)
         /\ SellingPrice(policy, real) \in Nat
  <1>0. real \in Nat
    BY PricingAssumption
  <1>1. CASE policy.method = "target_margin"
    <2>1. policy.of \in 0 .. 99
      BY <1>1 DEF Policy
    <2>2. PICK d \in Nat \ {0} : d = 100 - policy.of /\ d <= 100
      <3>1. 100 - policy.of \in Nat \ {0} /\ 100 - policy.of <= 100
        BY <2>1
      <3> QED BY <3>1
    <2>3. SellingPrice(policy, real) = Rounded(100 * real, d)
      BY <1>1, <2>2 DEF SellingPrice
    <2>4. 100 * real \in Nat /\ d * real <= 100 * real
      <3>1. PICK k \in Nat : d + k = 100
        <4>1. 100 - d \in Nat /\ d + (100 - d) = 100
          BY <2>2
        <4> QED BY <4>1
      <3>2. (d + k) * real = d * real + k * real /\ d * real \in Nat /\ k * real \in Nat
        BY <1>0
      <3> QED BY <1>0, <3>1, <3>2
    <2>5. real <= Rounded(100 * real, d)
      BY <1>0, <2>4, RoundedKeepsFloor
    <2>6. /\ Rounded(100 * real, d) \in Nat
          /\ Nearest(Rounded(100 * real, d), 100 * real, d)
      BY <2>4, RoundedNearest
    <2> QED BY <1>0, <1>1, <2>2, <2>3, <2>5, <2>6
  <1>2. CASE policy.method = "markup"
    <2>1. policy.of \in Nat
      BY <1>2 DEF Policy
    <2>2. SellingPrice(policy, real) = Rounded(real * (100 + policy.of), 100)
      BY <1>2 DEF SellingPrice
    <2>3. /\ real * (100 + policy.of) = (100 + policy.of) * real
          /\ (100 + policy.of) * real \in Nat
          /\ 100 * real <= (100 + policy.of) * real
      <3>1. (100 + policy.of) * real = 100 * real + policy.of * real
            /\ policy.of * real \in Nat
        BY <1>0, <2>1
      <3> QED BY <1>0, <2>1, <3>1
    <2>4. real <= Rounded((100 + policy.of) * real, 100)
      BY <1>0, <2>3, RoundedKeepsFloor
    <2>5. /\ Rounded((100 + policy.of) * real, 100) \in Nat
          /\ Nearest(Rounded((100 + policy.of) * real, 100), (100 + policy.of) * real, 100)
      BY <2>3, RoundedNearest
    <2> QED BY <1>0, <1>2, <2>2, <2>3, <2>4, <2>5
  <1>3. CASE policy.method = "manual"
    <2>1. policy.of \in Amount
      BY <1>3 DEF Policy
    <2>2. policy.of \in Nat
      BY <2>1, AmountsAreNat
    <2> QED BY <1>3, <2>2 DEF SellingPrice
  <1> QED BY <1>1, <1>2, <1>3 DEF Policy

(* The margin of a price that covers its cost is no loss. *)
LEMMA MarginIsNat ==
  ASSUME NEW real \in Nat, NEW selling \in Nat, selling >= real
  PROVE  GrossMargin(selling, real) \in Nat
  <1>1. CASE selling = 0
    BY <1>1 DEF GrossMargin
  <1>2. CASE selling # 0
    <2>1. (selling - real) * 10000 \in Nat
      OBVIOUS
    <2>2. RoundedEven((selling - real) * 10000, selling) \in Nat
      BY <1>2, <2>1, RoundedEvenIsNat
    <2> QED BY <1>2, <2>2 DEF GrossMargin
  <1> QED BY <1>1, <1>2

-----------------------------------------------------------------------------
(* Every answer adds up. *)

(* The sheet of a quote adds up. *)
LEMMA QuoteStep ==
  ASSUME NEW n \in 1 .. MaxLines, NEW lines \in [1 .. n -> QuoteLine],
         NEW discount \in Amount, NEW delivery \in Amount,
         NEW percent \in Percent \cap 0 .. 100,
         Quote(lines, discount, delivery, percent)
  PROVE  PricesAddUp'
  <1> DEFINE amounts == LineTotals(lines)
             subtotal == SumOf(amounts)
             totals == TotalsOf(subtotal, discount, delivery, percent)
  <1>1. CASE TotalsAccepted(subtotal, discount, delivery, percent)
    <2>1. sheet' = [kind |-> "quote", lines |-> lines, discount |-> discount,
                    delivery |-> delivery, percent |-> percent,
                    amounts |-> amounts, totals |-> totals]
      BY <1>1 DEF Quote
    <2>2. ASSUME NEW i \in 1 .. Len(lines)
          PROVE  Nearest(amounts[i], lines[i].price * lines[i].quantity, Scale)
      <3>1. n \in Nat /\ Len(lines) = n /\ lines[i] \in QuoteLine
        BY PricingAssumption
      <3>2. lines[i].price * lines[i].quantity \in Nat
        <4>1. lines[i].price \in Amount /\ lines[i].quantity \in Quantity
          BY <3>1 DEF QuoteLine
        <4>2. lines[i].price \in Nat /\ lines[i].quantity \in Nat
          BY <4>1, AmountsAreNat
        <4> QED BY <4>2
      <3>3. amounts[i] = Rounded(lines[i].price * lines[i].quantity, Scale)
        BY DEF LineTotals, LineTotal
      <3> QED BY <3>2, <3>3, RoundedNearest, PricingAssumption
    <2>3. /\ totals.total \in 0 .. MaxAmount
          /\ subtotal + delivery = totals.total + discount
          /\ totals.deposit + totals.balance = totals.total
          /\ Valid(totals.balance)
          /\ Nearest(totals.deposit, percent * totals.total, 100)
          /\ percent > 0 => totals.deposit > 0
      <3>1. percent \in 0 .. 100
        OBVIOUS
      <3>2. /\ TotalsAccepted(subtotal, discount, delivery, percent)
            /\ subtotal \in 0 .. MaxAmount
        BY <1>1 DEF TotalsAccepted, Valid
      <3> HIDE DEF subtotal
      <3> QED BY <3>1, <3>2, AcceptedTotals
    <2> HIDE DEF totals, amounts
    <2>4. QuoteAddsUp'
      BY <2>1, <2>2, <2>3 DEF QuoteAddsUp, Valid
    <2>5. PriceCoversCost'
      BY <2>1 DEF PriceCoversCost
    <2> QED BY <2>4, <2>5 DEF PricesAddUp
  <1>2. CASE ~TotalsAccepted(subtotal, discount, delivery, percent)
    <2>1. sheet' = [kind |-> "refused"]
      BY <1>2 DEF Quote
    <2> QED BY <2>1 DEF PricesAddUp, QuoteAddsUp, PriceCoversCost
  <1> QED BY <1>1, <1>2

(* The sheet of an estimate adds up. *)
LEMMA EstimateStep ==
  ASSUME NEW line, NEW labor, NEW expense, NEW policy \in Policy,
         Estimate(line, labor, expense, policy)
  PROVE  PricesAddUp'
  <1> DEFINE production == MaterialAmount(line) + LaborAmount(labor)
             real == production + ExpenseAmount(expense, production)
             selling == SellingPrice(policy, real)
  <1>1. CASE Valid(real) /\ Valid(selling)
    <2>1. sheet' = [kind |-> "estimate", policy |-> policy, real |-> real,
                    selling |-> selling, margin |-> GrossMargin(selling, real)]
      BY <1>1 DEF Estimate
    <2>2. real \in 0 .. MaxAmount /\ selling \in Nat /\ real \in Nat
      BY <1>1, PricingAssumption DEF Valid
    <2> HIDE DEF real
    <2>3. /\ policy.method # "manual" => selling >= real
          /\ policy.method = "target_margin" =>
               Nearest(selling, 100 * real, 100 - policy.of)
          /\ policy.method = "markup" =>
               Nearest(selling, (100 + policy.of) * real, 100)
      BY <2>2, PriceOverCost
    <2> HIDE DEF selling
    <2>4. policy.method # "manual" => GrossMargin(selling, real) >= 0
      BY <2>2, <2>3, MarginIsNat
    <2>5. PriceCoversCost'
      BY <2>1, <2>3, <2>4 DEF PriceCoversCost
    <2>6. QuoteAddsUp'
      BY <2>1 DEF QuoteAddsUp
    <2> QED BY <2>5, <2>6 DEF PricesAddUp
  <1>2. CASE ~(Valid(real) /\ Valid(selling))
    <2>1. sheet' = [kind |-> "refused"]
      BY <1>2 DEF Estimate
    <2> QED BY <2>1 DEF PricesAddUp, QuoteAddsUp, PriceCoversCost
  <1> QED BY <1>1, <1>2

(* The totals of a quote add up and the price of an estimate covers its    *)
(* cost (compute_totals, compute_cost): for every ceiling, amounts,        *)
(* quantities and percentages, and for any number of lines.                *)
THEOREM PricesAdd == PricingSpec => []PricesAddUp
  <1>1. PricingInit => PricesAddUp
    BY DEF PricingInit, Blank, PricesAddUp, QuoteAddsUp, PriceCoversCost
  <1>2. PricesAddUp /\ [PricingNext]_sheet => PricesAddUp'
    <2> SUFFICES ASSUME PricesAddUp, [PricingNext]_sheet
                 PROVE  PricesAddUp'
      OBVIOUS
    <2>1. CASE sheet' = Blank
      BY <2>1 DEF Blank, PricesAddUp, QuoteAddsUp, PriceCoversCost
    <2>2. ASSUME NEW n \in 1 .. MaxLines, NEW lines \in [1 .. n -> QuoteLine],
                 NEW discount \in Amount, NEW delivery \in Amount,
                 NEW percent \in Percent \cap 0 .. 100,
                 Quote(lines, discount, delivery, percent)
          PROVE  PricesAddUp'
      BY <2>2, QuoteStep
    <2>3. ASSUME NEW line \in MaterialLine, NEW labor \in LaborLine,
                 NEW expense \in ExpenseLine, NEW policy \in Policy,
                 Estimate(line, labor, expense, policy)
          PROVE  PricesAddUp'
      BY <2>3, EstimateStep
    <2>4. CASE UNCHANGED sheet
      BY <2>4 DEF PricesAddUp, QuoteAddsUp, PriceCoversCost
    <2> QED BY <2>1, <2>2, <2>3, <2>4 DEF PricingNext
  <1> QED BY <1>1, <1>2, PTL DEF PricingSpec
=============================================================================
