--------------------------- MODULE RequestsProofs ---------------------------
(***************************************************************************)
(* The references of custom requests, for any number of handlers at once,  *)
(* any number of attempts and any width of the padding: they are given out *)
(* without a gap, and there are never more of them than the padding has    *)
(* room for.  And the customers they are filed under: an email belongs to  *)
(* one of them, and nobody's request is filed under a stranger.            *)
(***************************************************************************)
EXTENDS Requests, FiniteSetTheorems, TLAPS

-----------------------------------------------------------------------------
(* Numbers as text. *)

(* The first k numbers have a last one as text: the greatest one, or the    *)
(* greatest that fits the padding if there is one that does not.            *)
LEMMA TextMaximum ==
  ASSUME NEW k \in 1..Limit
  PROVE  \E m \in 1..k : \A n \in (1..k) \ {m} : TextBefore(n, m)
  <1>1. CASE k < Limit
    <2>1. \A n \in (1..k) \ {k} : TextBefore(n, k)
      BY <1>1, LimitAssumption, SMT DEF TextBefore
    <2> QED BY <2>1, LimitAssumption
  <1>2. CASE k = Limit
    <2>1. Limit - 1 \in 1..k
      BY <1>2, LimitAssumption
    <2>2. \A n \in (1..k) \ {Limit - 1} : TextBefore(n, Limit - 1)
      BY <1>2, LimitAssumption, SMT DEF TextBefore
    <2> QED BY <2>1, <2>2
  <1> QED BY <1>1, <1>2, LimitAssumption

(* A number too wide for the padding is never that last one. *)
LEMMA WideIsNotLast ==
  ~TextBefore(Limit - 1, Limit)
  BY LimitAssumption, SMT DEF TextBefore

(* After the first k numbers comes the next one, or one of them again, and  *)
(* never one beyond the first too wide one.                                 *)
LEMMA NextNumberBounds ==
  ASSUME NEW k \in 0..Limit
  PROVE  /\ NextNumber(1..k) \in 1..Limit
         /\ NextNumber(1..k) <= k + 1
  <1>1. CASE k = 0
    <2>1. 1..k = {}
      BY <1>1
    <2> QED BY <1>1, <2>1, LimitAssumption DEF NextNumber
  <1>2. CASE k # 0
    <2>1. k \in 1..Limit
      BY <1>2, LimitAssumption
    <2> DEFINE Last == CHOOSE m \in 1..k : \A n \in (1..k) \ {m} : TextBefore(n, m)
    <2>2. Last \in 1..k /\ \A n \in (1..k) \ {Last} : TextBefore(n, Last)
      BY <2>1, TextMaximum
    <2>4. 1..k # {}
      BY <2>1, LimitAssumption
    <2>5. NextNumber(1..k) = 1 + Last
      BY <2>4 DEF NextNumber
    <2> HIDE DEF Last
    <2>3. Last # Limit
      <3>1. SUFFICES ASSUME Last = Limit PROVE FALSE
        OBVIOUS
      <3>2. k = Limit /\ Limit - 1 \in (1..k) \ {Last}
        BY <2>2, <3>1, <2>1, LimitAssumption
      <3> QED BY <2>2, <3>1, <3>2, WideIsNotLast
    <2> QED BY <2>1, <2>2, <2>3, <2>5, LimitAssumption
  <1> QED BY <1>1, <1>2

(* As long as the numbers fit the padding it is the next one. *)
LEMMA NextNumberFits ==
  ASSUME NEW k \in 0..(Limit - 1)
  PROVE  NextNumber(1..k) = k + 1
  <1>1. CASE k = 0
    <2>1. 1..k = {}
      BY <1>1
    <2> QED BY <1>1, <2>1 DEF NextNumber
  <1>2. CASE k # 0
    <2>1. k \in 1..Limit /\ 1..k # {}
      <3>1. k \in Nat /\ k >= 1 /\ k <= Limit
        BY <1>2, LimitAssumption
      <3>2. k \in 1..k
        BY <3>1
      <3> QED BY <3>1, <3>2, LimitAssumption
    <2> DEFINE Last == CHOOSE m \in 1..k : \A n \in (1..k) \ {m} : TextBefore(n, m)
    <2>2. Last \in 1..k /\ \A n \in (1..k) \ {Last} : TextBefore(n, Last)
      BY <2>1, TextMaximum
    <2>3. NextNumber(1..k) = 1 + Last
      BY <2>1 DEF NextNumber
    <2> HIDE DEF Last
    <2>4. Last = k
      <3>1. SUFFICES ASSUME Last # k PROVE FALSE
        OBVIOUS
      <3>2. TextBefore(k, Last)
        BY <2>1, <2>2, <3>1, LimitAssumption
      <3> QED BY <2>1, <2>2, <3>1, <3>2, LimitAssumption, SMT DEF TextBefore
    <2> QED BY <2>3, <2>4, LimitAssumption
  <1> QED BY <1>1, <1>2

-----------------------------------------------------------------------------
(* The invariant.  What a handler has read stays true of the numbers, since  *)
(* none is ever given back: a number it may insert has no gap below.         *)

SubmitAt == {"by email", "by phone", "adding", "numbering", "inserting", "filed"}

SubmissionJob ==
  [at : SubmitAt, given : Contact, customer : Customer \cup {Nothing}, new : BOOLEAN,
   number : Nat, tries : Nat, seen : Nat]

Job(j) ==
  /\ j.at \in SubmitAt => j \in SubmissionJob
  /\ j.at \in {"numbering", "inserting", "filed"} /\ ~j.new => j.customer \in Customer
  /\ j.at \in {"inserting", "filed"} =>
       /\ j.number \in 1..Limit
       /\ \A n \in 1..(j.number - 1) : n \in Filed
  /\ j.at = "filed" => j.number \in Number
  /\ j.at = "deciding" => j.request \in Filed /\ j.target \in Status

RequestRow ==
  [status : Status \cup {"none"}, customer : Customer \cup {Nothing}, given : Contact]

FirstNumbers == \E k \in 0..Limit : Filed = 1..k

Inv ==
  /\ requests \in [Number -> RequestRow]
  /\ tx = [t \in Tx |-> tx[t]] /\ \A t \in Tx : Job(tx[t])
  /\ FirstNumbers

(* A step of handler t that files nothing. *)
LEMMA HandlerStep ==
  ASSUME Inv, NEW t \in Tx, NEW job, tx' = [tx EXCEPT ![t] = job],
         requests' = requests, Job(job)
  PROVE  Inv'
  <1>1. Filed' = Filed
    BY DEF Filed
  <1>2. \A j : Job(j)' <=> Job(j)
    BY <1>1 DEF Job
  <1>3. tx' = [u \in Tx |-> tx'[u]] /\ \A u \in Tx : Job(tx'[u])
    BY DEF Inv
  <1> QED BY <1>1, <1>2, <1>3 DEF Inv, FirstNumbers

(* A step that files number n, or changes the row of a filed one. *)
LEMMA FilingStep ==
  ASSUME Inv, NEW t \in Tx, tx' = [tx EXCEPT ![t] = Idle],
         NEW n \in Number, n \in 1..Limit, \A m \in 1..(n - 1) : m \in Filed,
         NEW row \in RequestRow, row.status # "none",
         requests' = [requests EXCEPT ![n] = row]
  PROVE  Inv'
  <1>1. requests' \in [Number -> RequestRow]
    BY DEF Inv
  <1>2. Filed' = Filed \cup {n}
    BY DEF Filed, Inv
  <1>3. FirstNumbers'
    <2>1. PICK k \in 0..Limit : Filed = 1..k
      BY DEF Inv, FirstNumbers
    <2>2. n <= k + 1
      <3>1. SUFFICES ASSUME n > k + 1 PROVE FALSE
        BY <2>1, LimitAssumption
      <3>2. k + 1 \in 1..(n - 1)
        BY <3>1, <2>1, LimitAssumption
      <3> QED BY <3>2, <2>1, LimitAssumption
    <2>3. CASE n <= k
      BY <1>2, <2>1, <2>3, LimitAssumption DEF FirstNumbers
    <2>4. CASE n = k + 1
      <3>1. k + 1 \in 0..Limit /\ Filed' = 1..(k + 1)
        BY <1>2, <2>1, <2>4, LimitAssumption
      <3> QED BY <3>1 DEF FirstNumbers
    <2> QED BY <2>1, <2>2, <2>3, <2>4, LimitAssumption
  <1>4. \A j : Job(j) => Job(j)'
    BY <1>2 DEF Job
  <1>5. Job(Idle)
    BY DEF Job, Idle, SubmitAt
  <1>6. tx' = [u \in Tx |-> tx'[u]] /\ \A u \in Tx : Job(tx'[u])
    BY <1>5 DEF Inv
  <1> QED BY <1>1, <1>3, <1>4, <1>6 DEF Inv

(* The end of a handler, and what a submission becomes, are sound. *)
LEMMA Ended == Job(Idle) /\ Job(Refused)
  BY DEF Job, Idle, Refused, SubmitAt

(* A submission that goes on to its next step. *)
LEMMA SubmissionSteps ==
  ASSUME Inv, NEW t \in Tx, tx[t].at \in SubmitAt
  PROVE  /\ \A where \in {"by phone", "adding"} : Job([tx[t] EXCEPT !.at = where])
         /\ \A c \in Customer : Job([tx[t] EXCEPT !.at = "numbering", !.customer = c])
         /\ Job([tx[t] EXCEPT !.at = "numbering", !.new = TRUE])
  <1>1. tx[t] \in SubmissionJob
    BY DEF Inv, Job
  <1>2. ASSUME NEW where \in {"by phone", "adding"}
        PROVE  Job([tx[t] EXCEPT !.at = where])
    BY <1>1 DEF Job, SubmissionJob, SubmitAt
  <1>3. ASSUME NEW c \in Customer
        PROVE  Job([tx[t] EXCEPT !.at = "numbering", !.customer = c])
    BY <1>1 DEF Job, SubmissionJob, SubmitAt
  <1>4. Job([tx[t] EXCEPT !.at = "numbering", !.new = TRUE])
    BY <1>1 DEF Job, SubmissionJob, SubmitAt
  <1> QED BY <1>2, <1>3, <1>4

(* The number that is tried next. *)
LEMMA NumberTaken ==
  ASSUME Inv, NEW t \in Tx, TakeNumber(t)
  PROVE  Inv'
  <1>1. PICK k \in 0..Limit : Filed = 1..k
    BY DEF Inv, FirstNumbers
  <1>2. Cardinality(Filed) \in Nat
    BY SMTT(30), <1>1, FS_Interval, LimitAssumption
  <1>3. NextNumber(Filed) \in 1..Limit /\ \A n \in 1..(NextNumber(Filed) - 1) : n \in Filed
    BY <1>1, NextNumberBounds, LimitAssumption
  <1> DEFINE job == [tx[t] EXCEPT !.at = "inserting", !.number = NextNumber(Filed),
                             !.seen = IF tx[t].tries = 0 THEN Cardinality(Filed) ELSE @]
  <1>4. tx[t].at = "numbering" /\ tx[t] \in SubmissionJob
    BY DEF TakeNumber, Inv, Job, SubmitAt
  <1>5. NextNumber(Filed) \in Nat
    BY <1>3, LimitAssumption
  <1>6. job \in SubmissionJob /\ job.at = "inserting" /\ job.number = NextNumber(Filed)
          /\ job.new = tx[t].new /\ job.customer = tx[t].customer
    BY <1>2, <1>4, <1>5 DEF SubmissionJob, SubmitAt
  <1>7. ~tx[t].new => tx[t].customer \in Customer
    BY <1>4 DEF Inv, Job
  <1>8. tx' = [tx EXCEPT ![t] = job] /\ requests' = requests
    BY DEF TakeNumber, Become, TablesUnchanged
  <1> HIDE DEF job
  <1>9. Job(job)
    BY <1>3, <1>6, <1>7 DEF Job
  <1> QED BY <1>8, <1>9, HandlerStep

(* A number is inserted, or collides. *)
LEMMA NumberInserted ==
  ASSUME Inv, NEW t \in Tx, InsertNumber(t)
  PROVE  Inv'
  <1>1. tx[t].at = "inserting" /\ tx[t] \in SubmissionJob /\ Job(tx[t])
    BY DEF InsertNumber, Inv, Job, SubmitAt
  <1>2. tx[t].number \in Number /\ requests' = requests
    BY DEF InsertNumber, TablesUnchanged
  <1>3. Job([tx[t] EXCEPT !.at = "filed"])
    BY <1>1, <1>2 DEF Job, SubmissionJob, SubmitAt
  <1>4. Job([tx[t] EXCEPT !.at = "numbering", !.tries = @ + 1])
    <2> DEFINE job == [tx[t] EXCEPT !.at = "numbering", !.tries = @ + 1]
    <2>1. tx[t].tries + 1 \in Nat
      BY <1>1 DEF SubmissionJob
    <2>2. job \in SubmissionJob /\ job.at = "numbering"
            /\ job.new = tx[t].new /\ job.customer = tx[t].customer
      BY <1>1, <2>1 DEF SubmissionJob, SubmitAt
    <2> HIDE DEF job
    <2>3. Job(job)
      BY <1>1, <2>2 DEF Job
    <2> QED BY <2>3 DEF job
  <1>5. \/ tx' = [tx EXCEPT ![t] = [tx[t] EXCEPT !.at = "filed"]]
        \/ tx' = [tx EXCEPT ![t] = [tx[t] EXCEPT !.at = "numbering", !.tries = @ + 1]]
        \/ tx' = [tx EXCEPT ![t] = Refused]
    BY DEF InsertNumber, Collide, Become
  <1> QED BY <1>2, <1>3, <1>4, <1>5, Ended, HandlerStep

(* A submission is committed. *)
LEMMA SubmitCommitted ==
  ASSUME Inv, NEW t \in Tx, CommitSubmit(t)
  PROVE  Inv'
  <1> DEFINE c == IF tx[t].new THEN FreshCustomer ELSE tx[t].customer
             n == tx[t].number
             row == [status |-> "submitted", customer |-> c, given |-> tx[t].given]
  <1>1. tx[t].at = "filed" /\ Job(tx[t])
    BY DEF CommitSubmit, Inv
  <1>2. n \in Number /\ n \in 1..Limit /\ \A m \in 1..(n - 1) : m \in Filed
    BY <1>1 DEF Job
  <1>3. c \in Customer
    <2>1. CASE tx[t].new
      <3>1. \E x \in Customer \ Known : TRUE
        BY <2>1 DEF CommitSubmit, Known
      <3> QED BY <3>1, <2>1 DEF FreshCustomer
    <2>2. CASE ~tx[t].new
      BY <1>1, <2>2 DEF Job
    <2> QED BY <2>1, <2>2
  <1>4. row \in RequestRow /\ row.status # "none"
    BY <1>1, <1>3 DEF RequestRow, Status, Job, SubmitAt, SubmissionJob
  <1>5. tx' = [tx EXCEPT ![t] = Idle] /\ requests' = [requests EXCEPT ![n] = row]
    BY DEF CommitSubmit, End, Become
  <1> HIDE DEF c, n, row
  <1> QED BY <1>2, <1>4, <1>5, FilingStep

(* The steps of a submission. *)
LEMMA SubmitStep ==
  ASSUME Inv, NEW t \in Tx, Submit(t)
  PROVE  Inv'
  <1>1. ASSUME NEW given \in Contact, StartSubmit(t, given)
        PROVE  Inv'
    <2>1. \E k \in 0..Limit : Filed = 1..k
      BY DEF Inv, FirstNumbers
    <2>2. Job(Submission("by email", given, Nothing, FALSE, 0, 0, 0))
      BY DEF Job, Submission, SubmissionJob, SubmitAt
    <2> QED BY <1>1, <2>2, HandlerStep DEF StartSubmit, Begin, TablesUnchanged
  <1>2. ASSUME NEW found, found \subseteq Customer, \E c \in found : Match(t, c),
               requests' = requests, tx[t].at \in SubmitAt
        PROVE  Inv'
    <2>1. PICK c \in found : Match(t, c)
      BY <1>2
    <2>2. Job([tx[t] EXCEPT !.at = "numbering", !.customer = c])
      BY <1>2, SubmissionSteps
    <2> QED BY <1>2, <2>1, <2>2, Ended, HandlerStep DEF Match, End, Become
  <1>3. CASE LookByEmail(t)
    <2>1. WithEmail(tx[t].given.email) \subseteq Customer
      BY DEF WithEmail, Known
    <2>2. tx[t].at \in SubmitAt /\ requests' = requests
      BY <1>3 DEF LookByEmail, SubmitAt, TablesUnchanged
    <2>3. Job([tx[t] EXCEPT !.at = "by phone"])
      BY <2>2, SubmissionSteps
    <2> QED BY <1>2, <1>3, <2>1, <2>2, <2>3, HandlerStep DEF LookByEmail, Become
  <1>4. CASE LookByPhone(t)
    <2>1. WithPhone(tx[t].given.phone) \subseteq Customer
      BY DEF WithPhone, Known
    <2>2. tx[t].at \in SubmitAt /\ requests' = requests
      BY <1>4 DEF LookByPhone, SubmitAt, TablesUnchanged
    <2>3. Job([tx[t] EXCEPT !.at = "adding"])
      BY <2>2, SubmissionSteps
    <2> QED BY <1>2, <1>4, <2>1, <2>2, <2>3, Ended, HandlerStep DEF LookByPhone, Become, End
  <1>5. CASE AddCustomer(t)
    <2>1. tx[t].at \in SubmitAt /\ requests' = requests
      BY <1>5 DEF AddCustomer, SubmitAt, TablesUnchanged
    <2>2. Job([tx[t] EXCEPT !.at = "numbering", !.new = TRUE])
      BY <2>1, SubmissionSteps
    <2> QED BY <1>5, <2>1, <2>2, Ended, HandlerStep DEF AddCustomer, Become, End
  <1> QED BY <1>1, <1>3, <1>4, <1>5, NumberTaken, NumberInserted, SubmitCommitted DEF Submit

(* The steps of staff. *)
LEMMA StaffStep ==
  ASSUME Inv, NEW t \in Tx, Staff(t)
  PROVE  Inv'
  <1>1. ASSUME NEW given, StartEnter(t, given) PROVE Inv'
    <2>1. Job([at |-> "entering", given |-> given])
      BY DEF Job, SubmitAt
    <2> QED BY <1>1, <2>1, HandlerStep DEF StartEnter, Begin, TablesUnchanged
  <1>2. ASSUME NEW c, NEW given, NEW status, StartEdit(t, c, given, status) PROVE Inv'
    <2>1. Job([at |-> "editing", customer |-> c, given |-> given, status |-> status])
      BY DEF Job, SubmitAt
    <2> QED BY <1>2, <2>1, HandlerStep DEF StartEdit, Begin, TablesUnchanged
  <1>3. CASE FinishEnter(t) \/ FinishEdit(t)
    BY <1>3, Ended, HandlerStep DEF FinishEnter, FinishEdit, End, Become
  <1>4. ASSUME NEW n \in 1..MaxDecided, NEW target \in Target,
               StartDecide(t, n, target)
        PROVE  Inv'
    <2>1. Job([at |-> "deciding", request |-> n, target |-> target])
      BY <1>4, RequestsAssumption DEF Job, SubmitAt, StartDecide
    <2> QED BY <1>4, <2>1, HandlerStep DEF StartDecide, Begin, TablesUnchanged
  <1>5. CASE FinishDecide(t)
    <2> DEFINE n == tx[t].request
               row == [requests[n] EXCEPT !.status = tx[t].target]
    <2>1. n \in Filed /\ tx[t].target \in Status
      BY <1>5 DEF FinishDecide, Inv, Job
    <2>2. n \in Number /\ requests[n] \in RequestRow
      BY <2>1 DEF Filed, Inv
    <2>3. row \in RequestRow /\ row.status = tx[t].target
      BY <2>1, <2>2 DEF RequestRow
    <2>4. PICK k \in 0..Limit : Filed = 1..k
      BY DEF Inv, FirstNumbers
    <2>5. n \in 1..Limit /\ \A m \in 1..(n - 1) : m \in Filed
      BY <2>1, <2>4, LimitAssumption
    <2>6. tx' = [tx EXCEPT ![t] = Idle] /\ requests' = [requests EXCEPT ![n] = row]
      BY <1>5 DEF FinishDecide, End, Become
    <2>7. tx[t].target # "none"
      BY <2>1 DEF Status
    <2> HIDE DEF n, row
    <2> QED BY <2>2, <2>3, <2>5, <2>6, <2>7, FilingStep
  <1> QED BY <1>1, <1>2, <1>3, <1>4, <1>5 DEF Staff

(* In the beginning nothing is filed. *)
LEMMA InvInit == Init => Inv
  <1> SUFFICES ASSUME Init PROVE Inv
    OBVIOUS
  <1>1. requests \in [Number -> RequestRow]
    BY DEF Init, NoRequest, RequestRow, NoContact, Contact
  <1>2. tx = [t \in Tx |-> tx[t]] /\ \A t \in Tx : Job(tx[t])
    BY Ended DEF Init
  <1>3. Filed = 1..0
    BY DEF Init, NoRequest, Filed
  <1>4. FirstNumbers
    BY <1>3, LimitAssumption DEF FirstNumbers
  <1> QED BY <1>1, <1>2, <1>4 DEF Inv

(* Every step keeps the numbers in order. *)
LEMMA InvNext == Inv /\ [Next]_vars => Inv'
  <1> SUFFICES ASSUME Inv, [Next]_vars PROVE Inv'
    OBVIOUS
  <1>1. ASSUME NEW t \in Tx, Abort(t) PROVE Inv'
    BY <1>1, Ended, HandlerStep DEF Abort, End, Become, TablesUnchanged
  <1>2. CASE UNCHANGED vars
    <2>1. Filed' = Filed /\ tx' = tx /\ requests' = requests
      BY <1>2 DEF vars, Filed
    <2>2. \A j : Job(j)' <=> Job(j)
      BY <2>1 DEF Job
    <2> QED BY <2>1, <2>2 DEF Inv, FirstNumbers
  <1> QED BY <1>1, <1>2, SubmitStep, StaffStep DEF Next

-----------------------------------------------------------------------------
(* The references given out are the first numbers without a gap, whatever    *)
(* handlers collide, retry, fail or are given up (run_with_unique_retry).    *)
THEOREM ReferencesGapless == Spec => []Gapless
  <1>1. Inv => Gapless
    BY LimitAssumption DEF Inv, FirstNumbers, Gapless
  <1> QED BY <1>1, InvInit, InvNext, PTL DEF Spec

(* No reference is ever wider than the first one that does not fit the       *)
(* padding: after that one, every submission is refused (_next_sequence on   *)
(* the maximum of texts).                                                    *)
THEOREM ReferencesRunOut == Spec => [](Filed \subseteq 1..Limit)
  <1>1. Inv => Filed \subseteq 1..Limit
    BY LimitAssumption DEF Inv, FirstNumbers
  <1> QED BY <1>1, InvInit, InvNext, PTL DEF Spec

-----------------------------------------------------------------------------
(* Each attempt that failed, failed for a number filed since the first one:  *)
(* the number tried next is that much higher.                                *)
Rival(t) ==
  /\ tx[t].at = "numbering" /\ tx[t].tries > 0 => Cardinality(Filed) >= tx[t].seen + tx[t].tries
  /\ tx[t].at = "inserting" => tx[t].number > tx[t].seen + tx[t].tries

(* Before the first attempt there has been none. *)
Fresh(t) == tx[t].at \in {"by email", "by phone", "adding"} => tx[t].tries = 0

RivalInv == \A t \in Tx : Fresh(t) /\ Rival(t)

Counted ==
  /\ Cardinality(Filed) \in Nat
  /\ Filed = 1..Cardinality(Filed)
  /\ Cardinality(Filed) <= MaxNumber

(* The first numbers are as many as the last of them. *)
LEMMA FiledCount == Inv => Counted
  <1> SUFFICES ASSUME Inv PROVE Counted
    OBVIOUS
  <1>1. PICK k \in 0..Limit : Filed = 1..k
    BY DEF Inv, FirstNumbers
  <1>2. Cardinality(Filed) = k
    BY <1>1, FS_Interval, LimitAssumption
  <1>3. Filed \subseteq 1..MaxNumber
    BY DEF Filed, Number
  <1> QED BY <1>1, <1>2, <1>3, LimitAssumption, RequestsAssumption DEF Counted

(* Requests are never taken back. *)
LEMMA CountGrows ==
  ASSUME Inv, [Next]_vars
  PROVE  Cardinality(Filed') >= Cardinality(Filed)
  <1>1. Inv'
    BY InvNext
  <1>2. Filed \subseteq Filed'
    <2>1. ASSUME NEW t \in Tx, CommitSubmit(t) PROVE Filed \subseteq Filed'
      BY <2>1, <1>1 DEF CommitSubmit, Filed, Inv
    <2>2. ASSUME NEW t \in Tx, FinishDecide(t) PROVE Filed \subseteq Filed'
      <3>1. tx[t].target # "none" /\ tx[t].request \in Filed
        BY <2>2 DEF FinishDecide, Inv, Job, Status
      <3> QED BY <2>2, <3>1 DEF FinishDecide, Filed, Inv, RequestRow
    <2>3. CASE UNCHANGED requests
      BY SMTT(30), <2>3 DEF Filed
    <2>4. \/ UNCHANGED requests
          \/ \E t \in Tx : CommitSubmit(t) \/ FinishDecide(t)
      BY ZenonT(40) DEF Next, Submit, Staff, Abort, vars, TablesUnchanged, StartSubmit, LookByEmail,
             LookByPhone, AddCustomer, TakeNumber, InsertNumber, StartEnter, StartEdit,
             StartDecide, FinishEnter, FinishEdit
    <2> QED BY <2>1, <2>2, <2>3, <2>4
  <1>3. Counted /\ Counted'
    BY <1>1, FiledCount, PTL
  <1> DEFINE c == Cardinality(Filed)
             d == Cardinality(Filed')
  <1>4. c \in Nat /\ d \in Nat /\ 1..c \subseteq 1..d
    BY <1>2, <1>3 DEF Counted
  <1> HIDE DEF c, d
  <1>5. d >= c
    BY <1>4
  <1> QED BY <1>5 DEF c, d

(* A step that leaves handler t alone, or starts something else with it. *)
LEMMA RivalKept ==
  ASSUME Inv, [Next]_vars, NEW t \in Tx, Fresh(t), Rival(t),
         \/ tx'[t] = tx[t]
         \/ tx'[t].at \notin SubmitAt
         \/ tx'[t].at # "inserting" /\ tx'[t].tries = 0
  PROVE  Fresh(t)' /\ Rival(t)'
  <1>1. CASE tx'[t] = tx[t]
    <2>1. tx[t].at \in SubmitAt => tx[t] \in SubmissionJob
      BY DEF Inv, Job
    <2>2. tx[t].at = "numbering" => tx[t].seen \in Nat /\ tx[t].tries \in Nat
      BY <2>1 DEF SubmissionJob, SubmitAt
    <2>3. Cardinality(Filed') >= Cardinality(Filed) /\ Counted /\ Counted'
      <3>1. Inv'
        BY InvNext
      <3>2. Counted /\ Counted'
        BY <3>1, FiledCount, PTL
      <3> QED BY <3>2, CountGrows
    <2>4. Rival(t)'
      BY <1>1, <2>2, <2>3 DEF Rival, Counted
    <2> QED BY <1>1, <2>4 DEF Fresh
  <1>2. CASE tx'[t].at \notin SubmitAt
    BY <1>2 DEF Fresh, Rival, SubmitAt
  <1>3. CASE tx'[t].at # "inserting" /\ tx'[t].tries = 0
    <2>1. Fresh(t)'
      BY <1>3 DEF Fresh
    <2>2. Rival(t)'
      BY <1>3 DEF Rival
    <2> QED BY <2>1, <2>2
  <1> QED BY <1>1, <1>2, <1>3

(* An attempt takes the number after all that are filed. *)
LEMMA RivalTaken ==
  ASSUME MaxNumber < Limit, Inv, Inv', NEW t \in Tx, Rival(t), TakeNumber(t)
  PROVE  Rival(t)'
  <1> DEFINE k == Cardinality(Filed)
             first == IF tx[t].tries = 0 THEN k ELSE tx[t].seen
             job == [tx[t] EXCEPT !.at = "inserting", !.number = NextNumber(Filed), !.seen = first]
  <1>1. k \in Nat /\ Filed = 1..k /\ k <= MaxNumber
    BY FiledCount DEF Counted
  <1>2. NextNumber(Filed) = k + 1
    <2>1. k \in 0..(Limit - 1)
      BY <1>1, LimitAssumption, RequestsAssumption
    <2> HIDE DEF k
    <2> QED BY <1>1, <2>1, NextNumberFits
  <1>3. tx[t].at = "numbering" /\ tx[t] \in SubmissionJob
    BY DEF TakeNumber, Inv, Job, SubmitAt
  <1>4. tx' = [tx EXCEPT ![t] = job] /\ tx'[t] = job
    BY DEF TakeNumber, Become, Inv
  <1>5. tx[t].tries \in Nat /\ tx[t].seen \in Nat
    BY <1>3 DEF SubmissionJob
  <1>6. job.at = "inserting" /\ job.number = k + 1 /\ job.tries = tx[t].tries /\ job.seen = first
    BY <1>2, <1>3 DEF SubmissionJob
  <1>7. tx[t].tries > 0 => k >= tx[t].seen + tx[t].tries
    BY <1>3 DEF Rival
  <1> HIDE DEF k, job
  <1>8. k + 1 > first + tx[t].tries
    BY <1>1, <1>5, <1>7
  <1> QED BY <1>4, <1>6, <1>8 DEF Rival

(* A number that is found filed was filed since the last attempt. *)
LEMMA RivalInserted ==
  ASSUME Inv, Inv', NEW t \in Tx, Rival(t), InsertNumber(t)
  PROVE  /\ Fresh(t)' /\ Rival(t)'
         /\ tx'[t] = Refused => Cardinality(Filed) - tx[t].seen >= MaxAttempts
  <1>1. tx[t].at = "inserting" /\ tx[t] \in SubmissionJob /\ Filed' = Filed
    BY DEF InsertNumber, Inv, Job, SubmitAt, TablesUnchanged, Filed
  <1>2. /\ tx[t].number \in Nat /\ tx[t].tries \in Nat /\ tx[t].seen \in Nat
        /\ tx[t].number > tx[t].seen + tx[t].tries
    BY <1>1 DEF SubmissionJob, Rival
  <1> DEFINE k == Cardinality(Filed)
             again == [tx[t] EXCEPT !.at = "numbering", !.tries = @ + 1]
             filed == [tx[t] EXCEPT !.at = "filed"]
  <1>3. k \in Nat /\ Filed = 1..k
    BY FiledCount DEF Counted
  <1>4. again.at = "numbering" /\ again.tries = tx[t].tries + 1 /\ again.seen = tx[t].seen
          /\ filed.at = "filed" /\ Refused.at = "refused"
    BY <1>1 DEF SubmissionJob, Refused
  <1>5. tx[t].number \in Filed => k >= tx[t].seen + tx[t].tries + 1
    <2> HIDE DEF k
    <2> QED BY <1>2, <1>3
  <1>6. \/ tx'[t] = filed
        \/ tx'[t] = again /\ tx[t].number \in Filed
        \/ tx'[t] = Refused /\ tx[t].number \in Filed /\ tx[t].tries + 1 = MaxAttempts
    BY DEF InsertNumber, Collide, Become, Inv
  <1>7. Cardinality(Filed') = k
    BY <1>1
  <1> HIDE DEF k, again, filed
  <1>8. CASE tx'[t] = filed
    BY <1>4, <1>8 DEF Fresh, Rival, Refused
  <1>9. CASE tx'[t] = again /\ tx[t].number \in Filed
    <2>1. Rival(t)'
      BY <1>2, <1>3, <1>4, <1>5, <1>7, <1>9 DEF Rival
    <2>2. again # Refused /\ Fresh(t)'
      BY <1>4, <1>9 DEF Fresh
    <2> QED BY <2>1, <2>2, <1>9
  <1>10. CASE tx'[t] = Refused /\ tx[t].number \in Filed /\ tx[t].tries + 1 = MaxAttempts
    <2>1. k - tx[t].seen >= MaxAttempts
      BY <1>2, <1>3, <1>5, <1>10
    <2> QED BY <2>1, <1>4, <1>10 DEF Fresh, Rival, k
  <1> QED BY <1>6, <1>8, <1>9, <1>10

(* A step of t that takes or tries no number: it has made no attempt yet. *)
LEMMA RivalElsewhere ==
  ASSUME Inv, NEW t \in Tx, Fresh(t),
         \/ \E given \in Contact : StartSubmit(t, given)
         \/ LookByEmail(t) \/ LookByPhone(t) \/ AddCustomer(t) \/ CommitSubmit(t)
         \/ Staff(t)
         \/ Abort(t)
  PROVE  /\ tx'[t] # Refused
         /\ tx'[t].at \in SubmitAt => tx'[t].at # "inserting" /\ tx'[t].tries = 0
  <1>1. /\ Idle # Refused /\ Idle.at \notin SubmitAt
        /\ \A j : j.at \in {"entering", "editing", "deciding"} => j # Refused /\ j.at \notin SubmitAt
        /\ \A j : j.at \in SubmitAt => j # Refused
    <2>1. Idle.at = "idle" /\ Refused.at = "refused"
      BY DEF Idle, Refused
    <2>2. \A j : j.at # "refused" => j # Refused
      BY <2>1
    <2>3. "idle" \notin SubmitAt /\ "refused" \notin SubmitAt
      BY DEF SubmitAt
    <2>4. \A j : j.at \in {"entering", "editing", "deciding"} => j.at \notin SubmitAt /\ j.at # "refused"
      BY DEF SubmitAt
    <2>5. Idle # Refused
      BY <2>1
    <2>6. \A j : j.at \in SubmitAt => j.at # "refused"
      BY <2>3
    <2>7. Idle.at \notin SubmitAt
      BY <2>1, <2>3
    <2> QED BY <2>2, <2>4, <2>5, <2>6, <2>7
  <1>2. CASE tx'[t] = Idle
    BY <1>1, <1>2
  <1>3. CASE tx'[t].at \in {"entering", "editing", "deciding"}
    BY <1>1, <1>3
  <1>4. CASE \E given \in Contact : tx'[t] = Submission("by email", given, Nothing, FALSE, 0, 0, 0)
    <2>1. tx'[t].at = "by email" /\ tx'[t].tries = 0
      <3>1. PICK g \in Contact : tx'[t] = Submission("by email", g, Nothing, FALSE, 0, 0, 0)
        BY <1>4
      <3>2. Submission("by email", g, Nothing, FALSE, 0, 0, 0)
              \in [at : {"by email"}, given : Contact, customer : {Nothing}, new : {FALSE},
                   number : {0}, tries : {0}, seen : {0}]
        BY DEF Submission
      <3>3. tx'[t] \in [at : {"by email"}, given : Contact, customer : {Nothing}, new : {FALSE},
                        number : {0}, tries : {0}, seen : {0}]
        BY <3>1, <3>2
      <3> QED BY <3>3
    <2>2. tx'[t].at \in SubmitAt /\ tx'[t].at # "inserting"
      BY <2>1 DEF SubmitAt
    <2>3. tx'[t] # Refused
      BY <1>1, <2>2
    <2> QED BY <2>1, <2>2, <2>3
  <1>5. CASE /\ tx[t].at \in {"by email", "by phone", "adding"}
             /\ \/ \E where \in {"by phone", "adding"} : tx'[t] = [tx[t] EXCEPT !.at = where]
                \/ \E c \in Customer : tx'[t] = [tx[t] EXCEPT !.at = "numbering", !.customer = c]
                \/ tx'[t] = [tx[t] EXCEPT !.at = "numbering", !.new = TRUE]
    <2>1. tx[t] \in SubmissionJob /\ tx[t].tries = 0
      BY <1>5 DEF Inv, Job, SubmitAt, Fresh
    <2>2. tx'[t].at \in {"by phone", "adding", "numbering"} /\ tx'[t].tries = 0
      BY <1>5, <2>1 DEF SubmissionJob
    <2>3. tx'[t].at \in SubmitAt /\ tx'[t].at # "inserting"
      BY <2>2 DEF SubmitAt
    <2>4. tx'[t] # Refused
      BY <1>1, <2>3
    <2> QED BY <2>2, <2>3, <2>4
  <1>6. \A j : tx' = [tx EXCEPT ![t] = j] => tx'[t] = j
    BY DEF Inv
  <1>7. CASE LookByEmail(t) \/ LookByPhone(t) \/ AddCustomer(t)
    <2>1. tx[t].at \in {"by email", "by phone", "adding"}
      BY ZenonT(40), <1>7 DEF LookByEmail, LookByPhone, AddCustomer
    <2>2. CASE LookByEmail(t)
      BY ZenonT(40), <2>1, <2>2, <1>2, <1>5, <1>6 DEF LookByEmail, Match, Become, End, WithEmail, Known
    <2>3. CASE LookByPhone(t)
      BY <2>1, <2>3, <1>2, <1>5, <1>6 DEF LookByPhone, Match, Become, End, WithPhone, Known
    <2>4. CASE AddCustomer(t)
      BY <2>1, <2>4, <1>2, <1>5, <1>6 DEF AddCustomer, Become, End
    <2> QED BY <1>7, <2>2, <2>3, <2>4
  <1>8. CASE \E given \in Contact : StartSubmit(t, given)
    BY <1>4, <1>6, <1>8 DEF StartSubmit, Begin
  <1>9. CASE CommitSubmit(t) \/ FinishEnter(t) \/ FinishEdit(t) \/ FinishDecide(t) \/ Abort(t)
    BY <1>2, <1>6, <1>9 DEF CommitSubmit, FinishEnter, FinishEdit, FinishDecide, Abort, End, Become
  <1>10. CASE \/ \E given : StartEnter(t, given)
              \/ \E c, given, status : StartEdit(t, c, given, status)
              \/ \E n, target : StartDecide(t, n, target)
    BY <1>3, <1>6, <1>10 DEF StartEnter, StartEdit, StartDecide, Begin
  <1> QED BY <1>7, <1>8, <1>9, <1>10 DEF Staff

(* Every step keeps the count of the rivals, and shows it to the refused. *)
LEMMA RivalStep ==
  ASSUME MaxNumber < Limit, Inv, RivalInv, [Next]_vars
  PROVE  /\ RivalInv'
         /\ \A t \in Tx : tx[t] # Refused /\ tx'[t] = Refused
                         => Cardinality(Filed) - tx[t].seen >= MaxAttempts
  <1>1. Inv'
    BY InvNext
  <1> SUFFICES ASSUME NEW t \in Tx
               PROVE  /\ Fresh(t)' /\ Rival(t)'
                      /\ tx[t] # Refused /\ tx'[t] = Refused
                           => Cardinality(Filed) - tx[t].seen >= MaxAttempts
    BY DEF RivalInv
  <1>2. Fresh(t) /\ Rival(t)
    BY DEF RivalInv
  <1>3. CASE tx'[t] = tx[t]
    BY <1>2, <1>3, RivalKept
  <1>4. CASE Submit(t) \/ Staff(t) \/ Abort(t)
    <2>1. CASE TakeNumber(t)
      <3>1. tx'[t] # Refused /\ Fresh(t)'
        <4>1. tx[t] \in SubmissionJob
          BY <2>1 DEF TakeNumber, Inv, Job, SubmitAt
        <4>2. tx'[t].at = "inserting"
          BY <2>1, <4>1 DEF TakeNumber, Become, Inv, SubmissionJob
        <4> QED BY <4>2 DEF Refused, Fresh
      <3> QED BY <1>1, <1>2, <2>1, <3>1, RivalTaken
    <2>2. CASE InsertNumber(t)
      BY <1>1, <1>2, <2>2, RivalInserted
    <2>3. CASE ~TakeNumber(t) /\ ~InsertNumber(t)
      <3>1. /\ tx'[t] # Refused
            /\ tx'[t].at \in SubmitAt => tx'[t].at # "inserting" /\ tx'[t].tries = 0
        BY <1>2, <1>4, <2>3, RivalElsewhere DEF Submit
      <3> QED BY <1>2, <3>1, RivalKept
    <2> QED BY <2>1, <2>2, <2>3
  <1>5. ASSUME NEW u \in Tx, u # t, Submit(u) \/ Staff(u) \/ Abort(u)
        PROVE  tx'[t] = tx[t]
    BY <1>5 DEF Submit, Staff, Abort, StartSubmit, LookByEmail, LookByPhone, Match, AddCustomer, TakeNumber,
                InsertNumber, Collide, CommitSubmit, StartEnter, FinishEnter, StartEdit, FinishEdit,
                StartDecide, FinishDecide, Begin, Become, End, Inv
  <1> QED BY <1>3, <1>4, <1>5 DEF Next, vars

(* As long as the numbers fit the padding, no submission is refused for its  *)
(* number but after MaxAttempts others were filed since it first looked for  *)
(* one (run_with_unique_retry re-reads the committed maximum).               *)
THEOREM RefusalsHaveRivals == ASSUME MaxNumber < Limit PROVE Spec => RefusedOnlyByRivals
  <1>1. Init => RivalInv
    <2>1. Init => \A t \in Tx : tx[t].at = "idle"
      BY DEF Init, Idle
    <2>2. \A t \in Tx : tx[t].at = "idle" => Fresh(t) /\ Rival(t)
      BY Zenon DEF Fresh, Rival
    <2> QED BY <2>1, <2>2 DEF RivalInv
  <1>2. Inv /\ RivalInv /\ [Next]_vars
          => RivalInv' /\ [\A t \in Tx : tx[t] # Refused /\ tx'[t] = Refused
                            => Cardinality(Filed) - tx[t].seen >= MaxAttempts]_vars
    BY RivalStep
  <1> QED BY <1>1, <1>2, InvInit, InvNext, PTL DEF Spec, RefusedOnlyByRivals

-----------------------------------------------------------------------------
(* Customers.  A handler that inserts a customer has its email to itself,    *)
(* and one that found a customer shares a contact with it until staff edit   *)
(* the customer.                                                             *)

Writing == {"numbering", "inserting", "filed"}

Fits(c, given) ==
  \/ c \in edited
  \/ given.email # Nothing /\ given.email = customers[c].email
  \/ given.phone # Nothing /\ given.phone = customers[c].phone

Desk(j) ==
  /\ j.at \in {"by email", "by phone", "adding"} => ~j.new
  /\ j.at \in Writing /\ ~j.new => j.customer \in Known /\ Fits(j.customer, j.given)
  /\ j.at \in Writing /\ j.new => WithEmail(j.given.email) = {}
  /\ j.at = "entering" => j.given \in Contact
  /\ j.at = "editing" => /\ j.customer \in Known /\ j.given \in Correction
                         /\ j.status \in {"active", "blocked", Nothing}

OwnEmails ==
  \A c, d \in Known : customers[c].email = customers[d].email => c = d \/ customers[c].email = Nothing
OwnInserts == \A t, u \in Tx : t # u /\ Adds(t) => ~Holds(u, tx[t].given.email)
OwnNumbers ==
  \A t, u \in Tx : t # u /\ tx[t].at = "filed" /\ tx[u].at = "filed" => tx[t].number # tx[u].number

People ==
  /\ customers \in [Customer -> CustomerRow]
  /\ \A n \in Number : requests[n].customer \in Known \cup {Nothing}
  /\ edited \subseteq Known
  /\ \A t \in Tx : Desk(tx[t])
  /\ OwnEmails /\ OwnInserts /\ OwnNumbers

(* A handler that has ended has nothing in hand. *)
LEMMA DeskEnded == Desk(Idle) /\ Desk(Refused)
  BY DEF Desk, Idle, Refused, Writing

(* What an edit makes of a field, and of a row. *)
LEMMA ChangedIs ==
  ASSUME NEW old, NEW new
  PROVE  /\ new = Nothing => Changed(old, new) = old
         /\ new = Blank => Changed(old, new) = Nothing
         /\ new \notin {Nothing, Blank} => Changed(old, new) = new
  BY RequestsAssumption DEF Changed

LEMMA CorrectedRow ==
  ASSUME NEW old \in CustomerRow, old.status # "none", NEW given \in Correction,
         NEW status \in {"active", "blocked", Nothing}
  PROVE  LET row == [status |-> Changed(old.status, status),
                     email |-> Changed(old.email, given.email),
                     phone |-> Changed(old.phone, given.phone)]
         IN  row \in CustomerRow /\ row.status # "none"
  <1>1. Changed(old.status, status) \in {"active", "blocked"}
    BY ChangedIs, RequestsAssumption DEF CustomerRow
  <1>2. Changed(old.email, given.email) \in Email \cup {Nothing}
    BY ChangedIs, RequestsAssumption DEF CustomerRow, Correction
  <1>3. Changed(old.phone, given.phone) \in Phone \cup {Nothing}
    BY ChangedIs, RequestsAssumption DEF CustomerRow, Correction
  <1> QED BY <1>1, <1>2, <1>3 DEF CustomerRow

(* A step of handler t that changes no customer. *)
LEMMA PeopleSame ==
  ASSUME Inv, People, NEW t \in Tx, NEW job, tx' = [tx EXCEPT ![t] = job],
         customers' = customers, edited' = edited, Desk(job),
         \A n \in Number : requests'[n].customer \in Known \cup {Nothing},
         job.at \in Writing /\ job.new =>
           \/ Adds(t) /\ job.given = tx[t].given
           \/ \A u \in Tx \ {t} : ~Holds(u, job.given.email),
         job.at = "filed" => job.number \notin Inserted
  PROVE  People'
  <1>1. Known' = Known
    BY DEF Known
  <1>2. tx'[t] = job /\ \A u \in Tx : u # t => tx'[u] = tx[u]
    BY DEF Inv
  <1>3. \A j : Desk(j)' <=> Desk(j)
    BY <1>1 DEF Desk, Fits, WithEmail
  <1>4. \A u \in Tx : Desk(tx'[u])
    BY <1>2 DEF People
  <1>5. OwnEmails'
    BY <1>1 DEF People, OwnEmails
  <1>6. OwnInserts'
    <2> SUFFICES ASSUME NEW u \in Tx, NEW v \in Tx, u # v,
                        tx'[u].at \in Writing, tx'[u].new, tx'[v].at \in Writing, tx'[v].new,
                        tx'[u].given.email # Nothing, tx'[u].given.email = tx'[v].given.email
                 PROVE  FALSE
      BY DEF OwnInserts, Adds, Holds, Writing
    <2>1. CASE u # t /\ v # t
      BY <1>2, <2>1 DEF People, OwnInserts, Adds, Holds, Writing
    <2>2. CASE u = t
      BY <1>2, <2>2 DEF People, OwnInserts, Adds, Holds, Writing
    <2>3. CASE v = t
      BY <1>2, <2>3 DEF People, OwnInserts, Adds, Holds, Writing
    <2> QED BY <2>1, <2>2, <2>3
  <1>7. OwnNumbers'
    BY <1>2 DEF People, OwnNumbers, Inserted
  <1>8. \A n \in Number : requests'[n].customer \in Known' \cup {Nothing}
    BY <1>1
  <1> QED BY <1>1, <1>3, <1>4, <1>5, <1>6, <1>7, <1>8 DEF People

(* Handler t ends, and commits a customer's row. *)
LEMMA PeopleChange ==
  ASSUME Inv, People, NEW t \in Tx, tx' = [tx EXCEPT ![t] = Idle],
         NEW c \in Customer, NEW row \in CustomerRow, row.status # "none",
         customers' = [customers EXCEPT ![c] = row],
         row.email # Nothing =>
           WithEmail(row.email) \subseteq {c} /\ \A u \in Tx \ {t} : ~Holds(u, row.email),
         edited \subseteq edited', edited' \subseteq edited \cup {c},
         c \in Known => \/ c \in edited'
                        \/ row.email = customers[c].email /\ row.phone = customers[c].phone,
         \A n \in Number : requests'[n].customer \in Known \cup {c, Nothing}
  PROVE  People'
  <1>1. /\ Known' = Known \cup {c} /\ customers' \in [Customer -> CustomerRow]
        /\ customers'[c] = row /\ \A d \in Customer : d # c => customers'[d] = customers[d]
    BY DEF Known, People
  <1>2. tx'[t] = Idle /\ \A u \in Tx : u # t => tx'[u] = tx[u]
    BY DEF Inv
  <1>3. edited' \subseteq Known'
    BY <1>1 DEF People
  <1>4. ASSUME NEW u \in Tx PROVE Desk(tx[u])'
    <2>1. CASE u = t
      <3>1. tx'[u].at = "idle"
        BY <1>2, <2>1 DEF Idle
      <3> QED BY <3>1 DEF Desk, Writing
    <2>2. CASE u # t
      <3>1. tx'[u] = tx[u] /\ Desk(tx[u])
        BY <1>2, <2>2 DEF People
      <3> DEFINE j == tx[u]
      <3>2. j.customer \in Known => j.customer \in Known'
        BY <1>1
      <3>3. j.customer \in Known /\ Fits(j.customer, j.given) =>
              \/ j.customer \in edited'
              \/ j.given.email # Nothing /\ j.given.email = customers'[j.customer].email
              \/ j.given.phone # Nothing /\ j.given.phone = customers'[j.customer].phone
        BY <1>1 DEF Fits, Known
      <3>4. j.at \in Writing /\ j.new /\ WithEmail(j.given.email) = {}
              => \A d \in Known' : ~(j.given.email # Nothing /\ customers'[d].email = j.given.email)
        <4> SUFFICES ASSUME j.at \in Writing, j.new, WithEmail(j.given.email) = {},
                            NEW d \in Known', j.given.email # Nothing,
                            customers'[d].email = j.given.email
                     PROVE  FALSE
          OBVIOUS
        <4>1. CASE d = c
          <5>1. Holds(u, row.email)
            BY <1>1, <4>1 DEF Holds, Adds, Writing
          <5> QED BY <1>1, <2>2, <4>1, <5>1
        <4>2. CASE d # c
          BY <1>1, <4>2 DEF WithEmail, Known
        <4> QED BY <4>1, <4>2
      <3> HIDE DEF j
      <3>5. Desk(j) => /\ j.at \in {"by email", "by phone", "adding"} => ~j.new
                       /\ j.at \in Writing /\ ~j.new => /\ j.customer \in Known'
                              /\ \/ j.customer \in edited'
                                 \/ j.given.email # Nothing /\ j.given.email = customers'[j.customer].email
                                 \/ j.given.phone # Nothing /\ j.given.phone = customers'[j.customer].phone
                       /\ j.at \in Writing /\ j.new =>
                             \A d \in Known' : ~(j.given.email # Nothing /\ customers'[d].email = j.given.email)
                       /\ j.at = "entering" => j.given \in Contact
                       /\ j.at = "editing" => /\ j.customer \in Known' /\ j.given \in Correction
                                              /\ j.status \in {"active", "blocked", Nothing}
        BY <3>2, <3>3, <3>4 DEF Desk
      <3> QED BY <3>1, <3>5 DEF Desk, Fits, WithEmail, j
    <2> QED BY <2>1, <2>2
  <1>5. OwnEmails'
    <2> SUFFICES ASSUME NEW x \in Known', NEW y \in Known', x # y,
                        customers'[x].email = customers'[y].email, customers'[x].email # Nothing
                 PROVE  FALSE
      BY DEF OwnEmails
    <2>1. CASE x # c /\ y # c
      BY <1>1, <2>1 DEF People, OwnEmails, Known
    <2>2. ASSUME NEW z \in Known, z # c, customers[z].email = row.email, row.email # Nothing PROVE FALSE
      BY <2>2 DEF WithEmail
    <2>3. CASE x = c
      BY <1>1, <2>2, <2>3 DEF Known
    <2>4. CASE y = c
      BY <1>1, <2>2, <2>4 DEF Known
    <2> QED BY <2>1, <2>3, <2>4
  <1>6. OwnInserts'
    BY <1>2 DEF People, OwnInserts, Adds, Holds, Idle
  <1>7. OwnNumbers'
    BY <1>2 DEF People, OwnNumbers, Idle
  <1>8. \A n \in Number : requests'[n].customer \in Known' \cup {Nothing}
    BY <1>1
  <1> QED BY <1>1, <1>3, <1>4, <1>5, <1>6, <1>7, <1>8 DEF People

(* A handler that only reads, or writes what others cannot see yet. *)
LEMMA PeopleHandler ==
  ASSUME Inv, People, NEW t \in Tx, NEW job, tx' = [tx EXCEPT ![t] = job],
         TablesUnchanged, Desk(job),
         job.at \in Writing /\ job.new =>
           \/ Adds(t) /\ job.given = tx[t].given
           \/ \A u \in Tx \ {t} : ~Holds(u, job.given.email),
         job.at = "filed" => job.number \notin Inserted
  PROVE  People'
  BY PeopleSame DEF TablesUnchanged, People

(* A handler ends without a change. *)
LEMMA PeopleEnds ==
  ASSUME Inv, People, NEW t \in Tx, End(t) \/ Become(t, Refused), TablesUnchanged
  PROVE  People'
  <1>1. PICK job \in {Idle, Refused} : tx' = [tx EXCEPT ![t] = job]
    BY DEF End, Become
  <1>2. job.at \notin Writing
    BY DEF Idle, Refused, Writing
  <1> QED BY <1>1, <1>2, DeskEnded, PeopleHandler DEF Writing

(* The steps of a submission keep customers apart. *)
LEMMA PeopleSubmit ==
  ASSUME Inv, People, NEW t \in Tx, Submit(t)
  PROVE  People'
  <1>1. tx[t].at \in SubmitAt => tx[t] \in SubmissionJob /\ Desk(tx[t])
    BY DEF Inv, Job, People
  <1>2. ASSUME NEW given \in Contact, StartSubmit(t, given) PROVE People'
    <2> DEFINE job == Submission("by email", given, Nothing, FALSE, 0, 0, 0)
    <2>1. Desk(job) /\ job.at \notin Writing
      BY DEF Desk, Submission, Writing
    <2>2. tx' = [tx EXCEPT ![t] = job] /\ TablesUnchanged
      BY <1>2 DEF StartSubmit, Begin
    <2> HIDE DEF job
    <2> QED BY <2>1, <2>2, PeopleHandler DEF Writing
  <1>3. ASSUME NEW where \in {"by phone", "adding"}, tx[t].at \in {"by email", "by phone"},
               Become(t, [tx[t] EXCEPT !.at = where]), TablesUnchanged
        PROVE  People'
    <2> DEFINE job == [tx[t] EXCEPT !.at = where]
    <2>1. job.at = where /\ job.new = tx[t].new
      BY <1>1, <1>3 DEF SubmissionJob, SubmitAt
    <2>2. ~tx[t].new
      BY <1>1, <1>3 DEF Desk, SubmitAt
    <2>3. tx' = [tx EXCEPT ![t] = job]
      BY <1>3 DEF Become
    <2> HIDE DEF job
    <2>4. Desk(job) /\ job.at \notin Writing
      BY <2>1, <2>2 DEF Desk, Writing
    <2> QED BY <1>3, <2>3, <2>4, PeopleHandler DEF Writing
  <1>4. ASSUME NEW c \in Known, Match(t, c), tx[t].at \in {"by email", "by phone"},
               Fits(c, tx[t].given), TablesUnchanged
        PROVE  People'
    <2>1. CASE customers[c].status = "blocked"
      BY <1>4, <2>1, PeopleEnds DEF Match
    <2>2. CASE customers[c].status # "blocked"
      <3> DEFINE job == [tx[t] EXCEPT !.at = "numbering", !.customer = c]
      <3>1. job.at = "numbering" /\ job.new = tx[t].new /\ job.customer = c /\ job.given = tx[t].given
        BY <1>1, <1>4 DEF SubmissionJob, SubmitAt
      <3>2. ~tx[t].new
        BY <1>1, <1>4 DEF Desk, SubmitAt
      <3>3. tx' = [tx EXCEPT ![t] = job]
        BY <1>4, <2>2 DEF Match, Become
      <3> HIDE DEF job
      <3>4. Desk(job)
        BY <1>4, <3>1, <3>2 DEF Desk
      <3> QED BY <1>4, <3>1, <3>2, <3>3, <3>4, PeopleHandler
    <2> QED BY <2>1, <2>2
  <1>5. CASE LookByEmail(t)
    <2>1. tx[t].at = "by email" /\ TablesUnchanged
      BY <1>5 DEF LookByEmail
    <2>2. \A c \in WithEmail(tx[t].given.email) : c \in Known /\ Fits(c, tx[t].given)
      BY DEF WithEmail, Fits
    <2> QED BY <1>3, <1>4, <1>5, <2>1, <2>2 DEF LookByEmail
  <1>6. CASE LookByPhone(t)
    <2>1. tx[t].at = "by phone" /\ TablesUnchanged
      BY <1>6 DEF LookByPhone
    <2>2. \A c \in WithPhone(tx[t].given.phone) : c \in Known /\ Fits(c, tx[t].given)
      BY DEF WithPhone, Fits
    <2>3. \/ Become(t, [tx[t] EXCEPT !.at = "adding"]) \/ End(t)
          \/ \E c \in WithPhone(tx[t].given.phone) : Match(t, c)
      BY <1>6 DEF LookByPhone
    <2> QED BY <1>3, <1>4, <2>1, <2>2, <2>3, PeopleEnds
  <1>7. CASE AddCustomer(t)
    <2>1. tx[t].at = "adding" /\ TablesUnchanged
          /\ \A u \in Tx \ {t} : ~Holds(u, tx[t].given.email)
      BY <1>7 DEF AddCustomer
    <2>2. CASE WithEmail(tx[t].given.email) # {}
      BY <1>7, <2>1, <2>2, PeopleEnds DEF AddCustomer
    <2>3. CASE WithEmail(tx[t].given.email) = {}
      <3> DEFINE job == [tx[t] EXCEPT !.at = "numbering", !.new = TRUE]
      <3>1. job.at = "numbering" /\ job.new /\ job.given = tx[t].given
        BY <1>1, <2>1 DEF SubmissionJob, SubmitAt
      <3>2. tx' = [tx EXCEPT ![t] = job]
        BY <1>7, <2>3 DEF AddCustomer, Become
      <3> HIDE DEF job
      <3>3. Desk(job)
        BY <2>3, <3>1 DEF Desk
      <3> QED BY <2>1, <3>1, <3>2, <3>3, PeopleHandler
    <2> QED BY <2>2, <2>3
  <1>8. ASSUME NEW job, tx' = [tx EXCEPT ![t] = job], TablesUnchanged, tx[t].at \in Writing,
               job.at \in Writing, job.new = tx[t].new, job.given = tx[t].given,
               job.customer = tx[t].customer, job.at = "filed" => job.number \notin Inserted
        PROVE  People'
    <2>1. Desk(tx[t])
      BY DEF People
    <2>2. Desk(job)
      BY <1>8, <2>1 DEF Desk, Writing
    <2>3. job.new => Adds(t)
      BY <1>8 DEF Adds, Writing
    <2> QED BY <1>8, <2>2, <2>3, PeopleHandler
  <1>9. CASE TakeNumber(t)
    <2> DEFINE job == [tx[t] EXCEPT !.at = "inserting", !.number = NextNumber(Filed),
                               !.seen = IF tx[t].tries = 0 THEN Cardinality(Filed) ELSE @]
    <2>1. tx[t].at = "numbering" /\ TablesUnchanged /\ tx' = [tx EXCEPT ![t] = job]
      BY <1>9 DEF TakeNumber, Become
    <2>2. job.at = "inserting" /\ job.new = tx[t].new /\ job.given = tx[t].given
          /\ job.customer = tx[t].customer
      BY <1>1, <2>1 DEF SubmissionJob, SubmitAt
    <2> HIDE DEF job
    <2> QED BY <1>8, <2>1, <2>2 DEF Writing
  <1>10. CASE InsertNumber(t)
    <2>1. tx[t].at = "inserting" /\ TablesUnchanged /\ tx[t].number \notin Inserted
      BY <1>10 DEF InsertNumber
    <2>2. CASE Become(t, [tx[t] EXCEPT !.at = "filed"])
      <3> DEFINE job == [tx[t] EXCEPT !.at = "filed"]
      <3>1. job.at = "filed" /\ job.new = tx[t].new /\ job.given = tx[t].given
            /\ job.customer = tx[t].customer /\ job.number = tx[t].number
        BY <1>1, <2>1 DEF SubmissionJob, SubmitAt
      <3>2. tx' = [tx EXCEPT ![t] = job]
        BY <2>2 DEF Become
      <3> HIDE DEF job
      <3> QED BY <1>8, <2>1, <3>1, <3>2 DEF Writing
    <2>3. CASE Become(t, [tx[t] EXCEPT !.at = "numbering", !.tries = @ + 1])
      <3> DEFINE job == [tx[t] EXCEPT !.at = "numbering", !.tries = @ + 1]
      <3>1. job.at = "numbering" /\ job.new = tx[t].new /\ job.given = tx[t].given
            /\ job.customer = tx[t].customer
        BY <1>1, <2>1 DEF SubmissionJob, SubmitAt
      <3>2. tx' = [tx EXCEPT ![t] = job]
        BY <2>3 DEF Become
      <3> HIDE DEF job
      <3> QED BY <1>8, <2>1, <3>1, <3>2 DEF Writing
    <2> QED BY <1>10, <2>1, <2>2, <2>3, PeopleEnds DEF InsertNumber, Collide
  <1>11. CASE CommitSubmit(t)
    <2>1. /\ tx[t].at = "filed" /\ tx[t] \in SubmissionJob /\ Desk(tx[t]) /\ Job(tx[t])
          /\ tx[t].number \in Number /\ tx' = [tx EXCEPT ![t] = Idle] /\ edited' = edited
      BY <1>1, <1>11 DEF CommitSubmit, End, Become, SubmitAt, Inv, Job
    <2>2. CASE ~tx[t].new
      <3>1. tx[t].customer \in Known /\ customers' = customers
            /\ requests' = [requests EXCEPT ![tx[t].number] =
                              [status |-> "submitted", customer |-> tx[t].customer, given |-> tx[t].given]]
        BY <1>11, <2>1, <2>2 DEF CommitSubmit, Desk, Writing
      <3>2. \A n \in Number : requests'[n].customer \in Known \cup {Nothing}
        BY <3>1 DEF Inv, People
      <3>3. Idle.at \notin Writing /\ Idle.at # "filed"
        BY DEF Idle, Writing
      <3> QED BY <2>1, <3>1, <3>2, <3>3, DeskEnded, PeopleSame
    <2>3. CASE tx[t].new
      <3> DEFINE c == FreshCustomer
                 row == [status |-> "active", email |-> tx[t].given.email, phone |-> tx[t].given.phone]
      <3>1. c \in Customer /\ c \notin Known
        <4>1. \E x \in Customer \ Known : TRUE
          BY <1>11, <2>3 DEF CommitSubmit, Known
        <4> QED BY <4>1 DEF FreshCustomer
      <3>2. row \in CustomerRow /\ row.status # "none" /\ row.email = tx[t].given.email
        BY <2>1 DEF SubmissionJob, Contact, CustomerRow
      <3>3. customers' = [customers EXCEPT ![c] = row]
            /\ requests' = [requests EXCEPT ![tx[t].number] = [status |-> "submitted", customer |-> c, given |-> tx[t].given]]
        BY <1>11, <2>3 DEF CommitSubmit
      <3> HIDE DEF c, row
      <3>4. \A n \in Number : requests'[n].customer \in Known \cup {c, Nothing}
        BY <3>3 DEF Inv, People
      <3>5. WithEmail(row.email) = {}
        BY <2>1, <2>3, <3>2 DEF Desk, Writing
      <3>6. \A u \in Tx \ {t} : ~Holds(u, row.email)
        BY <2>1, <2>3, <3>2 DEF People, OwnInserts, Adds
      <3> QED BY <2>1, <3>1, <3>2, <3>3, <3>4, <3>5, <3>6, PeopleChange
    <2> QED BY <2>2, <2>3
  <1> QED BY <1>2, <1>5, <1>6, <1>7, <1>9, <1>10, <1>11 DEF Submit

(* The steps of staff keep customers apart. *)
LEMMA PeopleStaff ==
  ASSUME Inv, People, NEW t \in Tx, Staff(t)
  PROVE  People'
  <1>1. ASSUME NEW given \in Contact, StartEnter(t, given) PROVE People'
    <2> DEFINE job == [at |-> "entering", given |-> given]
    <2>1. Desk(job) /\ job.at \notin Writing
      BY DEF Desk, Writing
    <2>2. tx' = [tx EXCEPT ![t] = job] /\ TablesUnchanged
      BY <1>1 DEF StartEnter, Begin
    <2> HIDE DEF job
    <2> QED BY <2>1, <2>2, PeopleHandler DEF Writing
  <1>2. ASSUME NEW c, NEW given \in Correction, NEW status \in {"active", "blocked", Nothing},
               StartEdit(t, c, given, status)
        PROVE  People'
    <2> DEFINE job == [at |-> "editing", customer |-> c, given |-> given, status |-> status]
    <2>1. Desk(job) /\ job.at \notin Writing
      BY <1>2 DEF Desk, Writing, StartEdit
    <2>2. tx' = [tx EXCEPT ![t] = job] /\ TablesUnchanged
      BY <1>2 DEF StartEdit, Begin
    <2> HIDE DEF job
    <2> QED BY <2>1, <2>2, PeopleHandler DEF Writing
  <1>3. ASSUME NEW n, NEW target, StartDecide(t, n, target) PROVE People'
    <2> DEFINE job == [at |-> "deciding", request |-> n, target |-> target]
    <2>1. Desk(job) /\ job.at \notin Writing
      BY DEF Desk, Writing
    <2>2. tx' = [tx EXCEPT ![t] = job] /\ TablesUnchanged
      BY <1>3 DEF StartDecide, Begin
    <2> HIDE DEF job
    <2> QED BY <2>1, <2>2, PeopleHandler DEF Writing
  <1>4. CASE FinishEnter(t)
    <2>1. /\ tx[t].at = "entering" /\ tx[t].given \in Contact /\ Known # Customer
          /\ \A u \in Tx \ {t} : ~Holds(u, tx[t].given.email)
          /\ End(t) /\ UNCHANGED <<requests, edited>>
      BY <1>4 DEF FinishEnter, People, Desk
    <2>2. CASE WithEmail(tx[t].given.email) # {}
      BY <1>4, <2>1, <2>2, PeopleEnds DEF FinishEnter, TablesUnchanged
    <2>3. CASE WithEmail(tx[t].given.email) = {}
      <3> DEFINE c == FreshCustomer
                 row == [status |-> "active", email |-> tx[t].given.email, phone |-> tx[t].given.phone]
      <3>1. c \in Customer /\ c \notin Known
        <4>1. \E x \in Customer \ Known : TRUE
          BY <2>1 DEF Known
        <4> QED BY <4>1 DEF FreshCustomer
      <3>2. row \in CustomerRow /\ row.status # "none" /\ row.email = tx[t].given.email
        BY <2>1 DEF Contact, CustomerRow
      <3>3. customers' = [customers EXCEPT ![c] = row]
        BY <1>4, <2>3 DEF FinishEnter
      <3>4. tx' = [tx EXCEPT ![t] = Idle]
        BY <2>1 DEF End, Become
      <3> HIDE DEF c, row
      <3>5. \A n \in Number : requests'[n].customer \in Known \cup {c, Nothing}
        BY <2>1 DEF People
      <3> QED BY <2>1, <2>3, <3>1, <3>2, <3>3, <3>4, <3>5, PeopleChange
    <2> QED BY <2>2, <2>3
  <1>5. CASE FinishEdit(t)
    <2> DEFINE c == tx[t].customer
               g == tx[t].given
    <2>1. /\ tx[t].at = "editing" /\ c \in Known /\ g \in Correction
          /\ tx[t].status \in {"active", "blocked", Nothing}
          /\ \A u \in Tx \ {t} : ~Holds(u, g.email)
          /\ End(t) /\ requests' = requests
      BY <1>5 DEF FinishEdit, People, Desk
    <2>2. CASE ~(WithEmail(g.email) \subseteq {c})
      BY <1>5, <2>1, <2>2, PeopleEnds DEF FinishEdit, TablesUnchanged
    <2>3. CASE WithEmail(g.email) \subseteq {c}
      <3> DEFINE old == customers[c]
                 row == [status |-> Changed(old.status, tx[t].status),
                         email |-> Changed(old.email, g.email),
                         phone |-> Changed(old.phone, g.phone)]
      <3>1. old \in CustomerRow /\ old.status # "none" /\ c \in Customer
        BY <2>1 DEF Known, People
      <3>2. row \in CustomerRow /\ row.status # "none"
        BY <2>1, <3>1, CorrectedRow
      <3>3. customers' = [customers EXCEPT ![c] = row]
        BY <1>5, <2>3 DEF FinishEdit
      <3>4. tx' = [tx EXCEPT ![t] = Idle]
        BY <2>1 DEF End, Become
      <3>5. edited \subseteq edited' /\ edited' \subseteq edited \cup {c}
            /\ (c \in edited' \/ g = NoContact)
        BY <1>5, <2>3 DEF FinishEdit
      <3>6. g = NoContact => row.email = old.email /\ row.phone = old.phone
        BY ChangedIs DEF NoContact
      <3>7. row.email # Nothing =>
              WithEmail(row.email) \subseteq {c} /\ \A u \in Tx \ {t} : ~Holds(u, row.email)
        <4>1. CASE g.email # Nothing
          <5>1. row.email = g.email
            BY <2>1, <4>1, ChangedIs, RequestsAssumption DEF Correction
          <5> QED BY <2>1, <2>3, <5>1
        <4>2. CASE g.email = Nothing
          <5>1. row.email = customers[c].email
            BY <4>2, ChangedIs
          <5> HIDE DEF row, c
          <5>2. row.email # Nothing => WithEmail(row.email) \subseteq {c}
            BY <2>1, <5>1 DEF People, OwnEmails, WithEmail
          <5>3. ASSUME NEW u \in Tx, Holds(u, row.email) PROVE FALSE
            <6>1. WithEmail(row.email) = {} /\ row.email # Nothing
              BY <5>3 DEF Holds, Adds, People, Desk, Writing
            <6> QED BY <2>1, <5>1, <6>1 DEF WithEmail
          <5> QED BY <5>2, <5>3
        <4> QED BY <4>1, <4>2
      <3>8. \A n \in Number : requests'[n].customer \in Known \cup {c, Nothing}
        BY <2>1 DEF People
      <3> HIDE DEF c, g, row
      <3> QED BY <3>1, <3>2, <3>3, <3>4, <3>5, <3>6, <3>7, <3>8, PeopleChange
    <2> QED BY <2>2, <2>3
  <1>6. CASE FinishDecide(t)
    <2>1. /\ tx' = [tx EXCEPT ![t] = Idle] /\ UNCHANGED <<customers, edited>>
          /\ requests' = [requests EXCEPT ![tx[t].request].status = tx[t].target]
      BY <1>6 DEF FinishDecide, End, Become
    <2>2. \A n \in Number : requests'[n].customer = requests[n].customer
      BY <2>1 DEF Inv, RequestRow
    <2>3. Idle.at \notin Writing /\ Idle.at # "filed"
      BY DEF Idle, Writing
    <2>4. \A n \in Number : requests'[n].customer \in Known \cup {Nothing}
      BY <2>2 DEF People
    <2> QED BY <2>1, <2>3, <2>4, DeskEnded, PeopleSame
  <1> QED BY <1>1, <1>2, <1>3, <1>4, <1>5, <1>6 DEF Staff

(* In the beginning there are no customers. *)
LEMMA PeopleInit == Init => People
  <1> SUFFICES ASSUME Init PROVE People
    OBVIOUS
  <1>1. customers \in [Customer -> CustomerRow] /\ Known = {}
    BY DEF Init, NoCustomer, CustomerRow, Known
  <1>2. \A n \in Number : requests[n].customer = Nothing
    BY DEF Init, NoRequest
  <1>3. \A t \in Tx : tx[t] = Idle /\ tx[t].at = "idle"
    BY DEF Init, Idle
  <1>4. OwnInserts /\ OwnNumbers
    BY <1>3 DEF OwnInserts, OwnNumbers, Adds
  <1>5. OwnEmails /\ edited = {}
    BY <1>1 DEF OwnEmails, Init
  <1> QED BY <1>1, <1>2, <1>3, <1>4, <1>5, DeskEnded DEF People

(* Every step keeps customers apart. *)
LEMMA PeopleNext == Inv /\ People /\ [Next]_vars => People'
  <1> SUFFICES ASSUME Inv, People, [Next]_vars PROVE People'
    OBVIOUS
  <1>1. ASSUME NEW t \in Tx, Abort(t) PROVE People'
    BY <1>1, PeopleEnds DEF Abort
  <1>2. CASE UNCHANGED vars
    BY ZenonT(40), <1>2 DEF vars, People, Known, Desk, Fits, WithEmail, OwnEmails, OwnInserts, OwnNumbers,
         Adds, Holds
  <1> QED BY <1>1, <1>2, PeopleSubmit, PeopleStaff DEF Next

(* The tables are sound: an email belongs to one customer, a request to one  *)
(* there is, and no two handlers have inserted the same number: whatever     *)
(* handlers insert at once wait for each other (unique constraints).         *)
THEOREM RequestsTypeCorrect == Spec => []TypeOK
  <1>1. Inv /\ People => TypeOK
    BY DEF Inv, RequestRow, People, OwnEmails, OwnNumbers, TypeOK
  <1> QED BY <1>1, InvInit, InvNext, PeopleInit, PeopleNext, PTL DEF Spec

(* A handler that files something and is idle then has committed it. *)
LEMMA FiledIsCommitted ==
  ASSUME Inv, NEW t \in Tx, tx[t].at = "filed", tx'[t] = Idle, requests' # requests, [Next]_vars
  PROVE  CommitSubmit(t)
  <1>1. ASSUME NEW u \in Tx, u # t, Submit(u) \/ Staff(u) \/ Abort(u) PROVE FALSE
    <2>1. \E job : tx' = [tx EXCEPT ![u] = job]
      BY <1>1 DEF Submit, Staff, Abort, StartSubmit, LookByEmail, LookByPhone, AddCustomer,
           TakeNumber, InsertNumber, CommitSubmit, Collide, Match, StartEnter, FinishEnter,
           StartEdit, FinishEdit, StartDecide, FinishDecide, Begin, Become, End
    <2>2. tx'[t] = tx[t]
      BY <1>1, <2>1 DEF Inv
    <2> QED BY <2>2 DEF Idle
  <1>2. Submit(t) \/ Staff(t) \/ Abort(t)
    BY <1>1 DEF Next, vars
  <1>3. tx[t] \notin {Idle, Refused}
    BY DEF Idle, Refused
  <1> QED BY <1>2, <1>3 DEF Submit, Staff, Abort, StartSubmit, LookByEmail, LookByPhone,
        AddCustomer, TakeNumber, InsertNumber, StartEnter, FinishEnter, StartEdit, FinishEdit,
        StartDecide, FinishDecide, Begin, TablesUnchanged

(* A request is filed under a customer that shares a contact with it, unless *)
(* staff have edited the customer meanwhile, or under a new customer         *)
(* (find_matching_customer, submit_custom_request).                          *)
THEOREM RequestsFiledUnderMatch == Spec => FiledUnderMatch
  <1>1. ASSUME Inv, People, [Next]_vars, NEW t \in Tx,
               tx[t].at = "filed", requests' # requests, tx'[t] = Idle
        PROVE  LET c == requests'[tx[t].number].customer
                   g == tx[t].given
               IN  \/ c \notin Known \/ c \in edited
                   \/ g.email # Nothing /\ g.email = customers[c].email
                   \/ g.phone # Nothing /\ g.phone = customers[c].phone
    <2>1. CommitSubmit(t)
      BY <1>1, FiledIsCommitted
    <2>2. tx[t].number \in Number /\ Desk(tx[t])
      BY <1>1 DEF Inv, Job, People
    <2> DEFINE c == IF tx[t].new THEN FreshCustomer ELSE tx[t].customer
    <2>3. requests' = [requests EXCEPT ![tx[t].number] = [status |-> "submitted", customer |-> c, given |-> tx[t].given]]
      BY <2>1 DEF CommitSubmit
    <2>4. requests'[tx[t].number].customer = c
      BY <1>1, <2>2, <2>3 DEF Inv
    <2>5. CASE tx[t].new
      <3>1. \E x \in Customer \ Known : TRUE
        BY <2>1, <2>5 DEF CommitSubmit, Known
      <3>2. FreshCustomer \notin Known
        BY <3>1 DEF FreshCustomer
      <3> QED BY <2>4, <2>5, <3>2
    <2>6. CASE ~tx[t].new
      <3>1. Fits(tx[t].customer, tx[t].given)
        BY <1>1, <2>2, <2>6 DEF Desk, Writing
      <3> QED BY <2>4, <2>6, <3>1 DEF Fits
    <2> QED BY <2>5, <2>6
  <1>2. Inv /\ People /\ [Next]_vars =>
          [\A t \in Tx :
             tx[t].at = "filed" /\ requests' # requests /\ tx'[t] = Idle =>
               LET c == requests'[tx[t].number].customer
                   g == tx[t].given
               IN  \/ c \notin Known \/ c \in edited
                   \/ g.email # Nothing /\ g.email = customers[c].email
                   \/ g.phone # Nothing /\ g.phone = customers[c].phone]_vars
    BY <1>1
  <1> QED BY <1>2, InvInit, InvNext, PeopleInit, PeopleNext, PTL DEF Spec, FiledUnderMatch

-----------------------------------------------------------------------------
(* The desk implements Registry.  A number that is inserted and not yet      *)
(* committed is free, so that the commit files it as the next one.           *)

Unfiled == \A t \in Tx : tx[t].at = "filed" => tx[t].number \notin Filed

(* Only a commit files something, and only its own number.                   *)
LEMMA FiledGrows ==
  ASSUME Inv, [Next]_vars
  PROVE  \/ Filed' = Filed
         \/ \E t \in Tx : CommitSubmit(t) /\ Filed' = Filed \cup {tx[t].number}
  <1>1. ASSUME NEW t \in Tx, CommitSubmit(t) PROVE Filed' = Filed \cup {tx[t].number}
    <2>1. tx[t].number \in Number
      BY <1>1 DEF CommitSubmit, Inv, Job
    <2> QED BY <1>1, <2>1 DEF CommitSubmit, Filed, Inv
  <1>2. ASSUME NEW t \in Tx, FinishDecide(t) PROVE Filed' = Filed
    <2>1. tx[t].target # "none" /\ tx[t].request \in Filed
      BY <1>2 DEF FinishDecide, Inv, Job, Status
    <2> QED BY <1>2, <2>1 DEF FinishDecide, Filed, Inv, RequestRow
  <1>3. CASE UNCHANGED requests
    BY <1>3 DEF Filed
  <1>4. \/ UNCHANGED requests
        \/ \E t \in Tx : CommitSubmit(t) \/ FinishDecide(t)
    BY DEF Next, Submit, Staff, Abort, vars, TablesUnchanged, StartSubmit, LookByEmail,
           LookByPhone, AddCustomer, TakeNumber, InsertNumber, StartEnter, StartEdit,
           StartDecide, FinishEnter, FinishEdit
  <1> QED BY <1>1, <1>2, <1>3, <1>4

(* What the other handlers do leaves a handler as it is.                     *)
LEMMA OneMoves ==
  ASSUME Inv, NEW t \in Tx, Submit(t) \/ Staff(t) \/ Abort(t)
  PROVE  \A u \in Tx \ {t} : tx'[u] = tx[u]
  <1>1. \E job : tx' = [tx EXCEPT ![t] = job]
    BY DEF Submit, Staff, Abort, StartSubmit, LookByEmail, LookByPhone, AddCustomer,
         TakeNumber, InsertNumber, CommitSubmit, Collide, Match, StartEnter, FinishEnter,
         StartEdit, FinishEdit, StartDecide, FinishDecide, Begin, Become, End
  <1> QED BY SMTT(30), <1>1 DEF Inv

(* What a step of a submission other than its commit makes of its handler.   *)
LEMMA QuietSubmit ==
  ASSUME Inv, NEW t \in Tx, Submit(t), ~CommitSubmit(t)
  PROVE  /\ TablesUnchanged /\ tx[t].at # "deciding" /\ tx'[t].at # "deciding"
         /\ tx'[t].at = "filed" => tx'[t].number \notin Filed
  <1>1. tx[t].at \in SubmitAt => tx[t] \in SubmissionJob
    BY DEF Inv, Job
  <1>2. \A j : tx' = [tx EXCEPT ![t] = j] => tx'[t] = j
    BY DEF Inv
  <1>3. Idle.at = "idle" /\ Refused.at = "refused"
    BY DEF Idle, Refused
  <1>4. CASE \E given \in Contact : StartSubmit(t, given)
    <2>1. PICK given \in Contact : StartSubmit(t, given)
      BY <1>4
    <2> DEFINE job == Submission("by email", given, Nothing, FALSE, 0, 0, 0)
    <2>2. job.at = "by email"
      BY DEF Submission
    <2> HIDE DEF job
    <2>3. tx'[t] = job /\ tx[t] \in {Idle, Refused} /\ TablesUnchanged
      BY <1>2, <2>1 DEF StartSubmit, Begin, job
    <2> QED BY <1>3, <2>2, <2>3
  <1>5. CASE LookByEmail(t) \/ LookByPhone(t) \/ AddCustomer(t)
    <2>1. tx[t].at \in {"by email", "by phone", "adding"} /\ tx[t] \in SubmissionJob /\ TablesUnchanged
      BY <1>1, <1>5 DEF LookByEmail, LookByPhone, AddCustomer, SubmitAt
    <2>2. \/ tx'[t] = Idle
          \/ \E where \in {"by phone", "adding"} : tx'[t] = [tx[t] EXCEPT !.at = where]
          \/ \E c \in Known : tx'[t] = [tx[t] EXCEPT !.at = "numbering", !.customer = c]
          \/ tx'[t] = [tx[t] EXCEPT !.at = "numbering", !.new = TRUE]
      <3>1. CASE LookByEmail(t)
        BY <1>2, <3>1 DEF LookByEmail, Match, Become, End, WithEmail
      <3>2. CASE LookByPhone(t)
        BY <1>2, <3>2 DEF LookByPhone, Match, Become, End, WithPhone
      <3>3. CASE AddCustomer(t)
        BY <1>2, <3>3 DEF AddCustomer, Become, End
      <3> QED BY <1>5, <3>1, <3>2, <3>3
    <2>3. tx'[t].at \in {"idle", "by phone", "adding", "numbering"}
      BY <1>3, <2>1, <2>2 DEF SubmissionJob
    <2> QED BY <2>1, <2>3
  <1>6. CASE TakeNumber(t)
    <2>1. tx[t].at = "numbering" /\ tx[t] \in SubmissionJob /\ TablesUnchanged
      BY <1>1, <1>6 DEF TakeNumber, SubmitAt
    <2>2. tx'[t] = [tx[t] EXCEPT !.at = "inserting", !.number = NextNumber(Filed),
                             !.seen = IF tx[t].tries = 0 THEN Cardinality(Filed) ELSE @]
      BY <1>2, <1>6 DEF TakeNumber, Become
    <2>3. tx'[t].at = "inserting"
      BY <2>1, <2>2 DEF SubmissionJob
    <2> QED BY <2>1, <2>3
  <1>7. CASE InsertNumber(t)
    <2>1. tx[t].at = "inserting" /\ tx[t] \in SubmissionJob /\ TablesUnchanged
      BY <1>1, <1>7 DEF InsertNumber, SubmitAt
    <2>2. CASE tx[t].number \in Filed
      <3>1. tx'[t] = Refused \/ tx'[t] = [tx[t] EXCEPT !.at = "numbering", !.tries = @ + 1]
        BY <1>2, <1>7, <2>2 DEF InsertNumber, Collide, Become
      <3>2. tx'[t].at \in {"refused", "numbering"}
        BY <1>3, <2>1, <3>1 DEF SubmissionJob
      <3> QED BY <2>1, <3>2
    <2>3. CASE tx[t].number \notin Filed
      <3>1. tx'[t] = [tx[t] EXCEPT !.at = "filed"]
        BY <1>2, <1>7, <2>3 DEF InsertNumber, Become
      <3>2. tx'[t].at = "filed" /\ tx'[t].number = tx[t].number
        BY <2>1, <3>1 DEF SubmissionJob
      <3> QED BY <2>1, <2>3, <3>2
    <2> QED BY <2>2, <2>3
  <1> QED BY <1>4, <1>5, <1>6, <1>7 DEF Submit

(* Every step keeps the numbers in hand free. *)
LEMMA UnfiledNext == Inv /\ People /\ Unfiled /\ [Next]_vars => Unfiled'
  <1> SUFFICES ASSUME Inv, People, Unfiled, [Next]_vars, NEW t \in Tx, tx'[t].at = "filed"
               PROVE  tx'[t].number \notin Filed'
    BY DEF Unfiled
  <1>1. CASE tx'[t] = tx[t]
    <2>1. tx[t].at = "filed" /\ tx[t].number \notin Filed
      BY <1>1 DEF Unfiled
    <2>2. ASSUME NEW u \in Tx, CommitSubmit(u), Filed' = Filed \cup {tx[u].number}
          PROVE  tx[t].number \notin Filed'
      <3>1. tx[u].at = "filed" /\ tx'[u] = Idle
        BY <2>2 DEF CommitSubmit, End, Become, Inv
      <3>2. u # t
        BY <1>1, <2>1, <3>1 DEF Idle
      <3> QED BY <2>1, <2>2, <3>1, <3>2 DEF People, OwnNumbers
    <2> QED BY <1>1, <2>1, <2>2, FiledGrows
  <1>2. CASE tx'[t] # tx[t]
    <2>1. Submit(t) \/ Staff(t) \/ Abort(t)
      BY <1>2, OneMoves DEF Next, vars
    <2>2. Submit(t) /\ ~CommitSubmit(t)
      <3>1. \A j : tx' = [tx EXCEPT ![t] = j] => tx'[t] = j
        BY DEF Inv
      <3>2. tx'[t] # Idle
        BY DEF Idle
      <3>3. ~CommitSubmit(t) /\ ~Abort(t)
        BY <3>1, <3>2 DEF CommitSubmit, Abort, End, Become
      <3>4. ~Staff(t)
        BY <3>1, <3>2 DEF Staff, StartEnter, StartEdit, StartDecide, FinishEnter, FinishEdit,
             FinishDecide, Begin, End, Become
      <3> QED BY <2>1, <3>3, <3>4
    <2>3. Filed' = Filed /\ tx'[t].number \notin Filed
      BY <2>2, QuietSubmit DEF TablesUnchanged, Filed
    <2> QED BY <2>3
  <1> QED BY <1>1, <1>2

AbstractStep ==
  Register!Change \/ UNCHANGED <<customers, requests, Decided, edited>>

Deciding(n) == {u \in Tx : tx[u].at = "deciding" /\ tx[u].request = n}

(* The rulings are those of the handlers that have decided.                  *)
LEMMA DecidedIs ==
  /\ Decided = [n \in Number |-> {tx[u].target : u \in Deciding(n)}]
  /\ Decided' = [n \in Number |-> {tx'[u].target : u \in Deciding(n)'}]
  BY DEF Decided, Deciding

(* A handler that neither has decided nor decides leaves them.               *)
LEMMA DecidedSame ==
  ASSUME NEW t \in Tx, \A u \in Tx \ {t} : tx'[u] = tx[u],
         tx[t].at # "deciding", tx'[t].at # "deciding"
  PROVE  Decided' = Decided
  <1>1. ASSUME NEW n \in Number
        PROVE  {tx'[u].target : u \in Deciding(n)'} = {tx[u].target : u \in Deciding(n)}
    <2>1. Deciding(n)' = Deciding(n) /\ t \notin Deciding(n)
      BY DEF Deciding
    <2>2. \A u \in Deciding(n) : tx'[u] = tx[u]
      BY <2>1 DEF Deciding
    <2> QED BY <2>1, <2>2
  <1> QED BY <1>1, DecidedIs

(* One that decides adds a ruling. *)
LEMMA DecidedMore ==
  ASSUME NEW t \in Tx, \A u \in Tx \ {t} : tx'[u] = tx[u],
         tx[t].at # "deciding", tx'[t].at = "deciding", tx'[t].request \in Number
  PROVE  Decided' = [Decided EXCEPT ![tx'[t].request] = @ \cup {tx'[t].target}]
  <1>1. ASSUME NEW n \in Number
        PROVE  {tx'[u].target : u \in Deciding(n)'}
               = {tx[u].target : u \in Deciding(n)}
                   \cup (IF n = tx'[t].request THEN {tx'[t].target} ELSE {})
    <2>1. Deciding(n)' = Deciding(n) \cup (IF n = tx'[t].request THEN {t} ELSE {})
          /\ t \notin Deciding(n)
      BY DEF Deciding
    <2>2. \A u \in Deciding(n) : tx'[u] = tx[u]
      BY <2>1 DEF Deciding
    <2> QED BY <2>1, <2>2
  <1> QED BY <1>1, DecidedIs

(* One that has decided and ends takes its ruling with it, unless another    *)
(* has decided the same.                                                     *)
LEMMA DecidedLess ==
  ASSUME NEW t \in Tx, \A u \in Tx \ {t} : tx'[u] = tx[u],
         tx[t].at = "deciding", tx'[t].at # "deciding", tx[t].request \in Number
  PROVE  /\ tx[t].target \in Decided[tx[t].request]
         /\ Decided' \in {Decided, [Decided EXCEPT ![tx[t].request] = @ \ {tx[t].target}]}
  <1> DEFINE m == tx[t].request
             left == {tx[u].target : u \in Deciding(m) \ {t}}
  <1>1. t \in Deciding(m)
    BY DEF Deciding
  <1>2. ASSUME NEW n \in Number
        PROVE  {tx'[u].target : u \in Deciding(n)'}
               = IF n = m THEN left ELSE {tx[u].target : u \in Deciding(n)}
    <2>1. Deciding(n)' = IF n = m THEN Deciding(m) \ {t} ELSE Deciding(n)
      BY DEF Deciding
    <2>2. \A u \in Deciding(n)' : tx'[u] = tx[u]
      BY DEF Deciding
    <2> QED BY <2>1, <2>2
  <1>3. {tx[u].target : u \in Deciding(m)} = left \cup {tx[t].target}
    BY <1>1
  <1>4. tx[t].target \in left => left = {tx[u].target : u \in Deciding(m)}
    BY <1>3
  <1>5. tx[t].target \notin left => left = {tx[u].target : u \in Deciding(m)} \ {tx[t].target}
    BY <1>3
  <1> HIDE DEF left
  <1>6. Decided[m] = left \cup {tx[t].target}
    BY <1>3, DecidedIs
  <1>7. CASE tx[t].target \in left
    <2>1. Decided' = Decided
      BY <1>2, <1>4, <1>7, DecidedIs
    <2> QED BY <1>6, <2>1
  <1>8. CASE tx[t].target \notin left
    <2>1. Decided' = [Decided EXCEPT ![m] = @ \ {tx[t].target}]
      BY <1>2, <1>5, <1>8, DecidedIs
    <2> QED BY <1>6, <2>1
  <1> QED BY <1>7, <1>8

(* An email that nobody has, and the customer that is recorded with it.      *)
LEMMA NewcomerRecorded ==
  ASSUME NEW c \in Customer, c \notin Known, NEW given \in Contact, WithEmail(given.email) = {},
         customers' = [customers EXCEPT ![c] =
                         [status |-> "active", email |-> given.email, phone |-> given.phone]]
  PROVE  ~Register!Recorded(c) /\ Register!Record(c, given)
  BY DEF Known, WithEmail, Register!Recorded, Register!Record, Register!Free

(* The commit files the next number, for a customer who shares a contact or  *)
(* for one that it records.                                                  *)
LEMMA CommitMaps ==
  ASSUME Inv, People, Unfiled, NEW t \in Tx, CommitSubmit(t), [Next]_vars
  PROVE  AbstractStep
  <1> DEFINE n == tx[t].number
             g == tx[t].given
             c == IF tx[t].new THEN FreshCustomer ELSE tx[t].customer
  <1>1. /\ tx[t].at = "filed" /\ Job(tx[t]) /\ Desk(tx[t]) /\ n \notin Filed
        /\ tx[t] \in SubmissionJob
    BY DEF CommitSubmit, Inv, People, Unfiled, Job, SubmitAt
  <1>2. n \in Number /\ \A m \in 1..(n - 1) : m \in Filed
    BY <1>1 DEF Job
  <1>3. g \in Register!Given /\ g \in Contact
    BY <1>1 DEF SubmissionJob, Contact, Register!Given
  <1>4. tx'[t] = Idle /\ \A u \in Tx \ {t} : tx'[u] = tx[u]
    BY DEF CommitSubmit, End, Become, Inv
  <1>5. Decided' = Decided
    BY <1>1, <1>4, DecidedSame DEF Idle
  <1>6. Register!NextFree(n)
    BY <1>1, <1>2 DEF Filed, Register!NextFree, Register!Filed
  <1>7. Register!File(n, c, g)
    BY <1>5, <1>6 DEF CommitSubmit, Register!File
  <1>8. CASE tx[t].new
    <2>1. c \in Customer /\ c \notin Known
      <3>1. \E x \in Customer \ Known : TRUE
        BY <1>8 DEF CommitSubmit, Known
      <3> QED BY <1>8, <3>1 DEF FreshCustomer
    <2>2. WithEmail(g.email) = {}
      BY <1>1, <1>8 DEF Desk, Writing
    <2>3. customers' = [customers EXCEPT ![c] =
                          [status |-> "active", email |-> g.email, phone |-> g.phone]]
      BY <1>8 DEF CommitSubmit
    <2> HIDE DEF c, g, n
    <2>4. Register!FileNew(n, c, g)
      BY <1>3, <1>7, <2>1, <2>2, <2>3, NewcomerRecorded DEF Register!FileNew
    <2> QED BY <1>2, <1>3, <1>6, <2>1, <2>4 DEF AbstractStep, Register!Change
  <1>9. CASE ~tx[t].new
    <2>1. c \in Known /\ Fits(c, g) /\ customers' = customers
      BY <1>1, <1>9 DEF Desk, Writing, CommitSubmit
    <2> HIDE DEF c, g, n
    <2>2. Register!FileKnown(n, c, g)
      BY <1>7, <2>1 DEF Register!FileKnown, Register!Recorded, Register!Shares, Known, Fits
    <2>3. c \in Customer
      BY <2>1 DEF Known
    <2> QED BY <1>2, <1>3, <1>6, <2>2, <2>3 DEF AbstractStep, Register!Change
  <1> QED BY <1>8, <1>9

(* An edit leaves every email to one customer.                               *)
LEMMA EditMaps ==
  ASSUME Inv, People, NEW t \in Tx, FinishEdit(t)
  PROVE  AbstractStep
  <1> DEFINE c == tx[t].customer
             g == tx[t].given
             old == customers[c]
             row == [status |-> Changed(old.status, tx[t].status),
                     email |-> Changed(old.email, g.email),
                     phone |-> Changed(old.phone, g.phone)]
  <1>1. /\ tx[t].at = "editing" /\ c \in Known /\ g \in Correction
        /\ tx[t].status \in {"active", "blocked", Nothing}
    BY DEF FinishEdit, People, Desk
  <1>2. tx'[t] = Idle /\ requests' = requests /\ \A u \in Tx \ {t} : tx'[u] = tx[u]
    BY DEF FinishEdit, End, Become, Inv
  <1>3. Decided' = Decided
    BY <1>1, <1>2, DecidedSame DEF Idle
  <1>4. CASE ~(WithEmail(g.email) \subseteq {c})
    BY <1>2, <1>3, <1>4 DEF FinishEdit, AbstractStep
  <1>5. CASE WithEmail(g.email) \subseteq {c}
    <2>1. old \in CustomerRow /\ old.status # "none" /\ c \in Customer
      BY <1>1 DEF Known, People
    <2>2. row \in Register!Row
      BY <1>1, <2>1, CorrectedRow DEF CustomerRow, Register!Row
    <2>3. row.email \in Email \cup {old.email}
      BY <1>1, ChangedIs, RequestsAssumption DEF Correction
    <2>4. customers' = [customers EXCEPT ![c] = row]
      BY <1>5 DEF FinishEdit
    <2>5. Register!Free(row.email, c)
      <3>1. CASE g.email # Nothing
        <4>1. row.email = g.email
          BY <1>1, <3>1, ChangedIs, RequestsAssumption DEF Correction
        <4> HIDE DEF row, c, g
        <4> QED BY <1>5, <3>1, <4>1 DEF Register!Free, Register!Recorded, WithEmail, Known
      <3>2. CASE g.email = Nothing
        <4>1. row.email = customers[c].email
          BY <3>2, ChangedIs
        <4> HIDE DEF row, c, g
        <4> QED BY <1>1, <4>1 DEF People, OwnEmails, Register!Free, Register!Recorded, Known
      <3> QED BY <3>1, <3>2
    <2>6. \/ edited' = edited \cup {c}
          \/ edited' = edited /\ row.email = old.email /\ row.phone = old.phone
      <3>1. g = NoContact => row.email = old.email /\ row.phone = old.phone
        BY ChangedIs DEF NoContact
      <3> QED BY <1>5, <3>1 DEF FinishEdit
    <2>7. Register!Recorded(c)
      BY <1>1 DEF Register!Recorded, Known
    <2> HIDE DEF c, g, row
    <2>8. Register!Revise(c, row)
      BY <1>2, <1>3, <2>3, <2>4, <2>5, <2>6 DEF Register!Revise
    <2> QED BY <2>1, <2>2, <2>7, <2>8 DEF AbstractStep, Register!Change
  <1> QED BY <1>4, <1>5

(* A customer is entered with an email of their own. *)
LEMMA EnterMaps ==
  ASSUME Inv, People, NEW t \in Tx, FinishEnter(t)
  PROVE  AbstractStep
  <1> DEFINE c == FreshCustomer
             g == tx[t].given
  <1>1. tx[t].at = "entering" /\ g \in Contact /\ g \in Register!Given
    BY DEF FinishEnter, People, Desk, Contact, Register!Given
  <1>2. /\ tx'[t] = Idle /\ UNCHANGED <<requests, edited>>
        /\ \A u \in Tx \ {t} : tx'[u] = tx[u]
    BY DEF FinishEnter, End, Become, Inv
  <1>3. Decided' = Decided
    BY <1>1, <1>2, DecidedSame DEF Idle
  <1>4. CASE WithEmail(g.email) # {}
    BY <1>2, <1>3, <1>4 DEF FinishEnter, AbstractStep
  <1>5. CASE WithEmail(g.email) = {}
    <2>1. c \in Customer /\ c \notin Known
      <3>1. \E x \in Customer \ Known : TRUE
        BY DEF FinishEnter, Known
      <3> QED BY <3>1 DEF FreshCustomer
    <2>2. customers' = [customers EXCEPT ![c] =
                          [status |-> "active", email |-> g.email, phone |-> g.phone]]
      BY <1>5 DEF FinishEnter
    <2> HIDE DEF c, g
    <2>3. ~Register!Recorded(c) /\ Register!Record(c, g)
      BY <1>1, <1>5, <2>1, <2>2, NewcomerRecorded
    <2> QED BY <1>1, <1>2, <1>3, <2>1, <2>3
        DEF AbstractStep, Register!Change, Register!Enter
  <1> QED BY <1>4, <1>5

(* What is written was decided on a status the request had.                  *)
LEMMA DecisionMaps ==
  ASSUME Inv, NEW t \in Tx, tx[t].at = "deciding", FinishDecide(t) \/ Abort(t)
  PROVE  AbstractStep
  <1> DEFINE n == tx[t].request
             target == tx[t].target
  <1>1. n \in Filed /\ n \in Number
    BY DEF Inv, Job, Filed
  <1>2. tx'[t] = Idle /\ \A u \in Tx \ {t} : tx'[u] = tx[u]
    BY DEF FinishDecide, Abort, End, Become, Inv
  <1>3. /\ target \in Decided[n]
        /\ Decided' \in {Decided, [Decided EXCEPT ![n] = @ \ {target}]}
    BY <1>1, <1>2, DecidedLess DEF Idle
  <1>4. Register!Close(n, target)
    BY <1>3 DEF FinishDecide, Abort, TablesUnchanged, Register!Close
  <1>5. Register!CarryOut(n, target) \/ Register!Withdraw(n, target)
    <2>1. \/ requests' = [requests EXCEPT ![n].status = target]
          \/ requests' = requests
      BY DEF FinishDecide, Abort, TablesUnchanged
    <2> QED BY <1>4, <2>1 DEF Register!CarryOut, Register!Withdraw
  <1>6. Register!Filed(n)
    BY <1>1 DEF Filed, Register!Filed
  <1> QED BY <1>1, <1>3, <1>5, <1>6 DEF AbstractStep, Register!Change

(* A decision is taken on the status the request has. *)
LEMMA RulingMaps ==
  ASSUME Inv, NEW t \in Tx, NEW n, NEW target, StartDecide(t, n, target)
  PROVE  AbstractStep
  <1> DEFINE job == [at |-> "deciding", request |-> n, target |-> target]
  <1>1. /\ n \in Filed /\ n \in Number /\ target \in Transitions[requests[n].status]
        /\ tx[t] \in {Idle, Refused} /\ tx'[t] = job /\ TablesUnchanged
        /\ \A u \in Tx \ {t} : tx'[u] = tx[u]
    BY DEF StartDecide, Begin, Inv, Filed
  <1>2. tx[t].at # "deciding"
    BY <1>1 DEF Idle, Refused
  <1>3. Decided' = [Decided EXCEPT ![n] = @ \cup {target}]
    <2>1. tx'[t].at = "deciding" /\ tx'[t].request = n /\ tx'[t].target = target
      BY <1>1
    <2> QED BY <1>1, <1>2, <2>1, DecidedMore
  <1>4. Register!Rule(n, target) /\ Register!Filed(n)
    BY <1>1, <1>3 DEF Register!Rule, Register!Filed, TablesUnchanged, Filed
  <1> QED BY <1>1, <1>4 DEF AbstractStep, Register!Change

(* Every step of the desk is one of the registry, or is not seen there.      *)
LEMMA StepMaps ==
  ASSUME Inv, People, Unfiled, [Next]_vars
  PROVE  AbstractStep
  <1>1. ASSUME NEW t \in Tx, Submit(t) \/ Staff(t) \/ Abort(t), TablesUnchanged,
               tx[t].at # "deciding", tx'[t].at # "deciding"
        PROVE  AbstractStep
    <2>1. Decided' = Decided
      BY <1>1, OneMoves, DecidedSame
    <2> QED BY <1>1, <2>1 DEF AbstractStep, TablesUnchanged
  <1>2. ASSUME NEW t \in Tx, Submit(t) PROVE AbstractStep
    BY <1>1, <1>2, CommitMaps, QuietSubmit
  <1>3. ASSUME NEW t \in Tx, Abort(t) PROVE AbstractStep
    <2>1. CASE tx[t].at = "deciding"
      BY <1>3, <2>1, DecisionMaps
    <2>2. CASE tx[t].at # "deciding"
      <3>1. tx'[t].at # "deciding" /\ TablesUnchanged
        BY <1>3 DEF Abort, End, Become, Inv, Idle
      <3> QED BY <1>1, <1>3, <2>2, <3>1
    <2> QED BY <2>1, <2>2
  <1>4. ASSUME NEW t \in Tx, Staff(t) PROVE AbstractStep
    <2>1. ASSUME NEW given,
                 \/ StartEnter(t, given)
                 \/ \E c, status : StartEdit(t, c, given, status)
          PROVE  AbstractStep
      <3>1. tx[t] \in {Idle, Refused} /\ TablesUnchanged /\ tx'[t].at \in {"entering", "editing"}
        BY <2>1 DEF StartEnter, StartEdit, Begin, Inv
      <3>2. tx[t].at # "deciding"
        BY <3>1 DEF Idle, Refused
      <3> QED BY <1>1, <1>4, <3>1, <3>2
    <2>2. FinishDecide(t) => tx[t].at = "deciding"
      BY DEF FinishDecide
    <2> QED BY <1>4, <2>1, <2>2, EnterMaps, EditMaps, DecisionMaps, RulingMaps DEF Staff
  <1>5. CASE UNCHANGED vars
    BY <1>5 DEF vars, AbstractStep, Decided
  <1> QED BY <1>2, <1>3, <1>4, <1>5 DEF Next

(* In the beginning the registry is empty. *)
LEMMA RegistryBegins == Init => Register!RegistryInit /\ Unfiled
  <1> SUFFICES ASSUME Init PROVE Register!RegistryInit /\ Unfiled
    OBVIOUS
  <1>1. \A t \in Tx : tx[t].at = "idle"
    BY DEF Init, Idle
  <1>2. Decided = [n \in Number |-> {}]
    BY <1>1 DEF Decided
  <1> QED BY <1>1, <1>2 DEF Init, NoCustomer, NoRequest, NoContact, Unfiled,
        Register!RegistryInit, Register!Nobody, Register!NoFile

(* The request desk implements Registry: each submission takes the next free *)
(* reference together with its customer, an email belongs to one customer,   *)
(* an email is replaced and not removed, and a status is only ever written  *)
(* that the transition table allows after one the request had, however many  *)
(* handlers submit, enter, edit and decide at once, collide, retry or fail   *)
(* (submit_request, create_customer, update_customer, change_status).        *)
THEOREM RequestsImplementRegistry == Spec => ImplementsRegistry
  <1>1. Inv /\ People /\ Unfiled /\ [Next]_vars
          => [Register!RegistryNext]_<<customers, requests, Decided, edited>>
    BY StepMaps DEF AbstractStep, Register!RegistryNext, Register!registryVars
  <1> QED BY <1>1, InvInit, InvNext, PeopleInit, PeopleNext, RegistryBegins, UnfiledNext, PTL
      DEF Spec, ImplementsRegistry, Register!Spec, Register!registryVars
=============================================================================
