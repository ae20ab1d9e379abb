------------------------------ MODULE Requests ------------------------------
(***************************************************************************)
(* Custom requests and the customer records they are filed under.          *)
(*                                                                         *)
(* tx[t] is a request handler with its database transaction, READ          *)
(* COMMITTED: a statement sees what is committed.  A submission flushes a   *)
(* new customer and then a new number, and commits later; another one that *)
(* inserts the same email or number meanwhile waits for it, and fails if   *)
(* it commits.  Staff read, and write and commit in a later step.          *)
(***************************************************************************)
EXTENDS References, FiniteSets

CONSTANTS Tx, Email, Phone,
          Nothing,       \* a contact that was not given
          Blank,         \* an empty text, given by staff as a new phone
          MaxAttempts,   \* of run_with_unique_retry
          MaxCustomer,   \* bound: customer records
          MaxNumber,     \* bound: submissions that may ever be filed
          MaxDecided,    \* bound: the first requests, that staff decide on
          Target,        \* bound: the statuses that staff decide for
          MaxEdited,     \* bound: the first customers, that staff edit
          Few            \* bound: whether staff do one thing at a time (see Staff)

Status == {"submitted", "under_review", "needs_information", "quotation_pending",
           "cancelled", "converted"}

ASSUME RequestsAssumption ==
  /\ Nothing \notin Email \cup Phone
  /\ Blank \notin Email \cup Phone \cup {Nothing, "active", "blocked"}
  /\ MaxAttempts \in Nat \ {0}
  /\ {MaxCustomer, MaxNumber, MaxDecided, MaxEdited} \subseteq Nat
  /\ Target \subseteq Status
  /\ Few \in BOOLEAN

Customer == 1..MaxCustomer
Number == 1..MaxNumber

VARIABLES customers,   \* [Customer -> the committed row]
          requests,    \* [Number -> the committed row of that reference]
          tx,          \* [Tx -> what it does, and has read]
          edited       \* history: customers whose contacts staff have changed

vars == <<customers, requests, tx, edited>>

Contact == [email : Email \cup {Nothing}, phone : Phone \cup {Nothing}]
Correction == [email : Email \cup {Nothing}, phone : Phone \cup {Nothing, Blank}]
NoContact == [email |-> Nothing, phone |-> Nothing]
NoCustomer == [status |-> "none", email |-> Nothing, phone |-> Nothing]
NoRequest == [status |-> "none", customer |-> Nothing, given |-> NoContact]
Idle == [at |-> "idle"]
Refused == [at |-> "refused"]     \* ended by "Concurrent creation conflict"

Transitions ==
  [from \in Status |->
    CASE from = "submitted" -> {"under_review", "cancelled"}
      [] from = "under_review" -> {"needs_information", "quotation_pending", "cancelled"}
      [] from = "needs_information" -> {"under_review", "cancelled"}
      [] from = "quotation_pending" -> {"converted", "cancelled"}
      [] OTHER -> {}]

Known == {c \in Customer : customers[c].status # "none"}
Filed == {n \in Number : requests[n].status # "none"}

(* Flushed by t and not yet committed. *)
Adds(t) == tx[t].at \in {"numbering", "inserting", "filed"} /\ tx[t].new
Holds(t, email) == email # Nothing /\ Adds(t) /\ tx[t].given.email = email
Inserted == {tx[t].number : t \in {u \in Tx : tx[u].at = "filed"}}

Init ==
  /\ customers = [c \in Customer |-> NoCustomer]
  /\ requests = [n \in Number |-> NoRequest]
  /\ tx = [t \in Tx |-> Idle]
  /\ edited = {}

Begin(t, job) == tx[t] \in {Idle, Refused} /\ tx' = [tx EXCEPT ![t] = job]
Become(t, job) == tx' = [tx EXCEPT ![t] = job]
End(t) == Become(t, Idle)
TablesUnchanged == UNCHANGED <<customers, requests, edited>>

-----------------------------------------------------------------------------
(* A submission looks for its customer by email first, then by phone. *)

WithEmail(email) == {c \in Known : email # Nothing /\ customers[c].email = email}

(* Mutant: a phone that was not given is looked for like any other. *)
WithPhone_AnyOf(phone) == {c \in Known : customers[c].phone = phone}

WithPhone(phone) == {c \in Known : phone # Nothing /\ customers[c].phone = phone}

Submission(where, given, customer, new, number, tries, seen) ==
  [at |-> where, given |-> given, customer |-> customer, new |-> new,
   number |-> number, tries |-> tries, seen |-> seen]

StartSubmit(t, given) ==
  /\ Begin(t, Submission("by email", given, Nothing, FALSE, 0, 0, 0))
  /\ TablesUnchanged

(* The customer is c: a blocked one is refused. *)
Match(t, c) ==
  IF customers[c].status = "blocked" THEN End(t)
  ELSE Become(t, [tx[t] EXCEPT !.at = "numbering", !.customer = c])

LookByEmail(t) ==
  /\ tx[t].at = "by email"
  /\ LET found == WithEmail(tx[t].given.email)
     IN  IF found = {} THEN Become(t, [tx[t] EXCEPT !.at = "by phone"])
         ELSE \E c \in found : Match(t, c)
  /\ TablesUnchanged

(* With several customers of that phone the query fails, and the request.   *)
LookByPhone(t) ==
  /\ tx[t].at = "by phone"
  /\ LET found == WithPhone(tx[t].given.phone)
     IN  CASE found = {} -> Become(t, [tx[t] EXCEPT !.at = "adding"])
           [] Cardinality(found) > 1 -> End(t)
           [] OTHER -> \E c \in found : Match(t, c)
  /\ TablesUnchanged

(* Mutant: inserts although another transaction has the email. *)
AddCustomer_NoWait(t) ==
  /\ tx[t].at = "adding"
  /\ IF WithEmail(tx[t].given.email) # {} THEN End(t)
     ELSE Become(t, [tx[t] EXCEPT !.at = "numbering", !.new = TRUE])
  /\ TablesUnchanged

(* Inserts a customer of its own; fails if the email is taken by now. *)
AddCustomer(t) ==
  /\ tx[t].at = "adding"
  /\ \A u \in Tx \ {t} : ~Holds(u, tx[t].given.email)
  /\ IF WithEmail(tx[t].given.email) # {} THEN End(t)
     ELSE Become(t, [tx[t] EXCEPT !.at = "numbering", !.new = TRUE])
  /\ TablesUnchanged

-----------------------------------------------------------------------------
(* Then it takes a number, in up to MaxAttempts attempts. *)

(* Mutant: as from a sequence, a number that is not committed yet counts. *)
TakeNumber_Sequence(t) ==
  /\ tx[t].at = "numbering"
  /\ Become(t, [tx[t] EXCEPT !.at = "inserting", !.number = NextNumber(Filed \cup Inserted),
                             !.seen = IF tx[t].tries = 0 THEN Cardinality(Filed) ELSE @])
  /\ TablesUnchanged

TakeNumber(t) ==
  /\ tx[t].at = "numbering"
  /\ Become(t, [tx[t] EXCEPT !.at = "inserting", !.number = NextNumber(Filed),
                             !.seen = IF tx[t].tries = 0 THEN Cardinality(Filed) ELSE @])
  /\ TablesUnchanged

(* Mutant: the last attempt is not made. *)
Collide_Early(t) ==
  IF tx[t].tries + 2 >= MaxAttempts THEN Become(t, Refused)
  ELSE Become(t, [tx[t] EXCEPT !.at = "numbering", !.tries = @ + 1])

(* A unique violation: the savepoint is rolled back.  The last one refuses   *)
(* the submission, and rolls back its customer too.                         *)
Collide(t) ==
  IF tx[t].tries + 1 = MaxAttempts THEN Become(t, Refused)
  ELSE Become(t, [tx[t] EXCEPT !.at = "numbering", !.tries = @ + 1])

InsertNumber(t) ==
  /\ tx[t].at = "inserting"
  /\ tx[t].number \notin Inserted
  /\ tx[t].number \in Number       \* the bound
  /\ IF tx[t].number \in Filed THEN Collide(t)
     ELSE Become(t, [tx[t] EXCEPT !.at = "filed"])
  /\ TablesUnchanged

FreshCustomer == CHOOSE c \in Customer \ Known : TRUE

CommitSubmit(t) ==
  /\ tx[t].at = "filed"
  /\ tx[t].new => Known # Customer      \* the bound
  /\ LET c == IF tx[t].new THEN FreshCustomer ELSE tx[t].customer
     IN  /\ customers' = IF tx[t].new
                         THEN [customers EXCEPT ![c] =
                                 [status |-> "active", email |-> tx[t].given.email,
                                  phone |-> tx[t].given.phone]]
                         ELSE customers
         /\ requests' = [requests EXCEPT ![tx[t].number] =
                           [status |-> "submitted", customer |-> c,
                            given |-> tx[t].given]]
  /\ End(t)
  /\ UNCHANGED edited

(* The connection is lost, or the handler fails. *)
Abort(t) ==
  /\ tx[t] \notin {Idle, Refused}
  /\ End(t)
  /\ TablesUnchanged

-----------------------------------------------------------------------------
(* Staff. *)

(* A customer is entered: refused if the email is known, by the check or by *)
(* the insertion, which every attempt repeats.  Nobody looks at the phone.  *)
StartEnter(t, given) ==
  /\ WithEmail(given.email) = {}
  /\ Begin(t, [at |-> "entering", given |-> given])
  /\ TablesUnchanged

FinishEnter(t) ==
  /\ tx[t].at = "entering"
  /\ \A u \in Tx \ {t} : ~Holds(u, tx[t].given.email)
  /\ Known # Customer       \* the bound
  /\ customers' = IF WithEmail(tx[t].given.email) # {} THEN customers
                  ELSE [customers EXCEPT ![FreshCustomer] =
                          [status |-> "active", email |-> tx[t].given.email,
                           phone |-> tx[t].given.phone]]
  /\ End(t)
  /\ UNCHANGED <<requests, edited>>

(* A customer is edited.  Nothing is a field left as it is, or given as it   *)
(* is.  An email can be replaced and not removed.  An empty phone is written, *)
(* and the look-up never finds it: it is recorded as no phone.              *)
StartEdit(t, c, given, status) ==
  /\ c \in Known
  /\ given.email \in Email => WithEmail(given.email) = {}
  /\ given.phone \in Phone => given.phone # customers[c].phone
  /\ given.phone = Blank => customers[c].phone # Nothing
  /\ status # customers[c].status
  /\ Begin(t, [at |-> "editing", customer |-> c, given |-> given, status |-> status])
  /\ TablesUnchanged

Changed(old, new) ==
  CASE new = Nothing -> old
    [] new = Blank -> Nothing
    [] OTHER -> new

FinishEdit(t) ==
  /\ tx[t].at = "editing"
  /\ \A u \in Tx \ {t} : ~Holds(u, tx[t].given.email)
  /\ LET c == tx[t].customer
     IN  IF WithEmail(tx[t].given.email) \subseteq {c}
         THEN /\ customers' = [customers EXCEPT ![c] =
                   [status |-> Changed(@.status, tx[t].status),
                    email |-> Changed(@.email, tx[t].given.email),
                    phone |-> Changed(@.phone, tx[t].given.phone)]]
              /\ edited' = IF tx[t].given = NoContact
                           THEN edited ELSE edited \cup {c}
         ELSE UNCHANGED <<customers, edited>>
  /\ End(t)
  /\ UNCHANGED requests

(* The status of a request is changed, if the status read allows it. *)
StartDecide(t, n, target) ==
  /\ n \in Filed
  /\ target \in Transitions[requests[n].status]
  /\ Begin(t, [at |-> "deciding", request |-> n, target |-> target])
  /\ TablesUnchanged

FinishDecide(t) ==
  /\ tx[t].at = "deciding"
  /\ requests' = [requests EXCEPT ![tx[t].request].status = tx[t].target]
  /\ End(t)
  /\ UNCHANGED <<customers, edited>>

-----------------------------------------------------------------------------
Submit(t) ==
  \/ \E given \in Contact : StartSubmit(t, given)
  \/ LookByEmail(t) \/ LookByPhone(t) \/ AddCustomer(t)
  \/ TakeNumber(t) \/ InsertNumber(t) \/ CommitSubmit(t)

(* With Few, staff enter a customer with one contact, change one field of a  *)
(* customer at a time, and edit customers or decide on requests, which have  *)
(* no field in common, and not both.                                         *)
Fields(given) == Cardinality({field \in {"email", "phone"} : given[field] # Nothing})
OneContact(given) == Few => Fields(given) = 1
OneField(given, status) == Few => Fields(given) + (IF status = Nothing THEN 0 ELSE 1) = 1
Unedited == Few => edited = {} /\ \A c \in Known : customers[c].status = "active"
Undecided == Few => \A n \in Filed : requests[n].status = "submitted"

Staff(t) ==
  \/ \E given \in Contact : OneContact(given) /\ StartEnter(t, given)
  \/ \E given \in Correction, c \in 1..MaxEdited, status \in {"active", "blocked", Nothing} :
       Undecided /\ OneField(given, status) /\ StartEdit(t, c, given, status)
  \/ FinishEnter(t) \/ FinishEdit(t)
  \/ \E n \in 1..MaxDecided, target \in Target : Unedited /\ StartDecide(t, n, target)
  \/ FinishDecide(t)

Next == \E t \in Tx : Submit(t) \/ Staff(t) \/ Abort(t)

Spec == Init /\ [][Next]_vars

-----------------------------------------------------------------------------
(* Properties. *)

CustomerRow == [status : {"none", "active", "blocked"}, email : Email \cup {Nothing},
                phone : Phone \cup {Nothing}]

TypeOK ==
  /\ customers \in [Customer -> CustomerRow]
  /\ \A c, d \in Known : customers[c].email = customers[d].email => c = d \/ customers[c].email = Nothing
  /\ \A n \in Number : /\ requests[n].status \in Status \cup {"none"}
                       /\ requests[n].customer \in Known \cup {Nothing}
  /\ \A t, u \in Tx : t # u /\ tx[t].at = "filed" /\ tx[u].at = "filed"
                        => tx[t].number # tx[u].number
  /\ edited \subseteq Known

(* The references that have been given out are the first ones: whatever     *)
(* collides, fails or is given up leaves no gap (next_custom_request_        *)
(* reference, run_with_unique_retry).                                       *)
Gapless == \A n \in Filed : \A m \in 1..n : m \in Filed

(* A submission that is refused because of its number has lost it to         *)
(* MaxAttempts others that were filed since it first looked for one: "the       *)
(* second attempt re-reads the committed maximum" (run_with_unique_retry).   *)
RefusedOnlyByRivals ==
  [][\A t \in Tx :
       tx[t] # Refused /\ tx'[t] = Refused
         => Cardinality(Filed) - tx[t].seen >= MaxAttempts]_vars

(* A request is filed under a customer with whom it shares a contact; or,    *)
(* without any, under a new one: never with a stranger's (find_matching_     *)
(* customer), as far as staff left the contacts alone.                      *)
FiledUnderMatch ==
  [][\A t \in Tx :
       tx[t].at = "filed" /\ requests' # requests /\ tx'[t] = Idle =>
         LET c == requests'[tx[t].number].customer
             g == tx[t].given
         IN  \/ c \notin Known \/ c \in edited
             \/ g.email # Nothing /\ g.email = customers[c].email
             \/ g.phone # Nothing /\ g.phone = customers[c].phone]_vars

(* The desk keeps the promises of Registry: a submission and its customer,   *)
(* an edit, a decision each take effect in one step, whatever its handlers   *)
(* have read before and whoever commits in between.  What staff have decided *)
(* on a status that they read is a ruling until they write it.               *)
Decided ==
  [n \in Number |-> {tx[t].target : t \in {u \in Tx : tx[u].at = "deciding" /\ tx[u].request = n}}]

Register == INSTANCE Registry WITH
  people <- customers, file <- requests, rulings <- Decided, revised <- edited

ImplementsRegistry == Register!Spec
=============================================================================
