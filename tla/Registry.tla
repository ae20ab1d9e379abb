------------------------------ MODULE Registry ------------------------------
(***************************************************************************)
(* What the request desk promises to the people whose requests it keeps,   *)
(* in one step per change:                                                 *)
(*   - a request gets the first number that is free, once, and with it its *)
(*     customer: one who is known and shares a contact with it, or one who *)
(*     is recorded by the same step, never a stranger and never half;      *)
(*   - an email belongs to one customer, whoever records or edits it;      *)
(*   - an email is replaced and never removed (a phone may be);            *)
(*   - a status is given to a request only if the transition table leads   *)
(*     to it from a status the request had when that was decided.          *)
(* Requests implements this module: see ImplementsRegistry there.          *)
(***************************************************************************)
EXTENDS Naturals

CONSTANTS Customer, Number, Email, Phone, Nothing, Status,
          Transitions   \* [Status -> SUBSET Status]

VARIABLES people,   \* [Customer -> who is recorded under this number]
          file,     \* [Number -> the request of this number]
          rulings,  \* [Number -> SUBSET Status]: decided and not yet carried out
          revised   \* the customers whose contacts staff have changed

registryVars == <<people, file, rulings, revised>>

Given == [email : Email \cup {Nothing}, phone : Phone \cup {Nothing}]
Row == [status : {"active", "blocked"}, email : Email \cup {Nothing}, phone : Phone \cup {Nothing}]
Nobody == [status |-> "none", email |-> Nothing, phone |-> Nothing]
NoFile ==
  [status |-> "none", customer |-> Nothing, given |-> [email |-> Nothing, phone |-> Nothing]]

Recorded(c) == people[c].status # "none"
Filed(n) == file[n].status # "none"

RegistryInit ==
  /\ people = [c \in Customer |-> Nobody]
  /\ file = [n \in Number |-> NoFile]
  /\ rulings = [n \in Number |-> {}]
  /\ revised = {}

(* Nobody but c has this email. *)
Free(email, c) ==
  email # Nothing =>
    \A d \in Customer \ {c} : Recorded(d) => people[d].email # email

Shares(c, given) ==
  \/ given.email # Nothing /\ people[c].email = given.email
  \/ given.phone # Nothing /\ people[c].phone = given.phone

Record(c, given) ==
  /\ Free(given.email, c)
  /\ people' = [people EXCEPT ![c] =
                  [status |-> "active", email |-> given.email, phone |-> given.phone]]

NextFree(n) == ~Filed(n) /\ \A m \in 1..(n - 1) : Filed(m)

File(n, c, given) ==
  /\ NextFree(n)
  /\ file' = [file EXCEPT ![n] = [status |-> "submitted", customer |-> c, given |-> given]]
  /\ UNCHANGED <<rulings, revised>>

FileKnown(n, c, given) ==
  /\ Recorded(c)
  /\ File(n, c, given)
  /\ Shares(c, given) \/ c \in revised
  /\ UNCHANGED people

FileNew(n, c, given) == ~Recorded(c) /\ File(n, c, given) /\ Record(c, given)

Enter(c, given) == Record(c, given) /\ UNCHANGED <<file, rulings, revised>>

(* `row` is what becomes of the customer. *)
Revise(c, row) ==
  /\ row.email \in Email \cup {people[c].email}
  /\ Free(row.email, c)
  /\ people' = [people EXCEPT ![c] = row]
  /\ \/ revised' = revised \cup {c}
     \/ row.email = people[c].email /\ row.phone = people[c].phone /\ revised' = revised
  /\ UNCHANGED <<file, rulings>>

Rule(n, target) ==
  /\ rulings' = [rulings EXCEPT ![n] = @ \cup {target}]
  /\ UNCHANGED <<people, file, revised>>

(* Carried out or withdrawn; the same may have been decided more than once. *)
Close(n, target) ==
  /\ rulings' \in {rulings, [rulings EXCEPT ![n] = @ \ {target}]}
  /\ UNCHANGED <<people, revised>>

CarryOut(n, target) == Close(n, target) /\ file' = [file EXCEPT ![n].status = target]
Withdraw(n, target) == Close(n, target) /\ file' = file

Change ==
  \/ \E n \in Number : NextFree(n) /\
       \E c \in Customer, given \in Given : FileKnown(n, c, given) \/ FileNew(n, c, given)
  \/ \E c \in Customer : ~Recorded(c) /\ \E given \in Given : Enter(c, given)
  \/ \E c \in Customer : Recorded(c) /\ \E row \in Row : Revise(c, row)
  \/ \E n \in Number : Filed(n) /\
       \/ \E target \in Transitions[file[n].status] : Rule(n, target)
       \/ \E target \in rulings[n] : CarryOut(n, target) \/ Withdraw(n, target)

(* A change that changes nothing is none: TLC is spared the search for it.   *)
RegistryNext == registryVars' # registryVars /\ Change

Spec == RegistryInit /\ [][RegistryNext]_registryVars
=============================================================================
