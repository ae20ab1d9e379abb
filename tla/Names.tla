------------------------------- MODULE Names -------------------------------
(***************************************************************************)
(* The names of categories and products: their slugs and the codes of      *)
(* products (references.py, catalog_service.py).                           *)
(*                                                                         *)
(* A slug is derived from the name and numbered when it is taken; a code   *)
(* is one more than the greatest.  Both are looked up without a lock and   *)
(* the unique indexes decide.  A creation that meets a taken one looks     *)
(* them up again, a few times; a change of the name does not, and fails.   *)
(* An insert or update and its commit are one step.                        *)
(***************************************************************************)
EXTENDS References, FiniteSets, Sequences

CONSTANTS Entry, Editor,
          Title,         \* names
          SlugOf,        \* [Title -> slugify of the name, word by word: a
                         \* number is itself, another word has a number instead]
          MaxAttempts    \* of run_with_unique_retry

ASSUME NamesAssumption ==
  /\ IsFiniteSet(Entry) /\ "" \notin Title
  /\ SlugOf \in [Title -> Seq(Nat)]
  /\ MaxAttempts \in Nat \ {0}

VARIABLES table,    \* "products" have codes, "categories" have none
          entry,    \* [Entry -> its row]
          torn,     \* history: renamed over a row that had changed since it was read
          edit      \* [Editor -> how far the request is]

namesVars == <<table, entry, torn, edit>>

NoEntry == [name |-> "", slug |-> <<>>, code |-> 0]
Present == {e \in Entry : entry[e] # NoEntry}
NoEdit == [at |-> "none"]

NamesInit ==
  /\ table \in {"products", "categories"}
  /\ entry = [e \in Entry |-> NoEntry]
  /\ torn = [e \in Entry |-> FALSE]
  /\ edit = [x \in Editor |-> NoEdit]

SlugsOf(entries) == {entry[e].slug : e \in entries}
Codes == {entry[e].code : e \in Present}

Numbered(base, k) == IF k = 1 THEN base ELSE Append(base, k)

(* unique_slug: base, or base-2, base-3, ..., the first that is not taken. *)
UniqueSlug(base, taken) ==
  LET free == {k \in 1 .. Cardinality(taken) + 1 : Numbered(base, k) \notin taken}
  IN  Numbered(base, CHOOSE k \in free : \A j \in free : k <= j)

NextCode == IF table = "products" THEN NextNumber(Codes) ELSE 0

Finish(x) == [edit EXCEPT ![x] = NoEdit]

StartCreate(x, title) ==
  /\ edit[x] = NoEdit
  /\ edit' = [edit EXCEPT ![x] = [at |-> "looking", title |-> title, tried |-> 0]]
  /\ UNCHANGED <<table, entry, torn>>

(* An attempt looks the slug and the code up. *)
Propose(x) ==
  /\ edit[x].at = "looking"
  /\ edit' = [edit EXCEPT ![x] =
       [at |-> "inserting", title |-> @.title, tried |-> @.tried,
        slug |-> UniqueSlug(SlugOf[@.title], SlugsOf(Present)), code |-> NextCode]]
  /\ UNCHANGED <<table, entry, torn>>

Taken(x) ==
  \/ edit[x].slug \in SlugsOf(Present)
  \/ table = "products" /\ edit[x].code \in Codes

Insert(x, e) ==
  /\ edit[x].at = "inserting"
  /\ e \notin Present /\ ~Taken(x)
  /\ entry' = [entry EXCEPT ![e] =
       [name |-> edit[x].title, slug |-> edit[x].slug, code |-> edit[x].code]]
  /\ edit' = Finish(x)
  /\ UNCHANGED <<table, torn>>

(* A unique index refuses: the next attempt, or 409 after the last. *)
Collide(x) ==
  /\ edit[x].at = "inserting" /\ Taken(x)
  /\ edit' = IF edit[x].tried + 1 = MaxAttempts THEN Finish(x)
             ELSE [edit EXCEPT ![x] = [at |-> "looking", title |-> @.title,
                                       tried |-> @.tried + 1]]
  /\ UNCHANGED <<table, entry, torn>>

(* A change of the name reads the row. *)
GetEntry(x, e) ==
  /\ edit[x] = NoEdit
  /\ e \in Present
  /\ edit' = [edit EXCEPT ![x] = [at |-> "reading", entry |-> e, row |-> entry[e]]]
  /\ UNCHANGED <<table, entry, torn>>

(* update_category, update_product: the slug follows a name that differs.  *)
LookUpSlug(x, title) ==
  /\ edit[x].at = "reading"
  /\ title # edit[x].row.name
  /\ edit' = [edit EXCEPT ![x] =
       [at |-> "renaming", entry |-> @.entry, row |-> @.row, title |-> title,
        slug |-> UniqueSlug(SlugOf[title], SlugsOf(Present \ {@.entry}))]]
  /\ UNCHANGED <<table, entry, torn>>

(* The columns that are written: the name. *)
Rename_KeepsSlug(x) ==
  /\ edit[x].at = "renaming"
  /\ LET e == edit[x].entry
     IN  /\ entry' = [entry EXCEPT ![e].name = edit[x].title]
         /\ torn' = [torn EXCEPT ![e] = entry[e] # edit[x].row]
  /\ edit' = Finish(x)
  /\ UNCHANGED table

(* The columns that differ from the row that was read are written: the     *)
(* name, and the slug unless it is the one that was read.  A slug that is  *)
(* taken by now fails the request.                                         *)
Rename(x) ==
  /\ edit[x].at = "renaming"
  /\ LET e == edit[x].entry
         slug == IF edit[x].slug = edit[x].row.slug THEN entry[e].slug ELSE edit[x].slug
     IN  IF slug \in SlugsOf(Present \ {e})
         THEN edit' = Finish(x) /\ UNCHANGED <<entry, torn>>
         ELSE /\ entry' = [entry EXCEPT ![e].name = edit[x].title, ![e].slug = slug]
              /\ torn' = [torn EXCEPT ![e] = entry[e] # edit[x].row]
              /\ edit' = Finish(x)
  /\ UNCHANGED table

(* A request that fails otherwise, or changes no name. *)
Leave(x) ==
  /\ edit[x] # NoEdit
  /\ edit' = Finish(x)
  /\ UNCHANGED <<table, entry, torn>>

NamesNext ==
  \E x \in Editor :
    \/ \E title \in Title : StartCreate(x, title) \/ LookUpSlug(x, title)
    \/ \E e \in Entry : Insert(x, e) \/ GetEntry(x, e)
    \/ Propose(x) \/ Collide(x) \/ Rename(x) \/ Leave(x)

NamesSpec == NamesInit /\ [][NamesNext]_namesVars

-----------------------------------------------------------------------------
NamesTypeOK ==
  /\ table \in {"products", "categories"}
  /\ \A e \in Present : entry[e].name \in Title
  /\ torn \in [Entry -> BOOLEAN]
  /\ \A x \in Editor :
       edit[x].at \in {"none", "looking", "inserting", "reading", "renaming"}

(* Every slug is that of its name, numbered perhaps, and no two are equal; *)
(* only a name that was changed by two requests at once may have the slug  *)
(* of another.                                                             *)
SlugsDerive ==
  \A e \in Present :
    /\ torn[e] \/ \E k \in 1 .. Cardinality(Entry) : entry[e].slug = Numbered(SlugOf[entry[e].name], k)
    /\ entry[e].slug \notin SlugsOf(Present \ {e})
=============================================================================
