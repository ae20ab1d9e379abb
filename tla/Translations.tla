---------------------------- MODULE Translations ----------------------------
(***************************************************************************)
(* The translations of a category or product into one other language       *)
(* (catalog_admin.py), and what a visitor reads (catalog_public.py).       *)
(*                                                                         *)
(* A translation is a row with a name and a description.  A request first  *)
(* looks for the row, without a lock: it then inserts one, or writes the   *)
(* columns that differ, or deletes the row it has found.                   *)
(***************************************************************************)
EXTENDS Naturals

CONSTANTS Translator,
          Text,       \* names and descriptions of translations; 0 is the base row's
          MaxRows     \* bound: rows ever inserted

ASSUME TranslationsAssumption == 0 \notin Text /\ MaxRows \in Nat

VARIABLES row,        \* the row, or NoRow
          inserted,   \* how many there have been: the identity of a row
          sent,       \* history: the names with descriptions that were sent
          mixed,      \* history: the row was written by requests that overlapped
          put         \* [Translator -> what the request has found]

translationVars == <<row, inserted, sent, mixed, put>>

NoTranslation == [id |-> 0, name |-> 0, description |-> 0]
NoPut == [at |-> "none"]

TranslationsInit ==
  /\ row = NoTranslation /\ inserted = 0
  /\ sent = {<<0, 0>>} /\ mixed = FALSE
  /\ put = [t \in Translator |-> NoPut]

Answered(t) == put' = [put EXCEPT ![t] = NoPut]

FindRow(t) ==
  /\ put[t] = NoPut
  /\ put' = [put EXCEPT ![t] = [at |-> "found", row |-> row]]
  /\ UNCHANGED <<row, inserted, sent, mixed>>

(* A second row for the language is refused by the unique constraint: 500. *)
InsertTranslation(t, name, description) ==
  /\ put[t].at = "found" /\ put[t].row = NoTranslation
  /\ IF row # NoTranslation
     THEN UNCHANGED <<row, inserted, mixed>>
     ELSE /\ inserted < MaxRows
          /\ row' = [id |-> inserted + 1, name |-> name, description |-> description]
          /\ inserted' = inserted + 1
          /\ mixed' = FALSE
  /\ sent' = sent \cup {<<name, description>>}
  /\ Answered(t)

Column(read, stored, new) == IF new = read THEN stored ELSE new

(* UPDATE of the columns in which the request differs from the row that it *)
(* has found; when that row is gone and some differ, it fails: 500.        *)
UpdateTranslation(t, name, description) ==
  /\ put[t].at = "found" /\ put[t].row # NoTranslation
  /\ LET read == put[t].row
     IN  IF row.id # read.id
         THEN UNCHANGED <<row, mixed>>
         ELSE /\ row' = [id |-> row.id,
                         name |-> Column(read.name, row.name, name),
                         description |-> Column(read.description, row.description, description)]
              /\ mixed' = (row # read)
  /\ sent' = sent \cup {<<name, description>>}
  /\ Answered(t)
  /\ UNCHANGED inserted

(* Another row of the same language stays, and the answer is 204 anyway.   *)
DeleteTranslation(t) ==
  /\ put[t].at = "found" /\ put[t].row # NoTranslation
  /\ row' = IF row.id = put[t].row.id THEN NoTranslation ELSE row
  /\ mixed' = (mixed /\ row' = row)
  /\ Answered(t)
  /\ UNCHANGED <<inserted, sent>>

(* Nothing to delete (404), or the request fails otherwise. *)
DropPut(t) ==
  /\ put[t] # NoPut
  /\ Answered(t)
  /\ UNCHANGED <<row, inserted, sent, mixed>>

TranslationsNext ==
  \E t \in Translator :
    \/ FindRow(t) \/ DeleteTranslation(t) \/ DropPut(t)
    \/ \E name, description \in Text :
         \/ InsertTranslation(t, name, description)
         \/ UpdateTranslation(t, name, description)

(* The name and the description a visitor reads; in English they are those *)
(* of the product or category itself, whatever has been translated.        *)
Shown(locale) ==
  IF locale = "en" \/ row = NoTranslation THEN <<0, 0>> ELSE <<row.name, row.description>>

TranslationsSpec == TranslationsInit /\ [][TranslationsNext]_translationVars

-----------------------------------------------------------------------------
TranslationsTypeOK ==
  /\ row = NoTranslation \/ row \in [id : 1 .. inserted, name : Text, description : Text]
  /\ sent \subseteq (Text \cup {0}) \X (Text \cup {0})
  /\ inserted \in Nat /\ mixed \in BOOLEAN
  /\ \A t \in Translator : put[t].at \in {"none", "found"}

(* A visitor reads a name with a description that was sent together with   *)
(* it, unless two requests wrote the row at once.                          *)
TranslationsWhole == \A locale \in {"en", "fr"} : mixed \/ Shown(locale) \in sent
=============================================================================
