---------------------------- MODULE ProductForm ----------------------------
(***************************************************************************)
(* The details form of the product page (products/[id]/page.tsx) and the   *)
(* handler that saves it (catalog_admin.py, catalog_service.py).           *)
(*                                                                         *)
(* A page keeps a draft of every field and sends all of them.  Each answer *)
(* with the product replaces the draft, typed or not: that of a save, and  *)
(* that of a reading, which follows a new price, a new variant or a change *)
(* of the status.  A save and a reading may be on their way together and   *)
(* be answered in either order.                                            *)
(*                                                                         *)
(* The handler reads the row, without a lock, and writes the columns in    *)
(* which the request differs from it.  Null and an empty text are the same *)
(* to every reader: here both are the value 0.                             *)
(***************************************************************************)
EXTENDS Naturals, FiniteSets

CONSTANTS Page, Field,
          Value,        \* of a field; 0 is empty
          Trim,         \* [Field -> [Value -> Value]]: a text without the blanks
                        \* around it; what is not such a text stays as it is
          MaxCommits    \* bound: saves that are committed

ASSUME ProductFormAssumption ==
  /\ 0 \in Value /\ MaxCommits \in Nat
  /\ Trim \in [Field -> [Value -> Value]]
  /\ \A f \in Field, v \in Value : Trim[f][Trim[f][v]] = Trim[f][v]

VARIABLES details,    \* the fields of the row
          commits,   \* how many saves it has seen: its version
          page,      \* [Page -> its draft]
          save,      \* [Page -> its PATCH, if one is on its way]
          reading    \* [Page -> its GET, if one is on its way]

formVars == <<details, commits, page, save, reading>>

Fields == [Field -> Value]

NoCall == [at |-> "none"]

(* A draft with the fields typed since it was set; and as history the      *)
(* version that it shows, the one its own last answered save made, and     *)
(* whether a reading was on its way then.                                  *)
Draft(values, version, own, crossed) ==
  [draft |-> values, typed |-> {}, shows |-> version, own |-> own, crossed |-> crossed]

FormInit ==
  /\ details = [f \in Field |-> 0] /\ commits = 0
  /\ page = [p \in Page |-> Draft(details, 0, 0, FALSE)]
  /\ save = [p \in Page |-> NoCall] /\ reading = [p \in Page |-> NoCall]

Type(p, f, v) ==
  /\ page' = [page EXCEPT ![p].draft[f] = v, ![p].typed = @ \cup {f}]
  /\ UNCHANGED <<details, commits, save, reading>>

Trimmed(draft) == [f \in Field |-> Trim[f][draft[f]]]

(* saveDetails: the whole draft is sent, its texts without the blanks        *)
(* around them; the button is busy until it ends.                           *)
Save(p) ==
  /\ save[p] = NoCall
  /\ save' = [save EXCEPT ![p] = [at |-> "sent", draft |-> Trimmed(page[p].draft),
                                  typed |-> page[p].typed, shows |-> page[p].shows,
                                  crossed |-> page[p].crossed]]
  /\ UNCHANGED <<details, commits, page, reading>>

(* The handler of the PATCH reads the row. *)
ReadForSave(p) ==
  /\ save[p].at = "sent"
  /\ save' = [save EXCEPT ![p] = [at |-> "read", row |-> details, version |-> commits,
                draft |-> @.draft, typed |-> @.typed, shows |-> @.shows,
                crossed |-> @.crossed]]
  /\ UNCHANGED <<details, commits, page, reading>>

(* The row with the columns that are written. *)
Written(call) ==
  [f \in Field |-> IF call.draft[f] = call.row[f] THEN details[f] ELSE call.draft[f]]

(* It writes and commits, and answers with the row it read and has changed *)
(* since: what others wrote in between is not in the answer.               *)
CommitSave(p) ==
  /\ save[p].at = "read"
  /\ commits < MaxCommits
  /\ details' = Written(save[p])
  /\ commits' = commits + 1
  /\ save' = [save EXCEPT ![p] = [at |-> "answered", row |-> @.draft,
       version |-> IF @.version = commits THEN commits + 1 ELSE @.version]]
  /\ UNCHANGED <<page, reading>>

(* The draft is set from the product that was there before the save. *)
EndSave_OldProduct(p) ==
  /\ save[p].at = "answered"
  /\ page' = [page EXCEPT ![p] =
       Draft(@.draft, @.shows, save[p].version, reading[p] # NoCall)]
  /\ save' = [save EXCEPT ![p] = NoCall]
  /\ UNCHANGED <<details, commits, reading>>

(* The answer replaces the draft, with what was typed while it was away. *)
EndSave(p) ==
  /\ save[p].at = "answered"
  /\ page' = [page EXCEPT ![p] =
       Draft(save[p].row, save[p].version, save[p].version, reading[p] # NoCall)]
  /\ save' = [save EXCEPT ![p] = NoCall]
  /\ UNCHANGED <<details, commits, reading>>

(* The save fails, or its answer is lost: the draft stays, for a retry. *)
FailSave(p) ==
  /\ save[p] # NoCall
  /\ save' = [save EXCEPT ![p] = NoCall]
  /\ UNCHANGED <<details, commits, page, reading>>

(* load, and the status action, whose answer is the product too. *)
Reload(p) ==
  /\ reading[p] = NoCall
  /\ reading' = [reading EXCEPT ![p] = [at |-> "sent"]]
  /\ UNCHANGED <<details, commits, page, save>>

ReadProduct(p) ==
  /\ reading[p].at = "sent"
  /\ reading' = [reading EXCEPT ![p] = [at |-> "answered", row |-> details, version |-> commits]]
  /\ UNCHANGED <<details, commits, page, save>>

EndReload(p) ==
  /\ reading[p].at = "answered"
  /\ page' = [page EXCEPT ![p] =
       Draft(reading[p].row, reading[p].version, @.own, @.crossed /\ reading[p].version < @.own)]
  /\ reading' = [reading EXCEPT ![p] = NoCall]
  /\ UNCHANGED <<details, commits, save>>

FailReload(p) ==
  /\ reading[p] # NoCall
  /\ reading' = [reading EXCEPT ![p] = NoCall]
  /\ UNCHANGED <<details, commits, page, save>>

(* Somebody else saves the row, from another page or not: the handler takes *)
(* a text with the blanks around it.                                        *)
SaveElsewhere(values) ==
  /\ commits < MaxCommits
  /\ values # details
  /\ details' = values /\ commits' = commits + 1
  /\ UNCHANGED <<page, save, reading>>

FormNext ==
  \/ \E values \in Fields : SaveElsewhere(values)
  \/ \E p \in Page :
    \/ \E f \in Field, v \in Value : Type(p, f, v)
    \/ Save(p) \/ ReadForSave(p) \/ CommitSave(p) \/ EndSave(p) \/ FailSave(p)
    \/ Reload(p) \/ ReadProduct(p) \/ EndReload(p) \/ FailReload(p)

FormSpec == FormInit /\ [][FormNext]_formVars

-----------------------------------------------------------------------------
FormTypeOK ==
  /\ details \in Fields /\ commits \in Nat
  /\ \A p \in Page :
       /\ page[p].draft \in Fields /\ page[p].typed \subseteq Field
       /\ save[p].at \in {"none", "sent", "read", "answered"}
       /\ reading[p].at \in {"none", "sent", "answered"}

(* A save changes a field that was not typed, but for blanks around its    *)
(* text, only if its page has not seen what it overwrites: another page has *)
(* saved it since.  Its own last save *)
(* a page undoes only if a reading was on its way when that was answered,  *)
(* and came back with what it had found before.                            *)
SavesUndoOnlyUnseen ==
  [][\A p \in Page :
       /\ save[p].at = "read" /\ save'[p].at = "answered"
       /\ \E f \in Field \ save[p].typed : Trim[f][details'[f]] # Trim[f][details[f]]
       => /\ save[p].shows < commits
          /\ page[p].own <= save[p].shows \/ save[p].crossed]_formVars
=============================================================================
