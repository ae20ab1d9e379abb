------------------------------- MODULE Media -------------------------------
(***************************************************************************)
(* The images of one product: rows in the database, files in the storage,  *)
(* and the page on which staff upload, order, edit and delete them.        *)
(*                                                                         *)
(* A task is one operation of the page, from the button to the list that   *)
(* it loads again afterwards; moving an image is two tasks at once.        *)
(*   sent      the request is on its way                                   *)
(*   read      the server has read the row, without a lock                 *)
(*   filed     ... has stored or deleted the file, and the row not yet     *)
(*   asking    ... has committed; the page asks for the list               *)
(*   answered  the list is on its way to the page                          *)
(* Lists may overtake each other.  Images are numbered as they are created.*)
(***************************************************************************)
EXTENDS Integers, FiniteSets, FiniteSetsExt

CONSTANTS Asset,  \* numbers of images, in the order of their creation
          Task

ASSUME MediaAssumption == IsFiniteSet(Asset) /\ Asset \subseteq Nat

VARIABLES rows,      \* [assets that have a row -> sort_order]: file_assets
          stored,    \* assets whose file is in the storage
          used,      \* assets that an upload has taken
          broken,    \* assets whose file a failed request had touched
          shown,     \* [assets -> sort_order]: the list on the page
          busy,      \* the page's buttons are disabled
          task,      \* [Task -> operation in progress]
          informed   \* each operation so far was asked for when all before it
                     \* had ended well and the page showed what is stored

server == <<rows, stored, used, broken>>
onPage == <<shown, busy, task, informed>>
mediaVars == <<rows, stored, used, broken, shown, busy, task, informed>>

Position == 0 .. Cardinality(Asset)
List == UNION {[S -> Position] : S \in SUBSET Asset}

Resting == [at |-> "resting"]
(* to: the sort_order to write, if the request names one *)
Operation == [at : {"sent", "read", "filed"}, op : {"upload", "patch", "delete"},
              asset : Asset, to : SUBSET Position, seen : Position]
(* opening: the first load of the page, which has not disabled its buttons *)
Load == [at : {"asking"}, opening : BOOLEAN]
Answer == [at : {"answered"}, opening : BOOLEAN, list : List]

MediaInit ==
  /\ rows = <<>> /\ stored = {} /\ used = {} /\ broken = {}
  /\ shown = <<>> /\ busy = FALSE /\ informed = TRUE
  /\ task = [t \in Task |-> Resting]

Quiet == \A t \in Task : task[t] = Resting

Sent(op, a, to) == [at |-> "sent", op |-> op, asset |-> a, to |-> to, seen |-> 0]

Become(t, at) == task' = [task EXCEPT ![t].at = at]

(* Committed: the page hears of it, and loads the list. *)
Commit(t) == task' = [task EXCEPT ![t] = [at |-> "asking", opening |-> FALSE]]

(* A click on a button that is not disabled. *)
Click ==
  /\ ~busy /\ busy' = TRUE
  /\ informed' = (informed /\ Quiet /\ shown = rows)
  /\ UNCHANGED shown

NextSortOrder ==
  IF shown = <<>> THEN 0 ELSE Max({shown[a] : a \in DOMAIN shown}) + 1

StartUpload(t) ==
  /\ task[t] = Resting
  /\ Asset # used
  /\ NextSortOrder \in Position
  /\ Click
  /\ used' = used \cup {Min(Asset \ used)}
  /\ task' = [task EXCEPT ![t] = Sent("upload", Min(Asset \ used), {NextSortOrder})]
  /\ UNCHANGED <<rows, stored, broken>>

(* Kind and alternative text, not the order. *)
StartEdit(t, a) ==
  /\ task[t] = Resting /\ a \in DOMAIN shown
  /\ Click
  /\ task' = [task EXCEPT ![t] = Sent("patch", a, {})]
  /\ UNCHANGED server

StartRemove(t, a) ==
  /\ task[t] = Resting /\ a \in DOMAIN shown
  /\ Click
  /\ task' = [task EXCEPT ![t] = Sent("delete", a, {})]
  /\ UNCHANGED server

(* The list is ordered by sort_order, and by creation where they are equal. *)
Before(a, b) == shown[a] < shown[b] \/ (shown[a] = shown[b] /\ a < b)

Neighbours(a, b) ==
  /\ Before(a, b)
  /\ \A c \in DOMAIN shown : ~(Before(a, c) /\ Before(c, b))

(* The neighbour is left where it is. *)
StartMove_OneRequest(t, u, a, b) ==
  /\ t # u /\ task[t] = Resting /\ task[u] = Resting
  /\ a \in DOMAIN shown /\ b \in DOMAIN shown /\ Neighbours(a, b)
  /\ Click
  /\ task' = [task EXCEPT ![t] = Sent("patch", a, {shown[b]})]
  /\ UNCHANGED server

(* Two requests that exchange the sort_order of two neighbours. *)
StartMove(t, u, a, b) ==
  /\ t # u /\ task[t] = Resting /\ task[u] = Resting
  /\ a \in DOMAIN shown /\ b \in DOMAIN shown /\ Neighbours(a, b)
  /\ Click
  /\ task' = [task EXCEPT ![t] = Sent("patch", a, {shown[b]}),
                          ![u] = Sent("patch", b, {shown[a]})]
  /\ UNCHANGED server

(* The page is opened, when nothing of an earlier visit is on its way. *)
Open(t) ==
  /\ Quiet
  /\ shown' = <<>> /\ busy' = FALSE
  /\ task' = [task EXCEPT ![t] = [at |-> "asking", opening |-> TRUE]]
  /\ UNCHANGED <<server, informed>>
-----------------------------------------------------------------------------
SaveFile(t) ==
  /\ task[t].at = "sent" /\ task[t].op = "upload"
  /\ stored' = stored \cup {task[t].asset}
  /\ Become(t, "filed")
  /\ UNCHANGED <<rows, used, broken, shown, busy, informed>>

InsertRow(t) ==
  /\ task[t].at = "filed" /\ task[t].op = "upload"
  /\ \E n \in task[t].to :
       rows' = [a \in DOMAIN rows \cup {task[t].asset} |->
                  IF a = task[t].asset THEN n ELSE rows[a]]
  /\ Commit(t)
  /\ UNCHANGED <<stored, used, broken, shown, busy, informed>>

(* 404 if there is no row: see Fail. *)
ReadRow(t) ==
  /\ task[t].at = "sent" /\ task[t].op \in {"patch", "delete"}
  /\ task[t].asset \in DOMAIN rows
  /\ task' = [task EXCEPT ![t].at = "read", ![t].seen =
                 IF task[t].to = {} THEN 0 ELSE rows[task[t].asset]]
  /\ UNCHANGED <<server, shown, busy, informed>>

(* The ORM writes what differs from the reading, and fails if the row is   *)
(* gone meanwhile; if nothing differs it writes nothing and succeeds.      *)
WriteRow(t) ==
  /\ task[t].at = "read" /\ task[t].op = "patch"
  /\ \/ task[t].to \subseteq {task[t].seen} /\ UNCHANGED rows
     \/ /\ task[t].asset \in DOMAIN rows
        /\ \E n \in task[t].to \ {task[t].seen} :
             rows' = [rows EXCEPT ![task[t].asset] = n]
  /\ Commit(t)
  /\ UNCHANGED <<stored, used, broken, shown, busy, informed>>

(* Deleting the row and leaving the file. *)
DeleteFile_Keeps(t) ==
  /\ task[t].at = "read" /\ task[t].op = "delete"
  /\ Become(t, "filed")
  /\ UNCHANGED <<server, shown, busy, informed>>

(* A file that is gone already is no error. *)
DeleteFile(t) ==
  /\ task[t].at = "read" /\ task[t].op = "delete"
  /\ stored' = stored \ {task[t].asset}
  /\ Become(t, "filed")
  /\ UNCHANGED <<rows, used, broken, shown, busy, informed>>

(* Nor is a row. *)
DeleteRow(t) ==
  /\ task[t].at = "filed" /\ task[t].op = "delete"
  /\ rows' = [a \in DOMAIN rows \ {task[t].asset} |-> rows[a]]
  /\ Commit(t)
  /\ UNCHANGED <<stored, used, broken, shown, busy, informed>>

ReadList(t) ==
  /\ task[t].at = "asking"
  /\ task' = [task EXCEPT ![t] = [at |-> "answered", opening |-> task[t].opening,
                                 list |-> rows]]
  /\ UNCHANGED <<server, shown, busy, informed>>

(* setBusy(false) even if the other half of a move is still on its way; the *)
(* first load of the page never disabled anything.                         *)
Enable(t) == busy' = (busy /\ "opening" \in DOMAIN task[t] /\ task[t].opening)

Show(t) ==
  /\ task[t].at = "answered"
  /\ shown' = task[t].list
  /\ Enable(t)
  /\ task' = [task EXCEPT ![t] = Resting]
  /\ UNCHANGED <<server, informed>>

(* The request is refused, the storage or the database fails, or an answer *)
(* is lost: the page shows an error and does not load the list.            *)
Fail(t) ==
  /\ task[t] # Resting
  /\ broken' = IF task[t].at = "filed" THEN broken \cup {task[t].asset} ELSE broken
  /\ Enable(t)
  /\ task' = [task EXCEPT ![t] = Resting]
  /\ informed' = FALSE
  /\ UNCHANGED <<rows, stored, used, shown>>

MediaNext ==
  \/ \E t \in Task :
       \/ StartUpload(t) \/ Open(t)
       \/ \E a \in Asset : StartEdit(t, a) \/ StartRemove(t, a)
       \/ \E u \in Task, a, b \in Asset : StartMove(t, u, a, b)
       \/ SaveFile(t) \/ InsertRow(t) \/ ReadRow(t) \/ WriteRow(t)
       \/ DeleteFile(t) \/ DeleteRow(t)
       \/ ReadList(t) \/ Show(t) \/ Fail(t)

MediaSpec == MediaInit /\ [][MediaNext]_mediaVars
-----------------------------------------------------------------------------
MediaTypeOK ==
  /\ rows \in List /\ shown \in List
  /\ {stored, broken, DOMAIN rows} \subseteq SUBSET used /\ used \subseteq Asset
  /\ busy \in BOOLEAN /\ informed \in BOOLEAN
  /\ task \in [Task -> {Resting} \cup Operation \cup Load \cup Answer]

(* Uploading stores the file before the row, deleting drops the file before*)
(* the row, and neither can undo the first step: an image has both or none,*)
(* however requests interleave, unless one for it is between its two steps *)
(* or has failed there.                                                    *)
FilesMatchRows ==
  \A a \in Asset : (a \in DOMAIN rows) # (a \in stored) =>
    \/ a \in broken
    \/ \E t \in Task : task[t].at = "filed" /\ task[t].asset = a

(* "Swap sort_order values so list order persists without a renumber": if  *)
(* staff wait until everything has ended and look at what is stored before *)
(* they act, no two images come to share a place, and the page shows the   *)
(* images there are.  The buttons do not make them wait: the first half of *)
(* a move to end enables them again.                                       *)
OrderPersists ==
  informed /\ Quiet =>
    /\ DOMAIN shown = DOMAIN rows
    /\ \A a, b \in DOMAIN rows : rows[a] = rows[b] => a = b
=============================================================================
