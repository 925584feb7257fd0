------------------------------- MODULE Catalogue -------------------------------
(***************************************************************************)
(* The lists of extensions, collections, keys and installations, read page *)
(* by page while rows change (schoolDirectory, list, schoolInstallations   *)
(* and their like, with common/cursor-pagination.ts); the collections the  *)
(* operators arrange (platform/extensions.service.ts) and the versioned    *)
(* payment settings (updatePaymentSettings in                              *)
(* platform/extension-installations.service.ts).                           *)
(***************************************************************************)
EXTENDS Integers, FiniteSets, FiniteSetsExt, SequencesExt

CONSTANTS
  Row,       \* rows, as their ids: 1 .. n
  Values,    \* values of rank, name and time: a few integers
  Limit,     \* rows on a page
  Edits,     \* bound: changes of rows, collections and settings
  Deeds,     \* what is done here: "lists", "arranging"
  None

VARIABLES
  ext,       \* the table of extensions
  walk,      \* one reader: its order, where it is, what it has been shown
  steady,    \* history: the rows that were listed and kept their place so far
  coll,      \* one collection: its status, its items
  edit,      \* the update of it that runs
  pay,       \* payment settings: the versions that bank and QR code have now
  history,   \* the rows of their history
  edits

catVars == <<ext, walk, steady, coll, edit, pay, history, edits>>

Sorts == {"FEATURED", "NEWEST", "NAME_ASC", "NAME_DESC", "UPDATED"}
Statuses == {"DRAFT", "PUBLISHED", "ARCHIVED"}
NoEdit == [state |-> "off", status |-> None, items |-> None]

CatalogueTypeOK ==
  /\ ext \in [Row -> [rank : Values, at : Values, name : Values, up : Nat, listed : BOOLEAN]]
  /\ walk.sort \in Sorts /\ walk.state \in {"new", "reading", "over"}
  /\ walk.seen \in [Row -> 0..3] /\ steady \subseteq Row
  /\ coll \in [status : Statuses, items : SUBSET Row]
  /\ edit.state \in {"off", "run"}
  /\ pay \in [version : Nat, bank : Nat, qr : Nat]
  /\ history \subseteq [version : Nat, bank : Nat, qr : Nat] /\ edits \in 0..Edits

CatalogueInit ==
  /\ ext \in [Row -> {[rank |-> a, at |-> b, name |-> a, up |-> 0, listed |-> l] :
                     a \in Values, b \in Values, l \in BOOLEAN}]
  /\ walk \in [sort : Sorts, state : {"new"}, cursor : {<<>>}, seen : {[r \in Row |-> 0]}]
  /\ steady = {r \in Row : ext[r].listed}
  /\ coll = [status |-> "DRAFT", items |-> {}] /\ edit = NoEdit
  /\ pay = [version |-> 0, bank |-> 0, qr |-> 0] /\ history = {}
  /\ edits = 0
-----------------------------------------------------------------------------
(* Faulty variant: pages in the order of the columns, without the id.      *)
LooseKey(sort, r) ==
  CASE sort = "FEATURED"  -> <<ext[r].rank, - ext[r].at>>
    [] sort = "NEWEST"    -> <<- ext[r].at>>
    [] sort = "NAME_ASC"  -> <<ext[r].name>>
    [] sort = "NAME_DESC" -> <<- ext[r].name>>
    [] sort = "UPDATED"   -> <<- ext[r].up>>
(* orderBy and catalogCursorWhere: the columns, then the id. The last one  *)
(* is the order of schoolInstallations and platformInstallations.          *)
SortKey(sort, r) ==
  CASE sort = "FEATURED"  -> <<ext[r].rank, - ext[r].at, - r>>
    [] sort = "NEWEST"    -> <<- ext[r].at, - r>>
    [] sort = "NAME_ASC"  -> <<ext[r].name, r>>
    [] sort = "NAME_DESC" -> <<- ext[r].name, - r>>
    [] sort = "UPDATED"   -> <<- ext[r].up, - r>>
Below(a, b) ==
  \E i \in DOMAIN a : a[i] < b[i] /\ \A j \in 1..(i - 1) : a[j] = b[j]

Listed == {r \in Row : ext[r].listed}
After(sort, cursor) == {r \in Listed : cursor = <<>> \/ Below(cursor, SortKey(sort, r))}
Page(sort, cursor) ==
  LET rows == After(sort, cursor)
      before(r) == {q \in rows : Below(SortKey(sort, q), SortKey(sort, r))}
      tied(r) == {q \in rows : q < r /\ SortKey(sort, q) = SortKey(sort, r)}
  IN  {r \in rows : Cardinality(before(r)) + Cardinality(tied(r)) < Limit}
LastOf(sort, page) ==
  CHOOSE r \in page : \A q \in page : ~ Below(SortKey(sort, r), SortKey(sort, q))

(* schoolDirectory: one row more than the page says whether there is a     *)
(* next page, and the last row of the page is the cursor of it.            *)
ReadPage ==
  /\ walk.state # "over"
  /\ LET page == Page(walk.sort, walk.cursor)
         more == Cardinality(After(walk.sort, walk.cursor)) > Limit
     IN  walk' = [walk EXCEPT
           !.seen = [r \in Row |-> IF r \in page THEN @[r] + 1 ELSE @[r]],
           !.state = IF more THEN "reading" ELSE "over",
           !.cursor = IF more THEN SortKey(walk.sort, LastOf(walk.sort, page)) ELSE @]
  /\ UNCHANGED <<ext, steady, coll, edit, pay, history, edits>>

(* A row leaves the list (suspended, unlisted, its version withdrawn) or   *)
(* comes to it (createExtension among others); what is never changed is    *)
(* its rank, its name and its date.                                        *)
Relist(r) ==
  /\ edits < Edits /\ edits' = edits + 1
  /\ ext' = [ext EXCEPT ![r].listed = ~ @] /\ steady' = steady \ {r}
  /\ UNCHANGED <<walk, coll, edit, pay, history>>
(* Any write to a row (updateCatalogMetadata, a command on an              *)
(* installation) makes it the newest of a list in the order of updatedAt.  *)
Touch(r) ==
  /\ edits < Edits /\ edits' = edits + 1
  /\ ext' = [ext EXCEPT ![r].up = 1 + Max({ext[q].up : q \in Row})]
  /\ steady' = IF walk.sort = "UPDATED" THEN steady \ {r} ELSE steady
  /\ UNCHANGED <<walk, coll, edit, pay, history>>
-----------------------------------------------------------------------------
(* updateCatalogCollection: the collection is read with its items; the     *)
(* request names a status, items, both or neither.                         *)
BeginCollection(status, items) ==
  /\ edits < Edits /\ edit = NoEdit /\ edits' = edits + 1
  /\ items = None => ~ (status = "PUBLISHED" /\ coll.items = {})
  /\ items # None => (items \subseteq Listed /\ ~ (status = "PUBLISHED" /\ items = {}))
  /\ edit' = [state |-> "run", status |-> status, items |-> items]
  /\ UNCHANGED <<ext, walk, steady, coll, pay, history>>
UpdateCollection ==
  /\ edit.state = "run" /\ edit' = NoEdit
  /\ coll' = [status |-> IF edit.status = None THEN coll.status ELSE edit.status,
              items |-> IF edit.items = None THEN coll.items ELSE edit.items]
  /\ UNCHANGED <<ext, walk, steady, pay, history, edits>>
(* schoolCatalogCollections: what a school is shown of it.                 *)
Shown == IF coll.status = "PUBLISHED" THEN coll.items \cap Listed ELSE {}
-----------------------------------------------------------------------------
(* Faulty variant: the row of the history keeps the old QR code.           *)
ForgetQr(qr) ==
  /\ edits < Edits /\ edits' = edits + 1
  /\ LET v == pay.version + 1
     IN  /\ pay' = [version |-> v, bank |-> v, qr |-> IF qr THEN v ELSE pay.qr]
         /\ history' = history \cup {[version |-> v, bank |-> v, qr |-> pay.qr]}
  /\ UNCHANGED <<ext, walk, steady, coll, edit>>
(* updatePaymentSettings: the settings and the row of their history in one *)
(* transaction; a new QR image is another object, the old one is kept.     *)
UpdatePaymentSettings(qr) ==
  /\ edits < Edits /\ edits' = edits + 1
  /\ LET v == pay.version + 1
         new == [version |-> v, bank |-> v, qr |-> IF qr THEN v ELSE pay.qr]
     IN  pay' = new /\ history' = history \cup {new}
  /\ UNCHANGED <<ext, walk, steady, coll, edit>>

CatalogueNext ==
  \/ "lists" \in Deeds /\ ReadPage
  \/ \E r \in Row : Relist(r) \/ Touch(r)
  \/ "arranging" \in Deeds
     /\ \/ \E status \in Statuses \cup {None}, items \in (SUBSET Row) \cup {None} :
             BeginCollection(status, items)
        \/ UpdateCollection
        \/ \E qr \in BOOLEAN : UpdatePaymentSettings(qr)
-----------------------------------------------------------------------------
(* A reader who follows the cursors to the end has been shown every row    *)
(* that stayed listed and in its place exactly once, whatever happened to  *)
(* the others meanwhile, and no such row twice on the way                  *)
(* (extension-installations.service.ts:92-94, 184-194).                    *)
SteadyRowsSeenOnce ==
  \A r \in steady : walk.seen[r] <= 1 /\ (walk.state = "over" => walk.seen[r] = 1)

(* Every version of the payment settings that an invoice may name has the  *)
(* one row of the history that says what it was (the transaction of        *)
(* updatePaymentSettings).                                                 *)
SettingsAreKept ==
  /\ \A v \in 1..pay.version : Cardinality({h \in history : h.version = v}) = 1
  /\ pay.version > 0 => pay \in history

(* Refuted: "A published collection must contain at least one extension"   *)
(* (extensions.service.ts:1671-1674); an update that names no status       *)
(* empties it, and so does one between the check and the write.            *)
PublishedIsNotEmpty == coll.status = "PUBLISHED" => coll.items # {}
=============================================================================
