----------------------------- MODULE CategoryDesk -----------------------------
(***************************************************************************)
(* Categories in the admin area (admin/categories) over the category half  *)
(* of stores/products.ts: a list kept in the browser, merged with what the *)
(* product service answers, and changed locally when the service cannot be *)
(* reached.  The page nests the list into a tree.                          *)
(***************************************************************************)
EXTENDS Naturals, FiniteSets

CONSTANTS ServedIds, \* ids the product service gives out
          MadeUpIds, \* ids addCategory makes up in the browser
          NoParent,  \* a category at the top
          CatStart,  \* ids that exist, at the top, when the page opens
          MaxCatUses \* bound: what the two administrators do

CatIds == ServedIds \cup MadeUpIds

ASSUME CategoryAssumption ==
    /\ CatStart \subseteq ServedIds /\ ServedIds \cap MadeUpIds = {}
    /\ IsFiniteSet(CatIds) /\ NoParent \notin CatIds /\ MaxCatUses \in Nat

VARIABLES catServer, \* the service: id -> [parent, status, image], or Absent
          catDesk,   \* the browser: list, page and running requests
          catUses    \* counts towards MaxCatUses

categoryVars == <<catServer, catDesk, catUses>>

Absent == [status |-> "absent"]
CatRow(parent) == [parent |-> parent, status |-> "active", image |-> FALSE]
NoFetch == [stage |-> "none"]
NoCatJob == [step |-> "none"]
Creating == "new"

CategoryInit ==
    /\ catServer = [c \in CatIds |-> IF c \in CatStart THEN CatRow(NoParent) ELSE Absent]
    /\ catUses = 0
    /\ catDesk = [list |-> [c \in CatIds |-> Absent], \* the persisted store
                  fetch |-> [stage |-> "asked"],   \* the page asks when it opens
                  tab |-> "all",
                  editing |-> "none",              \* the modal: none, Creating or an id
                  form |-> Absent,                 \* what it was filled with and edited to
                  was |-> "active",                \* its status when the modal opened
                  picture |-> NoParent,            \* whose image the modal shows
                  save |-> NoCatJob, delete |-> NoCatJob, upload |-> NoCatJob,
                  calm |-> TRUE]                   \* history: no failure, no overlap

Here(rows) == {c \in CatIds : rows[c] # Absent}
Used == catUses < MaxCatUses /\ catUses' = catUses + 1

-----------------------------------------------------------------------------
(* buildTree hangs a category under its parent when the parent is in the   *)
(* list too, and at the top otherwise; the table walks down from the top.  *)
Filtered(tab) == {c \in Here(catDesk.list) : tab \in {"all", catDesk.list[c].status}}

(* Mutant: only a category without a parent is drawn at the top.           *)
HasAParent(c, shown) == catDesk.list[c].parent # NoParent

HangsUnder(c, shown) == catDesk.list[c].parent \in shown

BuildTree(shown) ==
    LET roots == {c \in shown : ~HangsUnder(c, shown)}
        down[n \in Nat] ==
            IF n = 0 THEN roots
            ELSE down[n - 1] \cup {c \in shown : catDesk.list[c].parent \in down[n - 1]}
    IN  down[Cardinality(CatIds)]

(* CategoryRow draws a row and then the rows of its children.              *)
CategoryRow(tab) == BuildTree(Filtered(tab))

PickTab(tab) ==
    /\ Used /\ catDesk' = [catDesk EXCEPT !.tab = tab]
    /\ UNCHANGED catServer

-----------------------------------------------------------------------------
(* fetchCategories: one request at a time; who asks while one is running   *)
(* shares its answer.  The answer is merged: what the service does not     *)
(* list stays.                                                             *)
Asking(d) == [d EXCEPT !.fetch = IF @ = NoFetch THEN [stage |-> "asked"] ELSE @,
                       !.calm = @ /\ d.fetch = NoFetch]

ListRead(ok) ==
    /\ catDesk.fetch.stage = "asked"
    /\ catDesk' = [catDesk EXCEPT
          !.fetch = [stage |-> "read", rows |-> IF ok THEN catServer ELSE [c \in CatIds |-> Absent]],
          !.calm = @ /\ ok]
    /\ UNCHANGED <<catServer, catUses>>

Waiters(d) == {j \in {"save", "delete"} : d[j].step = "reload"}

(* Mutant: what the browser already has wins over the answer.              *)
OnlyMissing(list, rows) == [c \in CatIds |-> IF list[c] # Absent THEN list[c] ELSE rows[c]]

Merged(list, rows) == [c \in CatIds |-> IF rows[c] # Absent THEN rows[c] ELSE list[c]]

(* The end of handleSave closes whatever modal is open by then.            *)
AfterStep(job) ==
    IF job.step = "reload" /\ job.writes # {} THEN [job EXCEPT !.step = "write"] ELSE NoCatJob

Resume(d, j) ==
    LET next == AfterStep(d[j])
    IN  [d EXCEPT ![j] = next,
                  !.editing = IF j = "save" /\ next = NoCatJob THEN "none" ELSE @]

ListArrives ==
    /\ catDesk.fetch.stage = "read"
    /\ LET d == [catDesk EXCEPT !.list = Merged(@, catDesk.fetch.rows), !.fetch = NoFetch]
           e == IF "save" \in Waiters(d) THEN Resume(d, "save") ELSE d
       IN  catDesk' = IF "delete" \in Waiters(d) THEN Resume(e, "delete") ELSE e
    /\ UNCHANGED <<catServer, catUses>>

-----------------------------------------------------------------------------
(* The modal copies the category when it opens; its parent select offers   *)
(* every category but itself, its status only exists for an old one.       *)
OpenCreate ==
    /\ Used /\ catDesk.editing = "none"
    /\ catDesk' = [catDesk EXCEPT !.editing = Creating, !.form = CatRow(NoParent),
                                  !.was = "active", !.picture = NoParent]
    /\ UNCHANGED catServer

OpenEdit(c) ==
    /\ Used /\ catDesk.editing = "none" /\ c \in CategoryRow(catDesk.tab)
    /\ catDesk' = [catDesk EXCEPT !.editing = c, !.form = catDesk.list[c],
                                  !.was = catDesk.list[c].status,
                                  !.picture = IF catDesk.list[c].image THEN c ELSE NoParent]
    /\ UNCHANGED catServer

CloseModal ==
    /\ catDesk.editing # "none"
    /\ catDesk' = [catDesk EXCEPT !.editing = "none"]
    /\ UNCHANGED <<catServer, catUses>>

ParentOptions == {NoParent} \cup (Here(catDesk.list) \ {catDesk.editing})

FillCategoryForm(parent, status) ==
    /\ Used /\ catDesk.editing # "none" /\ parent \in ParentOptions
    /\ (catDesk.editing = Creating => status = "active")
    /\ catDesk' = [catDesk EXCEPT !.form.parent = parent, !.form.status = status]
    /\ UNCHANGED catServer

(* handleSave: a new category is one write; an old one is an update and,   *)
(* when the status moved since the modal opened, a second write after it.  *)
HandleSaveCategory ==
    /\ catDesk.editing # "none" /\ catDesk.save = NoCatJob
    /\ catDesk' = [catDesk EXCEPT !.save =
          [step |-> "write", target |-> catDesk.editing, form |-> catDesk.form,
           writes |-> IF catDesk.editing = Creating THEN {"create"}
                      ELSE IF catDesk.form.status # catDesk.was THEN {"update", "status"}
                      ELSE {"update"}]]
    /\ UNCHANGED <<catServer, catUses>>

HandleDeleteCategory(c) ==
    /\ Used /\ catDesk.delete = NoCatJob /\ c \in CategoryRow(catDesk.tab)
    /\ catDesk' = [catDesk EXCEPT !.delete = [step |-> "write", target |-> c, writes |-> {"delete"}]]
    /\ UNCHANGED catServer

FirstWrite(job) == CHOOSE w \in job.writes : w = "status" => job.writes = {"status"}

(* What the service does with a write: the parent must exist, no parent    *)
(* means "leave it", and children of a deleted category stay.              *)
Served(w, job, id) ==
    CASE w = "create" -> [catServer EXCEPT ![id] = CatRow(job.form.parent)]
      [] w = "update" -> [catServer EXCEPT ![id].parent =
                            IF job.form.parent = NoParent THEN @ ELSE job.form.parent]
      [] w = "status" -> [catServer EXCEPT ![id].status = job.form.status]
      [] OTHER -> [catServer EXCEPT ![id] = Absent]

Accepts(w, job, id) ==
    /\ IF w = "create" THEN id \in ServedIds \ (Here(catServer) \cup Here(catDesk.list))
       ELSE id = job.target /\ id \in Here(catServer)
    /\ (w \in {"create", "update"} => job.form.parent \in Here(catServer) \cup {NoParent})

CategoryWritten(j, id) ==
    /\ catDesk[j].step = "write"
    /\ LET w == FirstWrite(catDesk[j])
       IN  /\ Accepts(w, catDesk[j], id)
           /\ catServer' = Served(w, catDesk[j], id)
           /\ catDesk' = Asking([catDesk EXCEPT ![j].step = "reload", ![j].writes = @ \ {w}])
    /\ UNCHANGED catUses

(* A write that fails for whatever reason is done on the local list.       *)
LocalWrite(list, w, job, id) ==
    CASE w = "create" -> [list EXCEPT ![id] = CatRow(job.form.parent)]
      [] w = "delete" -> [c \in CatIds |-> IF c = id \/ (list[c] # Absent /\ list[c].parent = id)
                                           THEN Absent ELSE list[c]]
      [] w = "update" /\ list[id] # Absent -> [list EXCEPT ![id].parent = job.form.parent]
      [] w = "status" /\ list[id] # Absent -> [list EXCEPT ![id].status = job.form.status]
      [] OTHER -> list

CategoryWriteFails(j, id) ==
    /\ catDesk[j].step = "write"
    /\ LET w == FirstWrite(catDesk[j])
           d == [catDesk EXCEPT !.list = LocalWrite(@, w, catDesk[j], id),
                   ![j].step = "reload", ![j].writes = @ \ {w}, !.calm = FALSE]
       IN  /\ IF w = "create" THEN id \in MadeUpIds \ Here(catDesk.list)
              ELSE id = catDesk[j].target
           /\ catDesk' = Resume(d, j)
    /\ UNCHANGED <<catServer, catUses>>

-----------------------------------------------------------------------------
(* An image: a presigned URL, the upload to the object store, then the     *)
(* confirmation that puts it on the category.  The modal may have moved on *)
(* by then; it shows the picture of the upload that ended last.            *)
HandleFileChange ==
    /\ Used /\ catDesk.editing \in CatIds /\ catDesk.upload = NoCatJob
    /\ catDesk' = [catDesk EXCEPT !.upload = [step |-> "presign", target |-> catDesk.editing]]
    /\ UNCHANGED catServer

HandleRemoveImage ==
    /\ Used /\ catDesk.editing \in CatIds /\ catDesk.upload = NoCatJob
    /\ catDesk.picture # NoParent
    /\ catDesk' = [catDesk EXCEPT !.upload = [step |-> "remove", target |-> catDesk.editing]]
    /\ UNCHANGED catServer

Uploading(from, to) ==
    /\ catDesk.upload.step = from /\ catDesk.upload.target \in Here(catServer)
    /\ catDesk' = [catDesk EXCEPT !.upload.step = to]
    /\ UNCHANGED <<catServer, catUses>>

UploadCategoryImage == Uploading("presign", "put") \/ Uploading("put", "confirm")

ImageSettled ==
    /\ catDesk.upload.step \in {"confirm", "remove"}
    /\ catDesk.upload.target \in Here(catServer)
    /\ LET stays == catDesk.upload.step = "confirm"
           c == catDesk.upload.target
       IN  /\ catServer' = [catServer EXCEPT ![c].image = stays]
           /\ catDesk' = Asking([catDesk EXCEPT !.upload = NoCatJob,
                                   !.picture = IF stays THEN c ELSE NoParent])
    /\ UNCHANGED catUses

ImageFails ==
    /\ catDesk.upload # NoCatJob
    /\ catDesk' = [catDesk EXCEPT !.upload = NoCatJob, !.calm = FALSE]
    /\ UNCHANGED <<catServer, catUses>>

(* Another administrator deletes a category.                               *)
DeletedElsewhere(c) ==
    /\ Used /\ c \in Here(catServer)
    /\ catServer' = [catServer EXCEPT ![c] = Absent]
    /\ UNCHANGED catDesk

CategoryNext ==
    \/ \E ok \in BOOLEAN : ListRead(ok)
    \/ ListArrives
    \/ \E tab \in {"all", "active", "inactive"} : PickTab(tab)
    \/ OpenCreate \/ CloseModal
    \/ \E c \in CatIds : OpenEdit(c) \/ HandleDeleteCategory(c) \/ DeletedElsewhere(c)
    \/ \E p \in CatIds \cup {NoParent}, s \in {"active", "inactive"} : FillCategoryForm(p, s)
    \/ HandleSaveCategory
    \/ \E j \in {"save", "delete"}, c \in CatIds :
          CategoryWritten(j, c) \/ CategoryWriteFails(j, c)
    \/ HandleFileChange \/ HandleRemoveImage \/ UploadCategoryImage
    \/ ImageSettled \/ ImageFails

-----------------------------------------------------------------------------
OnACycle(c, shown) ==
    LET up[n \in Nat] == IF n = 0 THEN {c}
                         ELSE up[n - 1] \cup {catDesk.list[d].parent : d \in up[n - 1] \cap shown}
    IN  up[Cardinality(CatIds)] \subseteq shown

(* Every category of the chosen tab has its row in the table, also when    *)
(* its parent is filtered out, deleted or was never stored; only those     *)
(* whose parents go round in a circle are missing.                         *)
CategoryRowsComplete ==
    \A tab \in {"all", "active", "inactive"} :
        LET shown == Filtered(tab)
        IN  CategoryRow(tab) = {c \in shown : ~OnACycle(c, shown)}

(* When nothing failed and no two reloads were merged into one, a page at  *)
(* rest lists every category of the service as the service has it, one     *)
(* write after the other having been followed by its own reload.           *)
CalmListIsServed ==
    /\ catDesk.calm /\ catDesk.fetch = NoFetch
    /\ {"save", "delete"} \cap {j \in {"save", "delete"} : catDesk[j] # NoCatJob} = {}
    => \A c \in Here(catServer) : catDesk.list[c] = catServer[c]
=============================================================================
