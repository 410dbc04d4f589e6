------------------------------ MODULE ProductDesk ------------------------------
(***************************************************************************)
(* Products in the admin area: the list (admin/products), the form for a   *)
(* new product and the form for an old one, over the product half of       *)
(* stores/products.ts.  The list is kept in the browser and merged with    *)
(* what the service answers; images are uploaded while the form is filled. *)
(***************************************************************************)
EXTENDS Naturals, FiniteSets, SequencesExt

CONSTANTS ProductIds, \* ids the product service gives out
          StartIds,   \* products that exist, and are known, at the start
          Images,     \* images: files that can be uploaded or linked
          MaxPdUses   \* bound: what the administrators do

ASSUME ProductDeskAssumption == StartIds \subseteq ProductIds /\ MaxPdUses \in Nat

VARIABLES pdServer, \* the service: id -> [text, images], or NoProduct
          pdMedia,  \* images the upload route has stored or that were links already
          pdDesk,   \* the browser: store, page, form and running requests
          pdUses    \* counts towards MaxPdUses

productDeskVars == <<pdServer, pdMedia, pdDesk, pdUses>>

(* A form or a product.  Its plain inputs are one value; the slug follows  *)
(* the name until it is typed; specs stand for the two lists whose empty   *)
(* rows are left out when the form is sent, variants are sent as they are. *)
(* An image has a path or is a placeholder that waits for one.             *)
DefaultOrder == <<"basic", "images", "seo">>
Row(id, text) == [id |-> id, text |-> text]
NoProduct == [text |-> "none", slug |-> "auto", specs |-> <<>>, variants |-> <<>>,
              order |-> DefaultOrder, images |-> {}]
Pic(i, stored) == [file |-> i, stored |-> stored]
(* Mutant: placeholders are sent under the path they will get.             *)
PathsToBe(f) == {p.file : p \in f.images}

Paths(f) == {p.file : p \in {q \in f.images : q.stored}}

OnList == [at |-> "list", id |-> "none"]
BlankForm == [NoProduct EXCEPT !.text = "blank"]
Quiet == [step |-> "none", here |-> FALSE]

ProductDeskInit ==
    /\ pdServer = [p \in ProductIds |->
          IF p \in StartIds THEN [NoProduct EXCEPT !.text = "first"] ELSE NoProduct]
    /\ pdMedia = {} /\ pdUses = 0
    /\ pdDesk = [store |-> pdServer,                 \* id -> what the list shows
                 twice |-> {},                       \* ids that have two entries
                 fetch |-> Quiet, page |-> OnList, loading |-> FALSE,
                 tab |-> "edit",                     \* edit or preview
                 form |-> BlankForm,
                 uploads |-> {},                     \* batches of files on their way
                 save |-> Quiet, delete |-> Quiet,
                 saved |-> FALSE,                    \* the form says "saved"
                 leaving |-> FALSE,                  \* the timer that goes back to the list
                 calm |-> TRUE]                      \* history: no failure, no overlap

Stored(rows) == {p \in ProductIds : rows[p] # NoProduct}
PdUsed == pdUses < MaxPdUses /\ pdUses' = pdUses + 1
OnProductForm(d) == d.page.at # "list"

-----------------------------------------------------------------------------
(* The effect on [products]: whenever the list in the store changes, an    *)
(* edit form is filled again from it; the lists only when the product has  *)
(* something in them.                                                      *)
Refilled(d) ==
    IF d.page.at # "edit" \/ d.store[d.page.id] = NoProduct THEN d
    ELSE LET p == d.store[d.page.id]
         IN  [d EXCEPT !.loading = FALSE, !.form.text = p.text,
                       !.form.slug = p.slug, !.form.order = p.order,
                       !.form.specs = IF p.specs = <<>> THEN @ ELSE p.specs,
                       !.form.variants = IF p.variants = <<>> THEN @ ELSE p.variants,
                       !.form.images = IF p.images = {} THEN @
                                       ELSE {Pic(i, TRUE) : i \in p.images}]

(* fetchProducts: a request that is running is shared.                     *)
FetchProducts(d) ==
    [d EXCEPT !.fetch = IF @ = Quiet THEN [step |-> "asked"] ELSE @]

ProductsRead(ok) ==
    /\ pdDesk.fetch.step = "asked"
    /\ pdDesk' = [pdDesk EXCEPT
          !.fetch = [step |-> "read", rows |-> IF ok THEN pdServer ELSE [p \in ProductIds |-> NoProduct]],
          !.calm = @ /\ ok /\ pdDesk.save = Quiet /\ pdDesk.delete = Quiet]
    /\ UNCHANGED <<pdServer, pdMedia, pdUses>>

(* The answer replaces what it lists and leaves the rest; an empty answer  *)
(* and an error change nothing.                                            *)
ProductsArrive ==
    /\ pdDesk.fetch.step = "read"
    /\ LET rows == pdDesk.fetch.rows
           d == [pdDesk EXCEPT !.fetch = Quiet, !.twice = @ \ Stored(rows),
                    !.store = [p \in ProductIds |-> IF rows[p] # NoProduct THEN rows[p] ELSE @[p]]]
       IN  pdDesk' = IF Stored(rows) = {} THEN [pdDesk EXCEPT !.fetch = Quiet] ELSE Refilled(d)
    /\ UNCHANGED <<pdServer, pdMedia, pdUses>>

-----------------------------------------------------------------------------
(* The three pages.  Leaving a form forgets it and its uploads.            *)
Opened(d, page) ==
    [d EXCEPT !.page = page, !.form = BlankForm, !.uploads = {}, !.tab = "edit",
              !.saved = FALSE, !.save.here = FALSE]

OpenList ==
    /\ PdUsed /\ pdDesk' = FetchProducts(Opened(pdDesk, OnList))
    /\ UNCHANGED <<pdServer, pdMedia>>

OpenNewProduct ==
    /\ PdUsed /\ pdDesk' = [Opened(pdDesk, [at |-> "new", id |-> "none"]) EXCEPT !.loading = FALSE]
    /\ UNCHANGED <<pdServer, pdMedia>>

OpenEditProduct(p) ==
    /\ PdUsed /\ pdDesk.page = OnList /\ p \in Stored(pdDesk.store)
    /\ pdDesk' = FetchProducts(Refilled(Opened([pdDesk EXCEPT !.loading = TRUE],
                                               [at |-> "edit", id |-> p])))
    /\ UNCHANGED <<pdServer, pdMedia>>

Editing == OnProductForm(pdDesk) /\ ~pdDesk.loading /\ ~pdDesk.saved /\ pdDesk.tab = "edit"

(* SKU, category, status, tags, prices, rich text, delivery profile, SEO.  *)
FillProductForm ==
    /\ PdUsed /\ Editing
    /\ pdDesk' = [pdDesk EXCEPT !.form.text = "typed"]
    /\ UNCHANGED <<pdServer, pdMedia>>

(* The slug is made from the name for as long as it equals what the name   *)
(* makes; emptied, it is made from the name again.                         *)
TypeSlug(slug) ==
    /\ PdUsed /\ Editing /\ pdDesk.form.slug # slug
    /\ pdDesk' = [pdDesk EXCEPT !.form.slug = slug]
    /\ UNCHANGED <<pdServer, pdMedia>>

(* The rows of a list: added at the end, changed, removed, dragged onto    *)
(* another row or moved by one place.  Bound: two rows in a list.          *)
RowLists == {"specs", "variants"}
InList(f, list) == IF list = "specs" THEN f.specs ELSE f.variants
WithList(f, list, rows) ==
    IF list = "specs" THEN [f EXCEPT !.specs = rows] ELSE [f EXCEPT !.variants = rows]
Dragged(s, from, to) == InsertAt(RemoveAt(s, from), to, s[from])

EditList(list, rows) ==
    /\ PdUsed /\ Editing
    /\ pdDesk' = [pdDesk EXCEPT !.form = WithList(@, list, rows)]
    /\ UNCHANGED <<pdServer, pdMedia>>

AddRow(list) ==
    LET rows == InList(pdDesk.form, list)
        id == CHOOSE n \in 1..3 : \A k \in DOMAIN rows : rows[k].id # n
    IN  Len(rows) < 2 /\ EditList(list, Append(rows, Row(id, "blank")))

UpdateRow(list, id) ==
    LET rows == InList(pdDesk.form, list)
    IN  /\ \E k \in DOMAIN rows : rows[k].id = id
        /\ EditList(list, [k \in DOMAIN rows |->
                              IF rows[k].id = id THEN Row(id, "typed") ELSE rows[k]])

RemoveRow(list, id) ==
    LET rows == InList(pdDesk.form, list)
    IN  /\ \E k \in DOMAIN rows : rows[k].id = id
        /\ EditList(list, SelectSeq(rows, LAMBDA row : row.id # id))

ReorderRows(from, to) ==
    LET rows == pdDesk.form.specs
    IN  {from, to} \subseteq DOMAIN rows /\ from # to /\ EditList("specs", Dragged(rows, from, to))

ReorderSections(from, to) ==
    /\ PdUsed /\ Editing /\ from # to
    /\ pdDesk' = [pdDesk EXCEPT !.form.order = Dragged(@, from, to)]
    /\ UNCHANGED <<pdServer, pdMedia>>

ShowPreview(tab) ==
    /\ OnProductForm(pdDesk) /\ ~pdDesk.loading /\ ~pdDesk.saved /\ pdDesk.tab # tab
    /\ PdUsed /\ pdDesk' = [pdDesk EXCEPT !.tab = tab]
    /\ UNCHANGED <<pdServer, pdMedia>>

-----------------------------------------------------------------------------
(* The upload field takes the files that fit; handleFilesAdded puts them   *)
(* in the form as placeholders and sends them in one request.              *)
HandleFilesAdded(files) ==
    /\ PdUsed /\ Editing /\ \A p \in pdDesk.form.images : p.file \notin files
    /\ pdDesk' = [pdDesk EXCEPT !.form.images = @ \cup {Pic(i, FALSE) : i \in files},
                                !.uploads = @ \cup {files}]
    /\ UNCHANGED <<pdServer, pdMedia>>

(* The route refuses a caller without a staff cookie, then writes one file *)
(* after the other: what it wrote before a bad file stays.                 *)
StoreFiles(files, stored, ok) ==
    /\ stored \subseteq files /\ (ok => stored = files)
    /\ pdMedia' = pdMedia \cup stored

(* The answer gives the placeholders that are still there their paths, a   *)
(* failure removes them.                                                   *)
FilesUploaded(files, stored, ok) ==
    /\ files \in pdDesk.uploads /\ StoreFiles(files, stored, ok)
    /\ LET waiting == {p \in pdDesk.form.images : p.file \in files /\ ~p.stored}
           rest == pdDesk.form.images \ waiting
       IN  pdDesk' = [pdDesk EXCEPT !.uploads = @ \ {files}, !.calm = @ /\ ok,
                        !.form.images = IF ok THEN rest \cup {Pic(p.file, TRUE) : p \in waiting} ELSE rest]
    /\ UNCHANGED <<pdServer, pdUses>>

HandleFileRemoved(p) ==
    /\ PdUsed /\ Editing /\ p \in pdDesk.form.images
    /\ pdDesk' = [pdDesk EXCEPT !.form.images = @ \ {p}]
    /\ UNCHANGED <<pdServer, pdMedia>>

AddImageByUrl(i) ==
    /\ PdUsed /\ Editing /\ \A p \in pdDesk.form.images : p.file # i
    /\ pdDesk' = [pdDesk EXCEPT !.form.images = @ \cup {Pic(i, TRUE)}]
    /\ pdMedia' = pdMedia \cup {i}
    /\ UNCHANGED pdServer

-----------------------------------------------------------------------------
(* What handleSubmit sends: neither placeholders without a path nor empty  *)
(* rows, and from an edit form no slug.                                    *)
Payload ==
    LET f == pdDesk.form
    IN  [text |-> f.text, images |-> Paths(f), order |-> f.order, variants |-> f.variants,
         specs |-> SelectSeq(f.specs, LAMBDA row : row.text # "blank"),
         slug |-> IF pdDesk.page.at = "new" THEN f.slug ELSE "not sent"]

(* The form can be sent while images are on their way, not while it is     *)
(* being saved.  Required inputs must be filled.  Bound: one save at a     *)
(* time, also when the form was left and opened again meanwhile.           *)
HandleSubmitProduct ==
    /\ PdUsed /\ Editing /\ pdDesk.save = Quiet /\ pdDesk.form.text # "blank"
    /\ pdDesk' = [pdDesk EXCEPT !.save = [step |-> "sent", here |-> TRUE, page |-> pdDesk.page, id |-> "none",
                                          data |-> Payload],
                                !.calm = @ /\ pdDesk.fetch = Quiet]
    /\ UNCHANGED <<pdServer, pdMedia>>

ProductSaved(p) ==
    /\ pdDesk.save.step = "sent"
    /\ IF pdDesk.save.page.at = "new"
       THEN p \notin Stored(pdServer) \cup Stored(pdDesk.store)
       ELSE p = pdDesk.save.page.id /\ p \in Stored(pdServer)
    /\ LET kept == IF pdDesk.save.page.at = "new" THEN pdDesk.save.data.slug ELSE pdServer[p].slug
           product == [pdDesk.save.data EXCEPT !.slug = kept]
       IN  /\ pdServer' = [pdServer EXCEPT ![p] = product]
           /\ pdDesk' = [pdDesk EXCEPT !.save.step = "done", !.save.id = p, !.save.data = product]
    /\ UNCHANGED <<pdMedia, pdUses>>

(* addProduct puts the answer in front of the list, updateProduct replaces *)
(* the entry; the form then shows "saved" and leaves after 1.5 seconds,    *)
(* whichever page is open by then.                                         *)
SaveAnswered ==
    /\ pdDesk.save.step = "done"
    /\ LET s == pdDesk.save
           known == pdDesk.store[s.id] # NoProduct
           d == [pdDesk EXCEPT !.save = Quiet, !.leaving = TRUE, !.saved = @ \/ s.here,
                    !.twice = IF s.page.at = "new" /\ known THEN @ \cup {s.id} ELSE @,
                    !.store[s.id] = IF s.page.at = "new" \/ known THEN s.data ELSE @]
       IN  pdDesk' = Refilled(d)
    /\ UNCHANGED <<pdServer, pdMedia, pdUses>>

SaveProductFails ==
    /\ pdDesk.save.step \in {"sent", "done"}
    /\ pdDesk' = [pdDesk EXCEPT !.save = Quiet, !.calm = FALSE]
    /\ UNCHANGED <<pdServer, pdMedia, pdUses>>

BackToList ==
    /\ pdDesk.leaving
    /\ pdDesk' = FetchProducts(Opened([pdDesk EXCEPT !.leaving = FALSE], OnList))
    /\ UNCHANGED <<pdServer, pdMedia, pdUses>>

-----------------------------------------------------------------------------
(* Bound: one deletion at a time; the page only blocks the row itself.     *)
HandleDeleteProduct(p) ==
    /\ PdUsed /\ pdDesk.page = OnList /\ pdDesk.delete = Quiet /\ p \in Stored(pdDesk.store)
    /\ pdDesk' = [pdDesk EXCEPT !.delete = [step |-> "sent", id |-> p],
                                !.calm = @ /\ pdDesk.fetch = Quiet]
    /\ UNCHANGED <<pdServer, pdMedia>>

ProductDeleted ==
    /\ pdDesk.delete.step = "sent" /\ pdDesk.delete.id \in Stored(pdServer)
    /\ pdServer' = [pdServer EXCEPT ![pdDesk.delete.id] = NoProduct]
    /\ pdDesk' = [pdDesk EXCEPT !.delete.step = "done"]
    /\ UNCHANGED <<pdMedia, pdUses>>

DeleteAnswered ==
    /\ pdDesk.delete.step = "done"
    /\ pdDesk' = [pdDesk EXCEPT !.store[pdDesk.delete.id] = NoProduct,
                                !.twice = @ \ {pdDesk.delete.id}, !.delete = Quiet]
    /\ UNCHANGED <<pdServer, pdMedia, pdUses>>

DeleteFails ==
    /\ pdDesk.delete # Quiet
    /\ pdDesk' = [pdDesk EXCEPT !.delete = Quiet, !.calm = FALSE]
    /\ UNCHANGED <<pdServer, pdMedia, pdUses>>

ProductDeskNext ==
    \/ \E ok \in BOOLEAN : ProductsRead(ok)
    \/ ProductsArrive \/ OpenList \/ OpenNewProduct
    \/ \E p \in ProductIds : OpenEditProduct(p) \/ ProductSaved(p) \/ HandleDeleteProduct(p)
    \/ \E slug \in {"auto", "own"} : TypeSlug(slug)
    \/ \E list \in RowLists : AddRow(list) \/ \E id \in 1..2 : UpdateRow(list, id) \/ RemoveRow(list, id)
    \/ \E from, to \in 1..2 : ReorderRows(from, to)
    \/ \E from, to \in 1..3 : ReorderSections(from, to)
    \/ FillProductForm \/ HandleSubmitProduct
    \/ \E tab \in {"edit", "preview"} : ShowPreview(tab)
    \/ \E files \in SUBSET Images \ {{}} : HandleFilesAdded(files)
    \/ \E i \in Images : AddImageByUrl(i)
    \/ \E files \in pdDesk.uploads, ok \in BOOLEAN :
          \E stored \in SUBSET files : FilesUploaded(files, stored, ok)
    \/ \E p \in pdDesk.form.images : HandleFileRemoved(p)
    \/ SaveAnswered \/ SaveProductFails \/ BackToList
    \/ ProductDeleted \/ DeleteAnswered \/ DeleteFails

-----------------------------------------------------------------------------
(* Every image of a saved product exists: the form may be sent while       *)
(* uploads run, fail or were forgotten with the form they were started in. *)
SavedImagesExist == \A p \in Stored(pdServer) : pdServer[p].images \subseteq pdMedia

(* When nothing failed and no request overlapped a write, the list at rest *)
(* shows exactly the products of the service, each once and as it is.      *)
CalmProductsAreServed ==
    /\ pdDesk.calm /\ pdDesk.save = Quiet /\ pdDesk.delete = Quiet /\ pdDesk.fetch = Quiet
    => pdDesk.store = pdServer /\ pdDesk.twice = {}
=============================================================================
