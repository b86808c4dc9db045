---------------------------- MODULE ProductForms ----------------------------
(***************************************************************************)
(* The product form (apps/web/src/components/admin/ProductForm.tsx), open  *)
(* on several screens, and createProduct, updateProduct and deleteProduct  *)
(* behind it (apps/api/src/modules/products/service.ts).                   *)
(*                                                                         *)
(* A save is several requests and several transactions: the product, its   *)
(* count or its availability, then its photo.  Each can fail after the one *)
(* before it was done, and the admin saves again.  Raw materials last: a   *)
(* dish with a recipe can be made.  A request's connection is lost at its  *)
(* answer, or because the API stops.                                       *)
(***************************************************************************)
EXTENDS Integers, FiniteSets

CONSTANTS
    LastProduct,            \* bounds how many products there are
    Form, FormBarcode,
    MaxCounted,             \* bounds a product's count
    Fillings,               \* how a form may be filled in
    MaxSubmits, MaxFailures, \* bound the saves and the failures
    None

ASSUME FormsAssumption ==
    /\ LastProduct \in Nat /\ MaxCounted \in Nat \ {0} /\ MaxSubmits \in Nat /\ MaxFailures \in Nat
    /\ Fillings \subseteq [tracking : {"unit", "recipe"}, stockQty : 0 .. MaxCounted,
                          barcode : FormBarcode \cup {None}, photo : {"keep", "new", "remove"}]
    /\ None \notin Nat /\ None \notin FormBarcode

Product == 1 .. LastProduct     \* in the order they are created

VARIABLES
    product,    \* the table, with the recipe's rows and the count
    form,       \* each form: savedProduct, and what its save is doing
    submits, failures,
    \* History: no guard reads it.
    made,       \* products each form created
    unheard,    \* products it created without an answer that says so
    unsettled,  \* products whose count or availability a save has still to set, or never did
    crossed     \* products whose tracking changed between a save's read and its write

formVars == <<product, form, submits, failures, made, unheard, unsettled, crossed>>

Tracking == {"unit", "recipe"}
ProductRow == [tracking : Tracking, rows : BOOLEAN, stockQty : 0 .. MaxCounted, isAvailable : BOOLEAN,
               barcode : FormBarcode \cup {None}, photo : BOOLEAN]
Absent   == [tracking |-> "none"]
Deleted  == [tracking |-> "deleted"]
Closed   == [at |-> "closed"]
Steps    == {"create", "read", "write", "check", "count", "refresh", "refreshed", "answer",
             "photo", "photoAnswer"}

\* The form is filled in, or `saving`.
Open ==
    [at : {"open"}, saved : Product \cup {None}]
    \cup [at : Steps, saved : Product \cup {None}, about : Product \cup {None}, sent : Fillings,
          was : Tracking \cup {None}, willBe : BOOLEAN]

FormsTypeOK ==
    /\ product \in [Product -> ProductRow \cup {Absent, Deleted}]
    /\ form \in [Form -> Open \cup {Closed}]
    /\ submits \in 0 .. MaxSubmits /\ failures \in 0 .. MaxFailures
    /\ made \in [Form -> SUBSET Product] /\ unheard \in [Form -> SUBSET Product]
    /\ unsettled \subseteq Product /\ crossed \subseteq Product

Exists(p) == product[p] \notin {Absent, Deleted}

FormsInit ==
    /\ product \in
          {[p \in Product |-> IF p = 1 THEN first ELSE Absent] : first \in {Absent} \cup
              {[tracking |-> t, rows |-> t = "recipe", stockQty |-> IF t = "unit" THEN MaxCounted ELSE 0,
                isAvailable |-> TRUE, barcode |-> None, photo |-> FALSE] : t \in Tracking}}
    /\ form = [f \in Form |-> Closed] /\ submits = 0 /\ failures = 0
    /\ made = [f \in Form |-> {}] /\ unheard = [f \in Form |-> {}]
    /\ unsettled = {} /\ crossed = {}

-----------------------------------------------------------------------------
(* The form.                                                               *)

Goes(f, with) == form' = [form EXCEPT ![f] = with]
At(f, step)   == form[f].at = step
Step(f, step) == Goes(f, [form[f] EXCEPT !.at = step])
history == <<made, unheard, unsettled, crossed>>
tables  == <<product, history>>

OpenForm(f, p) ==
    /\ At(f, "closed") /\ p # None => Exists(p)
    /\ Goes(f, [at |-> "open", saved |-> p])
    /\ made' = [made EXCEPT ![f] = {}] /\ unheard' = [unheard EXCEPT ![f] = {}]
    /\ UNCHANGED <<product, unsettled, crossed, submits, failures>>

CancelForm(f) == At(f, "open") /\ Goes(f, Closed) /\ UNCHANGED <<tables, submits, failures>>

\* handleSubmit: PUT for the product saved here before, POST for a new one.
Submit(f, sent) ==
    /\ At(f, "open") /\ submits < MaxSubmits /\ submits' = submits + 1
    /\ Goes(f, [at |-> IF form[f].saved = None THEN "create" ELSE "read", saved |-> form[f].saved,
                about |-> form[f].saved, sent |-> sent, was |-> None, willBe |-> TRUE])
    /\ UNCHANGED <<tables, failures>>

\* A message, and the form as it was.
FormRefused(f) == Goes(f, [at |-> "open", saved |-> form[f].saved])

\* The product it began with.
SavedAs_Forgotten(f) == form[f].saved

\* setSavedProduct, before the photo.
SavedAs(f) == form[f].about

\* The answer says which product was saved; then its photo, or onSaved.
SaveAnswered(f) ==
    /\ At(f, "answer")
    /\ IF ~Exists(form[f].about) THEN FormRefused(f) /\ UNCHANGED unheard
       ELSE /\ unheard' = [unheard EXCEPT ![f] = @ \ {form[f].about}]
            /\ IF form[f].sent.photo = "keep" THEN Goes(f, Closed)
               ELSE Goes(f, [form[f] EXCEPT !.at = "photo", !.saved = SavedAs(f)])
    /\ UNCHANGED <<product, submits, failures, made, unsettled, crossed>>

\* PUT or DELETE /:id/image; a product that is gone is refused.
SavePhoto(f) ==
    /\ At(f, "photo")
    /\ IF Exists(form[f].about)
       THEN /\ product' = [product EXCEPT ![form[f].about].photo = (form[f].sent.photo = "new")]
            /\ Step(f, "photoAnswer")
       ELSE FormRefused(f) /\ UNCHANGED product
    /\ UNCHANGED <<history, submits, failures>>

PhotoAnswered(f) == At(f, "photoAnswer") /\ Goes(f, Closed) /\ UNCHANGED <<tables, submits, failures>>

\* The API stops, an answer is lost, or a photo is too large.  What was done
\* stays; "the photo wasn't" leaves the form open on the saved product.
SaveFails(f) ==
    /\ form[f].at \in Steps /\ failures < MaxFailures /\ failures' = failures + 1
    /\ FormRefused(f)
    /\ UNCHANGED <<tables, submits>>

-----------------------------------------------------------------------------
(* The API.                                                                *)

Put(p, row) == product' = [product EXCEPT ![p] = row]
BarcodeTaken(b, p) == b # None /\ \E q \in Product \ {p} : Exists(q) /\ product[q].barcode = b

\* createProduct: a new product is available, whatever its count; a dish's
\* availability is worked out next.
CreateProduct(f, p) ==
    LET sent == form[f].sent IN
    /\ At(f, "create") /\ product[p] = Absent /\ \A q \in Product : q < p => product[q] # Absent
    /\ IF BarcodeTaken(sent.barcode, p) THEN FormRefused(f) /\ UNCHANGED <<product, history>>
       ELSE /\ Put(p, [tracking |-> sent.tracking, rows |-> sent.tracking = "recipe",
                       stockQty |-> sent.stockQty, isAvailable |-> TRUE,
                       barcode |-> sent.barcode, photo |-> FALSE])
            /\ Goes(f, [form[f] EXCEPT !.about = p,
                                       !.at = IF sent.tracking = "recipe" THEN "refresh" ELSE "answer"])
            /\ made' = [made EXCEPT ![f] = @ \cup {p}]
            /\ unheard' = [unheard EXCEPT ![f] = @ \cup {p}]
            /\ unsettled' = IF sent.stockQty > 0 THEN unsettled ELSE unsettled \cup {p}
            /\ UNCHANGED crossed
    /\ UNCHANGED <<submits, failures>>

\* updateProduct reads how the product was tracked.
ReadTracking(f) ==
    /\ At(f, "read")
    /\ IF Exists(form[f].about)
       THEN Goes(f, [form[f] EXCEPT !.at = "write", !.was = product[form[f].about].tracking])
       ELSE FormRefused(f)
    /\ UNCHANGED <<tables, submits, failures>>

\* Switching to unit tracking drops the recipe; saving a recipe replaces the
\* old one.
RowsKept(row, sent, was) == sent.tracking = "recipe" \/ (row.rows /\ was = "unit")

WriteProduct(f) ==
    LET sent == form[f].sent  p == form[f].about  row == product[p] IN
    /\ At(f, "write")
    /\ IF ~Exists(p) \/ BarcodeTaken(sent.barcode, p) THEN FormRefused(f) /\ UNCHANGED <<product, history>>
       ELSE /\ Put(p, [row EXCEPT !.tracking = sent.tracking, !.rows = RowsKept(row, sent, form[f].was),
                       !.barcode = IF sent.barcode = None THEN @ ELSE sent.barcode])
            /\ Step(f, IF sent.tracking = "unit" THEN "check" ELSE "refresh")
            /\ unsettled' = unsettled \cup {p}
            /\ crossed' = IF row.tracking = form[f].was THEN crossed ELSE crossed \cup {p}
            /\ UNCHANGED <<made, unheard>>
    /\ UNCHANGED <<submits, failures>>

\* applyStockChange: a product that has a recipe by now has no count to set.
CheckCount(f) ==
    /\ At(f, "check")
    /\ IF Exists(form[f].about) /\ product[form[f].about].tracking = "unit"
       THEN Step(f, "count") ELSE FormRefused(f)
    /\ UNCHANGED <<tables, submits, failures>>

\* Its transaction doesn't look at the tracking again.
SetCount(f) ==
    LET p == form[f].about IN
    /\ At(f, "count")
    /\ IF ~Exists(p) THEN FormRefused(f) /\ UNCHANGED <<product, unsettled>>
       ELSE /\ Put(p, [product[p] EXCEPT !.stockQty = form[f].sent.stockQty,
                                         !.isAvailable = (form[f].sent.stockQty > 0)])
            /\ unsettled' = IF product[p].tracking = "unit" THEN unsettled \ {p} ELSE unsettled \cup {p}
            /\ Step(f, "answer")
    /\ UNCHANGED <<submits, failures, made, unheard, crossed>>

Servable(row) == row.tracking = "recipe" \/ row.stockQty > 0

\* refreshAvailability reads what the product can be made from, and writes the
\* answer when it differs from what it read.
ReadServings(f) ==
    LET p == form[f].about IN
    /\ At(f, "refresh")
    /\ IF Exists(p) /\ Servable(product[p]) # product[p].isAvailable
       THEN Goes(f, [form[f] EXCEPT !.at = "refreshed", !.willBe = Servable(product[p])])
            /\ UNCHANGED unsettled
       ELSE Step(f, "answer") /\ unsettled' = unsettled \ {p}
    /\ UNCHANGED <<product, submits, failures, made, unheard, crossed>>

WriteAvailability(f) ==
    LET p == form[f].about IN
    /\ At(f, "refreshed")
    /\ IF ~Exists(p) THEN FormRefused(f) /\ UNCHANGED <<product, unsettled>>
       ELSE /\ Put(p, [product[p] EXCEPT !.isAvailable = form[f].willBe])
            /\ unsettled' = IF Servable(product[p]) = form[f].willBe THEN unsettled \ {p}
                          ELSE unsettled \cup {p}
            /\ Step(f, "answer")
    /\ UNCHANGED <<submits, failures, made, unheard, crossed>>

\* deleteProduct, of a product that was never ordered.
DeleteProduct(p) ==
    /\ Exists(p) /\ Put(p, Deleted)
    /\ made' = [f \in Form |-> made[f] \ {p}] /\ unheard' = [f \in Form |-> unheard[f] \ {p}]
    /\ unsettled' = unsettled \ {p} /\ crossed' = crossed \ {p}
    /\ UNCHANGED <<form, submits, failures>>

-----------------------------------------------------------------------------
FormsNext ==
    \/ \E p \in Product : DeleteProduct(p)
    \/ \E f \in Form :
          \/ \E p \in Product \cup {None} : OpenForm(f, p)
          \/ CancelForm(f) \/ \E sent \in Fillings : Submit(f, sent)
          \/ \E p \in Product : CreateProduct(f, p)
          \/ ReadTracking(f) \/ WriteProduct(f) \/ CheckCount(f) \/ SetCount(f) \/ ReadServings(f)
          \/ WriteAvailability(f)
          \/ SaveAnswered(f) \/ SavePhoto(f) \/ PhotoAnswered(f) \/ SaveFails(f)

FormsSpec == FormsInit /\ [][FormsNext]_formVars

-----------------------------------------------------------------------------
(* Properties                                                              *)

\* However often it is saved again, a form creates one product, and one more
\* for each time that the answer to its creation was lost (ProductForm.tsx:47).
FormsSaveOnce ==
    \A f \in Form : Cardinality(made[f] \ unheard[f]) <= 1

\* A dish has its recipe; a product counted by the piece has none, except when
\* another form changed how it is tracked in the middle of a save
\* (products/service.ts:220).
RecipesAreWhole ==
    \A p \in Product : Exists(p) =>
        /\ product[p].tracking = "recipe" => product[p].rows
        /\ product[p].tracking = "unit" /\ p \notin crossed => ~product[p].rows

\* A product is available when there is any, except when a save is halfway or
\* failed there, or two saves overlapped, or it was created with none (service.ts:236).
AvailabilityIsSettled ==
    \A p \in Product : Exists(p) /\ p \notin unsettled =>
        product[p].isAvailable = Servable(product[p])

\* What saving a form leaves of a product, however it failed or crossed another.
FormSavesAreExplained == FormsSaveOnce /\ RecipesAreWhole /\ AvailabilityIsSettled
=============================================================================
