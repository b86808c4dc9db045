---------------------------- MODULE ProductImport ----------------------------
(***************************************************************************)
(* Bulk import of products (apps/web/src/app/admin/import/page.tsx,        *)
(* apps/api/src/modules/products/bulkImport.ts, service.ts).  The page     *)
(* checks what is in its box by a dry run and imports it when pressed.     *)
(* The API goes through the rows one by one, without a transaction around  *)
(* them: other admins change the catalogue meanwhile, a row may fail, and  *)
(* the process may stop between two of them.                               *)
(***************************************************************************)
EXTENDS Integers, Sequences, FiniteSets

CONSTANTS
    Text, RowsOf,   \* what may be in the box, and its rows
    Excel,          \* the texts that come out of an Excel file
    Barcode, NoBarcode,
    Request,        \* requests the API may work on at the same time
    MaxChoices, MaxOthers, MaxMishaps,  \* bounds on what happens
    Nothing

FileRow == [bar : Barcode \cup {NoBarcode}, valid : BOOLEAN]

ASSUME ImportAssumption ==
    /\ NoBarcode \notin Barcode /\ Nothing \notin Text /\ Excel \subseteq Text
    /\ RowsOf \in [Text -> Seq(FileRow)]
    /\ IsFiniteSet(Request) /\ MaxChoices \in Nat /\ MaxOthers \in Nat /\ MaxMishaps \in Nat

VARIABLES
    barcodes,       \* of the products there are
    box, converting,    \* the text in the box, and the Excel files being read
    toCheck,        \* the text changed: it is checked in a moment
    preview, previewError,
    importing, importedText,
    request,        \* the API's dry runs and imports
    \* History, read by no guard but the bounds.
    created,        \* how often a row has created a product
    forgotten,      \* how often the page lost sight of a text's import
    choices, others, mishaps

importVars == <<barcodes, box, converting, toCheck, preview, previewError, importing, importedText,
                request, created, forgotten, choices, others, mishaps>>
chosen == <<box, converting, choices>>
shown  == <<toCheck, preview, previewError, importing, importedText>>
atApi  == <<barcodes, created>>
bounds == <<others, mishaps>>

Result  == {"created", "updated", "error"}
NoFile  == [text |-> Nothing, results |-> << >>, calm |-> TRUE]
Checked == [text : Text \cup {Nothing}, results : Seq(Result), calm : BOOLEAN]
Free    == [kind |-> "free"]
\* `here`: the page waits for it.  `calm`: nobody else changed the catalogue
\* since the preview, and no row met a mishap.
ApiRequest == {Free} \cup [kind : {"check", "import"}, text : Text, step : {"find", "update", "gone", "create"},
                           seen : SUBSET Barcode, results : Seq(Result), foretold : Seq(Result),
                           here : BOOLEAN, calm : BOOLEAN]

ImportTypeOK ==
    /\ barcodes \subseteq Barcode /\ box \in Text \cup {Nothing} /\ converting \subseteq Excel
    /\ toCheck \in BOOLEAN /\ preview \in Checked /\ previewError \in Text \cup {Nothing}
    /\ importing \in BOOLEAN /\ importedText \in Text \cup {Nothing}
    /\ request \in [Request -> ApiRequest]
    /\ \A t \in Text : created[t] \in [DOMAIN RowsOf[t] -> Nat]
    /\ forgotten \in [Text -> Nat]
    /\ choices \in 0 .. MaxChoices /\ others \in 0 .. MaxOthers /\ mishaps \in 0 .. MaxMishaps
    \* One check is for what is in the box, and one import is awaited.
    /\ \A r \in Request : request[r] # Free /\ request[r].here =>
          IF request[r].kind = "check" THEN request[r].text = box ELSE importing

EmptyPage ==
    /\ box = Nothing /\ converting = {} /\ toCheck = FALSE /\ preview = NoFile
    /\ previewError = Nothing /\ importing = FALSE /\ importedText = Nothing

ImportInit ==
    /\ EmptyPage /\ barcodes \in SUBSET Barcode
    /\ request = [r \in Request |-> Free]
    /\ created = [t \in Text |-> [i \in DOMAIN RowsOf[t] |-> 0]]
    /\ forgotten = [t \in Text |-> 0] /\ choices = 0 /\ others = 0 /\ mishaps = 0

-----------------------------------------------------------------------------
(* The box.                                                                *)

Choice == choices < MaxChoices /\ choices' = choices + 1
Mishap == mishaps < MaxMishaps /\ mishaps' = mishaps + 1

\* Another text cancels the check of the last one; a check has no effects.
SetBox(t) ==
    /\ box' = t
    /\ IF t = box THEN UNCHANGED <<toCheck, request>>
       ELSE /\ toCheck' = (t # Nothing)
            /\ request' = [r \in Request |-> IF request[r].kind = "check" THEN Free ELSE request[r]]

\* A CSV file, an edit, or Clear.
PutInBox(t) ==
    /\ Choice /\ t # box /\ SetBox(t)
    /\ UNCHANGED <<atApi, converting, preview, previewError, importing, importedText, forgotten, bounds>>

\* An Excel file is converted by the API; it can be dropped while another is read.
ChooseExcel(t) ==
    /\ Choice /\ t \notin converting /\ converting' = converting \cup {t}
    /\ UNCHANGED <<atApi, box, shown, request, forgotten, bounds>>

Converted(t) ==
    /\ t \in converting /\ converting' = converting \ {t} /\ SetBox(t)
    /\ UNCHANGED <<atApi, preview, previewError, importing, importedText, forgotten, choices, bounds>>

NotConverted(t) ==
    /\ t \in converting /\ converting' = converting \ {t} /\ Mishap
    /\ UNCHANGED <<atApi, box, shown, request, forgotten, choices, others>>

-----------------------------------------------------------------------------
(* Checking and importing.                                                 *)

NewRequest(kind, t, foretold, calm) ==
    [kind |-> kind, text |-> t, step |-> "find", seen |-> {}, results |-> << >>,
     foretold |-> foretold, here |-> TRUE, calm |-> calm]

\* The places for requests are alike: the first free one is taken.
FreePlace(r) == request[r] = Free /\ r = CHOOSE q \in Request : request[q] = Free

CheckBox(r) ==
    /\ toCheck /\ FreePlace(r) /\ toCheck' = FALSE
    /\ request' = [request EXCEPT ![r] = NewRequest("check", box, << >>, TRUE)]
    /\ UNCHANGED <<atApi, chosen, preview, previewError, importing, importedText, forgotten, bounds>>

Done(r) == request[r] # Free /\ Len(request[r].results) = Len(RowsOf[request[r].text])
NoErrors(results) == \A i \in DOMAIN results : results[i] # "error"

CheckAnswered(r) ==
    LET q == request[r] IN
    /\ Done(r) /\ q.kind = "check"
    /\ preview' = [text |-> q.text, results |-> q.results, calm |-> q.calm]
    /\ request' = [request EXCEPT ![r] = Free]
    /\ UNCHANGED <<atApi, chosen, toCheck, previewError, importing, importedText, forgotten, bounds>>

\* The text is not checked again until it changes.
CheckFails(r) ==
    /\ request[r].kind = "check" /\ Mishap
    /\ previewError' = request[r].text /\ request' = [request EXCEPT ![r] = Free]
    /\ UNCHANGED <<atApi, chosen, toCheck, preview, importing, importedText, forgotten, others>>

\* Without alreadyImported.
canImport_Again == preview.text = box /\ NoErrors(preview.results) /\ ~importing

canImport ==
    /\ preview.text = box /\ NoErrors(preview.results) /\ ~importing
    /\ importedText # box

handleImport(r) ==
    /\ box # Nothing /\ canImport /\ FreePlace(r)
    /\ importing' = TRUE
    /\ request' = [request EXCEPT ![r] = NewRequest("import", box, preview.results, preview.calm)]
    /\ UNCHANGED <<atApi, chosen, toCheck, preview, previewError, importedText, forgotten, bounds>>

Forget(t) == forgotten' = IF t \in Text THEN [forgotten EXCEPT ![t] = @ + 1] ELSE forgotten

\* Imported, rows that failed included; the page knows the last text only.
ImportAnswered(r) ==
    LET q == request[r] IN
    /\ Done(r) /\ q.kind = "import" /\ q.here
    /\ importing' = FALSE /\ importedText' = q.text
    /\ Forget(IF importedText = q.text THEN Nothing ELSE importedText)
    /\ request' = [request EXCEPT ![r] = Free]
    /\ UNCHANGED <<atApi, chosen, toCheck, preview, previewError, bounds>>

\* No answer reaches the page: the API goes on, or has stopped.
ImportUnanswered(r) ==
    LET q == request[r] IN
    /\ q.kind = "import" /\ q.here /\ Mishap
    /\ importing' = FALSE /\ Forget(q.text)
    /\ \/ request' = [request EXCEPT ![r].here = FALSE]
       \/ request' = [request EXCEPT ![r] = Free]
    /\ UNCHANGED <<atApi, chosen, toCheck, preview, previewError, importedText, others>>

NobodyWaits(r) ==
    /\ Done(r) /\ request[r].kind = "import" /\ ~request[r].here
    /\ request' = [request EXCEPT ![r] = Free]
    /\ UNCHANGED <<atApi, chosen, shown, forgotten, bounds>>

\* A fresh page knows of no import; those under way go on.
ReloadPage ==
    LET Awaited == {request[r].text : r \in {q \in Request : request[q].kind = "import" /\ request[q].here}} IN
    /\ Choice
    /\ box' = Nothing /\ converting' = {} /\ toCheck' = FALSE /\ preview' = NoFile
    /\ previewError' = Nothing /\ importing' = FALSE /\ importedText' = Nothing
    /\ forgotten' = [t \in Text |-> IF t = importedText \/ t \in Awaited THEN forgotten[t] + 1 ELSE forgotten[t]]
    /\ request' = [r \in Request |-> IF request[r].kind = "import" THEN [request[r] EXCEPT !.here = FALSE] ELSE Free]
    /\ UNCHANGED <<atApi, bounds>>

-----------------------------------------------------------------------------
(* The rows.                                                               *)

Row(q) == RowsOf[q.text][Len(q.results) + 1]
AtRow(r, step) == request[r] # Free /\ ~Done(r) /\ request[r].step = step

RowAnswer(q, result, calm) ==
    [q EXCEPT !.results = Append(@, result), !.step = "find", !.calm = @ /\ calm]

\* The catalogue changed: what was foretold before may not come true.
Disturb(q) == IF q = Free THEN Free ELSE [q EXCEPT !.calm = FALSE]
CatalogueChanges == preview' = [preview EXCEPT !.calm = FALSE]

IsUpdate_DatabaseOnly(q, existing) == existing

\* An earlier row of the file with the same barcode has created the product.
IsUpdate(q, existing) == existing \/ Row(q).bar \in q.seen \ {NoBarcode}

FindRow(r) ==
    LET q        == request[r]
        existing == Row(q).bar \in barcodes
        looked   == [q EXCEPT !.seen = @ \cup ({Row(q).bar} \ {NoBarcode})]
    IN
    /\ AtRow(r, "find")
    /\ request' = [request EXCEPT ![r] =
          IF ~Row(q).valid THEN RowAnswer(q, "error", TRUE)
          ELSE IF q.kind = "check"
               THEN RowAnswer(looked, IF IsUpdate(q, existing) THEN "updated" ELSE "created", TRUE)
               ELSE [looked EXCEPT !.step = IF existing THEN "update" ELSE "create"]]
    /\ UNCHANGED <<atApi, chosen, shown, forgotten, bounds>>

\* 404 when the product found has been deleted.
UpdateRow(r) ==
    /\ \/ AtRow(r, "update") /\ request' = [request EXCEPT ![r] = RowAnswer(request[r], "updated", TRUE)]
       \/ AtRow(r, "gone") /\ request' = [request EXCEPT ![r] = RowAnswer(request[r], "error", TRUE)]
    /\ UNCHANGED <<atApi, chosen, shown, forgotten, bounds>>

Save(r, result, calm) ==
    LET q == request[r] IN
    /\ barcodes' = barcodes \cup ({Row(q).bar} \ {NoBarcode})
    /\ created' = [created EXCEPT ![q.text][Len(q.results) + 1] = @ + 1]
    /\ request' = [x \in Request |-> IF x = r THEN RowAnswer(q, result, calm)
                                     ELSE IF Row(q).bar = NoBarcode THEN request[x] ELSE Disturb(request[x])]
    /\ IF Row(q).bar = NoBarcode THEN UNCHANGED preview ELSE CatalogueChanges

\* 409 when the barcode has been taken since it was looked for.
CreateRow(r) ==
    /\ AtRow(r, "create")
    /\ IF Row(request[r]).bar \in barcodes
       THEN request' = [request EXCEPT ![r] = RowAnswer(request[r], "error", TRUE)] /\ UNCHANGED <<atApi, preview>>
       ELSE Save(r, "created", TRUE)
    /\ UNCHANGED <<chosen, toCheck, previewError, importing, importedText, forgotten, bounds>>

\* The database fails, before the row is saved or after it.
RowFails(r) ==
    /\ request[r] # Free /\ ~Done(r) /\ request[r].step # "find" /\ Mishap
    /\ \/ request' = [request EXCEPT ![r] = RowAnswer(request[r], "error", FALSE)] /\ UNCHANGED <<atApi, preview>>
       \/ request[r].step = "create" /\ Row(request[r]).bar \notin barcodes /\ Save(r, "error", FALSE)
    /\ UNCHANGED <<chosen, toCheck, previewError, importing, importedText, forgotten, others>>

-----------------------------------------------------------------------------
(* Other admins (createProduct, updateProduct, deleteProduct).             *)

OtherTakesBarcode(b) ==
    /\ b \notin barcodes /\ others < MaxOthers /\ others' = others + 1
    /\ barcodes' = barcodes \cup {b}
    /\ request' = [r \in Request |-> Disturb(request[r])] /\ CatalogueChanges
    /\ UNCHANGED <<chosen, toCheck, previewError, importing, importedText, created, forgotten, mishaps>>

\* The product is deleted, or gets another barcode.
OtherFreesBarcode(b) ==
    /\ b \in barcodes /\ others < MaxOthers /\ others' = others + 1
    /\ barcodes' = barcodes \ {b}
    /\ \E deleted \in BOOLEAN :
          request' = [r \in Request |->
              IF deleted /\ AtRow(r, "update") /\ Row(request[r]).bar = b
              THEN [Disturb(request[r]) EXCEPT !.step = "gone"] ELSE Disturb(request[r])]
    /\ CatalogueChanges
    /\ UNCHANGED <<chosen, toCheck, previewError, importing, importedText, created, forgotten, mishaps>>

ImportNext ==
    \/ \E t \in Text : PutInBox(t)
    \/ PutInBox(Nothing)
    \/ \E t \in Excel : ChooseExcel(t) \/ Converted(t) \/ NotConverted(t)
    \/ \E r \in Request :
          \/ CheckBox(r) \/ CheckAnswered(r) \/ CheckFails(r)
          \/ handleImport(r) \/ ImportAnswered(r) \/ ImportUnanswered(r) \/ NobodyWaits(r)
          \/ FindRow(r) \/ UpdateRow(r) \/ CreateRow(r) \/ RowFails(r)
    \/ ReloadPage
    \/ \E b \in Barcode : OtherTakesBarcode(b) \/ OtherFreesBarcode(b)

ImportSpec == ImportInit /\ [][ImportNext]_importVars

-----------------------------------------------------------------------------
(* Properties.                                                             *)

\* The import does to every row what the preview said, also for a barcode that
\* comes twice in the file, unless the catalogue changed or a row met a mishap
\* (bulkImport.ts: "so they always agree").
PreviewIsTrue ==
    \A r \in Request : Done(r) /\ request[r].kind = "import" /\ request[r].calm =>
        request[r].results = request[r].foretold

\* A row without a barcode is created again only after the page lost sight of
\* the import of its text (alreadyImported).
ImportedAgainIsExplained ==
    \A t \in Text : \A i \in DOMAIN RowsOf[t] :
        RowsOf[t][i].bar = NoBarcode => created[t][i] <= 1 + forgotten[t]
=============================================================================
