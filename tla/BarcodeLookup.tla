--------------------------- MODULE BarcodeLookup ---------------------------
(***************************************************************************)
(* The barcode page (apps/web/src/app/admin/barcode/page.tsx): a scan asks *)
(* the API for its product, "inventory:updated" keeps the product on       *)
(* screen up to date, its stock can be adjusted from there, and a product  *)
(* can be added for a code that has none.                                  *)
(*                                                                         *)
(* A product's stock is the number of its changes: what matters is which   *)
(* of them the screen shows.  The API saves a change and then sends its    *)
(* event (inventory/service.ts), so events of changes saved at the same    *)
(* time can be sent in either order.                                       *)
(***************************************************************************)
EXTENDS Integers, Sequences, Functions

CONSTANTS
    Code,                       \* barcodes
    LastScan, MaxStockChanges,  \* bound the scans and the changes of stock
    MaxDrops,                   \* bounds the failures
    Unknown                     \* the stock of a code that no product has

ASSUME LookupAssumption ==
    /\ LastScan \in Nat /\ MaxStockChanges \in Nat /\ MaxDrops \in Nat
    /\ Unknown \notin Nat

VARIABLES
    changes,    \* of each code's product, or Unknown
    unsent, onItsWay,   \* changes whose event is to be sent, and events, in order
    scans, asked,   \* requestId, and the requests of the page that are under way
    lookup,     \* the page's state
    adjustingHere, adding,  \* its two windows
    drops,
    \* History: no guard reads it.
    lastCode,   \* the code scanned last
    outdated,   \* a newer change than the one on screen won't come any more
    addFailed   \* the last scan's answer was replaced by a failed "Add product"

lookupVars == <<changes, unsent, onItsWay, scans, asked, lookup, adjustingHere, adding, drops,
                lastCode, outdated, addFailed>>
stockSide  == <<changes, unsent, onItsWay>>

StockEvent == [code : Code, nth : 0 .. MaxStockChanges]
Stocks == (0 .. MaxStockChanges) \cup {Unknown}
Shut   == [at |-> "closed"]

LookupTypeOK ==
    /\ changes \in [Code -> Stocks]
    /\ unsent \subseteq StockEvent /\ onItsWay \in Seq(StockEvent)
    /\ scans \in 0 .. LastScan
    /\ asked \subseteq [id : 1 .. LastScan, code : Code, read : BOOLEAN, answer : Stocks]
    /\ lookup \in [state : {"idle"}] \cup [state : {"loading", "notFound", "error"}, code : Code]
                  \cup [state : {"found"}, code : Code, product : Code, nth : 0 .. MaxStockChanges]
    /\ adjustingHere \in {Shut} \cup [at : {"open"}, code : Code]
                         \cup [at : {"saved"}, code : Code, nth : 0 .. MaxStockChanges]
    /\ adding \in {Shut} \cup [at : {"categories", "form"}, code : Code]
    /\ drops \in 0 .. MaxDrops
    /\ lastCode \in Code /\ outdated \in BOOLEAN /\ addFailed \in BOOLEAN

\* Some codes have a product.
LookupInit ==
    /\ changes \in [Code -> {0, Unknown}]
    /\ unsent = {} /\ onItsWay = <<>> /\ scans = 0 /\ asked = {}
    /\ lookup = [state |-> "idle"] /\ adjustingHere = Shut /\ adding = Shut /\ drops = 0
    /\ lastCode \in Code /\ outdated = FALSE /\ addFailed = FALSE

-----------------------------------------------------------------------------
(* The API and its events.                                                 *)

Drop == drops < MaxDrops /\ drops' = drops + 1

Saved(c) ==
    /\ changes[c] \in 0 .. MaxStockChanges - 1
    /\ changes' = [changes EXCEPT ![c] = @ + 1]
    /\ unsent' = unsent \cup {[code |-> c, nth |-> changes[c] + 1]}

\* An order, or an adjustment made elsewhere.
StockChanges(c) ==
    /\ Saved(c)
    /\ UNCHANGED <<onItsWay, scans, asked, lookup, adjustingHere, adding, drops, lastCode,
                   outdated, addFailed>>

SendEvent(e) ==
    /\ e \in unsent /\ unsent' = unsent \ {e} /\ onItsWay' = Append(onItsWay, e)
    /\ UNCHANGED <<changes, scans, asked, lookup, adjustingHere, adding, drops, lastCode,
                   outdated, addFailed>>

\* Events of code c that will reach the page, leaving those in `gone`.
Coming(c, gone) == {e.nth : e \in {x \in (unsent \cup Range(onItsWay)) \ gone : x.code = c}}

\* Code c's answer, with the product of code p at its nth change.
Show(c, p, nth, gone) ==
    /\ lookup' = [state |-> "found", code |-> c, product |-> p, nth |-> nth]
    /\ outdated' = (nth < changes[p] /\ changes[p] \notin Coming(p, gone))

Found(p) == lookup.state = "found" /\ lookup.product = p

\* current.state === "found" && current.product.id === event.productId
Updates(e) == Found(e.code)

\* A change that comes while its product is being looked up is not shown.
onInventoryUpdated ==
    /\ onItsWay # <<>> /\ onItsWay' = Tail(onItsWay)
    /\ LET e == Head(onItsWay) IN
       IF Updates(e) THEN Show(lookup.code, e.code, e.nth, {e}) ELSE UNCHANGED <<lookup, outdated>>
    /\ UNCHANGED <<changes, unsent, scans, asked, adjustingHere, adding, drops, lastCode, addFailed>>

\* The page was not connected when it was sent.
EventDropped ==
    /\ onItsWay # <<>> /\ onItsWay' = Tail(onItsWay) /\ Drop
    /\ LET e == Head(onItsWay) IN
       outdated' = (outdated \/ (Found(e.code) /\ lookup.nth < changes[e.code] /\ e.nth = changes[e.code]))
    /\ UNCHANGED <<changes, unsent, scans, asked, lookup, adjustingHere, adding, lastCode, addFailed>>

-----------------------------------------------------------------------------
(* Looking up.                                                             *)

\* runLookup
runLookup(c) ==
    /\ scans < LastScan /\ scans' = scans + 1
    /\ asked' = asked \cup {[id |-> scans + 1, code |-> c, read |-> FALSE, answer |-> Unknown]}
    /\ lookup' = [state |-> "loading", code |-> c]
    /\ lastCode' = c /\ outdated' = FALSE /\ addFailed' = FALSE

\* A scan, a typed code, a code looked up before, or "Try again": not while a
\* window is open.
Scan(c) ==
    /\ adjustingHere = Shut /\ adding.at # "form"
    /\ runLookup(c)
    /\ UNCHANGED <<stockSide, adjustingHere, adding, drops>>

\* getProductByBarcode
ReadProduct(r) ==
    /\ r \in asked /\ ~r.read
    /\ asked' = (asked \ {r}) \cup {[r EXCEPT !.read = TRUE, !.answer = changes[r.code]]}
    /\ UNCHANGED <<stockSide, scans, lookup, adjustingHere, adding, drops, lastCode, outdated, addFailed>>

\* The answer that comes last.
IsNewest_Any(r) == TRUE

\* id === requestId.current: a newer scan wins over a slower older one
IsNewest(r) == r.id = scans

LookupAnswered(r) ==
    /\ r \in asked /\ r.read /\ asked' = asked \ {r}
    /\ IF ~IsNewest(r) THEN UNCHANGED <<lookup, outdated>>
       ELSE IF r.answer = Unknown
            THEN lookup' = [state |-> "notFound", code |-> r.code] /\ UNCHANGED outdated
            ELSE Show(r.code, r.code, r.answer, {})
    /\ UNCHANGED <<stockSide, scans, adjustingHere, adding, drops, lastCode, addFailed>>

LookupFails(r) ==
    /\ r \in asked /\ asked' = asked \ {r} /\ Drop
    /\ lookup' = IF IsNewest(r) THEN [state |-> "error", code |-> r.code] ELSE lookup
    /\ UNCHANGED <<stockSide, scans, adjustingHere, adding, lastCode, outdated, addFailed>>

-----------------------------------------------------------------------------
(* Adjusting the stock of the product on screen.                           *)

OpenAdjust ==
    /\ lookup.state = "found" /\ adjustingHere = Shut /\ adding.at # "form"
    /\ adjustingHere' = [at |-> "open", code |-> lookup.product]
    /\ UNCHANGED <<stockSide, scans, asked, lookup, adding, drops, lastCode, outdated, addFailed>>

\* Its answer is on its way while others change the stock.
SaveAdjust ==
    LET c == adjustingHere.code IN
    /\ adjustingHere.at = "open" /\ Saved(c)
    /\ adjustingHere' = [at |-> "saved", code |-> c, nth |-> changes[c] + 1]
    /\ UNCHANGED <<onItsWay, scans, asked, lookup, adding, drops, lastCode, outdated, addFailed>>

\* handleAdjusted: the answer is sent after the event.  Its product is shown,
\* whichever was looked up meanwhile.
handleAdjusted ==
    LET own == [code |-> adjustingHere.code, nth |-> adjustingHere.nth] IN
    /\ adjustingHere.at = "saved" /\ own \notin unsent /\ adjustingHere' = Shut
    /\ IF lookup.state = "found" THEN Show(lookup.code, own.code, own.nth, {}) ELSE UNCHANGED <<lookup, outdated>>
    /\ UNCHANGED <<stockSide, scans, asked, adding, drops, lastCode, addFailed>>

\* The window stays open, with a message.
AdjustAnswerLost ==
    /\ adjustingHere.at = "saved" /\ Drop
    /\ adjustingHere' = [at |-> "open", code |-> adjustingHere.code]
    /\ UNCHANGED <<stockSide, scans, asked, lookup, adding, lastCode, outdated, addFailed>>

CloseAdjust ==
    /\ adjustingHere.at = "open" /\ adjustingHere' = Shut
    /\ UNCHANGED <<stockSide, scans, asked, lookup, adding, drops, lastCode, outdated, addFailed>>

-----------------------------------------------------------------------------
(* Adding a product for a code that has none.                              *)

\* The categories are fetched first; scanning goes on meanwhile.
startAdding ==
    /\ lookup.state = "notFound" /\ adding = Shut
    /\ adding' = [at |-> "categories", code |-> lookup.code]
    /\ UNCHANGED <<stockSide, scans, asked, lookup, adjustingHere, drops, lastCode, outdated, addFailed>>

CategoriesAnswered ==
    /\ adding.at = "categories" /\ adding' = [adding EXCEPT !.at = "form"]
    /\ UNCHANGED <<stockSide, scans, asked, lookup, adjustingHere, drops, lastCode, outdated, addFailed>>

\* Shown whatever was scanned meanwhile.
CategoriesFail ==
    /\ adding.at = "categories" /\ adding' = Shut /\ Drop
    /\ lookup' = [state |-> "error", code |-> adding.code] /\ addFailed' = TRUE
    /\ UNCHANGED <<stockSide, scans, asked, adjustingHere, lastCode, outdated>>

\* The form's product has the code it was opened with; the page looks it up.
handleAdded ==
    /\ adding.at = "form" /\ adding' = Shut
    /\ changes[adding.code] = Unknown
    /\ changes' = [changes EXCEPT ![adding.code] = 0]
    /\ runLookup(adding.code)
    /\ UNCHANGED <<unsent, onItsWay, adjustingHere, drops>>

CloseForm ==
    /\ adding.at = "form" /\ adding' = Shut
    /\ UNCHANGED <<stockSide, scans, asked, lookup, adjustingHere, drops, lastCode, outdated, addFailed>>

-----------------------------------------------------------------------------
LookupNext ==
    \/ \E c \in Code : StockChanges(c) \/ Scan(c)
    \/ \E e \in unsent : SendEvent(e)
    \/ onInventoryUpdated \/ EventDropped
    \/ \E r \in asked : ReadProduct(r) \/ LookupAnswered(r) \/ LookupFails(r)
    \/ OpenAdjust \/ SaveAdjust \/ handleAdjusted \/ AdjustAnswerLost \/ CloseAdjust
    \/ startAdding \/ CategoriesAnswered \/ CategoriesFail \/ handleAdded \/ CloseForm

LookupSpec == LookupInit /\ [][LookupNext]_lookupVars

-----------------------------------------------------------------------------
(* Properties                                                              *)

\* What the page shows is about the code scanned last, whatever order the
\* answers come in (barcode/page.tsx:99), except when a product could not be
\* added for a code scanned before (line 124).
ShowsLastScan == lookup.state = "idle" \/ lookup.code = lastCode \/ addFailed

\* The stock on screen is the product's, or an event that changes it is still
\* to come; it stays behind only when the event was lost, came while the
\* product was being looked up, or was overtaken (barcode/page.tsx:137).
StockIsLive ==
    lookup.state = "found" /\ ~outdated =>
        changes[lookup.product] \in {lookup.nth} \cup Coming(lookup.product, {})

\* The code on screen, and its stock: what is old has its reason.
LookupIsExplained == ShowsLastScan /\ StockIsLive
=============================================================================
