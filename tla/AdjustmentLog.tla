--------------------------- MODULE AdjustmentLog ---------------------------
(***************************************************************************)
(* Stock adjustments of products sold by the piece: adjustStock and        *)
(* applyStockChange (apps/api/src/modules/inventory/service.ts), and the   *)
(* inventory page that shows their log                                     *)
(* (apps/web/src/app/admin/inventory/page.tsx, AdjustStockModal.tsx).      *)
(*                                                                         *)
(* The page loads the log again at every "inventory:updated", which says   *)
(* only that something changed, after its own adjustment, and when another *)
(* product is chosen.  The API sends the event when the count is saved and *)
(* writes the log's row after that.                                        *)
(***************************************************************************)
EXTENDS Integers, Sequences

CONSTANTS
    Item,               \* products sold by the piece
    LastAdjustment, LastLoad,   \* bound the adjustments, and the requests of the log at once
    MaxCount, MaxPicks, MaxLogFaults,   \* bound the counts, the choices of a product, and what fails
    Asks,               \* what each adjustment asks of a product's count
    Everything          \* "All products" in the page's list

ASSUME LogAssumption ==
    /\ LastAdjustment \in Nat /\ LastLoad \in Nat \ {0} /\ MaxCount \in Nat /\ MaxPicks \in Nat
    /\ MaxLogFaults \in Nat
    /\ Everything \notin Item
    /\ Asks \in Seq([kind : {"set"}, of : Item, to : Nat, lowers : BOOLEAN]
                     \cup [kind : {"delta"}, of : Item, by : Int, lowers : BOOLEAN])
    /\ Len(Asks) = LastAdjustment

Adjustment == 1 .. LastAdjustment   \* in the order they begin
LogLoad    == 1 .. LastLoad

VARIABLES
    count,      \* the stock
    adjusting,  \* each adjustment at the API
    log,        \* the adjustments with a row in the log (what a row says is looked at in misfits)
    news,       \* adjustments whose event is on its way to the page
    selected, selectedNow,  \* the product chosen, and that its load is due
    modal,      \* the adjustment made in the page's own window
    logLoads, latest,       \* requests of the log, and the one whose answer counts
    shownLog, complaint,    \* the rows on the page; the latest load failed
    picks, logFaults,
    \* History: no guard reads it.
    behind,     \* rows whose event was lost, or brought a load that read too early
    between,    \* adjustments whose count was changed by another between read and write
    misfits     \* rows that don't say what was asked

logVars == <<count, adjusting, log, news, selected, selectedNow, modal, logLoads, latest,
             shownLog, complaint, picks, logFaults, behind, between, misfits>>
apiSide    == <<count, adjusting, log, news, behind, between, misfits>>
pageSide   == <<selected, selectedNow, modal, logLoads, latest, shownLog, complaint,
              picks, logFaults>>

NoLoad == [of |-> Everything, rows |-> {}, at |-> "free"]
NoOne  == 0

Begun  == [step : {"read", "saved", "told"}, previous : 0 .. MaxCount, new : 0 .. MaxCount]
Over   == [step : {"unmade", "written", "ended"}]
Unmade == [step |-> "unmade"]

LogTypeOK ==
    /\ count \in [Item -> 0 .. MaxCount] /\ log \subseteq Adjustment /\ news \subseteq Adjustment
    /\ adjusting \in [Adjustment -> Begun \cup Over]
    /\ selected \in Item \cup {Everything} /\ selectedNow \in BOOLEAN
    /\ modal \in Adjustment \cup {NoOne}
    /\ logLoads \in [LogLoad -> [of : Item \cup {Everything}, rows : SUBSET Adjustment,
                                 at : {"free", "asked", "read"}]]
    /\ latest \in LogLoad /\ shownLog \subseteq Adjustment /\ complaint \in BOOLEAN
    /\ picks \in 0 .. MaxPicks /\ logFaults \in 0 .. MaxLogFaults
    /\ behind \subseteq Adjustment /\ between \subseteq Adjustment /\ misfits \subseteq Adjustment

LogInit ==
    /\ count = [i \in Item |-> MaxCount] /\ log = {} /\ news = {}
    /\ adjusting = [k \in Adjustment |-> Unmade]
    /\ selected = Everything /\ selectedNow = TRUE /\ modal = NoOne
    /\ logLoads = [l \in LogLoad |-> NoLoad] /\ latest = 1
    /\ shownLog = {} /\ complaint = FALSE /\ picks = 0 /\ logFaults = 0
    /\ behind = {} /\ between = {} /\ misfits = {}

-----------------------------------------------------------------------------
(* The API.                                                                *)

To(k, with) == adjusting' = [adjusting EXCEPT ![k] = with]
OfItem(k)   == Asks[k].of

\* decreaseOnly, on the count that was read.
Lowers(asked, qty) == IF asked.kind = "set" THEN asked.to < qty ELSE asked.by < 0

\* applyStockChange reads the count; a change that should lower and doesn't is
\* refused.
ReadCount(k) ==
    LET found == count[OfItem(k)] IN
    /\ adjusting[k] = Unmade /\ \A o \in Adjustment : o < k => adjusting[o] # Unmade
    /\ Asks[k].lowers => Lowers(Asks[k], found)
    /\ To(k, [step |-> "read", previous |-> found, new |-> found])
    /\ UNCHANGED <<count, log, news, behind, between, misfits>>

NewCount(k) ==
    IF Asks[k].kind = "set" THEN Asks[k].to ELSE count[OfItem(k)] + Asks[k].by

\* "Not enough stock for this change": the condition is the update's own.
SaveCount(k) ==
    /\ adjusting[k].step = "read" /\ NewCount(k) \in 0 .. MaxCount
    /\ count' = [count EXCEPT ![OfItem(k)] = NewCount(k)]
    /\ To(k, [adjusting[k] EXCEPT !.step = "saved", !.new = NewCount(k)])
    /\ between' = between \cup
          {o \in Adjustment \ {k} : adjusting[o].step = "read" /\ OfItem(o) = OfItem(k)}
    /\ UNCHANGED <<log, news, behind, misfits>>

\* getIO()?.emit("inventory:updated")
TellScreens(k) ==
    /\ adjusting[k].step = "saved"
    /\ news' = news \cup {k}
    /\ To(k, [adjusting[k] EXCEPT !.step = "told"])
    /\ UNCHANGED <<count, log, behind, between, misfits>>

\* A row says by how much the count changed.
RowFits(asked, row) ==
    /\ asked.kind = "delta" => row.new - row.previous = asked.by
    /\ asked.lowers => row.new < row.previous

\* stockAdjustment.create: its load was read before, unless it is still to be.
WriteRow(k) ==
    /\ adjusting[k].step = "told"
    /\ log' = log \cup {k}
    /\ behind' = IF k \in news \/ logLoads[latest].at = "asked" THEN behind ELSE behind \cup {k}
    /\ misfits' = IF RowFits(Asks[k], adjusting[k]) THEN misfits ELSE misfits \cup {k}
    /\ To(k, [step |-> "written"])
    /\ UNCHANGED <<count, news, between>>

-----------------------------------------------------------------------------
(* The page.                                                               *)

Matching(rows, of) == {k \in rows : of \in {Everything, OfItem(k)}}
FreeLoad == {l \in LogLoad : logLoads[l].at = "free"}

\* loadLog: the newest request is the one that counts.
loadLog(of) ==
    LET l == CHOOSE f \in FreeLoad : \A o \in FreeLoad : f <= o IN
       /\ FreeLoad # {}
       /\ logLoads' = [logLoads EXCEPT ![l] = [of |-> of, rows |-> {}, at |-> "asked"]]
       /\ latest' = l
       /\ UNCHANGED <<shownLog, complaint>>

ReadLog(l) ==
    /\ logLoads[l].at = "asked"
    /\ logLoads' = [logLoads EXCEPT ![l].at = "read", ![l].rows = Matching(log, logLoads[l].of)]
    /\ UNCHANGED <<apiSide, selected, selectedNow, modal, latest, shownLog, complaint, picks, logFaults>>

\* Whichever is answered last.
Counts_LastAnswered(l) == TRUE

\* requestId === loadLogRequestId.current
Counts(l) == l = latest

LogAnswered(l) ==
    /\ logLoads[l].at = "read"
    /\ logLoads' = [logLoads EXCEPT ![l] = NoLoad]
    /\ IF Counts(l) THEN /\ shownLog' = logLoads[l].rows /\ complaint' = FALSE
                         /\ behind' = behind \ logLoads[l].rows
                    ELSE UNCHANGED <<shownLog, complaint, behind>>
    /\ UNCHANGED <<count, adjusting, log, news, between, misfits, selected, selectedNow, modal, latest, picks, logFaults>>

LogFault == logFaults < MaxLogFaults /\ logFaults' = logFaults + 1

\* What was shown stays, with a message.
LogFails(l) ==
    /\ logLoads[l].at # "free" /\ LogFault
    /\ logLoads' = [logLoads EXCEPT ![l] = NoLoad]
    /\ complaint' = (complaint \/ Counts(l))
    /\ UNCHANGED <<apiSide, selected, selectedNow, modal, latest, shownLog, picks>>

\* The rows stay until the answer, which a timer asks for.
SelectProduct(i) ==
    /\ modal = NoOne /\ i # selected /\ picks < MaxPicks
    /\ selected' = i /\ selectedNow' = TRUE /\ picks' = picks + 1
    /\ UNCHANGED <<apiSide, modal, logLoads, latest, shownLog, complaint, logFaults>>

LoadSelected ==
    /\ selectedNow /\ selectedNow' = FALSE
    /\ loadLog(selected)
    /\ UNCHANGED <<apiSide, selected, modal, picks, logFaults>>

handleUpdate(k) ==
    /\ k \in news /\ news' = news \ {k}
    /\ loadLog(selected)
    /\ UNCHANGED <<count, adjusting, log, behind, between, misfits, selected, selectedNow, modal, picks, logFaults>>

\* The page was not connected.
EventLost(k) ==
    /\ k \in news /\ news' = news \ {k} /\ behind' = behind \cup {k} /\ LogFault
    /\ UNCHANGED <<count, adjusting, log, between, misfits, selected, selectedNow, modal, logLoads,
                   latest, shownLog, complaint, picks>>

\* AdjustStockModal's handleSubmit.
AdjustHere(k) ==
    /\ modal = NoOne /\ modal' = k
    /\ ReadCount(k)
    /\ UNCHANGED <<selected, selectedNow, logLoads, latest, shownLog, complaint, picks, logFaults>>

\* handleSaved, when the answer is to the page's own adjustment.
AdjustAnswered(k) ==
    /\ adjusting[k].step = "written" /\ modal = k
    /\ modal' = NoOne /\ behind' = behind \ {k} /\ loadLog(selected)
    /\ UNCHANGED <<count, adjusting, log, news, between, misfits, selected, selectedNow, picks, logFaults>>

\* Refused, or the API stopped, or its answer was lost; the window is closed.
AdjustFails(k) ==
    /\ LogFault
    /\ modal = k \/ adjusting[k].step \in {"read", "saved", "told"}
    /\ IF adjusting[k].step = "written" THEN UNCHANGED adjusting
       ELSE To(k, [step |-> "ended"])
    /\ modal' = IF modal = k THEN NoOne ELSE modal
    /\ UNCHANGED <<count, log, news, behind, between, misfits, selected, selectedNow, logLoads, latest,
                   shownLog, complaint, picks>>

-----------------------------------------------------------------------------
AdjustmentStep(k) ==
    \/ (ReadCount(k) \/ SaveCount(k) \/ TellScreens(k) \/ WriteRow(k)) /\ UNCHANGED pageSide
    \/ AdjustHere(k) \/ handleUpdate(k) \/ EventLost(k) \/ AdjustAnswered(k) \/ AdjustFails(k)

LogNext ==
    \/ \E k \in Adjustment : AdjustmentStep(k)
    \/ LoadSelected \/ \E i \in Item \cup {Everything} : SelectProduct(i)
    \/ \E l \in LogLoad : ReadLog(l) \/ LogAnswered(l) \/ LogFails(l)

LogSpec == LogInit /\ [][LogNext]_logVars

-----------------------------------------------------------------------------
(* Properties                                                              *)

Quiet == ~selectedNow /\ logLoads[latest].at = "free" /\ ~complaint

\* Whatever order the page's requests are answered in (page.tsx:61), it shows
\* rows of the product that is chosen, and none is missing but one whose event
\* is still to come, was lost, or came before the row was written
\* (inventory/service.ts:74), and that no load has read since.
ShownRowsAreExplained ==
    Quiet => /\ shownLog \subseteq Matching(log, selected)
             /\ Matching(log, selected) \ shownLog \subseteq news \cup behind

\* A row says what was asked, and damaged goods only ever lower the count,
\* unless another adjustment was saved between this one's read and its write
\* (service.ts:34).
RowsAreExplained == misfits \subseteq between

\* The log and the page that shows it: what is missing or odd has its reason.
LogIsExplained == ShownRowsAreExplained /\ RowsAreExplained
=============================================================================
