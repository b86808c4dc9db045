---------------------------- MODULE OrderService ----------------------------
(***************************************************************************)
(* Placing, correcting and cancelling orders, and Mark as sorted out       *)
(* (apps/api/src/modules/orders).                                          *)
(***************************************************************************)
EXTENDS OrderData

\* A customer places an order.  Stock is checked but not taken.  An order
\* asked for without a method has no payment row; QR Ph becomes "counter"
\* while PayMongo isn't configured.
CreateOrder(o) ==
    /\ MayStart
    /\ status[o] = "none"
    /\ \E q \in Amount \ {Nothing} :
         /\ Covers(q)
         /\ lines' = [lines EXCEPT ![o] = q]
         /\ total' = [total EXCEPT ![o] = q]
    /\ \E method \in {"none", "counter"} \cup (IF TRUE \in Configured THEN {"qrph"} ELSE {}) :
         /\ payMethod' = [payMethod EXCEPT ![o] = method]
         /\ payStatus' = [payStatus EXCEPT ![o] = IF method = "none" THEN "none" ELSE "pending"]
    /\ status' = [status EXCEPT ![o] = "pending"]
    /\ UNCHANGED <<cancelReason, flagged, note, payRef, stockVars, intentVars, call,
                   paidBy, noteHistory, answered>>

-----------------------------------------------------------------------------
(* Staff correct a line before the order is paid: PATCH and DELETE on        *)
(* /orders/:id/items/:itemId.  Four statements, not one transaction.         *)

AssertOrderIsPending(o) ==
    /\ status[o] = "pending"
    /\ ~(payMethod[o] = "qrph" /\ payRef[o] # NoIntent)

BeginEditItem(r, o) ==
    /\ AssertOrderIsPending(o)
    /\ \E d \in Dish, q \in EditQty :
         /\ lines[o][d] > 0
         /\ Begin(r, [op |-> "edit", order |-> o, dish |-> d, qty |-> q])
    /\ UNCHANGED <<orderVars, paymentVars, stockVars, intentVars, paidBy, noteHistory, answered>>

\* Deleting an item takes its kitchen task with it.  An item deleted
\* meanwhile is an error, and the request ends.
WriteItem(r) ==
    LET c == call[r] o == c.order IN
    /\ c.op = "edit"
    /\ \/ /\ lines[o][c.dish] = 0
          /\ Return(r)
          /\ UNCHANGED <<lines, task>>
       \/ /\ lines[o][c.dish] > 0
          /\ lines' = [lines EXCEPT ![o][c.dish] = c.qty]
          /\ task' = IF c.qty = 0 THEN [task EXCEPT ![o][c.dish] = "none"] ELSE task
          /\ GoOn(r, [op |-> "readItems", order |-> o])
    /\ UNCHANGED <<status, total, cancelReason, flagged, note, stock, entries, supply,
                   paymentVars, intentVars, paidBy, noteHistory, answered>>

\* recomputeOrderTotal: read the items, add them up ...
ReadItems(r) ==
    LET c == call[r] IN
    /\ c.op = "readItems"
    /\ GoOn(r, [op |-> "writeTotal", order |-> c.order, sum |-> lines[c.order]])
    /\ UNCHANGED <<orderVars, paymentVars, stockVars, intentVars, paidBy, noteHistory, answered>>

\* ... and save the sum.
WriteTotal(r) ==
    LET c == call[r] IN
    /\ c.op = "writeTotal"
    /\ total' = [total EXCEPT ![c.order] = c.sum]
    /\ Return(r)
    /\ UNCHANGED <<status, lines, cancelReason, flagged, note, paymentVars, stockVars,
                   intentVars, paidBy, noteHistory, answered>>

-----------------------------------------------------------------------------
\* One conditional update: only an order nobody has paid for.
CancelOrder(o) ==
    /\ MayStart
    /\ status[o] = "pending"
    /\ payStatus[o] # "paid"
    /\ status' = [status EXCEPT ![o] = "cancelled"]
    /\ UNCHANGED <<lines, total, cancelReason, flagged, note, paymentVars, stockVars,
                   intentVars, call, paidBy, noteHistory, answered>>

\* The staff payment queue (listOrders with unpaid=1).
InPaymentQueue(o) ==
    \/ status[o] \notin {"none", "cancelled"} /\ payStatus[o] # "paid"
    \/ flagged[o]

\* Staff read the note on their screen, and press Mark as sorted out some
\* time later; the note they read travels with the request.
ReadAttentionNote(r, o) ==
    /\ InPaymentQueue(o) /\ flagged[o]
    /\ Begin(r, [op |-> "sortOut", order |-> o, note |-> note[o]])
    /\ seen' = [seen EXCEPT ![r] = raised[o]]
    /\ UNCHANGED <<orderVars, paymentVars, stockVars, intentVars, paidBy,
                   staffSettled, raised, answered>>

\* Money of a cancelled order has to be accounted for.
MoneyToSettle(o) == status[o] = "cancelled" /\ payStatus[o] = "paid"

\* Without comparing the note with the one staff read.
SortedOutAccepted_AnyNote(o, read, resolution) ==
    /\ flagged[o]
    /\ MoneyToSettle(o) => resolution # "none"
    /\ resolution = "placed_again" => MoneyToSettle(o) /\ ~cancelReason[o]

\* When the API accepts what staff say became of it.
SortedOutAccepted(o, read, resolution) ==
    /\ flagged[o]
    /\ MoneyToSettle(o) => resolution # "none"
    /\ resolution = "placed_again" => MoneyToSettle(o) /\ ~cancelReason[o]
    /\ note[o] = read

\* One transaction.  "Placed again" is added to the note without a limit, so
\* on a note that is already full the update fails and nothing is changed.
MarkAttentionSortedOut(r) ==
    LET c == call[r] o == c.order IN
    /\ c.op = "sortOut"
    /\ \E resolution \in {"none", "refunded", "placed_again"} :
         /\ SortedOutAccepted(o, c.note, resolution)
         /\ resolution = "placed_again" => Len(note[o]) < NoteMax
         /\ flagged' = [flagged EXCEPT ![o] = FALSE]
         /\ note' = IF resolution = "placed_again"
                    THEN [note EXCEPT ![o] = Append(@, [kind |-> "placedAgain"])] ELSE note
         /\ payStatus' = IF resolution = "refunded" /\ MoneyToSettle(o)
                         THEN [payStatus EXCEPT ![o] = "refunded"] ELSE payStatus
    /\ staffSettled' = [staffSettled EXCEPT ![o] = TRUE]
    /\ seen' = [seen EXCEPT ![r] = {}]
    /\ Return(r)
    /\ UNCHANGED <<status, lines, total, cancelReason, payMethod, payRef, stockVars,
                   intentVars, paidBy, raised, answered>>

\* 400 or 409: the screen is out of date, or the resolution doesn't fit.
RefuseSortedOut(r) ==
    LET c == call[r] o == c.order IN
    /\ c.op = "sortOut"
    /\ \E resolution \in {"none", "refunded", "placed_again"} :
         \/ ~SortedOutAccepted(o, c.note, resolution)
         \/ resolution = "placed_again" /\ Len(note[o]) >= NoteMax
    /\ seen' = [seen EXCEPT ![r] = {}]
    /\ Return(r)
    /\ UNCHANGED <<orderVars, paymentVars, stockVars, intentVars, paidBy,
                   staffSettled, raised, answered>>

OrderServiceNext ==
    \/ \E o \in Order : CreateOrder(o) \/ CancelOrder(o)
    \/ \E r \in Request, o \in Order : BeginEditItem(r, o) \/ ReadAttentionNote(r, o)
    \/ \E r \in Request : \/ WriteItem(r) \/ ReadItems(r) \/ WriteTotal(r)
                          \/ MarkAttentionSortedOut(r) \/ RefuseSortedOut(r)
=============================================================================
