----------------------------- MODULE OrderSystem -----------------------------
(***************************************************************************)
(* Orders, payments and the kitchen together: every handler that changes   *)
(* an order, with any number of requests halfway at once.                  *)
(***************************************************************************)
EXTENDS OrderService, PaymentService, KitchenService, FiniteSets

Next ==
    \/ OrderServiceNext
    \/ PaymentServiceNext
    \/ KitchenServiceNext
    \/ \E d \in Dish : AdjustStock(d)
    \/ \E r \in Request : Crash(r)

Spec == Init /\ [][Next]_vars

-----------------------------------------------------------------------------
\* Money was taken for the order at some time.
EverPaid(o) == paidBy[o] # "none"

\* Whoever's money the restaurant has recorded for an order that isn't being
\* made (paid after it was cancelled, paid when stock had run out, cancelled in
\* the kitchen) is in the staff queue, or staff have dealt with the order: no
\* interleaving of payments, cancellations and repeated events hides it.
MoneyWithoutMealIsShown ==
    \A o \in Order :
        EverPaid(o) /\ status[o] \in {"pending", "cancelled"} =>
            (InPaymentQueue(o) /\ flagged[o]) \/ staffSettled[o]

\* However many payments race for an order, it is sent to the kitchen, and its
\* stock taken, at most once; an order that never got there has no tasks.
ReachesKitchenOnce ==
    \A o \in Order :
        /\ entries[o] <= 1
        /\ entries[o] = 1 <=> status[o] \in InKitchen \cup {"completed"} \/ cancelReason[o]
        /\ entries[o] = 0 => Tasks(o) = {}

\* Mark as sorted out never settles what the screen staff pressed it on did not
\* yet show: everything raised about the order was on it, as long as the note
\* has not grown so long that it is cut.
SortedOutSawEverything ==
    [][\A o \in Order : flagged[o] /\ ~flagged'[o] =>
          \E r \in Request : /\ call[r].op = "sortOut" /\ call[r].order = o
                             /\ call'[r] = Idle
                             /\ IsCut(note[o]) \/ seen[r] = raised[o]]_vars

\* The system keeps the promises of OrderLifecycle.
PhaseOf(s) ==
    CASE s = "none" -> "absent"
      [] s = "pending" -> "placed"
      [] s \in InKitchen -> "cooking"
      [] s = "completed" -> "handedOver"
      [] s = "cancelled" -> "dropped"

Lifecycle == INSTANCE OrderLifecycle WITH
    phase <- [o \in Order |-> PhaseOf(status[o])],
    paid <- [o \in Order |-> EverPaid(o)],
    attention <- flagged,
    settled <- staffSettled

ImplementsLifecycle == Lifecycle!Spec

-----------------------------------------------------------------------------
(* What holds once no request about the order is halfway.                    *)

Quiet(o) == \A r \in Request : call[r] = Idle \/ call[r].order # o

\* An order with dishes is on the kitchen display, under the status its dishes
\* give it, until it is handed over or cancelled: a finished order that isn't
\* shown as READY can't be handed over by anyone.
StaysOnDisplay ==
    \A o \in Order : Quiet(o) /\ status[o] \in InKitchen /\ Tasks(o) # {} =>
        /\ OnKitchenDisplay(o)
        /\ status[o] = "ready" <=> \A d \in Tasks(o) : task[o][d] = "completed"

\* A paid order always reaches the kitchen: it has tasks there.
PaidOrderHasTasks ==
    \A o \in Order : status[o] \in InKitchen => Tasks(o) # {}

\* The servings in stock and those the orders used add up to what there was:
\* nothing is deducted twice, and a cancelled order gives back what nobody
\* started and keeps what was cooked.
Used(o, d) ==
    IF status[o] \in InKitchen \cup {"completed"} \/ (cancelReason[o] /\ task[o][d] # "pending")
    THEN lines[o][d] ELSE 0

UsedBy(d)      == [o \in Order |-> Used(o, d)]
Servings(used) == {u \in Order \X (1 .. MaxQty) : u[2] <= used[u[1]]}

StockAccounted == \A d \in Dish : stock[d] + Cardinality(Servings(UsedBy(d))) = supply[d]

\* What an online payment sends to the kitchen is what it paid for.
PaidForWhatIsMade ==
    \A o \in Order :
        status[o] \in InKitchen /\ paidBy[o] \in Intent => intentAmount[paidBy[o]] = lines[o]

-----------------------------------------------------------------------------
\* A payment once paid is never pending again: only refunding follows it.
PaidStaysPaid ==
    [][\A o \in Order : payStatus[o] = "paid" => payStatus'[o] \in {"paid", "refunded"}]_vars

\* While a code is out for an order, it is for the order's total.
CodeMatchesTotal ==
    \A o \in Order : payStatus[o] = "pending" /\ payMethod[o] = "qrph" /\ payRef[o] # NoIntent =>
        intentAmount[payRef[o]] = total[o]

\* When PayMongo has been told that a payment needs no further report, either it
\* is the payment the order was paid with, or staff were told of it.
SecondPaymentIsFlagged ==
    \A i \in answered :
        LET o == intentOrder[i] IN
        payStatus[o] = "paid" /\ paidBy[o] # i => \E e \in raised[o] : "intent" \in DOMAIN e /\ e.intent = i

-----------------------------------------------------------------------------
\* Handlers that began go on; PayMongo reports a payment until it is answered,
\* however busy the server is (hence strong fairness).
Step(r) ==
    \/ WriteItem(r) \/ ReadItems(r) \/ WriteTotal(r) \/ MarkAttentionSortedOut(r) \/ RefuseSortedOut(r)
    \/ SaveQrPhCode(r) \/ QrPhCodeFails(r) \/ FallBackToCounter(r) \/ SwitchToCounter(r)
    \/ FlagForStaff(r) \/ PollFindsNothing(r) \/ RecordWrongAmount(r) \/ RecordPayment(r)
    \/ RecordAlreadyPaid(r) \/ RecordRollsBack(r) \/ RecordForStaff(r)
    \/ WriteTask(r) \/ ReadTasks(r) \/ SyncOrderStatus(r)

FairSpec ==
    /\ Spec
    /\ \A r \in Request : WF_vars(Step(r))
    /\ \A i \in Intent : SF_vars(\E r \in Request : i \notin answered /\ ReceiveWebhook(r, i))

\* What a customer paid online is in the end recorded as the order's payment or
\* put before staff.
PaymentIsNeverLost ==
    \A i \in Intent : intentState[i] = "paid" ~>
        \E o \in Order : intentOrder[i] = o /\ (EverPaid(o) \/ raised[o] # {})
=============================================================================
