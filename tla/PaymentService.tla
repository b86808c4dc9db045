--------------------------- MODULE PaymentService ---------------------------
(***************************************************************************)
(* Paying for an order (apps/api/src/modules/payments), with PayMongo as   *)
(* the environment: it makes Payment Intents, takes the customer's money   *)
(* at any later time, and reports it by webhook until it is answered.      *)
(***************************************************************************)
EXTENDS OrderData

\* loadPayableOrder: refused once the order is paid or cancelled.
Payable(o) == status[o] \notin {"none", "cancelled"} /\ payStatus[o] # "paid"

-----------------------------------------------------------------------------
(* Starting a QR Ph payment (createQrPhPayment).                             *)

BeginQrPhPayment(r, o) ==
    /\ Payable(o)
    /\ \E configured \in Configured :
         Begin(r, IF configured THEN [op |-> "createQr", order |-> o, amount |-> total[o]]
                                ELSE [op |-> "fallBack", order |-> o])
    /\ UNCHANGED <<orderVars, paymentVars, stockVars, intentVars, paidBy, noteHistory, answered>>

\* PayMongo made the code: it becomes the payment's, whatever the payment is
\* by now.
SaveQrPhCode(r) ==
    LET c == call[r] o == c.order IN
    /\ c.op = "createQr"
    /\ \E i \in Intent :
         /\ intentState[i] = "unused"
         /\ intentState' = [intentState EXCEPT ![i] = "open"]
         /\ intentOrder' = [intentOrder EXCEPT ![i] = o]
         /\ intentAmount' = [intentAmount EXCEPT ![i] = c.amount]
         /\ payRef' = [payRef EXCEPT ![o] = i]
    /\ payMethod' = [payMethod EXCEPT ![o] = "qrph"]
    /\ payStatus' = [payStatus EXCEPT ![o] = "pending"]
    /\ Return(r)
    /\ UNCHANGED <<orderVars, stockVars, paidBy, noteHistory, answered>>

\* PayMongo refused or did not answer: the kiosk shows an error.
QrPhCodeFails(r) ==
    /\ call[r].op = "createQr"
    /\ Return(r)
    /\ UNCHANGED <<orderVars, paymentVars, stockVars, intentVars, paidBy, noteHistory, answered>>

\* Without PayMongo the order is recorded as a counter order.
FallBackToCounter(r) ==
    LET o == call[r].order IN
    /\ call[r].op = "fallBack"
    /\ payMethod' = [payMethod EXCEPT ![o] = "counter"]
    /\ payStatus' = [payStatus EXCEPT ![o] = IF @ = "none" THEN "pending" ELSE @]
    /\ Return(r)
    /\ UNCHANGED <<orderVars, payRef, stockVars, intentVars, paidBy, noteHistory, answered>>

\* "Pay at the counter instead" (switchToCounterPayment).
BeginSwitchToCounter(r, o) ==
    /\ Payable(o)
    /\ Begin(r, [op |-> "switch", order |-> o])
    /\ UNCHANGED <<orderVars, paymentVars, stockVars, intentVars, paidBy, noteHistory, answered>>

SwitchToCounter(r) ==
    LET o == call[r].order IN
    /\ call[r].op = "switch"
    /\ \/ /\ payStatus[o] \notin {"none", "paid"}
          /\ payMethod' = [payMethod EXCEPT ![o] = "counter"]
          /\ payRef' = [payRef EXCEPT ![o] = NoIntent]
       \/ /\ payStatus[o] \in {"none", "paid"}
          /\ UNCHANGED <<payMethod, payRef>>
    /\ Return(r)
    /\ UNCHANGED <<orderVars, payStatus, stockVars, intentVars, paidBy, noteHistory, answered>>

-----------------------------------------------------------------------------
(* The transaction both ways of paying run: the payment is marked paid, the  *)
(* stock taken, the order confirmed and its kitchen tasks made, or nothing.  *)

\* markPaymentPaidIfNotAlready: a paid or refunded payment is left alone.
CanMarkPaid(o) == payStatus[o] \notin {"paid", "refunded"}

MarkPaid(o, by, method, ref) ==
    /\ CanMarkPaid(o)
    /\ payStatus' = [payStatus EXCEPT ![o] = "paid"]
    /\ payMethod' = [payMethod EXCEPT ![o] = method]
    /\ payRef' = [payRef EXCEPT ![o] = ref]
    /\ paidBy' = [paidBy EXCEPT ![o] = by]

ConfirmPendingOrder_AnyStatus(o) == status' = [status EXCEPT ![o] = "confirmed"]

ConfirmPendingOrder(o) ==
    /\ status[o] = "pending"
    /\ status' = [status EXCEPT ![o] = "confirmed"]

CreateKitchenTasksForOrder(o) ==
    /\ task' = [task EXCEPT ![o] = [d \in Dish |-> IF lines[o][d] > 0 THEN "pending" ELSE "none"]]
    /\ entries' = [entries EXCEPT ![o] = @ + 1]

SendToKitchen(o) ==
    /\ DeductStockForOrder(o)
    /\ ConfirmPendingOrder(o)
    /\ CreateKitchenTasksForOrder(o)
    /\ UNCHANGED supply

\* Staff confirm a counter order.  Anything that doesn't fit rolls all of it
\* back, which is the same as the request not having been made.
ConfirmCounterPayment(o) ==
    /\ MayStart
    /\ Payable(o)
    /\ MarkPaid(o, "counter", "counter", payRef[o])
    /\ SendToKitchen(o)
    /\ UNCHANGED <<lines, total, cancelReason, flagged, note, intentVars, call,
                   noteHistory, answered>>

-----------------------------------------------------------------------------
(* PayMongo and its two ways of telling.                                     *)

\* The customer pays a code, or saved one from before.
CustomerPays(i) ==
    /\ intentState[i] = "open"
    /\ intentState' = [intentState EXCEPT ![i] = "paid"]
    /\ UNCHANGED <<orderVars, paymentVars, stockVars, intentOrder, intentAmount, call,
                   paidBy, noteHistory, answered>>

\* The webhook has been answered 200, so PayMongo does not send it again.
AnswerEvent(c) == answered' = IF c.via = "webhook" THEN answered \cup {c.intent} ELSE answered

\* handleWebhook: an event for an order without a payment row is ignored, a
\* repeat of the payment that paid the order changes nothing, another payment
\* of a paid order is noted, and so is one whose amount is unknown.
SameCode(o, i) == payMethod[o] = "qrph" /\ payRef[o] = i

ReceiveWebhook(r, i) ==
    LET o == intentOrder[i]
        AddTheNote(kind) == [op |-> "addNote", order |-> o, intent |-> i,
                             entry |-> [kind |-> kind, intent |-> i]]
    IN
    /\ intentState[i] = "paid" /\ MayStart /\ call[r] = Idle
    /\ \/ /\ \/ payStatus[o] = "none"
             \/ payStatus[o] \in {"paid", "refunded"} /\ SameCode(o, i)
          /\ answered' = answered \cup {i}
          /\ UNCHANGED call
       \/ /\ payStatus[o] \in {"paid", "refunded"} /\ ~SameCode(o, i)
          /\ Begin(r, AddTheNote("secondPayment"))
          /\ UNCHANGED answered
       \/ /\ payStatus[o] = "pending" /\ MayLackAmount
          /\ Begin(r, AddTheNote("noAmount"))
          /\ UNCHANGED answered
       \/ /\ payStatus[o] = "pending"
          /\ Begin(r, [op |-> "record", order |-> o, intent |-> i, total |-> total[o], via |-> "webhook"])
          /\ UNCHANGED answered
    /\ UNCHANGED <<orderVars, paymentVars, stockVars, intentVars, paidBy, noteHistory>>

\* flagForStaff: its own transaction.
FlagForStaff(r) ==
    LET c == call[r] IN
    /\ c.op = "addNote"
    /\ AddNoteForStaff(c.order, c.entry)
    /\ answered' = answered \cup {c.intent}
    /\ Return(r)
    /\ UNCHANGED <<status, lines, total, cancelReason, paymentVars, stockVars, intentVars,
                   paidBy, staffSettled, seen>>

\* checkQrPhPayment: the kiosk asks while its code is on screen.
BeginPoll(r, o) ==
    /\ payStatus[o] = "pending" /\ payMethod[o] = "qrph" /\ payRef[o] # NoIntent
    /\ ~flagged[o] /\ TRUE \in Configured
    /\ Begin(r, [op |-> "record", order |-> o, intent |-> payRef[o], total |-> total[o], via |-> "poll"])
    /\ UNCHANGED <<orderVars, paymentVars, stockVars, intentVars, paidBy, noteHistory, answered>>

\* Not paid yet, or PayMongo can't be reached.
PollFindsNothing(r) ==
    /\ call[r].op = "record" /\ call[r].via = "poll"
    /\ Return(r)
    /\ UNCHANGED <<orderVars, paymentVars, stockVars, intentVars, paidBy, noteHistory, answered>>

-----------------------------------------------------------------------------
(* recordOnlinePayment, for the order as it was read.                        *)

\* The webhook records which code paid; the status check leaves that as it is.
MarkPaidOnline(c) ==
    LET o == c.order IN
    IF c.via = "webhook" THEN MarkPaid(o, c.intent, "qrph", c.intent)
                         ELSE MarkPaid(o, c.intent, payMethod[o], payRef[o])

RightAmount_NotChecked(c) == TRUE

RightAmount(c) == intentAmount[c.intent] = c.total

RecordWrongAmount(r) ==
    LET c == call[r] IN
    /\ c.op = "record" /\ intentState[c.intent] = "paid"
    /\ ~RightAmount(c)
    /\ AddNoteForStaff(c.order, [kind |-> "wrongAmount", intent |-> c.intent, total |-> c.total])
    /\ AnswerEvent(c)
    /\ Return(r)
    /\ UNCHANGED <<status, lines, total, cancelReason, paymentVars, stockVars, intentVars,
                   paidBy, staffSettled, seen>>

RecordPayment(r) ==
    LET c == call[r] IN
    /\ c.op = "record" /\ intentState[c.intent] = "paid"
    /\ RightAmount(c)
    /\ MarkPaidOnline(c)
    /\ SendToKitchen(c.order)
    /\ AnswerEvent(c)
    /\ Return(r)
    /\ UNCHANGED <<lines, total, cancelReason, flagged, note, intentVars, noteHistory>>

\* Another request marked it paid since the order was read: taken for a repeat.
RecordAlreadyPaid(r) ==
    LET c == call[r] IN
    /\ c.op = "record" /\ intentState[c.intent] = "paid"
    /\ RightAmount(c)
    /\ ~CanMarkPaid(c.order)
    /\ AnswerEvent(c)
    /\ Return(r)
    /\ UNCHANGED <<orderVars, paymentVars, stockVars, intentVars, paidBy, noteHistory>>

\* The transaction was rolled back; the money is recorded in another one.
\* Stock is deducted before the order is confirmed, so a shortage is found first.
RecordRollsBack(r) ==
    LET c == call[r]
        why == IF Covers(lines[c.order]) THEN "paidAfterCancel" ELSE "stockRanOut"
    IN
    /\ c.op = "record" /\ intentState[c.intent] = "paid"
    /\ RightAmount(c)
    /\ CanMarkPaid(c.order)
    /\ Covers(lines[c.order]) => status[c.order] # "pending"
    /\ GoOn(r, [op |-> "flagPaid", order |-> c.order, intent |-> c.intent, via |-> c.via,
                why |-> [kind |-> why]])
    /\ UNCHANGED <<orderVars, paymentVars, stockVars, intentVars, paidBy, noteHistory, answered>>

\* The money is dropped together with the order.
RecordMoneyForStaff_Dropped(c) == UNCHANGED <<paymentVars, paidBy, flagged, note, raised>>

\* The money is recorded, and nobody is told.
RecordMoneyForStaff_Silent(c) ==
    \/ MarkPaidOnline(c) /\ UNCHANGED <<flagged, note, raised>>
    \/ ~CanMarkPaid(c.order) /\ UNCHANGED <<paymentVars, paidBy, flagged, note, raised>>

\* Money and note in one transaction.
RecordMoneyForStaff(c) ==
    \/ MarkPaidOnline(c) /\ AddNoteForStaff(c.order, c.why)
    \/ ~CanMarkPaid(c.order) /\ UNCHANGED <<paymentVars, paidBy, flagged, note, raised>>

RecordForStaff(r) ==
    LET c == call[r] IN
    /\ c.op = "flagPaid"
    /\ RecordMoneyForStaff(c)
    /\ AnswerEvent(c)
    /\ Return(r)
    /\ UNCHANGED <<status, lines, total, cancelReason, stockVars, intentVars,
                   staffSettled, seen>>

PaymentServiceNext ==
    \/ \E o \in Order : ConfirmCounterPayment(o)
    \/ \E i \in Intent : CustomerPays(i)
    \/ \E r \in Request, i \in Intent : ReceiveWebhook(r, i)
    \/ \E r \in Request, o \in Order :
         BeginQrPhPayment(r, o) \/ BeginSwitchToCounter(r, o) \/ BeginPoll(r, o)
    \/ \E r \in Request :
         \/ SaveQrPhCode(r) \/ QrPhCodeFails(r) \/ FallBackToCounter(r) \/ SwitchToCounter(r)
         \/ FlagForStaff(r) \/ PollFindsNothing(r) \/ RecordWrongAmount(r) \/ RecordPayment(r)
         \/ RecordAlreadyPaid(r) \/ RecordRollsBack(r) \/ RecordForStaff(r)
=============================================================================
