----------------------------- MODULE OrderData -----------------------------
(***************************************************************************)
(* The database rows an order consists of, and the API requests that are   *)
(* halfway through a handler.  The handlers themselves are in              *)
(* OrderService, PaymentService and KitchenService, which all EXTEND this  *)
(* module; OrderSystem puts them together.                                 *)
(*                                                                         *)
(* One database statement, or one database transaction, is one step.  What *)
(* a handler read before an await and uses after it is kept in call[r],    *)
(* the request's local state, so that any other request may run between.   *)
(***************************************************************************)
EXTENDS Integers, Sequences

CONSTANTS
    Order,          \* the orders that may be placed
    Dish,           \* the dishes on the menu, each counted in its own stock
    MaxQty,         \* most servings of one dish in one order (bounds the model)
    InitStock,      \* servings of each dish in stock at the start
    Intent,         \* PayMongo Payment Intents: one for every QR Ph code made
    NoIntent,       \* payment.reference = null
    NoOrder,        \* the order of an intent PayMongo has not made yet
    Request,        \* API requests that may be in progress at the same time
    Serial,         \* TRUE: no request starts while another is halfway
    Configured,     \* what isPaymongoConfigured() may answer: a subset of BOOLEAN
    MayLackAmount,  \* may an event, and PayMongo when asked, leave the amount out?
    AdjustTo,       \* counts staff may correct a dish's stock to; {} = they don't
    EditQty,        \* quantities staff may correct a line to; 0 removes the line
    NoteMax,        \* notes that fit in orders.stock_issue_note
    CrashOps        \* the kinds of request that may be lost halfway

Op == {"createQr", "fallBack", "switch", "record", "flagPaid", "addNote", "sortOut",
       "edit", "readItems", "writeTotal", "setTask", "readTasks", "syncStatus"}

ASSUME ConstantsAssumption ==
    /\ MaxQty \in Nat /\ InitStock \in [Dish -> Nat] /\ NoteMax \in Nat \ {0}
    /\ NoIntent \notin Intent /\ "none" \notin Intent /\ "counter" \notin Intent
    /\ NoOrder \notin Order
    /\ Configured \subseteq BOOLEAN /\ MayLackAmount \in BOOLEAN /\ Serial \in BOOLEAN
    /\ AdjustTo \subseteq Nat /\ EditQty \subseteq 0 .. MaxQty
    /\ CrashOps \subseteq Op

VARIABLES
    status,       \* orders.status; "none" before the order is placed
    lines,        \* servings of each dish in the order's items; 0 = no such item
    total,        \* orders.total_amount, as the lines it was added up from
    cancelReason, \* orders.cancel_reason # null: the kitchen cancelled it
    flagged,      \* orders.stock_issue: the order shows NEEDS ATTENTION
    note,         \* orders.stock_issue_note, one entry for every thing noted
    payStatus,    \* payments.status; "none" while there is no row
    payMethod,    \* payments.method
    payRef,       \* payments.reference: the latest code's intent
    task,         \* kitchen_tasks.status of every line; "none" without a task
    stock,        \* servings in stock
    intentState, intentOrder, intentAmount, \* the intents, at PayMongo
    call,         \* the requests in progress
    \* History: what happened, for the properties; no action reads these.
    paidBy,       \* what last marked the payment paid: "counter" or an intent
    staffSettled, \* staff have pressed Mark as sorted out on this order
    raised,       \* every thing ever put before staff about the order
    seen,         \* ... and how much of it the order had when its screen was read
    entries,      \* how often the order was sent to the kitchen
    supply,       \* servings there were at the start, plus or minus staff's corrections
    answered      \* intents PayMongo was told it need not report again

orderVars   == <<status, lines, total, cancelReason, flagged, note>>
paymentVars == <<payStatus, payMethod, payRef>>
intentVars  == <<intentState, intentOrder, intentAmount>>
stockVars   == <<stock, task, entries, supply>>
noteHistory == <<staffSettled, raised, seen>>
vars == <<orderVars, paymentVars, stockVars, intentVars, call, paidBy, noteHistory, answered>>

-----------------------------------------------------------------------------
Amount    == [Dish -> 0 .. MaxQty]
Nothing   == [d \in Dish |-> 0]
Statuses  == {"none", "pending", "confirmed", "preparing", "ready", "completed", "cancelled"}
InKitchen == {"confirmed", "preparing", "ready"}
TaskStatus == {"pending", "in_progress", "completed"}

\* The things staff may be told about an order.  Two texts are equal exactly
\* when these records are: a note about one payment names its intent.
PaymentNote == [kind : {"secondPayment", "noAmount"}, intent : Intent]
AmountNote  == [kind : {"wrongAmount"}, intent : Intent, total : Amount]
MoneyNote   == [kind : {"paidAfterCancel", "stockRanOut"}]
PlainNote   == [kind : {"kitchenCancel", "placedAgain", "tooLong"}]
NoteEntry   == PaymentNote \cup AmountNote \cup MoneyNote \cup PlainNote
TooLong     == [kind |-> "tooLong"]

Idle == [op |-> "idle"]
OnOrder(op)     == [op : {op}, order : Order]
CreateQrCall    == [op : {"createQr"}, order : Order, amount : Amount]
RecordCall      == [op : {"record"}, order : Order, intent : Intent, total : Amount, via : {"webhook", "poll"}]
FlagPaidCall    == [op : {"flagPaid"}, order : Order, intent : Intent, via : {"webhook", "poll"}, why : MoneyNote]
AddNoteCall     == [op : {"addNote"}, order : Order, intent : Intent, entry : PaymentNote]
SortOutCall     == [op : {"sortOut"}, order : Order, note : Seq(NoteEntry)]
EditCall        == [op : {"edit"}, order : Order, dish : Dish, qty : 0 .. MaxQty]
WriteTotalCall  == [op : {"writeTotal"}, order : Order, sum : Amount]
SetTaskCall     == [op : {"setTask"}, order : Order, dish : Dish, to : TaskStatus]
SyncStatusCall  == [op : {"syncStatus"}, order : Order, next : InKitchen]
Calls == {Idle} \cup CreateQrCall \cup OnOrder("fallBack") \cup OnOrder("switch") \cup RecordCall
         \cup FlagPaidCall \cup AddNoteCall \cup SortOutCall \cup EditCall \cup OnOrder("readItems")
         \cup WriteTotalCall \cup SetTaskCall \cup OnOrder("readTasks") \cup SyncStatusCall

OrderTypes ==
    /\ status \in [Order -> Statuses]
    /\ lines \in [Order -> Amount]
    /\ total \in [Order -> Amount]
    /\ cancelReason \in [Order -> BOOLEAN]
NoteTypes ==
    /\ flagged \in [Order -> BOOLEAN]
    /\ note \in [Order -> Seq(NoteEntry)]
    /\ raised \in [Order -> SUBSET NoteEntry]
PaymentTypes ==
    /\ payStatus \in [Order -> {"none", "pending", "paid", "refunded"}]
    /\ payMethod \in [Order -> {"none", "counter", "qrph"}]
    /\ payRef \in [Order -> Intent \cup {NoIntent}]
    /\ paidBy \in [Order -> Intent \cup {"none", "counter"}]
StockTypes ==
    /\ task \in [Order -> [Dish -> TaskStatus \cup {"none"}]]
    /\ stock \in [Dish -> Nat]
    /\ entries \in [Order -> Nat]
    /\ supply \in [Dish -> Int]
IntentTypes ==
    /\ intentState \in [Intent -> {"unused", "open", "paid"}]
    /\ intentOrder \in [Intent -> Order \cup {NoOrder}]
    /\ \A i \in Intent : intentState[i] # "unused" => intentOrder[i] \in Order
    /\ intentAmount \in [Intent -> Amount]
    /\ answered \subseteq Intent
CallTypes ==
    /\ call \in [Request -> Calls]
    /\ seen \in [Request -> SUBSET NoteEntry]
    /\ staffSettled \in [Order -> BOOLEAN]

\* The one type invariant of the order modules: every column holds a value of its type.
TypeOK == OrderTypes /\ NoteTypes /\ PaymentTypes /\ StockTypes /\ IntentTypes /\ CallTypes

Init ==
    /\ status = [o \in Order |-> "none"]
    /\ lines = [o \in Order |-> Nothing]
    /\ total = [o \in Order |-> Nothing]
    /\ cancelReason = [o \in Order |-> FALSE]
    /\ flagged = [o \in Order |-> FALSE]
    /\ note = [o \in Order |-> <<>>]
    /\ payStatus = [o \in Order |-> "none"]
    /\ payMethod = [o \in Order |-> "none"]
    /\ payRef = [o \in Order |-> NoIntent]
    /\ task = [o \in Order |-> [d \in Dish |-> "none"]]
    /\ stock = InitStock
    /\ intentState = [i \in Intent |-> "unused"]
    /\ intentOrder = [i \in Intent |-> NoOrder]
    /\ intentAmount = [i \in Intent |-> Nothing]
    /\ call = [r \in Request |-> Idle]
    /\ paidBy = [o \in Order |-> "none"]
    /\ staffSettled = [o \in Order |-> FALSE]
    /\ raised = [o \in Order |-> {}]
    /\ seen = [r \in Request |-> {}]
    /\ entries = [o \in Order |-> 0]
    /\ supply = InitStock
    /\ answered = {}

-----------------------------------------------------------------------------
(* Requests.  A handler begins in an idle slot, keeps what it knows there    *)
(* between its steps, and gives the slot back when it returns or throws.     *)
(* A handler that is one step needs no slot.                                 *)

MayStart     == Serial => \A r \in Request : call[r] = Idle
Begin(r, c)  == MayStart /\ call[r] = Idle /\ call' = [call EXCEPT ![r] = c]
GoOn(r, c)   == call' = [call EXCEPT ![r] = c]
Return(r)    == call' = [call EXCEPT ![r] = Idle]

\* The process stops, or a statement fails: what the handler had not yet
\* committed never happens.  PayMongo's webhook is not answered, so it is
\* delivered again.
Crash(r) ==
    /\ call[r].op \in CrashOps
    /\ Return(r)
    /\ UNCHANGED <<orderVars, paymentVars, stockVars, intentVars, paidBy, noteHistory, answered>>

-----------------------------------------------------------------------------
(* The note on an order that needs attention (payments/attentionNote.ts).    *)

Mentions(n, entry) == \E k \in DOMAIN n : n[k] = entry
IsCut(n)           == Mentions(n, TooLong)

\* A cut note ends in the same words however much more is added to it.
AddAttentionNote(n, entry) ==
    IF IsCut(n) THEN n
    ELSE IF Len(n) < NoteMax THEN Append(n, entry)
    ELSE Append(n, TooLong)

NeedsAttention(o, entry) ==
    /\ flagged' = [flagged EXCEPT ![o] = TRUE]
    /\ note' = [note EXCEPT ![o] = AddAttentionNote(note[o], entry)]
    /\ raised' = [raised EXCEPT ![o] = @ \cup {entry}]

\* A text the note already has is a repeated delivery: nothing changes.
AddNoteForStaff(o, entry) ==
    \/ Mentions(note[o], entry) /\ UNCHANGED <<flagged, note, raised>>
    \/ ~Mentions(note[o], entry) /\ NeedsAttention(o, entry)

-----------------------------------------------------------------------------
(* Stock of an order's lines (inventory/fulfillment.ts).                     *)

Covers(q) == \A d \in Dish : q[d] <= stock[d]

\* Without the condition on each decrement.
DeductStockForOrder_Unconditional(o) == stock' = [d \in Dish |-> stock[d] - lines[o][d]]

\* Everything the order needs, or the caller's transaction is rolled back.
DeductStockForOrder(o) ==
    /\ Covers(lines[o])
    /\ stock' = [d \in Dish |-> stock[d] - lines[o][d]]

\* Dishes being cooked put back as well.
ReturnStockForLines_Started(o) ==
    stock' = [d \in Dish |->
        stock[d] + (IF task[o][d] \in {"pending", "in_progress"} THEN lines[o][d] ELSE 0)]

\* Only the lines of dishes nobody has started.
ReturnStockForLines(o) ==
    stock' = [d \in Dish |-> stock[d] + (IF task[o][d] = "pending" THEN lines[o][d] ELSE 0)]

\* Staff correct the count of a dish (inventory/service.ts), as far as orders
\* can tell: the stock is another from one statement to the next.
AdjustStock(d) ==
    /\ MayStart
    /\ \E qty \in AdjustTo :
         /\ stock' = [stock EXCEPT ![d] = qty]
         /\ supply' = [supply EXCEPT ![d] = @ + qty - stock[d]]
    /\ UNCHANGED <<orderVars, paymentVars, task, entries, intentVars, call, paidBy,
                   noteHistory, answered>>

=============================================================================
