------------------------- MODULE OrderInTurn_proofs -------------------------
(* What holds of orders when requests run one after another and none stops   *)
(* halfway: an order's status is its dishes', and what an online payment     *)
(* sends to the kitchen is what it paid for.  With overlapping requests both *)
(* fail; what is proved is that nothing but the overlap is to blame, for     *)
(* every number of orders, dishes, intents and requests.                     *)
EXTENDS OrderInvariant_proofs, FiniteSetTheorems

\* Requests run in turn, and an edit or a dish's update isn't cut off.
InTurn == Serial /\ CrashOps \cap {"readItems", "writeTotal", "readTasks", "syncStatus"} = {}

-----------------------------------------------------------------------------
(* The invariant.                                                            *)

OneAtATime == \A r, s \in Request : call[r] # Idle /\ call[s] # Idle => r = s

\* What the request halfway has read is still so.
StillSo(r) ==
    LET c == call[r] o == c.order IN
    /\ c.op \in {"edit", "readItems", "writeTotal"} => status[o] = "pending"
    /\ c.op = "writeTotal" => c.sum = lines[o]
    /\ c.op = "createQr" => payStatus[o] # "paid"
    /\ c.op = "record" => c.total = total[o]
    /\ c.op = "flagPaid" => intentState[c.intent] = "paid"
    /\ c.op = "syncStatus" => Tasks(o) # {} /\ c.next = StatusOf(task[o], Tasks(o))

\* An order's total, its status, and its payment.
Totalled(o)  == total[o] = lines[o]
Displayed(o) == status[o] \in InKitchen /\ Tasks(o) # {} => status[o] = StatusOf(task[o], Tasks(o))
PaidUp(o) ==
    /\ status[o] \in InKitchen => payStatus[o] = "paid"
    /\ paidBy[o] \in Intent => intentState[paidBy[o]] = "paid"
    /\ status[o] \in InKitchen /\ paidBy[o] \in Intent => intentAmount[paidBy[o]] = lines[o]

\* The total and the status may be behind only while a request is about to save them.
AtRest(o) ==
    /\ Totalled(o) \/ \E r \in Request : call[r].op \in {"readItems", "writeTotal"} /\ call[r].order = o
    /\ Displayed(o) \/ \E r \in Request : call[r].op \in {"readTasks", "syncStatus"} /\ call[r].order = o
    /\ PaidUp(o)

TurnInv ==
    /\ OneAtATime
    /\ \A r \in Request : StillSo(r)
    /\ \A o \in Order : AtRest(o)

\* The columns all this is about.
rowVars == <<status, lines, total, task, payStatus, paidBy, intentState, intentAmount>>

-----------------------------------------------------------------------------
(* Requests in turn.                                                         *)

\* While a request is halfway no other is.
LEMMA Alone ==
    ASSUME TurnInv, NEW r \in Request, call[r] # Idle
    PROVE  \A s \in Request : s # r => call[s] = Idle
  BY DEF TurnInv, OneAtATime

\* What is behind only during a request isn't when there is none.
LEMMA AtRestWhenIdle ==
    ASSUME TurnInv, \A r \in Request : call[r] = Idle
    PROVE  \A o \in Order : Totalled(o) /\ Displayed(o) /\ PaidUp(o)
  <1>1. \A r \in Request : call[r].op = "idle"
    BY DEF Idle
  <1> QED
    BY <1>1 DEF TurnInv, AtRest

\* ... nor when the only one is about something else.
LEMMA AtRestInBetween ==
    ASSUME TurnInv, NEW r \in Request, call[r] # Idle
    PROVE  \A o \in Order :
             /\ PaidUp(o)
             /\ call[r].op \notin {"readItems", "writeTotal"} \/ call[r].order # o => Totalled(o)
             /\ call[r].op \notin {"readTasks", "syncStatus"} \/ call[r].order # o => Displayed(o)
  <1>1. \A s \in Request : s # r => call[s].op = "idle"
    BY Alone DEF Idle
  <1> QED
    BY <1>1 DEF TurnInv, AtRest

\* The invariant when no request is left halfway.
LEMMA NoneAfter ==
    ASSUME \A r \in Request : call'[r] = Idle,
           \A o \in Order : Totalled(o)' /\ Displayed(o)' /\ PaidUp(o)'
    PROVE  TurnInv'
  BY DEF TurnInv, OneAtATime, StillSo, AtRest, Idle

\* ... and when one is.
LEMMA OneAfter ==
    ASSUME NEW r \in Request, \A s \in Request : s # r => call'[s] = Idle,
           StillSo(r)', \A o \in Order : AtRest(o)'
    PROVE  TurnInv'
  BY DEF TurnInv, OneAtATime, StillSo, Idle

\* Orders stay as they are when their columns do.
LEMMA RowsSame ==
    ASSUME UNCHANGED rowVars
    PROVE  \A o \in Order : /\ Totalled(o)' <=> Totalled(o)
                            /\ Displayed(o)' <=> Displayed(o)
                            /\ PaidUp(o)' <=> PaidUp(o)
  BY DEF rowVars, Totalled, Displayed, PaidUp, Tasks, StatusOf

\* A request begins, and what it has read is so.
LEMMA Begins ==
    ASSUME TypeOK, InTurn, TurnInv, NEW r \in Request, NEW c, Begin(r, c), UNCHANGED rowVars,
           StillSo(r)'
    PROVE  TurnInv'
  <1>1. \A s \in Request : call[s] = Idle
    BY DEF Begin, MayStart, InTurn
  <1>2. \A s \in Request : s # r => call'[s] = Idle
    BY <1>1 DEF Begin, TypeOK, CallTypes
  <1>3. \A o \in Order : AtRest(o)'
    BY <1>1, AtRestWhenIdle, RowsSame DEF AtRest
  <1> QED
    BY <1>2, <1>3, OneAfter

\* A request returns or throws before it has changed anything it must finish.
LEMMA Ends ==
    ASSUME TypeOK, TurnInv, NEW r \in Request, call[r] # Idle, Return(r), UNCHANGED rowVars,
           call[r].op \notin {"readItems", "writeTotal", "readTasks", "syncStatus"}
    PROVE  TurnInv'
  <1>1. \A s \in Request : call'[s] = Idle
    BY Alone DEF Return, TypeOK, CallTypes
  <1>2. \A o \in Order : Totalled(o)' /\ Displayed(o)' /\ PaidUp(o)'
    BY AtRestInBetween, RowsSame
  <1> QED
    BY <1>1, <1>2, NoneAfter

\* A request about one order changes that order only.
LEMMA OthersSame ==
    ASSUME NEW p \in Order,
           <<status[p], lines[p], total[p], task[p], payStatus[p], paidBy[p]>>'
             = <<status[p], lines[p], total[p], task[p], payStatus[p], paidBy[p]>>,
           paidBy[p] \in Intent => intentState'[paidBy[p]] = intentState[paidBy[p]]
                                /\ intentAmount'[paidBy[p]] = intentAmount[paidBy[p]]
    PROVE  /\ Totalled(p)' <=> Totalled(p)
           /\ Displayed(p)' <=> Displayed(p)
           /\ PaidUp(p)' <=> PaidUp(p)
  BY DEF Totalled, Displayed, PaidUp, Tasks, StatusOf

\* What a step about order o may touch.
OnlyOrder(o) ==
    /\ UNCHANGED <<intentState, intentAmount>>
    /\ \A p \in Order : p # o =>
         <<status[p], lines[p], total[p], task[p], payStatus[p], paidBy[p]>>'
           = <<status[p], lines[p], total[p], task[p], payStatus[p], paidBy[p]>>

\* A handler of one step leaves its order in order, and no other is touched.
LEMMA InOneStep ==
    ASSUME TypeOK, InTurn, TurnInv, NEW o \in Order, MayStart, call' = call, OnlyOrder(o),
           Totalled(o)', Displayed(o)', PaidUp(o)'
    PROVE  TurnInv'
  <1>1. \A r \in Request : call[r] = Idle
    BY DEF MayStart, InTurn
  <1>2. \A p \in Order : Totalled(p) /\ Displayed(p) /\ PaidUp(p)
    BY <1>1, AtRestWhenIdle
  <1>3. ASSUME NEW p \in Order, p # o PROVE Totalled(p)' /\ Displayed(p)' /\ PaidUp(p)'
    BY <1>2, <1>3, OthersSame DEF OnlyOrder
  <1> QED
    BY <1>1, <1>3, NoneAfter

\* The last step of a request leaves its order in order.
LEMMA EndsWith ==
    ASSUME TypeOK, TurnInv, NEW r \in Request, call[r] # Idle, Return(r),
           NEW o \in Order, o = call[r].order, OnlyOrder(o),
           Totalled(o)', Displayed(o)', PaidUp(o)'
    PROVE  TurnInv'
  <1>1. \A s \in Request : call'[s] = Idle
    BY Alone DEF Return, TypeOK, CallTypes
  <1>2. \A p \in Order : p # o => Totalled(p) /\ Displayed(p) /\ PaidUp(p)
    BY AtRestInBetween
  <1>3. ASSUME NEW p \in Order, p # o PROVE Totalled(p)' /\ Displayed(p)' /\ PaidUp(p)'
    BY <1>2, <1>3, OthersSame DEF OnlyOrder
  <1> QED
    BY <1>1, <1>3, NoneAfter

\* A step of a request that has more to do.
LEMMA GoesOn ==
    ASSUME TypeOK, TurnInv, NEW r \in Request, call[r] # Idle, NEW c, GoOn(r, c),
           NEW o \in Order, o = call[r].order, OnlyOrder(o), StillSo(r)', AtRest(o)'
    PROVE  TurnInv'
  <1>1. \A s \in Request : s # r => call'[s] = Idle
    BY Alone DEF GoOn, TypeOK, CallTypes
  <1>2. \A p \in Order : p # o => Totalled(p) /\ Displayed(p) /\ PaidUp(p)
    BY AtRestInBetween
  <1>3. ASSUME NEW p \in Order, p # o PROVE Totalled(p)' /\ Displayed(p)' /\ PaidUp(p)'
    BY <1>2, <1>3, OthersSame DEF OnlyOrder
  <1>4. \A p \in Order : AtRest(p)'
    BY <1>3 DEF AtRest
  <1> QED
    BY <1>1, <1>4, OneAfter

\* A request in progress is about an order.
LEMMA AboutAnOrder ==
    ASSUME TypeOK, NEW r \in Request, call[r] # Idle
    PROVE  call[r].order \in Order
  BY CallKinds DEF TypeOK, CallTypes, Calls, OnOrder, CreateQrCall, RecordCall, FlagPaidCall,
     AddNoteCall, SortOutCall, EditCall, WriteTotalCall, SetTaskCall, SyncStatusCall

-----------------------------------------------------------------------------
(* Every step keeps the invariant.                                           *)

\* Placing, cancelling and handing over, confirming at the counter, and cancelling in the kitchen.
LEMMA OneStepHandlers ==
    ASSUME TypeOK, IInv, InTurn, TurnInv, NEW o \in Order,
           \/ CreateOrder(o) \/ CancelOrder(o) \/ ConfirmCounterPayment(o)
           \/ HandOverOrder(o) \/ CancelKitchenOrder(o)
    PROVE  TurnInv'
  <1> USE DEF TypeOK, OrderTypes, PaymentTypes, StockTypes, OnlyOrder, Totalled, Displayed, PaidUp,
          Tasks, InKitchen
  <1>0. (\A r \in Request : call[r] = Idle) => Totalled(o) /\ Displayed(o) /\ PaidUp(o)
    BY AtRestWhenIdle
  <1>1. CASE CreateOrder(o)
    <2>1. paidBy[o] = "none"
      BY <1>1 DEF CreateOrder, IInv, OrderInv, NothingBeforePlaced
    <2>2. Totalled(o)' /\ Displayed(o)'
      BY <1>1 DEF CreateOrder
    <2>3. PaidUp(o)'
      BY <1>1, <2>1, ConstantsAssumption DEF CreateOrder
    <2>4. OnlyOrder(o) /\ MayStart /\ call' = call
      BY <1>1 DEF CreateOrder, stockVars, intentVars
    <2> QED BY <2>2, <2>3, <2>4, InOneStep
  <1>2. CASE CancelOrder(o)
    <2>1. OnlyOrder(o) /\ MayStart /\ call' = call
      BY <1>2 DEF CancelOrder, stockVars, intentVars, paymentVars
    <2>2. Totalled(o)' /\ Displayed(o)' /\ PaidUp(o)'
      BY <1>0, <1>2, <2>1 DEF CancelOrder, MayStart, InTurn, paymentVars
    <2> QED BY <2>1, <2>2, InOneStep
  <1>3. CASE ConfirmCounterPayment(o)
    <2>1. OnlyOrder(o) /\ MayStart /\ call' = call
      BY <1>3 DEF ConfirmCounterPayment, MarkPaid, SendToKitchen, ConfirmPendingOrder,
         CreateKitchenTasksForOrder, intentVars
    <2>2. Totalled(o)'
      BY <1>0, <1>3, <2>1 DEF ConfirmCounterPayment, MayStart, InTurn
    <2>3. Displayed(o)'
      BY <1>3 DEF ConfirmCounterPayment, SendToKitchen, ConfirmPendingOrder,
         CreateKitchenTasksForOrder, StatusOf
    <2>4. PaidUp(o)'
      BY <1>3, ConstantsAssumption DEF ConfirmCounterPayment, MarkPaid
    <2> QED BY <2>1, <2>2, <2>3, <2>4, InOneStep
  <1>4. CASE HandOverOrder(o)
    <2>1. OnlyOrder(o) /\ MayStart /\ call' = call
      BY <1>4 DEF HandOverOrder, stockVars, intentVars, paymentVars
    <2>2. Totalled(o)' /\ Displayed(o)' /\ PaidUp(o)'
      BY <1>0, <1>4, <2>1 DEF HandOverOrder, MayStart, InTurn, paymentVars
    <2> QED BY <2>1, <2>2, InOneStep
  <1>5. CASE CancelKitchenOrder(o)
    <2>1. OnlyOrder(o) /\ MayStart /\ call' = call
      BY <1>5 DEF CancelKitchenOrder, intentVars, paymentVars
    <2>2. Totalled(o)' /\ Displayed(o)' /\ PaidUp(o)'
      BY <1>0, <1>5, <2>1 DEF CancelKitchenOrder, MayStart, InTurn, paymentVars
    <2> QED BY <2>1, <2>2, InOneStep
  <1> QED BY <1>1, <1>2, <1>3, <1>4, <1>5

\* The steps that begin a request.
LEMMA FirstSteps ==
    ASSUME TypeOK, InTurn, TurnInv, NEW r \in Request,
           \/ \E o \in Order : \/ BeginEditItem(r, o) \/ ReadAttentionNote(r, o)
                             \/ BeginQrPhPayment(r, o) \/ BeginSwitchToCounter(r, o)
                             \/ BeginPoll(r, o) \/ BeginUpdateTask(r, o)
           \/ \E i \in Intent : ReceiveWebhook(r, i)
    PROVE  TurnInv'
  <1> USE DEF orderVars, paymentVars, stockVars, intentVars, rowVars, TypeOK, CallTypes
  <1>1. ASSUME UNCHANGED rowVars, NEW c, Begin(r, c), c.op \in {"switch", "fallBack", "addNote", "sortOut", "setTask"}
        PROVE  TurnInv'
    BY <1>1, Begins DEF StillSo, Begin
  <1>2. ASSUME NEW o \in Order, BeginEditItem(r, o) PROVE TurnInv'
    <2>1. PICK d \in Dish, n \in EditQty :
            Begin(r, [op |-> "edit", order |-> o, dish |-> d, qty |-> n])
      BY <1>2 DEF BeginEditItem
    <2>2. StillSo(r)' /\ UNCHANGED rowVars
      BY <1>2, <2>1 DEF BeginEditItem, AssertOrderIsPending, StillSo, Begin
    <2> QED BY <2>1, <2>2, Begins
  <1>3. ASSUME NEW o \in Order, ReadAttentionNote(r, o) PROVE TurnInv'
    BY <1>1, <1>3 DEF ReadAttentionNote
  <1>4. ASSUME NEW o \in Order, BeginQrPhPayment(r, o) PROVE TurnInv'
    <2>1. UNCHANGED rowVars
      BY <1>4 DEF BeginQrPhPayment
    <2>2. CASE Begin(r, [op |-> "createQr", order |-> o, amount |-> total[o]])
      <3>1. StillSo(r)'
        BY <1>4, <2>1, <2>2 DEF BeginQrPhPayment, Payable, StillSo, Begin
      <3> QED BY <2>1, <2>2, <3>1, Begins
    <2>3. CASE Begin(r, [op |-> "fallBack", order |-> o])
      BY <1>1, <2>1, <2>3
    <2> QED BY <1>4, <2>2, <2>3 DEF BeginQrPhPayment
  <1>5. ASSUME NEW o \in Order, BeginSwitchToCounter(r, o) PROVE TurnInv'
    BY <1>1, <1>5 DEF BeginSwitchToCounter
  <1>6. ASSUME NEW o \in Order, BeginPoll(r, o) PROVE TurnInv'
    <2> DEFINE c == [op |-> "record", order |-> o, intent |-> payRef[o], total |-> total[o], via |-> "poll"]
    <2>1. UNCHANGED rowVars /\ Begin(r, c)
      BY <1>6 DEF BeginPoll
    <2>2. StillSo(r)'
      BY <2>1 DEF StillSo, Begin
    <2> QED BY <2>1, <2>2, Begins
  <1>7. ASSUME NEW o \in Order, BeginUpdateTask(r, o) PROVE TurnInv'
    <2>1. PICK d \in Tasks(o), to \in TaskStatus :
            Begin(r, [op |-> "setTask", order |-> o, dish |-> d, to |-> to])
      BY <1>7 DEF BeginUpdateTask
    <2> QED BY <1>1, <1>7, <2>1 DEF BeginUpdateTask
  <1>8. ASSUME NEW i \in Intent, ReceiveWebhook(r, i) PROVE TurnInv'
    <2> DEFINE o == intentOrder[i]
               AddTheNote(kind) == [op |-> "addNote", order |-> o, intent |-> i,
                                    entry |-> [kind |-> kind, intent |-> i]]
               Record == [op |-> "record", order |-> o, intent |-> i, total |-> total[o],
                          via |-> "webhook"]
    <2>1. UNCHANGED rowVars
      BY <1>8 DEF ReceiveWebhook
    <2>2. CASE call' = call
      <3>1. \A s \in Request : call'[s] = Idle
        BY <1>8, <2>2 DEF ReceiveWebhook, MayStart, InTurn
      <3>2. \A p \in Order : Totalled(p)' /\ Displayed(p)' /\ PaidUp(p)'
        BY <2>1, <2>2, <3>1, AtRestWhenIdle, RowsSame
      <3> QED BY <3>1, <3>2, NoneAfter
    <2>3. CASE Begin(r, AddTheNote("secondPayment")) \/ Begin(r, AddTheNote("noAmount"))
      BY <1>1, <2>1, <2>3
    <2>4. CASE Begin(r, Record)
      <3>1. StillSo(r)'
        BY <2>1, <2>4 DEF StillSo, Begin
      <3> QED BY <2>1, <2>4, <3>1, Begins
    <2> QED BY <1>8, <2>2, <2>3, <2>4 DEF ReceiveWebhook
  <1> QED BY <1>2, <1>3, <1>4, <1>5, <1>6, <1>7, <1>8

\* The steps of a correction of an order's items, and staff's Mark as sorted out.
LEMMA EditSteps ==
    ASSUME TypeOK, InTurn, TurnInv, NEW r \in Request,
           \/ WriteItem(r) \/ ReadItems(r) \/ WriteTotal(r)
           \/ MarkAttentionSortedOut(r) \/ RefuseSortedOut(r)
    PROVE  TurnInv'
  <1> DEFINE c == call[r]
  <1> USE DEF orderVars, paymentVars, stockVars, intentVars, rowVars, TypeOK, CallTypes
  <1>0. c # Idle
    BY DEF WriteItem, ReadItems, WriteTotal, MarkAttentionSortedOut, RefuseSortedOut, Idle
  <1>00. PICK o \in Order : o = c.order
    BY <1>0, AboutAnOrder
  <1>a. PaidUp(o) /\ StillSo(r)
    BY <1>0, AtRestInBetween DEF TurnInv
  <1>1. CASE WriteItem(r)
    <2>1. c.op = "edit" /\ status[o] = "pending" /\ Totalled(o)
      BY <1>0, <1>00, <1>1, <1>a, AtRestInBetween DEF WriteItem, StillSo
    <2>2. CASE Return(r) /\ UNCHANGED <<lines, task>>
      BY <1>0, <1>1, <2>1, <2>2, Ends DEF WriteItem
    <2>3. CASE /\ \A p \in Order : p # o => lines'[p] = lines[p] /\ task'[p] = task[p]
               /\ GoOn(r, [op |-> "readItems", order |-> o])
      <3>1. OnlyOrder(o)
        BY <1>1, <2>3 DEF WriteItem, OnlyOrder
      <3>2. StillSo(r)'
        BY <1>1, <2>1, <2>3 DEF WriteItem, StillSo, GoOn
      <3>3. AtRest(o)'
        <4>1. Displayed(o)' /\ PaidUp(o)'
          BY <1>1, <1>a, <2>1 DEF WriteItem, Displayed, PaidUp, InKitchen
        <4>2. call'[r].op = "readItems" /\ call'[r].order = o
          BY <2>3 DEF GoOn
        <4> QED BY <4>1, <4>2 DEF AtRest
      <3> QED BY <1>0, <1>00, <2>3, <3>1, <3>2, <3>3, GoesOn
    <2> QED BY <1>00, <1>1, <2>2, <2>3 DEF WriteItem, OrderTypes, StockTypes
  <1>2. CASE ReadItems(r)
    <2>1. c.op = "readItems" /\ UNCHANGED rowVars
      BY <1>2 DEF ReadItems
    <2>2. GoOn(r, [op |-> "writeTotal", order |-> o, sum |-> lines[o]])
      BY <1>00, <1>2 DEF ReadItems
    <2>3. OnlyOrder(o)
      BY <2>1 DEF OnlyOrder
    <2>4. StillSo(r)'
      BY <1>00, <1>a, <2>1, <2>2 DEF StillSo, GoOn
    <2>5. AtRest(o)'
      <3>1. Displayed(o)' /\ PaidUp(o)'
        BY <1>0, <1>00, <2>1, AtRestInBetween, RowsSame
      <3>2. call'[r].op = "writeTotal" /\ call'[r].order = o
        BY <2>2 DEF GoOn
      <3> QED BY <3>1, <3>2 DEF AtRest
    <2> QED BY <1>0, <1>00, <2>2, <2>3, <2>4, <2>5, GoesOn
  <1>3. CASE WriteTotal(r)
    <2>1. /\ c.op = "writeTotal" /\ Return(r) /\ total' = [total EXCEPT ![o] = c.sum]
          /\ UNCHANGED <<status, lines, task, payStatus, paidBy, intentState, intentAmount>>
      BY <1>00, <1>3 DEF WriteTotal
    <2>2. OnlyOrder(o)
      BY <2>1 DEF OnlyOrder, OrderTypes
    <2>3. Totalled(o)'
      BY <1>00, <1>a, <2>1 DEF Totalled, StillSo, OrderTypes
    <2>4. Displayed(o) /\ PaidUp(o)
      BY <1>0, <2>1, AtRestInBetween
    <2>5. Displayed(o)' /\ PaidUp(o)'
      BY <2>1, <2>4 DEF Displayed, PaidUp, Tasks, StatusOf
    <2> QED BY <1>0, <1>00, <2>1, <2>2, <2>3, <2>5, EndsWith
  <1>4. CASE MarkAttentionSortedOut(r)
    <2>1. /\ c.op = "sortOut" /\ Return(r)
          /\ UNCHANGED <<status, lines, total, task, paidBy, intentState, intentAmount>>
          /\ \/ payStatus' = payStatus
             \/ status[o] = "cancelled" /\ payStatus' = [payStatus EXCEPT ![o] = "refunded"]
      BY <1>00, <1>4 DEF MarkAttentionSortedOut, MoneyToSettle
    <2>2. OnlyOrder(o)
      BY <2>1 DEF OnlyOrder, PaymentTypes
    <2>3. Totalled(o) /\ Displayed(o)
      BY <1>0, <2>1, AtRestInBetween
    <2>4. Totalled(o)' /\ Displayed(o)'
      BY <2>1, <2>3 DEF Totalled, Displayed, Tasks, StatusOf
    <2>5. PaidUp(o)'
      BY <1>a, <2>1 DEF PaidUp, InKitchen
    <2> QED BY <1>0, <1>00, <2>1, <2>2, <2>4, <2>5, EndsWith
  <1>5. CASE RefuseSortedOut(r)
    BY <1>0, <1>5, Ends DEF RefuseSortedOut
  <1> QED BY <1>1, <1>2, <1>3, <1>4, <1>5

\* The kitchen's steps.
LEMMA DishSteps ==
    ASSUME TypeOK, InTurn, TurnInv, NEW r \in Request,
           WriteTask(r) \/ ReadTasks(r) \/ SyncOrderStatus(r)
    PROVE  TurnInv'
  <1> DEFINE c == call[r]
  <1> USE DEF orderVars, paymentVars, stockVars, intentVars, rowVars, TypeOK, CallTypes
  <1>0. c # Idle
    BY DEF WriteTask, ReadTasks, SyncOrderStatus, Idle
  <1>00. PICK o \in Order : o = c.order
    BY <1>0, AboutAnOrder
  <1>a. PaidUp(o) /\ StillSo(r)
    BY <1>0, AtRestInBetween DEF TurnInv
  <1>b. Totalled(o)
    BY <1>0, AtRestInBetween DEF WriteTask, ReadTasks, SyncOrderStatus
  <1>1. CASE WriteTask(r)
    <2>1. c.op = "setTask"
      BY <1>1 DEF WriteTask
    <2>2. CASE Return(r) /\ UNCHANGED task
      BY <1>0, <1>1, <2>1, <2>2, Ends DEF WriteTask
    <2>3. CASE /\ \A p \in Order : p # o => task'[p] = task[p]
               /\ GoOn(r, [op |-> "readTasks", order |-> o])
      <3>1. OnlyOrder(o)
        BY <1>1, <2>3 DEF WriteTask, OnlyOrder
      <3>2. StillSo(r)'
        BY <2>3 DEF StillSo, GoOn
      <3>3. AtRest(o)'
        <4>1. Totalled(o)' /\ PaidUp(o)'
          BY <1>1, <1>a, <1>b DEF WriteTask, Totalled, PaidUp
        <4>2. call'[r].op = "readTasks" /\ call'[r].order = o
          BY <2>3 DEF GoOn
        <4> QED BY <4>1, <4>2 DEF AtRest
      <3> QED BY <1>0, <1>00, <2>3, <3>1, <3>2, <3>3, GoesOn
    <2> QED BY <1>00, <1>1, <2>2, <2>3 DEF WriteTask, StockTypes
  <1>2. CASE ReadTasks(r)
    <2>1. c.op = "readTasks" /\ UNCHANGED rowVars
      BY <1>2 DEF ReadTasks
    <2>2. OnlyOrder(o)
      BY <2>1 DEF OnlyOrder
    <2>3. Totalled(o)' /\ PaidUp(o)'
      BY <1>a, <1>b, <2>1, RowsSame
    <2>4. CASE Tasks(o) = {} /\ Return(r)
      <3>1. Displayed(o)'
        BY <2>1, <2>4 DEF Displayed, Tasks
      <3> QED BY <1>0, <1>00, <2>2, <2>3, <2>4, <3>1, EndsWith
    <2>5. CASE /\ Tasks(o) # {}
               /\ GoOn(r, [op |-> "syncStatus", order |-> o, next |-> StatusOf(task[o], Tasks(o))])
      <3>1. StillSo(r)'
        BY <2>1, <2>5 DEF StillSo, GoOn, Tasks, StatusOf
      <3>2. call'[r].op = "syncStatus" /\ call'[r].order = o
        BY <2>5 DEF GoOn
      <3>3. AtRest(o)'
        BY <2>3, <3>2 DEF AtRest
      <3> QED BY <1>0, <1>00, <2>2, <2>5, <3>1, <3>3, GoesOn
    <2> QED BY <1>00, <1>2, <2>4, <2>5 DEF ReadTasks
  <1>3. CASE SyncOrderStatus(r)
    <2>1. /\ c.op = "syncStatus" /\ Return(r)
          /\ status' = IF status[o] \in InKitchen THEN [status EXCEPT ![o] = c.next] ELSE status
          /\ UNCHANGED <<lines, total, task, payStatus, paidBy, intentState, intentAmount>>
      BY <1>00, <1>3 DEF SyncOrderStatus
    <2>2. OnlyOrder(o)
      BY <2>1 DEF OnlyOrder, OrderTypes
    <2>3. Displayed(o)'
      BY <1>00, <1>a, <2>1 DEF Displayed, StillSo, Tasks, StatusOf, OrderTypes
    <2>4. Totalled(o)'
      BY <1>b, <2>1 DEF Totalled
    <2>5. PaidUp(o)'
      BY <1>a, <2>1 DEF PaidUp, OrderTypes
    <2> QED BY <1>0, <1>00, <2>1, <2>2, <2>3, <2>4, <2>5, EndsWith
  <1> QED BY <1>1, <1>2, <1>3

\* The steps of a payment.
LEMMA PayingSteps ==
    ASSUME TypeOK, InTurn, TurnInv, NEW r \in Request,
           \/ SaveQrPhCode(r) \/ QrPhCodeFails(r) \/ FallBackToCounter(r) \/ SwitchToCounter(r)
           \/ FlagForStaff(r) \/ PollFindsNothing(r) \/ RecordWrongAmount(r) \/ RecordPayment(r)
           \/ RecordAlreadyPaid(r) \/ RecordRollsBack(r) \/ RecordForStaff(r)
    PROVE  TurnInv'
  <1> DEFINE c == call[r]
  <1> USE DEF orderVars, paymentVars, stockVars, intentVars, rowVars, TypeOK, CallTypes
  <1>0. /\ c # Idle
        /\ c.op \in {"createQr", "fallBack", "switch", "addNote", "record", "flagPaid"}
    BY DEF SaveQrPhCode, QrPhCodeFails, FallBackToCounter, SwitchToCounter, FlagForStaff,
       PollFindsNothing, RecordWrongAmount, RecordPayment, RecordAlreadyPaid, RecordRollsBack,
       RecordForStaff, Idle
  <1>00. PICK o \in Order : o = c.order
    BY <1>0, AboutAnOrder
  <1>a. Totalled(o) /\ Displayed(o) /\ PaidUp(o) /\ StillSo(r)
    BY <1>0, AtRestInBetween DEF TurnInv
  <1>b. c.op \in {"record", "flagPaid"} => c.intent \in Intent
    BY CallKinds DEF RecordCall, FlagPaidCall
  <1>c. ASSUME UNCHANGED rowVars, Return(r) PROVE TurnInv'
    BY <1>0, <1>c, Ends
  <1>1. CASE SaveQrPhCode(r)
    <2>1. PICK i \in Intent :
            /\ intentState[i] = "unused"
            /\ intentState' = [intentState EXCEPT ![i] = "open"]
            /\ intentAmount' = [intentAmount EXCEPT ![i] = c.amount]
      BY <1>1 DEF SaveQrPhCode
    <2>2. /\ payStatus' = [payStatus EXCEPT ![o] = "pending"] /\ Return(r) /\ payStatus[o] # "paid"
          /\ UNCHANGED <<status, lines, total, task, paidBy>>
      BY <1>00, <1>1, <1>a DEF SaveQrPhCode, StillSo
    <2>3. \A p \in Order : Totalled(p) /\ Displayed(p) /\ PaidUp(p)
      BY <1>0, AtRestInBetween
    <2>4. \A p \in Order : Totalled(p)' /\ Displayed(p)'
      BY <2>2, <2>3 DEF Totalled, Displayed, Tasks, StatusOf
    <2>5. ASSUME NEW p \in Order PROVE PaidUp(p)'
      <3>1. status[o] \notin InKitchen
        BY <1>a, <2>2 DEF PaidUp
      <3>2. status'[p] \in InKitchen => payStatus'[p] = "paid"
        BY <2>2, <2>3, <3>1 DEF PaidUp, PaymentTypes
      <3>3. paidBy[p] \in Intent => paidBy[p] # i
        BY <2>1, <2>3 DEF PaidUp
      <3>4. paidBy[p] \in Intent => /\ intentState'[paidBy[p]] = intentState[paidBy[p]]
                                   /\ intentAmount'[paidBy[p]] = intentAmount[paidBy[p]]
        BY <2>1, <3>3 DEF IntentTypes
      <3> QED BY <2>2, <2>3, <3>2, <3>4 DEF PaidUp
    <2>6. \A s \in Request : call'[s] = Idle
      BY <1>0, <2>2, Alone DEF Return
    <2> QED BY <2>4, <2>5, <2>6, NoneAfter
  <1>2. CASE FallBackToCounter(r)
    <2>1. /\ payStatus' = [payStatus EXCEPT ![o] = IF @ = "none" THEN "pending" ELSE @] /\ Return(r)
          /\ UNCHANGED <<status, lines, total, task, paidBy, intentState, intentAmount>>
      BY <1>00, <1>2 DEF FallBackToCounter
    <2>2. OnlyOrder(o)
      BY <2>1 DEF OnlyOrder, PaymentTypes
    <2>3. Totalled(o)' /\ Displayed(o)'
      BY <1>a, <2>1 DEF Totalled, Displayed, Tasks, StatusOf
    <2>4. PaidUp(o)'
      BY <1>a, <2>1 DEF PaidUp, PaymentTypes
    <2> QED BY <1>0, <1>00, <2>1, <2>2, <2>3, <2>4, EndsWith
  <1>3. CASE RecordPayment(r)
    <2>1. /\ c.op = "record" /\ intentState[c.intent] = "paid" /\ intentAmount[c.intent] = c.total
          /\ Return(r) /\ UNCHANGED <<lines, total, intentState, intentAmount>>
          /\ status' = [status EXCEPT ![o] = "confirmed"]
          /\ task' = [task EXCEPT ![o] = [d \in Dish |-> IF lines[o][d] > 0 THEN "pending" ELSE "none"]]
          /\ paidBy' = [paidBy EXCEPT ![o] = c.intent]
          /\ payStatus' = [payStatus EXCEPT ![o] = "paid"]
      BY <1>00, <1>3 DEF RecordPayment, RightAmount, MarkPaidOnline, MarkPaid, SendToKitchen,
         ConfirmPendingOrder, CreateKitchenTasksForOrder
    <2>2. OnlyOrder(o)
      BY <2>1 DEF OnlyOrder, OrderTypes, StockTypes, PaymentTypes
    <2>3. Totalled(o)'
      BY <1>a, <2>1 DEF Totalled
    <2>4. Displayed(o)'
      BY <2>1 DEF Displayed, Tasks, StatusOf, OrderTypes, StockTypes
    <2>5. intentAmount[c.intent] = lines[o]
      BY <1>00, <1>a, <2>1 DEF StillSo, Totalled
    <2>6. PaidUp(o)'
      BY <2>1, <2>5 DEF PaidUp, PaymentTypes
    <2> QED BY <1>0, <1>00, <2>1, <2>2, <2>3, <2>4, <2>6, EndsWith
  <1>4. CASE RecordRollsBack(r)
    <2>1. /\ c.op = "record" /\ intentState[c.intent] = "paid" /\ UNCHANGED rowVars
          /\ \E w \in MoneyNote :
                GoOn(r, [op |-> "flagPaid", order |-> o, intent |-> c.intent, via |-> c.via, why |-> w])
      BY <1>00, <1>4 DEF RecordRollsBack, MoneyNote
    <2>2. OnlyOrder(o)
      BY <2>1 DEF OnlyOrder
    <2>3. PICK w : GoOn(r, [op |-> "flagPaid", order |-> o, intent |-> c.intent, via |-> c.via, why |-> w])
      BY <2>1
    <2>4. StillSo(r)'
      BY <2>1, <2>3 DEF StillSo, GoOn
    <2>5. AtRest(o)'
      BY <1>a, <2>1, RowsSame DEF AtRest
    <2> QED BY <1>0, <1>00, <2>2, <2>3, <2>4, <2>5, GoesOn
  <1>5. CASE RecordForStaff(r)
    <2>1. /\ c.op = "flagPaid" /\ Return(r)
          /\ UNCHANGED <<status, lines, total, task, intentState, intentAmount>>
      BY <1>5 DEF RecordForStaff
    <2>2. CASE UNCHANGED <<payStatus, paidBy>>
      BY <1>c, <2>1, <2>2
    <2>3. CASE /\ payStatus[o] # "paid" /\ payStatus' = [payStatus EXCEPT ![o] = "paid"]
               /\ paidBy' = [paidBy EXCEPT ![o] = c.intent]
      <3>1. OnlyOrder(o)
        BY <2>1, <2>3 DEF OnlyOrder, PaymentTypes
      <3>2. Totalled(o)' /\ Displayed(o)'
        BY <1>a, <2>1 DEF Totalled, Displayed, Tasks, StatusOf
      <3>3. intentState[c.intent] = "paid"
        BY <1>a, <2>1 DEF StillSo
      <3>4. PaidUp(o)'
        BY <1>a, <2>1, <2>3, <3>3 DEF PaidUp, PaymentTypes
      <3> QED BY <1>0, <1>00, <2>1, <3>1, <3>2, <3>4, EndsWith
    <2> QED BY <1>00, <1>5, <2>2, <2>3 DEF RecordForStaff, RecordMoneyForStaff, MarkPaidOnline,
            MarkPaid, CanMarkPaid
  <1>6. CASE QrPhCodeFails(r) \/ SwitchToCounter(r) \/ PollFindsNothing(r) \/ RecordAlreadyPaid(r)
    BY <1>c, <1>6 DEF QrPhCodeFails, SwitchToCounter, PollFindsNothing, RecordAlreadyPaid
  <1>7. CASE FlagForStaff(r) \/ RecordWrongAmount(r)
    BY <1>c, <1>7 DEF FlagForStaff, RecordWrongAmount
  <1> QED BY <1>1, <1>2, <1>3, <1>4, <1>5, <1>6, <1>7

\* A customer pays a code, whatever else is going on.
LEMMA PayingKeepsTurnInv ==
    ASSUME TypeOK, TurnInv, NEW i \in Intent, CustomerPays(i)
    PROVE  TurnInv'
  <1> USE DEF CustomerPays, orderVars, paymentVars, stockVars, TypeOK, IntentTypes
  <1>1. OneAtATime'
    BY DEF TurnInv, OneAtATime
  <1>2. \A r \in Request : StillSo(r)'
    <2> SUFFICES ASSUME NEW r \in Request PROVE StillSo(r)'
      OBVIOUS
    <2>1. StillSo(r)
      BY DEF TurnInv
    <2>2. call'[r].op = "flagPaid" => intentState'[call'[r].intent] = "paid"
      <3>1. call[r].op = "flagPaid" => call[r].intent \in Intent
        BY CallKinds DEF CallTypes, FlagPaidCall
      <3> QED BY <2>1, <3>1 DEF StillSo
    <2> QED BY <2>1, <2>2 DEF StillSo, Tasks, StatusOf
  <1>3. \A o \in Order : AtRest(o)'
    <2> SUFFICES ASSUME NEW o \in Order PROVE AtRest(o)'
      OBVIOUS
    <2>1. AtRest(o)
      BY DEF TurnInv
    <2>2. PaidUp(o)'
      BY <2>1 DEF AtRest, PaidUp
    <2>3. Totalled(o)' <=> Totalled(o)
      BY DEF Totalled
    <2>4. Displayed(o)' <=> Displayed(o)
      BY DEF Displayed, Tasks, StatusOf
    <2> QED BY <2>1, <2>2, <2>3, <2>4 DEF AtRest
  <1> QED BY <1>1, <1>2, <1>3 DEF TurnInv

\* Every step keeps the invariant.
LEMMA TurnInvStep == TypeOK /\ IInv /\ InTurn /\ TurnInv /\ [Next]_vars => TurnInv'
  <1> SUFFICES ASSUME TypeOK, IInv, InTurn, TurnInv, [Next]_vars PROVE TurnInv'
    OBVIOUS
  <1>1. CASE OrderServiceNext
    BY <1>1, OneStepHandlers, FirstSteps, EditSteps DEF OrderServiceNext
  <1>2. CASE PaymentServiceNext
    BY <1>2, OneStepHandlers, FirstSteps, PayingSteps, PayingKeepsTurnInv DEF PaymentServiceNext
  <1>3. CASE KitchenServiceNext
    BY <1>3, OneStepHandlers, FirstSteps, DishSteps DEF KitchenServiceNext
  <1>4. ASSUME NEW d \in Dish, AdjustStock(d) PROVE TurnInv'
    <2>1. /\ UNCHANGED rowVars
          /\ \A r \in Request : call[r] = Idle /\ call'[r] = Idle
      BY <1>4 DEF AdjustStock, MayStart, InTurn, orderVars, paymentVars, intentVars, rowVars
    <2>2. \A o \in Order : Totalled(o)' /\ Displayed(o)' /\ PaidUp(o)'
      BY <2>1, AtRestWhenIdle, RowsSame
    <2> QED BY <2>1, <2>2, NoneAfter
  <1>5. ASSUME NEW r \in Request, Crash(r) PROVE TurnInv'
    <2>1. UNCHANGED rowVars /\ Return(r)
      BY <1>5 DEF Crash, orderVars, paymentVars, stockVars, intentVars, rowVars
    <2>2. call[r].op \in Op /\ call[r].op \notin {"readItems", "writeTotal", "readTasks", "syncStatus"}
      BY <1>5, ConstantsAssumption DEF Crash, InTurn
    <2>3. call[r] # Idle
      BY <2>2 DEF Idle, Op
    <2> QED BY <2>1, <2>2, <2>3, Ends
  <1>6. CASE UNCHANGED vars
    <2>1. UNCHANGED rowVars /\ call' = call
      BY <1>6 DEF vars, orderVars, paymentVars, stockVars, intentVars, rowVars
    <2>2. \A o \in Order : AtRest(o)'
      BY <2>1, RowsSame DEF TurnInv, AtRest
    <2>3. OneAtATime' /\ \A r \in Request : StillSo(r)'
      BY <2>1 DEF TurnInv, OneAtATime, StillSo, rowVars, Tasks, StatusOf
    <2> QED BY <2>2, <2>3 DEF TurnInv
  <1> QED BY <1>1, <1>2, <1>3, <1>4, <1>5, <1>6 DEF Next

\* Nothing is placed or halfway at the start.
LEMMA TurnInvInit == Init => TurnInv
  BY ConstantsAssumption DEF Init, TurnInv, OneAtATime, StillSo, AtRest, Totalled, Displayed, PaidUp,
     InKitchen, Idle

\* When no request about an order is halfway, nothing about it is behind.
LEMMA QuietOrders ==
    ASSUME TurnInv, NEW o \in Order, Quiet(o)
    PROVE  Displayed(o)
  BY DEF TurnInv, AtRest, Quiet, Idle

-----------------------------------------------------------------------------
(* The theorems.                                                             *)

\* Requests in turn keep totals, statuses and payments in order.
THEOREM TurnInvHolds == ASSUME InTurn PROVE Spec => []TurnInv
  <1>1. TypeOK /\ IInv /\ TurnInv /\ [Next]_vars => TurnInv'
    BY TurnInvStep
  <1> QED BY <1>1, TurnInvInit, TypeCorrect, IInvHolds, PTL DEF Spec

\* An order with dishes is on the kitchen display, and READY exactly when all
\* of them are done (syncOrderStatus).
THEOREM InTurnStaysOnDisplay == ASSUME InTurn PROVE Spec => []StaysOnDisplay
  <1>1. TypeOK /\ TurnInv => StaysOnDisplay
    <2> SUFFICES ASSUME TypeOK, TurnInv, NEW o \in Order,
                        Quiet(o), status[o] \in InKitchen, Tasks(o) # {}
                 PROVE  /\ OnKitchenDisplay(o)
                        /\ status[o] = "ready" <=> \A d \in Tasks(o) : task[o][d] = "completed"
      BY DEF StaysOnDisplay
    <2>1. status[o] = StatusOf(task[o], Tasks(o))
      BY QuietOrders DEF Displayed
    <2>2. status[o] = "ready" <=> \A d \in Tasks(o) : task[o][d] = "completed"
      BY <2>1 DEF StatusOf
    <2> QED BY <2>2 DEF OnKitchenDisplay, InKitchen
  <1> QED BY <1>1, TurnInvHolds, TypeCorrect, PTL

\* What an online payment sends to the kitchen is what it paid for
\* (recordOnlinePayment compares the amounts).
THEOREM InTurnPaidForWhatIsMade == ASSUME InTurn PROVE Spec => []PaidForWhatIsMade
  <1>1. TurnInv => PaidForWhatIsMade
    BY DEF TurnInv, AtRest, PaidUp, PaidForWhatIsMade
  <1> QED BY <1>1, TurnInvHolds, PTL

-----------------------------------------------------------------------------
(* The stock adds up.                                                        *)

\* What is halfway is alone; a line is corrected of an order that is pending, and
\* a dish changed of one the kitchen didn't cancel.
HalfwayFits ==
    \A r \in Request : call[r] # Idle =>
        /\ \A s \in Request : s # r => call[s] = Idle
        /\ call[r].op = "edit" => status[call[r].order] = "pending"
        /\ call[r].op = "setTask" => ~cancelReason[call[r].order]

\* The inductive invariant of the stock, given IInv.
AddsUp(d) == /\ IsFiniteSet(Servings(UsedBy(d)))
             /\ stock[d] + Cardinality(Servings(UsedBy(d))) = supply[d]
StockInv  == HalfwayFits /\ \A d \in Dish : AddsUp(d)

\* So many servings of one order.
LEMMA OneOrder ==
    ASSUME NEW o, NEW n \in Nat
    PROVE  IsFiniteSet({o} \X (1 .. n)) /\ Cardinality({o} \X (1 .. n)) = n
  <1>1. IsFiniteSet({o}) /\ Cardinality({o}) = 1
    BY FS_Singleton
  <1>2. 1 \in Int /\ n \in Int
    OBVIOUS
  <1>3. IsFiniteSet(1 .. n) /\ Cardinality(1 .. n) = IF 1 > n THEN 0 ELSE n - 1 + 1
    BY <1>2, FS_Interval
  <1>4. Cardinality(1 .. n) = n
    BY <1>3
  <1>5. /\ IsFiniteSet({o} \X (1 .. n))
        /\ Cardinality({o} \X (1 .. n)) = Cardinality({o}) * Cardinality(1 .. n)
    BY <1>1, <1>3, FS_Product
  <1> QED BY <1>1, <1>4, <1>5

\* When one order used other servings than before, there are as many more of them.
LEMMA OneOrderChanges ==
    ASSUME NEW f \in [Order -> 0 .. MaxQty], NEW g \in [Order -> 0 .. MaxQty], NEW o \in Order,
           \A p \in Order : p # o => g[p] = f[p], IsFiniteSet(Servings(f))
    PROVE  /\ IsFiniteSet(Servings(g)) /\ Cardinality(Servings(f)) \in Nat
           /\ Cardinality(Servings(g)) = Cardinality(Servings(f)) - f[o] + g[o]
  <1> DEFINE Rest == Servings(f) \ ({o} \X (1 .. f[o]))
             Before == {o} \X (1 .. f[o])
             After == {o} \X (1 .. g[o])
  <1>0. f[o] \in Nat /\ g[o] \in Nat /\ MaxQty \in Nat
    BY ConstantsAssumption
  <1>1. Servings(f) = Rest \cup Before /\ Rest \cap Before = {}
    <2>1. Before \subseteq Servings(f)
      BY <1>0 DEF Servings
    <2> QED BY <2>1
  <1>2. Servings(g) = Rest \cup After /\ Rest \cap After = {}
    <2>1. ASSUME NEW u \in Order \X (1 .. MaxQty) PROVE u \in Rest <=> u[1] # o /\ u[2] <= f[u[1]]
      BY <1>0, <2>1 DEF Servings
    <2>2. Rest \subseteq Order \X (1 .. MaxQty)
      BY DEF Servings
    <2>3. After \subseteq Order \X (1 .. MaxQty)
      BY <1>0
    <2>4. ASSUME NEW u \in Order \X (1 .. MaxQty) PROVE u \in After <=> u[1] = o /\ u[2] <= g[o]
      BY <1>0, <2>4
    <2>5. ASSUME NEW u \in Order \X (1 .. MaxQty)
          PROVE  /\ u \in Servings(g) <=> u \in Rest \cup After
                 /\ ~(u \in Rest /\ u \in After)
      BY <2>1, <2>4, <2>5 DEF Servings
    <2>6. Servings(g) \subseteq Order \X (1 .. MaxQty)
      BY DEF Servings
    <2> HIDE DEF Rest, After
    <2> QED BY <2>2, <2>3, <2>5, <2>6
  <1>3. IsFiniteSet(Before) /\ Cardinality(Before) = f[o] /\ IsFiniteSet(After) /\ Cardinality(After) = g[o]
    BY <1>0, OneOrder
  <1>4. IsFiniteSet(Rest)
    BY FS_Difference
  <1> HIDE DEF Rest, Before, After
  <1>5. /\ Cardinality(Rest \cup Before) = Cardinality(Rest) + Cardinality(Before) - Cardinality({})
        /\ Cardinality(Rest \cup After) = Cardinality(Rest) + Cardinality(After) - Cardinality({})
        /\ IsFiniteSet(Rest \cup After)
    BY <1>1, <1>2, <1>3, <1>4, FS_Union
  <1>6. Cardinality({}) = 0 /\ Cardinality(Rest) \in Nat
    BY <1>4, FS_EmptySet, FS_CardinalityType
  <1> QED BY <1>0, <1>1, <1>2, <1>3, <1>5, <1>6

\* An order uses up to as many servings as it may have, before a step and after it.
LEMMA UsedTyped ==
    ASSUME TypeOK, NEW d \in Dish
    PROVE  UsedBy(d) \in [Order -> 0 .. MaxQty]
  <1>1. \A o \in Order : Used(o, d) \in 0 .. MaxQty
    BY ConstantsAssumption DEF TypeOK, OrderTypes, Amount, Used
  <1> QED BY <1>1 DEF UsedBy
LEMMA UsedTypedAfter ==
    ASSUME TypeOK', NEW d \in Dish
    PROVE  UsedBy(d)' \in [Order -> 0 .. MaxQty]
  <1>1. \A o \in Order : Used(o, d)' \in 0 .. MaxQty
    BY ConstantsAssumption DEF TypeOK, OrderTypes, Amount, Used
  <1> QED BY <1>1 DEF UsedBy

\* A step that leaves what each order used alone, and moves stock and supply alike.
LEMMA NobodyUses ==
    ASSUME TypeOK, TypeOK', NEW d \in Dish, AddsUp(d), \A o \in Order : Used(o, d)' = Used(o, d),
           supply'[d] - stock'[d] = supply[d] - stock[d]
    PROVE  AddsUp(d)'
  <1>1. UsedBy(d)' = UsedBy(d)
    BY DEF UsedBy
  <1> DEFINE n == Cardinality(Servings(UsedBy(d)))
  <1>2. n \in Nat
    BY FS_CardinalityType DEF AddsUp
  <1>3. stock[d] \in Int /\ stock'[d] \in Int /\ supply[d] \in Int /\ supply'[d] \in Int
    BY DEF TypeOK, StockTypes
  <1>4. stock[d] + n = supply[d]
    BY DEF AddsUp
  <1> HIDE DEF n
  <1>5. stock'[d] + n = supply'[d]
    BY <1>2, <1>3, <1>4
  <1> QED BY <1>1, <1>5 DEF AddsUp, n

\* A step after which one order used more, or less, and the stock has as much less, or more.
LEMMA OneUses ==
    ASSUME TypeOK, TypeOK', NEW d \in Dish, AddsUp(d), NEW o \in Order,
           \A p \in Order : p # o => Used(p, d)' = Used(p, d),
           stock'[d] + Used(o, d)' = stock[d] + Used(o, d), supply'[d] = supply[d]
    PROVE  AddsUp(d)'
  <1>1. PICK f, g : f = UsedBy(d) /\ g = UsedBy(d)'
    OBVIOUS
  <1>2. f \in [Order -> 0 .. MaxQty] /\ g \in [Order -> 0 .. MaxQty]
    BY <1>1, UsedTyped, UsedTypedAfter
  <1>3. f[o] = Used(o, d) /\ g[o] = Used(o, d)' /\ \A p \in Order : p # o => g[p] = f[p]
    BY <1>1 DEF UsedBy
  <1>4. IsFiniteSet(Servings(f)) /\ stock[d] + Cardinality(Servings(f)) = supply[d]
    BY <1>1 DEF AddsUp
  <1>5. /\ IsFiniteSet(Servings(g)) /\ Cardinality(Servings(f)) \in Nat
        /\ Cardinality(Servings(g)) = Cardinality(Servings(f)) - f[o] + g[o]
    BY <1>2, <1>3, <1>4, OneOrderChanges
  <1>6. f[o] \in Int /\ g[o] \in Int
    BY <1>2, ConstantsAssumption
  <1>7. stock[d] \in Int /\ stock'[d] \in Int /\ supply[d] \in Int
    BY DEF TypeOK, StockTypes
  <1>8. stock'[d] + g[o] = stock[d] + f[o]
    BY <1>3
  <1>9. stock'[d] + Cardinality(Servings(g)) = supply'[d]
    BY <1>4, <1>5, <1>6, <1>7, <1>8
  <1> QED BY <1>1, <1>5, <1>9 DEF AddsUp, Servings

\* What the stock is about.
servingVars == <<status, cancelReason, lines, task, stock, supply>>

\* A request that begins an edit or a dish's update has seen that it may.
MayBegin(c) ==
    /\ c.op = "edit" => status[c.order] = "pending"
    /\ c.op = "setTask" => ~cancelReason[c.order]

\* What a step does to the requests, and which touch what the stock is about.
InOne(o)   == \/ CreateOrder(o) \/ CancelOrder(o) \/ ConfirmCounterPayment(o)
              \/ HandOverOrder(o) \/ CancelKitchenOrder(o)
Halfway(r) == WriteItem(r) \/ WriteTask(r) \/ RecordPayment(r) \/ SyncOrderStatus(r)
BeginsSeen == UNCHANGED servingVars /\ \E r \in Request, c \in Calls : Begin(r, c) /\ MayBegin(c)
GoesOnWith(r) ==
    /\ call[r] # Idle
    /\ \E c \in Calls : GoOn(r, c) /\ c.op \notin {"edit", "setTask"}
    /\ Halfway(r) \/ UNCHANGED servingVars

\* The type after a step says that what a request goes on with is a request.
LEMMA GoesOnTyped ==
    ASSUME TypeOK, TypeOK', NEW r \in Request, NEW c, GoOn(r, c)
    PROVE  c \in Calls /\ call'[r] = c
  BY DEF GoOn, TypeOK, CallTypes

LEMMA OrderServiceKinds ==
    ASSUME TypeOK, TypeOK', IInv, OrderServiceNext
    PROVE  \/ \E o \in Order : InOne(o)
           \/ BeginsSeen
           \/ \E r \in Request : GoesOnWith(r)
  <1> USE DEF orderVars, paymentVars, stockVars, intentVars, servingVars
  <1>1. ASSUME NEW o \in Order, CreateOrder(o) \/ CancelOrder(o) PROVE InOne(o)
    BY <1>1 DEF InOne
  <1>2. ASSUME NEW r \in Request, NEW o \in Order, BeginEditItem(r, o) PROVE BeginsSeen
    <2>1. PICK d \in Dish, q \in EditQty : Begin(r, [op |-> "edit", order |-> o, dish |-> d, qty |-> q])
      BY <1>2 DEF BeginEditItem
    <2>2. [op |-> "edit", order |-> o, dish |-> d, qty |-> q] \in Calls
      BY <2>1, GoesOnTyped DEF Begin, GoOn
    <2>3. MayBegin([op |-> "edit", order |-> o, dish |-> d, qty |-> q])
      BY <1>2 DEF BeginEditItem, AssertOrderIsPending, MayBegin
    <2>4. UNCHANGED servingVars
      BY <1>2 DEF BeginEditItem
    <2> QED BY <2>1, <2>2, <2>3, <2>4 DEF BeginsSeen
  <1>3. ASSUME NEW r \in Request, NEW o \in Order, ReadAttentionNote(r, o) PROVE BeginsSeen
    <2> DEFINE c == [op |-> "sortOut", order |-> o, note |-> note[o]]
    <2>1. Begin(r, c) /\ c.op = "sortOut" /\ UNCHANGED servingVars
      BY <1>3 DEF ReadAttentionNote
    <2> HIDE DEF c
    <2>2. c \in Calls
      BY <2>1, GoesOnTyped DEF Begin, GoOn
    <2> QED BY <2>1, <2>2 DEF BeginsSeen, MayBegin
  <1>4. ASSUME NEW r \in Request, WriteItem(r) PROVE GoesOnWith(r)
    <2>1. call[r] # Idle /\ Halfway(r)
      BY <1>4 DEF WriteItem, Idle, Halfway
    <2>2. PICK c : GoOn(r, c) /\ c.op \notin {"edit", "setTask"}
      BY <1>4 DEF WriteItem, Return, GoOn, Idle
    <2> QED BY <2>1, <2>2, GoesOnTyped DEF GoesOnWith
  <1>5. ASSUME NEW r \in Request, ReadItems(r) \/ WriteTotal(r) \/ MarkAttentionSortedOut(r) \/ RefuseSortedOut(r)
        PROVE  GoesOnWith(r)
    <2>1. call[r] # Idle /\ UNCHANGED servingVars
      BY <1>5 DEF ReadItems, WriteTotal, MarkAttentionSortedOut, RefuseSortedOut, Idle
    <2>2. PICK c : GoOn(r, c) /\ c.op \notin {"edit", "setTask"}
      BY <1>5 DEF ReadItems, WriteTotal, MarkAttentionSortedOut, RefuseSortedOut, Return, GoOn, Idle
    <2> QED BY <2>1, <2>2, GoesOnTyped DEF GoesOnWith
  <1> QED BY <1>1, <1>2, <1>3, <1>4, <1>5 DEF OrderServiceNext

LEMMA PaymentServiceKinds ==
    ASSUME TypeOK, TypeOK', IInv, PaymentServiceNext
    PROVE  \/ \E o \in Order : InOne(o)
           \/ BeginsSeen
           \/ \E r \in Request : GoesOnWith(r)
           \/ UNCHANGED <<call, servingVars>>
  <1> USE DEF orderVars, paymentVars, stockVars, intentVars, servingVars
  <1>1. ASSUME NEW o \in Order, ConfirmCounterPayment(o) PROVE InOne(o)
    BY <1>1 DEF InOne
  <1>2. ASSUME NEW i \in Intent, CustomerPays(i) PROVE UNCHANGED <<call, servingVars>>
    BY <1>2 DEF CustomerPays
  <1>0. ASSUME NEW r \in Request, NEW c, Begin(r, c), c.op \notin {"edit", "setTask"}, UNCHANGED servingVars
        PROVE  BeginsSeen
    <2>1. c \in Calls
      BY <1>0, GoesOnTyped DEF Begin, GoOn
    <2> QED BY <1>0, <2>1 DEF BeginsSeen, MayBegin
  <1>3. ASSUME NEW r \in Request, NEW i \in Intent, ReceiveWebhook(r, i)
        PROVE  BeginsSeen \/ UNCHANGED <<call, servingVars>>
    <2>1. UNCHANGED servingVars
      BY <1>3 DEF ReceiveWebhook
    <2>2. \/ UNCHANGED call
          \/ \E c : Begin(r, c) /\ c.op \notin {"edit", "setTask"}
      BY <1>3 DEF ReceiveWebhook
    <2> QED BY <1>0, <2>1, <2>2
  <1>4. ASSUME NEW r \in Request, NEW o \in Order,
               BeginQrPhPayment(r, o) \/ BeginSwitchToCounter(r, o) \/ BeginPoll(r, o)
        PROVE  BeginsSeen
    <2>1. UNCHANGED servingVars
      BY <1>4 DEF BeginQrPhPayment, BeginSwitchToCounter, BeginPoll
    <2>2. ASSUME BeginQrPhPayment(r, o) PROVE \E c : Begin(r, c) /\ c.op \notin {"edit", "setTask"}
      BY <2>2 DEF BeginQrPhPayment
    <2>3. ASSUME BeginSwitchToCounter(r, o) PROVE \E c : Begin(r, c) /\ c.op \notin {"edit", "setTask"}
      BY <2>3 DEF BeginSwitchToCounter
    <2>4. ASSUME BeginPoll(r, o) PROVE \E c : Begin(r, c) /\ c.op \notin {"edit", "setTask"}
      BY <2>4 DEF BeginPoll
    <2> QED BY <1>0, <1>4, <2>1, <2>2, <2>3, <2>4
  <1>5. ASSUME NEW r \in Request, RecordPayment(r) PROVE GoesOnWith(r)
    <2>1. call[r] # Idle /\ Halfway(r)
      BY <1>5 DEF RecordPayment, Idle, Halfway
    <2>2. GoOn(r, Idle) /\ Idle.op \notin {"edit", "setTask"}
      BY <1>5 DEF RecordPayment, Return, GoOn, Idle
    <2> QED BY <2>1, <2>2, GoesOnTyped DEF GoesOnWith
  <1>6. ASSUME NEW r \in Request,
               \/ SaveQrPhCode(r) \/ QrPhCodeFails(r) \/ FallBackToCounter(r) \/ SwitchToCounter(r)
               \/ FlagForStaff(r) \/ PollFindsNothing(r) \/ RecordWrongAmount(r)
               \/ RecordAlreadyPaid(r) \/ RecordRollsBack(r) \/ RecordForStaff(r)
        PROVE  GoesOnWith(r)
    <2>1. call[r] # Idle /\ UNCHANGED servingVars
      BY <1>6 DEF SaveQrPhCode, QrPhCodeFails, FallBackToCounter, SwitchToCounter, FlagForStaff,
         PollFindsNothing, RecordWrongAmount, RecordAlreadyPaid, RecordRollsBack, RecordForStaff, Idle
    <2>2. PICK c : GoOn(r, c) /\ c.op \notin {"edit", "setTask"}
      BY <1>6 DEF SaveQrPhCode, QrPhCodeFails, FallBackToCounter, SwitchToCounter, FlagForStaff,
         PollFindsNothing, RecordWrongAmount, RecordAlreadyPaid, RecordRollsBack, RecordForStaff,
         Return, GoOn, Idle
    <2> QED BY <2>1, <2>2, GoesOnTyped DEF GoesOnWith
  <1> QED BY <1>1, <1>2, <1>3, <1>4, <1>5, <1>6 DEF PaymentServiceNext

LEMMA KitchenServiceKinds ==
    ASSUME TypeOK, TypeOK', IInv, KitchenServiceNext
    PROVE  \/ \E o \in Order : InOne(o)
           \/ BeginsSeen
           \/ \E r \in Request : GoesOnWith(r)
  <1> USE DEF orderVars, paymentVars, stockVars, intentVars, servingVars
  <1>1. ASSUME NEW o \in Order, HandOverOrder(o) \/ CancelKitchenOrder(o) PROVE InOne(o)
    BY <1>1 DEF InOne
  <1>2. ASSUME NEW r \in Request, NEW o \in Order, BeginUpdateTask(r, o) PROVE BeginsSeen
    <2>1. PICK d \in Tasks(o), to \in TaskStatus :
             Begin(r, [op |-> "setTask", order |-> o, dish |-> d, to |-> to])
      BY <1>2 DEF BeginUpdateTask
    <2>2. [op |-> "setTask", order |-> o, dish |-> d, to |-> to] \in Calls
      BY <2>1, GoesOnTyped DEF Begin, GoOn
    <2>3. ~cancelReason[o] /\ UNCHANGED servingVars
      BY <1>2 DEF BeginUpdateTask, IInv, KitchenInv, KitchenCancels
    <2> QED BY <2>1, <2>2, <2>3 DEF BeginsSeen, MayBegin
  <1>3. ASSUME NEW r \in Request, WriteTask(r) \/ SyncOrderStatus(r) PROVE GoesOnWith(r)
    <2>1. call[r] # Idle /\ Halfway(r)
      BY <1>3 DEF WriteTask, SyncOrderStatus, Idle, Halfway
    <2>2. ASSUME WriteTask(r) PROVE \E c : GoOn(r, c) /\ c.op \notin {"edit", "setTask"}
      <3>1. \/ GoOn(r, [op |-> "readTasks", order |-> call[r].order])
            \/ Return(r)
        BY <2>2 DEF WriteTask
      <3>2. Return(r) => GoOn(r, Idle)
        BY DEF Return, GoOn
      <3>3. Idle.op = "idle"
        BY DEF Idle
      <3>4. [op |-> "readTasks", order |-> call[r].order].op = "readTasks"
        OBVIOUS
      <3> QED BY <3>1, <3>2, <3>3, <3>4
    <2>3. ASSUME SyncOrderStatus(r) PROVE GoOn(r, Idle) /\ Idle.op \notin {"edit", "setTask"}
      BY <2>3 DEF SyncOrderStatus, Return, GoOn, Idle
    <2> QED BY <1>3, <2>1, <2>2, <2>3, GoesOnTyped DEF GoesOnWith
  <1>4. ASSUME NEW r \in Request, ReadTasks(r) PROVE GoesOnWith(r)
    <2>1. call[r] # Idle /\ UNCHANGED servingVars
      BY <1>4 DEF ReadTasks, Idle
    <2>2. PICK c : GoOn(r, c) /\ c.op \notin {"edit", "setTask"}
      BY <1>4 DEF ReadTasks, Return, GoOn, Idle
    <2> QED BY <2>1, <2>2, GoesOnTyped DEF GoesOnWith
  <1> QED BY <1>1, <1>2, <1>3, <1>4 DEF KitchenServiceNext

\* Every step is a handler of one step, a correction of the stock, the beginning or
\* a step of a request, or nothing the stock is about.
LEMMA StepKinds ==
    ASSUME TypeOK, TypeOK', IInv, [Next]_vars
    PROVE  \/ \E o \in Order : InOne(o)
           \/ \E d \in Dish : AdjustStock(d)
           \/ BeginsSeen
           \/ \E r \in Request : GoesOnWith(r)
           \/ UNCHANGED <<call, servingVars>>
  <1>1. CASE Next
    <2>1. ASSUME NEW r \in Request, Crash(r) PROVE GoesOnWith(r)
      <3>1. call[r].op \in Op
        BY <2>1, ConstantsAssumption DEF Crash
      <3>2. call[r] # Idle
        BY <3>1 DEF Idle, Op
      <3>3. GoOn(r, Idle) /\ Idle.op \notin {"edit", "setTask"} /\ UNCHANGED servingVars
        BY <2>1 DEF Crash, Return, GoOn, Idle, orderVars, stockVars, servingVars
      <3> QED BY <3>2, <3>3, GoesOnTyped DEF GoesOnWith
    <2> QED BY <1>1, <2>1, OrderServiceKinds, PaymentServiceKinds, KitchenServiceKinds DEF Next
  <1>2. CASE UNCHANGED vars
    BY <1>2 DEF vars, orderVars, stockVars, servingVars
  <1> QED BY <1>1, <1>2

\* One request at a time: a step leaves the others as they are.
LEMMA HalfwayStep ==
    ASSUME TypeOK, TypeOK', IInv, Serial, HalfwayFits, [Next]_vars
    PROVE  HalfwayFits'
  <1>1. ASSUME \A r \in Request : call[r] = Idle, call' = call PROVE HalfwayFits'
    BY <1>1 DEF HalfwayFits
  <1>2. ASSUME NEW o \in Order, InOne(o) PROVE HalfwayFits'
    BY <1>1, <1>2 DEF InOne, CreateOrder, CancelOrder, ConfirmCounterPayment, HandOverOrder,
       CancelKitchenOrder, MayStart
  <1>3. ASSUME NEW d \in Dish, AdjustStock(d) PROVE HalfwayFits'
    BY <1>1, <1>3 DEF AdjustStock, MayStart
  <1>4. CASE BeginsSeen
    <2>1. PICK r \in Request, c \in Calls : Begin(r, c) /\ MayBegin(c)
      BY <1>4 DEF BeginsSeen
    <2>2. /\ \A s \in Request : s # r => call'[s] = Idle
          /\ call'[r] = c
      BY <2>1 DEF Begin, MayStart, TypeOK, CallTypes
    <2>3. UNCHANGED <<status, cancelReason>>
      BY <1>4 DEF BeginsSeen, servingVars
    <2> QED BY <2>1, <2>2, <2>3 DEF HalfwayFits, MayBegin
  <1>5. ASSUME NEW r \in Request, GoesOnWith(r) PROVE HalfwayFits'
    <2>1. PICK c \in Calls : GoOn(r, c) /\ c.op \notin {"edit", "setTask"}
      BY <1>5 DEF GoesOnWith
    <2>2. \A s \in Request : s # r => call[s] = Idle
      BY <1>5 DEF GoesOnWith, HalfwayFits
    <2>3. /\ \A s \in Request : s # r => call'[s] = Idle
          /\ call'[r] = c
      BY <2>1, <2>2 DEF GoOn, TypeOK, CallTypes
    <2> QED BY <2>1, <2>3 DEF HalfwayFits
  <1>6. CASE UNCHANGED <<call, servingVars>>
    BY <1>6 DEF HalfwayFits, servingVars
  <1> QED BY <1>2, <1>3, <1>4, <1>5, <1>6, StepKinds

\* An order goes to the kitchen, and its servings are no longer in stock.
LEMMA SentAddsUp ==
    ASSUME TypeOK, TypeOK', IInv, NEW o \in Order, SendToKitchen(o), UNCHANGED <<lines, cancelReason>>,
           NEW d \in Dish, AddsUp(d)
    PROVE  AddsUp(d)'
  <1>1. status[o] = "pending" /\ ~cancelReason[o]
    BY DEF SendToKitchen, ConfirmPendingOrder, IInv, KitchenInv, KitchenCancels
  <1>2. /\ status' = [status EXCEPT ![o] = "confirmed"]
        /\ \A p \in Order : p # o => task'[p] = task[p]
        /\ stock'[d] = stock[d] - lines[o][d] /\ supply' = supply
    BY DEF SendToKitchen, DeductStockForOrder, ConfirmPendingOrder, CreateKitchenTasksForOrder, TypeOK, StockTypes
  <1>3. Used(o, d) = 0 /\ Used(o, d)' = lines[o][d]
    BY <1>1, <1>2 DEF Used, InKitchen, TypeOK, OrderTypes
  <1>4. \A p \in Order : p # o => Used(p, d)' = Used(p, d)
    BY <1>2 DEF Used, TypeOK, OrderTypes
  <1>5. lines[o][d] \in Int /\ stock[d] \in Int
    BY ConstantsAssumption DEF TypeOK, OrderTypes, StockTypes, Amount
  <1>6. stock'[d] + Used(o, d)' = stock[d] + Used(o, d)
    BY <1>2, <1>3, <1>5
  <1> QED BY <1>2, <1>4, <1>6, OneUses

\* The handlers of one step: only placing the order in the kitchen, and taking it
\* from there, changes what is used.
LEMMA InOneAddsUp ==
    ASSUME TypeOK, TypeOK', IInv, NEW o \in Order, InOne(o), NEW d \in Dish, AddsUp(d)
    PROVE  AddsUp(d)'
  <1> USE DEF InKitchen
  <1>0. cancelReason[o] => status[o] = "cancelled"
    BY DEF IInv, KitchenInv, KitchenCancels
  <1>1. CASE CreateOrder(o) \/ CancelOrder(o) \/ HandOverOrder(o)
    <2>1. /\ \A p \in Order : p # o => status'[p] = status[p] /\ lines'[p] = lines[p]
          /\ UNCHANGED <<cancelReason, task, stock, supply>>
      BY <1>1 DEF CreateOrder, CancelOrder, HandOverOrder, stockVars, TypeOK, OrderTypes
    <2>2. Used(o, d)' = Used(o, d)
      BY <1>0, <1>1, <2>1 DEF CreateOrder, CancelOrder, HandOverOrder, Used, TypeOK, OrderTypes
    <2>3. \A p \in Order : Used(p, d)' = Used(p, d)
      BY <2>1, <2>2 DEF Used
    <2> QED BY <2>1, <2>3, NobodyUses
  <1>2. CASE ConfirmCounterPayment(o)
    BY <1>2, SentAddsUp DEF ConfirmCounterPayment
  <1>3. CASE CancelKitchenOrder(o)
    <2>1. /\ status[o] \in InKitchen /\ ~cancelReason[o] /\ UNCHANGED <<lines, task, supply>>
          /\ status' = [status EXCEPT ![o] = "cancelled"]
          /\ cancelReason' = [cancelReason EXCEPT ![o] = TRUE]
          /\ stock'[d] = stock[d] + (IF task[o][d] = "pending" THEN lines[o][d] ELSE 0)
      BY <1>0, <1>3 DEF CancelKitchenOrder, ReturnStockForLines
    <2>2. /\ Used(o, d) = lines[o][d]
          /\ Used(o, d)' = IF task[o][d] # "pending" THEN lines[o][d] ELSE 0
      BY <2>1 DEF Used, TypeOK, OrderTypes
    <2>3. \A p \in Order : p # o => Used(p, d)' = Used(p, d)
      BY <2>1 DEF Used, TypeOK, OrderTypes
    <2>4. lines[o][d] \in Int /\ stock[d] \in Int
      BY ConstantsAssumption DEF TypeOK, OrderTypes, StockTypes, Amount
    <2>5. stock'[d] + Used(o, d)' = stock[d] + Used(o, d)
      BY <2>1, <2>2, <2>4
    <2> QED BY <2>1, <2>3, <2>5, OneUses
  <1> QED BY <1>1, <1>2, <1>3 DEF InOne

\* The steps of a request: a line is corrected before the order is in the kitchen,
\* and a dish changed while it is, or after it was handed over.
LEMMA HalfwayAddsUp ==
    ASSUME TypeOK, TypeOK', IInv, HalfwayFits, NEW r \in Request, Halfway(r), NEW d \in Dish, AddsUp(d)
    PROVE  AddsUp(d)'
  <1> DEFINE c == call[r]
             o == c.order
  <1> USE DEF InKitchen
  <1>0. c # Idle /\ o \in Order
    <2>1. c # Idle
      BY DEF Halfway, WriteItem, WriteTask, RecordPayment, SyncOrderStatus, Idle
    <2> QED BY <2>1, AboutAnOrder
  <1>00. cancelReason[o] => status[o] = "cancelled"
    BY <1>0 DEF IInv, KitchenInv, KitchenCancels
  <1>1. CASE WriteItem(r)
    <2>1. status[o] = "pending" /\ ~cancelReason[o]
      BY <1>0, <1>00, <1>1 DEF WriteItem, HalfwayFits
    <2>2. /\ UNCHANGED <<status, cancelReason, stock, supply>>
          /\ \A p \in Order : p # o => lines'[p] = lines[p] /\ task'[p] = task[p]
      BY <1>0, <1>1 DEF WriteItem, TypeOK, OrderTypes, StockTypes
    <2>3. \A p \in Order : Used(p, d)' = Used(p, d)
      BY <2>1, <2>2 DEF Used
    <2> QED BY <2>2, <2>3, NobodyUses
  <1>2. CASE WriteTask(r)
    <2>1. /\ UNCHANGED <<status, lines, cancelReason, stock, supply>>
          /\ \A p \in Order : p # o => task'[p] = task[p]
      BY <1>0, <1>2 DEF WriteTask, orderVars, TypeOK, StockTypes
    <2>2. ~cancelReason[o]
      BY <1>0, <1>2 DEF WriteTask, HalfwayFits
    <2>3. \A p \in Order : Used(p, d)' = Used(p, d)
      BY <2>1, <2>2 DEF Used
    <2> QED BY <2>1, <2>3, NobodyUses
  <1>3. CASE RecordPayment(r)
    BY <1>0, <1>3, SentAddsUp DEF RecordPayment
  <1>4. CASE SyncOrderStatus(r)
    <2>1. /\ UNCHANGED <<lines, cancelReason, task, stock, supply>>
          /\ \A p \in Order : p # o => status'[p] = status[p]
          /\ status[o] \in InKitchen => status'[o] = c.next
          /\ status[o] \notin InKitchen => status' = status
      BY <1>0, <1>4 DEF SyncOrderStatus, stockVars, TypeOK, OrderTypes
    <2>2. c.next \in InKitchen
      BY <1>4, CallKinds DEF SyncOrderStatus, SyncStatusCall, TypeOK, CallTypes
    <2>3. \A p \in Order : Used(p, d)' = Used(p, d)
      BY <2>1, <2>2 DEF Used
    <2> QED BY <2>1, <2>3, NobodyUses
  <1> QED BY <1>1, <1>2, <1>3, <1>4 DEF Halfway

\* Every step keeps the stock's invariant.
LEMMA StockInvStep == TypeOK /\ TypeOK' /\ IInv /\ Serial /\ StockInv /\ [Next]_vars => StockInv'
  <1> SUFFICES ASSUME TypeOK, TypeOK', IInv, Serial, HalfwayFits, \A d \in Dish : AddsUp(d), [Next]_vars
               PROVE  StockInv'
    BY DEF StockInv
  <1>1. HalfwayFits'
    BY HalfwayStep
  <1>2. ASSUME NEW d \in Dish PROVE AddsUp(d)'
    <2>0. ASSUME UNCHANGED servingVars PROVE AddsUp(d)'
      BY <2>0, NobodyUses DEF servingVars, Used
    <2>1. ASSUME NEW o \in Order, InOne(o) PROVE AddsUp(d)'
      BY <2>1, InOneAddsUp
    <2>2. ASSUME NEW e \in Dish, AdjustStock(e) PROVE AddsUp(d)'
      <3>1. UNCHANGED <<status, lines, cancelReason, task>>
        BY <2>2 DEF AdjustStock, orderVars
      <3>2. \A o \in Order : Used(o, d)' = Used(o, d)
        BY <3>1 DEF Used
      <3>3. PICK q \in Nat : /\ stock' = [stock EXCEPT ![e] = q]
                             /\ supply' = [supply EXCEPT ![e] = @ + q - stock[e]]
        BY <2>2, ConstantsAssumption DEF AdjustStock
      <3>4. stock[d] \in Int /\ supply[d] \in Int
        BY DEF TypeOK, StockTypes
      <3>5. supply'[d] - stock'[d] = supply[d] - stock[d]
        BY <3>3, <3>4 DEF TypeOK, StockTypes
      <3> QED BY <3>2, <3>5, NobodyUses
    <2>3. CASE BeginsSeen
      BY <2>0, <2>3 DEF BeginsSeen
    <2>4. ASSUME NEW r \in Request, GoesOnWith(r) PROVE AddsUp(d)'
      BY <2>0, <2>4, HalfwayAddsUp DEF GoesOnWith
    <2>5. CASE UNCHANGED <<call, servingVars>>
      BY <2>0, <2>5
    <2> QED BY <2>1, <2>2, <2>3, <2>4, <2>5, StepKinds
  <1> QED BY <1>1, <1>2 DEF StockInv

\* Nothing is used at the start.
LEMMA StockInvInit == Init => StockInv
  <1> SUFFICES ASSUME Init PROVE StockInv
    OBVIOUS
  <1>1. HalfwayFits
    BY DEF Init, HalfwayFits
  <1>2. ASSUME NEW d \in Dish PROVE AddsUp(d)
    <2>0. ASSUME NEW o \in Order PROVE Used(o, d) = 0
      <3>1. status[o] = "none" /\ ~cancelReason[o]
        BY DEF Init
      <3> QED BY <3>1 DEF Used, InKitchen
    <2>1. PICK f : f = UsedBy(d)
      OBVIOUS
    <2>2. f \in [Order -> {0}]
      BY <2>0, <2>1 DEF UsedBy
    <2>3. Servings(f) = {}
      <3>1. ASSUME NEW u \in Order \X (1 .. MaxQty) PROVE u \notin Servings(f)
        <4>1. f[u[1]] = 0 /\ u[2] \in 1 .. MaxQty
          BY <2>2
        <4> QED BY <4>1, ConstantsAssumption DEF Servings
      <3> QED BY <3>1 DEF Servings
    <2>4. IsFiniteSet({}) /\ Cardinality({}) = 0
      BY FS_EmptySet
    <2>5. stock[d] + 0 = supply[d]
      BY ConstantsAssumption DEF Init
    <2> QED BY <2>1, <2>3, <2>4, <2>5 DEF AddsUp
  <1> QED BY <1>1, <1>2 DEF StockInv

\* When requests run one after another, even if some stop halfway, the servings
\* in stock and those the orders used are what there was (deductStockForOrder,
\* returnStockForLines): nothing is deducted twice, or given back that was cooked.
THEOREM InTurnStockAccounted == ASSUME Serial PROVE Spec => []StockAccounted
  <1>1. StockInv => StockAccounted
    BY DEF StockInv, AddsUp, StockAccounted
  <1>2. TypeOK /\ TypeOK' /\ IInv /\ StockInv /\ [Next]_vars => StockInv'
    BY StockInvStep
  <1> QED BY <1>1, <1>2, StockInvInit, TypeCorrect, IInvHolds, PTL DEF Spec
=============================================================================
