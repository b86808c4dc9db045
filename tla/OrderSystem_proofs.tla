------------------------- MODULE OrderSystem_proofs -------------------------
(* Proofs about OrderSystem, for every number of orders, dishes, intents     *)
(* and requests.                                                             *)
EXTENDS OrderSystem, TLAPS

-----------------------------------------------------------------------------
(* What the requests in progress hold.                                       *)

\* A request's kind tells which fields it has.
LEMMA CallKinds ==
    ASSUME NEW c \in Calls
    PROVE  /\ c.op = "createQr" => c \in CreateQrCall
           /\ c.op = "fallBack" => c \in OnOrder("fallBack")
           /\ c.op = "switch" => c \in OnOrder("switch")
           /\ c.op = "record" => c \in RecordCall
           /\ c.op = "flagPaid" => c \in FlagPaidCall
           /\ c.op = "addNote" => c \in AddNoteCall
           /\ c.op = "sortOut" => c \in SortOutCall
           /\ c.op = "edit" => c \in EditCall
           /\ c.op = "readItems" => c \in OnOrder("readItems")
           /\ c.op = "writeTotal" => c \in WriteTotalCall
           /\ c.op = "setTask" => c \in SetTaskCall
           /\ c.op = "readTasks" => c \in OnOrder("readTasks")
           /\ c.op = "syncStatus" => c \in SyncStatusCall
  BY DEF Calls, Idle, OnOrder, CreateQrCall, RecordCall, FlagPaidCall, AddNoteCall,
         SortOutCall, EditCall, WriteTotalCall, SetTaskCall, SyncStatusCall

\* Every kind of request is a request.
LEMMA KindsAreCalls ==
    /\ CreateQrCall \subseteq Calls /\ RecordCall \subseteq Calls /\ FlagPaidCall \subseteq Calls
    /\ AddNoteCall \subseteq Calls /\ SortOutCall \subseteq Calls /\ EditCall \subseteq Calls
    /\ WriteTotalCall \subseteq Calls /\ SetTaskCall \subseteq Calls /\ SyncStatusCall \subseteq Calls
    /\ OnOrder("fallBack") \subseteq Calls /\ OnOrder("switch") \subseteq Calls
    /\ OnOrder("readItems") \subseteq Calls /\ OnOrder("readTasks") \subseteq Calls
    /\ Idle \in Calls
  BY DEF Calls

\* An entry added to a note leaves a note.
LEMMA NoteType ==
    ASSUME NEW n \in Seq(NoteEntry), NEW entry \in NoteEntry
    PROVE  AddAttentionNote(n, entry) \in Seq(NoteEntry)
  <1>1. TooLong \in NoteEntry
    BY DEF TooLong, NoteEntry, PlainNote
  <1> QED BY <1>1 DEF AddAttentionNote

\* Putting an entry before staff (flagNeedsAttention) keeps the note's columns well typed.
LEMMA NeedsAttentionType ==
    ASSUME TypeOK, NEW o \in Order, NEW entry \in NoteEntry,
           NeedsAttention(o, entry)
    PROVE  /\ flagged' \in [Order -> BOOLEAN]
           /\ note' \in [Order -> Seq(NoteEntry)]
           /\ raised' \in [Order -> SUBSET NoteEntry]
  <1>1. AddAttentionNote(note[o], entry) \in Seq(NoteEntry)
    BY NoteType DEF TypeOK, NoteTypes
  <1> QED BY <1>1 DEF TypeOK, NoteTypes, NeedsAttention

\* ... and so does telling staff something they may already have been told.
LEMMA AddNoteForStaffType ==
    ASSUME TypeOK, NEW o \in Order, NEW entry \in NoteEntry,
           AddNoteForStaff(o, entry)
    PROVE  /\ flagged' \in [Order -> BOOLEAN]
           /\ note' \in [Order -> Seq(NoteEntry)]
           /\ raised' \in [Order -> SUBSET NoteEntry]
  BY NeedsAttentionType DEF AddNoteForStaff, TypeOK, NoteTypes

\* Marking a payment paid (markPaymentPaidIfNotAlready) keeps its row well typed.
LEMMA MarkPaidOnlineType ==
    ASSUME TypeOK, NEW c, c.order \in Order, c.intent \in Intent, MarkPaidOnline(c)
    PROVE  PaymentTypes'
  <1>1. PICK method \in {"none", "counter", "qrph"}, ref \in Intent \cup {NoIntent} :
          MarkPaid(c.order, c.intent, method, ref)
    BY DEF MarkPaidOnline, TypeOK, PaymentTypes
  <1> QED BY <1>1 DEF MarkPaid, TypeOK, PaymentTypes

\* An empty database is well typed.
LEMMA TypeInit == Init => TypeOK
  BY ConstantsAssumption
  DEF Init, TypeOK, OrderTypes, NoteTypes, PaymentTypes, StockTypes, IntentTypes, CallTypes,
      Statuses, Amount, Nothing, Calls, Idle

\* Every handler's step leaves every column and every request well typed.
LEMMA TypeStep == TypeOK /\ [Next]_vars => TypeOK'
  <1> SUFFICES ASSUME TypeOK, [Next]_vars PROVE TypeOK'
    OBVIOUS
  <1> USE DEF TypeOK, OrderTypes, NoteTypes, PaymentTypes, StockTypes, IntentTypes, CallTypes,
      orderVars, paymentVars, stockVars, intentVars, noteHistory
  <1>1. ASSUME NEW o \in Order, CreateOrder(o) PROVE TypeOK'
    <2>1. PICK q \in Amount \ {Nothing}, method \in {"none", "counter", "qrph"} :
            /\ lines' = [lines EXCEPT ![o] = q]
            /\ total' = [total EXCEPT ![o] = q]
            /\ payMethod' = [payMethod EXCEPT ![o] = method]
            /\ payStatus' = [payStatus EXCEPT ![o] = IF method = "none" THEN "none" ELSE "pending"]
      BY <1>1 DEF CreateOrder
    <2> QED BY <1>1, <2>1 DEF CreateOrder, Statuses
  <1>2. ASSUME NEW o \in Order, CancelOrder(o) PROVE TypeOK'
    BY <1>2 DEF CancelOrder, Statuses
  <1>3. ASSUME NEW o \in Order, ConfirmCounterPayment(o) PROVE TypeOK'
    BY <1>3 DEF ConfirmCounterPayment, Statuses, MarkPaid, SendToKitchen,
       DeductStockForOrder, ConfirmPendingOrder, CreateKitchenTasksForOrder, Covers,
       Amount, TaskStatus
  <1>4. ASSUME NEW o \in Order, HandOverOrder(o) PROVE TypeOK'
    BY <1>4 DEF HandOverOrder, Statuses
  <1>5. ASSUME NEW o \in Order, CancelKitchenOrder(o) PROVE TypeOK'
    BY <1>5, NeedsAttentionType DEF CancelKitchenOrder, Statuses, NoteEntry, PlainNote,
       ReturnStockForLines, Amount
  <1>6. ASSUME NEW r \in Request, NEW o \in Order, BeginEditItem(r, o) PROVE TypeOK'
    <2>1. PICK d \in Dish, q \in EditQty :
            call' = [call EXCEPT ![r] = [op |-> "edit", order |-> o, dish |-> d, qty |-> q]]
      BY <1>6 DEF BeginEditItem, Begin
    <2>2. [op |-> "edit", order |-> o, dish |-> d, qty |-> q] \in EditCall
      BY ConstantsAssumption DEF EditCall
    <2> QED BY <1>6, <2>1, <2>2, KindsAreCalls DEF BeginEditItem
  <1>7. ASSUME NEW r \in Request, NEW o \in Order, ReadAttentionNote(r, o) PROVE TypeOK'
    BY <1>7 DEF ReadAttentionNote, Begin, MayStart, Calls, SortOutCall
  <1>8. ASSUME NEW r \in Request, NEW o \in Order, BeginQrPhPayment(r, o) PROVE TypeOK'
    BY <1>8 DEF BeginQrPhPayment, Begin, MayStart, Calls, CreateQrCall, OnOrder
  <1>9. ASSUME NEW r \in Request, NEW o \in Order, BeginSwitchToCounter(r, o) PROVE TypeOK'
    BY <1>9 DEF BeginSwitchToCounter, Begin, MayStart, Calls, OnOrder
  <1>10. ASSUME NEW r \in Request, NEW o \in Order, BeginPoll(r, o) PROVE TypeOK'
    BY <1>10 DEF BeginPoll, Begin, MayStart, Calls, RecordCall
  <1>11. ASSUME NEW r \in Request, NEW o \in Order, BeginUpdateTask(r, o) PROVE TypeOK'
    BY <1>11 DEF BeginUpdateTask, Begin, MayStart, Calls, SetTaskCall, Tasks
  <1>12. ASSUME NEW r \in Request, NEW i \in Intent, ReceiveWebhook(r, i) PROVE TypeOK'
    <2> DEFINE o == intentOrder[i]
               AddTheNote(kind) == [op |-> "addNote", order |-> o, intent |-> i,
                                    entry |-> [kind |-> kind, intent |-> i]]
               Record == [op |-> "record", order |-> o, intent |-> i, total |-> total[o],
                          via |-> "webhook"]
    <2>1. o \in Order
      BY <1>12 DEF ReceiveWebhook
    <2>2. AddTheNote("secondPayment") \in Calls /\ AddTheNote("noAmount") \in Calls
      BY <2>1, KindsAreCalls DEF AddNoteCall, PaymentNote
    <2>3. Record \in Calls
      BY <2>1, KindsAreCalls DEF RecordCall
    <2>4. \/ call' = call
          \/ \E c \in Calls : call' = [call EXCEPT ![r] = c]
      BY <1>12, <2>2, <2>3 DEF ReceiveWebhook, Begin
    <2>5. answered' \subseteq Intent
      BY <1>12 DEF ReceiveWebhook
    <2> QED BY <1>12, <2>4, <2>5 DEF ReceiveWebhook
  <1>13. ASSUME NEW i \in Intent, CustomerPays(i) PROVE TypeOK'
    BY <1>13 DEF CustomerPays
  <1>14. ASSUME NEW r \in Request, WriteItem(r) PROVE TypeOK'
    <2> DEFINE c == call[r]
    <2>1. c.order \in Order /\ c.dish \in Dish /\ c.qty \in 0 .. MaxQty
      BY <1>14, CallKinds DEF WriteItem, EditCall
    <2>2. \/ UNCHANGED <<lines, task>>
          \/ /\ lines' = [lines EXCEPT ![c.order] = [@ EXCEPT ![c.dish] = c.qty]]
             /\ task' = IF c.qty = 0 THEN [task EXCEPT ![c.order] = [@ EXCEPT ![c.dish] = "none"]] ELSE task
      BY <1>14 DEF WriteItem
    <2>3. lines[c.order] \in [Dish -> 0 .. MaxQty] /\ task[c.order] \in [Dish -> TaskStatus \cup {"none"}]
      BY <2>1 DEF Amount
    <2>4. [lines[c.order] EXCEPT ![c.dish] = c.qty] \in Amount
      BY <2>1, <2>3 DEF Amount
    <2>5. [task[c.order] EXCEPT ![c.dish] = "none"] \in [Dish -> TaskStatus \cup {"none"}]
      BY <2>1, <2>3
    <2>6. lines' \in [Order -> Amount]
      BY <2>2, <2>4
    <2>7. task' \in [Order -> [Dish -> TaskStatus \cup {"none"}]]
      <3>1. CASE task' = task
        BY <3>1
      <3>2. CASE task' = [task EXCEPT ![c.order] = [@ EXCEPT ![c.dish] = "none"]]
        BY <2>5, <3>2
      <3> QED BY <2>2, <3>1, <3>2
    <2>8. [op |-> "readItems", order |-> c.order] \in Calls
      BY <2>1, KindsAreCalls DEF OnOrder
    <2>9. call' \in [Request -> Calls]
      BY <1>14, <2>8, KindsAreCalls DEF WriteItem, GoOn, Return
    <2> QED BY <1>14, <2>6, <2>7, <2>9 DEF WriteItem
  <1>15. ASSUME NEW r \in Request, ReadItems(r) PROVE TypeOK'
    <2> DEFINE c == call[r]
    <2>1. c.order \in Order
      BY <1>15, CallKinds DEF ReadItems, OnOrder
    <2>2. [op |-> "writeTotal", order |-> c.order, sum |-> lines[c.order]] \in Calls
      BY <2>1, KindsAreCalls DEF WriteTotalCall
    <2> QED BY <1>15, <2>2 DEF ReadItems, GoOn
  <1>16. ASSUME NEW r \in Request, WriteTotal(r) PROVE TypeOK'
    BY <1>16, CallKinds, KindsAreCalls DEF WriteTotal, WriteTotalCall, Return
  <1>17. ASSUME NEW r \in Request, MarkAttentionSortedOut(r) PROVE TypeOK'
    BY <1>17, CallKinds, KindsAreCalls DEF MarkAttentionSortedOut, SortOutCall, Return,
       NoteEntry, PlainNote
  <1>18. ASSUME NEW r \in Request, RefuseSortedOut(r) PROVE TypeOK'
    BY <1>18, KindsAreCalls DEF RefuseSortedOut, Return
  <1>19. ASSUME NEW r \in Request, SaveQrPhCode(r) PROVE TypeOK'
    BY <1>19, CallKinds, KindsAreCalls DEF SaveQrPhCode, CreateQrCall, Return
  <1>20. ASSUME NEW r \in Request, QrPhCodeFails(r) PROVE TypeOK'
    BY <1>20, KindsAreCalls DEF QrPhCodeFails, Return
  <1>21. ASSUME NEW r \in Request, FallBackToCounter(r) PROVE TypeOK'
    BY <1>21, CallKinds, KindsAreCalls DEF FallBackToCounter, OnOrder, Return
  <1>22. ASSUME NEW r \in Request, SwitchToCounter(r) PROVE TypeOK'
    <2>1. call[r].order \in Order
      BY <1>22, CallKinds DEF SwitchToCounter, OnOrder
    <2>2. PaymentTypes'
      BY <1>22, <2>1 DEF SwitchToCounter
    <2>3. CallTypes'
      BY <1>22, KindsAreCalls DEF SwitchToCounter, Return
    <2> QED BY <1>22, <2>2, <2>3 DEF SwitchToCounter
  <1>23. ASSUME NEW r \in Request, FlagForStaff(r) PROVE TypeOK'
    <2> DEFINE c == call[r]
    <2>1. c \in AddNoteCall /\ c.entry \in NoteEntry
      BY <1>23, CallKinds DEF FlagForStaff, AddNoteCall, NoteEntry
    <2>2. NoteTypes'
      BY <1>23, <2>1, AddNoteForStaffType DEF FlagForStaff, AddNoteCall
    <2>3. answered' \subseteq Intent
      BY <1>23, <2>1 DEF FlagForStaff, AddNoteCall
    <2> QED BY <1>23, <2>2, <2>3, KindsAreCalls DEF FlagForStaff, Return
  <1>24. ASSUME NEW r \in Request, PollFindsNothing(r) PROVE TypeOK'
    BY <1>24, KindsAreCalls DEF PollFindsNothing, Return
  <1>25. ASSUME NEW r \in Request, RecordWrongAmount(r) PROVE TypeOK'
    BY <1>25, CallKinds, AddNoteForStaffType, KindsAreCalls
       DEF RecordWrongAmount, RecordCall, NoteEntry, AmountNote, Return, AnswerEvent
  <1>26. ASSUME NEW r \in Request, RecordPayment(r) PROVE TypeOK'
    <2> DEFINE c == call[r]
    <2>1. c \in RecordCall
      BY <1>26, CallKinds DEF RecordPayment
    <2>2. PaymentTypes'
      BY <1>26, <2>1, MarkPaidOnlineType DEF RecordPayment, RecordCall
    <2>3. stock' \in [Dish -> Nat]
      BY <1>26, <2>1 DEF RecordPayment, RecordCall, SendToKitchen, DeductStockForOrder,
         Covers, Amount
    <2>4. StockTypes' /\ status' \in [Order -> Statuses]
      BY <1>26, <2>1, <2>3 DEF RecordPayment, RecordCall, SendToKitchen,
         ConfirmPendingOrder,
        CreateKitchenTasksForOrder, Statuses, TaskStatus
    <2>5. answered' \subseteq Intent
      BY <1>26, <2>1 DEF RecordPayment, RecordCall, AnswerEvent
    <2> QED BY <1>26, <2>2, <2>4, <2>5, KindsAreCalls DEF RecordPayment, Return
  <1>27. ASSUME NEW r \in Request, RecordAlreadyPaid(r) PROVE TypeOK'
    BY <1>27, CallKinds, KindsAreCalls DEF RecordAlreadyPaid, RecordCall, Return,
       AnswerEvent
  <1>28. ASSUME NEW r \in Request, RecordRollsBack(r) PROVE TypeOK'
    BY <1>28, CallKinds DEF RecordRollsBack, RecordCall, GoOn, Calls, FlagPaidCall,
       MoneyNote
  <1>29. ASSUME NEW r \in Request, RecordForStaff(r) PROVE TypeOK'
    <2> DEFINE c == call[r]
    <2>1. c \in FlagPaidCall /\ c.why \in NoteEntry
      BY <1>29, CallKinds DEF RecordForStaff, FlagPaidCall, NoteEntry
    <2>2. PaymentTypes'
      BY <1>29, <2>1, MarkPaidOnlineType DEF RecordForStaff, FlagPaidCall,
         RecordMoneyForStaff
    <2>3. NoteTypes'
      BY <1>29, <2>1, AddNoteForStaffType
         DEF RecordForStaff, FlagPaidCall, RecordMoneyForStaff
    <2>4. answered' \subseteq Intent
      BY <1>29, <2>1 DEF RecordForStaff, FlagPaidCall, AnswerEvent
    <2> QED BY <1>29, <2>2, <2>3, <2>4, KindsAreCalls DEF RecordForStaff, Return
  <1>30. ASSUME NEW r \in Request, WriteTask(r) PROVE TypeOK'
    <2> DEFINE c == call[r]
    <2>1. c.order \in Order /\ c.dish \in Dish /\ c.to \in TaskStatus
      BY <1>30, CallKinds DEF WriteTask, SetTaskCall
    <2>2. \/ task' = task
          \/ task' = [task EXCEPT ![c.order] = [@ EXCEPT ![c.dish] = c.to]]
      BY <1>30 DEF WriteTask
    <2>3. [task[c.order] EXCEPT ![c.dish] = c.to] \in [Dish -> TaskStatus \cup {"none"}]
      BY <2>1
    <2>4. task' \in [Order -> [Dish -> TaskStatus \cup {"none"}]]
      BY <2>2, <2>3
    <2>5. [op |-> "readTasks", order |-> c.order] \in Calls
      BY <2>1, KindsAreCalls DEF OnOrder
    <2>6. call' \in [Request -> Calls]
      BY <1>30, <2>5, KindsAreCalls DEF WriteTask, GoOn, Return
    <2> QED BY <1>30, <2>4, <2>6 DEF WriteTask
  <1>31. ASSUME NEW r \in Request, ReadTasks(r) PROVE TypeOK'
    <2> DEFINE o == call[r].order
               s == StatusOf(task[o], Tasks(o))
    <2>1. o \in Order
      BY <1>31, CallKinds DEF ReadTasks, OnOrder
    <2>2. s \in InKitchen
      BY DEF StatusOf, InKitchen
    <2>3. [op |-> "syncStatus", order |-> o, next |-> s] \in Calls
      BY <2>1, <2>2, KindsAreCalls DEF SyncStatusCall
    <2> QED BY <1>31, <2>3, KindsAreCalls DEF ReadTasks, GoOn, Return
  <1>32. ASSUME NEW r \in Request, SyncOrderStatus(r) PROVE TypeOK'
    BY <1>32, CallKinds, KindsAreCalls DEF SyncOrderStatus, SyncStatusCall, Return,
       InKitchen, Statuses
  <1>33. ASSUME NEW r \in Request, Crash(r) PROVE TypeOK'
    BY <1>33, KindsAreCalls DEF Crash, Return
  <1>34. ASSUME NEW d \in Dish, AdjustStock(d) PROVE TypeOK'
    BY <1>34, ConstantsAssumption DEF AdjustStock
  <1>35. CASE UNCHANGED vars
    BY <1>35 DEF vars
  <1> QED
    BY <1>1, <1>2, <1>3, <1>4, <1>5, <1>6, <1>7, <1>8, <1>9, <1>10, <1>11, <1>12, <1>13,
       <1>14, <1>15, <1>16, <1>17, <1>18, <1>19, <1>20, <1>21, <1>22, <1>23, <1>24, <1>25,
       <1>26, <1>27, <1>28, <1>29, <1>30, <1>31, <1>32, <1>33, <1>34, <1>35
    DEF Next, OrderServiceNext, PaymentServiceNext, KitchenServiceNext

\* Every column holds a value of its type in every state the handlers reach; in
\* particular no deduction takes a dish's stock below zero.
THEOREM TypeCorrect == Spec => []TypeOK
  BY TypeInit, TypeStep, PTL DEF Spec

=============================================================================
