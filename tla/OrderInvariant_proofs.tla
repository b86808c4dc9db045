------------------------ MODULE OrderInvariant_proofs ------------------------
(* The inductive invariant of OrderSystem, and what follows from it: money   *)
(* for an order that isn't made is before staff, an order reaches the        *)
(* kitchen at most once, Mark as sorted out settles only what was on the     *)
(* screen, and the system implements OrderLifecycle.                         *)
EXTENDS OrderSystem_proofs

-----------------------------------------------------------------------------
(* The parts of the inductive invariant.                                     *)

\* Nothing happens to an order before it is placed, ...
NothingBeforePlaced ==
    \A o \in Order : status[o] = "none" =>
        paidBy[o] = "none" /\ payStatus[o] = "none" /\ note[o] = <<>> /\ ~flagged[o]

\* ... so requests and intents are about orders that were.
AboutPlacedOrders ==
    /\ \A r \in Request : call[r] # Idle => status[call[r].order] # "none"
    /\ \A i \in Intent : intentState[i] # "unused" => status[intentOrder[i]] # "none"

\* What was noted was shown: a text that is in the note already, and is
\* therefore not added again, is before staff or was.
NotedIsShown == \A o \in Order : note[o] # <<>> => flagged[o] \/ staffSettled[o]

\* Money that could not be turned into a meal is noted only when it is recorded.
MoneyNoteMeansPaid ==
    \A o \in Order, e \in MoneyNote : Mentions(note[o], e) => EverPaid(o)

\* Only a cancelled order has the kitchen's reason.
KitchenCancels == \A o \in Order : cancelReason[o] => status[o] = "cancelled"

\* The note is only added to, and what is raised goes into it until it is cut:
\* while it still is what staff read, they saw everything.
ReadIsPrefix ==
    \A r \in Request : call[r].op = "sortOut" =>
        /\ Len(call[r].note) <= Len(note[call[r].order])
        /\ call[r].note = note[call[r].order] /\ ~IsCut(note[call[r].order]) =>
             seen[r] = raised[call[r].order]

OrderInv == NothingBeforePlaced /\ NotedIsShown /\ MoneyNoteMeansPaid /\ MoneyWithoutMealIsShown
KitchenInv == KitchenCancels /\ ReachesKitchenOnce
RequestInv == AboutPlacedOrders /\ ReadIsPrefix
IInv == OrderInv /\ KitchenInv /\ RequestInv

-----------------------------------------------------------------------------
\* What putting something before staff does to the note: it grows, unless it is
\* cut, by nothing but the entry or the mark that it is cut.
LEMMA AttentionEffect ==
    ASSUME TypeOK, NEW o \in Order, NEW entry \in NoteEntry, NeedsAttention(o, entry)
    PROVE  /\ flagged' = [flagged EXCEPT ![o] = TRUE]
           /\ note'[o] # <<>>
           /\ \A p \in Order : p # o => note'[p] = note[p] /\ raised'[p] = raised[p]
           /\ Len(note[o]) <= Len(note'[o])
           /\ IsCut(note[o]) \/ Len(note[o]) < Len(note'[o])
           /\ IsCut(note[o]) => note'[o] = note[o]
           /\ \A e \in NoteEntry : Mentions(note'[o], e) =>
                  Mentions(note[o], e) \/ e = entry \/ e = TooLong
  <1> DEFINE n == note[o]
  <1>1. n \in Seq(NoteEntry) /\ TooLong \in NoteEntry
    BY DEF TypeOK, NoteTypes, TooLong, NoteEntry, PlainNote
  <1>2. note'[o] = AddAttentionNote(n, entry) /\ flagged' = [flagged EXCEPT ![o] = TRUE]
    BY DEF NeedsAttention, TypeOK, NoteTypes
  <1>3. \A p \in Order : p # o => note'[p] = note[p] /\ raised'[p] = raised[p]
    BY DEF NeedsAttention, TypeOK, NoteTypes
  <1>4. CASE IsCut(n)
    <2>1. note'[o] = n
      BY <1>2, <1>4 DEF AddAttentionNote
    <2>2. n # <<>>
      BY <1>1, <1>4 DEF IsCut, Mentions
    <2> QED BY <1>1, <1>2, <1>3, <1>4, <2>1, <2>2
  <1>5. ASSUME ~IsCut(n), NEW x \in {entry, TooLong}, note'[o] = Append(n, x)
        PROVE  /\ Len(n) < Len(note'[o]) /\ note'[o] # <<>>
               /\ \A e \in NoteEntry : Mentions(note'[o], e) =>
                      Mentions(n, e) \/ e = entry \/ e = TooLong
    <2>1. Len(note'[o]) = Len(n) + 1
      BY <1>1, <1>5
    <2>2. \A k \in DOMAIN note'[o] : note'[o][k] = x \/ (k \in DOMAIN n /\ note'[o][k] = n[k])
      BY <1>1, <1>5
    <2> QED BY <1>1, <2>1, <2>2 DEF Mentions
  <1>6. CASE ~IsCut(n)
    <2>1. PICK x \in {entry, TooLong} : note'[o] = Append(n, x)
      BY <1>2, <1>6 DEF AddAttentionNote
    <2> QED BY <1>1, <1>2, <1>3, <1>5, <1>6, <2>1
  <1> QED BY <1>4, <1>6

-----------------------------------------------------------------------------
(* Orders, their money and their notes.                                      *)

\* The handlers that change what OrderInv is about.
LEMMA OrderSteps ==
    ASSUME Next
    PROVE  \/ UNCHANGED <<status, paidBy, payStatus, note, flagged, staffSettled>>
           \/ \E o \in Order : CreateOrder(o) \/ CancelOrder(o) \/ ConfirmCounterPayment(o)
                               \/ HandOverOrder(o) \/ CancelKitchenOrder(o)
           \/ \E r \in Request :
                \/ MarkAttentionSortedOut(r) \/ SaveQrPhCode(r) \/ FallBackToCounter(r)
                \/ FlagForStaff(r) \/ RecordWrongAmount(r) \/ RecordPayment(r)
                \/ RecordForStaff(r) \/ SyncOrderStatus(r)
  <1> USE DEF orderVars, paymentVars, stockVars, intentVars, noteHistory
  <1>1. CASE OrderServiceNext
    BY <1>1 DEF OrderServiceNext, BeginEditItem, ReadAttentionNote, WriteItem, ReadItems,
       WriteTotal, RefuseSortedOut
  <1>2. CASE PaymentServiceNext
    BY <1>2 DEF PaymentServiceNext, CustomerPays, ReceiveWebhook, BeginQrPhPayment,
       BeginSwitchToCounter, BeginPoll, QrPhCodeFails, SwitchToCounter, PollFindsNothing,
       RecordAlreadyPaid, RecordRollsBack
  <1>3. CASE KitchenServiceNext
    BY <1>3 DEF KitchenServiceNext, BeginUpdateTask, WriteTask, ReadTasks
  <1>4. CASE \E d \in Dish : AdjustStock(d)
    BY <1>4 DEF AdjustStock
  <1>5. CASE \E r \in Request : Crash(r)
    BY <1>5 DEF Crash
  <1> QED BY <1>1, <1>2, <1>3, <1>4, <1>5 DEF Next

\* Putting an entry that isn't about unusable money before staff.
LEMMA NotingKeepsOrderInv ==
    ASSUME TypeOK, OrderInv, NEW o \in Order, NEW entry \in NoteEntry, status[o] # "none",
           AddNoteForStaff(o, entry), entry \in MoneyNote => paidBy'[o] # "none",
           paidBy' \in [Order -> Intent \cup {"none", "counter"}],
           \A p \in Order : p # o => paidBy'[p] = paidBy[p],
           paidBy[o] # "none" => paidBy'[o] # "none",
           UNCHANGED <<status, staffSettled>>,
           \A p \in Order : p # o => payStatus'[p] = payStatus[p]
    PROVE  OrderInv'
  <1> USE DEF OrderInv
  <1>1. CASE Mentions(note[o], entry)
    <2>1. UNCHANGED <<flagged, note, raised>>
      BY <1>1 DEF AddNoteForStaff, NeedsAttention
    <2>2. note[o] # <<>>
      BY <1>1 DEF Mentions
    <2>3. flagged[o] \/ staffSettled[o]
      BY <2>2 DEF NotedIsShown
    <2>4. NothingBeforePlaced' /\ NotedIsShown'
      BY <2>1 DEF NothingBeforePlaced, NotedIsShown
    <2>5. MoneyNoteMeansPaid' /\ MoneyWithoutMealIsShown'
      BY <2>1, <2>3 DEF MoneyNoteMeansPaid, MoneyWithoutMealIsShown, EverPaid, InPaymentQueue
    <2> QED BY <2>4, <2>5
  <1>2. CASE ~Mentions(note[o], entry)
    <2>1. NeedsAttention(o, entry)
      BY <1>2 DEF AddNoteForStaff
    <2>2. /\ flagged'[o] /\ \A p \in Order : p # o => flagged'[p] = flagged[p] /\ note'[p] = note[p]
          /\ \A e \in NoteEntry : Mentions(note'[o], e) =>
                 Mentions(note[o], e) \/ e = entry \/ e = TooLong
      BY <2>1, AttentionEffect DEF TypeOK, NoteTypes
    <2>3. \A e \in MoneyNote : e \in NoteEntry /\ e # TooLong
      BY DEF MoneyNote, NoteEntry, TooLong
    <2>4. NothingBeforePlaced' /\ NotedIsShown'
      BY <2>2 DEF NothingBeforePlaced, NotedIsShown
    <2>5. MoneyNoteMeansPaid'
      BY <2>2, <2>3 DEF MoneyNoteMeansPaid, EverPaid
    <2>6. MoneyWithoutMealIsShown'
      BY <2>2 DEF MoneyWithoutMealIsShown, EverPaid, InPaymentQueue
    <2> QED BY <2>4, <2>5, <2>6
  <1> QED BY <1>1, <1>2

\* Every handler's step keeps money and notes of an order before staff.
LEMMA OrderInvStep == TypeOK /\ OrderInv /\ KitchenInv /\ RequestInv /\ [Next]_vars => OrderInv'
  <1> SUFFICES ASSUME TypeOK, OrderInv, KitchenInv, RequestInv, [Next]_vars PROVE OrderInv'
    OBVIOUS
  <1> USE DEF OrderInv
  <1>0. \A r \in Request : call[r] # Idle => status[call[r].order] # "none"
    BY DEF RequestInv, AboutPlacedOrders
  <1>1. CASE UNCHANGED <<status, paidBy, payStatus, note, flagged, staffSettled>>
    BY <1>1 DEF NothingBeforePlaced, NotedIsShown, MoneyNoteMeansPaid, MoneyWithoutMealIsShown,
       EverPaid, InPaymentQueue
  <1>2. ASSUME NEW o \in Order, CreateOrder(o) PROVE OrderInv'
    BY <1>2 DEF CreateOrder, noteHistory, NothingBeforePlaced, NotedIsShown, MoneyNoteMeansPaid,
       MoneyWithoutMealIsShown, EverPaid, InPaymentQueue, TypeOK, OrderTypes, PaymentTypes
  <1>3. ASSUME NEW o \in Order, CancelOrder(o) PROVE OrderInv'
    BY <1>3 DEF CancelOrder, noteHistory, paymentVars, NothingBeforePlaced, NotedIsShown,
       MoneyNoteMeansPaid, MoneyWithoutMealIsShown, EverPaid, InPaymentQueue, TypeOK, OrderTypes
  <1>4. ASSUME NEW o \in Order, ConfirmCounterPayment(o) PROVE OrderInv'
    BY <1>4 DEF ConfirmCounterPayment, MarkPaid, SendToKitchen, ConfirmPendingOrder, noteHistory,
       NothingBeforePlaced, NotedIsShown, MoneyNoteMeansPaid, MoneyWithoutMealIsShown, EverPaid,
       InPaymentQueue, TypeOK, OrderTypes, PaymentTypes
  <1>5. ASSUME NEW o \in Order, HandOverOrder(o) PROVE OrderInv'
    BY <1>5 DEF HandOverOrder, noteHistory, paymentVars, NothingBeforePlaced, NotedIsShown,
       MoneyNoteMeansPaid, MoneyWithoutMealIsShown, EverPaid, InPaymentQueue, TypeOK, OrderTypes
  <1>6. ASSUME NEW o \in Order, CancelKitchenOrder(o) PROVE OrderInv'
    <2> DEFINE entry == [kind |-> "kitchenCancel"]
    <2>1. NeedsAttention(o, entry) /\ entry \in NoteEntry /\ entry \notin MoneyNote
      BY <1>6 DEF CancelKitchenOrder, NoteEntry, PlainNote, MoneyNote
    <2>2. /\ flagged' = [flagged EXCEPT ![o] = TRUE] /\ note'[o] # <<>>
          /\ \A p \in Order : p # o => note'[p] = note[p]
          /\ \A e \in NoteEntry : Mentions(note'[o], e) =>
                 Mentions(note[o], e) \/ e = entry \/ e = TooLong
      BY <2>1, AttentionEffect
    <2>3. \A e \in MoneyNote : e \in NoteEntry /\ e # TooLong
      BY DEF MoneyNote, NoteEntry, TooLong
    <2>4. /\ status' = [status EXCEPT ![o] = "cancelled"]
          /\ UNCHANGED <<payStatus, paidBy, staffSettled>>
      BY <1>6 DEF CancelKitchenOrder, paymentVars
    <2>5. MoneyNoteMeansPaid'
      BY <2>1, <2>2, <2>3, <2>4 DEF MoneyNoteMeansPaid, EverPaid
    <2> QED BY <2>2, <2>4, <2>5 DEF NothingBeforePlaced, NotedIsShown, MoneyWithoutMealIsShown,
          EverPaid, InPaymentQueue, TypeOK, OrderTypes, NoteTypes
  <1>7. ASSUME NEW r \in Request, MarkAttentionSortedOut(r) PROVE OrderInv'
    <2> DEFINE o == call[r].order
    <2>1. o \in Order /\ status[o] # "none"
      BY <1>0, <1>7, CallKinds DEF MarkAttentionSortedOut, SortOutCall, TypeOK, CallTypes, Idle
    <2>2. /\ staffSettled' = [staffSettled EXCEPT ![o] = TRUE]
          /\ \A p \in Order : p # o => /\ flagged'[p] = flagged[p] /\ note'[p] = note[p]
                                       /\ payStatus'[p] = payStatus[p]
          /\ note'[o] = note[o] \/ note'[o] = Append(note[o], [kind |-> "placedAgain"])
          /\ UNCHANGED <<status, paidBy>>
      BY <1>7, <2>1 DEF MarkAttentionSortedOut, TypeOK, NoteTypes, PaymentTypes
    <2>3. \A e \in MoneyNote : Mentions(note'[o], e) => Mentions(note[o], e)
      <3>1. \A e \in MoneyNote : e # [kind |-> "placedAgain"]
        BY DEF MoneyNote
      <3>2. note[o] \in Seq(NoteEntry)
        BY <2>1 DEF TypeOK, NoteTypes
      <3>3. CASE note'[o] = note[o]
        BY <3>3 DEF Mentions
      <3>4. CASE note'[o] = Append(note[o], [kind |-> "placedAgain"])
        <4>1. /\ DOMAIN note'[o] = 1 .. (Len(note[o]) + 1)
              /\ DOMAIN note[o] = 1 .. Len(note[o]) /\ Len(note[o]) \in Nat
              /\ \A k \in 1 .. Len(note[o]) : note'[o][k] = note[o][k]
              /\ note'[o][Len(note[o]) + 1] = [kind |-> "placedAgain"]
          BY <3>2, <3>4
        <4>2. \A k \in DOMAIN note'[o] : k \in DOMAIN note[o] \/ k = Len(note[o]) + 1
          BY <4>1
        <4> QED BY <3>1, <4>1, <4>2 DEF Mentions
      <3> QED BY <2>2, <3>3, <3>4
    <2>4. NothingBeforePlaced' /\ NotedIsShown'
      BY <2>1, <2>2 DEF NothingBeforePlaced, NotedIsShown, TypeOK, CallTypes
    <2>5. MoneyNoteMeansPaid'
      BY <2>1, <2>2, <2>3 DEF MoneyNoteMeansPaid, EverPaid
    <2>6. MoneyWithoutMealIsShown'
      BY <2>1, <2>2 DEF MoneyWithoutMealIsShown, EverPaid, InPaymentQueue, TypeOK, CallTypes
    <2> QED BY <2>4, <2>5, <2>6
  <1>8. ASSUME NEW r \in Request, SaveQrPhCode(r) \/ FallBackToCounter(r) PROVE OrderInv'
    <2>1. call[r].order \in Order /\ status[call[r].order] # "none"
      BY <1>0, <1>8, CallKinds
      DEF SaveQrPhCode, FallBackToCounter, CreateQrCall, OnOrder, TypeOK, CallTypes, Idle
    <2>2. /\ \A p \in Order : p # call[r].order => payStatus'[p] = payStatus[p]
          /\ UNCHANGED <<status, paidBy, note, flagged, staffSettled>>
      BY <1>8, <2>1 DEF SaveQrPhCode, FallBackToCounter, orderVars, noteHistory, TypeOK, PaymentTypes
    <2> QED BY <2>1, <2>2 DEF NothingBeforePlaced, NotedIsShown, MoneyNoteMeansPaid,
          MoneyWithoutMealIsShown, EverPaid, InPaymentQueue
  <1>9. ASSUME NEW r \in Request, FlagForStaff(r) PROVE OrderInv'
    <2>1. call[r] \in AddNoteCall /\ call[r] # Idle
      BY <1>9, CallKinds DEF FlagForStaff, TypeOK, CallTypes, Idle
    <2>2. call[r].order \in Order /\ call[r].entry \in NoteEntry /\ call[r].entry \notin MoneyNote
      BY <2>1 DEF AddNoteCall, PaymentNote, NoteEntry, MoneyNote
    <2>3. /\ AddNoteForStaff(call[r].order, call[r].entry)
          /\ UNCHANGED <<status, staffSettled, paidBy, payStatus>>
      BY <1>9 DEF FlagForStaff, paymentVars
    <2> QED BY <1>0, <2>1, <2>2, <2>3, NotingKeepsOrderInv DEF TypeOK, PaymentTypes
  <1>10. ASSUME NEW r \in Request, RecordWrongAmount(r) PROVE OrderInv'
    <2> DEFINE c == call[r]
               entry == [kind |-> "wrongAmount", intent |-> c.intent, total |-> c.total]
    <2>1. c \in RecordCall /\ c # Idle
      BY <1>10, CallKinds DEF RecordWrongAmount, TypeOK, CallTypes, Idle
    <2>2. c.order \in Order /\ entry \in NoteEntry /\ entry \notin MoneyNote
      BY <2>1 DEF RecordCall, AmountNote, NoteEntry, MoneyNote
    <2>3. /\ AddNoteForStaff(c.order, entry)
          /\ UNCHANGED <<status, staffSettled, paidBy, payStatus>>
      BY <1>10 DEF RecordWrongAmount, paymentVars
    <2> QED BY <1>0, <2>1, <2>2, <2>3, NotingKeepsOrderInv DEF TypeOK, PaymentTypes
  <1>11. ASSUME NEW r \in Request, RecordPayment(r) PROVE OrderInv'
    <2> DEFINE o == call[r].order
    <2>1. call[r] \in RecordCall
      BY <1>11, CallKinds DEF RecordPayment, TypeOK, CallTypes
    <2>2. o \in Order /\ call[r].intent \in Intent
      BY <2>1 DEF RecordCall
    <2>3. /\ status' = [status EXCEPT ![o] = "confirmed"]
          /\ paidBy' = [paidBy EXCEPT ![o] = call[r].intent]
          /\ UNCHANGED <<note, flagged, staffSettled>>
          /\ \A p \in Order : p # o => payStatus'[p] = payStatus[p]
      BY <1>11, <2>2 DEF RecordPayment, MarkPaidOnline, MarkPaid, SendToKitchen,
         ConfirmPendingOrder, noteHistory, TypeOK, PaymentTypes
    <2> QED BY <2>2, <2>3, ConstantsAssumption DEF NothingBeforePlaced, NotedIsShown,
          MoneyNoteMeansPaid, MoneyWithoutMealIsShown, EverPaid, InPaymentQueue, TypeOK,
          OrderTypes, PaymentTypes
  <1>12. ASSUME NEW r \in Request, RecordForStaff(r) PROVE OrderInv'
    <2> DEFINE c == call[r]
    <2>1. c \in FlagPaidCall /\ c # Idle
      BY <1>12, CallKinds DEF RecordForStaff, TypeOK, CallTypes, Idle
    <2>2. /\ c.order \in Order /\ c.intent \in Intent
          /\ c.why \in NoteEntry /\ status[c.order] # "none"
      BY <1>0, <2>1 DEF FlagPaidCall, NoteEntry
    <2>3. UNCHANGED <<status, staffSettled>>
      BY <1>12 DEF RecordForStaff
    <2>4. CASE UNCHANGED <<paymentVars, paidBy, flagged, note, raised>>
      BY <2>3, <2>4 DEF paymentVars, NothingBeforePlaced, NotedIsShown, MoneyNoteMeansPaid,
         MoneyWithoutMealIsShown, EverPaid, InPaymentQueue
    <2>5. CASE MarkPaidOnline(c) /\ AddNoteForStaff(c.order, c.why)
      <3>1. /\ paidBy' = [paidBy EXCEPT ![c.order] = c.intent]
            /\ \A p \in Order : p # c.order => payStatus'[p] = payStatus[p]
        BY <2>2, <2>5 DEF MarkPaidOnline, MarkPaid, TypeOK, PaymentTypes
      <3>2. /\ paidBy' \in [Order -> Intent \cup {"none", "counter"}]
            /\ paidBy'[c.order] # "none"
            /\ \A p \in Order : p # c.order => paidBy'[p] = paidBy[p]
        BY <2>2, <3>1, ConstantsAssumption DEF TypeOK, PaymentTypes
      <3> QED BY <2>2, <2>3, <2>5, <3>1, <3>2, NotingKeepsOrderInv
    <2> QED BY <1>12, <2>4, <2>5 DEF RecordForStaff, RecordMoneyForStaff
  <1>13. ASSUME NEW r \in Request, SyncOrderStatus(r) PROVE OrderInv'
    <2>1. call[r].order \in Order /\ call[r].next \in InKitchen
      BY <1>13, CallKinds DEF SyncOrderStatus, SyncStatusCall, TypeOK, CallTypes
    <2>2. \A p \in Order : \/ status'[p] = status[p]
                           \/ status[p] \in InKitchen /\ status'[p] \in InKitchen
      BY <1>13, <2>1 DEF SyncOrderStatus, TypeOK, OrderTypes
    <2>3. UNCHANGED <<paidBy, payStatus, note, flagged, staffSettled>>
      BY <1>13 DEF SyncOrderStatus, paymentVars, noteHistory
    <2> QED BY <2>2, <2>3 DEF InKitchen, NothingBeforePlaced, NotedIsShown, MoneyNoteMeansPaid,
          MoneyWithoutMealIsShown, EverPaid, InPaymentQueue
  <1>14. CASE UNCHANGED vars
    BY <1>1, <1>14 DEF vars, orderVars, paymentVars, noteHistory
  <1> QED BY <1>1, <1>2, <1>3, <1>4, <1>5, <1>6, <1>7, <1>8, <1>9, <1>10, <1>11, <1>12, <1>13,
            <1>14, OrderSteps

-----------------------------------------------------------------------------
(* Orders and the kitchen.                                                   *)

\* The handlers that change what KitchenInv is about.
LEMMA KitchenSteps ==
    ASSUME Next
    PROVE  \/ UNCHANGED <<status, cancelReason, entries, task>>
           \/ \E o \in Order : CreateOrder(o) \/ CancelOrder(o) \/ ConfirmCounterPayment(o)
                               \/ HandOverOrder(o) \/ CancelKitchenOrder(o)
           \/ \E r \in Request : \/ WriteItem(r) \/ RecordPayment(r) \/ WriteTask(r)
                                 \/ SyncOrderStatus(r)
  <1> USE DEF orderVars, stockVars
  <1>1. CASE OrderServiceNext
    BY <1>1 DEF OrderServiceNext, BeginEditItem, ReadAttentionNote, ReadItems, WriteTotal,
       MarkAttentionSortedOut, RefuseSortedOut
  <1>2. CASE PaymentServiceNext
    BY <1>2 DEF PaymentServiceNext, CustomerPays, ReceiveWebhook, BeginQrPhPayment,
       BeginSwitchToCounter, BeginPoll, SaveQrPhCode, QrPhCodeFails, FallBackToCounter,
       SwitchToCounter, FlagForStaff, PollFindsNothing, RecordWrongAmount, RecordAlreadyPaid,
       RecordRollsBack, RecordForStaff
  <1>3. CASE KitchenServiceNext
    BY <1>3 DEF KitchenServiceNext, BeginUpdateTask, ReadTasks
  <1>4. CASE \E d \in Dish : AdjustStock(d)
    BY <1>4 DEF AdjustStock
  <1>5. CASE \E r \in Request : Crash(r)
    BY <1>5 DEF Crash
  <1> QED BY <1>1, <1>2, <1>3, <1>4, <1>5 DEF Next

\* A pending order that is sent to the kitchen was never sent before.
LEMMA SendingKeepsKitchenInv ==
    ASSUME TypeOK, KitchenInv, NEW o \in Order, SendToKitchen(o), UNCHANGED cancelReason
    PROVE  KitchenInv'
  <1>1. /\ status[o] = "pending" /\ status' = [status EXCEPT ![o] = "confirmed"]
        /\ entries' = [entries EXCEPT ![o] = @ + 1]
        /\ \A p \in Order : p # o => task'[p] = task[p]
    BY DEF SendToKitchen, ConfirmPendingOrder, CreateKitchenTasksForOrder, TypeOK, StockTypes
  <1>2. ~cancelReason[o] /\ entries[o] = 0
    <2>1. ~cancelReason[o]
      BY <1>1 DEF KitchenInv, KitchenCancels
    <2>2. entries[o] \in Nat /\ entries[o] <= 1
      BY DEF KitchenInv, ReachesKitchenOnce, TypeOK, StockTypes
    <2>3. entries[o] # 1
      BY <1>1, <2>1 DEF KitchenInv, ReachesKitchenOnce, InKitchen
    <2> QED BY <2>1, <2>2, <2>3
  <1>3. KitchenCancels'
    BY <1>1, <1>2 DEF KitchenInv, KitchenCancels, TypeOK, OrderTypes
  <1>4. ReachesKitchenOnce'
    BY <1>1, <1>2 DEF KitchenInv, ReachesKitchenOnce, InKitchen, Tasks, TypeOK, OrderTypes, StockTypes
  <1> QED BY <1>3, <1>4 DEF KitchenInv

\* Every handler's step keeps an order to at most one entry to the kitchen.
LEMMA KitchenInvStep == TypeOK /\ KitchenInv /\ [Next]_vars => KitchenInv'
  <1> SUFFICES ASSUME TypeOK, KitchenInv, [Next]_vars PROVE KitchenInv'
    OBVIOUS
  <1> USE DEF KitchenInv, KitchenCancels, ReachesKitchenOnce
  <1>1. CASE UNCHANGED <<status, cancelReason, entries, task>>
    BY <1>1 DEF Tasks
  <1>2. ASSUME NEW o \in Order, CreateOrder(o) PROVE KitchenInv'
    BY <1>2 DEF CreateOrder, stockVars, Tasks, InKitchen, TypeOK, OrderTypes
  <1>3. ASSUME NEW o \in Order, CancelOrder(o) PROVE KitchenInv'
    BY <1>3 DEF CancelOrder, stockVars, Tasks, InKitchen, TypeOK, OrderTypes
  <1>4. ASSUME NEW o \in Order, ConfirmCounterPayment(o) PROVE KitchenInv'
    BY <1>4, SendingKeepsKitchenInv DEF ConfirmCounterPayment
  <1>5. ASSUME NEW o \in Order, HandOverOrder(o) PROVE KitchenInv'
    BY <1>5 DEF HandOverOrder, stockVars, Tasks, InKitchen, TypeOK, OrderTypes
  <1>6. ASSUME NEW o \in Order, CancelKitchenOrder(o) PROVE KitchenInv'
    BY <1>6 DEF CancelKitchenOrder, Tasks, InKitchen, TypeOK, OrderTypes
  <1>7. ASSUME NEW r \in Request, WriteItem(r) PROVE KitchenInv'
    <2>1. /\ call[r].order \in Order /\ call[r].dish \in Dish
          /\ \/ task' = task
             \/ task' = [task EXCEPT ![call[r].order] = [@ EXCEPT ![call[r].dish] = "none"]]
          /\ UNCHANGED <<status, cancelReason, entries>>
      BY <1>7, CallKinds DEF WriteItem, EditCall, TypeOK, CallTypes
    <2>2. \A p \in Order : Tasks(p)' \subseteq Tasks(p)
      BY <2>1 DEF Tasks, TypeOK, StockTypes
    <2> QED BY <2>1, <2>2 DEF InKitchen
  <1>8. ASSUME NEW r \in Request, RecordPayment(r) PROVE KitchenInv'
    BY <1>8, CallKinds, SendingKeepsKitchenInv DEF RecordPayment, RecordCall, TypeOK, CallTypes
  <1>9. ASSUME NEW r \in Request, WriteTask(r) PROVE KitchenInv'
    <2>1. /\ call[r].order \in Order
          /\ \/ task' = task
             \/ /\ call[r].dish \in Tasks(call[r].order)
                /\ \A p \in Order : p # call[r].order => task'[p] = task[p]
          /\ UNCHANGED <<status, cancelReason, entries>>
      BY <1>9, CallKinds DEF WriteTask, SetTaskCall, orderVars, TypeOK, CallTypes, StockTypes
    <2>2. \A p \in Order : Tasks(p) = {} => Tasks(p)' = {}
      BY <2>1 DEF Tasks
    <2> QED BY <2>1, <2>2 DEF InKitchen
  <1>10. ASSUME NEW r \in Request, SyncOrderStatus(r) PROVE KitchenInv'
    <2>1. call[r].order \in Order /\ call[r].next \in InKitchen
      BY <1>10, CallKinds DEF SyncOrderStatus, SyncStatusCall, TypeOK, CallTypes
    <2>2. \A p \in Order : \/ status'[p] = status[p]
                           \/ status[p] \in InKitchen /\ status'[p] \in InKitchen
      BY <1>10, <2>1 DEF SyncOrderStatus, TypeOK, OrderTypes
    <2>3. UNCHANGED <<cancelReason, entries, task>>
      BY <1>10 DEF SyncOrderStatus, stockVars
    <2> QED BY <2>2, <2>3 DEF InKitchen, Tasks
  <1>11. CASE UNCHANGED vars
    BY <1>1, <1>11 DEF vars, orderVars, stockVars
  <1> QED BY <1>1, <1>2, <1>3, <1>4, <1>5, <1>6, <1>7, <1>8, <1>9, <1>10, <1>11, KitchenSteps

-----------------------------------------------------------------------------
(* Requests, intents and the orders they are about.                          *)

\* An order once placed stays placed.
LEMMA PlacedStaysPlaced ==
    ASSUME TypeOK, Next, NEW o \in Order, status[o] # "none"
    PROVE  status'[o] # "none"
  <1>1. CASE UNCHANGED status
    BY <1>1
  <1>2. CASE UNCHANGED <<status, paidBy, payStatus, note, flagged, staffSettled>>
    BY <1>1, <1>2
  <1>3. ASSUME NEW p \in Order, CreateOrder(p) \/ CancelOrder(p) \/ ConfirmCounterPayment(p)
                                \/ HandOverOrder(p) \/ CancelKitchenOrder(p)
        PROVE  status'[o] # "none"
    BY <1>3 DEF CreateOrder, CancelOrder, ConfirmCounterPayment, SendToKitchen,
       ConfirmPendingOrder, HandOverOrder, CancelKitchenOrder, TypeOK, OrderTypes
  <1>4. ASSUME NEW r \in Request, RecordPayment(r) PROVE status'[o] # "none"
    BY <1>4 DEF RecordPayment, SendToKitchen, ConfirmPendingOrder, TypeOK, OrderTypes
  <1>5. ASSUME NEW r \in Request, SyncOrderStatus(r) PROVE status'[o] # "none"
    BY <1>5, CallKinds DEF SyncOrderStatus, SyncStatusCall, InKitchen, TypeOK, OrderTypes, CallTypes
  <1>6. ASSUME NEW r \in Request,
               \/ MarkAttentionSortedOut(r) \/ SaveQrPhCode(r) \/ FallBackToCounter(r)
               \/ FlagForStaff(r) \/ RecordWrongAmount(r) \/ RecordForStaff(r)
        PROVE  UNCHANGED status
    BY <1>6 DEF MarkAttentionSortedOut, SaveQrPhCode, FallBackToCounter, FlagForStaff,
       RecordWrongAmount, RecordForStaff, orderVars
  <1> QED BY <1>1, <1>2, <1>3, <1>4, <1>5, <1>6, OrderSteps

\* The note of an order grows, or is cut already, or nothing is raised.
LEMMA NoteSteps ==
    ASSUME TypeOK, Next, NEW p \in Order
    PROVE  \/ note'[p] = note[p] /\ raised'[p] = raised[p]
           \/ Len(note[p]) < Len(note'[p])
           \/ note'[p] = note[p] /\ IsCut(note[p])
  <1> DEFINE Goal == \/ note'[p] = note[p] /\ raised'[p] = raised[p]
                     \/ Len(note[p]) < Len(note'[p])
                     \/ note'[p] = note[p] /\ IsCut(note[p])
  <1>1. ASSUME NEW o \in Order, NEW entry \in NoteEntry, NeedsAttention(o, entry) PROVE Goal
    BY <1>1, AttentionEffect
  <1>2. ASSUME NEW o \in Order, NEW entry \in NoteEntry, AddNoteForStaff(o, entry) PROVE Goal
    BY <1>1, <1>2 DEF AddNoteForStaff
  <1>3. CASE UNCHANGED <<note, raised>>
    BY <1>3
  <1>4. CASE OrderServiceNext
    <2>1. ASSUME NEW r \in Request, MarkAttentionSortedOut(r) PROVE Goal
      <3>1. /\ note[p] \in Seq(NoteEntry) /\ raised'[p] = raised[p]
            /\ note'[p] = note[p] \/ note'[p] = Append(note[p], [kind |-> "placedAgain"])
        BY <2>1 DEF MarkAttentionSortedOut, TypeOK, NoteTypes
      <3>2. Len(Append(note[p], [kind |-> "placedAgain"])) = Len(note[p]) + 1 /\ Len(note[p]) \in Nat
        BY <3>1
      <3> QED BY <3>1, <3>2
    <2> QED BY <1>3, <1>4, <2>1 DEF OrderServiceNext, CreateOrder, CancelOrder, BeginEditItem,
          ReadAttentionNote, WriteItem, ReadItems, WriteTotal, RefuseSortedOut, orderVars, noteHistory
  <1>5. CASE PaymentServiceNext
    <2>1. ASSUME NEW r \in Request, FlagForStaff(r) PROVE Goal
      BY <1>2, <2>1, CallKinds DEF FlagForStaff, AddNoteCall, NoteEntry, TypeOK, CallTypes
    <2>2. ASSUME NEW r \in Request, RecordWrongAmount(r) PROVE Goal
      BY <1>2, <2>2, CallKinds DEF RecordWrongAmount, RecordCall, AmountNote, NoteEntry, TypeOK,
         CallTypes
    <2>3. ASSUME NEW r \in Request, RecordForStaff(r) PROVE Goal
      BY <1>2, <1>3, <2>3, CallKinds DEF RecordForStaff, RecordMoneyForStaff, FlagPaidCall,
         NoteEntry, TypeOK, CallTypes
    <2> QED BY <1>3, <1>5, <2>1, <2>2, <2>3 DEF PaymentServiceNext, ConfirmCounterPayment,
          CustomerPays, ReceiveWebhook, BeginQrPhPayment, BeginSwitchToCounter, BeginPoll,
          SaveQrPhCode, QrPhCodeFails, FallBackToCounter, SwitchToCounter, PollFindsNothing,
          RecordPayment, RecordAlreadyPaid, RecordRollsBack, orderVars, noteHistory
  <1>6. CASE KitchenServiceNext
    <2>1. ASSUME NEW o \in Order, CancelKitchenOrder(o) PROVE Goal
      BY <1>1, <2>1 DEF CancelKitchenOrder, NoteEntry, PlainNote
    <2> QED BY <1>3, <1>6, <2>1 DEF KitchenServiceNext, HandOverOrder, BeginUpdateTask, WriteTask,
          ReadTasks, SyncOrderStatus, orderVars, noteHistory
  <1>7. CASE \E d \in Dish : AdjustStock(d)
    BY <1>3, <1>7 DEF AdjustStock, orderVars, noteHistory
  <1>8. CASE \E r \in Request : Crash(r)
    BY <1>3, <1>8 DEF Crash, orderVars, noteHistory
  <1> QED BY <1>4, <1>5, <1>6, <1>7, <1>8 DEF Next

\* A request ends, goes on about the same order, or begins about one placed;
\* only Mark as sorted out begins with what was raised.
Continues(r) ==
    \/ call'[r] = Idle
    \/ call'[r] = call[r] /\ seen'[r] = seen[r]
    \/ call[r] # Idle /\ call'[r].order = call[r].order /\ call'[r].op # "sortOut"
    \/ /\ call'[r].order \in Order /\ status[call'[r].order] # "none"
       /\ call'[r].op = "sortOut" => /\ call'[r].note = note[call'[r].order]
                                     /\ seen'[r] = raised[call'[r].order]
                                     /\ UNCHANGED <<note, raised>>

\* Whatever step is taken, every request continues in one of these ways.
LEMMA CallSteps ==
    ASSUME TypeOK, OrderInv, KitchenInv, AboutPlacedOrders, Next, NEW r \in Request
    PROVE  Continues(r)
  <1> USE DEF TypeOK, CallTypes
  <1>1. CASE call' = call /\ seen' = seen
    BY <1>1 DEF Continues
  <1>2. ASSUME NEW q \in Request, Return(q), q # r => seen'[r] = seen[r] PROVE Continues(r)
    BY <1>2 DEF Return, Continues
  <1>3. ASSUME NEW q \in Request, NEW c, Begin(q, c) \/ GoOn(q, c), seen' = seen,
               c.op # "sortOut",
               \/ c.order \in Order /\ status[c.order] # "none"
               \/ call[q] # Idle /\ c.order = call[q].order
        PROVE  Continues(r)
    BY <1>3 DEF Begin, GoOn, Continues
  <1>4. CASE OrderServiceNext
    <2>1. ASSUME NEW q \in Request, NEW o \in Order, BeginEditItem(q, o) PROVE Continues(r)
      <3>1. PICK d \in Dish, n \in EditQty :
              Begin(q, [op |-> "edit", order |-> o, dish |-> d, qty |-> n])
        BY <2>1 DEF BeginEditItem
      <3> QED BY <1>3, <2>1, <3>1 DEF BeginEditItem, AssertOrderIsPending, noteHistory
    <2>2. ASSUME NEW q \in Request, NEW o \in Order, ReadAttentionNote(q, o) PROVE Continues(r)
      <3>1. status[o] # "none"
        BY <2>2 DEF ReadAttentionNote, OrderInv, NothingBeforePlaced
      <3> QED BY <2>2, <3>1 DEF ReadAttentionNote, Begin, Continues, orderVars
    <2>3. ASSUME NEW q \in Request, WriteItem(q) PROVE Continues(r)
      BY <1>2, <1>3, <2>3 DEF WriteItem, Idle, noteHistory
    <2>4. ASSUME NEW q \in Request, ReadItems(q) PROVE Continues(r)
      BY <1>3, <2>4 DEF ReadItems, Idle, noteHistory
    <2>5. ASSUME NEW q \in Request, WriteTotal(q) PROVE Continues(r)
      BY <1>2, <2>5 DEF WriteTotal, noteHistory
    <2>6. ASSUME NEW q \in Request, MarkAttentionSortedOut(q) \/ RefuseSortedOut(q) PROVE Continues(r)
      BY <1>2, <2>6 DEF MarkAttentionSortedOut, RefuseSortedOut
    <2> QED BY <1>1, <1>4, <2>1, <2>2, <2>3, <2>4, <2>5, <2>6
          DEF OrderServiceNext, CreateOrder, CancelOrder, noteHistory
  <1>5. CASE PaymentServiceNext
    <2>1. ASSUME NEW q \in Request, NEW o \in Order, BeginQrPhPayment(q, o) PROVE Continues(r)
      <3>1. \/ Begin(q, [op |-> "createQr", order |-> o, amount |-> total[o]])
            \/ Begin(q, [op |-> "fallBack", order |-> o])
        BY <2>1 DEF BeginQrPhPayment
      <3> QED BY <1>3, <2>1, <3>1 DEF BeginQrPhPayment, Payable, noteHistory
    <2>2. ASSUME NEW q \in Request, NEW o \in Order, BeginSwitchToCounter(q, o) PROVE Continues(r)
      BY <1>3, <2>2 DEF BeginSwitchToCounter, Payable, noteHistory
    <2>3. ASSUME NEW q \in Request, NEW o \in Order, BeginPoll(q, o) PROVE Continues(r)
      <3>1. status[o] # "none"
        BY <2>3 DEF BeginPoll, OrderInv, NothingBeforePlaced
      <3> QED BY <1>3, <2>3, <3>1 DEF BeginPoll, noteHistory
    <2>4. ASSUME NEW q \in Request, NEW i \in Intent, ReceiveWebhook(q, i) PROVE Continues(r)
      <3> DEFINE o == intentOrder[i]
                 AddTheNote(kind) == [op |-> "addNote", order |-> o, intent |-> i,
                                      entry |-> [kind |-> kind, intent |-> i]]
                 Record == [op |-> "record", order |-> o, intent |-> i, total |-> total[o],
                            via |-> "webhook"]
      <3>1. o \in Order /\ status[o] # "none"
        BY <2>4 DEF ReceiveWebhook, AboutPlacedOrders, IntentTypes
      <3>2. seen' = seen
        BY <2>4 DEF ReceiveWebhook, noteHistory
      <3>3. \/ call' = call
            \/ Begin(q, AddTheNote("secondPayment")) \/ Begin(q, AddTheNote("noAmount"))
            \/ Begin(q, Record)
        BY <2>4 DEF ReceiveWebhook
      <3> QED BY <1>1, <1>3, <3>1, <3>2, <3>3
    <2>5. ASSUME NEW q \in Request, RecordRollsBack(q) PROVE Continues(r)
      BY <1>3, <2>5 DEF RecordRollsBack, Idle, noteHistory
    <2>6. ASSUME NEW q \in Request,
                 \/ SaveQrPhCode(q) \/ QrPhCodeFails(q) \/ FallBackToCounter(q) \/ SwitchToCounter(q)
                 \/ FlagForStaff(q) \/ PollFindsNothing(q) \/ RecordWrongAmount(q)
                 \/ RecordPayment(q) \/ RecordAlreadyPaid(q) \/ RecordForStaff(q)
          PROVE  Continues(r)
      BY <1>2, <2>6 DEF SaveQrPhCode, QrPhCodeFails, FallBackToCounter, SwitchToCounter,
         FlagForStaff, PollFindsNothing, RecordWrongAmount, RecordPayment, RecordAlreadyPaid,
         RecordForStaff, noteHistory
    <2> QED BY <1>1, <1>5, <2>1, <2>2, <2>3, <2>4, <2>5, <2>6
          DEF PaymentServiceNext, ConfirmCounterPayment, CustomerPays, noteHistory
  <1>6. CASE KitchenServiceNext
    <2>1. ASSUME NEW q \in Request, NEW o \in Order, BeginUpdateTask(q, o) PROVE Continues(r)
      <3>1. Tasks(o) # {} /\ seen' = seen
        BY <2>1 DEF BeginUpdateTask, noteHistory
      <3>2. entries[o] = 1
        <4>1. entries[o] \in Nat /\ entries[o] <= 1
          BY DEF KitchenInv, ReachesKitchenOnce, StockTypes
        <4>2. entries[o] # 0
          BY <3>1 DEF KitchenInv, ReachesKitchenOnce
        <4> QED BY <4>1, <4>2
      <3>3. status[o] # "none"
        BY <3>2 DEF KitchenInv, KitchenCancels, ReachesKitchenOnce, InKitchen
      <3>4. PICK d \in Tasks(o), to \in TaskStatus :
              Begin(q, [op |-> "setTask", order |-> o, dish |-> d, to |-> to])
        BY <2>1 DEF BeginUpdateTask
      <3> QED BY <1>3, <3>1, <3>3, <3>4
    <2>2. ASSUME NEW q \in Request, WriteTask(q) PROVE Continues(r)
      BY <1>2, <1>3, <2>2 DEF WriteTask, Idle, noteHistory
    <2>3. ASSUME NEW q \in Request, ReadTasks(q) PROVE Continues(r)
      BY <1>2, <1>3, <2>3 DEF ReadTasks, Idle, noteHistory
    <2>4. ASSUME NEW q \in Request, SyncOrderStatus(q) PROVE Continues(r)
      BY <1>2, <2>4 DEF SyncOrderStatus, noteHistory
    <2> QED BY <1>1, <1>6, <2>1, <2>2, <2>3, <2>4
          DEF KitchenServiceNext, HandOverOrder, CancelKitchenOrder, noteHistory
  <1>7. CASE \E d \in Dish : AdjustStock(d)
    BY <1>1, <1>7 DEF AdjustStock, noteHistory
  <1>8. CASE \E q \in Request : Crash(q)
    BY <1>2, <1>8 DEF Crash, noteHistory
  <1> QED BY <1>4, <1>5, <1>6, <1>7, <1>8 DEF Next

\* Every step keeps what requests halfway remember true of the orders they are about.
LEMMA RequestInvStep ==
    TypeOK /\ OrderInv /\ KitchenInv /\ RequestInv /\ [Next]_vars => RequestInv'
  <1> SUFFICES ASSUME TypeOK, OrderInv, KitchenInv, RequestInv, [Next]_vars PROVE RequestInv'
    OBVIOUS
  <1> USE DEF RequestInv
  <1>1. CASE Next
    <2>1. \A r \in Request : Continues(r)
      BY <1>1, CallSteps
    <2>2. \A r \in Request : call[r] # Idle => call[r].order \in Order
      BY CallKinds DEF TypeOK, CallTypes, Calls, OnOrder, CreateQrCall, RecordCall, FlagPaidCall,
         AddNoteCall, SortOutCall, EditCall, WriteTotalCall, SetTaskCall, SyncStatusCall
    <2>3. \A r \in Request : call'[r] # Idle => status'[call'[r].order] # "none"
      BY <1>1, <2>1, <2>2, PlacedStaysPlaced DEF AboutPlacedOrders, Continues
    <2>4. ASSUME NEW i \in Intent, intentState'[i] # "unused" PROVE status'[intentOrder'[i]] # "none"
      <3>1. CASE UNCHANGED <<intentState, intentOrder>>
        BY <1>1, <2>4, <3>1, PlacedStaysPlaced DEF AboutPlacedOrders, TypeOK, IntentTypes
      <3>2. ASSUME NEW j \in Intent, CustomerPays(j) PROVE status'[intentOrder'[i]] # "none"
        BY <1>1, <2>4, <3>2, PlacedStaysPlaced DEF CustomerPays, AboutPlacedOrders, TypeOK, IntentTypes
      <3>3. ASSUME NEW r \in Request, SaveQrPhCode(r) PROVE status'[intentOrder'[i]] # "none"
        <4>1. call[r].order \in Order /\ call[r] # Idle
          BY <2>2, <3>3 DEF SaveQrPhCode, Idle
        <4>2. PICK j \in Intent : /\ intentState' = [intentState EXCEPT ![j] = "open"]
                                  /\ intentOrder' = [intentOrder EXCEPT ![j] = call[r].order]
          BY <3>3 DEF SaveQrPhCode
        <4>3. \/ intentOrder'[i] = call[r].order
              \/ intentOrder'[i] = intentOrder[i] /\ intentState[i] # "unused"
          BY <2>4, <4>2 DEF TypeOK, IntentTypes
        <4> QED BY <1>1, <4>1, <4>3, PlacedStaysPlaced DEF AboutPlacedOrders, TypeOK, IntentTypes
      <3>4. \/ UNCHANGED <<intentState, intentOrder>>
            \/ \E j \in Intent : CustomerPays(j)
            \/ \E r \in Request : SaveQrPhCode(r)
        <4> USE DEF intentVars
        <4>1. CASE OrderServiceNext
          BY <4>1 DEF OrderServiceNext, CreateOrder, CancelOrder, BeginEditItem, ReadAttentionNote,
             WriteItem, ReadItems, WriteTotal, MarkAttentionSortedOut, RefuseSortedOut
        <4>2. CASE PaymentServiceNext
          BY <4>2 DEF PaymentServiceNext, ConfirmCounterPayment, ReceiveWebhook, BeginQrPhPayment,
             BeginSwitchToCounter, BeginPoll, QrPhCodeFails, FallBackToCounter, SwitchToCounter,
             FlagForStaff, PollFindsNothing, RecordWrongAmount, RecordPayment, RecordAlreadyPaid,
             RecordRollsBack, RecordForStaff
        <4>3. CASE KitchenServiceNext
          BY <4>3 DEF KitchenServiceNext, HandOverOrder, CancelKitchenOrder, BeginUpdateTask,
             WriteTask, ReadTasks, SyncOrderStatus
        <4>4. CASE \E d \in Dish : AdjustStock(d)
          BY <4>4 DEF AdjustStock
        <4>5. CASE \E r \in Request : Crash(r)
          BY <4>5 DEF Crash
        <4> QED BY <1>1, <4>1, <4>2, <4>3, <4>4, <4>5 DEF Next
      <3> QED BY <3>1, <3>2, <3>3, <3>4
    <2>5. ASSUME NEW r \in Request, call'[r].op = "sortOut"
          PROVE  /\ Len(call'[r].note) <= Len(note'[call'[r].order])
                 /\ call'[r].note = note'[call'[r].order] /\ ~IsCut(note'[call'[r].order]) =>
                      seen'[r] = raised'[call'[r].order]
      <3> DEFINE o == call'[r].order
      <3>1. CASE call'[r] = call[r] /\ seen'[r] = seen[r]
        <4>1. /\ o \in Order /\ Len(call[r].note) \in Nat /\ Len(note[o]) \in Nat
              /\ TypeOK' => Len(note'[o]) \in Nat
          BY <2>5, <3>1, CallKinds DEF SortOutCall, TypeOK, CallTypes, NoteTypes
        <4>2. TypeOK'
          BY TypeStep
        <4>3. /\ Len(call[r].note) <= Len(note[o])
              /\ call[r].note = note[o] /\ ~IsCut(note[o]) => seen[r] = raised[o]
          BY <2>5, <3>1 DEF ReadIsPrefix
        <4>4. CASE note'[o] = note[o] /\ raised'[o] = raised[o]
          BY <3>1, <4>3, <4>4
        <4>5. CASE Len(note[o]) < Len(note'[o])
          <5>1. Len(call[r].note) < Len(note'[o])
            BY <4>1, <4>2, <4>3, <4>5
          <5> QED BY <3>1, <4>1, <4>2, <5>1
        <4>6. CASE note'[o] = note[o] /\ IsCut(note[o])
          BY <3>1, <4>3, <4>6
        <4> QED BY <1>1, <4>1, <4>4, <4>5, <4>6, NoteSteps
      <3>2. CASE /\ o \in Order /\ call'[r].note = note[o] /\ seen'[r] = raised[o]
                 /\ UNCHANGED <<note, raised>>
        BY <3>2 DEF TypeOK, NoteTypes
      <3> QED BY <2>1, <2>5, <3>1, <3>2 DEF Continues, Idle
    <2> QED BY <2>3, <2>4, <2>5 DEF AboutPlacedOrders, ReadIsPrefix
  <1>2. CASE UNCHANGED vars
    BY <1>2 DEF vars, orderVars, intentVars, noteHistory, AboutPlacedOrders, ReadIsPrefix
  <1> QED BY <1>1, <1>2

-----------------------------------------------------------------------------
(* The theorems.                                                             *)

\* Nothing is placed, noted or halfway at the start.
LEMMA IInvInit == Init => IInv
  BY ConstantsAssumption DEF Init, IInv, OrderInv, KitchenInv, RequestInv, NothingBeforePlaced,
     NotedIsShown, MoneyNoteMeansPaid, MoneyWithoutMealIsShown, EverPaid, Mentions,
     KitchenCancels, ReachesKitchenOnce, Tasks, InKitchen, AboutPlacedOrders, ReadIsPrefix, Idle

\* The parts hold together in every state the system reaches.
THEOREM IInvHolds == Spec => []IInv
  <1>1. IInv /\ TypeOK /\ [Next]_vars => IInv'
    BY OrderInvStep, KitchenInvStep, RequestInvStep DEF IInv
  <1> QED BY <1>1, IInvInit, TypeCorrect, PTL DEF Spec

\* However payments, cancellations and repeated events interleave, recorded
\* money of an order that isn't made is before staff or was settled by them.
THEOREM MoneyIsShown == Spec => []MoneyWithoutMealIsShown
  <1>1. IInv => MoneyWithoutMealIsShown
    BY DEF IInv, OrderInv
  <1> QED BY <1>1, IInvHolds, PTL

\* An order is sent to the kitchen, and its stock taken, at most once.
THEOREM KitchenOnce == Spec => []ReachesKitchenOnce
  <1>1. IInv => ReachesKitchenOnce
    BY DEF IInv, KitchenInv
  <1> QED BY <1>1, IInvHolds, PTL

\* Mark as sorted out settles only what the screen showed.
THEOREM SortedOutSaw == Spec => SortedOutSawEverything
  <1> DEFINE Saw == \A o \in Order : flagged[o] /\ ~flagged'[o] =>
          \E r \in Request : /\ call[r].op = "sortOut" /\ call[r].order = o
                             /\ call'[r] = Idle
                             /\ IsCut(note[o]) \/ seen[r] = raised[o]
  <1>1. TypeOK /\ IInv /\ [Next]_vars => [Saw]_vars
    <2> SUFFICES ASSUME TypeOK, IInv, Next, NEW o \in Order, flagged[o], ~flagged'[o]
                 PROVE  \E r \in Request : /\ call[r].op = "sortOut" /\ call[r].order = o
                                           /\ call'[r] = Idle
                                           /\ IsCut(note[o]) \/ seen[r] = raised[o]
      OBVIOUS
    <2>1. ASSUME NEW p \in Order, NEW entry \in NoteEntry,
                 AddNoteForStaff(p, entry) \/ NeedsAttention(p, entry) \/ UNCHANGED flagged
          PROVE  FALSE
      BY <2>1 DEF AddNoteForStaff, NeedsAttention, TypeOK, NoteTypes
    <2>2. ~ UNCHANGED flagged
      OBVIOUS
    <2>3. ASSUME NEW p \in Order, CreateOrder(p) \/ CancelOrder(p) \/ ConfirmCounterPayment(p)
                                  \/ HandOverOrder(p) \/ CancelKitchenOrder(p)
          PROVE  FALSE
      BY <2>1, <2>2, <2>3 DEF CreateOrder, CancelOrder, ConfirmCounterPayment, HandOverOrder,
         CancelKitchenOrder, NoteEntry, PlainNote
    <2>4. ASSUME NEW r \in Request, SaveQrPhCode(r) \/ FallBackToCounter(r) \/ RecordPayment(r)
                                    \/ SyncOrderStatus(r)
          PROVE  FALSE
      BY <2>2, <2>4 DEF SaveQrPhCode, FallBackToCounter, RecordPayment, SyncOrderStatus, orderVars
    <2>5. ASSUME NEW r \in Request, FlagForStaff(r) PROVE FALSE
      BY <2>1, <2>5, CallKinds DEF FlagForStaff, AddNoteCall, NoteEntry, TypeOK, CallTypes
    <2>6. ASSUME NEW r \in Request, RecordWrongAmount(r) PROVE FALSE
      BY <2>1, <2>6, CallKinds DEF RecordWrongAmount, RecordCall, AmountNote, NoteEntry, TypeOK,
         CallTypes
    <2>7. ASSUME NEW r \in Request, RecordForStaff(r) PROVE FALSE
      BY <2>1, <2>2, <2>7, CallKinds DEF RecordForStaff, RecordMoneyForStaff, FlagPaidCall,
         NoteEntry, TypeOK, CallTypes
    <2>8. PICK r \in Request : MarkAttentionSortedOut(r)
      BY <2>2, <2>3, <2>4, <2>5, <2>6, <2>7, OrderSteps
    <2>9. call[r].op = "sortOut" /\ call[r].order = o /\ call'[r] = Idle /\ call[r].note = note[o]
      BY <2>8 DEF MarkAttentionSortedOut, SortedOutAccepted, Return, TypeOK, NoteTypes, CallTypes
    <2> QED BY <2>9 DEF IInv, RequestInv, ReadIsPrefix
  <1> QED BY <1>1, TypeCorrect, IInvHolds, PTL DEF Spec, SortedOutSawEverything

-----------------------------------------------------------------------------
(* OrderSystem implements OrderLifecycle: every step of a handler is one     *)
(* step of the life of one order, or changes nothing of it.                  *)

PhaseMap == [o \in Order |-> PhaseOf(status[o])]
PaidMap  == [o \in Order |-> EverPaid(o)]

\* The abstract state left alone.
LEMMA Unchanged ==
    ASSUME UNCHANGED <<status, paidBy, flagged, staffSettled>>
    PROVE  UNCHANGED Lifecycle!vars
  BY DEF Lifecycle!vars, EverPaid

\* One order's status changes, and nobody's money.
LEMMA StatusMove ==
    ASSUME TypeOK, NEW o \in Order, NEW s, status' = [status EXCEPT ![o] = s],
           NEW from, NEW to, PhaseOf(status[o]) = from, PhaseOf(s) = to
    PROVE  Lifecycle!Move(o, from, to)
  BY DEF Lifecycle!Move, TypeOK, OrderTypes

\* One order's first money is recorded.
LEMMA PaidMove ==
    ASSUME TypeOK, NEW o \in Order, NEW by \in Intent \cup {"counter"},
           paidBy' = [paidBy EXCEPT ![o] = by]
    PROVE  PaidMap' = [PaidMap EXCEPT ![o] = TRUE]
  BY ConstantsAssumption DEF PaidMap, EverPaid, TypeOK, PaymentTypes

\* Money nobody recorded changes no order.
LEMMA SamePaid == paidBy' = paidBy => PaidMap' = PaidMap
  BY DEF PaidMap, EverPaid

\* Money recorded and the order confirmed in one transaction.
LEMMA SendingIsCook ==
    ASSUME TypeOK, NEW o \in Order, NEW by \in Intent \cup {"counter"},
           ConfirmPendingOrder(o), paidBy' = [paidBy EXCEPT ![o] = by],
           UNCHANGED <<flagged, staffSettled>>
    PROVE  Lifecycle!Cook(o)
  <1>1. Lifecycle!Move(o, "placed", "cooking")
    BY StatusMove DEF ConfirmPendingOrder, PhaseOf, InKitchen
  <1>2. PaidMap' = [PaidMap EXCEPT ![o] = TRUE]
    BY PaidMove
  <1> QED BY <1>1, <1>2 DEF Lifecycle!Cook, PaidMap

\* Something put before staff, with or without money of the order.
LEMMA NotingIsRaise ==
    ASSUME TypeOK, NEW o \in Order, NEW entry \in NoteEntry, status[o] # "none",
           NeedsAttention(o, entry), UNCHANGED <<status, staffSettled>>,
           \/ UNCHANGED paidBy
           \/ \E by \in Intent : paidBy' = [paidBy EXCEPT ![o] = by]
    PROVE  Lifecycle!Raise(o)
  <1>1. UNCHANGED PaidMap \/ PaidMap' = [PaidMap EXCEPT ![o] = TRUE]
    BY PaidMove, SamePaid
  <1>2. PhaseOf(status[o]) # "absent"
    BY DEF PhaseOf, InKitchen, TypeOK, OrderTypes, Statuses
  <1> QED BY <1>1, <1>2 DEF Lifecycle!Raise, NeedsAttention, PaidMap

\* The initial states of OrderSystem are initial states of OrderLifecycle.
LEMMA InitRefines == Init => Lifecycle!Init
  <1> SUFFICES ASSUME Init PROVE Lifecycle!Init
    OBVIOUS
  <1>1. /\ status = [o \in Order |-> "none"] /\ paidBy = [o \in Order |-> "none"]
        /\ flagged = [o \in Order |-> FALSE] /\ staffSettled = [o \in Order |-> FALSE]
    BY DEF Init
  <1>2. [o \in Order |-> PhaseOf(status[o])] = [o \in Order |-> "absent"]
    BY <1>1 DEF PhaseOf, InKitchen
  <1>3. [o \in Order |-> EverPaid(o)] = [o \in Order |-> FALSE]
    BY <1>1 DEF EverPaid
  <1> QED BY <1>1, <1>2, <1>3 DEF Lifecycle!Init

\* Every handler's step is one step of OrderLifecycle or none.
LEMMA StepRefines == TypeOK /\ IInv /\ [Next]_vars => [Lifecycle!Next]_(Lifecycle!vars)
  <1> SUFFICES ASSUME TypeOK, IInv, [Next]_vars PROVE [Lifecycle!Next]_(Lifecycle!vars)
    OBVIOUS
  <1> DEFINE Goal == [Lifecycle!Next]_(Lifecycle!vars)
  <1>0. \A r \in Request : call[r] # Idle => status[call[r].order] # "none"
    BY DEF IInv, RequestInv, AboutPlacedOrders
  <1>1. CASE UNCHANGED <<status, paidBy, flagged, staffSettled>>
    BY <1>1, Unchanged
  <1>2. ASSUME NEW o \in Order, CreateOrder(o) PROVE Goal
    <2>1. status[o] = "none" /\ status' = [status EXCEPT ![o] = "pending"]
      BY <1>2 DEF CreateOrder
    <2>2. Lifecycle!Move(o, "absent", "placed")
      BY <2>1, StatusMove DEF PhaseOf, InKitchen
    <2> QED BY <1>2, <2>2, SamePaid
          DEF CreateOrder, noteHistory, Lifecycle!Next, Lifecycle!Place, PaidMap
  <1>3. ASSUME NEW o \in Order, CancelOrder(o) PROVE Goal
    <2>1. status[o] = "pending" /\ status' = [status EXCEPT ![o] = "cancelled"]
      BY <1>3 DEF CancelOrder
    <2>2. Lifecycle!Move(o, "placed", "dropped")
      BY <2>1, StatusMove DEF PhaseOf, InKitchen
    <2> QED BY <1>3, <2>2, SamePaid
          DEF CancelOrder, noteHistory, Lifecycle!Next, Lifecycle!DropUnpaid, PaidMap
  <1>4. ASSUME NEW o \in Order, ConfirmCounterPayment(o) PROVE Goal
    BY <1>4, SendingIsCook
    DEF ConfirmCounterPayment, MarkPaid, SendToKitchen, noteHistory, Lifecycle!Next
  <1>5. ASSUME NEW o \in Order, HandOverOrder(o) PROVE Goal
    <2>1. status[o] = "ready" /\ status' = [status EXCEPT ![o] = "completed"]
      BY <1>5 DEF HandOverOrder
    <2>2. Lifecycle!Move(o, "cooking", "handedOver")
      BY <2>1, StatusMove DEF PhaseOf, InKitchen
    <2> QED BY <1>5, <2>2, SamePaid
          DEF HandOverOrder, noteHistory, Lifecycle!Next, Lifecycle!HandOver, PaidMap
  <1>6. ASSUME NEW o \in Order, CancelKitchenOrder(o) PROVE Goal
    <2>1. status[o] \in InKitchen /\ status' = [status EXCEPT ![o] = "cancelled"]
      BY <1>6 DEF CancelKitchenOrder
    <2>2. Lifecycle!Move(o, "cooking", "dropped")
      BY <2>1, StatusMove DEF PhaseOf, InKitchen
    <2> QED BY <1>6, <2>2, SamePaid
          DEF CancelKitchenOrder, NeedsAttention, Lifecycle!Next, Lifecycle!DropCooking, PaidMap
  <1>7. ASSUME NEW r \in Request, MarkAttentionSortedOut(r) PROVE Goal
    <2> DEFINE o == call[r].order
    <2>1. o \in Order
      BY <1>7, CallKinds DEF MarkAttentionSortedOut, SortOutCall, TypeOK, CallTypes
    <2>2. /\ flagged[o] /\ flagged' = [flagged EXCEPT ![o] = FALSE]
          /\ staffSettled' = [staffSettled EXCEPT ![o] = TRUE]
          /\ UNCHANGED <<status, paidBy>>
      BY <1>7 DEF MarkAttentionSortedOut, SortedOutAccepted
    <2>3. Lifecycle!Settle(o)
      BY <2>1, <2>2, SamePaid DEF Lifecycle!Settle, PaidMap
    <2> QED BY <2>1, <2>3 DEF Lifecycle!Next
  <1>8. ASSUME NEW r \in Request, SaveQrPhCode(r) \/ FallBackToCounter(r) PROVE Goal
    BY <1>1, <1>8 DEF SaveQrPhCode, FallBackToCounter, orderVars, noteHistory
  <1>9. ASSUME NEW o \in Order, NEW entry \in NoteEntry, status[o] # "none",
               AddNoteForStaff(o, entry), UNCHANGED <<status, staffSettled, paidBy>>
        PROVE  Goal
    <2>1. CASE UNCHANGED <<flagged, note, raised>>
      BY <1>1, <1>9, <2>1
    <2>2. CASE NeedsAttention(o, entry)
      BY <1>9, <2>2, NotingIsRaise DEF Lifecycle!Next
    <2> QED BY <1>9, <2>1, <2>2 DEF AddNoteForStaff
  <1>10. ASSUME NEW r \in Request, FlagForStaff(r) PROVE Goal
    <2>1. call[r] \in AddNoteCall /\ call[r] # Idle
      BY <1>10, CallKinds DEF FlagForStaff, TypeOK, CallTypes, Idle
    <2> QED BY <1>0, <1>9, <1>10, <2>1 DEF FlagForStaff, AddNoteCall, NoteEntry
  <1>11. ASSUME NEW r \in Request, RecordWrongAmount(r) PROVE Goal
    <2>1. call[r] \in RecordCall /\ call[r] # Idle
      BY <1>11, CallKinds DEF RecordWrongAmount, TypeOK, CallTypes, Idle
    <2> QED BY <1>0, <1>9, <1>11, <2>1 DEF RecordWrongAmount, RecordCall, AmountNote, NoteEntry
  <1>12. ASSUME NEW r \in Request, RecordPayment(r) PROVE Goal
    <2>1. call[r].order \in Order /\ call[r].intent \in Intent
      BY <1>12, CallKinds DEF RecordPayment, RecordCall, TypeOK, CallTypes
    <2>2. Lifecycle!Cook(call[r].order)
      BY <1>12, <2>1, SendingIsCook
      DEF RecordPayment, MarkPaidOnline, MarkPaid, SendToKitchen, noteHistory
    <2> QED BY <2>1, <2>2 DEF Lifecycle!Next
  <1>13. ASSUME NEW r \in Request, RecordForStaff(r) PROVE Goal
    <2> DEFINE c == call[r] o == call[r].order
    <2>1. c \in FlagPaidCall /\ c # Idle
      BY <1>13, CallKinds DEF RecordForStaff, TypeOK, CallTypes, Idle
    <2>2. /\ o \in Order /\ c.intent \in Intent /\ c.why \in MoneyNote /\ c.why \in NoteEntry
          /\ status[o] # "none" /\ UNCHANGED <<status, staffSettled>>
      BY <1>0, <1>13, <2>1 DEF RecordForStaff, FlagPaidCall, NoteEntry
    <2>3. CASE UNCHANGED <<paymentVars, paidBy, flagged, note, raised>>
      BY <1>1, <2>2, <2>3
    <2>4. CASE MarkPaidOnline(c) /\ AddNoteForStaff(o, c.why)
      <3>1. paidBy' = [paidBy EXCEPT ![o] = c.intent]
        BY <2>4 DEF MarkPaidOnline, MarkPaid
      <3>2. CASE NeedsAttention(o, c.why)
        BY <2>2, <3>1, <3>2, NotingIsRaise DEF Lifecycle!Next
      <3>3. CASE Mentions(note[o], c.why) /\ UNCHANGED <<flagged, note, raised>>
        <4>1. EverPaid(o)
          BY <2>2, <3>3 DEF IInv, OrderInv, MoneyNoteMeansPaid
        <4>2. PaidMap' = PaidMap
          BY <2>2, <3>1, <4>1, PaidMove DEF PaidMap, EverPaid, TypeOK, PaymentTypes
        <4> QED BY <2>2, <3>3, <4>2 DEF Lifecycle!vars, PaidMap
      <3> QED BY <2>4, <3>2, <3>3 DEF AddNoteForStaff
    <2> QED BY <1>13, <2>3, <2>4 DEF RecordForStaff, RecordMoneyForStaff
  <1>14. ASSUME NEW r \in Request, SyncOrderStatus(r) PROVE Goal
    <2>1. call[r].order \in Order /\ call[r].next \in InKitchen
      BY <1>14, CallKinds DEF SyncOrderStatus, SyncStatusCall, TypeOK, CallTypes
    <2>2. \A p \in Order : PhaseOf(status'[p]) = PhaseOf(status[p])
      BY <1>14, <2>1 DEF SyncOrderStatus, PhaseOf, InKitchen, TypeOK, OrderTypes
    <2>3. UNCHANGED <<paidBy, flagged, staffSettled>>
      BY <1>14 DEF SyncOrderStatus, noteHistory
    <2> QED BY <2>2, <2>3, SamePaid DEF Lifecycle!vars, PaidMap
  <1>15. CASE UNCHANGED vars
    BY <1>1, <1>15 DEF vars, orderVars, noteHistory
  <1> QED BY <1>1, <1>2, <1>3, <1>4, <1>5, <1>6, <1>7, <1>8, <1>10, <1>11, <1>12, <1>13, <1>14,
            <1>15, OrderSteps

\* The system keeps every promise of OrderLifecycle.
THEOREM Implements == Spec => ImplementsLifecycle
  BY InitRefines, StepRefines, TypeCorrect, IInvHolds, PTL
  DEF Spec, ImplementsLifecycle, Lifecycle!Spec

=============================================================================
