--------------------------- MODULE KitchenService ---------------------------
(***************************************************************************)
(* The kitchen display (apps/api/src/modules/kitchen): dishes are started  *)
(* and finished one by one, the order's status follows them, and the order *)
(* is handed over or cancelled.                                            *)
(***************************************************************************)
EXTENDS OrderData

Tasks(o) == {d \in Dish : task[o][d] # "none"}

\* listActiveTasks: unfinished dishes, and every dish of a ready order.
OnKitchenDisplay(o) ==
    \/ status[o] # "cancelled" /\ \E d \in Tasks(o) : task[o][d] # "completed"
    \/ status[o] = "ready" /\ Tasks(o) # {}

-----------------------------------------------------------------------------
(* updateTaskStatus: the order is checked, then the dish is saved, then      *)
(* syncOrderStatus reads all its dishes, then saves the order's status.      *)

BeginUpdateTask(r, o) ==
    /\ status[o] \notin {"completed", "cancelled"}
    /\ \E d \in Tasks(o), to \in TaskStatus :
         Begin(r, [op |-> "setTask", order |-> o, dish |-> d, to |-> to])
    /\ UNCHANGED <<orderVars, paymentVars, stockVars, intentVars, paidBy, noteHistory, answered>>

\* A task whose item was deleted meanwhile is an error, and the request ends.
WriteTask(r) ==
    LET c == call[r] o == c.order IN
    /\ c.op = "setTask"
    /\ \/ /\ c.dish \in Tasks(o)
          /\ task' = [task EXCEPT ![o][c.dish] = c.to]
          /\ GoOn(r, [op |-> "readTasks", order |-> o])
       \/ /\ c.dish \notin Tasks(o)
          /\ Return(r)
          /\ UNCHANGED task
    /\ UNCHANGED <<orderVars, paymentVars, stock, entries, supply, intentVars, paidBy,
                   noteHistory, answered>>

\* One finished dish taken for all of them.
StatusOf_AnyDish(t, ds) ==
    IF \E d \in ds : t[d] = "completed" THEN "ready"
    ELSE IF \E d \in ds : t[d] # "pending" THEN "preparing"
    ELSE "confirmed"

\* The status that follows from an order's dishes.
StatusOf(t, ds) ==
    IF \A d \in ds : t[d] = "completed" THEN "ready"
    ELSE IF \E d \in ds : t[d] # "pending" THEN "preparing"
    ELSE "confirmed"

ReadTasks(r) ==
    LET o == call[r].order IN
    /\ call[r].op = "readTasks"
    /\ \/ /\ Tasks(o) = {}
          /\ Return(r)
       \/ /\ Tasks(o) # {}
          /\ GoOn(r, [op |-> "syncStatus", order |-> o, next |-> StatusOf(task[o], Tasks(o))])
    /\ UNCHANGED <<orderVars, paymentVars, stockVars, intentVars, paidBy, noteHistory, answered>>

\* The saved status whatever the order's is: a handed-over order comes back.
SyncOrderStatus_AnyStatus(r) ==
    LET c == call[r] o == c.order IN
    /\ c.op = "syncStatus"
    /\ status' = [status EXCEPT ![o] = c.next]
    /\ Return(r)
    /\ UNCHANGED <<lines, total, cancelReason, flagged, note, paymentVars, stockVars,
                   intentVars, paidBy, noteHistory, answered>>

SyncOrderStatus(r) ==
    LET c == call[r] o == c.order IN
    /\ c.op = "syncStatus"
    /\ status' = IF status[o] \in InKitchen THEN [status EXCEPT ![o] = c.next] ELSE status
    /\ Return(r)
    /\ UNCHANGED <<lines, total, cancelReason, flagged, note, paymentVars, stockVars,
                   intentVars, paidBy, noteHistory, answered>>

-----------------------------------------------------------------------------
HandOverOrder(o) ==
    /\ MayStart
    /\ status[o] = "ready"
    /\ status' = [status EXCEPT ![o] = "completed"]
    /\ UNCHANGED <<lines, total, cancelReason, flagged, note, paymentVars, stockVars,
                   intentVars, call, paidBy, noteHistory, answered>>

\* One transaction: what nobody has started goes back into stock, and staff
\* are told to refund the customer.
CancelKitchenOrder(o) ==
    /\ MayStart
    /\ status[o] \in InKitchen
    /\ status' = [status EXCEPT ![o] = "cancelled"]
    /\ cancelReason' = [cancelReason EXCEPT ![o] = TRUE]
    /\ NeedsAttention(o, [kind |-> "kitchenCancel"])
    /\ ReturnStockForLines(o)
    /\ UNCHANGED <<lines, total, paymentVars, task, entries, supply, intentVars, call, paidBy,
                   staffSettled, seen, answered>>

KitchenServiceNext ==
    \/ \E o \in Order : HandOverOrder(o) \/ CancelKitchenOrder(o)
    \/ \E r \in Request, o \in Order : BeginUpdateTask(r, o)
    \/ \E r \in Request : WriteTask(r) \/ ReadTasks(r) \/ SyncOrderStatus(r)
=============================================================================
