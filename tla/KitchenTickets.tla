--------------------------- MODULE KitchenTickets ---------------------------
(***************************************************************************)
(* The kitchen display (apps/web/src/app/kitchen/page.tsx) and the tickets *)
(* it prints through the print service next to it (print-service/server.js,*)
(* lib/receiptPrinter.ts).  The page reloads its queue on every event of   *)
(* the socket, answers of several loads may overtake each other, and each  *)
(* order's ticket is sent once it first appears.  The page waits 8 s for a *)
(* ticket and the service 10 s for the printer, which may still print a    *)
(* ticket nobody waits for.                                                *)
(***************************************************************************)
EXTENDS Integers, FiniteSets, Sequences, FiniteSetsExt

CONSTANTS
    LastOrder,      \* orders, oldest first
    Load,           \* loads of the queue that may run at the same time
    MaxUpsets,      \* bounds how often someone stops waiting or reloads the page
    NoJob

ASSUME TicketAssumption ==
    /\ LastOrder \in Nat /\ MaxUpsets \in Nat
    /\ NoJob \notin [order : Nat, asked : BOOLEAN]

KitchenOrder == 1 .. LastOrder
Job == [order : KitchenOrder, asked : BOOLEAN]

VARIABLES
    inKitchen,      \* the API: not paid yet, in the kitchen's queue, or gone
    loads,          \* what each load of the queue is waiting for
    tasks, loaded,  \* the orders on screen
    ticketPrinter,  \* this device prints tickets
    printedKnown, printed,   \* the device's storage
    printing, waiting, reply, \* the loop that prints, and what it waits for
    printQueue, atPrinter,    \* the service
    stuck,          \* tickets the service gave up on, still at the printer
    tickets, unsure,\* history: printed on paper, and left in doubt
    upsets

ticketVars == <<inKitchen, loads, tasks, loaded, ticketPrinter, printedKnown,
                printed, printing, waiting, reply, printQueue, atPrinter, stuck, tickets,
                unsure, upsets>>
queueSide   == <<inKitchen, loads, tasks, loaded>>
loop        == <<printing, waiting, reply>>
storage     == <<ticketPrinter, printedKnown, printed>>
service     == <<printQueue, atPrinter, stuck, tickets>>
ticketBounds == <<unsure, upsets>>

TicketTypeOK ==
    /\ inKitchen \in [KitchenOrder -> {"unpaid", "in", "out"}]
    /\ loads \in [Load -> {[step |-> "free"], [step |-> "asked"]}
                          \cup [step : {"answered"}, orders : SUBSET KitchenOrder]]
    /\ tasks \subseteq KitchenOrder /\ loaded \in BOOLEAN
    /\ ticketPrinter \in BOOLEAN /\ printedKnown \in BOOLEAN /\ printed \subseteq KitchenOrder
    /\ printing \in BOOLEAN /\ waiting \subseteq KitchenOrder
    /\ reply \in {"none", "asked", "ok", "failed"}
    /\ printQueue \in Seq(Job) /\ atPrinter \in Job \cup {NoJob}
    /\ stuck \in [KitchenOrder -> Nat] /\ tickets \in [KitchenOrder -> Nat]
    /\ unsure \in [KitchenOrder -> Nat]
    /\ upsets \in 0 .. MaxUpsets

\* Loads are alike: it doesn't matter which is taken.
FirstLoad == LET first == CHOOSE l \in Load : TRUE IN
    [l \in Load |-> [step |-> IF l = first THEN "asked" ELSE "free"]]

\* The page has just been opened, with or without ?printer=1.
TicketInit ==
    /\ inKitchen \in [KitchenOrder -> {"unpaid", "in"}]
    /\ loads = FirstLoad
    /\ tasks = {} /\ loaded = FALSE
    /\ ticketPrinter \in BOOLEAN /\ printedKnown = FALSE /\ printed = {}
    /\ printing = FALSE /\ waiting = {} /\ reply = "none"
    /\ printQueue = <<>> /\ atPrinter = NoJob /\ stuck = [o \in KitchenOrder |-> 0]
    /\ tickets = [o \in KitchenOrder |-> 0] /\ unsure = [o \in KitchenOrder |-> 0]
    /\ upsets = 0

-----------------------------------------------------------------------------
(* The queue on screen.                                                    *)

Upset == upsets < MaxUpsets /\ upsets' = upsets + 1

Queue   == {o \in KitchenOrder : inKitchen[o] = "in"}
Free(l) == loads[l].step = "free"

\* Every event reloads the whole queue; the instance has a load to spare.
EventReloads ==
    /\ \E l \in Load : Free(l)
    /\ loads' = [loads EXCEPT ![CHOOSE l \in Load : Free(l)] = [step |-> "asked"]]

\* An order is paid, or is handed over or cancelled by someone.  The page
\* misses the event while its connection is down, and reloads nothing when it
\* is back.
OrderMoves(o) ==
    /\ \/ inKitchen[o] = "unpaid" /\ inKitchen' = [inKitchen EXCEPT ![o] = "in"]
       \/ inKitchen[o] = "in" /\ inKitchen' = [inKitchen EXCEPT ![o] = "out"]
    /\ EventReloads \/ UNCHANGED loads
    /\ UNCHANGED <<tasks, loaded, storage, loop, service, ticketBounds>>

\* Cancelling from this page reloads the queue as well.
cancelOrder(o) ==
    /\ o \in tasks /\ EventReloads
    /\ inKitchen' = IF inKitchen[o] = "in" THEN [inKitchen EXCEPT ![o] = "out"] ELSE inKitchen
    /\ UNCHANGED <<tasks, loaded, storage, loop, service, ticketBounds>>

ApiAnswersLoad(l) ==
    /\ loads[l].step = "asked"
    /\ loads' = [loads EXCEPT ![l] = [step |-> "answered", orders |-> Queue]]
    /\ UNCHANGED <<inKitchen, tasks, loaded, storage, loop, service, ticketBounds>>

LoadAnswered(l) ==
    /\ loads[l].step = "answered"
    /\ tasks' = loads[l].orders /\ loaded' = TRUE
    /\ loads' = [loads EXCEPT ![l] = [step |-> "free"]]
    /\ UNCHANGED <<inKitchen, storage, loop, service, ticketBounds>>

\* The screen keeps what it had and offers Retry.
LoadFails(l) ==
    /\ loads[l].step # "free" /\ loads' = [loads EXCEPT ![l] = [step |-> "free"]]
    /\ UNCHANGED <<inKitchen, tasks, loaded, storage, loop, service, ticketBounds>>

retry == /\ \A l \in Load : Free(l)
         /\ EventReloads
         /\ UNCHANGED <<inKitchen, tasks, loaded, storage, loop, service, ticketBounds>>

-----------------------------------------------------------------------------
(* The loop that prints one ticket at a time, oldest first.                *)

Next1 == Min(waiting)

\* Orders on screen when the printer is switched on are not printed.
SwitchedOn ==
    /\ ticketPrinter /\ loaded /\ ~printing /\ ~printedKnown
    /\ printedKnown' = TRUE /\ printed' = tasks
    /\ UNCHANGED <<ticketPrinter, queueSide, loop, service, ticketBounds>>

StartPrinting ==
    /\ ticketPrinter /\ loaded /\ ~printing /\ printedKnown
    /\ tasks \ printed # {}
    /\ printing' = TRUE /\ waiting' = tasks \ printed
    /\ UNCHANGED <<reply, queueSide, storage, service, ticketBounds>>

printKitchenTicket ==
    /\ printing /\ waiting # {} /\ reply = "none"
    /\ printQueue' = Append(printQueue, [order |-> Next1, asked |-> TRUE])
    /\ reply' = "asked"
    /\ UNCHANGED <<printing, waiting, atPrinter, stuck, tickets, queueSide, storage, ticketBounds>>

StopLoop == printing' = FALSE /\ waiting' = {} /\ reply' = "none"

\* Remembered however the printing went.
Remembered_Always(ok) == printed \cup {Next1}

\* Remembered only once it has printed.
Remembered(ok) == IF ok THEN printed \cup {Next1} ELSE printed
TicketAnswered ==
    /\ reply \in {"ok", "failed"}
    /\ printed' = Remembered(reply = "ok")
    /\ IF reply = "failed" THEN StopLoop
       ELSE /\ waiting' = waiting \ {Next1} /\ reply' = "none"
            /\ printing' = (waiting \ {Next1} # {})
    /\ UNCHANGED <<ticketPrinter, printedKnown, queueSide, service, ticketBounds>>

\* A ticket at the printer, or printed with its answer under way.
InDoubt == (atPrinter # NoJob /\ atPrinter.asked) \/ reply = "ok"
Unasked(j) == IF j = NoJob THEN j ELSE [j EXCEPT !.asked = FALSE]
NobodyWaits ==
    /\ printQueue' = [i \in DOMAIN printQueue |-> Unasked(printQueue[i])]
    /\ atPrinter' = Unasked(atPrinter)
    /\ unsure' = IF reply # "none" /\ InDoubt THEN [unsure EXCEPT ![Next1] = @ + 1] ELSE unsure
    /\ StopLoop

\* 8 s without an answer: the order is tried again later.
PageGivesUp ==
    /\ reply # "none" /\ Upset
    /\ NobodyWaits
    /\ UNCHANGED <<stuck, tickets, queueSide, storage>>

\* The browser is reloaded or restarted.
ReloadScreen ==
    /\ Upset
    /\ NobodyWaits /\ tasks' = {} /\ loaded' = FALSE
    /\ loads' = FirstLoad
    /\ UNCHANGED <<inKitchen, stuck, tickets, storage>>

-----------------------------------------------------------------------------
(* The print service: one job at a time.                                   *)

\* Prints a job whose page is gone.
StillWanted_Always(j) == TRUE

\* A job whose page stopped waiting while it queued is dropped.
StillWanted(j) == j.asked
printNow ==
    /\ printQueue # <<>> /\ atPrinter = NoJob
    /\ atPrinter' = IF StillWanted(Head(printQueue)) THEN Head(printQueue) ELSE NoJob
    /\ printQueue' = Tail(printQueue)
    /\ UNCHANGED <<stuck, tickets, queueSide, storage, loop, ticketBounds>>

Reply(answer) == reply' = IF atPrinter.asked THEN answer ELSE reply

PrinterPrints ==
    /\ atPrinter # NoJob /\ atPrinter' = NoJob
    /\ tickets' = [tickets EXCEPT ![atPrinter.order] = @ + 1]
    /\ Reply("ok")
    /\ UNCHANGED <<printing, waiting, printQueue, stuck, queueSide, storage, ticketBounds>>

PrinterFails ==
    /\ atPrinter # NoJob /\ atPrinter' = NoJob /\ Reply("failed")
    /\ UNCHANGED <<printing, waiting, printQueue, stuck, tickets, queueSide, storage, ticketBounds>>

\* 10 s without the printer: the queue goes on, and the ticket may still print.
ServiceGivesUp ==
    /\ atPrinter # NoJob /\ Upset
    /\ stuck' = [stuck EXCEPT ![atPrinter.order] = @ + 1]
    /\ unsure' = IF atPrinter.asked THEN [unsure EXCEPT ![atPrinter.order] = @ + 1] ELSE unsure
    /\ atPrinter' = NoJob /\ Reply("failed")
    /\ UNCHANGED <<printing, waiting, printQueue, tickets, queueSide, storage>>

StuckJobEnds(o) ==
    /\ stuck[o] > 0 /\ stuck' = [stuck EXCEPT ![o] = @ - 1]
    /\ tickets' \in {tickets, [tickets EXCEPT ![o] = @ + 1]}
    /\ UNCHANGED <<printQueue, atPrinter, queueSide, storage, loop, ticketBounds>>

-----------------------------------------------------------------------------
TicketNext ==
    \/ \E o \in KitchenOrder : OrderMoves(o) \/ cancelOrder(o) \/ StuckJobEnds(o)
    \/ \E l \in Load : ApiAnswersLoad(l) \/ LoadAnswered(l) \/ LoadFails(l)
    \/ retry \/ ReloadScreen
    \/ SwitchedOn \/ StartPrinting \/ printKitchenTicket \/ TicketAnswered \/ PageGivesUp
    \/ printNow \/ PrinterPrints \/ PrinterFails \/ ServiceGivesUp

TicketSpec == TicketInit /\ [][TicketNext]_ticketVars

-----------------------------------------------------------------------------
(* Properties                                                              *)

\* An order's ticket prints twice only where it was in doubt: the page or the
\* service stopped waiting for a ticket already at the printer.  A ticket
\* given up while it queued never prints (server.js:134), and two updates of
\* the queue never print the same order (kitchen/page.tsx:179).
SecondTicketIsExplained == \A o \in KitchenOrder : tickets[o] <= 1 + unsure[o]

\* Every order that stays on the screen of a device with the ticket printer,
\* and was not there when it was switched on, gets its ticket, however often
\* the printer fails and the page is loaded again: no order is remembered as
\* printed that isn't (kitchen/page.tsx:202).
TicketsArePrinted ==
    \A o \in KitchenOrder :
        (o \in tasks \ printed /\ ticketPrinter /\ printedKnown)
            ~> (tickets[o] >= 1 \/ o \notin tasks)
=============================================================================
