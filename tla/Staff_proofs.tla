---------------------------- MODULE Staff_proofs ----------------------------
(***************************************************************************)
(* The browsers of the staff: a kitchen display prints a second ticket of  *)
(* an order only for a reason, a session ends when its time is over and    *)
(* stays ended, and the page of accounts leaves an admin and overwrites    *)
(* nobody's edit.                                                          *)
(***************************************************************************)
EXTENDS KitchenTickets, StaffSession, StaffAccounts, WellFoundedInduction, TLAPS

-----------------------------------------------------------------------------
(* The kitchen display and its ticket printer.                              *)

\* The loop is at work on the oldest of the orders it waits for, none of which
\* is remembered as printed; nothing is remembered before the printer is on.
LoopAtWork ==
    /\ ~printing => waiting = {} /\ reply = "none"
    /\ printing => waiting # {} /\ printedKnown
    /\ waiting \cap printed = {}
    /\ ~printedKnown => printed = {}

\* At most one job is still asked for, by the loop, for the order it is at.
OneJobAsked ==
    /\ atPrinter # NoJob /\ atPrinter.asked =>
          /\ reply = "asked" /\ atPrinter.order = Next1
          /\ \A i \in DOMAIN printQueue : ~printQueue[i].asked
    /\ \A i \in DOMAIN printQueue :
          printQueue[i].asked => reply = "asked" /\ printQueue[i].order = Next1
    /\ \A i, j \in DOMAIN printQueue : printQueue[i].asked /\ printQueue[j].asked => i = j

\* The ledger of an order's tickets: those on paper, those the service left at
\* the printer and the one there that nobody waits for are each a doubt, but
\* for the one the loop knows of.
KnownPrinted(o) == o \in printed \/ (reply = "ok" /\ Next1 = o)
Astray(o) == atPrinter # NoJob /\ ~atPrinter.asked /\ atPrinter.order = o
LedgerOf(o) == tickets[o] + stuck[o] + (IF Astray(o) THEN 1 ELSE 0)
                  <= unsure[o] + (IF KnownPrinted(o) THEN 1 ELSE 0)
TicketLedger == \A o \in KitchenOrder : LedgerOf(o)

\* The inductive invariant of the tickets.
TicketInv == TicketTypeOK /\ LoopAtWork /\ OneJobAsked /\ TicketLedger

\* The order the loop is at is one it waits for.
LEMMA NextIsWaiting ==
    ASSUME NEW S, S \subseteq KitchenOrder, S # {}
    PROVE  Min(S) \in S
<1>1. S \subseteq Nat
  BY DEF KitchenOrder
<1>2. PICK n \in S : \A m \in S : ~(<<m, n>> \in OpToRel(<, Nat))
  BY <1>1, NatLessThanWellFounded, WFMin
<1>3. \A m \in S : n <= m
  <2>1. \A m \in S : ~(m < n)
    BY <1>1, <1>2 DEF OpToRel
  <2> QED BY <1>1, <2>1
<1> QED BY <1>2, <1>3 DEF Min

\* No job is not one of the jobs.
LEMMA NoJobIsNone == NoJob \notin Job
BY TicketAssumption DEF Job, KitchenOrder

\* What the queue holds is a job, and so is what a printer has at hand.
LEMMA JobTypes ==
    ASSUME TicketTypeOK
    PROVE  /\ \A i \in DOMAIN printQueue : printQueue[i] \in Job
           /\ atPrinter # NoJob => atPrinter \in Job
BY DEF TicketTypeOK

\* When nobody waits any more, no job is asked for.
LEMMA NobodyWaitsJobs ==
    ASSUME TicketTypeOK, NobodyWaits
    PROVE  /\ printQueue' \in Seq(Job) /\ DOMAIN printQueue' = DOMAIN printQueue
           /\ \A i \in DOMAIN printQueue' : ~printQueue'[i].asked
           /\ atPrinter' \in Job \cup {NoJob}
           /\ atPrinter' # NoJob => /\ atPrinter # NoJob /\ ~atPrinter'.asked
                                    /\ atPrinter'.order = atPrinter.order
<1>1. /\ printQueue \in Seq(Job) /\ atPrinter \in Job \cup {NoJob}
      /\ \A i \in DOMAIN printQueue : printQueue[i] \in Job
  BY DEF TicketTypeOK
<1>2. \A j \in Job : Unasked(j) \in Job /\ ~Unasked(j).asked /\ Unasked(j).order = j.order
  BY NoJobIsNone DEF Unasked, Job
<1>3. printQueue' = [i \in 1 .. Len(printQueue) |-> Unasked(printQueue[i])]
  BY <1>1 DEF NobodyWaits
<1>4. printQueue' \in Seq(Job) /\ DOMAIN printQueue' = DOMAIN printQueue
  BY <1>1, <1>2, <1>3
<1>5. \A i \in DOMAIN printQueue' : ~printQueue'[i].asked
  BY <1>1, <1>2, <1>3
<1>6. atPrinter' = Unasked(atPrinter) /\ Unasked(NoJob) = NoJob
  BY DEF NobodyWaits, Unasked
<1> QED BY <1>1, <1>2, <1>4, <1>5, <1>6

\* A kitchen display that has just been opened.
LEMMA TicketsStart == TicketInit => TicketInv
<1> SUFFICES ASSUME TicketInit PROVE TicketInv
  OBVIOUS
<1>1. /\ inKitchen \in [KitchenOrder -> {"unpaid", "in"}] /\ loads = FirstLoad
      /\ tasks = {} /\ loaded = FALSE /\ ticketPrinter \in BOOLEAN /\ printedKnown = FALSE
      /\ printed = {} /\ printing = FALSE /\ waiting = {} /\ reply = "none"
      /\ printQueue = <<>> /\ atPrinter = NoJob /\ stuck = [o \in KitchenOrder |-> 0]
      /\ tickets = [o \in KitchenOrder |-> 0] /\ unsure = [o \in KitchenOrder |-> 0]
      /\ upsets = 0
  BY DEF TicketInit
<1>2. TicketTypeOK
  <2>1. /\ loaded \in BOOLEAN /\ printedKnown \in BOOLEAN /\ printing \in BOOLEAN
    BY <1>1, Zenon
  <2>2. loads \in [Load -> {[step |-> "free"], [step |-> "asked"]}
                          \cup [step : {"answered"}, orders : SUBSET KitchenOrder]]
    BY <1>1 DEF FirstLoad
  <2>3. inKitchen \in [KitchenOrder -> {"unpaid", "in", "out"}]
    BY <1>1
  <2>4. printQueue \in Seq(Job) /\ upsets \in 0 .. MaxUpsets
    BY <1>1, TicketAssumption
  <2>5. /\ stuck \in [KitchenOrder -> Nat] /\ tickets \in [KitchenOrder -> Nat]
        /\ unsure \in [KitchenOrder -> Nat]
    BY <1>1
  <2> QED BY <1>1, <2>1, <2>2, <2>3, <2>4, <2>5 DEF TicketTypeOK
<1>3. LoopAtWork
  BY <1>1 DEF LoopAtWork
<1>4. OneJobAsked
  BY <1>1 DEF OneJobAsked
<1>5. TicketLedger
  <2>1. ASSUME NEW o \in KitchenOrder PROVE LedgerOf(o)
    <3>1. ~Astray(o) /\ ~KnownPrinted(o)
      BY <1>1 DEF Astray, KnownPrinted
    <3> QED BY <1>1, <3>1 DEF LedgerOf
  <2> QED BY <2>1 DEF TicketLedger
<1> QED BY <1>2, <1>3, <1>4, <1>5 DEF TicketInv

\* Loads and orders that move leave the loop and the printer alone.
LEMMA QueueSideKeeps ==
    ASSUME TicketInv, UNCHANGED <<storage, loop, service, ticketBounds>>,
           inKitchen' \in [KitchenOrder -> {"unpaid", "in", "out"}],
           loads' \in [Load -> {[step |-> "free"], [step |-> "asked"]}
                               \cup [step : {"answered"}, orders : SUBSET KitchenOrder]],
           tasks' \subseteq KitchenOrder, loaded' \in BOOLEAN
    PROVE  TicketInv'
<1> USE DEF storage, loop, service, ticketBounds
<1>1. TicketTypeOK'
  BY DEF TicketInv, TicketTypeOK
<1>2. LoopAtWork'
  BY DEF TicketInv, LoopAtWork
<1>3. OneJobAsked'
  BY DEF TicketInv, OneJobAsked, Next1
<1>4. TicketLedger'
  BY DEF TicketInv, TicketLedger, LedgerOf, KnownPrinted, Astray, Next1
<1> QED BY <1>1, <1>2, <1>3, <1>4 DEF TicketInv

\* Orders move, loads are answered, and the loop goes on as it was: new orders
\* join the ones it waits for only if they are not remembered as printed.
LEMMA QueueSideSteps ==
    ASSUME TicketInv,
           \/ \E o \in KitchenOrder : OrderMoves(o) \/ cancelOrder(o)
           \/ \E l \in Load : ApiAnswersLoad(l) \/ LoadAnswered(l) \/ LoadFails(l)
           \/ retry
    PROVE  TicketInv'
<1> DEFINE LoadState == {[step |-> "free"], [step |-> "asked"]}
                           \cup [step : {"answered"}, orders : SUBSET KitchenOrder]
<1>0. /\ inKitchen \in [KitchenOrder -> {"unpaid", "in", "out"}] /\ loads \in [Load -> LoadState]
      /\ tasks \subseteq KitchenOrder /\ loaded \in BOOLEAN
  BY DEF TicketInv, TicketTypeOK
<1>1. EventReloads => loads' \in [Load -> LoadState]
  BY <1>0 DEF EventReloads
<1>2. ASSUME NEW o \in KitchenOrder, OrderMoves(o) PROVE TicketInv'
  <2>1. inKitchen' \in [KitchenOrder -> {"unpaid", "in", "out"}]
    BY <1>0, <1>2 DEF OrderMoves
  <2>2. loads' \in [Load -> LoadState] /\ UNCHANGED <<tasks, loaded>>
    BY <1>0, <1>1, <1>2 DEF OrderMoves
  <2> QED BY <1>0, <1>2, <2>1, <2>2, QueueSideKeeps DEF OrderMoves
<1>3. ASSUME NEW o \in KitchenOrder, cancelOrder(o) PROVE TicketInv'
  <2>1. inKitchen' \in [KitchenOrder -> {"unpaid", "in", "out"}]
    BY <1>0, <1>3 DEF cancelOrder
  <2>2. loads' \in [Load -> LoadState] /\ UNCHANGED <<tasks, loaded>>
    BY <1>1, <1>3 DEF cancelOrder
  <2> QED BY <1>0, <1>3, <2>1, <2>2, QueueSideKeeps DEF cancelOrder
<1>4. ASSUME NEW l \in Load, ApiAnswersLoad(l) PROVE TicketInv'
  <2>1. Queue \in SUBSET KitchenOrder
    BY DEF Queue
  <2>2. loads' \in [Load -> LoadState] /\ UNCHANGED <<inKitchen, tasks, loaded>>
    BY <1>0, <1>4, <2>1 DEF ApiAnswersLoad
  <2> QED BY <1>0, <1>4, <2>2, QueueSideKeeps DEF ApiAnswersLoad
<1>5. ASSUME NEW l \in Load, LoadAnswered(l) PROVE TicketInv'
  <2>1. loads[l].orders \subseteq KitchenOrder
    BY <1>0, <1>5 DEF LoadAnswered
  <2>2. /\ loads' \in [Load -> LoadState] /\ UNCHANGED inKitchen
        /\ tasks' \subseteq KitchenOrder
    BY <1>0, <1>5, <2>1 DEF LoadAnswered
  <2>3. loaded' \in BOOLEAN
    BY <1>5, Zenon DEF LoadAnswered
  <2> QED BY <1>0, <1>5, <2>2, <2>3, QueueSideKeeps DEF LoadAnswered
<1>6. ASSUME NEW l \in Load, LoadFails(l) PROVE TicketInv'
  <2>1. loads' \in [Load -> LoadState] /\ UNCHANGED <<inKitchen, tasks, loaded>>
    BY <1>0, <1>6 DEF LoadFails
  <2> QED BY <1>0, <1>6, <2>1, QueueSideKeeps DEF LoadFails
<1>7. CASE retry
  BY <1>0, <1>1, <1>7, QueueSideKeeps DEF retry
<1> QED BY <1>2, <1>3, <1>4, <1>5, <1>6, <1>7

\* Switching the printer on, and the start of the loop.
LEMMA LoopStarts ==
    ASSUME TicketInv, SwitchedOn \/ StartPrinting
    PROVE  TicketInv'
<1> USE DEF storage, loop, service, ticketBounds, queueSide
<1>0. TicketTypeOK /\ LoopAtWork /\ OneJobAsked /\ TicketLedger
  BY DEF TicketInv
<1>1. CASE SwitchedOn
  <2>1. /\ ~printing /\ printedKnown' = TRUE /\ printed = {} /\ printed' = tasks
        /\ UNCHANGED <<ticketPrinter, queueSide, loop, service, ticketBounds>>
        /\ reply = "none" /\ waiting = {}
    BY <1>0, <1>1 DEF SwitchedOn, LoopAtWork
  <2>2. printedKnown' \in BOOLEAN
    BY <2>1, Zenon
  <2>3. TicketTypeOK'
    BY <1>0, <2>1, <2>2 DEF TicketTypeOK
  <2>4. LoopAtWork'
    BY <1>0, <2>1 DEF LoopAtWork
  <2>5. OneJobAsked'
    BY <1>0, <2>1 DEF OneJobAsked
  <2>6. ASSUME NEW o \in KitchenOrder PROVE LedgerOf(o)'
    <3>1. LedgerOf(o) /\ ~KnownPrinted(o) /\ Astray(o)' = Astray(o)
      BY <1>0, <2>1 DEF TicketLedger, KnownPrinted, Astray
    <3>2. tickets[o] \in Nat /\ stuck[o] \in Nat /\ unsure[o] \in Nat
      BY <1>0 DEF TicketTypeOK
    <3> QED BY <2>1, <3>1, <3>2 DEF LedgerOf
  <2> QED BY <2>3, <2>4, <2>5, <2>6 DEF TicketInv, TicketLedger
<1>2. CASE StartPrinting
  <2>1. /\ ~printing /\ printing' = TRUE /\ printedKnown /\ waiting' = tasks \ printed
        /\ tasks \ printed # {}
        /\ UNCHANGED <<reply, queueSide, storage, service, ticketBounds>>
        /\ reply = "none" /\ waiting = {}
    BY <1>0, <1>2 DEF StartPrinting, LoopAtWork
  <2>2. printing' \in BOOLEAN
    BY <2>1, Zenon
  <2>3. TicketTypeOK'
    BY <1>0, <2>1, <2>2 DEF TicketTypeOK
  <2>4. LoopAtWork'
    BY <1>0, <2>1 DEF LoopAtWork
  <2>5. OneJobAsked'
    BY <1>0, <2>1 DEF OneJobAsked
  <2>6. ASSUME NEW o \in KitchenOrder PROVE LedgerOf(o)'
    <3>1. LedgerOf(o) /\ KnownPrinted(o)' = KnownPrinted(o) /\ Astray(o)' = Astray(o)
      BY <1>0, <2>1 DEF TicketLedger, KnownPrinted, Astray
    <3> QED BY <2>1, <3>1 DEF LedgerOf
  <2> QED BY <2>3, <2>4, <2>5, <2>6 DEF TicketInv, TicketLedger
<1> QED BY <1>1, <1>2

\* The loop asks for the ticket of the order it is at: its only job asked for.
LEMMA LoopAsks ==
    ASSUME TicketInv, printKitchenTicket
    PROVE  TicketInv'
<1> USE DEF storage, loop, service, ticketBounds, queueSide
<1> DEFINE job == [order |-> Next1, asked |-> TRUE]
<1>0. TicketTypeOK /\ LoopAtWork /\ OneJobAsked /\ TicketLedger
  BY DEF TicketInv
<1>1. /\ printing /\ waiting # {} /\ reply = "none" /\ reply' = "asked"
      /\ printQueue' = Append(printQueue, job)
      /\ UNCHANGED <<printing, waiting, atPrinter, stuck, tickets, queueSide, storage, ticketBounds>>
  BY DEF printKitchenTicket
<1>2. Next1 \in KitchenOrder /\ Next1' = Next1
  BY <1>0, <1>1, NextIsWaiting DEF TicketTypeOK, Next1
<1>3. job \in Job /\ printQueue \in Seq(Job)
  BY <1>0, <1>2 DEF Job, TicketTypeOK
<1>4. printQueue' \in Seq(Job)
  BY <1>1, <1>3
<1>5. /\ DOMAIN printQueue' = 1 .. Len(printQueue) + 1 /\ printQueue'[Len(printQueue) + 1] = job
      /\ DOMAIN printQueue = 1 .. Len(printQueue) /\ Len(printQueue) \in Nat
      /\ \A i \in DOMAIN printQueue : printQueue'[i] = printQueue[i]
  BY <1>1, <1>3
<1>6. TicketTypeOK'
  BY <1>0, <1>1, <1>4 DEF TicketTypeOK
<1>7. LoopAtWork'
  BY <1>0, <1>1 DEF LoopAtWork
<1>8. OneJobAsked'
  <2>1. /\ \A i \in DOMAIN printQueue : ~printQueue[i].asked
        /\ atPrinter # NoJob => ~atPrinter.asked
    BY <1>0, <1>1 DEF OneJobAsked
  <2> QED BY <1>1, <1>2, <1>5, <2>1 DEF OneJobAsked
<1>9. ASSUME NEW o \in KitchenOrder PROVE LedgerOf(o)'
  <2>1. LedgerOf(o) /\ KnownPrinted(o)' = KnownPrinted(o) /\ Astray(o)' = Astray(o)
    BY <1>0, <1>1 DEF TicketLedger, KnownPrinted, Astray
  <2> QED BY <1>1, <2>1 DEF LedgerOf
<1> QED BY <1>6, <1>7, <1>8, <1>9 DEF TicketInv, TicketLedger

\* An answer: the order is remembered if its ticket was printed.
LEMMA LoopAnswered ==
    ASSUME TicketInv, TicketAnswered
    PROVE  TicketInv'
<1> USE DEF storage, loop, service, ticketBounds, queueSide
<1>0. TicketTypeOK /\ LoopAtWork /\ OneJobAsked /\ TicketLedger
  BY DEF TicketInv
<1>1. /\ reply \in {"ok", "failed"} /\ reply' = "none" /\ printing /\ waiting # {}
      /\ printed' = IF reply = "ok" THEN printed \cup {Next1} ELSE printed
      /\ UNCHANGED <<ticketPrinter, printedKnown, queueSide, service, ticketBounds>>
      /\ Next1 \in waiting /\ Next1 \in KitchenOrder
  <2>1. printing /\ waiting # {}
    BY <1>0 DEF LoopAtWork, TicketAnswered
  <2>2. Next1 \in waiting /\ Next1 \in KitchenOrder
    BY <1>0, <2>1, NextIsWaiting DEF TicketTypeOK, Next1
  <2> QED BY <2>1, <2>2 DEF TicketAnswered, Remembered, StopLoop
<1>2. /\ waiting' \subseteq waiting /\ (reply = "ok" => Next1 \notin waiting')
      /\ (printing' <=> waiting' # {}) /\ printing' \in BOOLEAN
  <2>1. CASE reply = "failed"
    BY <1>1, <2>1 DEF TicketAnswered, StopLoop
  <2>2. CASE reply = "ok"
    BY <1>1, <2>2 DEF TicketAnswered
  <2> QED BY <1>1, <2>1, <2>2
<1>3. TicketTypeOK'
  BY <1>0, <1>1, <1>2 DEF TicketTypeOK
<1>4. LoopAtWork'
  BY <1>0, <1>1, <1>2 DEF LoopAtWork
<1>5. OneJobAsked'
  <2>1. /\ \A i \in DOMAIN printQueue : ~printQueue[i].asked
        /\ atPrinter # NoJob => ~atPrinter.asked
    BY <1>0, <1>1 DEF OneJobAsked
  <2> QED BY <1>1, <2>1 DEF OneJobAsked
<1>6. ASSUME NEW o \in KitchenOrder PROVE LedgerOf(o)'
  <2>1. LedgerOf(o) /\ Astray(o)' = Astray(o) /\ (KnownPrinted(o) => KnownPrinted(o)')
    BY <1>0, <1>1 DEF TicketLedger, KnownPrinted, Astray
  <2>2. tickets[o] \in Nat /\ stuck[o] \in Nat /\ unsure[o] \in Nat
    BY <1>0 DEF TicketTypeOK
  <2> QED BY <1>1, <2>1, <2>2 DEF LedgerOf
<1> QED BY <1>3, <1>4, <1>5, <1>6 DEF TicketInv, TicketLedger

\* Nobody waits any more: a ticket at the printer, or an answer under way, is a
\* doubt about the order the loop was at.
LEMMA NobodyWaitsLedger ==
    ASSUME TicketInv, NobodyWaits, NEW o \in KitchenOrder,
           UNCHANGED <<stuck, tickets, printed>>
    PROVE  LedgerOf(o)'
<1>0. TicketTypeOK /\ LoopAtWork /\ OneJobAsked /\ LedgerOf(o)
  BY DEF TicketInv, TicketLedger
<1>1. tickets[o] \in Nat /\ stuck[o] \in Nat /\ unsure[o] \in Nat
  BY <1>0 DEF TicketTypeOK
<1>2. reply' = "none" /\ (KnownPrinted(o)' <=> o \in printed)
  BY DEF NobodyWaits, StopLoop, KnownPrinted
<1>3. Astray(o)' => atPrinter # NoJob /\ atPrinter.order = o
  BY <1>0, NobodyWaitsJobs DEF Astray
<1>4. CASE reply # "none" /\ InDoubt /\ Next1 = o
  <2>1. unsure'[o] = unsure[o] + 1
    BY <1>0, <1>4 DEF NobodyWaits, TicketTypeOK
  <2>2. ~(KnownPrinted(o) /\ reply = "ok" /\ Astray(o)' /\ ~Astray(o))
    BY <1>0, <1>3 DEF OneJobAsked, Astray
  <2>3. KnownPrinted(o) /\ ~KnownPrinted(o)' => reply = "ok"
    BY <1>2 DEF KnownPrinted
  <2> QED BY <1>0, <1>1, <2>1, <2>2, <2>3 DEF LedgerOf
<1>5. CASE ~(reply # "none" /\ InDoubt /\ Next1 = o)
  <2>1. unsure'[o] = unsure[o]
    BY <1>0, <1>5 DEF NobodyWaits, TicketTypeOK
  <2>2. KnownPrinted(o) => KnownPrinted(o)'
    BY <1>2, <1>5 DEF KnownPrinted, InDoubt
  <2>3. Astray(o)' => Astray(o)
    <3>1. ASSUME Astray(o)', atPrinter.asked PROVE FALSE
      <4>1. reply = "asked" /\ atPrinter.order = Next1 /\ atPrinter # NoJob
        BY <1>0, <1>3, <3>1 DEF OneJobAsked
      <4> QED BY <1>3, <1>5, <3>1, <4>1 DEF InDoubt
    <3> QED BY <1>3, <3>1 DEF Astray
  <2> QED BY <1>0, <1>1, <2>1, <2>2, <2>3 DEF LedgerOf
<1> QED BY <1>4, <1>5

\* Nobody waits for the print service any more: what it still does is astray,
\* and counted as such.
LEMMA WaitingEnds ==
    ASSUME TicketInv, PageGivesUp \/ ReloadScreen
    PROVE  TicketInv'
<1> USE DEF storage, loop, service, ticketBounds, queueSide
<1>0. TicketTypeOK /\ LoopAtWork /\ OneJobAsked /\ TicketLedger
  BY DEF TicketInv
<1>1. /\ NobodyWaits /\ UNCHANGED <<stuck, tickets, inKitchen, storage>>
      /\ upsets < MaxUpsets /\ upsets' = upsets + 1
  BY DEF PageGivesUp, ReloadScreen, Upset
<1>2. /\ printQueue' \in Seq(Job) /\ DOMAIN printQueue' = DOMAIN printQueue
      /\ \A i \in DOMAIN printQueue' : ~printQueue'[i].asked
      /\ atPrinter' \in Job \cup {NoJob}
      /\ atPrinter' # NoJob => ~atPrinter'.asked
  BY <1>0, <1>1, NobodyWaitsJobs
<1>3. printing' = FALSE /\ waiting' = {} /\ reply' = "none"
  BY <1>1 DEF NobodyWaits, StopLoop
<1>4. unsure' \in [KitchenOrder -> Nat]
  <2>1. unsure \in [KitchenOrder -> Nat]
    BY <1>0 DEF TicketTypeOK
  <2>2. CASE reply # "none" /\ InDoubt
    <3>1. Next1 \in KitchenOrder
      BY <1>0, <2>2, NextIsWaiting DEF LoopAtWork, TicketTypeOK, Next1
    <3>2. unsure' = [unsure EXCEPT ![Next1] = unsure[Next1] + 1]
      BY <1>1, <2>2 DEF NobodyWaits
    <3> QED BY <2>1, <3>1, <3>2
  <2>3. CASE ~(reply # "none" /\ InDoubt)
    BY <1>1, <2>1, <2>3 DEF NobodyWaits
  <2> QED BY <2>2, <2>3
<1>5. /\ tasks' \subseteq KitchenOrder /\ loaded' \in BOOLEAN
      /\ loads' \in [Load -> {[step |-> "free"], [step |-> "asked"]}
                             \cup [step : {"answered"}, orders : SUBSET KitchenOrder]]
  <2>1. CASE PageGivesUp
    BY <1>0, <2>1 DEF PageGivesUp, TicketTypeOK
  <2>2. CASE ReloadScreen
    <3>1. loaded' \in BOOLEAN
      BY <2>2, Zenon DEF ReloadScreen
    <3> QED BY <2>2, <3>1 DEF ReloadScreen, FirstLoad
  <2> QED BY <2>1, <2>2
<1>6. TicketTypeOK'
  <2>1. printing' \in BOOLEAN
    BY <1>3, Zenon
  <2>2. upsets' \in 0 .. MaxUpsets
    BY <1>0, <1>1, TicketAssumption DEF TicketTypeOK
  <2>3. waiting' \subseteq KitchenOrder /\ reply' \in {"none", "asked", "ok", "failed"}
    BY <1>3
  <2> QED BY <1>0, <1>1, <1>2, <1>4, <1>5, <2>1, <2>2, <2>3 DEF TicketTypeOK
<1>7. LoopAtWork'
  BY <1>0, <1>1, <1>3 DEF LoopAtWork
<1>8. OneJobAsked'
  BY <1>2 DEF OneJobAsked
<1>9. TicketLedger'
  BY <1>1, NobodyWaitsLedger DEF TicketLedger
<1> QED BY <1>6, <1>7, <1>8, <1>9 DEF TicketInv

\* The service takes the next job, if it is still asked for.
LEMMA ServiceTakes ==
    ASSUME TicketInv, printNow
    PROVE  TicketInv'
<1> USE DEF storage, loop, service, ticketBounds, queueSide
<1> DEFINE job == Head(printQueue)
<1>0. TicketTypeOK /\ LoopAtWork /\ OneJobAsked /\ TicketLedger
  BY DEF TicketInv
<1>1. /\ printQueue # <<>> /\ atPrinter = NoJob /\ printQueue' = Tail(printQueue)
      /\ atPrinter' = IF job.asked THEN job ELSE NoJob
      /\ UNCHANGED <<stuck, tickets, queueSide, storage, loop, ticketBounds>>
  BY DEF printNow, StillWanted
<1>2. printQueue \in Seq(Job)
  BY <1>0 DEF TicketTypeOK
<1>3. /\ Len(printQueue) \in Nat \ {0} /\ job = printQueue[1] /\ job \in Job
      /\ 1 \in DOMAIN printQueue /\ printQueue' \in Seq(Job)
      /\ \A i \in DOMAIN printQueue' : /\ i + 1 \in DOMAIN printQueue /\ i \in Nat \ {0}
                                        /\ printQueue'[i] = printQueue[i + 1]
  BY <1>1, <1>2
<1>4. TicketTypeOK'
  <2>1. atPrinter' \in Job \cup {NoJob}
    BY <1>1, <1>3
  <2> QED BY <1>0, <1>1, <1>3, <2>1 DEF TicketTypeOK
<1>5. LoopAtWork'
  BY <1>0, <1>1 DEF LoopAtWork
<1>6. OneJobAsked'
  <2>1. Next1' = Next1 /\ reply' = reply
    BY <1>1 DEF Next1
  <2>2. \A i \in DOMAIN printQueue : printQueue[i].asked => reply = "asked" /\ printQueue[i].order = Next1
    BY <1>0 DEF OneJobAsked
  <2>3. \A i, j \in DOMAIN printQueue : printQueue[i].asked /\ printQueue[j].asked => i = j
    BY <1>0 DEF OneJobAsked
  <2>4. \A i \in DOMAIN printQueue' :
           printQueue'[i].asked => reply = "asked" /\ printQueue'[i].order = Next1 /\ ~job.asked
    <3> TAKE i \in DOMAIN printQueue'
    <3> HAVE printQueue'[i].asked
    <3>1. i + 1 \in DOMAIN printQueue /\ printQueue'[i] = printQueue[i + 1] /\ i + 1 # 1
      BY <1>3
    <3>2. printQueue[i + 1].asked
      BY <3>1
    <3> QED BY <1>3, <2>2, <2>3, <3>1, <3>2
  <2>5. \A i, j \in DOMAIN printQueue' : printQueue'[i].asked /\ printQueue'[j].asked => i = j
    <3> TAKE i, j \in DOMAIN printQueue'
    <3> HAVE printQueue'[i].asked /\ printQueue'[j].asked
    <3>1. /\ i + 1 \in DOMAIN printQueue /\ printQueue'[i] = printQueue[i + 1] /\ i \in Nat
          /\ j + 1 \in DOMAIN printQueue /\ printQueue'[j] = printQueue[j + 1] /\ j \in Nat
      BY <1>3
    <3>2. i + 1 = j + 1
      BY <2>3, <3>1
    <3> QED BY <3>1, <3>2
  <2>6. atPrinter' # NoJob /\ atPrinter'.asked =>
           reply = "asked" /\ atPrinter'.order = Next1 /\ job.asked
    BY <1>1, <1>3, <2>2
  <2> QED BY <2>1, <2>4, <2>5, <2>6 DEF OneJobAsked
<1>7. ASSUME NEW o \in KitchenOrder PROVE LedgerOf(o)'
  <2>1. LedgerOf(o) /\ KnownPrinted(o)' = KnownPrinted(o)
    BY <1>0, <1>1 DEF TicketLedger, KnownPrinted, Next1
  <2>2. ~Astray(o) /\ ~Astray(o)'
    BY <1>1 DEF Astray
  <2> QED BY <1>1, <2>1, <2>2 DEF LedgerOf
<1> QED BY <1>4, <1>5, <1>6, <1>7 DEF TicketInv, TicketLedger

\* The printer prints, or fails, or the service stops waiting for it.
LEMMA PrinterEnds ==
    ASSUME TicketInv, PrinterPrints \/ PrinterFails \/ ServiceGivesUp
    PROVE  TicketInv'
<1> USE DEF storage, loop, service, ticketBounds, queueSide
<1>0. TicketTypeOK /\ LoopAtWork /\ OneJobAsked /\ TicketLedger
  BY DEF TicketInv
<1>1. /\ atPrinter # NoJob /\ atPrinter' = NoJob /\ atPrinter \in Job
      /\ UNCHANGED <<printing, waiting, printQueue, queueSide, storage>>
      /\ Next1' = Next1
  BY <1>0 DEF PrinterPrints, PrinterFails, ServiceGivesUp, Next1, TicketTypeOK
<1> DEFINE at == atPrinter.order
<1>2. at \in KitchenOrder /\ atPrinter.asked \in BOOLEAN
  BY <1>1 DEF Job
<1>3. atPrinter.asked => /\ reply = "asked" /\ at = Next1 /\ at \notin printed /\ printing
                         /\ \A i \in DOMAIN printQueue : ~printQueue[i].asked
  <2> HAVE atPrinter.asked
  <2>1. /\ reply = "asked" /\ at = Next1 /\ \A i \in DOMAIN printQueue : ~printQueue[i].asked
    BY <1>0, <1>1 DEF OneJobAsked
  <2>2. printing /\ waiting # {}
    BY <1>0, <2>1 DEF LoopAtWork
  <2>3. Next1 \in waiting
    BY <1>0, <2>2, NextIsWaiting DEF TicketTypeOK, Next1
  <2> QED BY <1>0, <2>1, <2>2, <2>3 DEF LoopAtWork
<1>4. IF atPrinter.asked THEN reply' \in {"ok", "failed"} ELSE reply' = reply
  BY DEF PrinterPrints, PrinterFails, ServiceGivesUp, Reply
<1>5. /\ tickets \in [KitchenOrder -> Nat] /\ stuck \in [KitchenOrder -> Nat]
      /\ unsure \in [KitchenOrder -> Nat] /\ upsets \in 0 .. MaxUpsets
  BY <1>0 DEF TicketTypeOK
<1>6. /\ \/ /\ tickets' = [tickets EXCEPT ![at] = tickets[at] + 1] /\ UNCHANGED <<stuck, unsure>>
            /\ reply' = IF atPrinter.asked THEN "ok" ELSE reply
         \/ UNCHANGED <<tickets, stuck, unsure>> /\ reply' = IF atPrinter.asked THEN "failed" ELSE reply
         \/ /\ stuck' = [stuck EXCEPT ![at] = stuck[at] + 1] /\ UNCHANGED tickets
            /\ unsure' = IF atPrinter.asked THEN [unsure EXCEPT ![at] = unsure[at] + 1] ELSE unsure
            /\ reply' = IF atPrinter.asked THEN "failed" ELSE reply
      /\ upsets' \in 0 .. MaxUpsets
  <2>1. CASE PrinterPrints
    BY <2>1, <1>5 DEF PrinterPrints, Reply
  <2>2. CASE PrinterFails
    BY <2>2, <1>5 DEF PrinterFails, Reply
  <2>3. CASE ServiceGivesUp
    BY <2>3, <1>5, TicketAssumption DEF ServiceGivesUp, Reply, Upset
  <2> QED BY <2>1, <2>2, <2>3
<1>7. TicketTypeOK'
  <2>1. /\ tickets' \in [KitchenOrder -> Nat] /\ stuck' \in [KitchenOrder -> Nat]
        /\ unsure' \in [KitchenOrder -> Nat]
    BY <1>2, <1>5, <1>6
  <2>2. reply' \in {"none", "asked", "ok", "failed"}
    BY <1>0, <1>4 DEF TicketTypeOK
  <2> QED BY <1>0, <1>1, <1>6, <2>1, <2>2 DEF TicketTypeOK
<1>8. LoopAtWork'
  BY <1>0, <1>1, <1>3, <1>4 DEF LoopAtWork
<1>9. OneJobAsked'
  BY <1>0, <1>1, <1>3, <1>4 DEF OneJobAsked
<1>10. ASSUME NEW o \in KitchenOrder PROVE LedgerOf(o)'
  <2>0. /\ LedgerOf(o) /\ tickets[o] \in Nat /\ stuck[o] \in Nat /\ unsure[o] \in Nat
        /\ ~Astray(o)' /\ (Astray(o) <=> ~atPrinter.asked /\ at = o)
    BY <1>0, <1>1, <1>5 DEF TicketLedger, Astray
  <2>1. CASE at # o
    <3>1. tickets'[o] = tickets[o] /\ stuck'[o] = stuck[o] /\ unsure'[o] = unsure[o]
      BY <1>5, <1>6, <2>1
    <3>2. KnownPrinted(o) => KnownPrinted(o)'
      BY <1>1, <1>3, <1>4, <2>1 DEF KnownPrinted
    <3> QED BY <2>0, <3>1, <3>2 DEF LedgerOf
  <2>2. CASE at = o /\ ~atPrinter.asked
    <3>1. /\ tickets'[o] + stuck'[o] <= tickets[o] + stuck[o] + 1 /\ unsure'[o] = unsure[o]
          /\ tickets'[o] \in Nat /\ stuck'[o] \in Nat
      BY <1>2, <1>5, <1>6, <2>2
    <3>2. KnownPrinted(o)' = KnownPrinted(o)
      BY <1>1, <1>4, <2>2 DEF KnownPrinted
    <3> QED BY <2>0, <2>2, <3>1, <3>2 DEF LedgerOf
  <2>3. CASE at = o /\ atPrinter.asked
    <3>1. ~KnownPrinted(o)
      BY <1>3, <2>3 DEF KnownPrinted
    <3>2. reply' = "ok" => KnownPrinted(o)'
      BY <1>1, <1>3, <2>3 DEF KnownPrinted
    <3>3. \/ tickets'[o] = tickets[o] + 1 /\ stuck'[o] = stuck[o] /\ unsure'[o] = unsure[o] /\ reply' = "ok"
          \/ tickets'[o] = tickets[o] /\ stuck'[o] = stuck[o] /\ unsure'[o] = unsure[o]
          \/ tickets'[o] = tickets[o] /\ stuck'[o] = stuck[o] + 1 /\ unsure'[o] = unsure[o] + 1
      BY <1>2, <1>5, <1>6, <2>3
    <3> QED BY <2>0, <2>3, <3>1, <3>2, <3>3 DEF LedgerOf
  <2> QED BY <1>2, <2>1, <2>2, <2>3
<1> QED BY <1>7, <1>8, <1>9, <1>10 DEF TicketInv, TicketLedger

\* A ticket the service left at the printer prints after all, or is lost.
LEMMA StuckEnds ==
    ASSUME TicketInv, NEW o \in KitchenOrder, StuckJobEnds(o)
    PROVE  TicketInv'
<1> USE DEF storage, loop, service, ticketBounds, queueSide
<1>0. TicketTypeOK /\ LoopAtWork /\ OneJobAsked /\ TicketLedger
  BY DEF TicketInv
<1>1. /\ stuck[o] > 0 /\ stuck' = [stuck EXCEPT ![o] = stuck[o] - 1]
      /\ tickets' \in {tickets, [tickets EXCEPT ![o] = tickets[o] + 1]}
      /\ UNCHANGED <<printQueue, atPrinter, queueSide, storage, loop, ticketBounds>>
  BY DEF StuckJobEnds
<1>2. /\ tickets \in [KitchenOrder -> Nat] /\ stuck \in [KitchenOrder -> Nat]
      /\ unsure \in [KitchenOrder -> Nat]
  BY <1>0 DEF TicketTypeOK
<1>3. TicketTypeOK'
  <2>1. tickets' \in [KitchenOrder -> Nat] /\ stuck' \in [KitchenOrder -> Nat]
    BY <1>1, <1>2
  <2> QED BY <1>0, <1>1, <2>1 DEF TicketTypeOK
<1>4. LoopAtWork'
  BY <1>0, <1>1 DEF LoopAtWork
<1>5. OneJobAsked'
  BY <1>0, <1>1 DEF OneJobAsked, Next1
<1>6. ASSUME NEW p \in KitchenOrder PROVE LedgerOf(p)'
  <2>1. /\ LedgerOf(p) /\ KnownPrinted(p)' = KnownPrinted(p) /\ Astray(p)' = Astray(p)
        /\ unsure'[p] = unsure[p]
    BY <1>0, <1>1 DEF TicketLedger, KnownPrinted, Astray, Next1
  <2>2. tickets'[p] + stuck'[p] <= tickets[p] + stuck[p]
    BY <1>1, <1>2
  <2>3. /\ tickets[p] \in Nat /\ stuck[p] \in Nat /\ unsure[p] \in Nat
        /\ tickets'[p] \in Nat /\ stuck'[p] \in Nat
    BY <1>2, <1>3 DEF TicketTypeOK
  <2> QED BY <2>1, <2>2, <2>3 DEF LedgerOf
<1> QED BY <1>3, <1>4, <1>5, <1>6 DEF TicketInv, TicketLedger

\* Every step keeps the invariant.
LEMMA TicketsStep == TicketInv /\ [TicketNext]_ticketVars => TicketInv'
<1> SUFFICES ASSUME TicketInv, [TicketNext]_ticketVars PROVE TicketInv'
  OBVIOUS
<1>1. CASE UNCHANGED ticketVars
  <2>1. UNCHANGED <<storage, loop, service, ticketBounds, queueSide>>
    BY <1>1 DEF ticketVars, storage, loop, service, ticketBounds, queueSide
  <2> QED BY <2>1, QueueSideKeeps DEF queueSide, TicketInv, TicketTypeOK
<1> QED
  BY <1>1, QueueSideSteps, LoopStarts, LoopAsks, LoopAnswered, WaitingEnds, ServiceTakes,
     PrinterEnds, StuckEnds DEF TicketNext

\* The values of the kitchen page and of the print service are of their types.
THEOREM TicketsTyped == TicketSpec => []TicketTypeOK
<1>1. TicketInv => TicketTypeOK
  BY DEF TicketInv
<1> QED BY <1>1, TicketsStart, TicketsStep, PTL DEF TicketSpec

\* For any number of orders, loads and interruptions, a ticket more than one is
\* a doubt: the page or the service stopped waiting for a ticket already at the
\* printer (server.js:134, kitchen/page.tsx:179).
THEOREM TicketsExplained == TicketSpec => []SecondTicketIsExplained
<1>1. TicketInv => SecondTicketIsExplained
  <2> SUFFICES ASSUME TicketInv, NEW o \in KitchenOrder PROVE tickets[o] <= 1 + unsure[o]
    BY DEF SecondTicketIsExplained
  <2>1. LedgerOf(o) /\ tickets[o] \in Nat /\ stuck[o] \in Nat /\ unsure[o] \in Nat
    BY DEF TicketInv, TicketLedger, TicketTypeOK
  <2> QED BY <2>1 DEF LedgerOf
<1> QED BY <1>1, TicketsStart, TicketsStep, PTL DEF TicketSpec

-----------------------------------------------------------------------------
(* A staff session in its tabs.                                             *)

\* A renewal that goes on after its session ended knows nothing of it.
LateOnes == ~SignedIn => \A t \in Tab, k \in Renewers :
                            renewal[t][k] # NoRenewal => renewal[t][k].late

\* A token of a suspended account is as old as the suspension: what was granted
\* before it arrived before time went on.
SuspendedAges ==
    /\ isActive => suspendedFor = 0
    /\ ~isActive /\ SignedIn => accessToken >= suspendedFor
    /\ ~isActive /\ suspendedFor > 0 =>
          \A t \in Tab, k \in Renewers : renewal[t][k].step # "granted"

\* While nobody uses a screen the note of activity gets older with it; once it
\* is too old nothing is renewed, and the token has its age.
IdleAges ==
    SignedIn /\ ~restored =>
        /\ lastActive # None
        /\ lastActive >= untouched \/ lastActive = IDLE_LIMIT + 1
        /\ accessToken + IDLE_LIMIT >= untouched
        /\ untouched > IDLE_LIMIT => \A t \in Tab, k \in Renewers : renewal[t][k] = NoRenewal

\* The inductive invariant of a session.
SessionInv == SessionTypeOK /\ LateOnes /\ SuspendedAges /\ IdleAges

\* The values of what the tabs keep, but for the ages.
TabTypes ==
    /\ leaving \in BOOLEAN /\ view \in [Tab -> {"login", "staff"}]
    /\ refreshTimer \in [Tab -> Ages(REFRESH_EVERY)]
    /\ renewal \in [Tab -> [Renewers -> Renewal]]
    /\ calling \in [Tab -> {"none", "fetch", "download"}] /\ told \in [Tab -> BOOLEAN]
    /\ \A t \in Tab : renewal[t]["request"] # NoRenewal => calling[t] # "none"

\* No renewal is new, moved on or less late than it was.
Fewer(new, old) ==
    \A t \in Tab, k \in Renewers :
        \/ new[t][k] = NoRenewal
        \/ /\ old[t][k] # NoRenewal /\ new[t][k].step = old[t][k].step
           /\ old[t][k].late => new[t][k].late

\* Every renewal under way is of a session that has ended.
AllAreLate(r) == \A t \in Tab, k \in Renewers : r[t][k] # NoRenewal => r[t][k].late

\* Renewals marked as late are all late, and the same ones otherwise.
LEMMA LateRenewals ==
    ASSUME NEW r \in [Tab -> [Renewers -> Renewal]]
    PROVE  /\ AllLate(r) \in [Tab -> [Renewers -> Renewal]]
           /\ Fewer(AllLate(r), r) /\ Fewer(r, r) /\ AllAreLate(AllLate(r))
           /\ \A t \in Tab, k \in Renewers : AllLate(r)[t][k] = NoRenewal <=> r[t][k] = NoRenewal
<1>1. ASSUME NEW t \in Tab, NEW k \in Renewers, r[t][k] # NoRenewal
      PROVE  /\ r[t][k] \in [step : {"sent", "granted"}, cookie : BOOLEAN, late : BOOLEAN]
             /\ AllLate(r)[t][k] \in [step : {"sent", "granted"}, cookie : BOOLEAN, late : BOOLEAN]
             /\ AllLate(r)[t][k].late /\ AllLate(r)[t][k].step = r[t][k].step
             /\ AllLate(r)[t][k] # NoRenewal
  <2>1. r[t][k] \in [step : {"sent", "granted"}, cookie : BOOLEAN, late : BOOLEAN]
    BY <1>1 DEF Renewal
  <2>2. AllLate(r)[t][k] = [r[t][k] EXCEPT !.late = TRUE]
    BY <1>1 DEF AllLate
  <2> QED BY <2>1, <2>2 DEF NoRenewal
<1>2. ASSUME NEW t \in Tab, NEW k \in Renewers, r[t][k] = NoRenewal
      PROVE  AllLate(r)[t][k] = NoRenewal
  BY <1>2 DEF AllLate
<1>3. AllLate(r) \in [Tab -> [Renewers -> Renewal]]
  BY <1>1, <1>2 DEF AllLate, Renewal
<1> QED BY <1>1, <1>2, <1>3 DEF Fewer, AllAreLate

\* Steps that end the session or nothing: no renewal is new, and those of a
\* session that ends are late.
LEMMA EndingKeeps ==
    ASSUME SessionInv, TabTypes', acts' \in 0 .. MaxActs, cookie' \in Ages(COOKIE_LIFE),
           UNCHANGED <<account, untouched, restored>>, Fewer(renewal', renewal),
           \/ ClearStored /\ (SignedIn => AllAreLate(renewal'))
           \/ /\ accessToken' = accessToken /\ lastActive' \in Ages(IDLE_LIMIT + 1)
              /\ lastActive # None => lastActive' = lastActive
    PROVE  SessionInv' /\ (SignedIn' => SignedIn)
<1> USE SessionAssumption DEF account
<1>0. SessionTypeOK /\ LateOnes /\ SuspendedAges /\ IdleAges
  BY DEF SessionInv
<1>1. accessToken' = accessToken \/ accessToken' = None
  BY DEF ClearStored
<1>2. accessToken' \in Ages(ACCESS_LIFE) /\ lastActive' \in Ages(IDLE_LIMIT + 1)
  BY <1>0 DEF SessionTypeOK, ClearStored, Ages
<1>3. SessionTypeOK'
  BY <1>0, <1>2 DEF SessionTypeOK, TabTypes
<1>4. LateOnes'
  BY <1>0 DEF LateOnes, SignedIn, AllAreLate, Fewer, ClearStored
<1>5. SuspendedAges'
  <2>1. ASSUME NEW t \in Tab, NEW k \in Renewers, renewal[t][k].step # "granted"
        PROVE renewal'[t][k].step # "granted"
    BY <2>1 DEF Fewer, NoRenewal
  <2> QED BY <1>0, <1>1, <2>1 DEF SuspendedAges, SignedIn
<1>6. IdleAges'
  BY <1>0, <1>1 DEF IdleAges, SignedIn, ClearStored, Fewer
<1> QED BY <1>1, <1>3, <1>4, <1>5, <1>6 DEF SessionInv, SignedIn

\* What the type invariant says of the tabs.
LEMMA TabsTyped == SessionTypeOK => TabTypes
BY DEF SessionTypeOK, TabTypes

\* A tab that loads the sign-in page drops what it was doing.
LEMMA LoadLoginTypes ==
    ASSUME SessionTypeOK, NEW t \in Tab, NEW r \in [Tab -> [Renewers -> Renewal]],
           \A u \in Tab : r[u]["request"] # NoRenewal => calling[u] # "none",
           LoadLogin(t, r), leaving' \in BOOLEAN
    PROVE  TabTypes' /\ Fewer(renewal', r) /\ (AllAreLate(r) => AllAreLate(renewal'))
<1> DEFINE none == [k \in Renewers |-> NoRenewal]
<1>0. NoRenewal \in Renewal /\ "request" \in Renewers
  BY DEF Renewal, Renewers
<1>1. renewal' = [r EXCEPT ![t] = none]
  BY DEF LoadLogin
<1>2. /\ renewal' \in [Tab -> [Renewers -> Renewal]] /\ renewal'[t] = none
      /\ \A u \in Tab \ {t} : renewal'[u] = r[u]
  BY <1>0, <1>1
<1>3. \A k \in Renewers : renewal'[t][k] = NoRenewal
  BY <1>2
<1>4. /\ view' \in [Tab -> {"login", "staff"}] /\ refreshTimer' \in [Tab -> Ages(REFRESH_EVERY)]
      /\ calling' \in [Tab -> {"none", "fetch", "download"}]
      /\ \A u \in Tab \ {t} : calling'[u] = calling[u]
  BY DEF LoadLogin, SessionTypeOK, Ages
<1>5. told' \in [Tab -> BOOLEAN]
  <2>1. told \in [Tab -> BOOLEAN] /\ told' = [told EXCEPT ![t] = FALSE]
    BY DEF LoadLogin, SessionTypeOK
  <2> QED BY <2>1
<1>6. \A u \in Tab : renewal'[u]["request"] # NoRenewal => calling'[u] # "none"
  BY <1>0, <1>2, <1>3, <1>4
<1>7. Fewer(renewal', r) /\ (AllAreLate(r) => AllAreLate(renewal'))
  BY <1>2, <1>3 DEF Fewer, AllAreLate
<1> QED BY <1>2, <1>4, <1>5, <1>6, <1>7 DEF TabTypes

\* Giving a request or a timer up ends the session, or only drops the renewal.
LEMMA GiveUpKeeps ==
    ASSUME SessionInv, NEW t \in Tab, NEW k \in Renewers, NEW clears \in BOOLEAN,
           NEW r \in [Tab -> [Renewers -> Renewal]], Fewer(r, renewal),
           GiveUp(t, k, r, clears), leaving' \in BOOLEAN,
           UNCHANGED <<cookie, account, untouched, restored, acts>>
    PROVE  SessionInv' /\ (SignedIn' => SignedIn)
<1>0. /\ SessionTypeOK /\ renewal \in [Tab -> [Renewers -> Renewal]]
      /\ "request" \in Renewers /\ NoRenewal \in Renewal
  BY DEF SessionInv, SessionTypeOK, Renewal, Renewers
<1>1. \A u \in Tab : r[u]["request"] # NoRenewal => calling[u] # "none"
  BY <1>0 DEF Fewer, SessionTypeOK
<1> DEFINE late == AllLate(r)
<1>2. /\ late \in [Tab -> [Renewers -> Renewal]] /\ AllAreLate(late) /\ Fewer(late, r)
      /\ \A u \in Tab, j \in Renewers : late[u][j] = NoRenewal <=> r[u][j] = NoRenewal
  BY LateRenewals
<1>3. Fewer(late, renewal)
  BY <1>2 DEF Fewer
<1>4. \A u \in Tab : late[u]["request"] # NoRenewal => calling[u] # "none"
  BY <1>0, <1>1, <1>2
<1>5. acts' \in 0 .. MaxActs /\ cookie' \in Ages(COOKIE_LIFE) /\ lastActive \in Ages(IDLE_LIMIT + 1)
  BY <1>0 DEF SessionTypeOK
<1>6. CASE k = "request" /\ calling[t] = "download"
  <2>1. PICK q \in {r, late} :
           /\ renewal' = [q EXCEPT ![t]["request"] = NoRenewal]
           /\ (clears /\ q = late /\ ClearStored) \/ (~clears /\ UNCHANGED stored)
    BY <1>6 DEF GiveUp
  <2>2. /\ q \in [Tab -> [Renewers -> Renewal]] /\ Fewer(q, renewal)
        /\ \A u \in Tab : q[u]["request"] # NoRenewal => calling[u] # "none"
    BY <1>1, <1>2, <1>3, <1>4, <2>1
  <2>3. /\ renewal' \in [Tab -> [Renewers -> Renewal]]
        /\ renewal'[t]["request"] = NoRenewal
        /\ \A u \in Tab, j \in Renewers : renewal'[u][j] = NoRenewal \/ renewal'[u][j] = q[u][j]
    BY <1>0, <2>1, <2>2
  <2>4. /\ calling' = [calling EXCEPT ![t] = "none"] /\ told' = [told EXCEPT ![t] = TRUE]
        /\ refreshTimer' \in {refreshTimer, [refreshTimer EXCEPT ![t] = None]} /\ view' = view
    BY <1>6 DEF GiveUp
  <2>5. /\ refreshTimer' \in [Tab -> Ages(REFRESH_EVERY)]
        /\ calling' \in [Tab -> {"none", "fetch", "download"}]
        /\ \A u \in Tab \ {t} : calling'[u] = calling[u]
    BY <1>0, <2>4 DEF SessionTypeOK, Ages
  <2>6. told' \in [Tab -> BOOLEAN]
    BY <1>0, <2>4 DEF SessionTypeOK
  <2>7. \A u \in Tab : renewal'[u]["request"] # NoRenewal => calling'[u] # "none"
    BY <1>0, <2>2, <2>3, <2>5
  <2>8. TabTypes'
    BY <1>0, <2>3, <2>4, <2>5, <2>6, <2>7 DEF TabTypes, SessionTypeOK
  <2>9. Fewer(renewal', renewal)
    BY <2>2, <2>3 DEF Fewer
  <2>10. clears => AllAreLate(renewal')
    BY <1>2, <2>1, <2>3 DEF AllAreLate
  <2> QED BY <1>5, <2>1, <2>8, <2>9, <2>10, EndingKeeps DEF stored
<1>7. CASE ~(k = "request" /\ calling[t] = "download")
  <2>1. PICK q \in {r, late} :
           /\ LoadLogin(t, q)
           /\ (q = late /\ ClearStored) \/ UNCHANGED stored
    BY <1>7 DEF GiveUp
  <2>2. /\ q \in [Tab -> [Renewers -> Renewal]] /\ Fewer(q, renewal)
        /\ \A u \in Tab : q[u]["request"] # NoRenewal => calling[u] # "none"
    BY <1>1, <1>2, <1>3, <1>4, <2>1
  <2>3. TabTypes' /\ Fewer(renewal', q) /\ (AllAreLate(q) => AllAreLate(renewal'))
    BY <1>0, <2>1, <2>2, LoadLoginTypes
  <2>4. Fewer(renewal', renewal)
    BY <2>2, <2>3 DEF Fewer
  <2> QED BY <1>2, <1>5, <2>1, <2>3, <2>4, EndingKeeps DEF stored
<1> QED BY <1>6, <1>7

\* Signing out, opening a page, the guard, a refused request, a sign-out answered.
LEMMA PeopleKeep ==
    ASSUME SessionInv,
           \/ SignOutAnswered
           \/ \E t \in Tab : \/ LogOut(t) \/ OpenScreen(t) \/ GuardRenders(t)
                             \/ \E kind \in {"fetch", "download"} : CallRefused(t, kind)
    PROVE  SessionInv' /\ (SignedIn' => SignedIn)
<1> USE SessionAssumption DEF stored, account, inTabs
<1>0. /\ SessionTypeOK /\ TabTypes /\ renewal \in [Tab -> [Renewers -> Renewal]]
      /\ acts \in 0 .. MaxActs /\ cookie \in Ages(COOKIE_LIFE) /\ lastActive \in Ages(IDLE_LIMIT + 1)
  BY TabsTyped DEF SessionInv, SessionTypeOK
<1>1. Fewer(renewal, renewal)
  BY <1>0, LateRenewals
<1>a. Act => acts' \in 0 .. MaxActs
  BY <1>0 DEF Act
<1>b. TRUE \in BOOLEAN /\ FALSE \in BOOLEAN
  OBVIOUS
<1>2. CASE SignOutAnswered
  <2>1. leaving' \in BOOLEAN
    BY <1>2, <1>b, Zenon DEF SignOutAnswered
  <2>2. cookie' \in Ages(COOKIE_LIFE)
    BY <1>0, <1>2 DEF SignOutAnswered, Ages
  <2>3. TabTypes'
    BY <1>0, <1>2, <2>1 DEF SignOutAnswered, TabTypes
  <2>4. Fewer(renewal', renewal)
    BY <1>1, <1>2 DEF SignOutAnswered
  <2> QED BY <1>0, <1>2, <2>2, <2>3, <2>4, EndingKeeps DEF SignOutAnswered
<1>3. ASSUME NEW t \in Tab, LogOut(t) PROVE SessionInv' /\ (SignedIn' => SignedIn)
  <2>1. /\ renewal' \in [Tab -> [Renewers -> Renewal]] /\ Fewer(renewal', renewal)
        /\ AllAreLate(renewal')
        /\ \A u \in Tab, k \in Renewers : renewal'[u][k] = NoRenewal <=> renewal[u][k] = NoRenewal
    BY <1>0, <1>3, LateRenewals DEF LogOut
  <2>2. leaving' \in BOOLEAN
    BY <1>3, <1>b, Zenon DEF LogOut
  <2>3. view' \in [Tab -> {"login", "staff"}] /\ refreshTimer' \in [Tab -> Ages(REFRESH_EVERY)]
    BY <1>0, <1>3 DEF LogOut, TabTypes, Ages
  <2>4. TabTypes'
    BY <1>0, <1>3, <2>1, <2>2, <2>3 DEF LogOut, TabTypes, Renewers
  <2> QED BY <1>0, <1>3, <1>a, <2>1, <2>4, EndingKeeps DEF LogOut
<1>4. ASSUME NEW t \in Tab, OpenScreen(t) PROVE SessionInv' /\ (SignedIn' => SignedIn)
  <2>1. CASE SignedIn /\ ~IdleTooLong
    <3> DEFINE none == [k \in Renewers |-> NoRenewal]
    <3>1. /\ view' = [view EXCEPT ![t] = "staff"]
          /\ refreshTimer' = [refreshTimer EXCEPT ![t] = REFRESH_EVERY]
          /\ renewal' = [renewal EXCEPT ![t] = none]
          /\ calling' = [calling EXCEPT ![t] = "none"] /\ told' = [told EXCEPT ![t] = FALSE]
          /\ lastActive' = IF lastActive = None THEN 0 ELSE lastActive
          /\ UNCHANGED <<accessToken, leaving, cookie, account, untouched, restored>>
      BY <1>4, <2>1 DEF OpenScreen
    <3>2. NoRenewal \in Renewal /\ "request" \in Renewers
      BY DEF Renewal, Renewers
    <3>3. /\ renewal' \in [Tab -> [Renewers -> Renewal]] /\ renewal'[t] = none
          /\ \A u \in Tab \ {t} : renewal'[u] = renewal[u]
      BY <1>0, <3>1, <3>2
    <3>4. \A k \in Renewers : renewal'[t][k] = NoRenewal
      BY <3>3
    <3>5. Fewer(renewal', renewal)
      BY <1>1, <3>3, <3>4 DEF Fewer
    <3>6. /\ view' \in [Tab -> {"login", "staff"}] /\ refreshTimer' \in [Tab -> Ages(REFRESH_EVERY)]
          /\ calling' \in [Tab -> {"none", "fetch", "download"}]
          /\ \A u \in Tab \ {t} : calling'[u] = calling[u]
      BY <1>0, <3>1 DEF TabTypes, Ages
    <3>7. told' \in [Tab -> BOOLEAN]
      BY <1>0, <3>1 DEF TabTypes
    <3>8. TabTypes'
      BY <1>0, <3>1, <3>2, <3>3, <3>4, <3>6, <3>7 DEF TabTypes
    <3>9. lastActive' \in Ages(IDLE_LIMIT + 1)
      BY <1>0, <3>1 DEF Ages
    <3>10. Act
      BY <1>4 DEF OpenScreen
    <3> QED BY <1>0, <1>a, <3>1, <3>5, <3>8, <3>9, <3>10, EndingKeeps
  <2>2. CASE ~(SignedIn /\ ~IdleTooLong)
    <3> DEFINE q == IF SignedIn THEN AllLate(renewal) ELSE renewal
    <3>1. /\ LoadLogin(t, q) /\ Act /\ UNCHANGED <<cookie, account, untouched, restored>>
          /\ IF SignedIn THEN ClearStored /\ leaving' = TRUE ELSE UNCHANGED <<stored, leaving>>
      BY <1>4, <2>2 DEF OpenScreen
    <3>2. /\ q \in [Tab -> [Renewers -> Renewal]] /\ Fewer(q, renewal) /\ (SignedIn => AllAreLate(q))
          /\ \A u \in Tab, k \in Renewers : q[u][k] = NoRenewal <=> renewal[u][k] = NoRenewal
      BY <1>0, <1>1, LateRenewals
    <3>3. leaving' \in BOOLEAN
      <4>1. CASE SignedIn
        BY <3>1, <4>1, <1>b, Zenon
      <4>2. CASE ~SignedIn
        BY <1>0, <3>1, <4>2 DEF TabTypes
      <4> QED BY <4>1, <4>2
    <3>4. \A u \in Tab : q[u]["request"] # NoRenewal => calling[u] # "none"
      BY <1>0, <3>2 DEF TabTypes, Renewers
    <3>5. TabTypes' /\ Fewer(renewal', q) /\ (AllAreLate(q) => AllAreLate(renewal'))
      <4> HIDE DEF q
      <4> QED BY <1>0, <3>1, <3>2, <3>3, <3>4, LoadLoginTypes
    <3>6. Fewer(renewal', renewal)
      <4> HIDE DEF q
      <4> QED BY <3>2, <3>5 DEF Fewer
    <3>7. \/ ClearStored /\ (SignedIn => AllAreLate(renewal'))
          \/ accessToken' = accessToken /\ lastActive' = lastActive
      <4> HIDE DEF q
      <4> QED BY <3>1, <3>2, <3>5
    <3> QED BY <1>0, <1>a, <3>1, <3>5, <3>6, <3>7, EndingKeeps
  <2> QED BY <2>1, <2>2
<1>5. ASSUME NEW t \in Tab, GuardRenders(t) PROVE SessionInv' /\ (SignedIn' => SignedIn)
  <2>1. view' \in [Tab -> {"login", "staff"}]
    BY <1>0, <1>5 DEF GuardRenders, TabTypes
  <2>2. TabTypes' /\ Fewer(renewal', renewal)
    BY <1>0, <1>1, <1>5, <2>1 DEF GuardRenders, TabTypes
  <2> QED BY <1>0, <1>5, <2>2, EndingKeeps DEF GuardRenders
<1>6. ASSUME NEW t \in Tab, NEW kind \in {"fetch", "download"}, CallRefused(t, kind)
      PROVE SessionInv' /\ (SignedIn' => SignedIn)
  <2>1. /\ calling' \in [Tab -> {"none", "fetch", "download"}]
        /\ \A u \in Tab : calling[u] # "none" => calling'[u] # "none"
    BY <1>0, <1>6 DEF CallRefused, TabTypes
  <2>2. TabTypes' /\ Fewer(renewal', renewal)
    BY <1>0, <1>1, <1>6, <2>1 DEF CallRefused, TabTypes
  <2> QED BY <1>0, <1>6, <2>2, EndingKeeps DEF CallRefused
<1> QED BY <1>2, <1>3, <1>4, <1>5, <1>6

\* A renewal is asked for, or given up: it is asked for only by a session that
\* is on, and not after too long without use.
LEMMA AskingKeeps ==
    ASSUME SessionInv, NEW t \in Tab, NEW k \in Renewers, refreshAccessToken(t, k),
           renewal[t][k] = NoRenewal, k = "request" => calling[t] # "none",
           UNCHANGED <<cookie, account, untouched, restored, acts>>
    PROVE  SessionInv' /\ (SignedIn' => SignedIn)
<1> USE SessionAssumption
<1>0. /\ SessionTypeOK /\ TabTypes /\ renewal \in [Tab -> [Renewers -> Renewal]] /\ leaving \in BOOLEAN
      /\ LateOnes /\ SuspendedAges /\ IdleAges
      /\ accessToken \in Ages(ACCESS_LIFE) /\ lastActive \in Ages(IDLE_LIMIT + 1)
      /\ untouched \in 0 .. LongIdle
  BY TabsTyped DEF SessionInv, SessionTypeOK
<1>1. Fewer(renewal, renewal)
  BY <1>0, LateRenewals
<1>2. CASE ~CanRenew
  <2>1. GiveUp(t, k, renewal, FALSE) /\ leaving' \in BOOLEAN
    BY <1>0, <1>2 DEF refreshAccessToken
  <2> QED BY <1>0, <1>1, <2>1, GiveUpKeeps
<1>3. CASE CanRenew /\ TooIdleToRenew
  <2>1. GiveUp(t, k, renewal, TRUE) /\ leaving' = TRUE
    BY <1>3 DEF refreshAccessToken
  <2>2. leaving' \in BOOLEAN
    BY <2>1, Zenon
  <2> QED BY <1>0, <1>1, <2>1, <2>2, GiveUpKeeps
<1>4. CASE CanRenew /\ ~TooIdleToRenew
  <2> DEFINE sent == [step |-> "sent", cookie |-> cookie # None /\ cookie < COOKIE_LIFE, late |-> FALSE]
  <2>a. SignedIn /\ (lastActive = None \/ lastActive <= IDLE_LIMIT)
    BY <1>0, <1>4 DEF CanRenew, TooIdleToRenew, IdleTooLong, Ages
  <2>b. /\ renewal' = [renewal EXCEPT ![t][k] = sent]
        /\ lastActive' = IF lastActive = None THEN 0 ELSE lastActive
        /\ refreshTimer' = IF k = "timer" THEN [refreshTimer EXCEPT ![t] = None] ELSE refreshTimer
        /\ UNCHANGED <<accessToken, leaving, view, calling, told>>
    BY <1>4, Zenon DEF refreshAccessToken
  <2>0. /\ SignedIn /\ (lastActive = None \/ lastActive <= IDLE_LIMIT)
        /\ renewal' = [renewal EXCEPT ![t][k] = sent]
        /\ lastActive' = IF lastActive = None THEN 0 ELSE lastActive
        /\ refreshTimer' = IF k = "timer" THEN [refreshTimer EXCEPT ![t] = None] ELSE refreshTimer
        /\ UNCHANGED <<accessToken, leaving, view, calling, told>>
    BY <2>a, <2>b
  <2>1. sent \in Renewal /\ sent.step = "sent"
    BY DEF Renewal
  <2>2. /\ renewal' \in [Tab -> [Renewers -> Renewal]]
        /\ \A u \in Tab, j \in Renewers : renewal'[u][j] = renewal[u][j]
                                        \/ (u = t /\ j = k /\ renewal'[u][j] = sent)
    BY <1>0, <2>0, <2>1
  <2>3. refreshTimer' \in [Tab -> Ages(REFRESH_EVERY)]
    BY <1>0, <2>0 DEF TabTypes, Ages
  <2>4. \A u \in Tab : renewal'[u]["request"] # NoRenewal => calling'[u] # "none"
    BY <1>0, <2>0, <2>2 DEF TabTypes, Renewers
  <2>5. lastActive' \in Ages(IDLE_LIMIT + 1)
    BY <1>0, <2>0 DEF Ages
  <2>6. SessionTypeOK'
    BY <1>0, <2>0, <2>2, <2>3, <2>4, <2>5 DEF SessionTypeOK, account
  <2>7. LateOnes'
    BY <2>0 DEF LateOnes, SignedIn
  <2>8. SuspendedAges'
    BY <1>0, <2>0, <2>1, <2>2 DEF SuspendedAges, SignedIn, account
  <2>9. IdleAges'
    <3>1. ~restored => lastActive # None /\ untouched <= IDLE_LIMIT
      BY <1>0, <2>0 DEF IdleAges, Ages, LongIdle
    <3> QED BY <1>0, <2>0, <3>1 DEF IdleAges, SignedIn, LongIdle
  <2> QED BY <2>0, <2>6, <2>7, <2>8, <2>9 DEF SessionInv
<1> QED BY <1>2, <1>3, <1>4

\* The API grants a renewal, or it fails: a suspended account is granted none.
LEMMA AnswersKeep ==
    ASSUME SessionInv, NEW t \in Tab, NEW k \in Renewers, ApiRenews(t, k) \/ RenewalFails(t, k)
    PROVE  SessionInv' /\ (SignedIn' => SignedIn)
<1> USE SessionAssumption
<1>0. /\ SessionTypeOK /\ renewal \in [Tab -> [Renewers -> Renewal]] /\ leaving \in BOOLEAN
      /\ LateOnes /\ SuspendedAges /\ IdleAges
  BY DEF SessionInv, SessionTypeOK
<1>1. NoRenewal \in Renewal
  BY DEF Renewal
<1>2. CASE RenewalFails(t, k)
  <2> DEFINE r == [renewal EXCEPT ![t][k] = NoRenewal]
  <2>1. r \in [Tab -> [Renewers -> Renewal]] /\ Fewer(r, renewal)
    BY <1>0, <1>1 DEF Fewer
  <2>2. PICK clears \in BOOLEAN : GiveUp(t, k, r, clears)
    BY <1>2 DEF RenewalFails
  <2>3. UNCHANGED <<cookie, account, untouched, restored, acts>> /\ leaving' \in BOOLEAN
    BY <1>0, <1>2 DEF RenewalFails
  <2> HIDE DEF r
  <2> QED BY <2>1, <2>2, <2>3, GiveUpKeeps
<1>3. CASE ApiRenews(t, k)
  <2>0. /\ renewal[t][k].step = "sent" /\ isActive
        /\ renewal' = [renewal EXCEPT ![t][k].step = "granted"]
        /\ UNCHANGED <<stored, cookie, leaving, account, view, refreshTimer, calling, told,
                       untouched, restored, acts>>
    BY <1>3 DEF ApiRenews, Granted
  <2>1. renewal[t][k] \in [step : {"sent", "granted"}, cookie : BOOLEAN, late : BOOLEAN]
    BY <1>0, <2>0 DEF Renewal, NoRenewal
  <2> DEFINE granted == [renewal[t][k] EXCEPT !.step = "granted"]
  <2>2. /\ granted \in Renewal /\ granted.late = renewal[t][k].late
        /\ renewal[t][k] # NoRenewal /\ granted # NoRenewal
    BY <2>1 DEF Renewal, NoRenewal
  <2>3. /\ renewal' \in [Tab -> [Renewers -> Renewal]]
        /\ \A u \in Tab, j \in Renewers : renewal'[u][j] = renewal[u][j]
                                        \/ (u = t /\ j = k /\ renewal'[u][j] = granted)
    BY <1>0, <2>0, <2>2
  <2>4. \A u \in Tab, j \in Renewers : renewal'[u][j] # NoRenewal => renewal[u][j] # NoRenewal
    BY <2>2, <2>3
  <2>5. SessionTypeOK'
    BY <1>0, <2>0, <2>3, <2>4 DEF SessionTypeOK, account, stored, Renewers
  <2>6. LateOnes'
    BY <1>0, <2>0, <2>2, <2>3 DEF LateOnes, SignedIn, stored
  <2>7. SuspendedAges'
    BY <1>0, <2>0 DEF SuspendedAges, SignedIn, account
  <2>8. IdleAges'
    BY <1>0, <2>0, <2>4 DEF IdleAges, SignedIn, stored
  <2> QED BY <2>0, <2>5, <2>6, <2>7, <2>8 DEF SessionInv, SignedIn, stored
<1> QED BY <1>2, <1>3

\* A granted renewal reaches the browser: only a late one brings an ended
\* session back.
LEMMA GrantedKeeps ==
    ASSUME SessionInv, NEW t \in Tab, NEW k \in Renewers, RenewalGranted(t, k)
    PROVE  SessionInv' /\ (SignedIn \/ (renewal[t][k] # NoRenewal /\ renewal[t][k].late))
<1> USE SessionAssumption
<1>0. /\ SessionTypeOK /\ TabTypes /\ renewal \in [Tab -> [Renewers -> Renewal]]
      /\ restored \in BOOLEAN /\ LateOnes /\ SuspendedAges /\ IdleAges
  BY TabsTyped DEF SessionInv, SessionTypeOK
<1>1. NoRenewal \in Renewal
  BY DEF Renewal
<1>2. /\ renewal[t][k].step = "granted" /\ renewal[t][k] # NoRenewal
      /\ accessToken' = 0 /\ cookie' = 0 /\ restored' = (restored \/ ~SignedIn)
      /\ renewal' = [renewal EXCEPT ![t][k] = NoRenewal]
      /\ UNCHANGED <<lastActive, leaving, account, view, told, untouched, acts>>
  BY DEF RenewalGranted, NoRenewal
<1>3. /\ renewal' \in [Tab -> [Renewers -> Renewal]] /\ renewal'[t][k] = NoRenewal
      /\ \A u \in Tab, j \in Renewers : renewal'[u][j] = renewal[u][j] \/ renewal'[u][j] = NoRenewal
  BY <1>0, <1>1, <1>2
<1>4. /\ refreshTimer' \in [Tab -> Ages(REFRESH_EVERY)]
      /\ calling' \in [Tab -> {"none", "fetch", "download"}]
      /\ \A u \in Tab : calling'[u] = calling[u] \/ (u = t /\ k = "request")
  <2>1. CASE k = "timer"
    <3>1. refreshTimer' = [refreshTimer EXCEPT ![t] = REFRESH_EVERY] /\ calling' = calling
      BY <2>1 DEF RenewalGranted
    <3> QED BY <1>0, <3>1 DEF TabTypes, Ages
  <2>2. CASE k = "request"
    <3>1. refreshTimer' = refreshTimer /\ calling' = [calling EXCEPT ![t] = "none"]
      BY <2>2 DEF RenewalGranted
    <3> QED BY <1>0, <2>2, <3>1 DEF TabTypes
  <2> QED BY <2>1, <2>2 DEF Renewers
<1>5. \A u \in Tab : renewal'[u]["request"] # NoRenewal => calling'[u] # "none"
  BY <1>0, <1>3, <1>4 DEF TabTypes, Renewers
<1>6. SessionTypeOK'
  <2>1. accessToken' \in Ages(ACCESS_LIFE) /\ cookie' \in Ages(COOKIE_LIFE)
    BY <1>2 DEF Ages
  <2>2. restored' \in BOOLEAN
    BY <1>0, <1>2 DEF SignedIn
  <2> QED BY <1>0, <1>2, <1>3, <1>4, <1>5, <2>1, <2>2 DEF SessionTypeOK, account
<1>7. LateOnes'
  BY <1>2 DEF LateOnes, SignedIn
<1>8. SuspendedAges'
  <2>1. isActive \/ suspendedFor = 0
    BY <1>0, <1>2 DEF SuspendedAges, SessionTypeOK
  <2> QED BY <1>0, <1>2, <1>3, <2>1 DEF SuspendedAges, SignedIn, account, SessionTypeOK
<1>9. IdleAges'
  <2> SUFFICES ASSUME SignedIn, ~restored PROVE IdleAges'
    BY <1>0, <1>2 DEF IdleAges
  <2>1. /\ lastActive # None /\ (lastActive >= untouched \/ lastActive = IDLE_LIMIT + 1)
        /\ ~(untouched > IDLE_LIMIT)
    BY <1>0, <1>2 DEF IdleAges
  <2>2. untouched \in Nat
    BY <1>0 DEF SessionTypeOK, LongIdle
  <2> QED BY <1>2, <2>1, <2>2 DEF IdleAges
<1> QED BY <1>0, <1>2, <1>6, <1>7, <1>8, <1>9 DEF SessionInv, LateOnes

\* Someone signs in, uses a screen, or the account is suspended.
LEMMA ActsKeep ==
    ASSUME SessionInv, Suspend \/ \E t \in Tab : SignIn(t) \/ UseScreen(t)
    PROVE  SessionInv'
<1> USE SessionAssumption DEF stored, account, inTabs
<1>0. /\ SessionTypeOK /\ TabTypes /\ acts \in 0 .. MaxActs /\ LateOnes /\ SuspendedAges /\ IdleAges
  BY TabsTyped DEF SessionInv, SessionTypeOK
<1>a. Act => acts' \in 0 .. MaxActs
  BY <1>0 DEF Act
<1>b. Used => /\ untouched' = 0 /\ restored' = FALSE /\ 0 \in 0 .. LongIdle /\ restored' \in BOOLEAN
  <2>1. Used => restored' \in BOOLEAN
    BY Zenon DEF Used
  <2> QED BY <2>1 DEF Used, LongIdle
<1>1. CASE Suspend
  <2>0. /\ isActive /\ Act /\ isActive' = FALSE
        /\ UNCHANGED <<stored, cookie, leaving, suspendedFor, inTabs, untouched, restored>>
    BY <1>1 DEF Suspend
  <2>1. isActive' \in BOOLEAN
    BY <2>0, Zenon
  <2>2. SessionTypeOK'
    BY <1>0, <1>a, <2>0, <2>1 DEF SessionTypeOK
  <2>3. LateOnes' /\ IdleAges'
    BY <1>0, <2>0 DEF LateOnes, IdleAges, SignedIn
  <2>4. SuspendedAges'
    BY <1>0, <2>0 DEF SuspendedAges, SignedIn, SessionTypeOK, Ages
  <2> QED BY <2>2, <2>3, <2>4 DEF SessionInv
<1>2. ASSUME NEW t \in Tab, SignIn(t) PROVE SessionInv'
  <2>0. /\ isActive /\ accessToken' = 0 /\ lastActive' = 0 /\ cookie' = 0 /\ Act /\ Used
        /\ view' = [view EXCEPT ![t] = "staff"]
        /\ refreshTimer' = [refreshTimer EXCEPT ![t] = REFRESH_EVERY]
        /\ UNCHANGED <<leaving, account, renewal, calling, told>>
    BY <1>2 DEF SignIn
  <2>1. /\ accessToken' \in Ages(ACCESS_LIFE) /\ cookie' \in Ages(COOKIE_LIFE)
        /\ lastActive' \in Ages(IDLE_LIMIT + 1)
    BY <2>0 DEF Ages
  <2>2. view' \in [Tab -> {"login", "staff"}] /\ refreshTimer' \in [Tab -> Ages(REFRESH_EVERY)]
    BY <1>0, <2>0 DEF TabTypes, Ages
  <2>3. SessionTypeOK'
    BY <1>0, <1>a, <1>b, <2>0, <2>1, <2>2 DEF SessionTypeOK
  <2>4. LateOnes' /\ SuspendedAges'
    BY <1>0, <2>0 DEF LateOnes, SuspendedAges, SignedIn
  <2>5. IdleAges'
    BY <1>b, <2>0 DEF IdleAges
  <2> QED BY <2>3, <2>4, <2>5 DEF SessionInv
<1>3. ASSUME NEW t \in Tab, UseScreen(t) PROVE SessionInv'
  <2>0. /\ Act /\ Used /\ lastActive' = 0
        /\ UNCHANGED <<accessToken, cookie, leaving, account, inTabs>>
    BY <1>3 DEF UseScreen
  <2>1. lastActive' \in Ages(IDLE_LIMIT + 1)
    BY <2>0 DEF Ages
  <2>2. SessionTypeOK'
    BY <1>0, <1>a, <1>b, <2>0, <2>1 DEF SessionTypeOK
  <2>3. LateOnes' /\ SuspendedAges'
    BY <1>0, <2>0 DEF LateOnes, SuspendedAges, SignedIn
  <2>4. IdleAges'
    BY <1>0, <1>b, <2>0 DEF IdleAges, SignedIn, SessionTypeOK, Ages
  <2> QED BY <2>2, <2>3, <2>4 DEF SessionInv
<1> QED BY <1>1, <1>2, <1>3

\* A step of time, which finds no renewal under way.
LEMMA TimeKeeps ==
    ASSUME SessionInv, TimeGoesOn
    PROVE  SessionInv' /\ (SignedIn' => SignedIn)
<1> USE SessionAssumption
<1>0. /\ SessionTypeOK /\ TabTypes /\ LateOnes /\ SuspendedAges /\ IdleAges
      /\ accessToken \in Ages(ACCESS_LIFE) /\ lastActive \in Ages(IDLE_LIMIT + 1)
      /\ cookie \in Ages(COOKIE_LIFE) /\ untouched \in 0 .. LongIdle /\ suspendedFor \in 0 .. ACCESS_LIFE
  BY TabsTyped DEF SessionInv, SessionTypeOK
<1>1. /\ accessToken' = Older(accessToken, ACCESS_LIFE) /\ cookie' = Older(cookie, COOKIE_LIFE)
      /\ lastActive' = Older(lastActive, IDLE_LIMIT + 1) /\ untouched' = Older(untouched, LongIdle)
      /\ suspendedFor' = IF isActive THEN 0 ELSE Older(suspendedFor, ACCESS_LIFE)
      /\ UNCHANGED <<leaving, isActive, view, renewal, calling, told, restored, acts>>
  BY DEF TimeGoesOn
<1>2. \A t \in Tab, k \in Renewers : renewal[t][k] = NoRenewal
  BY <1>0 DEF TimeGoesOn, TabTypes, Renewers
<1>3. ASSUME NEW n \in Nat, NEW age \in Ages(n)
      PROVE  /\ Older(age, n) \in Ages(n) /\ (Older(age, n) = None <=> age = None)
             /\ age # None => Older(age, n) = IF age < n THEN age + 1 ELSE n
  BY DEF Older, Ages
<1>4. /\ IDLE_LIMIT + 1 \in Nat /\ LongIdle \in Nat /\ ACCESS_LIFE \in Nat /\ COOKIE_LIFE \in Nat
      /\ untouched \in Ages(LongIdle) /\ suspendedFor \in Ages(ACCESS_LIFE)
      /\ untouched # None /\ suspendedFor # None
  BY <1>0 DEF LongIdle, Ages
<1>5. /\ accessToken' \in Ages(ACCESS_LIFE) /\ lastActive' \in Ages(IDLE_LIMIT + 1)
      /\ cookie' \in Ages(COOKIE_LIFE) /\ untouched' \in 0 .. LongIdle
      /\ (SignedIn' <=> SignedIn)
  BY <1>0, <1>1, <1>3, <1>4 DEF Ages, SignedIn
<1>6. suspendedFor' \in 0 .. ACCESS_LIFE
  BY <1>0, <1>1, <1>3, <1>4 DEF Ages
<1>7. refreshTimer' \in [Tab -> Ages(REFRESH_EVERY)]
  <2>1. refreshTimer' = [t \in Tab |-> IF refreshTimer[t] \in {None, 0} THEN refreshTimer[t]
                                      ELSE refreshTimer[t] - 1]
    BY DEF TimeGoesOn
  <2>2. ASSUME NEW t \in Tab
        PROVE (IF refreshTimer[t] \in {None, 0} THEN refreshTimer[t] ELSE refreshTimer[t] - 1)
                 \in Ages(REFRESH_EVERY)
    <3>1. refreshTimer[t] = None \/ refreshTimer[t] \in 0 .. REFRESH_EVERY
      BY <1>0 DEF TabTypes, Ages
    <3>2. CASE refreshTimer[t] \in {None, 0}
      BY <3>1, <3>2 DEF Ages
    <3>3. CASE refreshTimer[t] \notin {None, 0}
      <4>1. refreshTimer[t] - 1 \in 0 .. REFRESH_EVERY
        BY <3>1, <3>3
      <4> QED BY <3>3, <4>1 DEF Ages
    <3> QED BY <3>2, <3>3
  <2> QED BY <2>1, <2>2
<1>8. SessionTypeOK'
  BY <1>0, <1>1, <1>5, <1>6, <1>7 DEF SessionTypeOK
<1>9. LateOnes'
  BY <1>1, <1>2 DEF LateOnes
<1>10. SuspendedAges'
  <2>1. \A t \in Tab, k \in Renewers : renewal'[t][k].step # "granted"
    BY <1>1, <1>2 DEF NoRenewal
  <2>2. ASSUME ~isActive, SignedIn PROVE accessToken' >= suspendedFor'
    <3>1. /\ accessToken \in 0 .. ACCESS_LIFE /\ accessToken >= suspendedFor
      BY <1>0, <2>2 DEF SuspendedAges, SignedIn, Ages
    <3>2. accessToken' = IF accessToken < ACCESS_LIFE THEN accessToken + 1 ELSE ACCESS_LIFE
      BY <1>0, <1>1, <1>3, <1>4, <2>2 DEF SignedIn
    <3>3. suspendedFor' = IF suspendedFor < ACCESS_LIFE THEN suspendedFor + 1 ELSE ACCESS_LIFE
      BY <1>1, <1>3, <1>4, <2>2
    <3> QED BY <1>0, <3>1, <3>2, <3>3
  <2> QED BY <1>1, <1>5, <2>1, <2>2 DEF SuspendedAges
<1>11. IdleAges'
  <2> SUFFICES ASSUME SignedIn, ~restored PROVE IdleAges'
    BY <1>1, <1>5 DEF IdleAges
  <2>1. /\ accessToken \in 0 .. ACCESS_LIFE /\ lastActive \in 0 .. IDLE_LIMIT + 1
        /\ lastActive # None
        /\ lastActive >= untouched \/ lastActive = IDLE_LIMIT + 1
        /\ accessToken + IDLE_LIMIT >= untouched
    BY <1>0 DEF IdleAges, SignedIn, Ages
  <2>2. /\ accessToken' = IF accessToken < ACCESS_LIFE THEN accessToken + 1 ELSE ACCESS_LIFE
        /\ lastActive' = IF lastActive < IDLE_LIMIT + 1 THEN lastActive + 1 ELSE IDLE_LIMIT + 1
        /\ untouched' = IF untouched < LongIdle THEN untouched + 1 ELSE LongIdle
    BY <1>0, <1>1, <1>3, <1>4, <2>1 DEF SignedIn
  <2>3. lastActive' # None /\ (lastActive' >= untouched' \/ lastActive' = IDLE_LIMIT + 1)
    BY <1>0, <1>4, <2>1, <2>2
  <2>4. accessToken' + IDLE_LIMIT >= untouched'
    BY <1>0, <1>4, <2>1, <2>2 DEF LongIdle
  <2> QED BY <1>1, <1>2, <2>3, <2>4 DEF IdleAges
<1> QED BY <1>5, <1>8, <1>9, <1>10, <1>11 DEF SessionInv

\* The browser is opened, in a session or in none.
LEMMA SessionStart == SessionInit => SessionInv
<1> SUFFICES ASSUME SessionInit PROVE SessionInv
  OBVIOUS
<1> USE SessionAssumption
<1>1. PICK open \in SUBSET Tab :
         LET age == IF open = {} THEN None ELSE 0 IN
         /\ accessToken = age /\ lastActive = age /\ cookie = age
         /\ view = [t \in Tab |-> IF t \in open THEN "staff" ELSE "login"]
         /\ refreshTimer = [t \in Tab |-> IF t \in open THEN REFRESH_EVERY ELSE None]
  BY DEF SessionInit
<1>2. /\ leaving = FALSE /\ isActive = TRUE /\ suspendedFor = 0
      /\ renewal = [t \in Tab |-> [k \in Renewers |-> NoRenewal]]
      /\ calling = [t \in Tab |-> "none"] /\ told = [t \in Tab |-> FALSE]
      /\ untouched = 0 /\ restored = FALSE /\ acts = 0
  BY DEF SessionInit
<1>3. leaving \in BOOLEAN /\ isActive \in BOOLEAN /\ restored \in BOOLEAN
  BY <1>2, Zenon
<1>4. /\ renewal \in [Tab -> [Renewers -> Renewal]] /\ told \in [Tab -> BOOLEAN]
      /\ \A t \in Tab, k \in Renewers : renewal[t][k] = NoRenewal
  BY <1>2 DEF Renewal
<1>5. /\ accessToken \in Ages(ACCESS_LIFE) /\ lastActive \in Ages(IDLE_LIMIT + 1)
      /\ cookie \in Ages(COOKIE_LIFE)
      /\ accessToken = lastActive /\ (accessToken = None \/ accessToken = 0)
  BY <1>1 DEF Ages
<1>6. view \in [Tab -> {"login", "staff"}] /\ refreshTimer \in [Tab -> Ages(REFRESH_EVERY)]
  BY <1>1 DEF Ages
<1>7. SessionTypeOK
  BY <1>2, <1>3, <1>4, <1>5, <1>6 DEF SessionTypeOK, LongIdle, Renewers
<1>8. LateOnes /\ SuspendedAges
  BY <1>2, <1>4, <1>5 DEF LateOnes, SuspendedAges, SignedIn
<1>9. IdleAges
  BY <1>2, <1>4, <1>5 DEF IdleAges, SignedIn
<1> QED BY <1>7, <1>8, <1>9 DEF SessionInv

\* An ended session is on again only after a sign-in or a late renewal.
ComesBack == \/ \E t \in Tab : SignIn(t)
             \/ \E t \in Tab, k \in Renewers :
                   renewal[t][k] # NoRenewal /\ renewal[t][k].late /\ RenewalGranted(t, k)

\* Every step keeps the invariant, and only a sign-in, or a renewal that was
\* under way, begins a session.
LEMMA SessionStep ==
    ASSUME SessionInv, [SessionNext]_sessionVars
    PROVE  SessionInv' /\ (~SignedIn /\ SignedIn' => ComesBack)
<1>1. CASE UNCHANGED sessionVars
  <2> USE <1>1 DEF sessionVars, SessionInv
  <2>1. SessionTypeOK'
    BY DEF SessionTypeOK
  <2>2. LateOnes' /\ SuspendedAges' /\ IdleAges' /\ (SignedIn' <=> SignedIn)
    BY DEF LateOnes, SuspendedAges, IdleAges, SignedIn
  <2> QED BY <2>1, <2>2
<1>2. ASSUME NEW t \in Tab, TimerFires(t) \/ ensureFreshToken(t)
      PROVE SessionInv' /\ (SignedIn' => SignedIn)
  <2>1. PICK k \in Renewers : /\ refreshAccessToken(t, k) /\ renewal[t][k] = NoRenewal
                              /\ k = "request" => calling[t] # "none"
    BY <1>2 DEF TimerFires, ensureFreshToken, Renewers
  <2> QED BY <1>2, <2>1, AskingKeeps DEF TimerFires, ensureFreshToken
<1>3. ASSUME NEW t \in Tab, NEW k \in Renewers, RenewalStep(t, k)
      PROVE SessionInv' /\ (~SignedIn /\ SignedIn' => ComesBack)
  BY <1>3, AnswersKeep, GrantedKeeps DEF RenewalStep, ComesBack
<1>4. CASE TimeGoesOn
  BY <1>4, TimeKeeps
<1>5. CASE Suspend
  <2>1. SignedIn' <=> SignedIn
    BY <1>5 DEF Suspend, SignedIn, stored
  <2> QED BY <1>5, <2>1, ActsKeep
<1>6. ASSUME NEW t \in Tab, UseScreen(t) PROVE SessionInv' /\ (SignedIn' => SignedIn)
  <2>1. SignedIn' <=> SignedIn
    BY <1>6 DEF UseScreen, SignedIn
  <2> QED BY <1>6, <2>1, ActsKeep
<1>7. ASSUME NEW t \in Tab, SignIn(t) PROVE SessionInv' /\ ComesBack
  BY <1>7, ActsKeep DEF ComesBack
<1>8. CASE SignOutAnswered
  BY <1>8, PeopleKeep
<1>9. ASSUME NEW t \in Tab, LogOut(t) \/ OpenScreen(t) \/ GuardRenders(t)
             \/ \E kind \in {"fetch", "download"} : CallRefused(t, kind)
      PROVE SessionInv' /\ (SignedIn' => SignedIn)
  BY <1>9, PeopleKeep
<1> QED BY <1>1, <1>2, <1>3, <1>4, <1>5, <1>6, <1>7, <1>8, <1>9 DEF SessionNext

\* The values of what a browser stores and its tabs keep are of their types,
\* and a renewal shared by requests belongs to one.
THEOREM SessionTyped == SessionSpec => []SessionTypeOK
<1>1. SessionInv => SessionTypeOK
  BY DEF SessionInv
<1> QED BY <1>1, SessionStart, SessionStep, PTL DEF SessionSpec

\* For any tabs and limits, a suspended account and screens nobody uses have no
\* access once a token's life has gone by, whatever the tabs renewed meanwhile
\* (auth/service.ts:54, auth.ts:155).
THEOREM AccessIsOver == SessionSpec => []AccessEnds
<1>1. SessionInv => AccessEnds
  <2> SUFFICES ASSUME SessionInv PROVE AccessEnds
    OBVIOUS
  <2> USE SessionAssumption
  <2>1. /\ accessToken \in Ages(ACCESS_LIFE) /\ suspendedFor \in 0 .. ACCESS_LIFE
        /\ untouched \in 0 .. LongIdle /\ SuspendedAges /\ IdleAges
    BY DEF SessionInv, SessionTypeOK
  <2>2. suspendedFor = ACCESS_LIFE => ~Works
    BY <2>1 DEF SuspendedAges, Works, SignedIn, Ages
  <2>3. untouched = LongIdle /\ ~restored => ~Works
    BY <2>1 DEF IdleAges, Works, SignedIn, Ages, LongIdle
  <2> QED BY <2>2, <2>3 DEF AccessEnds
<1> QED BY <1>1, SessionStart, SessionStep, PTL DEF SessionSpec

\* A session that ended comes back only by signing in, or by a renewal that was
\* under way when it ended (auth.ts:155).
THEOREM StaysSignedOut == SessionSpec => SignedOutStaysOut
<1>1. SessionInv /\ [SessionNext]_sessionVars =>
         [~SignedIn /\ accessToken' # None =>
             \/ \E t \in Tab : SignIn(t)
             \/ \E t \in Tab, k \in Renewers :
                   renewal[t][k] # NoRenewal /\ renewal[t][k].late /\ RenewalGranted(t, k)]_sessionVars
  BY SessionStep DEF ComesBack, SignedIn
<1> QED BY <1>1, SessionStart, SessionStep, PTL DEF SessionSpec, SignedOutStaysOut

-----------------------------------------------------------------------------
(* The accounts.                                                            *)

\* Whoever a browser is signed in as, whoever a page lists or has a dialog
\* about has an account: accounts never go away (users/service.ts has no
\* operation that deletes one).
PageKnows(page) ==
    page.open =>
        /\ \A p \in Person : page.listed[p] # NoAccount => users[p] # NoAccount
        /\ page.dialog.kind \in {"edit", "confirm"} => users[page.dialog.of] # NoAccount

\* Tokens and pages are about people whose accounts exist: an account is never deleted.
AccountsAreKept ==
    /\ \A b \in Browser : token[b] # Nobody => users[token[b].who] # NoAccount
    /\ \A b \in Browser : PageKnows(usersPage[b])

\* The inductive invariant of the accounts.
AccountsInv == AccountsTypeOK /\ AccountsAreKept /\ SomeAdminRemains /\ EditsKeepOthers

\* A row whose fields were updated by a change the API accepts is a row again,
\* and each field is the one sent, or the one that was there.
LEMMA UpdatedRow ==
    ASSUME NEW row \in UserRow, NEW change \in AccountChange
    PROVE  /\ Updated(row, change) \in UserRow
           /\ Updated(row, change).email = (IF "email" \in DOMAIN change THEN change.email ELSE row.email)
           /\ Updated(row, change).role = (IF "role" \in DOMAIN change THEN change.role ELSE row.role)
           /\ Updated(row, change).isActive = (IF "isActive" \in DOMAIN change THEN change.isActive ELSE row.isActive)
<1>1. CASE change \in [role : Role]
  BY <1>1 DEF Updated, UserRow
<1>2. CASE change \in [isActive : BOOLEAN]
  BY <1>2 DEF Updated, UserRow
<1>3. CASE change \in [email : Address]
  BY <1>3 DEF Updated, UserRow
<1>4. CASE change \in UserRow
  BY <1>4 DEF Updated, UserRow
<1> QED BY <1>1, <1>2, <1>3, <1>4 DEF AccountChange

\* A change the API accepts keeps the table and what admins wished for equal,
\* its addresses unique and an admin who can sign in, whoever it is about.
LEMMA SaveKeeps ==
    ASSUME AccountsInv, NEW b \in Browser, NEW p \in Person, NEW change \in AccountChange,
           users[p] = NoAccount => change \in UserRow,
           Believed(b), MaySave(token[b].who, p, change), SaveUser(b, p, change, change)
    PROVE  /\ users' \in Accounts /\ wished' = users'
           /\ \A q, r \in Person : users'[q] # NoAccount /\ users'[r] # NoAccount /\ q # r
                                      => users'[q].email # users'[r].email
           /\ \A q \in Person : users[q] # NoAccount => users'[q] # NoAccount
           /\ actedLate' \in BOOLEAN /\ saves' \in 0 .. MaxSaves /\ token' = token
           /\ SomeAdminRemains'
<1> DEFINE row == IF users[p] = NoAccount THEN change ELSE Updated(users[p], change)
<1>0. /\ users \in Accounts /\ token[b] \in Token /\ saves \in 0 .. MaxSaves
      /\ actedLate \in BOOLEAN /\ wished = users
  BY DEF AccountsInv, AccountsTypeOK, Believed, EditsKeepOthers
<1>1. row \in UserRow
  BY <1>0, UpdatedRow DEF Accounts
<1>2. users' = [users EXCEPT ![p] = row] /\ wished' = users'
  BY <1>0 DEF SaveUser
<1>3. users'[p] = row /\ \A q \in Person \ {p} : users'[q] = users[q]
  BY <1>0, <1>2 DEF Accounts
<1>4. row # NoAccount
  BY <1>1, AccountsAssumption
<1>5. \A q \in Person \ {p} : users[q] # NoAccount => row.email # users[q].email
  <2> TAKE q \in Person \ {p}
  <2> HAVE users[q] # NoAccount
  <2>1. "email" \in DOMAIN change => users[q].email # change.email
    BY DEF MaySave, AddressTaken
  <2>2. CASE users[p] = NoAccount
    BY <2>1, <2>2 DEF UserRow
  <2>3. CASE users[p] # NoAccount
    <3>1. users[p].email # users[q].email
      BY <2>3 DEF AccountsInv, AccountsTypeOK
    <3>2. users[p] \in UserRow
      BY <1>0, <2>3 DEF Accounts
    <3>3. row.email = IF "email" \in DOMAIN change THEN change.email ELSE users[p].email
      BY <2>3, <3>2, UpdatedRow
    <3> QED BY <2>1, <3>1, <3>3
  <2> QED BY <2>2, <2>3
<1>6. \A q, r \in Person : users'[q] # NoAccount /\ users'[r] # NoAccount /\ q # r
                              => users'[q].email # users'[r].email
  BY <1>3, <1>5 DEF AccountsInv, AccountsTypeOK
<1>7. actedLate' = (actedLate \/ ~ActiveAdmin(token[b].who)) /\ token' = token
      /\ saves' = saves + 1 /\ saves < MaxSaves
  BY DEF SaveUser
<1>8. ~actedLate' => \E q \in Person : ActiveAdmin(q)'
  <2> HAVE ~actedLate'
  <2> DEFINE who == token[b].who
  <2>1. ActiveAdmin(who) /\ who \in Person
    BY <1>0, <1>7 DEF Token
  <2>2. CASE p # who
    BY <2>1, <2>2, <1>3 DEF ActiveAdmin
  <2>3. CASE p = who
    <3>1. users[p] # NoAccount /\ users[p].isActive /\ users[p].role = "admin" /\ users[p] \in UserRow
      BY <2>1, <2>3, <1>0 DEF ActiveAdmin, Accounts
    <3>2. /\ "isActive" \in DOMAIN change => change.isActive
          /\ "role" \in DOMAIN change => change.role # "staff"
      BY <2>3 DEF MaySave, OwnAccess
    <3>3. "role" \in DOMAIN change => change.role = "admin"
      BY <3>2 DEF AccountChange, UserRow, Role
    <3>4. row.isActive = (IF "isActive" \in DOMAIN change THEN change.isActive ELSE users[p].isActive)
      BY <3>1, UpdatedRow
    <3>5. row.role = (IF "role" \in DOMAIN change THEN change.role ELSE users[p].role)
      BY <3>1, UpdatedRow
    <3>6. users'[p].isActive
      BY <3>1, <3>2, <3>4, <1>3
    <3>7. users'[p].role = "admin"
      BY <3>1, <3>3, <3>5, <1>3
    <3>8. ActiveAdmin(p)'
      BY <3>6, <3>7, <1>3, <1>4 DEF ActiveAdmin
    <3> QED BY <3>8
  <2> QED BY <2>2, <2>3
<1> QED
  <2>1. users' \in Accounts
    BY <1>0, <1>1, <1>2 DEF Accounts
  <2>2. saves' \in 0 .. MaxSaves
    BY <1>0, <1>7, AccountsAssumption
  <2>3. \A q \in Person : users[q] # NoAccount => users'[q] # NoAccount
    BY <1>3, <1>4
  <2> QED BY <2>1, <2>2, <2>3, <1>0, <1>2, <1>6, <1>7, <1>8 DEF SomeAdminRemains

\* What a page does in a dialog keeps every page an admin's, and about people
\* who have an account.
LEMMA PageStep ==
    ASSUME AccountsTypeOK, AccountsAreKept, NEW b \in Browser, usersPage[b].open,
           token' = token, \A q \in Person : users[q] # NoAccount => users'[q] # NoAccount,
           NEW list \in Accounts, NEW loading \in BOOLEAN, NEW dialog \in Dialog,
           \A p \in Person : list[p] # NoAccount => users'[p] # NoAccount,
           dialog.kind \in {"edit", "confirm"} => users'[dialog.of] # NoAccount,
           \/ InPage(b, list, loading, dialog)
           \/ UNCHANGED usersPage
    PROVE  /\ usersPage' \in [Browser -> Page \cup {NoPage}]
           /\ \A c \in Browser : usersPage'[c].open => token'[c] # Nobody /\ token'[c].role = "admin"
           /\ AccountsAreKept'
<1> DEFINE page == [open |-> TRUE, listed |-> list, loading |-> loading, dialog |-> dialog]
<1>1. page \in Page
  BY DEF Page
<1>2. usersPage \in [Browser -> Page \cup {NoPage}] /\ token \in [Browser -> Token \cup {Nobody}]
  BY DEF AccountsTypeOK
<1>3. usersPage' \in [Browser -> Page \cup {NoPage}]
      /\ \A c \in Browser : usersPage'[c] = usersPage[c] \/ (c = b /\ usersPage'[c] = page)
  BY <1>1, <1>2 DEF InPage
<1>4. \A c \in Browser : usersPage'[c].open => token'[c] # Nobody /\ token'[c].role = "admin"
  BY <1>3 DEF AccountsTypeOK
<1>5. \A c \in Browser : token'[c] # Nobody => users'[token'[c].who] # NoAccount
  BY <1>2 DEF AccountsAreKept, Token
<1>6. ASSUME NEW c \in Browser PROVE PageKnows(usersPage[c])'
  <2>1. CASE usersPage'[c] = page
    BY <2>1 DEF PageKnows
  <2>2. CASE usersPage'[c] = usersPage[c]
    <3>1. CASE ~usersPage[c].open
      BY <2>2, <3>1 DEF PageKnows
    <3>2. CASE usersPage[c].open
      <4>1. PageKnows(usersPage[c]) /\ usersPage[c] \in Page
        BY <3>2, <1>2 DEF AccountsAreKept, NoPage
      <4>2. usersPage[c].dialog.kind \in {"edit", "confirm"} => usersPage[c].dialog.of \in Person
        <5>1. usersPage[c].dialog \in Dialog
          BY <4>1 DEF Page
        <5> QED BY <5>1 DEF Dialog, NoDialog
      <4>3. usersPage[c].dialog.kind \in {"edit", "confirm"} => users'[usersPage[c].dialog.of] # NoAccount
        BY <3>2, <4>1, <4>2 DEF PageKnows
      <4> QED BY <2>2, <3>2, <4>1, <4>3 DEF PageKnows
    <3> QED BY <3>1, <3>2
  <2> QED BY <1>3, <2>1, <2>2
<1> QED BY <1>3, <1>4, <1>5, <1>6 DEF AccountsAreKept

\* The accounts a program starts with.
LEMMA AccountsStart == AccountsInit => AccountsInv
<1> SUFFICES ASSUME AccountsInit PROVE AccountsInv
  OBVIOUS
<1> USE AccountsAssumption
<1>1. AccountsTypeOK
  <2>1. users \in Accounts /\ wished = users /\ actedLate = FALSE /\ saves = 0
        /\ token = [b \in Browser |-> Nobody] /\ usersPage = [b \in Browser |-> NoPage]
    BY DEF AccountsInit
  <2>2. \A p, q \in Person : users[p] # NoAccount /\ users[q] # NoAccount /\ p # q
                                  => users[p].email # users[q].email
    BY DEF AccountsInit
  <2>3. /\ token \in [Browser -> Token \cup {Nobody}]
        /\ usersPage \in [Browser -> Page \cup {NoPage}]
    BY <2>1
  <2>4. \A b \in Browser : ~usersPage[b].open
    BY <2>1 DEF NoPage
  <2>5. saves \in 0 .. MaxSaves
    BY <2>1
  <2>6. actedLate \in BOOLEAN
    BY <2>1, Zenon
  <2> QED BY <2>1, <2>2, <2>3, <2>4, <2>5, <2>6 DEF AccountsTypeOK
<1>2. AccountsAreKept
  BY DEF AccountsInit, AccountsAreKept, PageKnows, NoPage
<1>3. SomeAdminRemains /\ EditsKeepOthers
  BY DEF AccountsInit, SomeAdminRemains, EditsKeepOthers
<1> QED BY <1>1, <1>2, <1>3 DEF AccountsInv

\* Steps that change no account keep the invariant with the pages and tokens.
LEMMA NoSaveKeeps ==
    ASSUME AccountsInv, UNCHANGED <<users, wished, actedLate, saves>>,
           token' \in [Browser -> Token \cup {Nobody}],
           usersPage' \in [Browser -> Page \cup {NoPage}],
           \A c \in Browser : usersPage'[c].open => token'[c] # Nobody /\ token'[c].role = "admin",
           AccountsAreKept'
    PROVE  AccountsInv'
<1>1. AccountsTypeOK'
  BY DEF AccountsInv, AccountsTypeOK
<1>2. SomeAdminRemains'
  BY DEF AccountsInv, SomeAdminRemains, ActiveAdmin
<1>3. EditsKeepOthers'
  BY DEF AccountsInv, EditsKeepOthers
<1> QED BY <1>1, <1>2, <1>3 DEF AccountsInv

\* Signing in and renewing.
LEMMA StartKeeps ==
    ASSUME AccountsInv, NEW b \in Browser, NEW p \in Person, users[p] # NoAccount,
           StartSession(b, p), UNCHANGED <<users, wished, actedLate, saves>>
    PROVE  AccountsInv'
<1>0. /\ users \in Accounts /\ token \in [Browser -> Token \cup {Nobody}]
      /\ usersPage \in [Browser -> Page \cup {NoPage}]
      /\ \A c \in Browser : usersPage[c].open => token[c] # Nobody /\ token[c].role = "admin"
      /\ AccountsAreKept
  BY DEF AccountsInv, AccountsTypeOK
<1> DEFINE t == [who |-> p, role |-> users[p].role]
<1>1. users[p].role \in Role /\ t \in Token
  BY <1>0 DEF Accounts, UserRow, Token
<1>2. t # Nobody
  BY <1>1, AccountsAssumption DEF Token
<1>3. /\ token' \in [Browser -> Token \cup {Nobody}] /\ token'[b] = t
      /\ \A c \in Browser \ {b} : token'[c] = token[c]
  BY <1>0, <1>1 DEF StartSession
<1>4. OpenedPage \in Page
  BY AccountsAssumption DEF OpenedPage, Page, Accounts, Dialog
<1>5. /\ usersPage' \in [Browser -> Page \cup {NoPage}]
      /\ \A c \in Browser \ {b} : usersPage'[c] = usersPage[c]
  BY <1>0, <1>4 DEF StartSession
<1>6. usersPage'[b] = IF users[p].role # "admin" THEN NoPage
                      ELSE IF usersPage[b].open THEN usersPage[b] ELSE OpenedPage
  BY <1>0 DEF StartSession
<1>7. \A c \in Browser : usersPage'[c].open => token'[c] # Nobody /\ token'[c].role = "admin"
  BY <1>0, <1>2, <1>3, <1>5, <1>6 DEF NoPage
<1>8. AccountsAreKept'
  <2>1. \A c \in Browser : token'[c] # Nobody => users'[token'[c].who] # NoAccount
    BY <1>0, <1>3 DEF AccountsAreKept
  <2>2. \A c \in Browser : PageKnows(usersPage'[c])
    BY <1>0, <1>5, <1>6 DEF AccountsAreKept, PageKnows, NoPage, OpenedPage, NoDialog
  <2> QED BY <2>1, <2>2 DEF AccountsAreKept, PageKnows
<1> QED BY <1>3, <1>5, <1>7, <1>8, NoSaveKeeps

\* Steps of a page that change no account.
LEMMA LeaveKeeps ==
    ASSUME AccountsInv, NEW b \in Browser, usersPage[b].open, Leave,
           NEW list \in Accounts, NEW loading \in BOOLEAN, NEW dialog \in Dialog,
           \A p \in Person : list[p] # NoAccount => users[p] # NoAccount,
           dialog.kind \in {"edit", "confirm"} => users[dialog.of] # NoAccount,
           InPage(b, list, loading, dialog)
    PROVE  AccountsInv'
<1>1. AccountsTypeOK /\ AccountsAreKept /\ token' = token /\ users' = users
  BY DEF AccountsInv, Leave
<1>2. /\ usersPage' \in [Browser -> Page \cup {NoPage}]
      /\ \A c \in Browser : usersPage'[c].open => token'[c] # Nobody /\ token'[c].role = "admin"
      /\ AccountsAreKept'
  BY <1>1, PageStep
<1>3. token' \in [Browser -> Token \cup {Nobody}]
  BY <1>1 DEF AccountsTypeOK
<1> QED BY <1>2, <1>3, NoSaveKeeps DEF Leave

\* Steps of a page that save a change.
LEMMA SavedKeeps ==
    ASSUME AccountsInv, NEW b \in Browser, usersPage[b].open,
           NEW p \in Person, NEW change \in AccountChange,
           users[p] = NoAccount => change \in UserRow,
           Believed(b), MaySave(token[b].who, p, change), SaveUser(b, p, change, change),
           \/ \E loading \in BOOLEAN : CloseDialog(b, loading)
           \/ UNCHANGED usersPage
    PROVE  AccountsInv'
<1>1. /\ users' \in Accounts /\ wished' = users'
      /\ \A q, r \in Person : users'[q] # NoAccount /\ users'[r] # NoAccount /\ q # r
                                 => users'[q].email # users'[r].email
      /\ \A q \in Person : users[q] # NoAccount => users'[q] # NoAccount
      /\ actedLate' \in BOOLEAN /\ saves' \in 0 .. MaxSaves /\ token' = token
      /\ SomeAdminRemains'
  BY SaveKeeps
<1>2. AccountsTypeOK /\ AccountsAreKept
  BY DEF AccountsInv
<1>3. usersPage[b] \in Page /\ PageKnows(usersPage[b])
  BY <1>2 DEF AccountsTypeOK, NoPage, AccountsAreKept
<1>4. usersPage[b].listed \in Accounts /\ NoDialog \in Dialog
  BY <1>3 DEF Page, Dialog
<1>5. \A q \in Person : usersPage[b].listed[q] # NoAccount => users'[q] # NoAccount
  BY <1>1, <1>3 DEF PageKnows
<1>6. \/ \E loading \in BOOLEAN : InPage(b, usersPage[b].listed, loading, NoDialog)
      \/ UNCHANGED usersPage
  BY DEF CloseDialog
<1>7. NoDialog.kind \notin {"edit", "confirm"}
  BY DEF NoDialog
<1>8. /\ usersPage' \in [Browser -> Page \cup {NoPage}]
      /\ \A c \in Browser : usersPage'[c].open => token'[c] # Nobody /\ token'[c].role = "admin"
      /\ AccountsAreKept'
  BY <1>1, <1>2, <1>4, <1>5, <1>6, <1>7, PageStep
<1>9. AccountsTypeOK'
  BY <1>1, <1>2, <1>8 DEF AccountsTypeOK
<1> QED BY <1>1, <1>8, <1>9 DEF AccountsInv, EditsKeepOthers

\* Each step of the pages, the API and the tokens keeps the invariant.
LEMMA AccountsStep == AccountsInv /\ [AccountsNext]_accountVars => AccountsInv'
<1> SUFFICES ASSUME AccountsInv, [AccountsNext]_accountVars PROVE AccountsInv'
  OBVIOUS
<1>0. /\ AccountsTypeOK /\ AccountsAreKept
      /\ users \in Accounts /\ token \in [Browser -> Token \cup {Nobody}]
      /\ usersPage \in [Browser -> Page \cup {NoPage}]
  BY DEF AccountsInv, AccountsTypeOK
<1>1. CASE UNCHANGED accountVars
  BY <1>0, <1>1, NoSaveKeeps DEF accountVars, AccountsTypeOK, AccountsAreKept, PageKnows
<1>a. ASSUME NEW b \in Browser, usersPage[b].open
      PROVE  /\ usersPage[b] \in Page /\ usersPage[b].listed \in Accounts
             /\ usersPage[b].loading \in BOOLEAN /\ usersPage[b].dialog \in Dialog
             /\ \A p \in Person : usersPage[b].listed[p] # NoAccount => users[p] # NoAccount
             /\ usersPage[b].dialog.kind \in {"edit", "confirm"} => users[usersPage[b].dialog.of] # NoAccount
             /\ token[b] \in Token
  <2>1. usersPage[b] \in Page
    BY <1>0, <1>a DEF NoPage
  <2>2. /\ usersPage[b].listed \in Accounts /\ usersPage[b].loading \in BOOLEAN
        /\ usersPage[b].dialog \in Dialog
    BY <2>1 DEF Page
  <2>3. PageKnows(usersPage[b]) /\ token[b] # Nobody
    BY <1>0, <1>a DEF AccountsAreKept, AccountsTypeOK
  <2>4. token[b] \in Token
    BY <1>0, <2>3
  <2> QED BY <1>a, <2>1, <2>2, <2>3, <2>4 DEF PageKnows
<1>2. ASSUME NEW b \in Browser, RenewToken(b) PROVE AccountsInv'
  <2>0. token[b] \in Token /\ users[token[b].who] # NoAccount /\ token[b].who \in Person
    BY <1>0, <1>2 DEF RenewToken, AccountsAreKept, Token
  <2>1. CASE StartSession(b, token[b].who)
    BY <1>2, <2>0, <2>1, StartKeeps DEF RenewToken
  <2>2. CASE ~StartSession(b, token[b].who)
    <3>1. /\ token' = [token EXCEPT ![b] = Nobody] /\ usersPage' = [usersPage EXCEPT ![b] = NoPage]
          /\ UNCHANGED <<users, wished, actedLate, saves>>
      BY <1>2, <2>2 DEF RenewToken
    <3>2. /\ token' \in [Browser -> Token \cup {Nobody}]
          /\ usersPage' \in [Browser -> Page \cup {NoPage}]
          /\ \A c \in Browser : usersPage'[c].open => token'[c] # Nobody /\ token'[c].role = "admin"
      BY <1>0, <3>1 DEF AccountsTypeOK, NoPage
    <3>3. AccountsAreKept'
      BY <1>0, <3>1 DEF AccountsAreKept, PageKnows, NoPage
    <3> QED BY <3>1, <3>2, <3>3, NoSaveKeeps
  <2> QED BY <2>1, <2>2
<1>3. ASSUME NEW b \in Browser, ListAnswered(b) PROVE AccountsInv'
  <2>1. usersPage[b].open /\ InPage(b, users, FALSE, usersPage[b].dialog) /\ Leave
    BY <1>3 DEF ListAnswered
  <2> QED BY <1>0, <1>a, <2>1, LeaveKeeps
<1>4. ASSUME NEW b \in Browser, ListFails(b) PROVE AccountsInv'
  <2>1. usersPage[b].open /\ InPage(b, usersPage[b].listed, FALSE, usersPage[b].dialog) /\ Leave
    BY <1>4 DEF ListFails
  <2> QED BY <1>a, <2>1, LeaveKeeps
<1>5. ASSUME NEW b \in Browser, InviteUser(b) \/ CancelDialog(b) PROVE AccountsInv'
  <2>1. PICK dialog \in {NoDialog, [kind |-> "create"]} :
           usersPage[b].open /\ InPage(b, usersPage[b].listed, usersPage[b].loading, dialog) /\ Leave
    BY <1>5 DEF InviteUser, CancelDialog, SetDialog
  <2>2. dialog \in Dialog /\ dialog.kind \notin {"edit", "confirm"}
    BY DEF Dialog, NoDialog
  <2> QED BY <1>a, <2>1, <2>2, LeaveKeeps
<1>6. ASSUME NEW b \in Browser, NEW p \in Person, ChangeRole(b, p) \/ AskToSuspend(b, p) \/ EditUser(b, p)
      PROVE AccountsInv'
  <2>0. OnList(b, p) /\ Leave
    BY <1>6 DEF ChangeRole, AskToSuspend, EditUser
  <2>1. usersPage[b].open /\ usersPage[b].listed[p] # NoAccount /\ usersPage[b].listed[p] \in UserRow
        /\ users[p] # NoAccount
    BY <2>0, <1>a DEF OnList, Accounts
  <2>2. PICK dialog \in Dialog : /\ InPage(b, usersPage[b].listed, usersPage[b].loading, dialog)
                                 /\ dialog.kind \in {"edit", "confirm"} => dialog.of = p
    <3>1. CASE ChangeRole(b, p)
      <4>1. PICK role \in Role : SetDialog(b, [kind |-> "confirm", of |-> p, change |-> [role |-> role]])
        BY <3>1 DEF ChangeRole
      <4>2. [kind |-> "confirm", of |-> p, change |-> [role |-> role]] \in Dialog
        BY DEF Dialog, AccountChange
      <4> QED BY <4>1, <4>2 DEF SetDialog
    <3>2. CASE AskToSuspend(b, p)
      <4>1. SetDialog(b, [kind |-> "confirm", of |-> p, change |-> [isActive |-> FALSE]])
        BY <3>2 DEF AskToSuspend
      <4>2. [kind |-> "confirm", of |-> p, change |-> [isActive |-> FALSE]] \in Dialog
        BY DEF Dialog, AccountChange
      <4> QED BY <4>1, <4>2 DEF SetDialog
    <3>3. CASE EditUser(b, p)
      <4>1. SetDialog(b, [kind |-> "edit", of |-> p, opened |-> usersPage[b].listed[p]])
        BY <3>3 DEF EditUser
      <4>2. [kind |-> "edit", of |-> p, opened |-> usersPage[b].listed[p]] \in Dialog
        BY <2>1 DEF Dialog
      <4> QED BY <4>1, <4>2 DEF SetDialog
    <3> QED BY <1>6, <3>1, <3>2, <3>3
  <2> QED BY <1>a, <2>0, <2>1, <2>2, LeaveKeeps
<1>7. ASSUME NEW b \in Browser, NEW p \in Person, NEW change \in AccountChange, usersPage[b].open,
             users[p] # NoAccount, saveChange(b, p, change)
      PROVE AccountsInv'
  <2>1. CASE MaySave(token[b].who, p, change)
    <3>1. Believed(b) /\ SaveUser(b, p, change, change) /\ \E answered \in BOOLEAN : CloseDialog(b, answered)
      BY <1>7, <2>1 DEF saveChange
    <3> QED BY <1>7, <2>1, <3>1, SavedKeeps
  <2>2. CASE ~MaySave(token[b].who, p, change)
    <3>1. InPage(b, usersPage[b].listed, usersPage[b].loading, NoDialog) /\ Leave
      BY <1>7, <2>2 DEF saveChange, SetDialog
    <3>2. NoDialog \in Dialog /\ NoDialog.kind \notin {"edit", "confirm"}
      BY DEF Dialog, NoDialog
    <3> QED BY <1>7, <1>a, <3>1, <3>2, LeaveKeeps
  <2> QED BY <2>1, <2>2
<1>8. ASSUME NEW b \in Browser, confirmPending(b) PROVE AccountsInv'
  <2>1. usersPage[b].open /\ usersPage[b].dialog.kind = "confirm"
        /\ saveChange(b, usersPage[b].dialog.of, usersPage[b].dialog.change)
    BY <1>8 DEF confirmPending
  <2>2. usersPage[b].dialog.of \in Person /\ usersPage[b].dialog.change \in AccountChange
        /\ users[usersPage[b].dialog.of] # NoAccount
    BY <2>1, <1>a DEF Dialog, NoDialog
  <2> QED BY <2>1, <2>2, <1>7
<1>9. ASSUME NEW b \in Browser, NEW p \in Person, Reactivate(b, p) PROVE AccountsInv'
  <2>1. usersPage[b].open /\ users[p] # NoAccount /\ saveChange(b, p, [isActive |-> TRUE])
    BY <1>9, <1>a DEF Reactivate, OnList
  <2>2. [isActive |-> TRUE] \in AccountChange
    BY DEF AccountChange
  <2> QED BY <2>1, <2>2, <1>7
<1>10. ASSUME NEW b \in Browser, NEW typed \in Address, SaveEdit(b, typed) PROVE AccountsInv'
  <2>1. /\ usersPage[b].open /\ usersPage[b].dialog.kind = "edit"
        /\ FormSaved(b, usersPage[b].dialog.of, [email |-> typed], [email |-> typed])
    BY <1>10 DEF SaveEdit, EditSent
  <2>2. usersPage[b].dialog.of \in Person /\ users[usersPage[b].dialog.of] # NoAccount
    BY <2>1, <1>a DEF Dialog, NoDialog
  <2>3. [email |-> typed] \in AccountChange
    BY DEF AccountChange
  <2> QED BY <2>1, <2>2, <2>3, SavedKeeps DEF FormSaved
<1>11. ASSUME NEW b \in Browser, NEW p \in Person, NEW row \in UserRow, CreateUser(b, p, row) PROVE AccountsInv'
  <2>1. usersPage[b].open /\ FormSaved(b, p, row, row) /\ row \in AccountChange
    BY <1>11 DEF CreateUser, AccountChange
  <2> QED BY <2>1, SavedKeeps DEF FormSaved
<1>12. ASSUME NEW b \in Browser, NEW p \in Person, SignInAs(b, p) PROVE AccountsInv'
  BY <1>12, StartKeeps DEF SignInAs
<1> QED BY <1>1, <1>2, <1>3, <1>4, <1>5, <1>6, <1>8, <1>9, <1>10, <1>11, <1>12 DEF AccountsNext

\* The types of accounts, tokens and pages hold in every reachable state; no
\* two accounts share an address, and only an admin's browser has the page open.
THEOREM AccountsTyped == AccountsSpec => []AccountsTypeOK
<1>1. AccountsInv => AccountsTypeOK
  BY DEF AccountsInv
<1> QED BY <1>1, AccountsStart, AccountsStep, PTL DEF AccountsSpec

\* However admins' pages, dialogs and sign-ins interleave, for any number of
\* people and browsers, an active admin remains unless someone who no longer was
\* one made a change (users/service.ts:65).
THEOREM AdminRemains == AccountsSpec => []SomeAdminRemains
<1>1. AccountsInv => SomeAdminRemains
  BY DEF AccountsInv
<1> QED BY <1>1, AccountsStart, AccountsStep, PTL DEF AccountsSpec

\* No save, from however old a list, undoes another admin's (users/page.tsx:436).
THEOREM EditsKept == AccountsSpec => []EditsKeepOthers
<1>1. AccountsInv => EditsKeepOthers
  BY DEF AccountsInv
<1> QED BY <1>1, AccountsStart, AccountsStep, PTL DEF AccountsSpec
=============================================================================
