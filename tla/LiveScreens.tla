----------------------------- MODULE LiveScreens -----------------------------
(***************************************************************************)
(* The screens that follow the orders: the status board at the counter     *)
(* (apps/web/src/app/board/page.tsx) and the staff's payment queue         *)
(* (app/staff/orders/page.tsx).  "orders:changed" says only that something *)
(* changed: a screen then reads the API again.  Events get lost while the  *)
(* connection is down, loads fail, and answers overtake each other; the    *)
(* board's two lists are read by two queries, one after the other.         *)
(***************************************************************************)
EXTENDS Integers

CONSTANTS
    Shown,          \* the orders the screens are about
    ScreenLoad,     \* loads that may run at the same time
    MaxChanges, MaxClicks, MaxFaults    \* bounds on what happens

ASSUME LiveAssumption ==
    ScreenLoad # {} /\ MaxChanges \in Nat /\ MaxClicks \in Nat /\ MaxFaults \in Nat

VARIABLES
    openScreen,     \* the page that is open
    stands,         \* where the API has each order
    screenLoads,    \* the lists each load has read so far
    list,           \* what the page shows
    connected,      \* the socket
    loadError,      \* the last load failed, and the page says so
    knownReady, chimes,
    clicks,         \* confirmations, cancellations and "sorted out"s under way
    \* History: guards read only the bounds.
    changes, becameReady,
    newest, overtaken,  \* the newest answer so far, and how many came after a newer one
    excused,        \* the page may lag: an event or load was lost, or overtaken
    clicked, faults

liveVars == <<openScreen, stands, screenLoads, list, connected, loadError, knownReady, chimes,
              clicks, changes, becameReady, newest, overtaken, excused, clicked, faults>>
liveApi  == <<stands, changes, becameReady>>
livePage == <<list, knownReady, chimes, newest, overtaken>>
liveBounds == <<clicked, faults>>

Stand == {"unpaid", "preparing", "ready", "refund", "gone"}
ListNames == IF openScreen = "board" THEN {"preparing", "ready"} ELSE {"unpaid"}
\* A list, with the history up to the moment it was read.
Reading == [at : 0 .. MaxChanges, orders : SUBSET Shown, became : [Shown -> 0 .. MaxChanges]]
Readings == UNION {[names -> Reading] : names \in SUBSET ListNames}
NotLoading == [on |-> FALSE]
NotKnown == [known |-> FALSE]
Kind == {"confirm", "cancel", "sortedOut"}

LiveTypeOK ==
    /\ openScreen \in {"board", "queue"} /\ stands \in [Shown -> Stand]
    /\ screenLoads \in [ScreenLoad -> {NotLoading} \cup [on : {TRUE}, lists : Readings]]
    /\ list \in Readings /\ newest \in Readings /\ connected \in BOOLEAN /\ loadError \in BOOLEAN
    /\ knownReady \in {NotKnown} \cup [known : {TRUE}, orders : SUBSET Shown]
    /\ chimes \in [Shown -> Nat] /\ becameReady \in [Shown -> 0 .. MaxChanges]
    /\ clicks \subseteq [kind : Kind, order : Shown, step : {"sent", "ok", "error"}]
    /\ changes \in 0 .. MaxChanges /\ overtaken \in Nat /\ excused \in BOOLEAN
    /\ clicked \in 0 .. MaxClicks /\ faults \in 0 .. MaxFaults

-----------------------------------------------------------------------------
(* Loading.                                                                *)

Idle(l)   == ~screenLoads[l].on
NewLoad   == [on |-> TRUE, lists |-> << >>]
FreeLoad  == CHOOSE l \in ScreenLoad : Idle(l)
MayLoad   == \E l \in ScreenLoad : Idle(l)
StartLoad == screenLoads' = [screenLoads EXCEPT ![FreeLoad] = NewLoad]

\* A page that has just been opened.
LiveInit ==
    /\ openScreen \in {"board", "queue"}
    /\ stands \in [Shown -> {"unpaid", "preparing", "ready"}]
    /\ screenLoads = [l \in ScreenLoad |->
                        IF l = CHOOSE f \in ScreenLoad : TRUE THEN NewLoad ELSE NotLoading]
    /\ list = << >> /\ newest = << >> /\ connected \in BOOLEAN /\ loadError = FALSE
    /\ knownReady = NotKnown /\ chimes = [o \in Shown |-> 0]
    /\ clicks = {} /\ changes = 0 /\ becameReady = [o \in Shown |-> 0]
    /\ overtaken = 0 /\ excused = FALSE /\ clicked = 0 /\ faults = 0

\* getOrderBoard and listOrders.
Listed(name) ==
    CASE name = "preparing" -> {o \in Shown : stands[o] = "preparing"}
      [] name = "ready"     -> {o \in Shown : stands[o] = "ready"}
      [] name = "unpaid"    -> {o \in Shown : stands[o] \in {"unpaid", "refund"}}

ReadNow(name) == [at |-> changes, orders |-> Listed(name), became |-> becameReady]

ReadList(l, name) ==
    /\ screenLoads[l].on /\ name \notin DOMAIN screenLoads[l].lists
    /\ screenLoads' = [screenLoads EXCEPT ![l].lists =
          [n \in DOMAIN @ \cup {name} |-> IF n = name THEN ReadNow(name) ELSE @[n]]]
    /\ UNCHANGED <<openScreen, liveApi, livePage, connected, loadError, clicks, excused, liveBounds>>

\* The orders a new answer has as ready and the last one hadn't.
Fresh(ready) == IF knownReady.known THEN ready \ knownReady.orders ELSE {}
\* Compared with the first answer only.
Remember_First(ready) == IF knownReady.known THEN knownReady ELSE [known |-> TRUE, orders |-> ready]
Remember(ready) == [known |-> TRUE, orders |-> ready]

OlderList(lists, n) == n \in DOMAIN newest /\ lists[n].at < newest[n].at
OlderAnswer(lists)  == \E n \in ListNames : OlderList(lists, n)
Current(lists)      == \A n \in ListNames : lists[n].at = changes

LoadDone(l) == screenLoads' = [screenLoads EXCEPT ![l] = NotLoading]

Answered(l) ==
    LET lists == screenLoads[l].lists IN
    /\ screenLoads[l].on /\ DOMAIN lists = ListNames
    /\ list' = lists /\ LoadDone(l)
    /\ newest' = [n \in ListNames |-> IF OlderList(lists, n) THEN newest[n] ELSE lists[n]]
    /\ overtaken' = IF OlderAnswer(lists) THEN overtaken + 1 ELSE overtaken
    /\ excused' = (OlderAnswer(lists) \/ (excused /\ ~Current(lists)))
    /\ IF openScreen = "board"
       THEN /\ chimes' = [o \in Shown |-> IF o \in Fresh(lists["ready"].orders) THEN chimes[o] + 1
                                          ELSE chimes[o]]
            /\ knownReady' = Remember(lists["ready"].orders)
       ELSE UNCHANGED <<chimes, knownReady>>
    /\ loadError' = FALSE
    /\ UNCHANGED <<openScreen, liveApi, connected, clicks, liveBounds>>

Fault == faults < MaxFaults /\ faults' = faults + 1

\* The last lists stay on screen.
Fails(l) ==
    /\ screenLoads[l].on /\ LoadDone(l) /\ Fault
    /\ excused' = TRUE /\ loadError' = TRUE
    /\ UNCHANGED <<openScreen, liveApi, livePage, connected, clicks, clicked>>

\* A load that finds one running leaves it to that one.
Reload_WhenIdle == IF \A l \in ScreenLoad : Idle(l) THEN StartLoad ELSE UNCHANGED screenLoads

\* Every reason to load starts a load, also while others run.
Reload == StartLoad

-----------------------------------------------------------------------------
(* The orders change, and the screen may hear of it.                       *)

\* The event is sent after the change.  The instance has a load to spare.
Changed(o, to) ==
    /\ changes < MaxChanges /\ changes' = changes + 1
    /\ stands' = [stands EXCEPT ![o] = to]
    /\ becameReady' = IF to = "ready" THEN [becameReady EXCEPT ![o] = @ + 1] ELSE becameReady
    /\ IF connected THEN MayLoad /\ Reload /\ UNCHANGED excused
       ELSE excused' = TRUE /\ UNCHANGED screenLoads

\* The kitchen works on it, someone pays or cancels it, or it is handed over.
Moves ==
    [unpaid |-> {"preparing", "gone"}, preparing |-> {"ready", "refund"},
     ready |-> {"preparing", "refund", "gone"}, refund |-> {"gone"}, gone |-> {}]

OthersChange(o) ==
    /\ \E to \in Moves[stands[o]] : Changed(o, to)
    /\ UNCHANGED <<openScreen, livePage, connected, loadError, clicks, liveBounds>>

LoseConnection ==
    /\ connected /\ connected' = FALSE /\ Fault
    /\ UNCHANGED <<openScreen, liveApi, screenLoads, livePage, loadError, clicks, excused, clicked>>

\* The board catches up; the queue waits for the next event.
Reconnect ==
    /\ ~connected /\ connected' = TRUE
    /\ IF openScreen = "board" THEN MayLoad /\ Reload ELSE UNCHANGED screenLoads
    /\ UNCHANGED <<openScreen, liveApi, livePage, loadError, clicks, excused, liveBounds>>

\* Rechecks only a board that says it is offline.
MustRecheck_Offline == loadError
MustRecheck == TRUE

\* The board's slow re-check, here while no other load runs.
Recheck ==
    /\ openScreen = "board" /\ MustRecheck
    /\ \A l \in ScreenLoad : Idle(l)
    /\ StartLoad
    /\ UNCHANGED <<openScreen, liveApi, livePage, connected, loadError, clicks, excused, liveBounds>>

Retry ==
    /\ openScreen = "queue" /\ loadError /\ \A l \in ScreenLoad : Idle(l)
    /\ StartLoad
    /\ UNCHANGED <<openScreen, liveApi, livePage, connected, loadError, clicks, excused, liveBounds>>

-----------------------------------------------------------------------------
(* Staff work on the orders as the queue shows them.                       *)

OnQueue == IF openScreen = "queue" /\ list # << >> THEN list["unpaid"].orders ELSE {}

Click(kind, o) ==
    /\ o \in OnQueue /\ clicked < MaxClicks /\ clicked' = clicked + 1
    /\ ~\E c \in clicks : c.kind = kind
    /\ clicks' = clicks \cup {[kind |-> kind, order |-> o, step |-> "sent"]}
    /\ UNCHANGED <<openScreen, liveApi, screenLoads, livePage, connected, loadError, excused, faults>>

Result == [confirm |-> [unpaid |-> "preparing"], cancel |-> [unpaid |-> "gone"],
           sortedOut |-> [refund |-> "gone"]]
ClickBecomes(c, step) == clicks' = (clicks \ {c}) \cup {[c EXCEPT !.step = step]}

\* The API does it where the order still stands so, or says why not.
ApiHandles(c) ==
    /\ c.step = "sent"
    /\ IF stands[c.order] \in DOMAIN Result[c.kind]
       THEN /\ Changed(c.order, Result[c.kind][stands[c.order]])
            /\ ClickBecomes(c, "ok") \/ ClickBecomes(c, "error")
       ELSE ClickBecomes(c, "error") /\ UNCHANGED <<liveApi, screenLoads, excused>>
    /\ UNCHANGED <<openScreen, livePage, connected, loadError, liveBounds>>

\* Answered, or never: the queue is read again, but not after a confirmation that failed.
ClickAnswered(c) ==
    /\ c.step \in {"ok", "error"} /\ clicks' = clicks \ {c}
    /\ IF c.step = "error" /\ c.kind = "confirm" THEN UNCHANGED screenLoads
       ELSE MayLoad /\ Reload
    /\ UNCHANGED <<openScreen, liveApi, livePage, connected, loadError, excused, liveBounds>>

-----------------------------------------------------------------------------
LiveNext ==
    \/ LoseConnection \/ Reconnect \/ Recheck \/ Retry
    \/ \E o \in Shown : OthersChange(o) \/ \E kind \in Kind : Click(kind, o)
    \/ \E l \in ScreenLoad : Answered(l) \/ Fails(l) \/ \E name \in ListNames : ReadList(l, name)
    \/ \E c \in clicks : ApiHandles(c) \/ ClickAnswered(c)

LiveSpec == LiveInit /\ [][LiveNext]_liveVars

-----------------------------------------------------------------------------
(* Properties                                                              *)

\* What a screen shows when nothing is on its way is what the API has, unless
\* an event or a load was lost, or an older answer came last: no change is
\* swallowed by a load that was already running (staff/orders/page.tsx:107,
\* board/page.tsx:71).
LagIsExplained ==
    (\A l \in ScreenLoad : Idle(l)) /\ ~excused /\ list # << >>
        => \A name \in ListNames : list[name].orders = Listed(name)

\* The board chimes once each time an order becomes ready; once more only for
\* an answer that was overtaken (board/page.tsx:45).
ChimesAreExplained == \A o \in Shown : chimes[o] <= becameReady[o] + overtaken

\* The board shows what the API has in the end, however often events, loads
\* or the order of answers went wrong: it goes on checking.
BoardCatchesUp ==
    <>[](openScreen = "board" => list # << >> /\ \A n \in ListNames : list[n].orders = Listed(n))

=============================================================================
