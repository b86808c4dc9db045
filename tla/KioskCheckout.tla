---------------------------- MODULE KioskCheckout ----------------------------
(***************************************************************************)
(* The customer's kiosk (apps/web/src): the welcome screen, the menu and   *)
(* the order saved on the device, "Review & pay" with its request to the   *)
(* API, the QR Ph screen that asks whether the payment came, the receipt,  *)
(* and the idle timer.  Answers come late, get lost, or arrive after the   *)
(* page that asked has been left or reloaded.                              *)
(*                                                                         *)
(* A press of "Place order" is one run of handlePlaceOrder, which goes on  *)
(* after the page is left by a link (its setState calls then do nothing,   *)
(* its clearCart still works) and ends with the page on a reload.  The API *)
(* is what OrderSystem models in detail; here it is the order it holds.    *)
(***************************************************************************)
EXTENDS Integers, FiniteSets

CONSTANTS
    Dish, MaxQty,
    MaxPresses,     \* bounds the presses of "Place order"
    MaxTouches,     \* bounds what the customers do
    NoOrder

Press == 1 .. MaxPresses
Receipt == [order : Press, says : {"paid", "counter"}]

ASSUME KioskAssumption ==
    /\ MaxQty \in Nat \ {0} /\ MaxPresses \in Nat \ {0} /\ MaxTouches \in Nat
    /\ NoOrder \notin Press \cup Receipt

VARIABLES
    QR_PH_ENABLED,  \* the build's switch
    page, started,  \* where the kiosk is; the welcome screen was tapped
    lines, chosen,  \* the order and dine in / take out, saved as they change
    onlineAvailable, method,
    press,          \* every run of handlePlaceOrder and what it waits for
    placedOrder,    \* the receipt: an order and what it says of the payment
    qrPayment, qrExpired, polling, check,
    printedOrderId, papers,
    idle, showWarning,
    kioskApi,       \* what the API holds of each press
    codes,          \* orders whose code someone may pay
    basket, touches \* which basket this is, and how often anyone touched

kioskVars == <<QR_PH_ENABLED, page, started, lines, chosen, onlineAvailable, method,
               press, placedOrder, qrPayment, qrExpired, polling, check, printedOrderId,
               papers, idle, showWarning, kioskApi, codes, basket, touches>>
screen   == <<placedOrder, qrPayment, qrExpired, polling, check, printedOrderId>>
cart     == <<lines, chosen, basket>>
apiSide  == <<kioskApi, codes>>
settings == <<QR_PH_ENABLED, onlineAvailable, method>>

Asking  == {"order_sent", "code_sent", "counter_sent"}
Answers == {"order_made", "order_failed", "code_made", "code_failed", "code_busy",
            "counter_made", "counter_failed"}
Step    == {"unused", "done", "failed"} \cup Asking \cup Answers
Unpressed == [step |-> "unused", where |-> "gone", why |-> "placing", with |-> "counter",
              basket |-> 0]
PlaceRun == [step : Step, where : {"here", "left", "gone"}, why : {"placing", "newCode", "counter"},
             with : {"counter", "qrph"}, basket : Nat]
EmptyCart == [d \in Dish |-> 0]

KioskTypeOK ==
    /\ QR_PH_ENABLED \in BOOLEAN /\ page \in {"home", "checkout"} /\ started \in BOOLEAN
    /\ lines \in [Dish -> 0 .. MaxQty] /\ chosen \in BOOLEAN
    /\ onlineAvailable \in {"unknown", "yes", "no"} /\ method \in {"counter", "qrph"}
    /\ press \in [Press -> PlaceRun] /\ placedOrder \in Receipt \cup {NoOrder} /\ qrPayment \in Press \cup {NoOrder}
    /\ qrExpired \in BOOLEAN /\ polling \in BOOLEAN
    /\ check \in {"none", "asked", "paid", "unpaid"}
    /\ printedOrderId \in Press \cup {NoOrder} /\ papers \in [Press -> Nat]
    /\ idle \in {"off", "waiting", "warning"} /\ showWarning \in BOOLEAN
    /\ kioskApi \in [Press -> {"none", "counter", "qrph", "paid", "refund"}]
    /\ codes \subseteq Press /\ basket \in Nat /\ touches \in 0 .. MaxTouches

\* The kiosk starts with whatever order the device had saved.
KioskInit ==
    /\ QR_PH_ENABLED \in BOOLEAN /\ page \in {"home", "checkout"} /\ started = FALSE
    /\ lines \in {EmptyCart, [d \in Dish |-> 1]} /\ chosen \in BOOLEAN
    /\ onlineAvailable = "unknown" /\ method = "counter"
    /\ press = [p \in Press |-> Unpressed]
    /\ placedOrder = NoOrder /\ qrPayment = NoOrder /\ qrExpired = FALSE
    /\ polling = FALSE /\ check = "none" /\ printedOrderId = NoOrder
    /\ papers = [p \in Press |-> 0] /\ idle = "waiting" /\ showWarning = FALSE
    /\ kioskApi = [p \in Press |-> "none"] /\ codes = {} /\ basket = 0 /\ touches = 0

-----------------------------------------------------------------------------
(* What is on screen, and the idle timer.                                  *)

Stage == IF chosen THEN "menu" ELSE IF started THEN "choose" ELSE "welcome"
Running(p) == press[p].step \in Asking \cup Answers
\* `placing` and the QR screen's `busy` last as long as the run that set them,
\* on the page that started it.
Here(p, whys) == Running(p) /\ press[p].where = "here" /\ press[p].why \in whys
placing == \E p \in Press : Here(p, {"placing"})
busy    == \E p \in Press : Here(p, {"newCode", "counter"})

ShowsQr   == page = "checkout" /\ qrPayment # NoOrder /\ placedOrder = NoOrder
ShowsForm == page = "checkout" /\ qrPayment = NoOrder /\ placedOrder = NoOrder /\ lines # EmptyCart
paused    == qrPayment # NoOrder /\ ~qrExpired
Overlay   == showWarning /\ ~paused /\ ~(page = "home" /\ Stage = "welcome")
AtWelcome == page = "home" /\ Stage = "welcome" /\ lines = EmptyCart

\* The timer isn't started again when the code has run out.
PausedChanges_NoResume == idle' = IF paused' THEN "off" ELSE idle

\* A code that arrives leaves the timer running.
PausedChanges_NoPause == idle' = IF paused' = paused \/ paused' THEN idle ELSE "waiting"

\* Pausing stops the timer, resuming starts a fresh wait.
PausedChanges == idle' = IF paused' = paused THEN idle
                         ELSE IF paused' THEN "off" ELSE "waiting"

\* Activity starts the wait again, except while the warning shows.
Activity == idle' = IF paused THEN "off" ELSE IF idle = "warning" THEN idle ELSE "waiting"
Touch ==
    /\ touches < MaxTouches /\ ~Overlay
    /\ touches' = touches + 1

\* The warning covers the screen: only its own button answers.
StayActive ==
    /\ Overlay /\ touches < MaxTouches
    /\ touches' = touches + 1 /\ showWarning' = FALSE /\ idle' = "waiting"
    /\ UNCHANGED <<settings, page, started, cart, press, screen, papers, apiSide>>

IdleWarn ==
    /\ idle = "waiting" /\ idle' = "warning" /\ showWarning' = TRUE
    /\ UNCHANGED <<settings, page, started, cart, press, screen, papers, apiSide, touches>>

-----------------------------------------------------------------------------
(* The order on the device, and moving between the pages.                  *)

ClearCart == lines' = EmptyCart /\ chosen' = FALSE /\ basket' = basket + 1

\* A page that opens knows nothing of the last one.
FreshPage ==
    /\ placedOrder' = NoOrder /\ qrPayment' = NoOrder /\ qrExpired' = FALSE
    /\ polling' = FALSE /\ check' = "none" /\ printedOrderId' = NoOrder
    /\ method' = "counter" /\ onlineAvailable' = "unknown"
    /\ idle' = "waiting" /\ showWarning' = FALSE /\ started' = FALSE

\* A link leaves the page's runs going; a load of the page drops them.
RunsAre(where) == press' = [p \in Press |-> IF press[p].where = "gone" THEN press[p]
                                            ELSE [press[p] EXCEPT !.where = where]]
resetKiosk == page' = "home" /\ FreshPage /\ RunsAre("gone")

startOver ==
    /\ page = "home" /\ Touch /\ ClearCart /\ started' = FALSE /\ Activity
    /\ UNCHANGED <<settings, page, press, screen, papers, showWarning, apiSide>>

TapWelcome ==
    /\ page = "home" /\ Stage = "welcome" /\ Touch /\ started' = TRUE /\ Activity
    /\ UNCHANGED <<settings, page, cart, press, screen, papers, showWarning, apiSide>>

chooseOrderType ==
    /\ page = "home" /\ Stage = "choose" /\ Touch /\ chosen' = TRUE /\ Activity
    /\ UNCHANGED <<settings, page, started, lines, basket, press, screen, papers, showWarning, apiSide>>

OnlyLines == UNCHANGED <<settings, page, started, chosen, basket, press, screen, papers,
                         showWarning, apiSide>>

\* The same dish goes on the line it has.
addToCart(d, q) ==
    /\ page = "home" /\ Stage = "menu" /\ lines[d] + q <= MaxQty /\ Touch /\ Activity
    /\ lines' = [lines EXCEPT ![d] = @ + q] /\ OnlyLines

\* A line already gone is changed.
HasLine_Any(d) == TRUE
\* The drawer: a line whose quantity reaches zero goes.
HasLine(d) == lines[d] > 0

changeQty(d, delta) ==
    /\ page = "home" /\ Stage = "menu" /\ HasLine(d) /\ lines[d] + delta <= MaxQty
    /\ Touch /\ Activity /\ lines' = [lines EXCEPT ![d] = @ + delta] /\ OnlyLines

removeLine(d) ==
    /\ page = "home" /\ Stage = "menu" /\ HasLine(d) /\ Touch /\ Activity
    /\ lines' = [lines EXCEPT ![d] = 0] /\ OnlyLines

OpenCheckout ==
    /\ page = "home" /\ Stage = "menu" /\ lines # EmptyCart /\ Touch
    /\ page' = "checkout" /\ FreshPage /\ RunsAre("left")
    /\ UNCHANGED <<QR_PH_ENABLED, cart, papers, apiSide>>

\* "Menu", "Edit" and "Back to menu" stay on screen while an order is sent.
BackToMenu ==
    /\ page = "checkout" /\ qrPayment = NoOrder /\ placedOrder = NoOrder /\ Touch
    /\ page' = "home" /\ FreshPage /\ RunsAre("left")
    /\ UNCHANGED <<QR_PH_ENABLED, cart, papers, apiSide>>

\* The receipt's Done.
Done ==
    /\ page = "checkout" /\ placedOrder # NoOrder /\ Touch /\ resetKiosk
    /\ UNCHANGED <<QR_PH_ENABLED, cart, papers, apiSide>>

\* The browser is refreshed or restarted on the same page.
ReloadPage ==
    /\ touches < MaxTouches /\ touches' = touches + 1
    /\ FreshPage /\ RunsAre("gone")
    /\ UNCHANGED <<QR_PH_ENABLED, page, cart, papers, apiSide>>

\* Nobody answered the warning: the home page starts over as it is, and the
\* checkout loads the home page anew.
IdleReset ==
    /\ idle = "warning" /\ ClearCart
    /\ IF page = "home"
       THEN /\ idle' = "off" /\ showWarning' = FALSE /\ started' = FALSE
            /\ UNCHANGED <<settings, page, press, screen>>
       ELSE resetKiosk /\ UNCHANGED QR_PH_ENABLED
    /\ UNCHANGED <<papers, apiSide, touches>>

-----------------------------------------------------------------------------
(* Placing the order.                                                      *)

PaymentOptionsAnswered ==
    /\ page = "checkout" /\ onlineAvailable = "unknown"
    /\ onlineAvailable' \in (IF QR_PH_ENABLED THEN {"yes", "no"} ELSE {"no"})
    /\ UNCHANGED <<QR_PH_ENABLED, method, page, started, cart, press, screen, papers, idle,
                   showWarning, apiSide, touches>>

PickMethod(m) ==
    /\ ShowsForm /\ m # method /\ (m = "qrph" => onlineAvailable = "yes")
    /\ Touch /\ method' = m /\ Activity
    /\ UNCHANGED <<QR_PH_ENABLED, onlineAvailable, page, started, cart, press, screen, papers,
                   showWarning, apiSide>>

\* Every press counts, also while one is being answered.
CanPlace_Twice == ShowsForm /\ chosen
CanPlace == ShowsForm /\ ~placing /\ chosen

NextPress(p) == press[p].step = "unused" /\ \A q \in 1 .. p - 1 : press[q].step # "unused"
Becomes(p, step) == press' = [press EXCEPT ![p].step = step]

payWith == IF onlineAvailable = "yes" THEN method ELSE "counter"

handlePlaceOrder(p) ==
    /\ CanPlace /\ NextPress(p) /\ Touch /\ Activity
    /\ press' = [press EXCEPT ![p] = [step |-> "order_sent", where |-> "here", why |-> "placing",
                                      with |-> payWith, basket |-> basket]]
    /\ UNCHANGED <<settings, page, started, cart, screen, papers, showWarning, apiSide>>

\* An order saved without dine in / take out goes back to choose it.
SendBack ==
    /\ page = "checkout" /\ lines # EmptyCart /\ ~chosen
    /\ page' = "home" /\ FreshPage /\ RunsAre("left")
    /\ UNCHANGED <<QR_PH_ENABLED, cart, papers, apiSide, touches>>

-----------------------------------------------------------------------------
(* The API: it does what was asked, refuses, or is never reached; and its  *)
(* answer may be lost on the way back.                                     *)

OnlyApi == UNCHANGED <<settings, page, started, cart, screen, papers, idle, showWarning, touches>>

ApiTakesOrder(p) ==
    /\ press[p].step = "order_sent" /\ kioskApi' = [kioskApi EXCEPT ![p] = press[p].with]
    /\ \E step \in {"order_made", "order_failed"} : Becomes(p, step)
    /\ UNCHANGED codes /\ OnlyApi

ApiMakesCode(p) ==
    /\ press[p].step = "code_sent" /\ kioskApi[p] # "paid"
    /\ kioskApi' = [kioskApi EXCEPT ![p] = "qrph"] /\ codes' = codes \cup {p}
    /\ \E step \in {"code_made", "code_failed"} : Becomes(p, step)
    /\ OnlyApi

\* Not configured (501, and the API makes it a counter order itself) or too many
\* attempts (429), which the QR screen takes as "pay at the counter", or any
\* other failure.
ApiMakesNoCode(p) ==
    /\ press[p].step = "code_sent"
    /\ \/ /\ kioskApi[p] \in {"counter", "qrph"} /\ Becomes(p, "code_busy")
          /\ kioskApi' = [kioskApi EXCEPT ![p] = "counter"]
       \/ /\ \E step \in {"code_busy", "code_failed"} : Becomes(p, step)
          /\ UNCHANGED kioskApi
    /\ UNCHANGED codes /\ OnlyApi

ApiSwitchesToCounter(p) ==
    /\ press[p].step = "counter_sent" /\ kioskApi[p] \in {"counter", "qrph"}
    /\ kioskApi' = [kioskApi EXCEPT ![p] = "counter"]
    /\ \E step \in {"counter_made", "counter_failed"} : Becomes(p, step)
    /\ UNCHANGED codes /\ OnlyApi

ApiFails(p) ==
    /\ \/ press[p].step = "order_sent" /\ Becomes(p, "order_failed")
       \/ press[p].step = "counter_sent" /\ Becomes(p, "counter_failed")
    /\ UNCHANGED apiSide /\ OnlyApi

\* Someone pays the code, also one that has run out or was given up.
CustomerPays(p) ==
    /\ p \in codes /\ kioskApi[p] \in {"qrph", "counter"}
    /\ kioskApi' = [kioskApi EXCEPT ![p] = IF @ = "qrph" THEN "paid" ELSE "refund"]
    /\ UNCHANGED <<press, codes>> /\ OnlyApi

-----------------------------------------------------------------------------
(* The answers reach the page.                                             *)

OnPage(p) == press[p].where = "here"
Ends(p)   == Becomes(p, "done")

\* The receipt shows, and prints once.
ShowReceipt(p, says) ==
    /\ placedOrder' = [order |-> p, says |-> says]
    /\ printedOrderId' = p
    /\ papers' = IF printedOrderId = p THEN papers ELSE [papers EXCEPT ![p] = @ + 1]

NoReceipt == UNCHANGED <<placedOrder, printedOrderId, papers>>
CloseQr   == qrPayment' = NoOrder /\ polling' = FALSE /\ check' = "none"

\* The order exists from here on, so the basket is emptied.
OrderAnswered(p) ==
    /\ press[p].step = "order_made" /\ press[p].where # "gone"
    /\ ClearCart
    /\ IF press[p].with = "counter"
       THEN Ends(p) /\ (IF OnPage(p) THEN ShowReceipt(p, "counter") ELSE NoReceipt)
       ELSE Becomes(p, "code_sent") /\ NoReceipt
    /\ UNCHANGED <<settings, page, started, qrPayment, qrExpired, polling, check, idle,
                   showWarning, apiSide, touches>>

\* "Could not send your order - please try again."
OrderFailed(p) ==
    /\ press[p].step = "order_failed" /\ press[p].where # "gone" /\ Becomes(p, "failed")
    /\ UNCHANGED <<settings, page, started, cart, screen, papers, idle, showWarning, apiSide, touches>>

CodeAnswered(p) ==
    /\ press[p].step = "code_made" /\ press[p].where # "gone" /\ Ends(p)
    /\ IF OnPage(p)
       THEN /\ qrPayment' = p /\ qrExpired' = FALSE /\ polling' = TRUE /\ check' = "none"
            /\ PausedChanges
       ELSE UNCHANGED <<qrPayment, qrExpired, polling, check, idle>>
    /\ UNCHANGED <<settings, page, started, cart, placedOrder, printedOrderId, papers,
                   showWarning, apiSide, touches>>

\* Any other failure only shows a message.
FallsBack_Busy(p) == press[p].step = "code_busy"

\* Placing the order, any failure makes it a counter order; asking for a new
\* code, only 501 and 429 do.
FallsBack(p) == press[p].why = "placing" \/ press[p].step = "code_busy"
CodeFailed(p) ==
    /\ press[p].step \in {"code_failed", "code_busy"} /\ press[p].where # "gone"
    /\ IF FallsBack(p)
       THEN Becomes(p, "counter_sent") ELSE Ends(p)
    /\ UNCHANGED <<settings, page, started, cart, screen, papers, idle, showWarning, apiSide, touches>>

\* finishAsCounterOrder shows the receipt whether or not the API recorded the
\* switch; the button "Pay at the counter instead" only if it did.
CounterAnswered(p) ==
    /\ press[p].step \in {"counter_made", "counter_failed"} /\ press[p].where # "gone" /\ Ends(p)
    /\ IF OnPage(p) /\ (press[p].why # "counter" \/ press[p].step = "counter_made")
       THEN CloseQr /\ ShowReceipt(p, "counter") /\ UNCHANGED qrExpired /\ PausedChanges
       ELSE UNCHANGED <<screen, papers, idle>>
    /\ UNCHANGED <<settings, page, started, cart, showWarning, apiSide, touches>>

-----------------------------------------------------------------------------
(* The QR screen.                                                          *)

AskFromQr(p, why, step) ==
    /\ ShowsQr /\ p = qrPayment /\ ~busy /\ Touch /\ Activity
    /\ press' = [press EXCEPT ![p].step = step, ![p].why = why, ![p].where = "here"]
    /\ UNCHANGED <<settings, page, started, cart, screen, papers, showWarning, apiSide>>

handleNewQrCode(p)           == qrExpired /\ AskFromQr(p, "newCode", "code_sent")
handlePayAtCounterInstead(p) == AskFromQr(p, "counter", "counter_sent")

CodeRunsOut ==
    /\ ShowsQr /\ ~qrExpired /\ qrExpired' = TRUE
    /\ UNCHANGED <<settings, page, started, cart, press, placedOrder, qrPayment, polling, check,
                   printedOrderId, papers, showWarning, apiSide, touches>>
    /\ PausedChanges

OnlyCheck == UNCHANGED <<settings, page, started, cart, press, qrExpired, showWarning, apiSide, touches>>

\* Until half a minute past the code's end.
CheckAsks ==
    /\ ShowsQr /\ polling /\ check = "none" /\ check' = "asked"
    /\ UNCHANGED <<qrPayment, polling, idle>> /\ NoReceipt /\ OnlyCheck

CheckStops ==
    /\ ShowsQr /\ qrExpired /\ polling /\ polling' = FALSE
    /\ UNCHANGED <<qrPayment, check, idle>> /\ NoReceipt /\ OnlyCheck

ApiChecks ==
    /\ check = "asked"
    /\ \/ check' = IF kioskApi[qrPayment] = "paid" THEN "paid" ELSE "unpaid"
       \/ check' = "unpaid"    \* a missed check
    /\ UNCHANGED <<qrPayment, polling, idle>> /\ NoReceipt /\ OnlyCheck

CheckAnswered ==
    /\ ShowsQr /\ check \in {"paid", "unpaid"} /\ OnlyCheck
    /\ IF check = "paid"
       THEN CloseQr /\ ShowReceipt(qrPayment, "paid") /\ PausedChanges
       ELSE check' = "none" /\ UNCHANGED <<qrPayment, polling, idle>> /\ NoReceipt

-----------------------------------------------------------------------------
CustomerActs ==
    \/ StayActive \/ startOver \/ TapWelcome \/ chooseOrderType \/ OpenCheckout \/ BackToMenu
    \/ Done \/ ReloadPage
    \/ \E d \in Dish, q \in 1 .. MaxQty : addToCart(d, q)
    \/ \E d \in Dish, delta \in {1, -1} : changeQty(d, delta)
    \/ \E d \in Dish : removeLine(d)
    \/ \E m \in {"counter", "qrph"} : PickMethod(m)
    \/ \E p \in Press : handlePlaceOrder(p) \/ handleNewQrCode(p) \/ handlePayAtCounterInstead(p)

ApiActs ==
    \/ ApiChecks
    \/ \E p \in Press : \/ ApiTakesOrder(p) \/ ApiMakesCode(p) \/ ApiMakesNoCode(p)
                        \/ ApiSwitchesToCounter(p) \/ ApiFails(p)

PageActs ==
    \/ PaymentOptionsAnswered \/ SendBack \/ CodeRunsOut \/ CheckAsks \/ CheckStops \/ CheckAnswered
    \/ \E p \in Press : \/ OrderAnswered(p) \/ OrderFailed(p) \/ CodeAnswered(p)
                        \/ CodeFailed(p) \/ CounterAnswered(p)

KioskNext ==
    \/ CustomerActs \/ ApiActs \/ PageActs \/ IdleWarn \/ IdleReset
    \/ \E p \in Press : CustomerPays(p)

KioskSpec == KioskInit /\ [][KioskNext]_kioskVars

-----------------------------------------------------------------------------
(* Properties                                                              *)

\* Two orders of the same basket have a reason: the page never had the
\* answer to the first (it failed on the way, or the page was reloaded), or
\* the customer left the page while it was being placed.  And once the page
\* has the answer to an order, the basket it was made from is gone: its dishes
\* cannot be ordered again by pressing "Place order" once more
\* (checkout/page.tsx:207 and :213).
SecondOrderIsExplained ==
    /\ \A p, q \in Press :
          p < q /\ press[q].step # "unused" /\ press[p].basket = press[q].basket
              => press[p].step = "failed" \/ press[p].where # "here"
    /\ \A p \in Press :
          press[p].step \notin {"unused", "failed", "order_sent", "order_made", "order_failed"}
              => press[p].basket < basket

\* An order whose answer reached the page is on its screen, as a code to scan
\* or as a receipt.  A receipt that says paid is for an order the API has as
\* paid, and an order prints on paper once however often the answers come.
OrderIsOnScreen ==
    /\ \A p \in Press : press[p].step = "done" /\ OnPage(p)
          => qrPayment = p \/ (placedOrder # NoOrder /\ placedOrder.order = p)
    /\ placedOrder # NoOrder /\ placedOrder.says = "paid" => kioskApi[placedOrder.order] = "paid"
    /\ \A p \in Press : papers[p] <= 1

\* The kiosk is reset under a customer only after the warning was on screen,
\* and never while a code on it can be scanned (useIdleTimer.ts:84).
ResetIsWarned == IdleReset => ~paused /\ (Overlay \/ (page = "home" /\ Stage = "welcome"))

\* An order the page heard of is shown until the kiosk is reset, and that
\* doesn't happen unwarned: the flow never ends with an order nobody tells the
\* customer about, and a code isn't taken from under a customer.
PlacedOrderIsShown == [][OrderIsOnScreen' /\ ResetIsWarned]_kioskVars

\* Left alone, the kiosk comes back to the welcome screen with no order on
\* it, whatever was under way, except where a new code arrives under a
\* receipt: nothing then ends the pause of the idle timer.
KioskComesBack == <>[](AtWelcome \/ (placedOrder # NoOrder /\ paused))
=============================================================================
