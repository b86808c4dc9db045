------------------------ MODULE FrontOfHouse_proofs ------------------------
(***************************************************************************)
(* The kiosk and the screens that follow the orders; and the browsers side *)
(* by side, whose behaviours are those of each of them, so that what is    *)
(* proved of one holds of all (Staff_proofs has the staff's).              *)
(***************************************************************************)
EXTENDS MCFrontOfHouse, Staff_proofs

-----------------------------------------------------------------------------
(* The kiosk.                                                              *)

\* Steps before the page has the answer to the order, and after.
Ordering == {"order_sent", "order_made", "order_failed"}
Past     == Step \ ({"unused", "failed"} \cup Ordering)
PressUsed(p)  == press[p].step # "unused"
OnScreen(p) == qrPayment = p \/ (placedOrder # NoOrder /\ placedOrder.order = p)

\* A press is a run of the page until it has been answered, and while the
\* order is asked for the page is placing it.
PressesInOrder ==
    /\ \A p, q \in Press : p < q /\ PressUsed(q) => PressUsed(p)
    /\ \A p \in Press : press[p].step \in Ordering => press[p].why = "placing"
    /\ \A p \in Press : press[p].step = "unused" => press[p].where = "gone"

\* A basket has its number when it is ordered; it is used up with the answer.
BasketsUsed ==
    /\ \A p \in Press : press[p].basket <= basket
    /\ SecondOrderIsExplained

\* The page has one run at most, but for the ones that failed.
OneAtATime ==
    \A p, q \in Press :
       OnPage(p) /\ press[p].step # "failed" /\ OnPage(q) /\ press[q].step # "failed" => p = q

\* What is on the screen is the order of that run; the run's order is on the
\* screen once it is done, or once it asks from there.
ScreenShows ==
    /\ \A p \in Press : OnScreen(p) => OnPage(p) /\ press[p].step \in Past
    /\ \A p \in Press :
          OnPage(p) /\ press[p].step \in Past /\ (press[p].step = "done" \/ press[p].why # "placing")
              => OnScreen(p)

\* What a check or a receipt says of a payment is so.
ChecksAreTrue ==
    /\ check # "none" => qrPayment # NoOrder
    /\ check = "paid" => kioskApi[qrPayment] = "paid"
    /\ placedOrder # NoOrder /\ placedOrder.says = "paid" => kioskApi[placedOrder.order] = "paid"

\* What was printed for a run of this page is remembered.
PrintedOnce ==
    \A p \in Press :
       /\ papers[p] <= 1
       /\ papers[p] > 0 => press[p].step \in Past /\ (OnPage(p) => printedOrderId = p)

\* The timer doesn't run under a code, and the last wait begins with a warning.
IdleTimer ==
    /\ paused => idle = "off"
    /\ idle = "warning" => showWarning

\* What holds of the presses, and of what is on screen.
PressInv  == PressesInOrder /\ BasketsUsed
ScreenInv == OneAtATime /\ ScreenShows /\ ChecksAreTrue /\ PrintedOnce
\* The inductive invariant of the kiosk.
KioskInv  == KioskTypeOK /\ PressInv /\ ScreenInv /\ IdleTimer

\* A run that gets on changes its step and nothing else.
LEMMA RunGetsOn ==
    ASSUME KioskTypeOK, NEW p \in Press, NEW s \in Step, Becomes(p, s)
    PROVE  /\ press' \in [Press -> PlaceRun] /\ press'[p].step = s
           /\ \A q \in Press : q # p => press'[q] = press[q]
           /\ \A q \in Press : /\ press'[q].where = press[q].where /\ press'[q].why = press[q].why
                               /\ press'[q].with = press[q].with /\ press'[q].basket = press[q].basket
BY DEF KioskTypeOK, Becomes, PlaceRun

\* What a run is made of.
LEMMA RunTyped ==
    ASSUME KioskTypeOK, NEW p \in Press
    PROVE  /\ press[p].step \in Step /\ press[p].basket \in Nat /\ press[p].with \in {"counter", "qrph"}
           /\ press[p].where \in {"here", "left", "gone"}
           /\ press[p].why \in {"placing", "newCode", "counter"}
BY DEF KioskTypeOK, PlaceRun

\* Presses stay in order, and a basket that is used up stays so, while a run
\* gets on: it has the answer only once the basket is emptied.
LEMMA PressGetsOn ==
    ASSUME KioskTypeOK, PressInv, NEW p \in Press, NEW s \in Step \ {"unused"}, Becomes(p, s), Running(p),
           basket' \in {basket, basket + 1},
           s \in Past => press[p].step \in Past \/ basket' = basket + 1,
           s \in Ordering => press[p].step \in Ordering
    PROVE  PressInv'
<1>1. /\ press' \in [Press -> PlaceRun] /\ press'[p].step = s
      /\ \A q \in Press : q # p => press'[q] = press[q]
      /\ \A q \in Press : /\ press'[q].where = press[q].where /\ press'[q].why = press[q].why
                          /\ press'[q].with = press[q].with /\ press'[q].basket = press[q].basket
  BY RunGetsOn
<1>2. \A q \in Press : press[q].step \in Step /\ press[q].basket \in Nat
  BY RunTyped
<1>3. press[p].step \notin {"unused", "failed", "done"}
  BY DEF Running, Asking, Answers
<1>4. PressesInOrder'
  <2>1. \A q \in Press : press'[q].step = "unused" <=> press[q].step = "unused"
    BY <1>1, <1>3
  <2>. QED BY <1>1, <2>1 DEF PressInv, PressesInOrder, PressUsed
<1>5. BasketsUsed'
  <2>1. basket \in Nat /\ \A q \in Press : press[q].basket <= basket
    BY DEF KioskTypeOK, PressInv, BasketsUsed
  <2>2. \A q, r \in Press :
           q < r /\ press[r].step # "unused" /\ press[q].basket = press[r].basket
              => press[q].step = "failed" \/ press[q].where # "here"
    BY DEF PressInv, BasketsUsed, SecondOrderIsExplained
  <2>3. \A q \in Press : press[q].step \in Past => press[q].basket < basket
    BY <1>2 DEF PressInv, BasketsUsed, SecondOrderIsExplained, Past, Ordering
  <2>4. ASSUME NEW q \in Press, press'[q].step \in Past PROVE press'[q].basket < basket'
    <3>1. CASE press[q].step \in Past
      BY <1>1, <1>2, <2>1, <2>3, <3>1
    <3>2. CASE press[q].step \notin Past
      BY <1>1, <1>2, <2>1, <2>4, <3>2
    <3>. QED BY <3>1, <3>2
  <2>5. \A q \in Press : press'[q].step \in Step
    BY <1>1 DEF PlaceRun
  <2>6. \A q, r \in Press :
           q < r /\ press'[r].step # "unused" /\ press'[q].basket = press'[r].basket
              => press'[q].step = "failed" \/ press'[q].where # "here"
    BY <1>1, <1>3, <2>2
  <2>. QED BY <1>1, <1>2, <2>1, <2>4, <2>5, <2>6 DEF BasketsUsed, SecondOrderIsExplained, Past, Ordering
<1>. QED BY <1>4, <1>5 DEF PressInv

\* A page that opens has none of the runs on it, and shows nothing of them.
LEMMA PageOpens ==
    ASSUME KioskTypeOK, PressInv, ScreenInv, NEW where \in {"left", "gone"}, FreshPage, RunsAre(where),
           basket' \in {basket, basket + 1}, UNCHANGED <<papers, apiSide>>
    PROVE  PressInv' /\ ScreenInv' /\ IdleTimer' /\ press' \in [Press -> PlaceRun]
<1>1. /\ press' \in [Press -> PlaceRun]
      /\ \A p \in Press : /\ press'[p].where # "here" /\ press'[p].step = press[p].step
                          /\ press'[p].why = press[p].why /\ press'[p].basket = press[p].basket
                          /\ press[p].where = "gone" => press'[p].where = "gone"
  BY DEF KioskTypeOK, RunsAre, PlaceRun
<1>2. placedOrder' = NoOrder /\ qrPayment' = NoOrder /\ check' = "none" /\ idle' = "waiting"
  BY DEF FreshPage
<1>3. basket \in Nat /\ \A p \in Press : press[p].basket \in Nat /\ press[p].step \in Step
  BY RunTyped DEF KioskTypeOK
<1>4. PressesInOrder'
  BY <1>1 DEF PressInv, PressesInOrder, PressUsed
<1>5. BasketsUsed'
  BY <1>1, <1>3 DEF PressInv, BasketsUsed, SecondOrderIsExplained
<1>6. OneAtATime' /\ ScreenShows'
  <2>1. NoOrder \notin Press
    BY KioskAssumption
  <2>. QED BY <1>1, <1>2, <2>1 DEF OneAtATime, ScreenShows, OnPage, OnScreen
<1>7. ChecksAreTrue'
  BY <1>2 DEF ChecksAreTrue
<1>8. PrintedOnce'
  BY <1>1 DEF ScreenInv, PrintedOnce, OnPage
<1>9. IdleTimer'
  BY <1>2 DEF IdleTimer, paused
<1>. QED BY <1>1, <1>4, <1>5, <1>6, <1>7, <1>8, <1>9 DEF PressInv, ScreenInv

\* What is touched on the page that is open leaves the runs alone.
LEMMA PageRests ==
    ASSUME KioskTypeOK, PressInv, ScreenInv, UNCHANGED <<press, screen, papers, apiSide>>,
           basket' \in {basket, basket + 1}
    PROVE  PressInv' /\ ScreenInv'
<1>1. basket \in Nat /\ \A p \in Press : press[p].basket \in Nat
  BY RunTyped DEF KioskTypeOK
<1>2. PressInv'
  BY <1>1 DEF PressInv, PressesInOrder, BasketsUsed, SecondOrderIsExplained, PressUsed
<1>3. ScreenInv'
  BY DEF ScreenInv, OneAtATime, ScreenShows, ChecksAreTrue, PrintedOnce, OnScreen, OnPage, screen, apiSide
<1>. QED BY <1>2, <1>3

\* Activity starts the wait again unless the timer is paused.
LEMMA ActivityKeeps ==
    ASSUME IdleTimer, Activity, UNCHANGED <<qrPayment, qrExpired, showWarning>>
    PROVE  IdleTimer'
BY DEF IdleTimer, Activity, paused

\* Pausing and resuming keep the timer right.
LEMMA PauseKeeps ==
    ASSUME IdleTimer, PausedChanges, UNCHANGED showWarning
    PROVE  IdleTimer'
BY Zenon DEF IdleTimer, PausedChanges

\* The types of what a customer's touch changes.
LEMMA TouchTyped ==
    ASSUME KioskTypeOK
    PROVE  /\ Touch => touches' \in 0 .. MaxTouches
           /\ Activity => idle' \in {"off", "waiting", "warning"}
           /\ ClearCart => lines' \in [Dish -> 0 .. MaxQty] /\ chosen' = FALSE /\ basket' = basket + 1
BY KioskAssumption DEF KioskTypeOK, Touch, Activity, ClearCart, EmptyCart

\* The customer taps on the home page, and changes the order on the device.
LEMMA HomeKeeps ==
    ASSUME KioskInv,
           \/ StayActive \/ startOver \/ TapWelcome \/ chooseOrderType
           \/ \E d \in Dish, q \in 1 .. MaxQty : addToCart(d, q)
           \/ \E d \in Dish, delta \in {1, -1} : changeQty(d, delta)
           \/ \E d \in Dish : removeLine(d)
           \/ \E m \in {"counter", "qrph"} : PickMethod(m)
           \/ PaymentOptionsAnswered \/ IdleWarn
    PROVE  KioskInv'
<1>. KioskTypeOK /\ PressInv /\ ScreenInv /\ IdleTimer
  BY DEF KioskInv
<1>1. /\ UNCHANGED <<press, screen, papers, apiSide, QR_PH_ENABLED, page>> /\ basket' \in {basket, basket + 1}
  BY DEF StayActive, startOver, TapWelcome, chooseOrderType, addToCart, changeQty, removeLine,
         PickMethod, PaymentOptionsAnswered, IdleWarn, OnlyLines, settings, cart, ClearCart
<1>2. IdleTimer'
  <2>1. CASE StayActive \/ IdleWarn \/ PaymentOptionsAnswered
    BY <2>1 DEF StayActive, IdleWarn, PaymentOptionsAnswered, IdleTimer, paused, Overlay, screen
  <2>2. CASE ~(StayActive \/ IdleWarn \/ PaymentOptionsAnswered)
    <3>1. Activity /\ UNCHANGED <<qrPayment, qrExpired, showWarning>>
      BY <2>2 DEF startOver, TapWelcome, chooseOrderType, addToCart, changeQty, removeLine, PickMethod,
                  OnlyLines, screen
    <3>. QED BY <3>1, ActivityKeeps
  <2>. QED BY <2>1, <2>2
<1>3. lines' \in [Dish -> 0 .. MaxQty]
  <2>1. lines \in [Dish -> 0 .. MaxQty] /\ MaxQty \in Nat
    BY KioskAssumption DEF KioskTypeOK
  <2>2. CASE startOver
    BY <2>2, TouchTyped DEF startOver
  <2>3. ASSUME NEW d \in Dish, NEW q \in 1 .. MaxQty, addToCart(d, q) PROVE lines' \in [Dish -> 0 .. MaxQty]
    BY <2>1, <2>3 DEF addToCart
  <2>4. ASSUME NEW d \in Dish, NEW delta \in {1, -1}, changeQty(d, delta)
        PROVE  lines' \in [Dish -> 0 .. MaxQty]
    <3>1. lines[d] + delta \in 0 .. MaxQty
      BY <2>1, <2>4 DEF changeQty, HasLine
    <3>. QED BY <2>1, <2>4, <3>1 DEF changeQty
  <2>5. ASSUME NEW d \in Dish, removeLine(d) PROVE lines' \in [Dish -> 0 .. MaxQty]
    BY <2>1, <2>5 DEF removeLine
  <2>6. CASE UNCHANGED lines
    BY <2>1, <2>6
  <2>7. \/ UNCHANGED lines \/ startOver
        \/ \E d \in Dish, q \in 1 .. MaxQty : addToCart(d, q)
        \/ \E d \in Dish, delta \in {1, -1} : changeQty(d, delta)
        \/ \E d \in Dish : removeLine(d)
    BY DEF StayActive, TapWelcome, chooseOrderType, PickMethod, PaymentOptionsAnswered, IdleWarn, cart
  <2>. QED BY <2>2, <2>3, <2>4, <2>5, <2>6, <2>7
<1>4. /\ touches' \in 0 .. MaxTouches /\ idle' \in {"off", "waiting", "warning"}
      /\ onlineAvailable' \in {"unknown", "yes", "no"} /\ method' \in {"counter", "qrph"}
  <2>1. idle' \in {"off", "waiting", "warning"}
    <3>1. Activity \/ idle' \in {"waiting", "warning"} \/ idle' = idle
      BY DEF StayActive, startOver, TapWelcome, chooseOrderType, addToCart, changeQty, removeLine,
             PickMethod, PaymentOptionsAnswered, IdleWarn
    <3>. QED BY <3>1, TouchTyped DEF KioskTypeOK
  <2>2. touches' \in 0 .. MaxTouches
    <3>1. touches' = touches \/ (touches < MaxTouches /\ touches' = touches + 1)
      BY DEF StayActive, startOver, TapWelcome, chooseOrderType, addToCart, changeQty, removeLine,
             PickMethod, PaymentOptionsAnswered, IdleWarn, Touch
    <3>2. touches \in 0 .. MaxTouches /\ MaxTouches \in Nat
      BY KioskAssumption DEF KioskTypeOK
    <3>. QED BY <3>1, <3>2
  <2>3. onlineAvailable' \in {"unknown", "yes", "no"} /\ method' \in {"counter", "qrph"}
    BY DEF StayActive, startOver, TapWelcome, chooseOrderType, addToCart, changeQty, removeLine,
           PickMethod, PaymentOptionsAnswered, IdleWarn, OnlyLines, settings, KioskTypeOK
  <2>. QED BY <2>1, <2>2, <2>3
<1>5. chosen' \in BOOLEAN /\ started' \in BOOLEAN /\ showWarning' \in BOOLEAN
  <2>1. chosen' \in {TRUE, FALSE, chosen} /\ started' \in {TRUE, FALSE, started}
        /\ showWarning' \in {TRUE, FALSE, showWarning}
    BY DEF StayActive, startOver, TapWelcome, chooseOrderType, addToCart, changeQty, removeLine,
           PickMethod, PaymentOptionsAnswered, IdleWarn, OnlyLines, cart, ClearCart
  <2>. QED BY <2>1 DEF KioskTypeOK
<1>6. PressInv' /\ ScreenInv'
  BY <1>1, PageRests
<1>7. KioskTypeOK'
  BY <1>1, <1>3, <1>4, <1>5 DEF KioskTypeOK, screen, apiSide
<1>. QED BY <1>2, <1>6, <1>7 DEF KioskInv

\* A page is opened by a link, reloaded, or left for the welcome screen.
LEMMA PagesKeep ==
    ASSUME KioskInv, OpenCheckout \/ BackToMenu \/ Done \/ ReloadPage \/ SendBack \/ IdleReset
    PROVE  KioskInv'
<1>. KioskTypeOK /\ PressInv /\ ScreenInv /\ IdleTimer
  BY DEF KioskInv
<1>1. /\ UNCHANGED <<QR_PH_ENABLED, papers, apiSide>> /\ basket' \in {basket, basket + 1}
      /\ page' \in {"home", "checkout"}
      /\ UNCHANGED cart \/ ClearCart
  BY DEF OpenCheckout, BackToMenu, Done, ReloadPage, SendBack, IdleReset, ClearCart, cart, settings,
         resetKiosk, KioskTypeOK
<1>2. touches' \in 0 .. MaxTouches
  <2>1. touches' = touches \/ (touches < MaxTouches /\ touches' = touches + 1)
    BY DEF OpenCheckout, BackToMenu, Done, ReloadPage, SendBack, IdleReset, Touch
  <2>2. touches \in 0 .. MaxTouches /\ MaxTouches \in Nat
    BY KioskAssumption DEF KioskTypeOK
  <2>. QED BY <2>1, <2>2
<1>3. lines' \in [Dish -> 0 .. MaxQty]
  BY <1>1, TouchTyped DEF cart, KioskTypeOK
<1>4. chosen' \in BOOLEAN
  <2>1. chosen' = FALSE \/ chosen' = chosen
    BY <1>1, TouchTyped DEF cart
  <2>. QED BY <2>1 DEF KioskTypeOK
<1>5. basket' \in Nat
  BY <1>1 DEF KioskTypeOK
<1>6. CASE FreshPage /\ \E where \in {"left", "gone"} : RunsAre(where)
  <2>1. PressInv' /\ ScreenInv' /\ IdleTimer' /\ press' \in [Press -> PlaceRun]
    BY <1>1, <1>6, PageOpens
  <2>2. started' = FALSE /\ qrExpired' = FALSE /\ polling' = FALSE /\ showWarning' = FALSE
    BY <1>6 DEF FreshPage
  <2>3. started' \in BOOLEAN /\ qrExpired' \in BOOLEAN /\ polling' \in BOOLEAN /\ showWarning' \in BOOLEAN
    BY <2>2, Zenon
  <2>4. KioskTypeOK'
    BY <1>1, <1>2, <1>3, <1>4, <1>5, <1>6, <2>1, <2>3 DEF KioskTypeOK, FreshPage, apiSide
  <2>. QED BY <2>1, <2>4 DEF KioskInv
<1>7. CASE ~(FreshPage /\ \E where \in {"left", "gone"} : RunsAre(where))
  <2>1. IdleReset /\ page = "home"
    BY <1>7 DEF OpenCheckout, BackToMenu, Done, ReloadPage, SendBack, IdleReset, resetKiosk
  <2>2. /\ UNCHANGED <<press, screen, settings>> /\ idle' = "off" /\ showWarning' = FALSE
        /\ started' = FALSE
    BY <2>1 DEF IdleReset
  <2>3. PressInv' /\ ScreenInv'
    BY <1>1, <2>2, PageRests
  <2>4. IdleTimer'
    BY <2>2 DEF IdleTimer
  <2>5. started' \in BOOLEAN /\ showWarning' \in BOOLEAN
    BY <2>2, Zenon
  <2>6. KioskTypeOK'
    BY <1>1, <1>2, <1>3, <1>4, <1>5, <2>2, <2>5 DEF KioskTypeOK, screen, apiSide, settings
  <2>. QED BY <2>3, <2>4, <2>6 DEF KioskInv
<1>. QED BY <1>6, <1>7

\* A press of "Place order" finds nothing on the page, and none of the
\* customer's runs that could answer for the same basket.
LEMMA OrderIsPlaced ==
    ASSUME KioskInv, NEW p \in Press, handlePlaceOrder(p)
    PROVE  KioskInv'
<1>. KioskTypeOK /\ PressInv /\ ScreenInv /\ IdleTimer
  BY DEF KioskInv
<1>. DEFINE new == [step |-> "order_sent", where |-> "here", why |-> "placing",
                    with |-> payWith, basket |-> basket]
<1>1. /\ UNCHANGED <<settings, page, started, cart, screen, papers, showWarning, apiSide>>
      /\ Touch /\ Activity /\ NextPress(p) /\ press' = [press EXCEPT ![p] = new]
      /\ placedOrder = NoOrder /\ qrPayment = NoOrder /\ ~placing
  BY DEF handlePlaceOrder, CanPlace, ShowsForm
<1>2. new \in PlaceRun
  <2>1. payWith \in {"counter", "qrph"}
    BY DEF payWith, KioskTypeOK
  <2>. QED BY <2>1 DEF PlaceRun, Step, Asking, KioskTypeOK
<1>3. /\ press' \in [Press -> PlaceRun] /\ press'[p] = new
      /\ \A q \in Press : q # p => press'[q] = press[q]
  BY <1>1, <1>2 DEF KioskTypeOK
<1>4. \A q \in Press : press[q].step \in Step /\ press[q].basket \in Nat /\ press[q].basket <= basket
  BY RunTyped DEF PressInv, BasketsUsed
<1>5. /\ press[p].step = "unused" /\ \A q \in Press : q < p => press[q].step # "unused"
      /\ \A q \in Press : p < q => press[q].step = "unused"
  <2>1. p \in Nat
    BY DEF Press
  <2>2. press[p].step = "unused" /\ \A q \in 1 .. p - 1 : press[q].step # "unused"
    BY <1>1 DEF NextPress
  <2>. QED BY <2>1, <2>2 DEF Press, PressInv, PressesInOrder, PressUsed
<1>6. \A q \in Press : ~OnScreen(q)
  BY <1>1, KioskAssumption DEF OnScreen
<1>7. ASSUME NEW q \in Press, OnPage(q), press[q].step # "failed" PROVE FALSE
  <2>1. press[q].step # "unused"
    BY <1>7 DEF PressInv, PressesInOrder, OnPage
  <2>2. ~(press[q].step \in Past /\ (press[q].step = "done" \/ press[q].why # "placing"))
    BY <1>6, <1>7 DEF ScreenInv, ScreenShows
  <2>3. ~(Running(q) /\ press[q].why = "placing")
    BY <1>1, <1>7 DEF placing, Here, OnPage
  <2>4. press[q].step \in Ordering => press[q].why = "placing"
    BY DEF PressInv, PressesInOrder
  <2>. QED BY <1>4, <1>7, <2>1, <2>2, <2>3, <2>4 DEF Running, Step, Past, Ordering, Asking, Answers
<1>8. PressesInOrder'
  BY <1>3, <1>5 DEF PressInv, PressesInOrder, PressUsed, Press
<1>9. BasketsUsed'
  <2>1. basket' = basket /\ basket \in Nat
    BY <1>1 DEF cart, KioskTypeOK
  <2>2. \A q, r \in Press :
           q < r /\ press[r].step # "unused" /\ press[q].basket = press[r].basket
              => press[q].step = "failed" \/ press[q].where # "here"
    BY DEF PressInv, BasketsUsed, SecondOrderIsExplained
  <2>3. \A q, r \in Press :
           q < r /\ press'[r].step # "unused" /\ press'[q].basket = press'[r].basket
              => press'[q].step = "failed" \/ press'[q].where # "here"
    <3>1. SUFFICES ASSUME NEW q \in Press, NEW r \in Press, q < r, press'[r].step # "unused",
                          press'[q].basket = press'[r].basket
                   PROVE  press'[q].step = "failed" \/ press'[q].where # "here"
      OBVIOUS
    <3>2. CASE r = p
      <4>1. q # p /\ press'[q] = press[q]
        BY <1>3, <3>1, <3>2 DEF Press
      <4>. QED BY <1>7, <4>1 DEF OnPage
    <3>3. CASE r # p
      <4>1. q # p
        BY <1>3, <1>5, <3>1, <3>3
      <4>. QED BY <1>3, <2>2, <3>1, <3>3, <4>1
    <3>. QED BY <3>2, <3>3
  <2>4. \A q \in Press : press[q].step \notin {"unused", "failed"} \cup Ordering => press[q].basket < basket
    BY DEF PressInv, BasketsUsed, SecondOrderIsExplained, Ordering
  <2>. QED BY <1>3, <1>4, <2>1, <2>3, <2>4 DEF BasketsUsed, SecondOrderIsExplained, Ordering
<1>10. OneAtATime'
  BY <1>3, <1>7 DEF OneAtATime, OnPage
<1>11. ScreenShows'
  <2>1. \A q \in Press : ~OnScreen(q)'
    BY <1>1, <1>6 DEF OnScreen, screen
  <2>2. "order_sent" \notin Past
    BY DEF Past, Ordering
  <2>. QED BY <1>3, <1>7, <2>1, <2>2 DEF ScreenShows, OnPage, Past
<1>12. ChecksAreTrue'
  BY <1>1 DEF ScreenInv, ChecksAreTrue, screen, apiSide
<1>13. PrintedOnce'
  <2>1. ~(papers[p] > 0)
    BY <1>5 DEF ScreenInv, PrintedOnce, Past
  <2>. QED BY <1>1, <1>3, <2>1 DEF ScreenInv, PrintedOnce, OnPage, screen
<1>14. IdleTimer'
  BY <1>1, ActivityKeeps DEF screen
<1>15. KioskTypeOK'
  <2>1. touches' \in 0 .. MaxTouches /\ idle' \in {"off", "waiting", "warning"}
    BY <1>1, TouchTyped
  <2>. QED BY <1>1, <1>3, <2>1 DEF KioskTypeOK, settings, cart, screen, apiSide
<1>. QED BY <1>8, <1>9, <1>10, <1>11, <1>12, <1>13, <1>14, <1>15 DEF KioskInv, PressInv, ScreenInv

\* How the API may have an order.
ApiHolds == {"none", "counter", "qrph", "paid", "refund"}

\* The API may do more with an order, but what it was paid for stays paid once
\* the page has the order's answer.
PaidStays ==
    /\ kioskApi' \in [Press -> ApiHolds] /\ codes' \subseteq Press
    /\ \A q \in Press : kioskApi[q] = "paid" /\ press[q].step \in Past => kioskApi'[q] = "paid"

\* What the screen says of a payment stays true.
LEMMA ChecksStay ==
    ASSUME KioskTypeOK, ScreenInv, PaidStays, UNCHANGED <<placedOrder, qrPayment, check>>
    PROVE  ChecksAreTrue'
<1>1. qrPayment \in Press \cup {NoOrder} /\ placedOrder \in Receipt \cup {NoOrder}
  BY DEF KioskTypeOK
<1>2. qrPayment # NoOrder => qrPayment \in Press /\ press[qrPayment].step \in Past
  BY <1>1 DEF ScreenInv, ScreenShows, OnScreen
<1>3. placedOrder # NoOrder => placedOrder.order \in Press /\ press[placedOrder.order].step \in Past
  <2>1. placedOrder # NoOrder => placedOrder.order \in Press
    BY <1>1 DEF Receipt
  <2>. QED BY <2>1 DEF ScreenInv, ScreenShows, OnScreen
<1>. QED BY <1>2, <1>3 DEF ChecksAreTrue, ScreenInv, PaidStays

\* A request reaches the API, or fails.
LEMMA RequestEnds ==
    ASSUME KioskInv, NEW p \in Press, NEW s \in Answers, press[p].step \in Asking, Becomes(p, s), OnlyApi,
           s \in Ordering <=> press[p].step \in Ordering, PaidStays
    PROVE  KioskInv'
<1>. KioskTypeOK /\ PressInv /\ ScreenInv /\ IdleTimer
  BY DEF KioskInv
<1>1. s \in Step /\ s \notin {"unused", "failed", "done"} /\ press[p].step \notin {"unused", "failed", "done"}
  BY DEF Step, Asking, Answers
<1>2. /\ press' \in [Press -> PlaceRun] /\ press'[p].step = s
      /\ \A q \in Press : q # p => press'[q] = press[q]
      /\ \A q \in Press : /\ press'[q].where = press[q].where /\ press'[q].why = press[q].why
                          /\ press'[q].with = press[q].with /\ press'[q].basket = press[q].basket
  BY <1>1, RunGetsOn
<1>3. s \in Past <=> press[p].step \in Past
  BY <1>1, RunTyped DEF Past
<1>4. PressInv'
  <2>1. basket' = basket
    BY DEF OnlyApi, cart
  <2>. QED BY <1>1, <1>3, <2>1, PressGetsOn DEF Running
<1>5. OneAtATime'
  <2>1. \A q \in Press : press'[q].step = "failed" <=> press[q].step = "failed"
    BY <1>1, <1>2
  <2>. QED BY <1>2, <2>1 DEF ScreenInv, OneAtATime, OnPage
<1>6. ScreenShows'
  <2>1. \A q \in Press : OnScreen(q)' <=> OnScreen(q)
    BY DEF OnlyApi, screen, OnScreen
  <2>2. \A q \in Press : /\ press'[q].step \in Past <=> press[q].step \in Past
                         /\ press'[q].step = "done" <=> press[q].step = "done"
    BY <1>1, <1>2, <1>3
  <2>3. \A q \in Press : OnPage(q)' <=> OnPage(q)
    BY <1>2 DEF OnPage
  <2>. QED BY <1>2, <2>1, <2>2, <2>3 DEF ScreenInv, ScreenShows, Past
<1>7. ChecksAreTrue'
  BY ChecksStay DEF OnlyApi, screen
<1>8. PrintedOnce'
  <2>1. \A q \in Press : press[q].step \in Past => press'[q].step \in Past
    BY <1>2, <1>3
  <2>. QED BY <1>2, <2>1 DEF ScreenInv, PrintedOnce, OnPage, OnlyApi, screen
<1>9. IdleTimer'
  BY DEF IdleTimer, paused, OnlyApi, screen
<1>10. KioskTypeOK'
  BY <1>2 DEF KioskTypeOK, OnlyApi, settings, cart, screen, PaidStays, ApiHolds
<1>. QED BY <1>4, <1>5, <1>6, <1>7, <1>8, <1>9, <1>10 DEF KioskInv, ScreenInv

\* A step of the API answers one request, and unpays nothing.
LEMMA ApiKeeps ==
    ASSUME KioskInv, NEW p \in Press,
           \/ ApiTakesOrder(p) \/ ApiMakesCode(p) \/ ApiMakesNoCode(p)
           \/ ApiSwitchesToCounter(p) \/ ApiFails(p)
    PROVE  KioskInv'
<1>. KioskTypeOK
  BY DEF KioskInv
<1>0. kioskApi \in [Press -> ApiHolds] /\ codes \subseteq Press /\ press[p].with \in {"counter", "qrph"}
  BY RunTyped DEF KioskTypeOK, ApiHolds
<1>1. CASE ApiTakesOrder(p)
  <2>1. PICK s \in {"order_made", "order_failed"} : Becomes(p, s)
    BY <1>1 DEF ApiTakesOrder
  <2>2. /\ press[p].step = "order_sent" /\ kioskApi' = [kioskApi EXCEPT ![p] = press[p].with]
        /\ codes' = codes /\ OnlyApi
    BY <1>1 DEF ApiTakesOrder
  <2>3. press[p].step \notin Past
    BY <2>2 DEF Past, Ordering
  <2>4. PaidStays
    BY <1>0, <2>2, <2>3 DEF PaidStays, ApiHolds
  <2>. QED BY <2>1, <2>2, <2>4, RequestEnds DEF Ordering, Asking, Answers
<1>2. CASE ApiMakesCode(p)
  <2>1. PICK s \in {"code_made", "code_failed"} : Becomes(p, s)
    BY <1>2 DEF ApiMakesCode
  <2>2. /\ press[p].step = "code_sent" /\ kioskApi[p] # "paid"
        /\ kioskApi' = [kioskApi EXCEPT ![p] = "qrph"] /\ codes' = codes \cup {p} /\ OnlyApi
    BY <1>2 DEF ApiMakesCode
  <2>3. PaidStays
    BY <1>0, <2>2 DEF PaidStays, ApiHolds
  <2>. QED BY <2>1, <2>2, <2>3, RequestEnds DEF Ordering, Asking, Answers
<1>3. CASE ApiMakesNoCode(p)
  <2>1. PICK s \in {"code_busy", "code_failed"} : Becomes(p, s)
    BY <1>3 DEF ApiMakesNoCode
  <2>2. /\ press[p].step = "code_sent" /\ codes' = codes /\ OnlyApi
        /\ \/ kioskApi[p] \in {"counter", "qrph"} /\ kioskApi' = [kioskApi EXCEPT ![p] = "counter"]
           \/ kioskApi' = kioskApi
    BY <1>3 DEF ApiMakesNoCode
  <2>3. PaidStays
    BY <1>0, <2>2 DEF PaidStays, ApiHolds
  <2>. QED BY <2>1, <2>2, <2>3, RequestEnds DEF Ordering, Asking, Answers
<1>4. CASE ApiSwitchesToCounter(p)
  <2>1. PICK s \in {"counter_made", "counter_failed"} : Becomes(p, s)
    BY <1>4 DEF ApiSwitchesToCounter
  <2>2. /\ press[p].step = "counter_sent" /\ kioskApi[p] \in {"counter", "qrph"}
        /\ kioskApi' = [kioskApi EXCEPT ![p] = "counter"] /\ codes' = codes /\ OnlyApi
    BY <1>4 DEF ApiSwitchesToCounter
  <2>3. PaidStays
    BY <1>0, <2>2 DEF PaidStays, ApiHolds
  <2>. QED BY <2>1, <2>2, <2>3, RequestEnds DEF Ordering, Asking, Answers
<1>5. CASE ApiFails(p)
  <2>1. \/ press[p].step = "order_sent" /\ Becomes(p, "order_failed")
        \/ press[p].step = "counter_sent" /\ Becomes(p, "counter_failed")
    BY <1>5 DEF ApiFails
  <2>2. OnlyApi /\ PaidStays
    BY <1>0, <1>5 DEF ApiFails, apiSide, PaidStays
  <2>. QED BY <2>1, <2>2, RequestEnds DEF Ordering, Asking, Answers
<1>. QED BY <1>1, <1>2, <1>3, <1>4, <1>5

\* Someone pays a code.
LEMMA PayingKeeps ==
    ASSUME KioskInv, NEW p \in Press, CustomerPays(p)
    PROVE  KioskInv'
<1>. KioskTypeOK /\ PressInv /\ ScreenInv /\ IdleTimer
  BY DEF KioskInv
<1>1. /\ kioskApi[p] \in {"qrph", "counter"} /\ UNCHANGED <<press, codes>> /\ OnlyApi
      /\ kioskApi' = [kioskApi EXCEPT ![p] = IF @ = "qrph" THEN "paid" ELSE "refund"]
  BY DEF CustomerPays
<1>2. kioskApi \in [Press -> ApiHolds] /\ codes \subseteq Press
  BY DEF KioskTypeOK, ApiHolds
<1>3. PaidStays
  BY <1>1, <1>2 DEF PaidStays, ApiHolds
<1>4. ChecksAreTrue'
  BY <1>1, <1>3, ChecksStay DEF OnlyApi, screen
<1>5. PressInv'
  BY <1>1 DEF PressInv, PressesInOrder, BasketsUsed, SecondOrderIsExplained, PressUsed, OnlyApi, cart
<1>6. OneAtATime' /\ ScreenShows' /\ PrintedOnce'
  BY <1>1 DEF ScreenInv, OneAtATime, ScreenShows, PrintedOnce, OnScreen, OnPage, OnlyApi, screen
<1>7. IdleTimer'
  BY <1>1 DEF IdleTimer, paused, OnlyApi, screen
<1>8. KioskTypeOK'
  BY <1>1, <1>3 DEF KioskTypeOK, OnlyApi, settings, cart, screen, PaidStays, ApiHolds
<1>. QED BY <1>4, <1>5, <1>6, <1>7, <1>8 DEF KioskInv, ScreenInv

\* Only this run gets on, where it is.
Only(p) ==
    /\ press[p].step \notin {"unused", "failed"}
    /\ \A q \in Press : press'[q].where = press[q].where
    /\ \A q \in Press : q # p => press'[q] = press[q]

\* The runs on the page stay one.
LEMMA RunsStayOne ==
    ASSUME ScreenInv, NEW p \in Press, Only(p)
    PROVE  OneAtATime'
BY DEF ScreenInv, OneAtATime, OnPage, Only

\* An answer for which the screen shows nothing new.
LEMMA ScreenRests ==
    ASSUME ScreenInv, NEW p \in Press, Only(p), UNCHANGED <<placedOrder, qrPayment, printedOrderId, papers>>,
           press[p].step \in Past => press'[p].step \in Past,
           OnPage(p) /\ press'[p].step \in Past /\ (press'[p].step = "done" \/ press'[p].why # "placing")
              => OnScreen(p)
    PROVE  ScreenShows' /\ PrintedOnce'
<1>1. \A q \in Press : (OnScreen(q)' <=> OnScreen(q)) /\ (OnPage(q)' <=> OnPage(q))
  BY DEF OnScreen, OnPage, Only
<1>2. \A q \in Press : press[q].step \in Past => press'[q].step \in Past
  BY DEF Only
<1>. QED BY <1>1, <1>2 DEF ScreenInv, ScreenShows, PrintedOnce, Only

\* An answer that puts the run's order on the screen, where no other one is.
LEMMA ScreenTurns ==
    ASSUME ScreenInv, NEW p \in Press, Only(p), OnPage(p), press'[p].step \in Past, OnScreen(p)',
           \A q \in Press : q # p /\ OnScreen(q)' => OnScreen(q)
    PROVE  ScreenShows'
<1>1. \A q \in Press : OnPage(q)' <=> OnPage(q)
  BY DEF OnPage, Only
<1>2. ASSUME NEW q \in Press, OnPage(q), press[q].step # "failed" PROVE q = p
  BY <1>2 DEF ScreenInv, OneAtATime, Only
<1>3. "failed" \notin Past
  BY DEF Past
<1>. QED BY <1>1, <1>2, <1>3 DEF ScreenInv, ScreenShows, Only

\* A receipt is printed once.
LEMMA ReceiptPrints ==
    ASSUME KioskTypeOK, ScreenInv, NEW p \in Press, NEW says \in {"paid", "counter"}, ShowReceipt(p, says),
           Only(p), OnPage(p), press'[p].step \in Past
    PROVE  /\ PrintedOnce' /\ papers' \in [Press -> Nat] /\ printedOrderId' \in Press
           /\ placedOrder' \in Receipt /\ placedOrder' # NoOrder
           /\ placedOrder'.order = p /\ placedOrder'.says = says
           /\ \A q \in Press : q # p => ~(placedOrder' # NoOrder /\ placedOrder'.order = q)
<1>1. /\ placedOrder' = [order |-> p, says |-> says] /\ printedOrderId' = p
      /\ papers' = IF printedOrderId = p THEN papers ELSE [papers EXCEPT ![p] = @ + 1]
      /\ papers \in [Press -> Nat]
  BY DEF ShowReceipt, KioskTypeOK
<1>2. papers' \in [Press -> Nat]
  BY <1>1
<1>3. placedOrder' \in Receipt
  BY <1>1 DEF Receipt
<1>4. PrintedOnce'
  <2>1. ASSUME NEW q \in Press
        PROVE  papers'[q] <= 1 /\ (papers'[q] > 0 => press'[q].step \in Past /\ (OnPage(q)' => printedOrderId' = q))
    <3>1. papers[q] <= 1 /\ papers[q] \in Nat
      BY <1>1 DEF ScreenInv, PrintedOnce
    <3>2. papers[q] > 0 => press[q].step \in Past /\ (OnPage(q) => printedOrderId = q)
      BY DEF ScreenInv, PrintedOnce
    <3>3. CASE q = p
      BY <1>1, <3>1, <3>2, <3>3
    <3>4. CASE q # p
      <4>1. papers'[q] = papers[q]
        BY <1>1, <3>4
      <4>2. papers[q] > 0 => ~OnPage(q)
        BY <3>2, <3>4 DEF ScreenInv, OneAtATime, Only, Past
      <4>. QED BY <3>1, <3>2, <3>4, <4>1, <4>2 DEF Only, OnPage
    <3>. QED BY <3>3, <3>4
  <2>. QED BY <2>1 DEF PrintedOnce
<1>. QED BY <1>1, <1>2, <1>3, <1>4, KioskAssumption

\* A run that gets on to a step is the only one that does.
LEMMA BecomesOnly ==
    ASSUME KioskTypeOK, NEW p \in Press, NEW s \in Step, Becomes(p, s), Running(p)
    PROVE  /\ Only(p) /\ press' \in [Press -> PlaceRun] /\ press'[p].step = s
           /\ press'[p].why = press[p].why /\ press'[p].where = press[p].where
BY RunGetsOn DEF Only, Running, Asking, Answers

\* The answer to the order reaches the page, or what was left of it.
LEMMA OrderAnswerKeeps ==
    ASSUME KioskInv, NEW p \in Press, OrderAnswered(p)
    PROVE  KioskInv'
<1>. KioskTypeOK /\ PressInv /\ ScreenInv /\ IdleTimer
  BY DEF KioskInv
<1>1. /\ press[p].step = "order_made" /\ ClearCart
      /\ UNCHANGED <<settings, page, started, qrPayment, qrExpired, polling, check, idle,
                     showWarning, apiSide, touches>>
  BY DEF OrderAnswered
<1>2. Running(p) /\ press[p].why = "placing" /\ press[p].step \notin Past
  BY <1>1 DEF Running, Asking, Answers, PressInv, PressesInOrder, Ordering, Past
<1>3. PICK s \in {"done", "code_sent"} :
          /\ Becomes(p, s)
          /\ \/ s = "done" /\ OnPage(p) /\ ShowReceipt(p, "counter")
             \/ s = "done" /\ ~OnPage(p) /\ NoReceipt
             \/ s = "code_sent" /\ NoReceipt
  BY DEF OrderAnswered, Ends
<1>4. s \in Step /\ s \in Past /\ s \notin Ordering
  BY DEF Step, Past, Asking, Ordering
<1>5. /\ Only(p) /\ press' \in [Press -> PlaceRun] /\ press'[p].step = s
      /\ press'[p].why = press[p].why /\ press'[p].where = press[p].where
  BY <1>2, <1>3, <1>4, BecomesOnly
<1>6. /\ lines' \in [Dish -> 0 .. MaxQty] /\ chosen' = FALSE /\ basket' = basket + 1
  BY <1>1, TouchTyped
<1>7. PressInv'
  BY <1>2, <1>3, <1>4, <1>6, PressGetsOn DEF Past
<1>8. OneAtATime'
  BY <1>5, RunsStayOne
<1>9. chosen' \in BOOLEAN /\ basket' \in Nat
  <2>1. chosen' \in BOOLEAN
    BY <1>6, Zenon
  <2>2. basket' \in Nat
    BY <1>6 DEF KioskTypeOK
  <2>. QED BY <2>1, <2>2
<1>10. IdleTimer'
  BY <1>1 DEF IdleTimer, paused
<1>11. CASE s = "done" /\ OnPage(p) /\ ShowReceipt(p, "counter")
  <2>1. /\ PrintedOnce' /\ papers' \in [Press -> Nat] /\ printedOrderId' \in Press
        /\ placedOrder' \in Receipt /\ placedOrder' # NoOrder
        /\ placedOrder'.order = p /\ placedOrder'.says = "counter"
        /\ \A q \in Press : q # p => ~(placedOrder' # NoOrder /\ placedOrder'.order = q)
    BY <1>4, <1>5, <1>11, ReceiptPrints
  <2>2. ScreenShows'
    <3>1. OnScreen(p)' /\ \A q \in Press : q # p /\ OnScreen(q)' => OnScreen(q)
      BY <1>1, <2>1 DEF OnScreen
    <3>. QED BY <1>4, <1>5, <1>11, <3>1, ScreenTurns
  <2>3. ChecksAreTrue'
    BY <1>1, <2>1 DEF ScreenInv, ChecksAreTrue, apiSide
  <2>4. KioskTypeOK'
    BY <1>1, <1>5, <1>6, <1>9, <2>1 DEF KioskTypeOK, settings, apiSide
  <2>. QED BY <1>7, <1>8, <1>10, <2>1, <2>2, <2>3, <2>4 DEF KioskInv, ScreenInv
<1>12. CASE NoReceipt /\ (s = "code_sent" \/ ~OnPage(p))
  <2>1. UNCHANGED <<placedOrder, qrPayment, printedOrderId, papers>>
    BY <1>1, <1>12 DEF NoReceipt
  <2>2. ScreenShows' /\ PrintedOnce'
    BY <1>2, <1>4, <1>5, <1>12, <2>1, ScreenRests
  <2>3. ChecksAreTrue'
    BY <1>1, <2>1 DEF ScreenInv, ChecksAreTrue, apiSide
  <2>4. KioskTypeOK'
    BY <1>1, <1>5, <1>6, <1>9, <2>1 DEF KioskTypeOK, settings, apiSide
  <2>. QED BY <1>7, <1>8, <1>10, <2>2, <2>3, <2>4 DEF KioskInv, ScreenInv
<1>. QED BY <1>3, <1>11, <1>12

\* A failure shows a message, or goes on to the counter.
LEMMA FailuresKeep ==
    ASSUME KioskInv, NEW p \in Press, OrderFailed(p) \/ CodeFailed(p)
    PROVE  KioskInv'
<1>. KioskTypeOK /\ PressInv /\ ScreenInv /\ IdleTimer
  BY DEF KioskInv
<1>1. UNCHANGED <<settings, page, started, cart, screen, papers, idle, showWarning, apiSide, touches>>
  BY DEF OrderFailed, CodeFailed
<1>2. PICK s \in {"failed", "counter_sent", "done"} :
          /\ Becomes(p, s)
          /\ \/ press[p].step = "order_failed" /\ s = "failed"
             \/ press[p].step \in {"code_failed", "code_busy"} /\ s = "counter_sent"
             \/ press[p].step \in {"code_failed", "code_busy"} /\ s = "done" /\ press[p].why # "placing"
  BY DEF OrderFailed, CodeFailed, FallsBack, Ends
<1>3. /\ Running(p) /\ s \in Step /\ s \notin Ordering
      /\ s \in Past <=> press[p].step \in Past
  BY <1>2 DEF Running, Asking, Answers, Past, Ordering, Step
<1>4. /\ Only(p) /\ press' \in [Press -> PlaceRun] /\ press'[p].step = s
      /\ press'[p].why = press[p].why /\ press'[p].where = press[p].where
  BY <1>2, <1>3, BecomesOnly
<1>5. PressInv'
  <2>1. basket' = basket
    BY <1>1 DEF cart
  <2>. QED BY <1>2, <1>3, <2>1, PressGetsOn
<1>6. OneAtATime'
  BY <1>4, RunsStayOne
<1>7. ScreenShows' /\ PrintedOnce'
  <2>1. OnPage(p) /\ press'[p].step \in Past /\ (press'[p].step = "done" \/ press'[p].why # "placing")
           => OnScreen(p)
    BY <1>2, <1>3, <1>4 DEF ScreenInv, ScreenShows
  <2>2. UNCHANGED <<placedOrder, qrPayment, printedOrderId, papers>>
    BY <1>1 DEF screen
  <2>. QED BY <1>3, <1>4, <2>1, <2>2, ScreenRests
<1>8. ChecksAreTrue' /\ IdleTimer'
  BY <1>1 DEF ScreenInv, ChecksAreTrue, IdleTimer, paused, screen, apiSide
<1>9. KioskTypeOK'
  BY <1>1, <1>4 DEF KioskTypeOK, settings, cart, screen, apiSide
<1>. QED BY <1>5, <1>6, <1>7, <1>8, <1>9 DEF KioskInv, ScreenInv

\* The types of a change of the timer.
LEMMA PauseTyped ==
    ASSUME KioskTypeOK, PausedChanges
    PROVE  idle' \in {"off", "waiting", "warning"}
BY Zenon DEF KioskTypeOK, PausedChanges

\* The code reaches the QR screen.
LEMMA CodeAnswerKeeps ==
    ASSUME KioskInv, NEW p \in Press, CodeAnswered(p)
    PROVE  KioskInv'
<1>. KioskTypeOK /\ PressInv /\ ScreenInv /\ IdleTimer
  BY DEF KioskInv
<1>1. /\ press[p].step = "code_made" /\ Becomes(p, "done")
      /\ UNCHANGED <<settings, page, started, cart, placedOrder, printedOrderId, papers,
                     showWarning, apiSide, touches>>
  BY DEF CodeAnswered, Ends
<1>2. Running(p) /\ press[p].step \in Past /\ "done" \in Past /\ "done" \in Step /\ "done" \notin Ordering
  BY <1>1 DEF Running, Asking, Answers, Past, Ordering, Step
<1>3. /\ Only(p) /\ press' \in [Press -> PlaceRun] /\ press'[p].step = "done"
      /\ press'[p].why = press[p].why /\ press'[p].where = press[p].where
  BY <1>1, <1>2, BecomesOnly
<1>4. PressInv'
  <2>1. basket' = basket
    BY <1>1 DEF cart
  <2>. QED BY <1>1, <1>2, <2>1, PressGetsOn
<1>5. OneAtATime'
  BY <1>3, RunsStayOne
<1>6. CASE OnPage(p)
  <2>1. qrPayment' = p /\ qrExpired' = FALSE /\ polling' = TRUE /\ check' = "none" /\ PausedChanges
    BY <1>6 DEF CodeAnswered
  <2>2. OnScreen(p)' /\ \A q \in Press : q # p /\ OnScreen(q)' => OnScreen(q)
    BY <1>1, <2>1 DEF OnScreen
  <2>3. ScreenShows'
    BY <1>2, <1>3, <1>6, <2>2, ScreenTurns
  <2>4. PrintedOnce'
    BY <1>1, <1>2, <1>3 DEF ScreenInv, PrintedOnce, Only, OnPage
  <2>5. ChecksAreTrue'
    BY <1>1, <2>1 DEF ScreenInv, ChecksAreTrue, apiSide
  <2>6. IdleTimer' /\ idle' \in {"off", "waiting", "warning"}
    BY <1>1, <2>1, PauseKeeps, PauseTyped
  <2>7. qrExpired' \in BOOLEAN /\ polling' \in BOOLEAN
    BY <2>1, Zenon
  <2>8. KioskTypeOK'
    BY <1>1, <1>3, <2>1, <2>6, <2>7 DEF KioskTypeOK, settings, cart, apiSide
  <2>. QED BY <1>4, <1>5, <2>3, <2>4, <2>5, <2>6, <2>8 DEF KioskInv, ScreenInv
<1>7. CASE ~OnPage(p)
  <2>1. UNCHANGED <<qrPayment, qrExpired, polling, check, idle>>
    BY <1>7 DEF CodeAnswered
  <2>2. ScreenShows' /\ PrintedOnce'
    BY <1>1, <1>2, <1>3, <1>7, <2>1, ScreenRests
  <2>3. ChecksAreTrue' /\ IdleTimer'
    BY <1>1, <2>1 DEF ScreenInv, ChecksAreTrue, IdleTimer, paused, apiSide
  <2>4. KioskTypeOK'
    BY <1>1, <1>3, <2>1 DEF KioskTypeOK, settings, cart, apiSide
  <2>. QED BY <1>4, <1>5, <2>2, <2>3, <2>4 DEF KioskInv, ScreenInv
<1>. QED BY <1>6, <1>7

\* The switch to the counter reaches the page, or didn't work.
LEMMA CounterAnswerKeeps ==
    ASSUME KioskInv, NEW p \in Press, CounterAnswered(p)
    PROVE  KioskInv'
<1>. KioskTypeOK /\ PressInv /\ ScreenInv /\ IdleTimer
  BY DEF KioskInv
<1>1. /\ press[p].step \in {"counter_made", "counter_failed"} /\ Becomes(p, "done")
      /\ UNCHANGED <<settings, page, started, cart, showWarning, apiSide, touches>>
  BY DEF CounterAnswered, Ends
<1>2. Running(p) /\ press[p].step \in Past /\ "done" \in Past /\ "done" \in Step /\ "done" \notin Ordering
  BY <1>1 DEF Running, Asking, Answers, Past, Ordering, Step
<1>3. /\ Only(p) /\ press' \in [Press -> PlaceRun] /\ press'[p].step = "done"
      /\ press'[p].why = press[p].why /\ press'[p].where = press[p].where
  BY <1>1, <1>2, BecomesOnly
<1>4. PressInv'
  <2>1. basket' = basket
    BY <1>1 DEF cart
  <2>. QED BY <1>1, <1>2, <2>1, PressGetsOn
<1>5. OneAtATime'
  BY <1>3, RunsStayOne
<1>6. CASE OnPage(p) /\ (press[p].why # "counter" \/ press[p].step = "counter_made")
  <2>1. CloseQr /\ ShowReceipt(p, "counter") /\ UNCHANGED qrExpired /\ PausedChanges
    BY <1>6 DEF CounterAnswered
  <2>2. /\ PrintedOnce' /\ papers' \in [Press -> Nat] /\ printedOrderId' \in Press
        /\ placedOrder' \in Receipt /\ placedOrder' # NoOrder
        /\ placedOrder'.order = p /\ placedOrder'.says = "counter"
        /\ \A q \in Press : q # p => ~(placedOrder' # NoOrder /\ placedOrder'.order = q)
    BY <1>2, <1>3, <1>6, <2>1, ReceiptPrints
  <2>3. qrPayment' = NoOrder /\ polling' = FALSE /\ check' = "none"
    BY <2>1 DEF CloseQr
  <2>4. ScreenShows'
    <3>1. OnScreen(p)' /\ \A q \in Press : q # p /\ OnScreen(q)' => OnScreen(q)
      BY <2>2, <2>3, KioskAssumption DEF OnScreen
    <3>. QED BY <1>2, <1>3, <1>6, <3>1, ScreenTurns
  <2>5. ChecksAreTrue'
    BY <2>2, <2>3 DEF ChecksAreTrue
  <2>6. IdleTimer' /\ idle' \in {"off", "waiting", "warning"}
    BY <1>1, <2>1, PauseKeeps, PauseTyped
  <2>7. polling' \in BOOLEAN
    BY <2>3, Zenon
  <2>8. KioskTypeOK'
    BY <1>1, <1>3, <2>1, <2>2, <2>3, <2>6, <2>7 DEF KioskTypeOK, settings, cart, apiSide
  <2>. QED BY <1>4, <1>5, <2>2, <2>4, <2>5, <2>6, <2>8 DEF KioskInv, ScreenInv
<1>7. CASE ~(OnPage(p) /\ (press[p].why # "counter" \/ press[p].step = "counter_made"))
  <2>1. UNCHANGED <<screen, papers, idle>>
    BY <1>7 DEF CounterAnswered
  <2>2. OnPage(p) => OnScreen(p)
    BY <1>2, <1>7 DEF ScreenInv, ScreenShows
  <2>3. ScreenShows' /\ PrintedOnce'
    <3>1. UNCHANGED <<placedOrder, qrPayment, printedOrderId, papers>>
      BY <2>1 DEF screen
    <3>. QED BY <1>2, <1>3, <2>2, <3>1, ScreenRests
  <2>4. ChecksAreTrue' /\ IdleTimer'
    BY <1>1, <2>1 DEF ScreenInv, ChecksAreTrue, IdleTimer, paused, apiSide, screen
  <2>5. KioskTypeOK'
    BY <1>1, <1>3, <2>1 DEF KioskTypeOK, settings, cart, apiSide, screen
  <2>. QED BY <1>4, <1>5, <2>3, <2>4, <2>5 DEF KioskInv, ScreenInv
<1>. QED BY <1>6, <1>7

\* The customer asks the QR screen for a new code, or to pay at the counter.
LEMMA AskingKeepsRuns ==
    ASSUME KioskInv, NEW p \in Press, handleNewQrCode(p) \/ handlePayAtCounterInstead(p)
    PROVE  KioskInv'
<1>. KioskTypeOK /\ PressInv /\ ScreenInv /\ IdleTimer
  BY DEF KioskInv
<1>1. PICK why \in {"newCode", "counter"}, s \in {"code_sent", "counter_sent"} : AskFromQr(p, why, s)
  BY DEF handleNewQrCode, handlePayAtCounterInstead
<1>2. /\ p = qrPayment /\ Touch /\ Activity
      /\ press' = [press EXCEPT ![p].step = s, ![p].why = why, ![p].where = "here"]
      /\ UNCHANGED <<settings, page, started, cart, screen, papers, showWarning, apiSide>>
  BY <1>1 DEF AskFromQr
<1>3. OnScreen(p) /\ OnPage(p) /\ press[p].step \in Past
  BY <1>2 DEF OnScreen, ScreenInv, ScreenShows
<1>4. s \in Past /\ s \notin Ordering /\ s \in Step
  BY DEF Past, Ordering, Step, Asking
<1>5. /\ press' \in [Press -> PlaceRun] /\ press'[p].step = s /\ press'[p].why = why
      /\ \A q \in Press : q # p => press'[q] = press[q]
      /\ \A q \in Press : press'[q].where = press[q].where /\ press'[q].basket = press[q].basket
  <2>. DEFINE new == [step |-> s, where |-> "here", why |-> why, with |-> press[p].with,
                      basket |-> press[p].basket]
  <2>1. press \in [Press -> PlaceRun] /\ press[p] \in PlaceRun /\ press[p].where = "here"
    BY <1>3 DEF KioskTypeOK, OnPage
  <2>2. new \in PlaceRun
    BY <1>4, <2>1 DEF PlaceRun
  <2>3. press'[p] = [press[p] EXCEPT !.step = s, !.why = why, !.where = "here"]
    BY <1>2, <2>1
  <2>4. press'[p] = new
    BY <2>1, <2>3 DEF PlaceRun
  <2>5. \A q \in Press : q # p => press'[q] = press[q]
    BY <1>2, <2>1
  <2>6. press' \in [Press -> PlaceRun]
    BY <1>2, <2>1, <2>2, <2>4, <2>5
  <2>. QED BY <2>1, <2>4, <2>5, <2>6
<1>6. press[p].step \notin {"unused", "failed"} /\ s \notin {"unused", "failed"}
  BY <1>3, <1>4 DEF Past
<1>7. Only(p)
  BY <1>5, <1>6 DEF Only
<1>8. PressInv'
  <2>1. PressesInOrder'
    BY <1>4, <1>5, <1>6 DEF PressInv, PressesInOrder, PressUsed
  <2>2. basket' = basket
    BY <1>2 DEF cart
  <2>3. press[p].basket < basket
    BY <1>3 DEF PressInv, BasketsUsed, SecondOrderIsExplained, Past, Ordering
  <2>4. BasketsUsed'
    BY <1>5, <1>6, <2>2, <2>3 DEF PressInv, BasketsUsed, SecondOrderIsExplained
  <2>. QED BY <2>1, <2>4 DEF PressInv
<1>9. OneAtATime'
  BY <1>7, RunsStayOne
<1>10. ScreenShows' /\ PrintedOnce'
  <2>1. UNCHANGED <<placedOrder, qrPayment, printedOrderId, papers>>
    BY <1>2 DEF screen
  <2>. QED BY <1>3, <1>4, <1>5, <1>7, <2>1, ScreenRests
<1>11. ChecksAreTrue' /\ IdleTimer'
  <2>1. IdleTimer'
    BY <1>2, ActivityKeeps DEF screen
  <2>. QED BY <1>2, <2>1 DEF ScreenInv, ChecksAreTrue, screen, apiSide
<1>12. KioskTypeOK'
  <2>1. touches' \in 0 .. MaxTouches /\ idle' \in {"off", "waiting", "warning"}
    BY <1>2, TouchTyped
  <2>. QED BY <1>2, <1>5, <2>1 DEF KioskTypeOK, settings, cart, screen, apiSide
<1>. QED BY <1>8, <1>9, <1>10, <1>11, <1>12 DEF KioskInv, ScreenInv

\* The QR screen counts down, asks whether the payment came, and hears.
LEMMA QrScreenKeeps ==
    ASSUME KioskInv, CodeRunsOut \/ CheckAsks \/ CheckStops \/ ApiChecks \/ CheckAnswered
    PROVE  KioskInv'
<1>. KioskTypeOK /\ PressInv /\ ScreenInv /\ IdleTimer
  BY DEF KioskInv
<1>1. UNCHANGED <<settings, page, started, cart, press, showWarning, apiSide, touches>>
  BY DEF CodeRunsOut, CheckAsks, CheckStops, ApiChecks, CheckAnswered, OnlyCheck
<1>2. PressInv' /\ OneAtATime'
  BY <1>1 DEF PressInv, PressesInOrder, BasketsUsed, SecondOrderIsExplained, PressUsed, ScreenInv, OneAtATime,
              OnPage, cart
<1>3. qrPayment \in Press \cup {NoOrder} /\ NoOrder \notin Press
  BY KioskAssumption DEF KioskTypeOK
<1>4. CASE CheckAnswered /\ check = "paid"
  <2>1. CloseQr /\ ShowReceipt(qrPayment, "paid") /\ PausedChanges /\ qrPayment # NoOrder /\ qrExpired' = qrExpired
    BY <1>4 DEF CheckAnswered, ShowsQr, OnlyCheck
  <2>2. PICK p \in Press : p = qrPayment
    BY <1>3, <2>1
  <2>3. OnPage(p) /\ press[p].step \in Past /\ kioskApi[p] = "paid"
    BY <1>4, <2>2 DEF OnScreen, ScreenInv, ScreenShows, ChecksAreTrue
  <2>4. Only(p) /\ press'[p].step \in Past
    BY <1>1, <2>3 DEF Only, Past
  <2>5. /\ PrintedOnce' /\ papers' \in [Press -> Nat] /\ printedOrderId' \in Press
        /\ placedOrder' \in Receipt /\ placedOrder' # NoOrder
        /\ placedOrder'.order = p /\ placedOrder'.says = "paid"
        /\ \A q \in Press : q # p => ~(placedOrder' # NoOrder /\ placedOrder'.order = q)
    BY <2>1, <2>2, <2>3, <2>4, ReceiptPrints
  <2>6. qrPayment' = NoOrder /\ polling' = FALSE /\ check' = "none"
    BY <2>1 DEF CloseQr
  <2>7. ScreenShows'
    <3>1. OnScreen(p)' /\ \A q \in Press : q # p /\ OnScreen(q)' => OnScreen(q)
      BY <1>3, <2>5, <2>6 DEF OnScreen
    <3>. QED BY <2>3, <2>4, <3>1, ScreenTurns
  <2>8. ChecksAreTrue'
    BY <1>1, <2>3, <2>5, <2>6 DEF ChecksAreTrue, apiSide
  <2>9. IdleTimer' /\ idle' \in {"off", "waiting", "warning"}
    BY <1>1, <2>1, PauseKeeps, PauseTyped
  <2>10. polling' \in BOOLEAN
    BY <2>6, Zenon
  <2>11. KioskTypeOK'
    BY <1>1, <2>1, <2>5, <2>6, <2>9, <2>10 DEF KioskTypeOK, settings, cart, apiSide
  <2>. QED BY <1>2, <2>5, <2>7, <2>8, <2>9, <2>11 DEF KioskInv, ScreenInv
<1>5. CASE ~(CheckAnswered /\ check = "paid")
  <2>1. UNCHANGED <<placedOrder, qrPayment, printedOrderId, papers>>
    BY <1>5 DEF CodeRunsOut, CheckAsks, CheckStops, ApiChecks, CheckAnswered, NoReceipt
  <2>2. ScreenShows' /\ PrintedOnce'
    BY <1>1, <2>1 DEF ScreenInv, ScreenShows, PrintedOnce, OnScreen, OnPage
  <2>3. /\ check' \in {"none", "asked", "paid", "unpaid"}
        /\ check' # "none" => qrPayment # NoOrder
        /\ check' = "paid" => kioskApi[qrPayment] = "paid"
    BY <1>5 DEF CodeRunsOut, CheckAsks, CheckStops, ApiChecks, CheckAnswered, ShowsQr, ScreenInv,
                ChecksAreTrue, KioskTypeOK
  <2>4. ChecksAreTrue'
    BY <1>1, <2>1, <2>3 DEF ScreenInv, ChecksAreTrue, apiSide
  <2>5. IdleTimer' /\ idle' \in {"off", "waiting", "warning"}
    <3>1. CASE CodeRunsOut
      BY <1>1, <3>1, PauseKeeps, PauseTyped DEF CodeRunsOut
    <3>2. CASE ~CodeRunsOut
      <4>1. qrExpired' = qrExpired /\ idle' = idle
        BY <1>5, <3>2 DEF CheckAsks, CheckStops, ApiChecks, CheckAnswered, OnlyCheck
      <4>. QED BY <1>1, <2>1, <4>1 DEF IdleTimer, paused, KioskTypeOK
    <3>. QED BY <3>1, <3>2
  <2>6. qrExpired' \in BOOLEAN /\ polling' \in BOOLEAN
    <3>1. qrExpired' \in {TRUE, qrExpired} /\ polling' \in {FALSE, polling}
      BY <1>5 DEF CodeRunsOut, CheckAsks, CheckStops, ApiChecks, CheckAnswered, OnlyCheck
    <3>. QED BY <3>1 DEF KioskTypeOK
  <2>7. KioskTypeOK'
    BY <1>1, <2>1, <2>3, <2>5, <2>6 DEF KioskTypeOK, settings, cart, apiSide
  <2>. QED BY <1>2, <2>2, <2>4, <2>5, <2>7 DEF KioskInv, ScreenInv
<1>. QED BY <1>4, <1>5

\* The kiosk as it is switched on.
LEMMA KioskStarts ==
    ASSUME KioskInit
    PROVE  KioskInv
<1>. USE KioskAssumption
<1>1. /\ press = [p \in Press |-> Unpressed] /\ placedOrder = NoOrder /\ qrPayment = NoOrder
      /\ check = "none" /\ printedOrderId = NoOrder /\ papers = [p \in Press |-> 0]
      /\ idle = "waiting" /\ showWarning = FALSE /\ basket = 0 /\ started = FALSE
      /\ qrExpired = FALSE /\ polling = FALSE /\ touches = 0 /\ codes = {}
  BY DEF KioskInit
<1>2. started \in BOOLEAN /\ qrExpired \in BOOLEAN /\ polling \in BOOLEAN /\ showWarning \in BOOLEAN
  BY <1>1, Zenon
<1>3. Unpressed \in PlaceRun
  BY DEF Unpressed, PlaceRun, Step
<1>4. lines \in [Dish -> 0 .. MaxQty] /\ kioskApi \in [Press -> ApiHolds]
  BY DEF KioskInit, EmptyCart, ApiHolds
<1>5. KioskTypeOK
  BY <1>1, <1>2, <1>3, <1>4 DEF KioskInit, KioskTypeOK, ApiHolds
<1>6. PressInv
  BY <1>1 DEF PressInv, PressesInOrder, BasketsUsed, SecondOrderIsExplained, PressUsed, Unpressed, Ordering
<1>7. ScreenInv
  BY <1>1 DEF ScreenInv, OneAtATime, ScreenShows, ChecksAreTrue, PrintedOnce, OnScreen, OnPage, Unpressed
<1>8. IdleTimer
  BY <1>1 DEF IdleTimer, paused
<1>. QED BY <1>5, <1>6, <1>7, <1>8 DEF KioskInv

\* Every step keeps the invariant.
LEMMA KioskStep ==
    ASSUME KioskInv, [KioskNext]_kioskVars
    PROVE  KioskInv'
<1>1. CASE CustomerActs
  BY <1>1, HomeKeeps, PagesKeep, OrderIsPlaced, AskingKeepsRuns DEF CustomerActs
<1>2. CASE ApiActs
  BY <1>2, QrScreenKeeps, ApiKeeps DEF ApiActs
<1>3. CASE PageActs
  BY <1>3, HomeKeeps, PagesKeep, QrScreenKeeps, OrderAnswerKeeps, FailuresKeep, CodeAnswerKeeps,
     CounterAnswerKeeps DEF PageActs
<1>4. CASE IdleWarn \/ IdleReset \/ \E p \in Press : CustomerPays(p)
  BY <1>4, HomeKeeps, PagesKeep, PayingKeeps
<1>5. CASE UNCHANGED kioskVars
  <2>1. UNCHANGED <<press, screen, papers, apiSide, settings, page, started, cart, idle, showWarning, touches>>
    BY <1>5 DEF kioskVars, screen, apiSide, settings, cart
  <2>2. PressInv' /\ ScreenInv'
    <3>1. basket' = basket
      BY <2>1 DEF cart
    <3>. QED BY <2>1, <3>1, PageRests DEF KioskInv
  <2>3. IdleTimer' /\ KioskTypeOK'
    BY <2>1 DEF KioskInv, IdleTimer, paused, KioskTypeOK, screen, apiSide, settings, cart
  <2>. QED BY <2>2, <2>3 DEF KioskInv
<1>. QED BY <1>1, <1>2, <1>3, <1>4, <1>5 DEF KioskNext

\* What the invariant says of the receipt and the reset.
LEMMA KioskExplains ==
    ASSUME KioskInv
    PROVE  /\ KioskTypeOK /\ SecondOrderIsExplained /\ OrderIsOnScreen
           /\ ResetIsWarned
<1>1. "done" \in Past
  BY DEF Past, Ordering, Step
<1>2. OrderIsOnScreen
  BY <1>1 DEF KioskInv, ScreenInv, ScreenShows, ChecksAreTrue, PrintedOnce, OrderIsOnScreen, OnScreen
<1>3. ResetIsWarned
  BY DEF ResetIsWarned, IdleReset, KioskInv, IdleTimer, Overlay
<1>. QED BY <1>2, <1>3 DEF KioskInv, PressInv, BasketsUsed

\* The invariant holds throughout.
THEOREM KioskInvariant == KioskSpec => []KioskInv
<1>1. KioskInit => KioskInv
  BY KioskStarts
<1>2. KioskInv /\ [KioskNext]_kioskVars => KioskInv'
  BY KioskStep
<1>. QED BY <1>1, <1>2, PTL DEF KioskSpec

\* The kiosk's values are of their types.
THEOREM KioskTyped == KioskSpec => []KioskTypeOK
<1>1. KioskInv => KioskTypeOK
  BY KioskExplains
<1>. QED BY <1>1, KioskInvariant, PTL

\* Two orders of the same basket have a reason.
THEOREM SecondOrderHasAReason == KioskSpec => []SecondOrderIsExplained
<1>1. KioskInv => SecondOrderIsExplained
  BY KioskExplains
<1>. QED BY <1>1, KioskInvariant, PTL

\* An order whose answer reached the page is on its screen, paid where it says
\* so, and on paper once, until the kiosk is reset; and it is reset under a
\* customer only after the warning, and never while a code can be scanned.
THEOREM PlacedOrderStaysShown == KioskSpec => PlacedOrderIsShown
<1>1. KioskInv' => OrderIsOnScreen'
  <2>1. KioskInv => OrderIsOnScreen
    BY KioskExplains
  <2>. QED BY <2>1, PTL
<1>2. KioskInv => ResetIsWarned
  BY KioskExplains
<1>3. KioskInv /\ KioskInv' /\ [KioskNext]_kioskVars => [OrderIsOnScreen' /\ ResetIsWarned]_kioskVars
  BY <1>1, <1>2
<1>. QED BY <1>3, KioskInvariant, PTL DEF KioskSpec, PlacedOrderIsShown

-----------------------------------------------------------------------------
(* The screens that follow the orders.                                     *)

\* The answers about a list: read by a load that runs, shown, or the newest.
ReadLists == {screenLoads[l].lists : l \in {m \in ScreenLoad : screenLoads[m].on}} \cup {list, newest}
ReadSoFar(n) == {ls[n] : ls \in {x \in ReadLists : n \in DOMAIN x}}

\* One more chime is due at the later of two answers.
Due(o, before, now) == IF o \notin before /\ o \in now THEN 1 ELSE 0

\* The page shows both lists or none, and none newer than the newest.
ListsTogether ==
    /\ DOMAIN list = DOMAIN newest /\ DOMAIN list \in {{}, ListNames}
    /\ \A n \in DOMAIN list : list[n].at <= newest[n].at

\* An answer is of some time up to now; one of now is what the API has.
AnswersAreOld ==
    \A n \in ListNames : \A a \in ReadSoFar(n) :
       /\ a.at <= changes
       /\ a.at = changes => a.orders = Listed(n) /\ a.became = becameReady

\* Between two answers an order that is ready in the later one only, has become
\* ready; likewise between an answer and now.
ReadyCounts ==
    \A o \in Shown :
       /\ becameReady[o] <= changes
       /\ \A a \in ReadSoFar("ready") :
             /\ a.became[o] + Due(o, a.orders, Listed("ready")) <= becameReady[o]
             /\ \A b \in ReadSoFar("ready") :
                   a.at <= b.at => a.became[o] + Due(o, a.orders, b.orders) <= b.became[o]

\* The page shows what the API has, or a load that has read nothing older is on
\* its way, or the page may lag.
CurrentLists == list # << >> /\ \A n \in ListNames : list[n].at = changes
CurrentLoad(l) == screenLoads[l].on /\ \A n \in DOMAIN screenLoads[l].lists : screenLoads[l].lists[n].at = changes
OnItsWay == excused \/ CurrentLists \/ \E l \in ScreenLoad : CurrentLoad(l)

\* The chimes so far, and the one due if an older answer hides a ready order, are
\* accounted for by the newest answer and the overtaken ones.
ChimesDue ==
    IF openScreen = "board" /\ list # << >>
    THEN /\ knownReady = Remember(list["ready"].orders)
         /\ \A o \in Shown :
               chimes[o] + (IF list["ready"].at < newest["ready"].at /\ o \notin list["ready"].orders
                            THEN 1 ELSE 0)
                  <= newest["ready"].became[o] + overtaken
    ELSE knownReady = NotKnown /\ \A o \in Shown : chimes[o] = 0

\* The inductive invariant of the screens.
LiveInv == LiveTypeOK /\ ListsTogether /\ AnswersAreOld /\ ReadyCounts /\ OnItsWay /\ ChimesDue

\* A set of lists is a function on some of the page's lists.
LEMMA ListsTyped ==
    ASSUME NEW x
    PROVE  x \in Readings <=> \E names \in SUBSET ListNames : x \in [names -> Reading]
BY DEF Readings

\* Nothing is read yet.
LEMMA NoListsYet == DOMAIN << >> = {} /\ << >> \in Readings
<1>1. DOMAIN << >> = {}
  OBVIOUS
<1>2. << >> \in [{} -> Reading]
  OBVIOUS
<1>. QED BY <1>1, <1>2, ListsTyped

\* Two sets of lists that say nothing are the same.
LEMMA NoListsIsEmpty ==
    ASSUME NEW x \in Readings, DOMAIN x = {}
    PROVE  x = << >>
<1>1. PICK names \in SUBSET ListNames : x \in [names -> Reading]
  BY ListsTyped
<1>2. names = {}
  BY <1>1
<1>. QED BY <1>1, <1>2

\* Where an answer comes from.
LEMMA AnswersFrom ==
    ASSUME NEW n, NEW a
    PROVE  a \in ReadSoFar(n) <=>
              \/ \E l \in ScreenLoad : /\ screenLoads[l].on /\ n \in DOMAIN screenLoads[l].lists
                                       /\ a = screenLoads[l].lists[n]
              \/ n \in DOMAIN list /\ a = list[n]
              \/ n \in DOMAIN newest /\ a = newest[n]
BY DEF ReadSoFar, ReadLists

\* A load that runs has read some of the page's lists.
LEMMA RunningLoads ==
    ASSUME LiveTypeOK, NEW l \in ScreenLoad, screenLoads[l].on
    PROVE  /\ screenLoads[l].lists \in Readings
           /\ screenLoads[l] = [on |-> TRUE, lists |-> screenLoads[l].lists]
<1>1. screenLoads[l] \in {NotLoading} \cup [on : {TRUE}, lists : Readings]
  BY DEF LiveTypeOK
<1>2. screenLoads[l] # NotLoading
  BY DEF NotLoading
<1>3. PICK lists \in Readings : screenLoads[l] = [on |-> TRUE, lists |-> lists]
  <2>1. PICK on \in {TRUE}, lists \in Readings : screenLoads[l] = [on |-> on, lists |-> lists]
    BY <1>1, <1>2
  <2>2. on = TRUE
    BY Zenon
  <2>. QED BY <2>1, <2>2
<1>4. screenLoads[l].lists = lists
  BY <1>3
<1>. QED BY <1>3, <1>4, Zenon

\* The page stays what it is.
LEMMA SameLists ==
    ASSUME openScreen' = openScreen
    PROVE  ListNames' = ListNames /\ Readings' = Readings
BY DEF ListNames, Readings, Reading

\* A load that starts reads everything as it is now, and adds no answer.
LEMMA LoadStarts ==
    ASSUME LiveTypeOK, MayLoad, StartLoad, openScreen' = openScreen, list' = list, newest' = newest
    PROVE  /\ screenLoads' \in [ScreenLoad -> {NotLoading} \cup [on : {TRUE}, lists : Readings]]
           /\ \A n : ReadSoFar(n)' \subseteq ReadSoFar(n)
           /\ \E l \in ScreenLoad : CurrentLoad(l)'
<1>1. PICK f \in ScreenLoad : f = FreeLoad /\ ~screenLoads[f].on
  BY DEF MayLoad, FreeLoad, Idle
<1>2. /\ screenLoads' = [screenLoads EXCEPT ![f] = NewLoad]
      /\ screenLoads \in [ScreenLoad -> {NotLoading} \cup [on : {TRUE}, lists : Readings]]
  BY <1>1 DEF StartLoad, LiveTypeOK
<1>3. NewLoad \in [on : {TRUE}, lists : Readings] /\ NewLoad.on /\ DOMAIN NewLoad.lists = {}
  BY NoListsYet DEF NewLoad
<1>4. screenLoads' \in [ScreenLoad -> {NotLoading} \cup [on : {TRUE}, lists : Readings]]
  BY <1>1, <1>2, <1>3
<1>5. ASSUME NEW n, NEW a \in ReadSoFar(n)' PROVE a \in ReadSoFar(n)
  <2>1. \/ \E l \in ScreenLoad : /\ screenLoads'[l].on /\ n \in DOMAIN screenLoads'[l].lists
                                 /\ a = screenLoads'[l].lists[n]
        \/ n \in DOMAIN list' /\ a = list'[n]
        \/ n \in DOMAIN newest' /\ a = newest'[n]
    BY <1>5 DEF ReadSoFar, ReadLists
  <2>2. ASSUME NEW l \in ScreenLoad, n \in DOMAIN screenLoads'[l].lists
        PROVE  screenLoads'[l] = screenLoads[l]
    BY <1>1, <1>2, <1>3, <2>2
  <2>. QED BY <2>1, <2>2, AnswersFrom
<1>6. CurrentLoad(f)'
  <2>1. screenLoads'[f] = NewLoad
    BY <1>1, <1>2
  <2>. QED BY <2>1, <1>3 DEF CurrentLoad
<1>. QED BY <1>1, <1>4, <1>5, <1>6

\* A load that ends leaves the others alone.
LEMMA LoadEnds ==
    ASSUME LiveTypeOK, NEW l \in ScreenLoad, LoadDone(l), openScreen' = openScreen
    PROVE  /\ screenLoads' \in [ScreenLoad -> {NotLoading} \cup [on : {TRUE}, lists : Readings]]
           /\ \A m \in ScreenLoad : screenLoads'[m].on => m # l /\ screenLoads'[m] = screenLoads[m]
           /\ \A m \in ScreenLoad : m # l => screenLoads'[m] = screenLoads[m]
<1>1. /\ screenLoads' = [screenLoads EXCEPT ![l] = NotLoading]
      /\ screenLoads \in [ScreenLoad -> {NotLoading} \cup [on : {TRUE}, lists : Readings]]
  BY DEF LoadDone, LiveTypeOK
<1>2. ~NotLoading.on
  BY DEF NotLoading
<1>. QED BY <1>1, <1>2

\* Without a new list there is no new answer.
LEMMA NoNewAnswer ==
    ASSUME openScreen' = openScreen, list' = list, newest' = newest,
           \A m \in ScreenLoad : screenLoads'[m].on => screenLoads'[m] = screenLoads[m]
    PROVE  \A n : ReadSoFar(n)' \subseteq ReadSoFar(n)
<1>1. ASSUME NEW n, NEW a \in ReadSoFar(n)' PROVE a \in ReadSoFar(n)
  <2>1. \/ \E l \in ScreenLoad : /\ screenLoads'[l].on /\ n \in DOMAIN screenLoads'[l].lists
                                 /\ a = screenLoads'[l].lists[n]
        \/ n \in DOMAIN list' /\ a = list'[n]
        \/ n \in DOMAIN newest' /\ a = newest'[n]
    BY <1>1 DEF ReadSoFar, ReadLists
  <2>. QED BY <2>1, AnswersFrom
<1>. QED BY <1>1

\* What the answers tell of the orders goes on being true while the orders
\* stay as they are.
LEMMA ReadingsKeep ==
    ASSUME openScreen' = openScreen, UNCHANGED liveApi, AnswersAreOld, ReadyCounts,
           \A n : ReadSoFar(n)' \subseteq ReadSoFar(n)
    PROVE  AnswersAreOld' /\ ReadyCounts'
<1>1. ListNames' = ListNames /\ \A n : Listed(n)' = Listed(n)
  BY SameLists DEF Listed, liveApi
<1>2. AnswersAreOld'
  BY <1>1 DEF AnswersAreOld, liveApi
<1>3. ReadyCounts'
  BY <1>1 DEF ReadyCounts, liveApi
<1>. QED BY <1>2, <1>3

\* Every answer is a reading.
LEMMA AnswersTyped ==
    ASSUME LiveTypeOK, NEW n
    PROVE  ReadSoFar(n) \subseteq Reading
<1>1. ASSUME NEW x \in Readings, n \in DOMAIN x PROVE x[n] \in Reading
  BY <1>1, ListsTyped
<1>2. list \in Readings /\ newest \in Readings
  BY DEF LiveTypeOK
<1>3. ASSUME NEW l \in ScreenLoad, screenLoads[l].on PROVE screenLoads[l].lists \in Readings
  BY <1>3, RunningLoads
<1>. QED BY <1>1, <1>2, <1>3, AnswersFrom

\* How often an order had become ready when a list was read.
LEMMA BecameTyped ==
    ASSUME NEW a \in Reading
    PROVE  a.at \in Nat /\ a.orders \subseteq Shown /\ \A o \in Shown : a.became[o] \in Nat
BY LiveAssumption DEF Reading

\* An order that changes takes the answers so far with it into the past.
LEMMA OrderChanges ==
    ASSUME LiveTypeOK, AnswersAreOld, ReadyCounts, NEW o \in Shown, NEW to \in Stand, Changed(o, to),
           openScreen' = openScreen, \A n : ReadSoFar(n)' \subseteq ReadSoFar(n)
    PROVE  AnswersAreOld' /\ ReadyCounts'
<1>. /\ changes \in 0 .. MaxChanges /\ changes' = changes + 1 /\ changes' \in Nat
     /\ stands \in [Shown -> Stand] /\ stands' = [stands EXCEPT ![o] = to]
     /\ becameReady \in [Shown -> 0 .. MaxChanges] /\ MaxChanges \in Nat
     /\ becameReady' = IF to = "ready" THEN [becameReady EXCEPT ![o] = @ + 1] ELSE becameReady
  BY LiveAssumption DEF Changed, LiveTypeOK
<1>1. \A n \in ListNames : \A a \in ReadSoFar(n) : a.at \in Nat
  BY AnswersTyped, BecameTyped
<1>2. ListNames' = ListNames
  BY SameLists
<1>3. AnswersAreOld'
  BY <1>1, <1>2 DEF AnswersAreOld
<1>4. \A p \in Shown : becameReady'[p] <= changes'
  BY DEF ReadyCounts
<1>5. ASSUME NEW p \in Shown, NEW a \in ReadSoFar("ready")
      PROVE  a.became[p] + Due(p, a.orders, Listed("ready")') <= becameReady'[p]
  <2>1. /\ a.became[p] \in Nat
        /\ a.became[p] + Due(p, a.orders, Listed("ready")) <= becameReady[p]
    BY AnswersTyped, BecameTyped DEF ReadyCounts
  <2>2. /\ p \in Listed("ready") <=> stands[p] = "ready"
        /\ p \in Listed("ready")' <=> stands'[p] = "ready"
    BY DEF Listed
  <2>3. CASE p = o
    BY <2>1, <2>2, <2>3 DEF Due
  <2>4. CASE p # o
    BY <2>1, <2>2, <2>4 DEF Due
  <2>. QED BY <2>3, <2>4
<1>6. ReadyCounts'
  BY <1>4, <1>5 DEF ReadyCounts
<1>. QED BY <1>3, <1>6

\* So the count stays within the changes.
LEMMA ChangeTyped ==
    ASSUME LiveTypeOK, ReadyCounts, NEW o \in Shown, NEW to \in Stand, Changed(o, to)
    PROVE  /\ stands' \in [Shown -> Stand] /\ becameReady' \in [Shown -> 0 .. MaxChanges]
           /\ changes' \in 0 .. MaxChanges
<1>. /\ changes \in 0 .. MaxChanges /\ changes' = changes + 1 /\ changes < MaxChanges
     /\ stands \in [Shown -> Stand] /\ stands' = [stands EXCEPT ![o] = to]
     /\ becameReady \in [Shown -> 0 .. MaxChanges] /\ MaxChanges \in Nat
     /\ becameReady' = IF to = "ready" THEN [becameReady EXCEPT ![o] = @ + 1] ELSE becameReady
  BY LiveAssumption DEF Changed, LiveTypeOK
<1>1. \A p \in Shown : becameReady[p] <= changes
  BY DEF ReadyCounts
<1>. QED BY <1>1

\* A load that runs with other lists.
LEMMA LoadWithLists ==
    ASSUME NEW on, NEW x, NEW y
    PROVE  [[on |-> on, lists |-> x] EXCEPT !.lists = y] = [on |-> on, lists |-> y]
OBVIOUS

\* A list read now is the newest there can be.
LEMMA ListIsRead ==
    ASSUME LiveTypeOK, AnswersAreOld, ReadyCounts, NEW l \in ScreenLoad, NEW name \in ListNames,
           ReadList(l, name)
    PROVE  /\ screenLoads' \in [ScreenLoad -> {NotLoading} \cup [on : {TRUE}, lists : Readings]]
           /\ \A n : ReadSoFar(n)' \subseteq ReadSoFar(n) \cup (IF n = name THEN {ReadNow(n)} ELSE {})
           /\ \A m \in ScreenLoad : CurrentLoad(m) => CurrentLoad(m)'
<1>. DEFINE read == [n \in DOMAIN screenLoads[l].lists \cup {name} |->
                       IF n = name THEN ReadNow(name) ELSE screenLoads[l].lists[n]]
<1>1. /\ screenLoads[l].on /\ screenLoads[l].lists \in Readings
      /\ screenLoads[l] = [on |-> TRUE, lists |-> screenLoads[l].lists]
  BY RunningLoads DEF ReadList
<1>2. ReadNow(name) \in Reading /\ ReadNow(name).at = changes
  <2>1. Listed(name) \in SUBSET Shown
    BY DEF Listed, ListNames
  <2>. QED BY <2>1 DEF ReadNow, Reading, LiveTypeOK
<1>3. read \in Readings
  <2>1. PICK names \in SUBSET ListNames : screenLoads[l].lists \in [names -> Reading]
    BY <1>1, ListsTyped
  <2>2. read \in [names \cup {name} -> Reading]
    BY <1>2, <2>1
  <2>3. names \cup {name} \in SUBSET ListNames
    OBVIOUS
  <2>. QED BY <2>2, <2>3, ListsTyped
<1>4. /\ screenLoads' = [screenLoads EXCEPT ![l] = [on |-> TRUE, lists |-> read]]
      /\ screenLoads \in [ScreenLoad -> {NotLoading} \cup [on : {TRUE}, lists : Readings]]
  <2>1. screenLoads' = [screenLoads EXCEPT ![l].lists = read]
    BY DEF ReadList
  <2>2. [[on |-> TRUE, lists |-> screenLoads[l].lists] EXCEPT !.lists = read] = [on |-> TRUE, lists |-> read]
    BY LoadWithLists, Zenon
  <2>3. [screenLoads[l] EXCEPT !.lists = read] = [on |-> TRUE, lists |-> read]
    BY <1>1, <2>2, Zenon
  <2>4. screenLoads' = [screenLoads EXCEPT ![l] = [screenLoads[l] EXCEPT !.lists = read]]
    BY <2>1
  <2>5. screenLoads' = [screenLoads EXCEPT ![l] = [on |-> TRUE, lists |-> read]]
    BY <2>3, <2>4, Zenon
  <2>. QED BY <2>5 DEF LiveTypeOK
<1>5. screenLoads' \in [ScreenLoad -> {NotLoading} \cup [on : {TRUE}, lists : Readings]]
  BY <1>3, <1>4
<1>6. ASSUME NEW n, NEW a \in ReadSoFar(n)'
      PROVE  a \in ReadSoFar(n) \cup (IF n = name THEN {ReadNow(n)} ELSE {})
  <2>1. \/ \E m \in ScreenLoad : /\ screenLoads'[m].on /\ n \in DOMAIN screenLoads'[m].lists
                                 /\ a = screenLoads'[m].lists[n]
        \/ n \in DOMAIN list' /\ a = list'[n]
        \/ n \in DOMAIN newest' /\ a = newest'[n]
    BY <1>6 DEF ReadSoFar, ReadLists
  <2>2. list' = list /\ newest' = newest
    BY DEF ReadList, livePage
  <2>3. CASE (n \in DOMAIN list' /\ a = list'[n]) \/ (n \in DOMAIN newest' /\ a = newest'[n])
    BY <2>2, <2>3, AnswersFrom
  <2>4. ASSUME NEW m \in ScreenLoad, m # l, screenLoads'[m].on, n \in DOMAIN screenLoads'[m].lists,
               a = screenLoads'[m].lists[n]
        PROVE  a \in ReadSoFar(n)
    <3>1. screenLoads'[m] = screenLoads[m]
      BY <1>4, <2>4
    <3>. QED BY <2>4, <3>1, AnswersFrom
  <2>5. ASSUME n \in DOMAIN screenLoads'[l].lists, a = screenLoads'[l].lists[n]
        PROVE  a \in ReadSoFar(n) \cup (IF n = name THEN {ReadNow(n)} ELSE {})
    <3>1. screenLoads'[l].lists = read
      BY <1>4
    <3>2. CASE n = name
      BY <2>5, <3>1, <3>2
    <3>3. CASE n # name
      <4>1. n \in DOMAIN screenLoads[l].lists /\ a = screenLoads[l].lists[n]
        BY <2>5, <3>1, <3>3
      <4>. QED BY <4>1, <1>1, AnswersFrom
    <3>. QED BY <3>2, <3>3
  <2>6. CASE \E m \in ScreenLoad : /\ screenLoads'[m].on /\ n \in DOMAIN screenLoads'[m].lists
                                  /\ a = screenLoads'[m].lists[n]
    BY <2>4, <2>5, <2>6, Zenon
  <2>. QED BY <2>1, <2>3, <2>6, Zenon
<1>7. ASSUME NEW m \in ScreenLoad, CurrentLoad(m) PROVE CurrentLoad(m)'
  <2>1. changes' = changes
    BY DEF ReadList, liveApi
  <2>2. CASE m = l
    <3>1. screenLoads'[m].on /\ screenLoads'[m].lists = read
      BY <1>4, <2>2
    <3>2. \A n \in DOMAIN read : read[n].at = changes
      BY <1>2, <1>7, <2>2 DEF CurrentLoad
    <3>. QED BY <2>1, <3>1, <3>2 DEF CurrentLoad
  <2>3. CASE m # l
    <3>1. screenLoads'[m] = screenLoads[m]
      BY <1>4, <2>3
    <3>. QED BY <1>7, <2>1, <3>1 DEF CurrentLoad
  <2>. QED BY <2>2, <2>3
<1>. QED BY <1>5, <1>6, <1>7

\* The lists a page has read all of.
Whole(lists) == lists \in Readings /\ DOMAIN lists = ListNames

\* A set of lists that is whole has a reading for each name.
LEMMA WholeLists ==
    ASSUME NEW lists, Whole(lists)
    PROVE  lists \in [ListNames -> Reading] /\ lists # << >>
<1>1. PICK names \in SUBSET ListNames : lists \in [names -> Reading]
  BY ListsTyped DEF Whole
<1>2. lists # << >>
  <2>1. ListNames # {}
    BY DEF ListNames
  <2>. QED BY <2>1, NoListsYet DEF Whole
<1>. QED BY <1>1, <1>2 DEF Whole

\* What the page shows, and the newest of it, is whole once there is any.
LEMMA ShownLists ==
    ASSUME LiveTypeOK, ListsTogether, list # << >>
    PROVE  /\ Whole(list) /\ Whole(newest)
           /\ \A n \in ListNames : list[n] \in ReadSoFar(n) /\ newest[n] \in ReadSoFar(n)
<1>1. list \in Readings /\ newest \in Readings
  BY DEF LiveTypeOK
<1>2. DOMAIN list = ListNames /\ DOMAIN newest = ListNames
  BY <1>1, NoListsIsEmpty DEF ListsTogether
<1>. QED BY <1>1, <1>2, AnswersFrom DEF Whole

\* An answer that is shown brings no other one, and makes what is newest newer.
LEMMA AnswerTyped ==
    ASSUME LiveTypeOK, ListsTogether, NEW l \in ScreenLoad, Answered(l)
    PROVE  /\ Whole(screenLoads[l].lists) /\ screenLoads[l].on
           /\ \A n \in ListNames : screenLoads[l].lists[n] \in ReadSoFar(n)
           /\ \A n \in ListNames : newest'[n] = IF OlderList(screenLoads[l].lists, n) THEN newest[n]
                                                ELSE screenLoads[l].lists[n]
           /\ Whole(list') /\ Whole(newest') /\ openScreen' = openScreen /\ UNCHANGED liveApi
           /\ screenLoads' \in [ScreenLoad -> {NotLoading} \cup [on : {TRUE}, lists : Readings]]
           /\ \A n : ReadSoFar(n)' \subseteq ReadSoFar(n)
           /\ ListsTogether'
<1>. DEFINE lists == screenLoads[l].lists
<1>1. Whole(lists) /\ screenLoads[l].on
  BY RunningLoads DEF Answered, Whole
<1>2. \A n \in ListNames : lists[n] \in ReadSoFar(n)
  BY <1>1, AnswersFrom DEF Whole
<1>3. list' = lists /\ openScreen' = openScreen /\ UNCHANGED liveApi /\ LoadDone(l)
  BY DEF Answered
<1>4. newest' = [n \in ListNames |-> IF OlderList(lists, n) THEN newest[n] ELSE lists[n]]
  BY DEF Answered
<1>5. \A n \in ListNames : newest'[n] = IF OlderList(lists, n) THEN newest[n] ELSE lists[n]
  BY <1>4
<1>6. \A n \in ListNames : OlderList(lists, n) => n \in DOMAIN newest /\ newest[n] \in ReadSoFar(n)
  BY AnswersFrom DEF OlderList
<1>7. \A n \in ListNames : newest'[n] \in ReadSoFar(n)
  BY <1>2, <1>5, <1>6
<1>8. Whole(list') /\ Whole(newest')
  <2>1. newest' \in [ListNames -> Reading]
    <3>1. \A n \in ListNames : newest'[n] \in Reading
      BY <1>7, AnswersTyped
    <3>. QED BY <3>1, <1>4
  <2>2. ListNames \in SUBSET ListNames
    OBVIOUS
  <2>3. newest' \in Readings
    BY <2>1, <2>2, ListsTyped
  <2>. QED BY <2>1, <2>3, <1>1, <1>3 DEF Whole
<1>9. screenLoads' \in [ScreenLoad -> {NotLoading} \cup [on : {TRUE}, lists : Readings]]
  BY <1>3, LoadEnds
<1>10. ASSUME NEW n, NEW a \in ReadSoFar(n)' PROVE a \in ReadSoFar(n)
  <2>1. \/ \E m \in ScreenLoad : /\ screenLoads'[m].on /\ n \in DOMAIN screenLoads'[m].lists
                                 /\ a = screenLoads'[m].lists[n]
        \/ n \in DOMAIN list' /\ a = list'[n]
        \/ n \in DOMAIN newest' /\ a = newest'[n]
    BY <1>10 DEF ReadSoFar, ReadLists
  <2>2. CASE \E m \in ScreenLoad : /\ screenLoads'[m].on /\ n \in DOMAIN screenLoads'[m].lists
                                  /\ a = screenLoads'[m].lists[n]
    <3>1. PICK m \in ScreenLoad : /\ screenLoads'[m].on /\ n \in DOMAIN screenLoads'[m].lists
                                  /\ a = screenLoads'[m].lists[n]
      BY <2>2
    <3>2. screenLoads'[m] = screenLoads[m]
      BY <1>3, <3>1, LoadEnds
    <3>. QED BY <3>1, <3>2, AnswersFrom
  <2>3. CASE n \in DOMAIN list' /\ a = list'[n]
    BY <1>1, <1>2, <1>3, <2>3 DEF Whole
  <2>4. CASE n \in DOMAIN newest' /\ a = newest'[n]
    BY <1>7, <1>8, <2>4, <1>4
  <2>. QED BY <2>1, <2>2, <2>3, <2>4
<1>11. ListsTogether'
  <2>1. ListNames' = ListNames
    BY <1>3, SameLists
  <2>2. DOMAIN list' = ListNames /\ DOMAIN newest' = ListNames
    BY <1>1, <1>3, <1>4 DEF Whole
  <2>3. \A n \in ListNames : lists[n].at \in Nat /\ newest'[n].at \in Nat
    BY <1>2, <1>7, AnswersTyped, BecameTyped
  <2>4. \A n \in ListNames : list'[n].at <= newest'[n].at
    <3>1. SUFFICES ASSUME NEW n \in ListNames PROVE lists[n].at <= newest'[n].at
      BY <1>3
    <3>2. CASE OlderList(lists, n)
      <4>1. newest'[n] = newest[n]
        BY <1>5, <3>2
      <4>. QED BY <2>3, <3>2, <4>1 DEF OlderList
    <3>3. CASE ~OlderList(lists, n)
      <4>1. newest'[n] = lists[n]
        BY <1>5, <3>3
      <4>. QED BY <2>3, <4>1
    <3>. QED BY <3>2, <3>3
  <2>. QED BY <2>1, <2>2, <2>4 DEF ListsTogether
<1>. QED BY <1>1, <1>2, <1>3, <1>5, <1>8, <1>9, <1>10, <1>11

\* What comes back is as things stand, or something newer is still on its way,
\* or the page may lag.
LEMMA AnswerCatchesUp ==
    ASSUME LiveTypeOK, ListsTogether, AnswersAreOld, OnItsWay, NEW l \in ScreenLoad, Answered(l)
    PROVE  OnItsWay'
<1>. DEFINE lists == screenLoads[l].lists
<1>1. /\ Whole(lists) /\ \A n \in ListNames : lists[n] \in ReadSoFar(n)
      /\ Whole(list') /\ openScreen' = openScreen /\ UNCHANGED liveApi
  BY AnswerTyped
<1>2. /\ list' = lists /\ LoadDone(l) /\ ListNames' = ListNames /\ changes' = changes
      /\ excused' = (OlderAnswer(lists) \/ (excused /\ ~Current(lists)))
  BY SameLists DEF Answered, liveApi
<1>3. changes \in Nat /\ \A n \in ListNames : lists[n].at \in Nat /\ lists[n].at <= changes
  <2>1. changes \in Nat
    BY LiveAssumption DEF LiveTypeOK
  <2>2. \A n \in ListNames : lists[n].at \in Nat
    BY <1>1, AnswersTyped, BecameTyped
  <2>. QED BY <1>1, <2>1, <2>2 DEF AnswersAreOld
<1>4. CASE Current(lists)
  BY <1>1, <1>2, <1>4, WholeLists DEF OnItsWay, CurrentLists, Current
<1>5. CASE OlderAnswer(lists)
  BY <1>2, <1>5 DEF OnItsWay
<1>6. CASE excused /\ ~Current(lists)
  BY <1>2, <1>6 DEF OnItsWay
<1>7. CASE ~excused /\ ~Current(lists) /\ ~OlderAnswer(lists)
  <2>1. CASE CurrentLists
    <3>1. /\ Whole(newest) /\ \A n \in ListNames : newest[n].at \in Nat /\ newest[n].at >= changes
      <4>1. list # << >> /\ \A n \in ListNames : list[n].at = changes
        BY <2>1 DEF CurrentLists
      <4>2. /\ Whole(list) /\ Whole(newest)
            /\ \A n \in ListNames : list[n] \in ReadSoFar(n) /\ newest[n] \in ReadSoFar(n)
        BY <4>1, ShownLists
      <4>3. \A n \in ListNames : list[n].at \in Nat /\ newest[n].at \in Nat
        BY <4>2, AnswersTyped, BecameTyped
      <4>. QED BY <4>1, <4>2, <4>3, <1>3 DEF ListsTogether, Whole
    <3>2. \A n \in ListNames : ~(lists[n].at < newest[n].at)
      BY <1>7, <3>1 DEF OlderAnswer, OlderList, Whole
    <3>3. Current(lists)
      BY <1>3, <3>1, <3>2 DEF Current
    <3>. QED BY <1>7, <3>3
  <2>2. ASSUME NEW m \in ScreenLoad, CurrentLoad(m) PROVE OnItsWay'
    <3>1. m # l
      BY <1>1, <1>7, <2>2 DEF CurrentLoad, Current, Whole
    <3>2. CurrentLoad(m)'
      BY <1>1, <1>2, <2>2, <3>1, LoadEnds DEF CurrentLoad
    <3>. QED BY <3>2 DEF OnItsWay
  <2>. QED BY <1>7, <2>1, <2>2 DEF OnItsWay
<1>. QED BY <1>4, <1>5, <1>6, <1>7

\* Two readings of the list of ready orders, one of them no older.
LEMMA ReadyInOrder ==
    ASSUME LiveTypeOK, ReadyCounts, NEW a \in ReadSoFar("ready"), NEW b \in ReadSoFar("ready"),
           NEW o \in Shown, a.at <= b.at
    PROVE  a.became[o] + Due(o, a.orders, b.orders) <= b.became[o]
BY DEF ReadyCounts

\* The board chimes for what an answer brings, and what it hasn't chimed for
\* is still due, unless the answer was overtaken.
LEMMA AnswerChimes ==
    ASSUME LiveTypeOK, ListsTogether, ReadyCounts, ChimesDue, NEW l \in ScreenLoad, Answered(l)
    PROVE  ChimesDue'
<1>. DEFINE lists == screenLoads[l].lists
<1>1. SUFFICES ASSUME openScreen = "board"
               PROVE  /\ list' # << >>
                      /\ knownReady' = Remember(list'["ready"].orders)
                      /\ \A o \in Shown :
                            chimes'[o] + (IF /\ list'["ready"].at < newest'["ready"].at
                                             /\ o \notin list'["ready"].orders THEN 1 ELSE 0)
                               <= newest'["ready"].became[o] + overtaken'
  <2>1. openScreen' = openScreen
    BY AnswerTyped
  <2>2. openScreen # "board" => UNCHANGED <<chimes, knownReady>>
    BY DEF Answered
  <2>. QED BY <2>1, <2>2 DEF ChimesDue, Remember
<1>2. /\ Whole(lists) /\ Whole(list') /\ Whole(newest')
      /\ \A n \in ListNames : lists[n] \in ReadSoFar(n)
      /\ \A n \in ListNames : newest'[n] = IF OlderList(lists, n) THEN newest[n] ELSE lists[n]
  BY AnswerTyped
<1>3. /\ list' = lists /\ "ready" \in ListNames
      /\ overtaken' = IF OlderAnswer(lists) THEN overtaken + 1 ELSE overtaken
      /\ chimes' = [o \in Shown |-> IF o \in Fresh(lists["ready"].orders) THEN chimes[o] + 1 ELSE chimes[o]]
      /\ knownReady' = Remember(lists["ready"].orders)
  BY <1>1 DEF Answered, ListNames
<1>. DEFINE new == lists["ready"]
            top == newest'["ready"]
<1>4. new \in ReadSoFar("ready") /\ overtaken \in Nat /\ chimes \in [Shown -> Nat]
  BY <1>2, <1>3 DEF LiveTypeOK
<1>5. /\ new.at \in Nat /\ \A o \in Shown : new.became[o] \in Nat
  BY <1>4, AnswersTyped, BecameTyped
<1>6. ASSUME NEW o \in Shown
      PROVE  chimes'[o] + (IF new.at < top.at /\ o \notin new.orders THEN 1 ELSE 0)
                <= top.became[o] + overtaken'
  <2>1. CASE list = << >>
    <3>1. knownReady = NotKnown /\ chimes[o] = 0
      BY <1>1, <2>1 DEF ChimesDue
    <3>2. chimes'[o] = 0
      BY <1>3, <1>4, <3>1 DEF Fresh, NotKnown
    <3>3. DOMAIN newest = {}
      BY <2>1, NoListsYet DEF ListsTogether
    <3>4. top = new /\ overtaken' = overtaken
      BY <1>2, <1>3, <3>3 DEF OlderList, OlderAnswer
    <3>. QED BY <1>4, <1>5, <3>2, <3>4
  <2>2. CASE list # << >>
    <3>. DEFINE old == list["ready"]
                last == newest["ready"]
    <3>1. /\ Whole(newest) /\ old \in ReadSoFar("ready") /\ last \in ReadSoFar("ready") /\ old.at <= last.at
      BY <1>3, <2>2, ShownLists DEF ListsTogether, Whole
    <3>2. /\ old.at \in Nat /\ last.at \in Nat /\ old.became[o] \in Nat /\ last.became[o] \in Nat
      BY <3>1, AnswersTyped, BecameTyped
    <3>3. /\ knownReady = [known |-> TRUE, orders |-> old.orders]
          /\ chimes[o] + (IF old.at < last.at /\ o \notin old.orders THEN 1 ELSE 0) <= last.became[o] + overtaken
      BY <1>1, <2>2 DEF ChimesDue, Remember
    <3>4. chimes'[o] = chimes[o] + Due(o, old.orders, new.orders)
      <4>1. knownReady.known /\ knownReady.orders = old.orders
        BY <3>3
      <4>. QED BY <1>3, <1>4, <4>1 DEF Fresh, Due
    <3>5. chimes[o] \in Nat
      BY <1>4
    <3>6. CASE OlderList(lists, "ready")
      <4>1. top = last /\ overtaken' = overtaken + 1
        BY <1>2, <1>3, <3>6 DEF OlderAnswer
      <4>. QED BY <1>4, <1>5, <3>2, <3>3, <3>4, <3>5, <4>1 DEF Due
    <3>7. CASE ~OlderList(lists, "ready")
      <4>1. top = new /\ last.at <= new.at
        BY <1>2, <1>3, <1>5, <3>1, <3>2, <3>7 DEF OlderList, Whole
      <4>2. overtaken' \in Nat /\ overtaken <= overtaken'
        BY <1>3, <1>4
      <4>3. last.became[o] <= new.became[o] /\ old.became[o] + Due(o, old.orders, new.orders) <= new.became[o]
        <5>1. old.at <= new.at
          BY <1>5, <3>1, <3>2, <4>1
        <5>2. old.became[o] + Due(o, old.orders, new.orders) <= new.became[o]
          BY <1>4, <3>1, <5>1, ReadyInOrder
        <5>3. last.became[o] + Due(o, last.orders, new.orders) <= new.became[o]
          BY <1>4, <3>1, <4>1, ReadyInOrder
        <5>. QED BY <1>5, <3>2, <5>2, <5>3 DEF Due
      <4>4. CASE old.at < last.at
        BY <1>4, <1>5, <3>2, <3>3, <3>4, <3>5, <4>1, <4>2, <4>3, <4>4 DEF Due
      <4>5. CASE old.at = last.at
        <5>1. last.became[o] <= old.became[o]
          <6>1. last.became[o] + Due(o, last.orders, old.orders) <= old.became[o]
            BY <3>1, <3>2, <4>5, ReadyInOrder
          <6>. QED BY <3>2, <6>1 DEF Due
        <5>2. chimes[o] <= last.became[o] + overtaken
          BY <1>4, <3>2, <3>3, <3>5, <4>5
        <5>3. Due(o, old.orders, new.orders) \in {0, 1}
          BY DEF Due
        <5>. QED BY <1>4, <1>5, <3>2, <3>4, <3>5, <4>1, <4>2, <4>3, <5>1, <5>2, <5>3
      <4>. QED BY <3>1, <3>2, <4>4, <4>5
    <3>. QED BY <3>6, <3>7
  <2>. QED BY <2>1, <2>2
<1>7. list' # << >>
  BY <1>2, WholeLists
<1>. QED BY <1>3, <1>6, <1>7

\* What is shown stays in order while the page does nothing.
LEMMA PageStays ==
    ASSUME ListsTogether, ChimesDue, openScreen' = openScreen, UNCHANGED livePage
    PROVE  ListsTogether' /\ ChimesDue'
<1>1. ListNames' = ListNames
  BY SameLists
<1>2. ListsTogether'
  BY <1>1 DEF ListsTogether, livePage
<1>3. ChimesDue'
  BY DEF ChimesDue, Remember, livePage
<1>. QED BY <1>2, <1>3

\* The types of what a load doesn't touch, after a step that keeps it.
LEMMA PageTyped ==
    ASSUME LiveTypeOK, openScreen' = openScreen, UNCHANGED livePage
    PROVE  /\ openScreen' \in {"board", "queue"} /\ list' \in Readings' /\ newest' \in Readings'
           /\ knownReady' \in {NotKnown} \cup [known : {TRUE}, orders : SUBSET Shown]
           /\ chimes' \in [Shown -> Nat] /\ overtaken' \in Nat
           /\ [ScreenLoad -> {NotLoading} \cup [on : {TRUE}, lists : Readings']]
                 = [ScreenLoad -> {NotLoading} \cup [on : {TRUE}, lists : Readings]]
BY SameLists DEF LiveTypeOK, livePage

\* A change is heard, and a load follows, or the page may lag.
LEMMA ChangeIsFollowed ==
    ASSUME LiveTypeOK, ListsTogether, ChimesDue, AnswersAreOld, ReadyCounts, NEW o \in Shown, NEW to \in Stand,
           Changed(o, to), UNCHANGED <<openScreen, livePage>>
    PROVE  /\ AnswersAreOld' /\ ReadyCounts' /\ OnItsWay'
           /\ screenLoads' \in [ScreenLoad -> {NotLoading} \cup [on : {TRUE}, lists : Readings]]
           /\ excused' \in BOOLEAN
<1>1. list' = list /\ newest' = newest
  BY DEF livePage
<1>2. CASE connected
  <2>1. MayLoad /\ StartLoad /\ excused' = excused
    BY <1>2 DEF Changed, Reload
  <2>2. /\ \A n : ReadSoFar(n)' \subseteq ReadSoFar(n)
        /\ \E l \in ScreenLoad : CurrentLoad(l)'
        /\ screenLoads' \in [ScreenLoad -> {NotLoading} \cup [on : {TRUE}, lists : Readings]]
    BY <1>1, <2>1, LoadStarts
  <2>3. OnItsWay'
    BY <2>2 DEF OnItsWay
  <2>4. excused' \in BOOLEAN
    BY <2>1 DEF LiveTypeOK
  <2>. QED BY <2>2, <2>3, <2>4, OrderChanges
<1>3. CASE ~connected
  <2>1. excused' = TRUE /\ screenLoads' = screenLoads
    BY <1>3 DEF Changed
  <2>2. \A n : ReadSoFar(n)' \subseteq ReadSoFar(n)
    BY <1>1, <2>1, NoNewAnswer
  <2>3. OnItsWay'
    BY <2>1 DEF OnItsWay
  <2>4. excused' \in BOOLEAN
    BY <2>1, Zenon
  <2>. QED BY <2>1, <2>2, <2>3, <2>4, OrderChanges DEF LiveTypeOK
<1>. QED BY <1>2, <1>3

\* A step of the page that starts a load and changes nothing of the orders.
LEMMA LoadFollows ==
    ASSUME LiveTypeOK, ListsTogether, ChimesDue, AnswersAreOld, ReadyCounts, MayLoad, StartLoad,
           UNCHANGED <<openScreen, liveApi, livePage>>
    PROVE  /\ AnswersAreOld' /\ ReadyCounts' /\ OnItsWay'
           /\ screenLoads' \in [ScreenLoad -> {NotLoading} \cup [on : {TRUE}, lists : Readings]]
<1>1. /\ \A n : ReadSoFar(n)' \subseteq ReadSoFar(n)
      /\ \E l \in ScreenLoad : CurrentLoad(l)'
      /\ screenLoads' \in [ScreenLoad -> {NotLoading} \cup [on : {TRUE}, lists : Readings]]
  BY LoadStarts DEF livePage
<1>. QED BY <1>1, ReadingsKeep DEF OnItsWay

\* A step that starts no load and changes nothing of the orders.
LEMMA NothingFollows ==
    ASSUME LiveTypeOK, ListsTogether, ChimesDue, AnswersAreOld, ReadyCounts, OnItsWay,
           UNCHANGED <<openScreen, liveApi, livePage, screenLoads, excused>>
    PROVE  /\ AnswersAreOld' /\ ReadyCounts' /\ OnItsWay'
           /\ screenLoads' \in [ScreenLoad -> {NotLoading} \cup [on : {TRUE}, lists : Readings]]
<1>1. \A n : ReadSoFar(n)' \subseteq ReadSoFar(n)
  BY NoNewAnswer DEF livePage
<1>2. OnItsWay'
  BY SameLists DEF OnItsWay, CurrentLists, CurrentLoad, liveApi, livePage
<1>. QED BY <1>1, <1>2, ReadingsKeep DEF LiveTypeOK

\* The click that is answered, or on its way, is one of the page's.
LEMMA ClicksTyped ==
    ASSUME LiveTypeOK, NEW c \in clicks, NEW step \in {"sent", "ok", "error"}, ClickBecomes(c, step)
    PROVE  clicks' \subseteq [kind : Kind, order : Shown, step : {"sent", "ok", "error"}]
<1>1. c \in [kind : Kind, order : Shown, step : {"sent", "ok", "error"}]
  BY DEF LiveTypeOK
<1>2. [c EXCEPT !.step = step] \in [kind : Kind, order : Shown, step : {"sent", "ok", "error"}]
  BY <1>1
<1>. QED BY <1>2 DEF LiveTypeOK, ClickBecomes

\* Orders change on their own.
LEMMA OthersKeep ==
    ASSUME LiveInv, NEW o \in Shown, OthersChange(o)
    PROVE  LiveInv'
<1>1. PICK to \in Moves[stands[o]] : Changed(o, to)
  BY DEF OthersChange
<1>2. to \in Stand
  <2>1. stands[o] \in Stand
    BY DEF LiveInv, LiveTypeOK
  <2>. QED BY <2>1 DEF Moves, Stand
<1>3. /\ UNCHANGED <<openScreen, livePage, connected, loadError, clicks, clicked, faults>>
      /\ LiveTypeOK /\ ListsTogether /\ ChimesDue /\ AnswersAreOld /\ ReadyCounts
  BY DEF OthersChange, LiveInv, liveBounds
<1>4. /\ AnswersAreOld' /\ ReadyCounts' /\ OnItsWay'
      /\ screenLoads' \in [ScreenLoad -> {NotLoading} \cup [on : {TRUE}, lists : Readings]]
      /\ excused' \in BOOLEAN
  BY <1>1, <1>2, <1>3, ChangeIsFollowed
<1>5. ListsTogether' /\ ChimesDue'
  BY <1>3, PageStays
<1>6. /\ stands' \in [Shown -> Stand] /\ becameReady' \in [Shown -> 0 .. MaxChanges]
      /\ changes' \in 0 .. MaxChanges
  BY <1>1, <1>2, <1>3, ChangeTyped
<1>7. LiveTypeOK'
  BY <1>3, <1>4, <1>6, PageTyped DEF LiveTypeOK
<1>. QED BY <1>4, <1>5, <1>7 DEF LiveInv

\* The connection goes and comes back, and the page loads again.
LEMMA ReloadsKeep ==
    ASSUME LiveInv, LoseConnection \/ Reconnect \/ Recheck \/ Retry
    PROVE  LiveInv'
<1>. LiveTypeOK /\ ListsTogether /\ ChimesDue /\ AnswersAreOld /\ ReadyCounts /\ OnItsWay
  BY DEF LiveInv
<1>1. /\ UNCHANGED <<openScreen, liveApi, livePage, excused, loadError, clicks, clicked>>
  BY DEF LoseConnection, Reconnect, Recheck, Retry, liveBounds
<1>2. \/ MayLoad /\ StartLoad
      \/ UNCHANGED screenLoads
  <2>1. (\A l \in ScreenLoad : Idle(l)) => MayLoad
    BY LiveAssumption DEF MayLoad
  <2>. QED BY <2>1 DEF LoseConnection, Reconnect, Recheck, Retry, Reload
<1>3. /\ AnswersAreOld' /\ ReadyCounts' /\ OnItsWay'
      /\ screenLoads' \in [ScreenLoad -> {NotLoading} \cup [on : {TRUE}, lists : Readings]]
  BY <1>1, <1>2, LoadFollows, NothingFollows
<1>4. ListsTogether' /\ ChimesDue'
  BY <1>1, PageStays
<1>5. connected' \in BOOLEAN
  <2>1. connected' \in {TRUE, FALSE, connected}
    BY DEF LoseConnection, Reconnect, Recheck, Retry
  <2>. QED BY <2>1 DEF LiveTypeOK
<1>6. faults' \in 0 .. MaxFaults
  BY LiveAssumption DEF LoseConnection, Reconnect, Recheck, Retry, Fault, liveBounds, LiveTypeOK
<1>7. LiveTypeOK'
  BY <1>1, <1>3, <1>5, <1>6, PageTyped DEF LiveTypeOK, liveApi
<1>. QED BY <1>3, <1>4, <1>7 DEF LiveInv

\* Staff confirm, cancel or sort out an order, and the API handles it.
LEMMA ClicksKeep ==
    ASSUME LiveInv,
           \/ \E o \in Shown, kind \in Kind : Click(kind, o)
           \/ \E c \in clicks : ApiHandles(c) \/ ClickAnswered(c)
    PROVE  LiveInv'
<1>. LiveTypeOK /\ ListsTogether /\ ChimesDue /\ AnswersAreOld /\ ReadyCounts /\ OnItsWay
  BY DEF LiveInv
<1>1. UNCHANGED <<openScreen, livePage, connected, loadError, faults>>
  BY DEF Click, ApiHandles, ClickAnswered, liveBounds
<1>2. ListsTogether' /\ ChimesDue'
  BY <1>1, PageStays
<1>3. ASSUME NEW o \in Shown, NEW kind \in Kind, Click(kind, o) PROVE LiveInv'
  <2>1. UNCHANGED <<liveApi, screenLoads, excused>>
    BY <1>3 DEF Click
  <2>2. /\ AnswersAreOld' /\ ReadyCounts' /\ OnItsWay'
        /\ screenLoads' \in [ScreenLoad -> {NotLoading} \cup [on : {TRUE}, lists : Readings]]
    BY <1>1, <2>1, NothingFollows
  <2>3. /\ clicks' \subseteq [kind : Kind, order : Shown, step : {"sent", "ok", "error"}]
        /\ clicked' \in 0 .. MaxClicks
    BY <1>3, LiveAssumption DEF Click, LiveTypeOK
  <2>4. LiveTypeOK'
    BY <1>1, <2>1, <2>2, <2>3, PageTyped DEF LiveTypeOK, liveApi
  <2>. QED BY <1>2, <2>2, <2>4 DEF LiveInv
<1>4. ASSUME NEW c \in clicks, ApiHandles(c) PROVE LiveInv'
  <2>1. clicked' = clicked
    BY <1>4 DEF ApiHandles, liveBounds
  <2>2. c.order \in Shown /\ c.kind \in Kind /\ stands[c.order] \in Stand
    BY DEF LiveTypeOK
  <2>3. clicks' \subseteq [kind : Kind, order : Shown, step : {"sent", "ok", "error"}]
    <3>1. ClickBecomes(c, "ok") \/ ClickBecomes(c, "error")
      BY <1>4 DEF ApiHandles
    <3>. QED BY <3>1, ClicksTyped
  <2>4. CASE stands[c.order] \in DOMAIN Result[c.kind]
    <3>. DEFINE to == Result[c.kind][stands[c.order]]
    <3>1. Changed(c.order, to)
      BY <1>4, <2>4 DEF ApiHandles
    <3>2. to \in Stand
      BY <2>2, <2>4 DEF Result, Stand, Kind
    <3>. HIDE DEF to
    <3>3. /\ AnswersAreOld' /\ ReadyCounts' /\ OnItsWay'
          /\ screenLoads' \in [ScreenLoad -> {NotLoading} \cup [on : {TRUE}, lists : Readings]]
          /\ excused' \in BOOLEAN
      BY <1>1, <2>2, <3>1, <3>2, ChangeIsFollowed
    <3>4. /\ stands' \in [Shown -> Stand] /\ becameReady' \in [Shown -> 0 .. MaxChanges]
          /\ changes' \in 0 .. MaxChanges
      BY <2>2, <3>1, <3>2, ChangeTyped
    <3>5. LiveTypeOK'
      BY <1>1, <2>1, <2>3, <3>3, <3>4, PageTyped DEF LiveTypeOK
    <3>. QED BY <1>2, <3>3, <3>5 DEF LiveInv
  <2>5. CASE stands[c.order] \notin DOMAIN Result[c.kind]
    <3>1. UNCHANGED <<liveApi, screenLoads, excused>>
      BY <1>4, <2>5 DEF ApiHandles
    <3>2. /\ AnswersAreOld' /\ ReadyCounts' /\ OnItsWay'
          /\ screenLoads' \in [ScreenLoad -> {NotLoading} \cup [on : {TRUE}, lists : Readings]]
      BY <1>1, <3>1, NothingFollows
    <3>3. LiveTypeOK'
      BY <1>1, <2>1, <2>3, <3>1, <3>2, PageTyped DEF LiveTypeOK, liveApi
    <3>. QED BY <1>2, <3>2, <3>3 DEF LiveInv
  <2>. QED BY <2>4, <2>5
<1>5. ASSUME NEW c \in clicks, ClickAnswered(c) PROVE LiveInv'
  <2>1. /\ UNCHANGED <<liveApi, excused, clicked>> /\ clicks' \subseteq clicks
        /\ UNCHANGED screenLoads \/ (MayLoad /\ StartLoad)
    BY <1>5 DEF ClickAnswered, Reload, liveBounds
  <2>2. /\ AnswersAreOld' /\ ReadyCounts' /\ OnItsWay'
        /\ screenLoads' \in [ScreenLoad -> {NotLoading} \cup [on : {TRUE}, lists : Readings]]
    BY <1>1, <2>1, NothingFollows, LoadFollows
  <2>3. LiveTypeOK'
    BY <1>1, <2>1, <2>2, PageTyped DEF LiveTypeOK, liveApi
  <2>. QED BY <1>2, <2>2, <2>3 DEF LiveInv
<1>. QED BY <1>3, <1>4, <1>5

\* A load reads a list, fails, or is answered.
LEMMA LoadsKeep ==
    ASSUME LiveInv, NEW l \in ScreenLoad,
           Answered(l) \/ Fails(l) \/ \E name \in ListNames : ReadList(l, name)
    PROVE  LiveInv'
<1>. LiveTypeOK /\ ListsTogether /\ ChimesDue /\ AnswersAreOld /\ ReadyCounts /\ OnItsWay
  BY DEF LiveInv
<1>1. CASE Answered(l)
  <2>1. /\ Whole(list') /\ Whole(newest') /\ openScreen' = openScreen /\ UNCHANGED liveApi
        /\ screenLoads' \in [ScreenLoad -> {NotLoading} \cup [on : {TRUE}, lists : Readings]]
        /\ \A n : ReadSoFar(n)' \subseteq ReadSoFar(n)
        /\ ListsTogether' /\ Whole(screenLoads[l].lists)
    BY <1>1, AnswerTyped
  <2>2. AnswersAreOld' /\ ReadyCounts' /\ OnItsWay' /\ ChimesDue'
    BY <1>1, <2>1, ReadingsKeep, AnswerCatchesUp, AnswerChimes
  <2>3. /\ overtaken' \in Nat /\ chimes' \in [Shown -> Nat]
        /\ knownReady' \in {NotKnown} \cup [known : {TRUE}, orders : SUBSET Shown]
    <3>1. overtaken' \in Nat /\ chimes' \in [Shown -> Nat]
      BY <1>1 DEF Answered, LiveTypeOK
    <3>2. knownReady' \in {NotKnown} \cup [known : {TRUE}, orders : SUBSET Shown]
      <4>1. CASE openScreen = "board"
        <5>1. knownReady' = [known |-> TRUE, orders |-> screenLoads[l].lists["ready"].orders]
          BY <1>1, <4>1 DEF Answered, Remember
        <5>2. screenLoads[l].lists["ready"].orders \in SUBSET Shown
          BY <2>1, <4>1, WholeLists DEF Reading, ListNames
        <5>. QED BY <5>1, <5>2
      <4>2. CASE openScreen # "board"
        BY <1>1, <4>2 DEF Answered, LiveTypeOK
      <4>. QED BY <4>1, <4>2
    <3>. QED BY <3>1, <3>2
  <2>4. /\ loadError' = FALSE /\ UNCHANGED <<connected, clicks, clicked, faults>>
        /\ excused' = (OlderAnswer(screenLoads[l].lists) \/ (excused /\ ~Current(screenLoads[l].lists)))
    BY <1>1 DEF Answered, liveBounds
  <2>5. loadError' \in BOOLEAN /\ excused' \in BOOLEAN
    BY <2>4, Zenon
  <2>6. list' \in Readings' /\ newest' \in Readings' /\ Readings' = Readings
    BY <2>1, SameLists DEF Whole
  <2>7. LiveTypeOK'
    BY <2>1, <2>3, <2>4, <2>5, <2>6 DEF LiveTypeOK, liveApi
  <2>. QED BY <2>1, <2>2, <2>7 DEF LiveInv
<1>2. CASE Fails(l)
  <2>1. /\ UNCHANGED <<openScreen, liveApi, livePage, connected, clicks, clicked>> /\ LoadDone(l)
        /\ excused' = TRUE /\ loadError' = TRUE
    BY <1>2 DEF Fails
  <2>2. \A n : ReadSoFar(n)' \subseteq ReadSoFar(n)
    BY <2>1, LoadEnds, NoNewAnswer DEF livePage
  <2>3. AnswersAreOld' /\ ReadyCounts'
    BY <2>1, <2>2, ReadingsKeep
  <2>4. ListsTogether' /\ ChimesDue' /\ OnItsWay'
    BY <2>1, PageStays DEF OnItsWay
  <2>5. faults' \in 0 .. MaxFaults
    BY <1>2, LiveAssumption DEF Fails, Fault, LiveTypeOK
  <2>6. loadError' \in BOOLEAN /\ excused' \in BOOLEAN
    BY <2>1, Zenon
  <2>7. screenLoads' \in [ScreenLoad -> {NotLoading} \cup [on : {TRUE}, lists : Readings]]
    BY <2>1, LoadEnds
  <2>8. LiveTypeOK'
    BY <2>1, <2>5, <2>6, <2>7, PageTyped DEF LiveTypeOK, liveApi
  <2>. QED BY <2>3, <2>4, <2>8 DEF LiveInv
<1>3. ASSUME NEW name \in ListNames, ReadList(l, name) PROVE LiveInv'
  <2>1. UNCHANGED <<openScreen, liveApi, livePage, connected, loadError, clicks, excused, clicked, faults>>
    BY <1>3 DEF ReadList, liveBounds
  <2>2. /\ screenLoads' \in [ScreenLoad -> {NotLoading} \cup [on : {TRUE}, lists : Readings]]
        /\ \A n : ReadSoFar(n)' \subseteq ReadSoFar(n) \cup (IF n = name THEN {ReadNow(n)} ELSE {})
        /\ \A m \in ScreenLoad : CurrentLoad(m) => CurrentLoad(m)'
    BY <1>3, ListIsRead
  <2>3. ListsTogether' /\ ChimesDue'
    BY <2>1, PageStays
  <2>4. ListNames' = ListNames /\ \A n : Listed(n)' = Listed(n)
    BY <2>1, SameLists DEF Listed, liveApi
  <2>5. OnItsWay'
    BY <2>1, <2>2, <2>4 DEF OnItsWay, CurrentLists, liveApi, livePage
  <2>6. \A n : ReadNow(n) = [at |-> changes, orders |-> Listed(n), became |-> becameReady]
    BY DEF ReadNow
  <2>7. changes \in Nat /\ \A o \in Shown : becameReady[o] \in Nat
    BY LiveAssumption DEF LiveTypeOK
  <2>8. AnswersAreOld'
    <3>1. SUFFICES ASSUME NEW n \in ListNames, NEW a \in ReadSoFar(n)'
                   PROVE  a.at <= changes /\ (a.at = changes => a.orders = Listed(n) /\ a.became = becameReady)
      BY <2>1, <2>4 DEF AnswersAreOld, liveApi
    <3>2. CASE a \in ReadSoFar(n)
      BY <3>2 DEF AnswersAreOld
    <3>3. CASE a = ReadNow(n)
      BY <2>6, <2>7, <3>3
    <3>. QED BY <2>2, <3>2, <3>3
  <2>9. ReadyCounts'
    <3>. DEFINE now == ReadNow("ready")
    <3>1. /\ ReadSoFar("ready")' \subseteq ReadSoFar("ready") \cup {now}
          /\ name # "ready" => ReadSoFar("ready")' \subseteq ReadSoFar("ready")
      BY <2>2
    <3>2. now.at = changes /\ now.orders = Listed("ready") /\ now.became = becameReady
      BY <2>6
    <3>3. SUFFICES ASSUME NEW o \in Shown
                   PROVE  /\ becameReady[o] <= changes
                          /\ \A a \in ReadSoFar("ready")' :
                               /\ a.became[o] + Due(o, a.orders, Listed("ready")) <= becameReady[o]
                               /\ \A b \in ReadSoFar("ready")' :
                                    a.at <= b.at => a.became[o] + Due(o, a.orders, b.orders) <= b.became[o]
      BY <2>1, <2>4 DEF ReadyCounts, liveApi
    <3>4. ASSUME NEW a \in ReadSoFar("ready")'
          PROVE  a.became[o] + Due(o, a.orders, Listed("ready")) <= becameReady[o]
      <4>1. CASE a \in ReadSoFar("ready")
        BY <4>1 DEF ReadyCounts
      <4>2. CASE a = now
        BY <2>7, <3>2, <4>2 DEF Due
      <4>. QED BY <3>1, <4>1, <4>2
    <3>5. ASSUME NEW a \in ReadSoFar("ready")', NEW b \in ReadSoFar("ready")', a.at <= b.at
          PROVE  a.became[o] + Due(o, a.orders, b.orders) <= b.became[o]
      <4>1. CASE b = now
        BY <3>2, <3>4, <4>1
      <4>2. CASE a \in ReadSoFar("ready") /\ b \in ReadSoFar("ready")
        BY <3>5, <4>2 DEF ReadyCounts
      <4>3. CASE a = now /\ a \notin ReadSoFar("ready") /\ b \in ReadSoFar("ready")
        <5>1. name = "ready"
          BY <3>1, <4>3
        <5>2. b.at <= changes /\ (b.at = changes => b.orders = Listed("ready") /\ b.became = becameReady)
          BY <4>3, <5>1 DEF AnswersAreOld
        <5>3. b.at \in Nat
          BY <4>3, AnswersTyped, BecameTyped
        <5>4. b.at = changes
          BY <2>7, <3>2, <3>5, <4>3, <5>2, <5>3
        <5>. QED BY <2>7, <3>2, <4>3, <5>2, <5>4 DEF Due
      <4>. QED BY <3>1, <4>1, <4>2, <4>3
    <3>. QED BY <3>4, <3>5 DEF ReadyCounts
  <2>10. LiveTypeOK'
    BY <2>1, <2>2, PageTyped DEF LiveTypeOK, liveApi
  <2>. QED BY <2>3, <2>5, <2>8, <2>9, <2>10 DEF LiveInv
<1>. QED BY <1>1, <1>2, <1>3

\* A page that has just been opened.
LEMMA LiveStarts ==
    ASSUME LiveInit
    PROVE  LiveInv
<1>. DEFINE first == CHOOSE f \in ScreenLoad : TRUE
<1>1. /\ openScreen \in {"board", "queue"} /\ stands \in [Shown -> {"unpaid", "preparing", "ready"}]
      /\ list = << >> /\ newest = << >> /\ connected \in BOOLEAN /\ loadError = FALSE
      /\ knownReady = NotKnown /\ chimes = [o \in Shown |-> 0]
      /\ clicks = {} /\ changes = 0 /\ becameReady = [o \in Shown |-> 0]
      /\ overtaken = 0 /\ excused = FALSE /\ clicked = 0 /\ faults = 0
  BY DEF LiveInit
<1>2. /\ screenLoads = [l \in ScreenLoad |-> IF l = first THEN NewLoad ELSE NotLoading]
      /\ first \in ScreenLoad
  BY LiveAssumption DEF LiveInit
<1>. HIDE DEF first
<1>3. NewLoad \in [on : {TRUE}, lists : Readings] /\ NewLoad.on /\ DOMAIN NewLoad.lists = {}
  BY NoListsYet DEF NewLoad
<1>4. screenLoads \in [ScreenLoad -> {NotLoading} \cup [on : {TRUE}, lists : Readings]]
  BY <1>2, <1>3
<1>5. stands \in [Shown -> Stand]
  BY <1>1 DEF Stand
<1>6. loadError \in BOOLEAN /\ excused \in BOOLEAN
  BY <1>1, Zenon
<1>7. LiveTypeOK
  <2>1. /\ chimes \in [Shown -> Nat] /\ becameReady \in [Shown -> 0 .. MaxChanges]
        /\ changes \in 0 .. MaxChanges /\ clicked \in 0 .. MaxClicks /\ faults \in 0 .. MaxFaults
    BY <1>1, LiveAssumption
  <2>2. clicks \subseteq [kind : Kind, order : Shown, step : {"sent", "ok", "error"}]
    BY <1>1
  <2>3. list \in Readings /\ newest \in Readings /\ overtaken \in Nat
    BY <1>1, NoListsYet
  <2>4. knownReady \in {NotKnown} \cup [known : {TRUE}, orders : SUBSET Shown]
    BY <1>1
  <2>. QED BY <1>1, <1>4, <1>5, <1>6, <2>1, <2>2, <2>3, <2>4 DEF LiveTypeOK
<1>8. ASSUME NEW n, NEW a \in ReadSoFar(n) PROVE FALSE
  <2>1. \A l \in ScreenLoad : screenLoads[l].on => DOMAIN screenLoads[l].lists = {}
    BY <1>2, <1>3 DEF NotLoading
  <2>. QED BY <1>1, <1>8, <2>1, AnswersFrom, NoListsYet
<1>9. ListsTogether /\ AnswersAreOld /\ ReadyCounts /\ ChimesDue
  BY <1>1, <1>8, NoListsYet DEF ListsTogether, AnswersAreOld, ReadyCounts, ChimesDue
<1>10. OnItsWay
  <2>1. screenLoads[first] = NewLoad
    BY <1>2
  <2>2. CurrentLoad(first)
    BY <1>3, <2>1 DEF CurrentLoad
  <2>. QED BY <1>2, <2>2 DEF OnItsWay
<1>. QED BY <1>7, <1>9, <1>10 DEF LiveInv

\* Every step keeps the invariant.
LEMMA LiveStep ==
    ASSUME LiveInv, [LiveNext]_liveVars
    PROVE  LiveInv'
<1>1. CASE LiveNext
  BY <1>1, OthersKeep, ReloadsKeep, ClicksKeep, LoadsKeep DEF LiveNext
<1>2. CASE UNCHANGED liveVars
  <2>1. UNCHANGED <<openScreen, liveApi, livePage, screenLoads, connected, loadError, clicks, excused, clicked, faults>>
    BY <1>2 DEF liveVars, liveApi, livePage
  <2>2. AnswersAreOld' /\ ReadyCounts' /\ OnItsWay' /\ ListsTogether' /\ ChimesDue'
    BY <2>1, NothingFollows, PageStays DEF LiveInv
  <2>3. LiveTypeOK'
    BY <2>1, PageTyped DEF LiveInv, LiveTypeOK, liveApi
  <2>. QED BY <2>2, <2>3 DEF LiveInv
<1>. QED BY <1>1, <1>2

\* What the invariant says of a screen with nothing on its way, and of chimes.
LEMMA LiveExplains ==
    ASSUME LiveInv
    PROVE  LiveTypeOK /\ LagIsExplained /\ ChimesAreExplained
<1>. LiveTypeOK /\ ListsTogether /\ AnswersAreOld /\ ReadyCounts /\ OnItsWay /\ ChimesDue
  BY DEF LiveInv
<1>1. LagIsExplained
  <2>1. SUFFICES ASSUME \A l \in ScreenLoad : Idle(l), ~excused, list # << >>, NEW n \in ListNames
                 PROVE  list[n].orders = Listed(n)
    BY DEF LagIsExplained
  <2>2. list[n].at = changes
    BY <2>1 DEF OnItsWay, CurrentLists, CurrentLoad, Idle
  <2>3. list[n] \in ReadSoFar(n)
    BY <2>1, ShownLists
  <2>. QED BY <2>2, <2>3 DEF AnswersAreOld
<1>2. ChimesAreExplained
  <2>1. SUFFICES ASSUME NEW o \in Shown PROVE chimes[o] <= becameReady[o] + overtaken
    BY DEF ChimesAreExplained
  <2>2. becameReady[o] \in Nat /\ overtaken \in Nat /\ chimes[o] \in Nat
    BY LiveAssumption DEF LiveTypeOK
  <2>3. CASE openScreen = "board" /\ list = << >>
    BY <2>2, <2>3 DEF ChimesDue
  <2>4. CASE openScreen = "board" /\ list # << >>
    <3>1. newest["ready"] \in ReadSoFar("ready")
      BY <2>4, ShownLists DEF ListNames
    <3>2. newest["ready"].became[o] \in Nat
      BY <3>1, AnswersTyped, BecameTyped
    <3>3. newest["ready"].became[o] + Due(o, newest["ready"].orders, Listed("ready")) <= becameReady[o]
      BY <3>1 DEF ReadyCounts
    <3>4. newest["ready"].became[o] <= becameReady[o]
      BY <2>2, <3>2, <3>3 DEF Due
    <3>5. chimes[o] <= newest["ready"].became[o] + overtaken
      BY <2>2, <2>4, <3>2 DEF ChimesDue
    <3>. QED BY <2>2, <3>2, <3>4, <3>5
  <2>5. CASE openScreen # "board"
    BY <2>2, <2>5 DEF ChimesDue
  <2>. QED BY <2>3, <2>4, <2>5
<1>. QED BY <1>1, <1>2

\* The invariant holds throughout.
THEOREM LiveInvariant == LiveSpec => []LiveInv
<1>1. LiveInit => LiveInv
  BY LiveStarts
<1>2. LiveInv /\ [LiveNext]_liveVars => LiveInv'
  BY LiveStep
<1>. QED BY <1>1, <1>2, PTL DEF LiveSpec

\* The screens' values are of their types.
THEOREM ScreensTyped == LiveSpec => []LiveTypeOK
<1>1. LiveInv => LiveTypeOK
  BY LiveExplains
<1>. QED BY <1>1, LiveInvariant, PTL

\* What a screen shows with nothing on its way is what the API has, unless an
\* event or a load was lost or overtaken.
THEOREM LagHasAReason == LiveSpec => []LagIsExplained
<1>1. LiveInv => LagIsExplained
  BY LiveExplains
<1>. QED BY <1>1, LiveInvariant, PTL

\* The board chimes at most once each time an order becomes ready, and once
\* for each answer that was overtaken.
THEOREM ChimesHaveAReason == LiveSpec => []ChimesAreExplained
<1>1. LiveInv => ChimesAreExplained
  BY LiveExplains
<1>. QED BY <1>1, LiveInvariant, PTL

-----------------------------------------------------------------------------
(* The browsers side by side.                                              *)

\* A part that goes on, or rests, takes a step of its own or none.
LEMMA FrontSteps ==
    ASSUME [FrontNext]_frontVars
    PROVE  /\ [KioskNext]_kioskVars /\ [TicketNext]_ticketVars /\ [LiveNext]_liveVars
           /\ [SessionNext]_sessionVars /\ [AccountsNext]_accountVars
<1>1. CASE ScreensNext /\ UNCHANGED staffVars
  <2>1. UNCHANGED sessionVars /\ UNCHANGED accountVars
    BY <1>1 DEF staffVars
  <2>2. /\ KioskNext \/ UNCHANGED kioskVars
        /\ TicketNext \/ UNCHANGED ticketVars
        /\ LiveNext \/ UNCHANGED liveVars
    BY <1>1 DEF ScreensNext
  <2>. QED BY <2>1, <2>2
<1>2. CASE StaffNext /\ UNCHANGED screenVars
  <2>1. UNCHANGED kioskVars /\ UNCHANGED ticketVars /\ UNCHANGED liveVars
    BY <1>2 DEF screenVars
  <2>2. /\ SessionNext \/ UNCHANGED sessionVars
        /\ AccountsNext \/ UNCHANGED accountVars
    BY <1>2 DEF StaffNext
  <2>. QED BY <2>1, <2>2
<1>3. CASE UNCHANGED frontVars
  BY <1>3 DEF frontVars, screenVars, staffVars
<1>. QED BY <1>1, <1>2, <1>3 DEF FrontNext

\* Side by side, each of the browsers behaves as it does alone: whatever is
\* proved of one of them holds of the front of the house.
THEOREM FrontIsItsParts ==
    FrontSpec => KioskSpec /\ TicketSpec /\ LiveSpec /\ SessionSpec /\ AccountsSpec
<1>1. FrontInit => KioskInit /\ TicketInit /\ LiveInit /\ SessionInit /\ AccountsInit
  BY DEF FrontInit
<1>2. [FrontNext]_frontVars =>
          /\ [KioskNext]_kioskVars /\ [TicketNext]_ticketVars /\ [LiveNext]_liveVars
          /\ [SessionNext]_sessionVars /\ [AccountsNext]_accountVars
  BY FrontSteps
<1>. QED BY <1>1, <1>2, PTL DEF FrontSpec, KioskSpec, TicketSpec, LiveSpec, SessionSpec, AccountsSpec

\* The values of whichever part goes on are of their types.
THEOREM FrontTyped == FrontSpec => []FrontTypeOK
<1>. DEFINE OnePart == part \in {"kiosk", "kitchen", "screens", "session", "accounts"}
<1>1. OnePart /\ KioskTypeOK /\ TicketTypeOK /\ LiveTypeOK /\ SessionTypeOK /\ AccountsTypeOK => FrontTypeOK
  BY DEF FrontTypeOK
<1>2. FrontInit => OnePart
  BY DEF FrontInit
<1>3. OnePart /\ [FrontNext]_frontVars => OnePart'
  BY DEF FrontNext, frontVars
<1>. HIDE DEF OnePart
<1>. QED BY <1>1, <1>2, <1>3, FrontIsItsParts, KioskTyped, TicketsTyped, ScreensTyped, SessionTyped,
            AccountsTyped, PTL DEF FrontSpec
=============================================================================
