--------------------------- MODULE MCFrontOfHouse ---------------------------
(***************************************************************************)
(* The browsers of the restaurant: the customer's kiosk, the kitchen       *)
(* display with its ticket printer, the screens that follow the orders, a  *)
(* staff session, and the admins' page of accounts.  They share nothing    *)
(* but the API, so a behaviour is one of theirs (`part`), and the others   *)
(* stay as they were opened.                                               *)
(***************************************************************************)
EXTENDS KioskCheckout, KitchenTickets, LiveScreens, StaffSession, StaffAccounts

VARIABLE part

screenVars == <<kioskVars, ticketVars, liveVars>>
staffVars  == <<sessionVars, accountVars>>
frontVars  == <<part, screenVars, staffVars>>

\* The values of the part that goes on are of their types.
FrontTypeOK ==
    CASE part = "kiosk"    -> KioskTypeOK    [] part = "kitchen" -> TicketTypeOK
      [] part = "screens"  -> LiveTypeOK     [] part = "session" -> SessionTypeOK
      [] part = "accounts" -> AccountsTypeOK

\* Whoever has an account begins with this address.
MCFirstAddress == [p \in Person |-> IF p = "ana" THEN "x" ELSE "y"]

KioskUntouched   == QR_PH_ENABLED /\ AtWelcome /\ ~chosen
KitchenUntouched == ticketPrinter /\ inKitchen = [o \in KitchenOrder |-> "in"]
ScreensUntouched == openScreen = "queue" /\ ~connected /\ stands = [o \in Shown |-> "ready"]
SessionUntouched == ~SignedIn
AccountsUntouched ==
    /\ users["ana"] = [role |-> "admin", isActive |-> TRUE, email |-> "x"]
    /\ \A p \in Person \ {"ana"} : users[p] = NoAccount

FrontInit ==
    /\ part \in {"kiosk", "kitchen", "screens", "session", "accounts"}
    /\ KioskInit /\ TicketInit /\ LiveInit /\ SessionInit /\ AccountsInit
    /\ part # "kiosk" => KioskUntouched
    /\ part # "kitchen" => KitchenUntouched
    /\ part # "screens" => ScreensUntouched
    /\ part # "session" => SessionUntouched
    /\ part # "accounts" => AccountsUntouched

ScreensNext ==
    \/ part = "kiosk"   /\ KioskNext  /\ UNCHANGED <<ticketVars, liveVars>>
    \/ part = "kitchen" /\ TicketNext /\ UNCHANGED <<kioskVars, liveVars>>
    \/ part = "screens" /\ LiveNext   /\ UNCHANGED <<kioskVars, ticketVars>>

StaffNext ==
    \/ part = "session"  /\ SessionNext  /\ UNCHANGED accountVars
    \/ part = "accounts" /\ AccountsNext /\ UNCHANGED sessionVars

FrontNext ==
    /\ UNCHANGED part
    /\ (ScreensNext /\ UNCHANGED staffVars) \/ (StaffNext /\ UNCHANGED screenVars)

(***************************************************************************)
(* Fairness, of the part whose behaviour it is.                            *)
(*                                                                         *)
(* The kiosk: timers run and codes run out.  Nobody has to touch it or pay. *)
(* The kitchen: the page's loop and the print service go on, and a printer *)
(* tried again and again works at last.  The board: loads are answered and *)
(* it goes on checking; losses are bounded, not fair.  The session: timers *)
(* go off and requests end; time goes on however often they are made.      *)
(***************************************************************************)
FrontFairness ==
    /\ WF_kioskVars(part = "kiosk" /\ IdleWarn)
    /\ WF_kioskVars(part = "kiosk" /\ IdleReset)
    /\ WF_kioskVars(part = "kiosk" /\ CodeRunsOut)
    /\ WF_kioskVars(part = "kiosk" /\ SendBack)
    /\ WF_ticketVars(part = "kitchen" /\ StartPrinting)
    /\ WF_ticketVars(part = "kitchen" /\ printKitchenTicket)
    /\ WF_ticketVars(part = "kitchen" /\ TicketAnswered)
    /\ WF_ticketVars(part = "kitchen" /\ printNow)
    /\ WF_liveVars(part = "screens" /\ Recheck)
    /\ \A l \in ScreenLoad :
          /\ WF_liveVars(part = "screens" /\ Answered(l))
          /\ \A name \in {"preparing", "ready"} :
                WF_liveVars(part = "screens" /\ openScreen = "board" /\ ReadList(l, name))
    /\ SF_<<ticketVars, sessionVars>>(
          \/ part = "kitchen" /\ PrinterPrints /\ UNCHANGED sessionVars
          \/ part = "session" /\ TimeGoesOn /\ UNCHANGED ticketVars)
    /\ WF_sessionVars(part = "session" /\ SignOutAnswered)
    /\ \A t \in Tab :
          /\ WF_sessionVars(part = "session" /\ TimerFires(t))
          /\ WF_sessionVars(part = "session" /\ ensureFreshToken(t))
          /\ \A k \in Renewers : WF_sessionVars(part = "session" /\ RenewalStep(t, k))

FrontSpec == FrontInit /\ [][FrontNext]_frontVars /\ FrontFairness
=============================================================================
