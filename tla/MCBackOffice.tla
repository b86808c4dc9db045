---------------------------- MODULE MCBackOffice ----------------------------
(***************************************************************************)
(* What goes on behind the counter: sign-in codes, the rate limiter, the   *)
(* low-stock alerts, the backups, and the admin's pages that import        *)
(* products, save one product, adjust its stock and look up its barcode.   *)
(* They share no state, so a behaviour is one of theirs (`part`), and the  *)
(* others stay as they began.                                              *)
(***************************************************************************)
EXTENDS SignInCodes, RateLimiter, LowStockAlerts, Backups, ProductImport, ProductForms,
        AdjustmentLog, BarcodeLookup

VARIABLE part

serverVars == <<signInVars, limiterVars, alertVars, backupVars>>
adminVars  == <<importVars, formVars, logVars, lookupVars>>
backVars   == <<part, serverVars, adminVars>>

\* The values of the part that goes on are of their types.
BackTypeOK ==
    CASE part = "signIn"  -> SignInTypeOK  [] part = "limiter" -> LimiterTypeOK
      [] part = "alerts"  -> AlertTypeOK   [] part = "backups" -> BackupTypeOK
      [] part = "import"  -> ImportTypeOK  [] part = "forms"   -> FormsTypeOK
      [] part = "log"     -> LogTypeOK     [] part = "lookup"  -> LookupTypeOK

\* Brevo; and Brevo without its sender, which doesn't fall back to Gmail.
MCMailEnvs ==
    {{"BREVO_API_KEY", "ALERT_EMAIL_FROM", "ALERT_EMAIL_TO"},
     {"BREVO_API_KEY", "SMTP_USER", "SMTP_PASS", "ALERT_EMAIL_TO"}}

\* Two rows with the same barcode; a dish without one; a wrong row.
MCRowsOf ==
    [t \in Text |->
        CASE t = "drinks" -> <<[bar |-> "b1", valid |-> TRUE], [bar |-> "b1", valid |-> TRUE]>>
          [] t = "menu"   -> <<[bar |-> NoBarcode, valid |-> TRUE]>>
          [] t = "wrong"  -> <<[bar |-> NoBarcode, valid |-> FALSE]>>]

MCSetups == [local : BOOLEAN, cloud : BOOLEAN]

\* A drink with none left, kept as it is; one with a barcode and a photo; a dish.
MCFillings ==
    {[tracking |-> "unit", stockQty |-> 0, barcode |-> None, photo |-> "keep"],
     [tracking |-> "unit", stockQty |-> 1, barcode |-> "b1", photo |-> "new"],
     [tracking |-> "recipe", stockQty |-> 0, barcode |-> None, photo |-> "remove"]}

\* One broken; then counted by hand: one left.
CountedItem == CHOOSE i \in Item : TRUE
MCAsks ==
    <<[kind |-> "delta", of |-> CountedItem, by |-> -1, lowers |-> TRUE],
      [kind |-> "set", of |-> CountedItem, to |-> 1, lowers |-> TRUE]>>

AlertsUntouched  == level = [i \in StockItem |-> 2] /\ minimum = [i \in StockItem |-> 0] /\ ~MailerSetUp
BackupsUntouched == ~BackupsScheduled
ImportUntouched  == barcodes = {}
FormsUntouched   == \A p \in Product : product[p] = Absent
LookupUntouched  == \A c \in Code : changes[c] = 0 /\ lastCode = CHOOSE x \in Code : TRUE

BackInit ==
    /\ part \in {"signIn", "limiter", "alerts", "backups", "import", "forms", "log", "lookup"}
    /\ SignInInit /\ LimiterInit /\ AlertInit /\ BackupInit
    /\ ImportInit /\ FormsInit /\ LogInit /\ LookupInit
    /\ part # "alerts" => AlertsUntouched
    /\ part # "backups" => BackupsUntouched
    /\ part # "import" => ImportUntouched
    /\ part # "forms" => FormsUntouched
    /\ part # "lookup" => LookupUntouched

ServerNext ==
    \/ part = "signIn"  /\ SignInNext  /\ UNCHANGED <<limiterVars, alertVars, backupVars>>
    \/ part = "limiter" /\ LimiterNext /\ UNCHANGED <<signInVars, alertVars, backupVars>>
    \/ part = "alerts"  /\ AlertNext   /\ UNCHANGED <<signInVars, limiterVars, backupVars>>
    \/ part = "backups" /\ BackupNext  /\ UNCHANGED <<signInVars, limiterVars, alertVars>>

AdminNext ==
    \/ part = "import"  /\ ImportNext  /\ UNCHANGED <<formVars, logVars, lookupVars>>
    \/ part = "forms"   /\ FormsNext   /\ UNCHANGED <<importVars, logVars, lookupVars>>
    \/ part = "log"     /\ LogNext     /\ UNCHANGED <<importVars, formVars, lookupVars>>
    \/ part = "lookup"  /\ LookupNext  /\ UNCHANGED <<importVars, formVars, logVars>>

BackNext ==
    /\ UNCHANGED part
    /\ (ServerNext /\ UNCHANGED adminVars) \/ (AdminNext /\ UNCHANGED serverVars)

(***************************************************************************)
(* Fairness, of the part whose behaviour it is.  The worker's timer goes   *)
(* off every minute, and a run that began goes on.                         *)
(***************************************************************************)
BackFairness ==
    /\ \A r \in Run :
          WF_alertVars(part = "alerts" /\ (SendEmail(r) \/ MarkSent(r) \/ CountAttempt(r)))
    /\ WF_alertVars(part = "alerts" /\ BeginRun(Scheduled))

BackSpec == BackInit /\ [][BackNext]_backVars /\ BackFairness
=============================================================================
