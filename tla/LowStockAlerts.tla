--------------------------- MODULE LowStockAlerts ---------------------------
(***************************************************************************)
(* Low-stock alerts: queued by the triggers on inventory and               *)
(* raw_materials (apps/api/prisma/migrations, the last version), emailed   *)
(* by the worker's minutely job or a run by hand                           *)
(* (apps/worker/src/jobs/sendLowStockAlerts.ts).  A run reads the waiting  *)
(* alerts, sends one email, and only then writes what became of it.        *)
(***************************************************************************)
EXTENDS Integers, Sequences, FiniteSets

CONSTANTS
    StockItem,  \* rows of inventory (unit products) and of raw_materials
    Scheduled,  \* the run the worker's timer starts
    ByHand,     \* runs started by hand
    MAX_ATTEMPTS, BATCH,
    Level,      \* counts an item may have
    MailEnvs,   \* the mail settings a worker may be started with
    MaxAlerts,  \* bounds the alerts
    MaxRestarts,\* bounds how often a run is cut off
    Minima      \* minimum levels an item may have

Run == {Scheduled} \cup ByHand

ASSUME AlertAssumption ==
    /\ Scheduled \notin ByHand /\ IsFiniteSet(ByHand)
    /\ MAX_ATTEMPTS \in Nat \ {0} /\ BATCH \in Nat \ {0}
    /\ Level \subseteq Nat /\ Minima \subseteq Nat /\ MaxAlerts \in Nat /\ MaxRestarts \in Nat
    /\ \E l \in Level, m \in Minima : l > m

VARIABLES
    level, minimum, inUse,  \* an item's count, min_stock_threshold, is_active
    alerts,     \* low_stock_alerts, in the order of created_at
    mailEnv,    \* the mail settings that are set to something usable
    run,        \* the runs in progress
    \* History, read by no guard but the bound on restarts.
    emailed,    \* how many emails an alert was in
    restarts

alertVars == <<level, minimum, inUse, alerts, mailEnv, run, emailed, restarts>>
itemVars  == <<level, minimum, inUse>>

Alert == [item : StockItem, sent : BOOLEAN, attempts : Nat, resolved : BOOLEAN]
AlertRun == {[op |-> "idle"]} \cup [op : {"send", "markSent", "countAttempt"}, ids : SUBSET (1 .. MaxAlerts)]

\* Items, alerts and runs hold values of their types.
AlertTypeOK ==
    /\ level \in [StockItem -> Level] /\ minimum \in [StockItem -> Minima]
    /\ inUse \in [StockItem -> BOOLEAN]
    /\ alerts \in Seq(Alert) /\ Len(alerts) <= MaxAlerts
    /\ run \in [Run -> AlertRun]
    /\ emailed \in [1 .. MaxAlerts -> Nat] /\ restarts \in 0 .. MaxRestarts

AlertInit ==
    /\ level \in [StockItem -> Level] /\ minimum \in [StockItem -> Minima]
    /\ \A i \in StockItem : level[i] > minimum[i]
    /\ inUse = [i \in StockItem |-> TRUE]
    /\ alerts = << >>
    /\ mailEnv \in MailEnvs
    /\ run = [r \in Run |-> [op |-> "idle"]]
    /\ emailed = [n \in 1 .. MaxAlerts |-> 0] /\ restarts = 0

-----------------------------------------------------------------------------
(* Which mail service the settings select (lib/mailer.ts).                   *)

Via(env) ==
    IF "BREVO_API_KEY" \in env THEN "brevo"
    ELSE IF "RESEND_API_KEY" \in env THEN "resend" ELSE "smtp"

RequiredSettings(via) ==
    CASE via = "brevo"  -> {"ALERT_EMAIL_FROM", "ALERT_EMAIL_TO"}
      [] via = "resend" -> {"ALERT_EMAIL_TO"}
      [] via = "smtp"   -> {"SMTP_USER", "SMTP_PASS", "ALERT_EMAIL_TO"}

\* readMailSettings is ok, so mailerFromConfig isn't null.
MailerSetUp == RequiredSettings(Via(mailEnv)) \subseteq mailEnv

-----------------------------------------------------------------------------
(* The triggers.                                                             *)

OpenAlerts(i) == {n \in DOMAIN alerts : alerts[n].item = i /\ ~alerts[n].resolved}

NewAlert(i) == [item |-> i, sent |-> FALSE, attempts |-> 0, resolved |-> FALSE]

\* The first version of the triggers, before "once until restocked".
QueueAlert_EachCrossing(i, count, min, used) ==
    alerts' = IF used /\ count <= min /\ ~(inUse[i] /\ level[i] <= minimum[i])
              THEN Append(alerts, NewAlert(i)) ELSE alerts

\* After an update of an item's row, in the same transaction and under its lock.
QueueAlert(i, count, min, used) ==
    alerts' =
      IF count > level[i] /\ count > min
      THEN [n \in DOMAIN alerts |-> [alerts[n] EXCEPT !.resolved = @ \/ alerts[n].item = i]]
      ELSE IF used /\ count <= min /\ OpenAlerts(i) = {} THEN Append(alerts, NewAlert(i))
      ELSE alerts

\* A sale, a restock, a correction, a new minimum, a material taken out of use.
UpdateItem(i) ==
    /\ \E count \in Level, min \in Minima, used \in BOOLEAN :
         /\ <<count, min, used>> # <<level[i], minimum[i], inUse[i]>>
         /\ QueueAlert(i, count, min, used) /\ Len(alerts') <= MaxAlerts
         /\ level' = [level EXCEPT ![i] = count]
         /\ minimum' = [minimum EXCEPT ![i] = min]
         /\ inUse' = [inUse EXCEPT ![i] = used]
    /\ UNCHANGED <<mailEnv, run, emailed, restarts>>

-----------------------------------------------------------------------------
(* A run of sendLowStockAlerts.                                              *)

Waiting == {n \in DOMAIN alerts : ~alerts[n].sent /\ alerts[n].attempts < MAX_ATTEMPTS}

\* The oldest BATCH of them.
NextBatch == {n \in Waiting : Cardinality({k \in Waiting : k < n}) < BATCH}

SetRun(r, c) == run' = [run EXCEPT ![r] = c]
RunEnds(r)   == SetRun(r, [op |-> "idle"])

\* The timer starts none while one is running; a run by hand is another process.
BeginRun(r) ==
    /\ run[r].op = "idle" /\ MailerSetUp /\ Waiting # {}
    /\ SetRun(r, [op |-> "send", ids |-> NextBatch])
    /\ UNCHANGED <<itemVars, alerts, mailEnv, emailed, restarts>>

\* One email for the batch; what it says is left out.
CountEmail(ids) == emailed' = [n \in 1 .. MaxAlerts |-> IF n \in ids THEN emailed[n] + 1 ELSE emailed[n]]

\* mailer.send: answered; refused; or sent, with an answer that never comes.
SendEmail(r) ==
    LET ids == run[r].ids IN
    /\ run[r].op = "send"
    /\ \/ CountEmail(ids) /\ SetRun(r, [op |-> "markSent", ids |-> ids])
       \/ UNCHANGED emailed /\ SetRun(r, [op |-> "countAttempt", ids |-> ids])
       \/ CountEmail(ids) /\ SetRun(r, [op |-> "countAttempt", ids |-> ids])
    /\ UNCHANGED <<itemVars, alerts, mailEnv, restarts>>

\* Sent, or the update fails: that is caught like a failed email.
MarkSent(r) ==
    LET ids == run[r].ids IN
    /\ run[r].op = "markSent"
    /\ \/ /\ alerts' = [n \in DOMAIN alerts |-> [alerts[n] EXCEPT !.sent = @ \/ n \in ids]]
          /\ RunEnds(r)
       \/ /\ SetRun(r, [op |-> "countAttempt", ids |-> ids])
          /\ UNCHANGED alerts
    /\ UNCHANGED <<itemVars, mailEnv, emailed, restarts>>

\* A failure isn't counted.
CountAttempt_Forgotten(r) ==
    /\ run[r].op = "countAttempt"
    /\ RunEnds(r)
    /\ UNCHANGED <<itemVars, alerts, mailEnv, emailed, restarts>>

CountAttempt(r) ==
    LET ids == run[r].ids IN
    /\ run[r].op = "countAttempt"
    /\ alerts' = [n \in DOMAIN alerts |->
                    IF n \in ids THEN [alerts[n] EXCEPT !.attempts = @ + 1] ELSE alerts[n]]
    /\ RunEnds(r)
    /\ UNCHANGED <<itemVars, mailEnv, emailed, restarts>>

\* The process stops, or the database is away when the attempt would be counted.
CutOff(r) ==
    /\ restarts < MaxRestarts /\ run[r].op # "idle"
    /\ restarts' = restarts + 1
    /\ RunEnds(r)
    /\ UNCHANGED <<itemVars, alerts, mailEnv, emailed>>

-----------------------------------------------------------------------------
RunStep(r) == BeginRun(r) \/ SendEmail(r) \/ MarkSent(r) \/ CountAttempt(r)

AlertNext ==
    \/ \E i \in StockItem : UpdateItem(i)
    \/ \E r \in Run : RunStep(r) \/ CutOff(r)

AlertSpec == AlertInit /\ [][AlertNext]_alertVars

-----------------------------------------------------------------------------
\* lowStockSweep: what the hourly log and the admin screens call low.
LowItems == {i \in StockItem : inUse[i] /\ level[i] <= minimum[i]}

\* One alert per item until it is restocked, and none missing: whatever sales,
\* corrections and edits did, a low item has exactly one open alert, and no
\* item ever has two.
LowItemsHaveOneAlert ==
    \A i \in StockItem :
       /\ Cardinality(OpenAlerts(i)) <= 1
       /\ i \in LowItems => OpenAlerts(i) # {}

\* An alert is in more than one email only for a reason: a failure that was
\* counted, a run that was cut off, or runs that overlapped; and it is tried
\* MAX_ATTEMPTS times, overlapping runs adding one each at most.
RepeatsAreExplained ==
    \A n \in DOMAIN alerts :
       /\ emailed[n] <= alerts[n].attempts + restarts + Cardinality(Run)
       /\ alerts[n].attempts < MAX_ATTEMPTS + Cardinality(Run)

\* Both, of every low item and every alert there is.
AlertsAreExplained == LowItemsHaveOneAlert /\ RepeatsAreExplained

Settled(n) == n \in DOMAIN alerts /\ (alerts[n].sent \/ alerts[n].attempts >= MAX_ATTEMPTS)

\* Every alert is emailed or tried MAX_ATTEMPTS times in the end, however many
\* newer ones come and however the mail server fails, if email is set up.
AlertsAreSettled ==
    \A n \in 1 .. MaxAlerts : (MailerSetUp /\ n \in DOMAIN alerts) ~> Settled(n)
=============================================================================
