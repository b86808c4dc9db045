------------------------------- MODULE Backups -------------------------------
(***************************************************************************)
(* Database backups and the check that one can be restored                 *)
(* (apps/worker/src/index.ts, jobs/backupDatabase.ts, jobs/restoreCheck.ts,*)
(* lib/storage.ts).  A backup passes through two files before it is in the *)
(* bucket; each step may fail, and the worker may be redeployed at any     *)
(* time.                                                                   *)
(***************************************************************************)
EXTENDS Integers

CONSTANTS
    MaxBackups,     \* bounds the backups
    Setups,         \* [local : BOOLEAN, cloud : BOOLEAN]: where the worker may run
    BackupDay,      \* a day, in the model's hours
    LastHour,       \* bounds the clock
    MaxRedeploys

ASSUME BackupAssumption ==
    /\ MaxBackups \in Nat /\ BackupDay \in Nat \ {0} /\ LastHour \in Nat /\ MaxRedeploys \in Nat
    /\ Setups \subseteq [local : BOOLEAN, cloud : BOOLEAN]

VARIABLES
    setup,
    hour,
    backupRunning,  \* the flag of index.ts
    backup,         \* the run in progress
    files,          \* what is on disk and in the bucket of every backup
    begun,          \* backups begun
    catchUp,        \* is the check 30 seconds after the start still to come?
    target,         \* the database restoreCheck restores into: the backups in it
    check,          \* the restore check in progress
    redeploys

backupVars == <<setup, hour, backupRunning, backup, files, begun, catchUp, target, check, redeploys>>

\* A file is absent, written in part, or whole.
File     == {"absent", "partial", "whole"}
BackupId == 1 .. MaxBackups
Files    == [sql : File, gz : File, cloud : File, storedAt : Nat]
NoFiles  == [sql |-> "absent", gz |-> "absent", cloud |-> "absent", storedAt |-> 0]
Idle     == [step |-> "idle"]
Running(n, step) == [step |-> step, n |-> n]

\* Files, runs and the clock hold values of their types, and the flag says
\* whether a backup runs.
BackupTypeOK ==
    /\ setup \in Setups /\ hour \in 0 .. LastHour
    /\ backupRunning \in BOOLEAN /\ catchUp \in BOOLEAN
    /\ backup \in {Idle} \cup [step : {"dump", "compress", "dropSql", "failed", "upload", "dropGz", "end"}, n : BackupId]
    /\ check \in {Idle} \cup [step : {"count", "restore"}, n : BackupId]
    /\ files \in [BackupId -> Files] /\ begun \in 0 .. MaxBackups
    /\ backupRunning <=> backup # Idle
    /\ target \subseteq BackupId /\ redeploys \in 0 .. MaxRedeploys

\* Deployed with storage, the worker first looks at the bucket.
ChecksBucket == ~setup.local /\ setup.cloud
BackupsScheduled == setup.local \/ setup.cloud

BackupInit ==
    /\ setup \in Setups /\ hour = 0
    /\ backupRunning = FALSE /\ backup = Idle
    /\ files = [n \in BackupId |-> NoFiles] /\ begun = 0
    /\ catchUp = ChecksBucket
    /\ target = {} /\ check = Idle /\ redeploys = 0

-----------------------------------------------------------------------------
\* runBackup: skipped while one is running.
RunBackup ==
    /\ ~backupRunning /\ begun < MaxBackups
    /\ backupRunning' = TRUE
    /\ begun' = begun + 1
    /\ backup' = Running(begun + 1, "dump")

\* At 2:00, wherever backups are scheduled.
NightlyBackup ==
    /\ BackupsScheduled /\ hour % BackupDay = 0
    /\ RunBackup
    /\ UNCHANGED <<setup, hour, files, catchUp, target, check, redeploys>>

InCloud == {n \in BackupId : files[n].cloud # "absent"}

\* listBackups: the newest first.
Newest(S) == CHOOSE n \in S : \A k \in S : files[k].storedAt < files[n].storedAt \/ (files[k].storedAt = files[n].storedAt /\ k <= n)

RecentBackup == InCloud # {} /\ hour - files[Newest(InCloud)].storedAt < BackupDay

\* 30 seconds after the start: no waiting until 2:00 when the newest is over a
\* day old.  A bucket that can't be read is reported and left.
CatchUpCheck ==
    /\ catchUp /\ catchUp' = FALSE
    /\ \/ /\ ~RecentBackup /\ RunBackup
       \/ /\ RecentBackup \/ backupRunning \/ begun = MaxBackups
          /\ UNCHANGED <<backupRunning, backup, begun>>
       \/ UNCHANGED <<backupRunning, backup, begun>>
    /\ UNCHANGED <<setup, hour, files, target, check, redeploys>>

Set(n, field, what) == files' = [files EXCEPT ![n] = [@ EXCEPT ![field] = what]]
GoTo(step) == backup' = [backup EXCEPT !.step = step]

\* pg_dump, stopped after five minutes.
DumpEnds ==
    /\ backup.step = "dump"
    /\ \/ Set(backup.n, "sql", "whole") /\ GoTo("compress")
       \/ \E what \in {"absent", "partial"} : Set(backup.n, "sql", what) /\ GoTo("failed")
    /\ UNCHANGED <<setup, hour, backupRunning, begun, catchUp, target, check, redeploys>>

CompressEnds ==
    /\ backup.step = "compress"
    /\ \/ Set(backup.n, "gz", "whole") /\ GoTo("dropSql")
       \/ \E what \in {"absent", "partial"} : Set(backup.n, "gz", what) /\ GoTo("failed")
    /\ UNCHANGED <<setup, hour, backupRunning, begun, catchUp, target, check, redeploys>>

\* A failed dump or compression goes on to the upload.
DropSql_GoesOn ==
    /\ backup.step \in {"dropSql", "failed"}
    /\ Set(backup.n, "sql", "absent")
    /\ GoTo(IF setup.cloud THEN "upload" ELSE "end")
    /\ UNCHANGED <<setup, hour, backupRunning, begun, catchUp, target, check, redeploys>>

\* finally: the plain dump is removed either way, and a failure ends the run.
DropSql ==
    /\ backup.step \in {"dropSql", "failed"}
    /\ Set(backup.n, "sql", "absent")
    /\ GoTo(IF backup.step = "failed" \/ ~setup.cloud THEN "end" ELSE "upload")
    /\ UNCHANGED <<setup, hour, backupRunning, begun, catchUp, target, check, redeploys>>

\* One PutObject: stored as a whole, or not; an upload whose answer is lost is
\* stored and taken for a failure, and the local file stays.
UploadEnds ==
    /\ backup.step = "upload"
    /\ \/ /\ files' = [files EXCEPT ![backup.n] = [@ EXCEPT !.cloud = files[backup.n].gz, !.storedAt = hour]]
          /\ \/ GoTo(IF setup.local THEN "end" ELSE "dropGz")
             \/ GoTo("end")
       \/ UNCHANGED files /\ GoTo("end")
    /\ UNCHANGED <<setup, hour, backupRunning, begun, catchUp, target, check, redeploys>>

\* removeAfterUpload, when deployed.
DropGz ==
    /\ backup.step = "dropGz"
    /\ Set(backup.n, "gz", "absent")
    /\ GoTo("end")
    /\ UNCHANGED <<setup, hour, backupRunning, begun, catchUp, target, check, redeploys>>

\* A run that failed leaves the flag set.
BackupEnds_OnSuccess ==
    /\ backup.step = "end"
    /\ backup' = Idle
    /\ backupRunning' = (files[backup.n].gz # "whole" /\ files[backup.n].cloud = "absent")
    /\ UNCHANGED <<setup, hour, files, begun, catchUp, target, check, redeploys>>

\* finally: the flag is cleared however the backup went.
BackupEnds ==
    /\ backup.step = "end"
    /\ backup' = Idle /\ backupRunning' = FALSE
    /\ UNCHANGED <<setup, hour, files, begun, catchUp, target, check, redeploys>>

\* The process is replaced; a container's disk goes with it.
Redeploy ==
    /\ redeploys < MaxRedeploys
    /\ redeploys' = redeploys + 1
    /\ backup' = Idle /\ backupRunning' = FALSE /\ catchUp' = ChecksBucket
    /\ files' = IF setup.local THEN files
                ELSE [n \in BackupId |-> [files[n] EXCEPT !.sql = "absent", !.gz = "absent"]]
    /\ UNCHANGED <<setup, hour, begun, target, check>>

HourPasses ==
    /\ hour < LastHour /\ hour' = hour + 1
    /\ UNCHANGED <<setup, backupRunning, backup, files, begun, catchUp, target, check, redeploys>>

-----------------------------------------------------------------------------
(* restoreCheck: the newest in the bucket, a key given, or a local file.     *)

TakeBackup(n) ==
    /\ check.step = "idle" /\ (n \in InCloud \/ files[n].gz # "absent")
    /\ check' = Running(n, "count")
    /\ UNCHANGED <<setup, hour, backupRunning, backup, files, begun, catchUp, target, redeploys>>

\* Only an empty database is restored into.
CountTables ==
    /\ check.step = "count"
    /\ check' = IF target = {} THEN [check EXCEPT !.step = "restore"] ELSE Idle
    /\ UNCHANGED <<setup, hour, backupRunning, backup, files, begun, catchUp, target, redeploys>>

\* gunzip refuses a file written in part; psql stops at its first error, and what
\* it did until then stays.
RestoreEnds ==
    /\ check.step = "restore"
    /\ \/ /\ files[check.n].cloud = "whole" \/ files[check.n].gz = "whole"
          /\ target' = target \cup {check.n}
       \/ UNCHANGED target
    /\ check' = Idle
    /\ UNCHANGED <<setup, hour, backupRunning, backup, files, begun, catchUp, redeploys>>

\* Someone empties it for the next check.
EmptyTarget ==
    /\ target # {} /\ check = Idle
    /\ target' = {}
    /\ UNCHANGED <<setup, hour, backupRunning, backup, files, begun, catchUp, check, redeploys>>

-----------------------------------------------------------------------------
BackupStep == DumpEnds \/ CompressEnds \/ DropSql \/ UploadEnds \/ DropGz \/ BackupEnds

BackupNext ==
    \/ NightlyBackup \/ CatchUpCheck \/ BackupStep \/ Redeploy \/ HourPasses
    \/ \E n \in BackupId : TakeBackup(n)
    \/ CountTables \/ RestoreEnds \/ EmptyTarget

BackupSpec == BackupInit /\ [][BackupNext]_backupVars

-----------------------------------------------------------------------------
\* What is in the bucket can be restored: never a backup cut short by a failed
\* dump, a failed compression or a full disk.  And a backup that was written
\* stays on disk until it is in the bucket, failing uploads included; only a
\* redeploy of a container takes it.
WholeBackupsAreKept ==
    /\ [](\A n \in BackupId : files[n].cloud \in {"absent", "whole"})
    /\ [][\A n \in BackupId :
            files[n].gz = "whole" /\ files'[n].gz # "whole" =>
               files[n].cloud = "whole" \/ redeploys' # redeploys]_backupVars
=============================================================================
