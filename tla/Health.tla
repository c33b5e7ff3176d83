-------------------------------- MODULE Health --------------------------------
(***************************************************************************)
(* What GET /health says of the bridge (main.go:158-193, 499-673,          *)
(* mpd/pool.go:284-320) while the things it looks at change: the handle    *)
(* to PostgreSQL that the boot obtained or did not, the disk importer,     *)
(* the nightly backup, and the MPD stages.  Ages are kept as the side of   *)
(* the window they are on: 6 minutes since the last import, 30 hours since *)
(* the last row of a backup, 9 minutes since a stage's last event.         *)
(* DATABASE_URL and MUSIC_BASE_PATH are set, as the watchdog sets them.    *)
(***************************************************************************)
EXTENDS Naturals, FiniteSets

CONSTANTS
    Stages,       \* the visible stages
    MaxFaults     \* bound on restarts and on what stops for good

VARIABLES
    db,           \* main's database is not nil
    pg,           \* PostgreSQL answers
    imported,     \* the age of the importer's last success
    stuck,        \* the importer succeeds no more
    lastOK,       \* the age of the last backup row with status ok
    lastFailed,   \* the same of the rows with status failed
    failedLast,   \* the last failed row is newer than the last ok row
    cron,         \* the nightly backup is run
    alive,        \* the stages with a main client marked alive
    heard,        \* the stages with an event within eventFreshnessWindow
    lost,         \* the stages whose MPD is gone
    faults

jobs == <<imported, stuck, lastOK, lastFailed, failedLast, cron>>
stages == <<alive, heard, lost>>
vars == <<db, pg, jobs, stages, faults>>

Ages == {"never", "fresh", "old"}

Init ==
    /\ pg \in BOOLEAN /\ db = pg
    /\ imported = "never" /\ stuck = FALSE
    /\ lastOK = "never" /\ lastFailed = "never" /\ failedLast = FALSE
    /\ cron = TRUE
    /\ alive = Stages /\ heard = {} /\ lost = {}
    /\ faults = 0

-----------------------------------------------------------------------------
(* The checks *)

Postgres == IF ~db THEN "not_configured" ELSE IF pg THEN "ok" ELSE "down"

\* Variant: an importer that has succeeded once is fine.
DiskSyncEver ==
    CASE ~db                -> "not_configured"
      [] imported = "never" -> "never_ran"
      [] OTHER              -> "ok"

\* The importer exists only beside a database.
DiskSyncStatus ==
    CASE ~db                -> "not_configured"
      [] imported = "never" -> "never_ran"
      [] imported = "old"   -> "stale"
      [] OTHER              -> "ok"

BackupStatusFrom ==
    CASE lastOK = "never" /\ lastFailed = "never" -> "never_ran"
      [] lastOK = "fresh"                         -> "ok"
      [] lastFailed = "fresh" /\ failedLast       -> "failing"
      [] OTHER                                    -> "stale"

BackupStatus ==
    IF ~db THEN "not_configured" ELSE IF ~pg THEN "probe_error" ELSE BackupStatusFrom

HasRecentActivity(s) == s \in alive \/ s \in heard

MPDStatus ==
    LET active == {s \in Stages : HasRecentActivity(s)}
    IN  IF active = Stages THEN "ok" ELSE IF active # {} THEN "partial" ELSE "down"

Checks == {Postgres, DiskSyncStatus, BackupStatus, MPDStatus}

Fine == {"ok", "not_configured"}

Overall ==
    IF "down" \in {Postgres, MPDStatus} THEN "down"
    ELSE IF Checks \subseteq Fine THEN "ok" ELSE "degraded"

-----------------------------------------------------------------------------
(* What they look at *)

Fault == faults < MaxFaults /\ faults' = faults + 1

\* The process is replaced: what it kept in memory starts anew.
Restart ==
    /\ Fault
    /\ db' = pg
    /\ imported' = "never" /\ stuck' = FALSE
    /\ alive' = Stages \ lost /\ heard' = {}
    /\ UNCHANGED <<pg, lastOK, lastFailed, failedLast, cron, lost>>

Postmaster == pg' = ~pg /\ UNCHANGED <<db, jobs, stages, faults>>

\* A SyncOnce that ends without an error, or that finds its generation imported
\* already and asks PostgreSQL nothing.
Import ==
    /\ db /\ ~stuck
    /\ imported' = "fresh"
    /\ UNCHANGED <<db, pg, stuck, lastOK, lastFailed, failedLast, cron, stages, faults>>

ImportAges ==
    /\ imported = "fresh"
    /\ imported' = "old"
    /\ UNCHANGED <<db, pg, stuck, lastOK, lastFailed, failedLast, cron, stages, faults>>

Stick ==
    /\ Fault /\ db /\ ~stuck
    /\ stuck' = TRUE
    /\ UNCHANGED <<db, pg, imported, lastOK, lastFailed, failedLast, cron, stages>>

\* pg-backup.sh writes a row, if PostgreSQL takes it.
Backup(ok) ==
    /\ cron /\ pg
    /\ failedLast' = ~ok
    /\ IF ok THEN lastOK' = "fresh" /\ UNCHANGED lastFailed
             ELSE lastFailed' = "fresh" /\ UNCHANGED lastOK
    /\ UNCHANGED <<db, pg, imported, stuck, cron, stages, faults>>

\* 30 hours after the row, the older one first.
BackupAges ==
    /\ \/ /\ lastOK = "fresh" /\ (failedLast \/ lastFailed # "fresh")
          /\ lastOK' = "old" /\ UNCHANGED lastFailed
       \/ /\ lastFailed = "fresh" /\ (~failedLast \/ lastOK # "fresh")
          /\ lastFailed' = "old" /\ UNCHANGED lastOK
    /\ UNCHANGED <<db, pg, imported, stuck, failedLast, cron, stages, faults>>

CronStops ==
    /\ Fault /\ cron
    /\ cron' = FALSE
    /\ UNCHANGED <<db, pg, imported, stuck, lastOK, lastFailed, failedLast, stages>>

\* A command fails and the client is marked dead; the watcher may go on.
MarkDead(s) ==
    /\ s \in alive
    /\ alive' = alive \ {s}
    /\ UNCHANGED <<db, pg, jobs, heard, lost, faults>>

Reconnect(s) ==
    /\ s \notin alive \cup lost
    /\ alive' = alive \cup {s}
    /\ UNCHANGED <<db, pg, jobs, heard, lost, faults>>

Event(s) ==
    /\ s \notin heard \cup lost
    /\ heard' = heard \cup {s}
    /\ UNCHANGED <<db, pg, jobs, alive, lost, faults>>

EventAges(s) ==
    /\ s \in heard
    /\ heard' = heard \ {s}
    /\ UNCHANGED <<db, pg, jobs, alive, lost, faults>>

Lose(s) ==
    /\ Fault /\ s \notin lost
    /\ lost' = lost \cup {s}
    /\ UNCHANGED <<db, pg, jobs, alive, heard>>

Next ==
    \/ Restart \/ Postmaster
    \/ Import \/ ImportAges \/ Stick
    \/ (\E ok \in BOOLEAN : Backup(ok)) \/ BackupAges \/ CronStops
    \/ \E s \in Stages : MarkDead(s) \/ Reconnect(s) \/ Event(s) \/ EventAges(s) \/ Lose(s)

Spec == Init /\ [][Next]_vars

-----------------------------------------------------------------------------
(* Properties *)

\* Something is broken for good, and the bridge has the means to see it.
Broken == lost # {} \/ (db /\ (stuck \/ ~cron))

\* What stopped for good shows: no stage, importer or backup can stay broken
\* behind fresh traces of its past (main.go:603-612, 575-597, pool.go:284-303).
BrokenShows == Broken ~> Overall # "ok" \/ ~Broken
=============================================================================
