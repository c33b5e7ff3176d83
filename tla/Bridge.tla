-------------------------------- MODULE Bridge --------------------------------
(***************************************************************************)
(* The life of the bridge's process: its boot (main.go, with db.Migrate),  *)
(* its end, and the watchdog that cron runs every minute beside it         *)
(* (scripts/ops/bridge-watchdog.sh).  The schema is in PostgreSQL and the  *)
(* watchdog's counter in a file: both survive the process.                 *)
(***************************************************************************)
EXTENDS Naturals

CONSTANTS
    Migrations,      \* how many migration files the binary embeds
    FailThreshold,   \* unanswered probes before a restart
    MaxFaults        \* bound on crashes, hangs, slow boots, losses of PostgreSQL

VARIABLES
    life,      \* where the process is; "none" when there is none
    db,        \* main's database is not nil
    next,      \* the migration that the boot looks at
    pg,        \* PostgreSQL answers
    applied,   \* the migrations whose SQL has been executed
    recorded,  \* the rows of schema_migrations
    fails,     \* the watchdog's state file
    dog,       \* the watchdog: "idle", about to "stop" the bridge, in its "grace"
    unheard,   \* history: probes in a row that had no answer, up to FailThreshold
    faults

process == <<life, db, next>>
schema == <<applied, recorded>>
watchdog == <<fails, dog, unheard>>
vars == <<life, db, next, pg, applied, recorded, fails, dog, unheard, faults>>

Booting == {"boot", "check", "execute", "record", "dial"}

Init ==
    /\ life = "boot" /\ db = FALSE /\ next = 1
    /\ pg \in BOOLEAN
    /\ applied = {} /\ recorded = {}
    /\ fails = 0 /\ dog = "idle" /\ unheard = 0
    /\ faults = 0

-----------------------------------------------------------------------------
(* The boot *)

\* A failed Connect is a warning: the bridge runs on without a database.
ConnectDB ==
    /\ life = "boot"
    /\ db' = pg
    /\ life' = IF pg THEN "check" ELSE "dial"
    /\ UNCHANGED <<next, pg, schema, watchdog, faults>>

\* A failed migration is fatal: os.Exit(1).
BootFails ==
    /\ life \in {"check", "execute", "record"} /\ ~pg
    /\ life' = "none"
    /\ UNCHANGED <<db, next, pg, schema, watchdog, faults>>

\* The SQL may have been committed although its answer was lost.
ExecuteLost ==
    /\ life = "execute" /\ ~pg
    /\ life' = "none"
    /\ applied' = applied \cup {next}
    /\ UNCHANGED <<db, next, pg, recorded, watchdog, faults>>

\* Variant: the SELECT has no WHERE.
SkipIfAny == recorded # {}

Skip == next \in recorded

Check ==
    /\ life = "check" /\ pg
    /\ IF next > Migrations
       THEN life' = "dial" /\ UNCHANGED next
       ELSE IF Skip THEN next' = next + 1 /\ UNCHANGED life
                    ELSE life' = "execute" /\ UNCHANGED next
    /\ UNCHANGED <<db, pg, schema, watchdog, faults>>

Execute ==
    /\ life = "execute" /\ pg
    /\ life' = "record"
    /\ applied' = applied \cup {next}
    /\ UNCHANGED <<db, next, pg, recorded, watchdog, faults>>

Record ==
    /\ life = "record" /\ pg
    /\ life' = "check"
    /\ recorded' = recorded \cup {next}
    /\ next' = next + 1
    /\ UNCHANGED <<db, pg, applied, watchdog, faults>>

\* ConnectAll, the workers, the routes, ListenAndServe.
Serve ==
    /\ life = "dial"
    /\ life' = "serving"
    /\ UNCHANGED <<db, next, pg, schema, watchdog, faults>>

\* The graceful shutdown ends (PlayLog has its steps).
Stopped ==
    /\ life = "stopping"
    /\ life' = "none"
    /\ UNCHANGED <<db, next, pg, schema, watchdog, faults>>

-----------------------------------------------------------------------------
(* The watchdog *)

\* curl has an HTTP code, whichever: a 503 is an answer too.
Answers == life = "serving"

\* Variant: the counter is not reset.
CountAnswerKeeps == fails' = fails /\ dog' = dog

CountAnswer == fails' = 0 /\ dog' = dog

\* Variant: the code is "000000" and taken for an answer.
CountSilenceHeard == fails' = 0 /\ dog' = dog

\* No code: "000".
CountSilence ==
    /\ fails' = fails + 1
    /\ dog' = IF fails + 1 < FailThreshold THEN dog ELSE "stop"

Fault == faults < MaxFaults /\ faults' = faults + 1

Least(m, n) == IF m < n THEN m ELSE n

\* A boot that a probe meets is a slow one, and counts as a fault.
Probe ==
    /\ dog = "idle"
    /\ IF life \in Booting THEN Fault ELSE UNCHANGED faults
    /\ IF Answers THEN CountAnswer /\ unheard' = 0
                  ELSE CountSilence /\ unheard' = Least(unheard + 1, FailThreshold)
    /\ UNCHANGED <<process, pg, schema>>

\* SIGTERM: during the boot nothing handles it yet, and Go's default ends the
\* process; a process that hangs may not notice.
Terminate ==
    /\ dog = "stop"
    /\ life' \in CASE life \in Booting -> {"none"}
                   [] life = "serving" -> {"stopping"}
                   [] life = "hung"    -> {"hung", "stopping"}
                   [] OTHER            -> {life}
    /\ dog' = "grace"
    /\ UNCHANGED <<db, next, pg, schema, fails, unheard, faults>>

\* After at most five seconds SIGKILL for whatever is left, and a new process.
Respawn ==
    /\ dog = "grace"
    /\ life' = "boot" /\ db' = FALSE /\ next' = 1
    /\ dog' = "idle" /\ fails' = 0 /\ unheard' = 0
    /\ UNCHANGED <<pg, schema, faults>>

-----------------------------------------------------------------------------
(* The environment *)

Crash ==
    /\ Fault /\ life # "none"
    /\ life' = "none"
    /\ UNCHANGED <<db, next, pg, schema, watchdog>>

Hang ==
    /\ Fault /\ life \in Booting \cup {"serving", "stopping"}
    /\ life' = "hung"
    /\ UNCHANGED <<db, next, pg, schema, watchdog>>

PgDown == Fault /\ pg /\ pg' = FALSE /\ UNCHANGED <<process, schema, watchdog>>

PgUp == ~pg /\ pg' = TRUE /\ UNCHANGED <<process, schema, watchdog, faults>>

-----------------------------------------------------------------------------

Migrate == Check \/ Execute \/ Record

Boot == ConnectDB \/ BootFails \/ ExecuteLost \/ Migrate \/ Serve

Watchdog == Probe \/ Terminate \/ Respawn

Next == Boot \/ Stopped \/ Watchdog \/ Crash \/ Hang \/ PgDown \/ PgUp

Spec == Init /\ [][Next]_vars

-----------------------------------------------------------------------------
(* Properties *)

TypeOK ==
    /\ life \in Booting \cup {"none", "serving", "stopping", "hung"}
    /\ db \in BOOLEAN /\ pg \in BOOLEAN
    /\ next \in 1..(Migrations + 1)
    /\ applied \in SUBSET (1..Migrations)
    /\ recorded \in SUBSET (1..Migrations)
    /\ fails \in 0..FailThreshold
    /\ dog \in {"idle", "stop", "grace"}
    /\ unheard \in 0..FailThreshold
    /\ faults \in 0..MaxFaults

\* A migration is recorded only when its SQL has been executed, none before the
\* ones it builds on, and a bridge that serves with a database has the whole
\* schema, wherever earlier boots were killed (db.go:45-93, main.go:53-59).
SchemaReady ==
    /\ recorded \subseteq applied
    /\ \A i \in applied : 1..(i - 1) \subseteq recorded
    /\ life = "serving" /\ db => recorded = 1..Migrations

\* The watchdog stops a bridge only when it gave no answer at all to
\* FailThreshold probes in a row: not while it reports that PostgreSQL is down,
\* nor for failures of an earlier process (bridge-watchdog.sh:6-16).
RestartsForCause == dog # "idle" => unheard >= FailThreshold

\* A bridge that died, hangs, or failed to boot is replaced until one serves
\* (bridge-watchdog.sh:14-18).
BridgeComesBack == []<>(life = "serving")
=============================================================================
