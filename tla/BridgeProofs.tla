----------------------------- MODULE BridgeProofs -----------------------------
(***************************************************************************)
(* Proofs about the bridge's boot and its watchdog, for any number of      *)
(* migrations and any threshold.  The flags are apart: they are Zenon's,   *)
(* the rest is arithmetic.                                                 *)
(***************************************************************************)
EXTENDS Bridge, TLAPS

Flags == db \in BOOLEAN /\ pg \in BOOLEAN

\* TypeOK without the flags; and the watchdog's file says how many probes in a
\* row had no answer, FailThreshold of them once it stops the bridge.
Counted ==
    /\ life \in Booting \cup {"none", "serving", "stopping", "hung"}
    /\ next \in 1..(Migrations + 1)
    /\ applied \in SUBSET (1..Migrations)
    /\ recorded \in SUBSET (1..Migrations)
    /\ fails \in 0..FailThreshold
    /\ dog \in {"idle", "stop", "grace"}
    /\ fails = unheard
    /\ dog = "idle" => fails < FailThreshold
    /\ dog # "idle" => fails = FailThreshold
    /\ faults \in 0..MaxFaults
    /\ life \in {"execute", "record"} => next <= Migrations

\* Of the migrations below the one the boot looks at every one is recorded; the
\* one it is about to record has been executed.
Progress ==
    /\ recorded \subseteq applied
    /\ \A i \in applied : 1..(i - 1) \subseteq recorded
    /\ life = "boot" => next = 1
    /\ life \in {"check", "execute", "record"} => 1..(next - 1) \subseteq recorded
    /\ life = "record" => next \in applied

Complete == life \in {"dial", "serving"} /\ db => recorded = 1..Migrations

LEMMA FlagsStep == Flags /\ [Next]_vars => Flags'
  <1> SUFFICES ASSUME Flags, [Next]_vars PROVE Flags'
    OBVIOUS
  <1> USE DEF Flags
  <1>1. CASE ConnectDB
    BY <1>1 DEF ConnectDB, schema, watchdog
  <1>2. CASE BootFails
    BY <1>2 DEF BootFails, schema, watchdog
  <1>3. CASE ExecuteLost
    BY <1>3 DEF ExecuteLost, schema, watchdog
  <1>4. CASE Check
    BY <1>4 DEF Check, schema, watchdog
  <1>5. CASE Execute
    BY <1>5 DEF Execute, schema, watchdog
  <1>6. CASE Record
    BY <1>6 DEF Record, schema, watchdog
  <1>7. CASE Serve
    BY <1>7 DEF Serve, schema, watchdog
  <1>8. CASE Stopped
    BY <1>8 DEF Stopped, schema, watchdog
  <1>9. CASE Probe
    BY <1>9 DEF Probe, Fault, CountAnswer, CountSilence, Least, process, schema
  <1>10. CASE Terminate
    BY <1>10 DEF Terminate, schema
  <1>11. CASE Respawn
    BY <1>11 DEF Respawn, schema
  <1>12. CASE Crash
    BY <1>12 DEF Crash, Fault, schema, watchdog
  <1>13. CASE Hang
    BY <1>13 DEF Hang, Fault, schema, watchdog
  <1>14. CASE PgDown
    BY <1>14 DEF PgDown, Fault, process, schema, watchdog
  <1>15. CASE PgUp
    BY <1>15 DEF PgUp, process, schema, watchdog
  <1>16. CASE UNCHANGED vars
    BY <1>16 DEF vars
  <1> QED
    BY <1>1, <1>2, <1>3, <1>4, <1>5, <1>6, <1>7, <1>8,
       <1>9, <1>10, <1>11, <1>12, <1>13, <1>14, <1>15, <1>16
    DEF Next, Boot, Migrate, Watchdog

LEMMA CountedStep ==
    ASSUME Migrations \in Nat, FailThreshold \in Nat \ {0}, MaxFaults \in Nat,
           Counted, [Next]_vars
    PROVE  Counted'
  <1> USE DEF Counted, Booting
  <1>1. CASE ConnectDB
    BY <1>1 DEF ConnectDB, schema, watchdog
  <1>2. CASE BootFails
    BY <1>2 DEF BootFails, schema, watchdog
  <1>3. CASE ExecuteLost
    BY <1>3 DEF ExecuteLost, schema, watchdog
  <1>4. CASE Check
    BY <1>4 DEF Check, schema, watchdog
  <1>5. CASE Execute
    BY <1>5 DEF Execute, schema, watchdog
  <1>6. CASE Record
    BY <1>6 DEF Record, schema, watchdog
  <1>7. CASE Serve
    BY <1>7 DEF Serve, schema, watchdog
  <1>8. CASE Stopped
    BY <1>8 DEF Stopped, schema, watchdog
  <1>9. CASE Probe
    BY <1>9 DEF Probe, Fault, CountAnswer, CountSilence, Least, process, schema
  <1>10. CASE Terminate
    BY <1>10 DEF Terminate, schema
  <1>11. CASE Respawn
    BY <1>11 DEF Respawn, schema
  <1>12. CASE Crash
    BY <1>12 DEF Crash, Fault, schema, watchdog
  <1>13. CASE Hang
    BY <1>13 DEF Hang, Fault, schema, watchdog
  <1>14. CASE PgDown
    BY <1>14 DEF PgDown, Fault, process, schema, watchdog
  <1>15. CASE PgUp
    BY <1>15 DEF PgUp, process, schema, watchdog
  <1>16. CASE UNCHANGED vars
    BY <1>16 DEF vars
  <1> QED
    BY <1>1, <1>2, <1>3, <1>4, <1>5, <1>6, <1>7, <1>8,
       <1>9, <1>10, <1>11, <1>12, <1>13, <1>14, <1>15, <1>16
    DEF Next, Boot, Migrate, Watchdog

LEMMA ProgressStep ==
    ASSUME Migrations \in Nat, Counted, Progress, [Next]_vars
    PROVE  Progress'
<1> USE DEF Counted, Progress, Booting
<1>1. CASE ConnectDB
  BY <1>1 DEF ConnectDB, schema, watchdog
<1>2. CASE BootFails
  BY <1>2 DEF BootFails, schema, watchdog
<1>3. CASE ExecuteLost
  BY <1>3 DEF ExecuteLost, schema, watchdog
<1>4. CASE Check
  BY <1>4 DEF Check, schema, watchdog, Skip
<1>5. CASE Execute
  BY <1>5 DEF Execute, schema, watchdog
<1>6. CASE Record
  BY <1>6 DEF Record, schema, watchdog
<1>7. CASE Serve
  BY <1>7 DEF Serve, schema, watchdog
<1>8. CASE Stopped
  BY <1>8 DEF Stopped, schema, watchdog
<1>9. CASE Probe
  BY <1>9 DEF Probe, process, schema
<1>10. CASE Terminate
  BY <1>10 DEF Terminate, schema
<1>11. CASE Respawn
  BY <1>11 DEF Respawn, schema
<1>12. CASE Crash
  BY <1>12 DEF Crash, schema, watchdog
<1>13. CASE Hang
  BY <1>13 DEF Hang, schema, watchdog
<1>14. CASE PgDown
  BY <1>14 DEF PgDown, process, schema, watchdog
<1>15. CASE PgUp
  BY <1>15 DEF PgUp, process, schema, watchdog
<1>16. CASE UNCHANGED vars
  BY <1>16 DEF vars
<1> QED
  BY <1>1, <1>2, <1>3, <1>4, <1>5, <1>6, <1>7, <1>8,
     <1>9, <1>10, <1>11, <1>12, <1>13, <1>14, <1>15, <1>16
  DEF Next, Boot, Migrate, Watchdog

LEMMA CompleteStep ==
    ASSUME Migrations \in Nat, Counted, Progress, Complete, [Next]_vars
    PROVE  Complete'
<1> USE DEF Counted, Progress, Complete, Booting
<1>1. CASE ConnectDB
  BY <1>1 DEF ConnectDB, schema, watchdog
<1>2. CASE BootFails
  BY <1>2 DEF BootFails, schema, watchdog
<1>3. CASE ExecuteLost
  BY <1>3 DEF ExecuteLost, schema, watchdog
<1>4. CASE Check
  <2>1. CASE next > Migrations
    <3>1. next - 1 = Migrations
      BY <2>1
    <3>2. recorded = 1..Migrations /\ recorded' = recorded
      BY <1>4, <3>1 DEF Check, schema
    <3> QED
      BY <3>2
  <2>2. CASE ~(next > Migrations)
    BY <1>4, <2>2 DEF Check, Skip
  <2> QED
    BY <2>1, <2>2
<1>5. CASE Execute
  BY <1>5 DEF Execute, schema, watchdog
<1>6. CASE Record
  BY <1>6 DEF Record, schema, watchdog
<1>7. CASE Serve
  BY <1>7 DEF Serve, schema, watchdog
<1>8. CASE Stopped
  BY <1>8 DEF Stopped, schema, watchdog
<1>9. CASE Probe
  BY <1>9 DEF Probe, process, schema
<1>10. CASE Terminate
  BY <1>10 DEF Terminate, schema
<1>11. CASE Respawn
  BY <1>11 DEF Respawn, schema
<1>12. CASE Crash
  BY <1>12 DEF Crash, schema, watchdog
<1>13. CASE Hang
  BY <1>13 DEF Hang, schema, watchdog
<1>14. CASE PgDown
  BY <1>14 DEF PgDown, process, schema, watchdog
<1>15. CASE PgUp
  BY <1>15 DEF PgUp, process, schema, watchdog
<1>16. CASE UNCHANGED vars
  BY <1>16 DEF vars
<1> QED
  BY <1>1, <1>2, <1>3, <1>4, <1>5, <1>6, <1>7, <1>8,
     <1>9, <1>10, <1>11, <1>12, <1>13, <1>14, <1>15, <1>16
  DEF Next, Boot, Migrate, Watchdog

-----------------------------------------------------------------------------

\* The type invariant of the process, the schema and the watchdog.
THEOREM TypeCorrect ==
    ASSUME Migrations \in Nat, FailThreshold \in Nat \ {0}, MaxFaults \in Nat
    PROVE  Spec => []TypeOK
<1>1. Init => Flags /\ Counted
  <2>1. Init => Flags
    BY Zenon DEF Init, Flags
  <2>2. Init => Counted
    BY DEF Init, Counted, Booting
  <2> QED
    BY <2>1, <2>2
<1>2. Flags /\ [Next]_vars => Flags'
  BY FlagsStep
<1>3. Counted /\ [Next]_vars => Counted'
  BY CountedStep
<1>4. Flags /\ Counted => TypeOK
  BY DEF Flags, Counted, TypeOK
<1> QED
  BY <1>1, <1>2, <1>3, <1>4, PTL DEF Spec

\* Wherever earlier boots were killed, a recorded migration has been executed,
\* after all those before it, and a bridge with a database serves with the whole
\* schema (db.go:45-93).
THEOREM SchemaIsReady ==
    ASSUME Migrations \in Nat, FailThreshold \in Nat \ {0}, MaxFaults \in Nat
    PROVE  Spec => []SchemaReady
<1>1. Init => Counted /\ Progress /\ Complete
  BY DEF Init, Counted, Progress, Complete, Booting
<1>2. Counted /\ [Next]_vars => Counted'
  BY CountedStep
<1>3. Counted /\ Progress /\ [Next]_vars => Progress'
  BY ProgressStep
<1>4. Counted /\ Progress /\ Complete /\ [Next]_vars => Complete'
  BY CompleteStep
<1>5. Progress /\ Complete => SchemaReady
  BY DEF Progress, Complete, SchemaReady
<1> QED
  BY <1>1, <1>2, <1>3, <1>4, <1>5, PTL DEF Spec

\* The watchdog stops a bridge only after FailThreshold probes in a row without
\* any answer (bridge-watchdog.sh:6-16, 58-74).
THEOREM StopsForCause ==
    ASSUME Migrations \in Nat, FailThreshold \in Nat \ {0}, MaxFaults \in Nat
    PROVE  Spec => []RestartsForCause
<1>1. Init => Counted
  BY DEF Init, Counted, Booting
<1>2. Counted /\ [Next]_vars => Counted'
  BY CountedStep
<1>3. Counted => RestartsForCause
  BY DEF Counted, RestartsForCause
<1> QED
  BY <1>1, <1>2, <1>3, PTL DEF Spec
=============================================================================
