-------------------------------- MODULE Digging --------------------------------
(***************************************************************************)
(* The streaks of GET /api/digging/streaks (api/digging.go:176-240,        *)
(* 302-369): as days pass and tracks come in with any earlier date, the    *)
(* current and the longest run of days with additions, and the best week.  *)
(* A date is the number of its day; the database's dates may be one day    *)
(* ahead of the bridge's, which are in UTC.  StreaksRight says what comes  *)
(* out, which is not all that the comments in digging.go promise.          *)
(***************************************************************************)
EXTENDS Integers, FiniteSets, Functions, FiniteSetsExt

CONSTANTS
    MaxDay,       \* bound on the calendar
    MaxPerDay     \* bound on the tracks of a day

VARIABLES
    today,        \* the bridge's date
    added         \* added[d]: the tracks whose added_at is in day d

vars == <<today, added>>

Days == 1..(MaxDay + 1)

Init == today = 1 /\ added = [d \in Days |-> 0]

Midnight == today < MaxDay /\ today' = today + 1 /\ UNCHANGED added

\* The importer takes added_at from the sidecar: a new track may be of any day.
AddTrack(d) ==
    /\ d <= today + 1 /\ added[d] < MaxPerDay
    /\ added' = [added EXCEPT ![d] = @ + 1]
    /\ UNCHANGED today

Next == Midnight \/ \E d \in Days : AddTrack(d)

Spec == Init /\ [][Next]_vars

-----------------------------------------------------------------------------

\* SELECT DISTINCT DATE(added_at), in order: an index is a date here.
Dates == {d \in Days : added[d] > 0}

Before(d) == {e \in Dates : e < d}
After(d) == {e \in Dates : e > d}

\* Variant: a slack of a whole day.
ConsecutiveLoosely(d, e) == e - d <= 2

\* A difference of at most 1.08 days, between whole dates.
Consecutive(d, e) == e - d <= 1

\* "current" of the first loop when it has come to date d.
RunTo[d \in Dates] ==
    IF Before(d) # {} /\ Consecutive(Max(Before(d)), d) THEN RunTo[Max(Before(d))] + 1 ELSE 1

Longest == Max({RunTo[d] : d \in Dates} \cup {0})

\* The second loop goes back from the last date until one is more than a day
\* older than its place in the run.
InRun(d) ==
    LET behind == IF d > today THEN 0 ELSE today - d
    IN  behind - Cardinality(After(d)) <= 1

CurrentRun == {d \in Dates : InRun(d) /\ \A e \in After(d) : InRun(e)}

Current == Cardinality(CurrentRun)

\* The inner loop stops at a date more than 7 * 24 hours after the first.
WeekFrom(d) == SumFunctionOnSet(added, {e \in Days : e >= d /\ e - d <= 7})

BestWeek == Max({WeekFrom(d) : d \in Dates} \cup {0})

-----------------------------------------------------------------------------
(* What the three numbers are, of the calendar *)

Runs == {r \in Days \X Days : r[1] <= r[2] /\ \A d \in r[1]..r[2] : added[d] > 0}

Length(r) == r[2] - r[1] + 1

\* The days without additions from k days ago to tomorrow, as the database may
\* have it already.
Idle(k) == {d \in (today - k)..(today + 1) : d \notin Dates}

Reach == {n \in 0..(MaxDay + 1) : \A k \in 1..n : Cardinality(Idle(k)) <= 2}

EightDays(d) == SumFunctionOnSet(added, {e \in Days : e \in d..(d + 7)})

\* Longest is the length of the longest run of days with additions.  Current is
\* how far back one can go with no more than two days up to tomorrow without
\* any: since tomorrow is one of them as a rule, it forgives one missing day,
\* which may be today, and two when a date is ahead, though digging.go:31 says
\* "consecutive days ending today".  BestWeek is the most there is in eight days
\* in a row, though digging.go:33 and 349 say seven (digging.go:302-369).
StreaksRight ==
    /\ Longest = Max({Length(r) : r \in Runs} \cup {0})
    /\ Current = Max(Reach)
    /\ BestWeek = Max({EightDays(d) : d \in Days})
=============================================================================
