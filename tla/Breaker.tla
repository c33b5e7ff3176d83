------------------------------- MODULE Breaker -------------------------------
(***************************************************************************)
(* The circuit breaker's operations (apps/bridge/enrichment/circuit.go) as *)
(* functions of a breaker's fields and the time.  Each runs under cb.mu.   *)
(***************************************************************************)
EXTENDS Integers

CONSTANTS
    Threshold,   \* NewCircuitBreaker's arguments: failures before it trips,
    Window,      \* how long a failure counts,
    Cooldown,    \* and how long it stays open
    Never        \* the zero time.Time

ASSUME BreakerAssumption ==
    /\ Threshold \in Nat \ {0}
    /\ Window \in Nat
    /\ Cooldown \in Nat
    /\ Never \notin Nat

Time == Nat
Breakers == [failures : Nat, firstFail : Time \cup {Never}, trippedAt : Time \cup {Never}]

New == [failures |-> 0, firstFail |-> Never, trippedAt |-> Never]

Elapsed(from, limit, now) == now > from + limit

\* Open, and still within the cooldown.
IsTripped(cb, now) == cb.trippedAt # Never /\ ~Elapsed(cb.trippedAt, Cooldown, now)

Allow(cb, now) == ~IsTripped(cb, now)

\* What Allow leaves behind: the first call after the cooldown closes it.
AfterAllow(cb, now) ==
    IF cb.trippedAt # Never /\ Elapsed(cb.trippedAt, Cooldown, now)
    THEN [cb EXCEPT !.trippedAt = Never, !.failures = 0]
    ELSE cb

\* Variant: a success closes the breaker.
RecordSuccessCloses(cb) == New

\* Variant: a success takes one failure back.
RecordSuccessDecays(cb) == [cb EXCEPT !.failures = @ - 1, !.firstFail = Never]

RecordSuccess(cb) == [cb EXCEPT !.failures = 0, !.firstFail = Never]

\* Variant: a new window keeps the count of the old one.
RestartKeeps(cb, now) ==
    IF cb.firstFail = Never \/ Elapsed(cb.firstFail, Window, now)
    THEN [cb EXCEPT !.firstFail = now]
    ELSE cb

\* A failure too old to count, with those after it, makes way for a new window.
Restart(cb, now) ==
    IF cb.firstFail # Never /\ Elapsed(cb.firstFail, Window, now)
    THEN [cb EXCEPT !.failures = 0, !.firstFail = now]
    ELSE IF cb.firstFail = Never THEN [cb EXCEPT !.firstFail = now]
    ELSE cb

RecordFailure(cb, now) ==
    LET b == Restart(cb, now) IN
    [b EXCEPT !.failures = @ + 1,
              !.trippedAt = IF b.failures + 1 >= Threshold THEN now ELSE @]
=============================================================================
