---------------------------- MODULE CircuitBreaker ----------------------------
(***************************************************************************)
(* One circuit breaker and the goroutines that share it: the enrichment    *)
(* worker's batch and the administrator's requests (enrichment/worker.go). *)
(* A caller asks Allow, calls the source if it may, and records what came  *)
(* of it, at any later time and in any order with the others.              *)
(***************************************************************************)
EXTENDS Breaker

CONSTANTS
    Callers,     \* the goroutines
    MaxTime      \* bound on the clock

ASSUME CallersAssumption == MaxTime \in Nat

VARIABLES
    now,         \* the clock
    cb,          \* the breaker
    calling,     \* the callers whose call is under way
    recent,      \* history: recent[i] is when the i-th last failure since the
                 \* last success was recorded
    opened       \* history: when the breaker last tripped

vars == <<now, cb, calling, recent, opened>>

Init ==
    /\ now = 0
    /\ cb = New
    /\ calling = {}
    /\ recent = [i \in 1..Threshold |-> Never]
    /\ opened = Never

\* Allow, and the start of the call (worker.go:135-136, 163-171, 225-229).
Ask(c) ==
    /\ c \notin calling
    /\ cb' = AfterAllow(cb, now)
    /\ calling' = IF Allow(cb, now) THEN calling \cup {c} ELSE calling
    /\ UNCHANGED <<now, recent, opened>>

Succeed(c) ==
    /\ c \in calling
    /\ cb' = RecordSuccess(cb)
    /\ calling' = calling \ {c}
    /\ recent' = [i \in 1..Threshold |-> Never]
    /\ UNCHANGED <<now, opened>>

Fail(c) ==
    /\ c \in calling
    /\ cb' = RecordFailure(cb, now)
    /\ calling' = calling \ {c}
    /\ recent' = [i \in 1..Threshold |-> IF i = 1 THEN now ELSE recent[i - 1]]
    /\ opened' = IF cb'.failures >= Threshold THEN now ELSE opened
    /\ UNCHANGED now

Tick ==
    /\ now < MaxTime
    /\ now' = now + 1
    /\ UNCHANGED <<cb, calling, recent, opened>>

Next == Tick \/ \E c \in Callers : Ask(c) \/ Succeed(c) \/ Fail(c)

Spec == Init /\ [][Next]_vars

-----------------------------------------------------------------------------
(* Properties                                                              *)

\* The types; a breaker's count never goes below zero (circuit.go:47-76).
TypeOK ==
    /\ now \in 0..MaxTime
    /\ cb \in Breakers
    /\ calling \in SUBSET Callers
    /\ recent \in [1..Threshold -> Time \cup {Never}]
    /\ opened \in Time \cup {Never}

\* The last Threshold failures, none of them followed by a success, all within
\* the window.
Burst(r, t) == \A i \in 1..Threshold : r[i] # Never /\ ~Elapsed(r[i], Window, t)

\* The breaker trips, or has its cooldown extended, for nothing less than
\* Threshold failures in a row within the window, whichever calls were still in
\* flight when it was open, closed again or reset (circuit.go:62-75).
TripsForCause ==
    [][cb'.trippedAt # Never /\ cb'.trippedAt # cb.trippedAt => Burst(recent', now)]_vars

\* Once tripped it lets no call start before the cooldown is over; a late
\* success of an earlier call does not close it (circuit.go:35-42, 48-53).
RestsForCooldown ==
    [][calling' \ calling # {} /\ opened # Never => Elapsed(opened, Cooldown, now)]_vars
=============================================================================
