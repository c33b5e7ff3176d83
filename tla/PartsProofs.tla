------------------------------ MODULE PartsProofs ------------------------------
(***************************************************************************)
(* Proofs about the small components, for any numbers and bounds: each     *)
(* part of MCParts behaves as its own module says, and so has what that    *)
(* module's specification implies.  The bridge's and the streaks' proofs   *)
(* are in BridgeProofs and DiggingProofs, the others here.                 *)
(***************************************************************************)
EXTENDS MCParts, Sequences, FiniteSetTheorems, TLAPS

BP == INSTANCE BridgeProofs
DP == INSTANCE DiggingProofs

-----------------------------------------------------------------------------
(* The circuit breaker *)

\* Each failure the breaker counts is one of the last, none followed by a
\* success, and no older than the first of the window.
CountsRecent ==
    \A i \in 1..Threshold : i <= cb.failures =>
        cb.firstFail # Never /\ recent[i] # Never /\ recent[i] >= cb.firstFail

\* The breaker remembers its last trip as long as the cooldown lasts.
RemembersTrip ==
    /\ cb.trippedAt # Never => cb.trippedAt = opened
    /\ opened # Never /\ ~Elapsed(opened, Cooldown, now) => cb.trippedAt = opened

\* The window has begun.
WindowPast == cb.firstFail # Never => cb.firstFail <= now

BreakerInv == TypeOK /\ CountsRecent /\ RemembersTrip /\ WindowPast

-----------------------------------------------------------------------------

\* A failure is counted from the start of a window that is not over.
LEMMA RestartInWindow ==
    ASSUME NEW b \in Breakers, NEW t \in Time
    PROVE  /\ Restart(b, t) \in Breakers
           /\ Restart(b, t).firstFail \in Time
           /\ Restart(b, t).firstFail = t \/ ~Elapsed(Restart(b, t).firstFail, Window, t)
           /\ b.firstFail # Never /\ b.firstFail <= t => Restart(b, t).firstFail <= t
           /\ b.firstFail = Never => Restart(b, t).firstFail = t
           /\ Restart(b, t).trippedAt = b.trippedAt
           /\ \/ Restart(b, t).failures = 0
              \/ Restart(b, t).failures = b.failures
                 /\ (b.firstFail # Never => Restart(b, t).firstFail = b.firstFail)
<1> USE BreakerAssumption DEF Time
<1>1. CASE b.firstFail # Never /\ Elapsed(b.firstFail, Window, t)
  <2>1. Restart(b, t) = [failures |-> 0, firstFail |-> t, trippedAt |-> b.trippedAt]
    BY <1>1 DEF Restart, Breakers
  <2> QED  BY <1>1, <2>1 DEF Breakers
<1>2. CASE b.firstFail = Never
  <2>1. Restart(b, t) = [failures |-> b.failures, firstFail |-> t, trippedAt |-> b.trippedAt]
    BY <1>2 DEF Restart, Breakers
  <2> QED  BY <1>2, <2>1 DEF Breakers
<1>3. CASE b.firstFail # Never /\ ~Elapsed(b.firstFail, Window, t)
  <2>1. Restart(b, t) = b
    BY <1>3 DEF Restart
  <2> QED  BY <1>3, <2>1 DEF Breakers
<1> QED  BY <1>1, <1>2, <1>3

\* What RecordFailure does to each field.
LEMMA FailureFields ==
    ASSUME NEW b \in Breakers, NEW t \in Time
    PROVE  /\ RecordFailure(b, t) \in Breakers
           /\ RecordFailure(b, t).failures = Restart(b, t).failures + 1
           /\ RecordFailure(b, t).firstFail = Restart(b, t).firstFail
           /\ RecordFailure(b, t).trippedAt =
                 IF RecordFailure(b, t).failures >= Threshold THEN t ELSE b.trippedAt
<1>1. Restart(b, t) \in Breakers /\ Restart(b, t).trippedAt = b.trippedAt
  BY RestartInWindow
<1> DEFINE r == Restart(b, t)
<1> HIDE DEF r
<1>2. RecordFailure(b, t) = [r EXCEPT !.failures = @ + 1,
                                      !.trippedAt = IF r.failures + 1 >= Threshold THEN t ELSE @]
  BY DEF RecordFailure, r
<1>3. r \in Breakers /\ r.trippedAt = b.trippedAt /\ r = Restart(b, t)
  BY <1>1 DEF r
<1>4. RecordFailure(b, t) =
         [failures |-> r.failures + 1, firstFail |-> r.firstFail,
          trippedAt |-> IF r.failures + 1 >= Threshold THEN t ELSE r.trippedAt]
  BY <1>2, <1>3 DEF Breakers
<1> QED  BY <1>3, <1>4, BreakerAssumption DEF Breakers, Time

\* A recorded failure leaves the breaker counting only recent ones.
LEMMA FailCounts ==
    ASSUME BreakerInv, NEW c \in Callers, Fail(c)
    PROVE  CountsRecent'
<1> USE BreakerAssumption DEF Time
<1>1. /\ cb \in Breakers /\ now \in Nat /\ recent \in [1..Threshold -> Nat \cup {Never}]
  BY CallersAssumption DEF BreakerInv, TypeOK
<1> DEFINE r == Restart(cb, now)
<1>6. /\ cb'.failures = r.failures + 1
      /\ cb'.firstFail = r.firstFail
  BY <1>1, FailureFields DEF Fail
<1>7. /\ r \in Breakers
      /\ r.firstFail \in Nat
      /\ r.firstFail <= now
      /\ \/ r.failures = 0
         \/ r.failures = cb.failures /\ (cb.firstFail # Never => r.firstFail = cb.firstFail)
  <2>1. /\ r \in Breakers
        /\ r.firstFail \in Time
        /\ cb.firstFail # Never /\ cb.firstFail <= now => r.firstFail <= now
        /\ cb.firstFail = Never => r.firstFail = now
        /\ \/ r.failures = 0
           \/ r.failures = cb.failures /\ (cb.firstFail # Never => r.firstFail = cb.firstFail)
    BY <1>1, RestartInWindow
  <2> QED  BY <1>1, <2>1 DEF BreakerInv, WindowPast
<1> HIDE DEF r
<1>2. /\ cb'.failures = r.failures + 1
      /\ cb'.firstFail = r.firstFail
      /\ cb'.firstFail \in Nat
      /\ cb'.firstFail <= now
  BY <1>6, <1>7
<1>3. SUFFICES ASSUME NEW i \in 1..Threshold, i <= cb'.failures
               PROVE  recent'[i] # Never /\ recent'[i] >= cb'.firstFail
  BY <1>2 DEF CountsRecent
<1>4. CASE i = 1
  <2>1. recent'[i] = now
    BY <1>4 DEF Fail
  <2> QED  BY <1>1, <1>2, <2>1
<1>5. CASE i # 1
  <2>1. i - 1 \in 1..Threshold /\ recent'[i] = recent[i - 1]
    BY <1>5 DEF Fail
  <2>2. /\ i - 1 <= cb.failures
        /\ cb.firstFail # Never => cb'.firstFail = cb.firstFail
    BY <1>1, <1>2, <1>7, <1>3, <1>5 DEF Breakers
  <2> QED  BY <2>1, <2>2 DEF BreakerInv, CountsRecent
<1> QED  BY <1>4, <1>5

-----------------------------------------------------------------------------

\* Each step keeps the invariant.
LEMMA BreakerStep == BreakerInv /\ [Next]_vars => BreakerInv'
<1> SUFFICES ASSUME BreakerInv, [Next]_vars PROVE BreakerInv'
  OBVIOUS
<1> USE BreakerAssumption, CallersAssumption
<1>0. /\ TypeOK /\ CountsRecent /\ RemembersTrip /\ WindowPast
      /\ cb \in Breakers /\ now \in Time
  BY DEF BreakerInv, TypeOK, Time
<1>1. ASSUME NEW c \in Callers, Ask(c) PROVE BreakerInv'
  <2>1. CASE cb' = cb
    BY <1>0, <1>1, <2>1 DEF Ask, BreakerInv, TypeOK, CountsRecent, RemembersTrip, WindowPast
  <2>2. CASE /\ cb.trippedAt # Never /\ Elapsed(cb.trippedAt, Cooldown, now)
             /\ cb' = [cb EXCEPT !.trippedAt = Never, !.failures = 0]
    <3>1. /\ cb' \in Breakers /\ cb'.failures = 0 /\ cb'.trippedAt = Never
          /\ cb'.firstFail = cb.firstFail
      BY <1>0, <2>2 DEF Breakers
    <3>2. TypeOK'
      BY <1>0, <1>1, <3>1 DEF Ask, TypeOK
    <3>3. CountsRecent'
      BY <3>1 DEF CountsRecent
    <3> QED  BY <1>0, <1>1, <2>2, <3>1, <3>2, <3>3 DEF Ask, BreakerInv, RemembersTrip, WindowPast
  <2> QED  BY <1>1, <2>1, <2>2 DEF Ask, AfterAllow
<1>2. ASSUME NEW c \in Callers, Succeed(c) PROVE BreakerInv'
  <2>1. /\ cb' \in Breakers /\ cb'.failures = 0 /\ cb'.trippedAt = cb.trippedAt
        /\ cb'.firstFail = Never
    BY <1>0, <1>2 DEF Succeed, RecordSuccess, Breakers
  <2>2. TypeOK'
    BY <1>0, <1>2, <2>1 DEF Succeed, TypeOK
  <2>3. CountsRecent'
    BY <2>1 DEF CountsRecent
  <2> QED  BY <1>0, <1>2, <2>1, <2>2, <2>3 DEF Succeed, BreakerInv, RemembersTrip, WindowPast
<1>3. ASSUME NEW c \in Callers, Fail(c) PROVE BreakerInv'
  <2>1. /\ cb' \in Breakers
        /\ cb'.firstFail = Restart(cb, now).firstFail
        /\ cb'.trippedAt = IF cb'.failures >= Threshold THEN now ELSE cb.trippedAt
    BY <1>0, <1>3, FailureFields DEF Fail
  <2>2. recent' \in [1..Threshold -> Time \cup {Never}]
    BY <1>0, <1>3 DEF Fail, TypeOK
  <2>3. TypeOK'
    BY <1>0, <1>3, <2>1, <2>2 DEF Fail, TypeOK
  <2>4. CountsRecent'
    BY <1>3, FailCounts
  <2>5. RemembersTrip'
    BY <1>0, <1>3, <2>1 DEF Fail, RemembersTrip, Elapsed, Time
  <2>6. WindowPast'
    <3>1. /\ cb.firstFail # Never /\ cb.firstFail <= now => Restart(cb, now).firstFail <= now
          /\ cb.firstFail = Never => Restart(cb, now).firstFail = now
      BY <1>0, RestartInWindow
    <3> QED  BY <1>0, <1>3, <2>1, <3>1 DEF Fail, WindowPast, Time
  <2> QED  BY <2>3, <2>4, <2>5, <2>6 DEF BreakerInv
<1>4. CASE Tick
  <2>1. TypeOK'
    BY <1>0, <1>4 DEF Tick, TypeOK
  <2>2. RemembersTrip' /\ WindowPast'
    BY <1>0, <1>4 DEF Tick, RemembersTrip, WindowPast, Elapsed, TypeOK, Time, Breakers
  <2> QED  BY <1>0, <1>4, <2>1, <2>2 DEF Tick, BreakerInv, CountsRecent
<1>5. CASE UNCHANGED vars
  BY <1>0, <1>5 DEF vars, BreakerInv, TypeOK, CountsRecent, RemembersTrip, WindowPast
<1> QED  BY <1>1, <1>2, <1>3, <1>4, <1>5 DEF Next

\* The invariant on which the theorems rest holds in every reachable state.
THEOREM BreakerInvariant == Spec => []BreakerInv
<1>1. Init => BreakerInv
  <2> SUFFICES ASSUME Init PROVE BreakerInv
    OBVIOUS
  <2>1. New \in Breakers
    BY DEF New, Breakers
  <2>2. TypeOK
    <3>1. now \in 0..MaxTime
      BY CallersAssumption DEF Init
    <3>2. recent \in [1..Threshold -> Time \cup {Never}] /\ opened \in Time \cup {Never}
      BY DEF Init
    <3>3. cb \in Breakers /\ calling \in SUBSET Callers
      BY <2>1 DEF Init
    <3> QED  BY <3>1, <3>2, <3>3 DEF TypeOK
  <2> QED  BY <2>2 DEF Init, New, BreakerInv, CountsRecent, RemembersTrip, WindowPast
<1> QED  BY <1>1, BreakerStep, PTL DEF Spec

\* The fields keep their types; the count never becomes negative.
THEOREM BreakerTypes == Spec => []TypeOK
<1>1. BreakerInv => TypeOK
  BY DEF BreakerInv
<1> QED  BY <1>1, BreakerInvariant, PTL

\* The breaker opens only for Threshold failures in a row within the window.
THEOREM OnlyForCause == Spec => TripsForCause
<1> USE BreakerAssumption, CallersAssumption
<1>1. ASSUME BreakerInv, Next, cb'.trippedAt # Never, cb'.trippedAt # cb.trippedAt
      PROVE  Burst(recent', now)
  <2>0. cb \in Breakers /\ now \in Time
    BY <1>1 DEF BreakerInv, TypeOK, Time
  <2>1. ASSUME NEW c \in Callers, Ask(c) PROVE FALSE
    BY <1>1, <2>0, <2>1 DEF Ask, AfterAllow, Breakers
  <2>2. ASSUME NEW c \in Callers, Succeed(c) PROVE FALSE
    BY <1>1, <2>0, <2>2 DEF Succeed, RecordSuccess, Breakers
  <2>3. ASSUME NEW c \in Callers, Fail(c) PROVE Burst(recent', now)
    <3>1. /\ cb'.failures >= Threshold
          /\ cb'.firstFail = Restart(cb, now).firstFail
          /\ cb' \in Breakers
      BY <1>1, <2>0, <2>3, FailureFields DEF Fail
    <3>2. /\ cb'.firstFail \in Nat
          /\ cb'.firstFail = now \/ ~Elapsed(cb'.firstFail, Window, now)
      BY <2>0, <3>1, RestartInWindow DEF Time
    <3>3. cb'.firstFail + Window >= now
      BY <2>0, <3>2 DEF Elapsed, Time
    <3>4. CountsRecent' /\ recent' \in [1..Threshold -> Nat \cup {Never}]
      BY <1>1, <2>3, BreakerStep DEF Next, BreakerInv, TypeOK, Time
    <3>5. ASSUME NEW i \in 1..Threshold
          PROVE  recent'[i] # Never /\ ~Elapsed(recent'[i], Window, now)
      <4>1. recent'[i] \in Nat /\ recent'[i] >= cb'.firstFail
        BY <3>1, <3>4 DEF CountsRecent, Breakers
      <4> QED  BY <2>0, <3>2, <3>3, <4>1 DEF Elapsed, Time
    <3> QED  BY <3>5 DEF Burst
  <2>4. CASE Tick
    BY <1>1, <2>4 DEF Tick
  <2> QED  BY <1>1, <2>1, <2>2, <2>3, <2>4 DEF Next
<1>2. BreakerInv /\ [Next]_vars =>
         [cb'.trippedAt # Never /\ cb'.trippedAt # cb.trippedAt => Burst(recent', now)]_vars
  BY <1>1
<1> QED  BY <1>2, BreakerInvariant, PTL DEF Spec, TripsForCause

\* No call starts before the cooldown of the last trip is over.
THEOREM Rests == Spec => RestsForCooldown
<1>1. ASSUME BreakerInv, Next, calling' \ calling # {}, opened # Never
      PROVE  Elapsed(opened, Cooldown, now)
  <2>1. PICK c \in Callers : Ask(c)
    BY <1>1 DEF Next, Tick, Succeed, Fail
  <2>2. Allow(cb, now)
    BY <1>1, <2>1 DEF Ask
  <2> QED  BY <1>1, <2>2 DEF BreakerInv, RemembersTrip, Allow, IsTripped
<1>2. BreakerInv /\ [Next]_vars =>
         [calling' \ calling # {} /\ opened # Never => Elapsed(opened, Cooldown, now)]_vars
  BY <1>1
<1> QED  BY <1>2, BreakerInvariant, PTL DEF Spec, RestsForCooldown
-----------------------------------------------------------------------------
(* The counts of listeners of the audio proxy *)

\* The streams of a stage.
Streaming(s) == {r \in Requests : at[r] = "streaming" /\ stage[r] = s}

StreamsTyped ==
    /\ at \in [Requests -> {"none", "dialling", "streaming"}]
    /\ stage \in [Requests -> Stages]
    /\ listeners \in [Stages -> (Requests \X Stages) \cup {NoCounter}]
    /\ counter \in [Requests -> (Requests \X Stages) \cup {NoCounter}]
    /\ value \in [Requests \X Stages -> Int]

\* A stage's counter is one made for it; a stream holds the counter of its stage.
Shared ==
    /\ \A s \in Stages : listeners[s] # NoCounter => listeners[s][2] = s
    /\ \A r \in Requests : at[r] = "streaming" =>
          counter[r] = listeners[stage[r]] /\ listeners[stage[r]] # NoCounter

\* A counter that is the stage's counts its streams; without one, every counter
\* that may become it is at zero.
Counts ==
    \A s \in Stages :
        IF listeners[s] = NoCounter THEN \A r \in Requests : value[<<r, s>>] = 0
        ELSE value[listeners[s]] = Cardinality(Streaming(s))

StreamsInv == StreamsTyped /\ Shared /\ Counts

LEMMA StreamsInit ==
    ASSUME NoCounter \notin Requests \X Stages
    PROVE  A!Init => StreamsInv
BY DEF A!Init, StreamsInv, StreamsTyped, Shared, Counts

\* What A!Track writes: c is the stage's counter from now on.
LEMMA Tracked ==
    ASSUME NoCounter \notin Requests \X Stages, StreamsInv, NEW r \in Requests, A!Track(r)
    PROVE  \E c \in Requests \X Stages :
              /\ c[2] = stage[r]
              /\ listeners[stage[r]] \in {NoCounter, c}
              /\ at[r] = "dialling"
              /\ at' = [at EXCEPT ![r] = "streaming"]
              /\ counter' = [counter EXCEPT ![r] = c]
              /\ value' = [value EXCEPT ![c] = @ + 1]
              /\ listeners' = [listeners EXCEPT ![stage[r]] = c]
              /\ stage' = stage
<1> DEFINE c == IF listeners[stage[r]] = NoCounter THEN <<r, stage[r]>>
                ELSE listeners[stage[r]]
<1>1. stage[r] \in Stages
  BY DEF StreamsInv, StreamsTyped
<1>2. c \in Requests \X Stages /\ c[2] = stage[r]
  BY <1>1 DEF StreamsInv, StreamsTyped, Shared
<1>3. listeners[stage[r]] \in {NoCounter, c}
  OBVIOUS
<1>4. /\ at[r] = "dialling"
      /\ at' = [at EXCEPT ![r] = "streaming"]
      /\ counter' = [counter EXCEPT ![r] = c]
      /\ value' = [value EXCEPT ![c] = @ + 1]
      /\ listeners' = [listeners EXCEPT ![stage[r]] = c]
      /\ stage' = stage
  BY DEF A!Track, A!Hold
<1> HIDE DEF c
<1> QED
  BY <1>2, <1>3, <1>4

\* A stream that ends holds the counter of its stage.
LEMMA Released ==
    ASSUME NoCounter \notin Requests \X Stages, StreamsInv, NEW r \in Requests, A!Release(r)
    PROVE  /\ counter[r] \in Requests \X Stages
           /\ counter[r] = listeners[stage[r]]
           /\ counter[r][2] = stage[r]
<1>1. at[r] = "streaming" /\ stage[r] \in Stages
  BY DEF A!Release, StreamsInv, StreamsTyped
<1> QED
  BY <1>1 DEF StreamsInv, StreamsTyped, Shared

LEMMA StreamsTypedStep ==
    ASSUME NoCounter \notin Requests \X Stages, StreamsInv, [A!Next]_(A!vars)
    PROVE  StreamsTyped'
<1> USE DEF StreamsTyped
<1>1. ASSUME NEW r \in Requests, NEW s \in Stages, A!Dial(r, s) PROVE StreamsTyped'
  BY <1>1 DEF A!Dial, StreamsInv
<1>2. ASSUME NEW r \in Requests, A!Refused(r) PROVE StreamsTyped'
  BY <1>2 DEF A!Refused, StreamsInv
<1>3. ASSUME NEW r \in Requests, A!Track(r) PROVE StreamsTyped'
  <2>1. PICK c \in Requests \X Stages :
              /\ at' = [at EXCEPT ![r] = "streaming"]
              /\ counter' = [counter EXCEPT ![r] = c]
              /\ value' = [value EXCEPT ![c] = @ + 1]
              /\ listeners' = [listeners EXCEPT ![stage[r]] = c]
              /\ stage' = stage
    BY <1>3, Tracked
  <2> QED
    BY <2>1 DEF StreamsInv
<1>4. ASSUME NEW r \in Requests, A!Release(r) PROVE StreamsTyped'
  <2>1. PICK c \in Requests \X Stages : c = counter[r]
    BY <1>4, Released
  <2>2. value' = [value EXCEPT ![c] = @ - 1]
    BY <1>4, <2>1 DEF A!Release
  <2> QED
    BY <1>4, <2>1, <2>2 DEF A!Release, StreamsInv
<1>5. CASE UNCHANGED A!vars
  BY <1>5 DEF A!vars, StreamsInv
<1> QED
  BY <1>1, <1>2, <1>3, <1>4, <1>5 DEF A!Next

LEMMA SharedStep ==
    ASSUME NoCounter \notin Requests \X Stages, StreamsInv, [A!Next]_(A!vars)
    PROVE  Shared'
<1> USE DEF Shared, StreamsTyped
<1>1. ASSUME NEW r \in Requests, NEW s \in Stages, A!Dial(r, s) PROVE Shared'
  BY <1>1 DEF A!Dial, StreamsInv
<1>2. ASSUME NEW r \in Requests, A!Refused(r) PROVE Shared'
  BY <1>2 DEF A!Refused, StreamsInv
<1>3. ASSUME NEW r \in Requests, A!Track(r) PROVE Shared'
  <2>1. PICK c \in Requests \X Stages :
              /\ c[2] = stage[r]
              /\ listeners[stage[r]] \in {NoCounter, c}
              /\ at' = [at EXCEPT ![r] = "streaming"]
              /\ counter' = [counter EXCEPT ![r] = c]
              /\ listeners' = [listeners EXCEPT ![stage[r]] = c]
              /\ stage' = stage
    BY <1>3, Tracked
  <2>2. c # NoCounter
    OBVIOUS
  <2>3. \A s \in Stages : listeners'[s] = IF s = stage[r] THEN c ELSE listeners[s]
    BY <2>1 DEF StreamsInv
  <2>4. \A q \in Requests : counter'[q] = IF q = r THEN c ELSE counter[q]
    BY <2>1 DEF StreamsInv
  <2> QED
    BY <2>1, <2>2, <2>3, <2>4 DEF StreamsInv
<1>4. ASSUME NEW r \in Requests, A!Release(r) PROVE Shared'
  BY <1>4 DEF A!Release, StreamsInv
<1>5. CASE UNCHANGED A!vars
  BY <1>5 DEF A!vars, StreamsInv
<1> QED
  BY <1>1, <1>2, <1>3, <1>4, <1>5 DEF A!Next

LEMMA CountsStep ==
    ASSUME NoCounter \notin Requests \X Stages, IsFiniteSet(Requests), StreamsInv, [A!Next]_(A!vars)
    PROVE  Counts'
<1> USE DEF StreamsTyped
<1>1. ASSUME UNCHANGED <<value, listeners>>, \A s \in Stages : Streaming(s)' = Streaming(s)
      PROVE  Counts'
  BY <1>1 DEF StreamsInv, Counts
<1>2. ASSUME NEW r \in Requests, NEW s \in Stages, A!Dial(r, s) PROVE Counts'
  <2>1. \A t \in Stages : Streaming(t)' = Streaming(t)
    BY <1>2 DEF A!Dial, Streaming, StreamsInv
  <2> QED
    BY <1>1, <1>2, <2>1 DEF A!Dial
<1>3. ASSUME NEW r \in Requests, A!Refused(r) PROVE Counts'
  <2>1. \A t \in Stages : Streaming(t)' = Streaming(t)
    BY <1>3 DEF A!Refused, Streaming, StreamsInv
  <2> QED
    BY <1>1, <1>3, <2>1 DEF A!Refused
<1>4. \A s \in Stages : IsFiniteSet(Streaming(s)) /\ Cardinality(Streaming(s)) \in Int
  BY FS_Subset, FS_CardinalityType DEF Streaming
<1>5. ASSUME NEW r \in Requests, A!Track(r) PROVE Counts'
  <2>1. PICK c \in Requests \X Stages :
              /\ c[2] = stage[r]
              /\ listeners[stage[r]] \in {NoCounter, c}
              /\ at[r] = "dialling"
              /\ at' = [at EXCEPT ![r] = "streaming"]
              /\ value' = [value EXCEPT ![c] = @ + 1]
              /\ listeners' = [listeners EXCEPT ![stage[r]] = c]
              /\ stage' = stage
    BY <1>5, Tracked
  <2> SUFFICES ASSUME NEW s \in Stages
               PROVE  IF listeners'[s] = NoCounter
                      THEN \A q \in Requests : value'[<<q, s>>] = 0
                      ELSE value'[listeners'[s]] = Cardinality(Streaming(s)')
    BY DEF Counts
  <2>2. CASE s = stage[r]
    <3>1. Streaming(s)' = Streaming(s) \cup {r} /\ r \notin Streaming(s)
      BY <2>1, <2>2 DEF Streaming, StreamsInv
    <3>2. Cardinality(Streaming(s)') = Cardinality(Streaming(s)) + 1
      BY <1>4, <3>1, FS_AddElement
    <3>3. listeners'[s] = c /\ c # NoCounter /\ value'[c] = value[c] + 1
      BY <2>1, <2>2 DEF StreamsInv
    <3>4. value[c] = Cardinality(Streaming(s))
      <4>1. CASE listeners[s] = c
        BY <4>1, <3>3 DEF StreamsInv, Counts
      <4>2. CASE listeners[s] = NoCounter
        <5>1. Streaming(s) = {}
          BY <4>2 DEF StreamsInv, Shared, Streaming
        <5>2. value[c] = 0
          BY <2>1, <2>2, <4>2 DEF StreamsInv, Counts
        <5> QED
          BY <5>1, <5>2, FS_EmptySet
      <4> QED
        BY <2>1, <2>2, <4>1, <4>2
    <3> QED
      BY <3>2, <3>3, <3>4
  <2>3. CASE s # stage[r]
    <3>1. Streaming(s)' = Streaming(s) /\ listeners'[s] = listeners[s]
      BY <2>1, <2>3 DEF Streaming, StreamsInv
    <3>2. \A d \in Requests \X Stages : d[2] = s => value'[d] = value[d]
      BY <2>1, <2>3 DEF StreamsInv
    <3>3. listeners[s] # NoCounter => listeners[s] \in Requests \X Stages /\ listeners[s][2] = s
      BY DEF StreamsInv, Shared
    <3>4. \A q \in Requests : <<q, s>> \in Requests \X Stages /\ <<q, s>>[2] = s
      OBVIOUS
    <3> QED
      BY <3>1, <3>2, <3>3, <3>4 DEF StreamsInv, Counts
  <2> QED
    BY <2>2, <2>3
<1>6. ASSUME NEW r \in Requests, A!Release(r) PROVE Counts'
  <2>1. PICK c \in Requests \X Stages :
            c = counter[r] /\ c = listeners[stage[r]] /\ c[2] = stage[r]
    BY <1>6, Released
  <2>2. /\ at[r] = "streaming"
        /\ at' = [at EXCEPT ![r] = "none"]
        /\ value' = [value EXCEPT ![c] = @ - 1]
        /\ listeners' = listeners
        /\ stage' = stage
    BY <1>6, <2>1 DEF A!Release
  <2> SUFFICES ASSUME NEW s \in Stages
               PROVE  IF listeners'[s] = NoCounter
                      THEN \A q \in Requests : value'[<<q, s>>] = 0
                      ELSE value'[listeners'[s]] = Cardinality(Streaming(s)')
    BY DEF Counts
  <2>3. CASE s = stage[r]
    <3>1. Streaming(s)' = Streaming(s) \ {r} /\ r \in Streaming(s)
      BY <2>2, <2>3 DEF Streaming, StreamsInv
    <3>2. Cardinality(Streaming(s)') = Cardinality(Streaming(s)) - 1
      BY <1>4, <3>1, FS_RemoveElement
    <3>3. listeners'[s] = c /\ c # NoCounter /\ value'[c] = value[c] - 1
      BY <2>1, <2>2, <2>3 DEF StreamsInv
    <3>4. value[c] = Cardinality(Streaming(s))
      BY <2>1, <2>3, <3>3 DEF StreamsInv, Counts
    <3> QED
      BY <3>2, <3>3, <3>4
  <2>4. CASE s # stage[r]
    <3>1. Streaming(s)' = Streaming(s) /\ listeners'[s] = listeners[s]
      BY <2>2, <2>4 DEF Streaming, StreamsInv
    <3>2. \A d \in Requests \X Stages : d[2] = s => value'[d] = value[d]
      BY <2>1, <2>2, <2>4 DEF StreamsInv
    <3>3. listeners[s] # NoCounter => listeners[s] \in Requests \X Stages /\ listeners[s][2] = s
      BY DEF StreamsInv, Shared
    <3>4. \A q \in Requests : <<q, s>> \in Requests \X Stages /\ <<q, s>>[2] = s
      OBVIOUS
    <3> QED
      BY <3>1, <3>2, <3>3, <3>4 DEF StreamsInv, Counts
  <2> QED
    BY <2>3, <2>4
<1>7. CASE UNCHANGED A!vars
  BY <1>1, <1>7 DEF A!vars, Streaming
<1> QED
  BY <1>2, <1>3, <1>5, <1>6, <1>7 DEF A!Next

-----------------------------------------------------------------------------

\* Each stage's count is the number of its streams, however the first requests
\* raced for the counter (stream.go:71-124).
THEOREM CountsAreRight ==
    ASSUME NoCounter \notin Requests \X Stages, IsFiniteSet(Requests)
    PROVE  A!Spec => []A!ListenersCounted
<1>1. A!Init => StreamsInv
  BY StreamsInit
<1>2. StreamsInv /\ [A!Next]_(A!vars) => StreamsInv'
  BY StreamsTypedStep, SharedStep, CountsStep DEF StreamsInv
<1>3. StreamsInv => A!ListenersCounted
  <2> SUFFICES ASSUME StreamsInv, NEW s \in Stages
               PROVE  A!ListenerCounts[s] = Cardinality(Streaming(s))
    BY DEF A!ListenersCounted, Streaming, A!Cardinality, Cardinality
  <2>1. CASE listeners[s] = NoCounter
    <3>1. Streaming(s) = {}
      BY <2>1 DEF StreamsInv, StreamsTyped, Shared, Streaming
    <3> QED
      BY <2>1, <3>1, FS_EmptySet DEF A!ListenerCounts
  <2>2. CASE listeners[s] # NoCounter
    BY <2>2 DEF StreamsInv, Counts, A!ListenerCounts
  <2> QED
    BY <2>1, <2>2
<1> QED
  BY <1>1, <1>2, <1>3, PTL DEF A!Spec

-----------------------------------------------------------------------------
(* The server-sent events *)

\* Only while it holds sseMu for reading has the broadcaster channels to send
\* to; they are of the hub's set, and none of that is closed.
SseInv ==
    /\ caster # "range" => todo = {}
    /\ todo \subseteq sseClients
    /\ sseClients \cap closed = {}

LEMMA SseStep == SseInv /\ [E!Next]_(E!vars) => SseInv'
<1> SUFFICES ASSUME SseInv, [E!Next]_(E!vars) PROVE SseInv'
  OBVIOUS
<1> USE DEF SseInv, E!browser, E!broadcaster
<1>1. CASE E!CountListeners
  BY <1>1 DEF E!CountListeners
<1>2. CASE E!Range
  BY <1>2 DEF E!Range
<1>3. ASSUME NEW b \in Browsers, E!Offer(b) PROVE SseInv'
  BY <1>3 DEF E!Offer
<1>4. CASE E!EndRange
  BY <1>4 DEF E!EndRange
<1>5. ASSUME NEW b \in Browsers, E!Register(b) PROVE SseInv'
  BY <1>5 DEF E!Register
<1>6. ASSUME NEW b \in Browsers, E!Write(b) PROVE SseInv'
  BY <1>6 DEF E!Write
<1>7. ASSUME NEW b \in Browsers, E!Leave(b) PROVE SseInv'
  BY <1>7 DEF E!Leave
<1>8. ASSUME NEW b \in Browsers, E!Unregister(b) PROVE SseInv'
  BY <1>8 DEF E!Unregister
<1>9. ASSUME NEW l \in Listeners, E!Listen(l) PROVE SseInv'
  BY <1>9 DEF E!Listen
<1>10. CASE UNCHANGED E!vars
  BY <1>10 DEF E!vars
<1> QED
  BY <1>1, <1>2, <1>3, <1>4, <1>5, <1>6, <1>7, <1>8, <1>9, <1>10 DEF E!Next, E!Broadcaster

\* No event is sent on a channel that HandleSSE has closed, however browsers
\* come and go during a broadcast (hub.go:251-283).
THEOREM NoSendOnClosed == E!Spec => []E!SseNoSendOnClosed
<1>1. E!Init => SseInv
  BY DEF E!Init, SseInv
<1>2. SseInv => E!SseNoSendOnClosed
  BY DEF SseInv, E!SseNoSendOnClosed
<1> QED
  BY <1>1, <1>2, SseStep, PTL DEF E!Spec

-----------------------------------------------------------------------------
(* Paging through the history *)

\* The rows on the pages up to the p-th.
Ahead(p) == p * PerPage

\* The rows on the pages that the listener has been shown on the way to this one.
Behind == IF step = "shown" THEN Ahead(page) ELSE Ahead(page - 1)

PagingTyped ==
    /\ plays \in Nat /\ started \in Nat /\ total \in Nat
    /\ page \in Nat \ {0}
    /\ order \in {"newest", "oldest"}
    /\ step \in {"count", "select", "shown"}

\* What total says of the table.
TotalSays ==
    /\ started <= plays /\ total <= plays
    /\ step # "count" => started <= total
    /\ step = "select" /\ ~late => total = plays

\* From the oldest on, the rows of the pages shown stay where they are.
OldestShown == order = "oldest" => \A j \in 1..started : j <= Behind => j \in seen

\* From the newest on they move away from the start of the table, but a row that
\* moved was shown: it comes again on the next page.
NewestShown ==
    order = "newest" =>
        \A j \in 1..started :
            \/ j > plays - Behind
            \/ step = "shown" /\ ~late /\ j > total - Behind
            => j \in seen

PagingInv == PagingTyped /\ TotalSays /\ OldestShown /\ NewestShown

LEMMA AheadGrows ==
    ASSUME PerPage \in Nat, NEW p \in Nat \ {0}
    PROVE  /\ Ahead(p) \in Nat /\ Ahead(p - 1) \in Nat
           /\ Ahead(p) = Ahead(p - 1) + PerPage
<1>1. /\ p * PerPage \in Nat /\ (p - 1) * PerPage \in Nat
      /\ p * PerPage = (p - 1) * PerPage + PerPage
  OBVIOUS
<1> QED
  BY <1>1 DEF Ahead

LEMMA PagingTypedStep ==
    ASSUME PagingTyped, [P!Next]_(P!vars) PROVE PagingTyped'
<1> USE DEF PagingTyped
<1>1. CASE P!LogPlay
  BY <1>1 DEF P!LogPlay
<1>2. CASE P!Count
  BY <1>2 DEF P!Count
<1>3. CASE P!Select
  BY <1>3 DEF P!Select
<1>4. CASE P!NextPage
  BY <1>4 DEF P!NextPage, P!TurnTo
<1>5. CASE P!PreviousPage
  BY <1>5 DEF P!PreviousPage, P!TurnTo
<1>6. CASE UNCHANGED P!vars
  BY <1>6 DEF P!vars
<1> QED
  BY <1>1, <1>2, <1>3, <1>4, <1>5, <1>6 DEF P!Next

LEMMA TotalStep ==
    ASSUME PagingTyped, TotalSays, [P!Next]_(P!vars) PROVE TotalSays'
<1> USE DEF PagingTyped, TotalSays
<1>1. CASE P!LogPlay
  <2>1. step = "select" => late'
    BY <1>1, Zenon DEF P!LogPlay
  <2> QED
    BY <1>1, <2>1 DEF P!LogPlay
<1>2. CASE P!Count
  BY <1>2 DEF P!Count
<1>3. CASE P!Select
  BY <1>3 DEF P!Select
<1>4. CASE P!NextPage
  BY <1>4 DEF P!NextPage, P!TurnTo
<1>5. CASE P!PreviousPage
  BY <1>5 DEF P!PreviousPage, P!TurnTo
<1>6. CASE UNCHANGED P!vars
  BY <1>6 DEF P!vars
<1> QED
  BY <1>1, <1>2, <1>3, <1>4, <1>5, <1>6 DEF P!Next

\* A page shows its rows of the table as it then is.
LEMMA PageShows ==
    ASSUME PerPage \in Nat, PagingTyped, P!Select, NEW i \in 1..plays,
           Ahead(page - 1) < i, i <= Ahead(page)
    PROVE  P!Row(i) \in seen'
<1>1. P!Offset = Ahead(page - 1) /\ P!Offset + PerPage = Ahead(page)
  BY AheadGrows DEF P!Offset, Ahead, PagingTyped
<1>2. Ahead(page) \in Nat /\ Ahead(page - 1) \in Nat
  BY AheadGrows DEF PagingTyped
<1>3. i \in ((P!Offset + 1)..(P!Offset + PerPage)) \cap (1..plays)
  BY <1>1, <1>2 DEF PagingTyped
<1> QED
  BY <1>3, Zenon DEF P!Select

LEMMA BehindStep ==
    ASSUME PerPage \in Nat, PagingTyped, PagingTyped', [P!Next]_(P!vars)
    PROVE  /\ Behind \in Nat /\ Behind' \in Nat
           /\ ~P!Select => Behind' <= Behind
           /\ P!Select => Behind = Ahead(page - 1) /\ Behind' = Ahead(page)
<1>1. Behind \in Nat
  BY AheadGrows DEF Behind, PagingTyped
<1>2. Behind' \in Nat
  BY AheadGrows DEF Behind, PagingTyped
<1>3. P!Select => Behind = Ahead(page - 1) /\ Behind' = Ahead(page)
  BY DEF P!Select, Behind
<1>4. ~P!Select => Behind' <= Behind
  <2>1. UNCHANGED <<page, step>> => Behind' = Behind
    BY DEF Behind
  <2>2. CASE UNCHANGED <<page, step>>
    BY <2>1, <2>2, <1>1
  <2>3. CASE P!Count
    <3>1. Behind' = Behind
      BY <2>3 DEF P!Count, Behind
    <3> QED
      BY <3>1, <1>1
  <2>4. CASE P!NextPage
    <3>1. Behind = Ahead(page) /\ Behind' = Ahead(page' - 1)
      BY <2>4 DEF P!NextPage, P!TurnTo, Behind
    <3>2. page' - 1 = page
      BY <2>4 DEF P!NextPage, P!TurnTo, PagingTyped
    <3> QED
      BY <3>1, <3>2, <1>1
  <2>5. CASE P!PreviousPage
    <3>1. page \in Nat \ {0} /\ page - 1 \in Nat \ {0}
      BY <2>5 DEF P!PreviousPage, PagingTyped
    <3>2. Behind = Ahead(page) /\ Behind' = Ahead(page - 1 - 1)
      BY <2>5 DEF P!PreviousPage, P!TurnTo, Behind
    <3>3. Ahead(page) = Ahead(page - 1) + PerPage
      BY <3>1, AheadGrows
    <3>4. Ahead(page - 1) = Ahead(page - 1 - 1) + PerPage
      BY <3>1, AheadGrows
    <3> QED
      BY <3>2, <3>3, <3>4, <1>1, <1>2
  <2> QED
    BY <2>2, <2>3, <2>4, <2>5 DEF P!Next, P!LogPlay, P!vars
<1> QED
  BY <1>1, <1>2, <1>3, <1>4

\* What has been shown stays shown, and what the select does not touch stays.
LEMMA OtherSteps ==
    ASSUME [P!Next]_(P!vars), PagingTyped
    PROVE  /\ UNCHANGED <<order, started>>
           /\ seen \subseteq seen'
           /\ plays <= plays'
           /\ step' = "shown" => step = "shown" \/ P!Select
           /\ step = "shown" /\ step' = "shown" => total' = total /\ (late => late')
           /\ P!Select => UNCHANGED <<plays, total>> /\ step = "select" /\ (late => late')
<1> USE DEF PagingTyped
<1>1. CASE P!LogPlay
  <2>1. late => late'
    BY <1>1, Zenon DEF P!LogPlay
  <2> QED
    BY <1>1, <2>1 DEF P!LogPlay, P!Select
<1>2. CASE P!Count
  BY <1>2 DEF P!Count, P!Select
<1>3. CASE P!Select
  BY <1>3 DEF P!Select
<1>4. CASE P!NextPage
  BY <1>4 DEF P!NextPage, P!TurnTo, P!Select
<1>5. CASE P!PreviousPage
  BY <1>5 DEF P!PreviousPage, P!TurnTo, P!Select
<1>6. CASE UNCHANGED P!vars
  BY <1>6 DEF P!vars, P!Select
<1> QED
  BY <1>1, <1>2, <1>3, <1>4, <1>5, <1>6 DEF P!Next

LEMMA OldestStep ==
    ASSUME PerPage \in Nat, PagingTyped, TotalSays, OldestShown, PagingTyped',
           [P!Next]_(P!vars)
    PROVE  OldestShown'
<1> SUFFICES ASSUME order' = "oldest", NEW j \in 1..started', j <= Behind'
             PROVE  j \in seen'
  BY DEF OldestShown
<1>1. order = "oldest" /\ j \in 1..started /\ seen \subseteq seen'
  BY OtherSteps
<1>2. Behind \in Nat /\ Behind' \in Nat
  BY BehindStep
<1>3. CASE j <= Behind
  BY <1>1, <1>3 DEF OldestShown
<1>4. CASE ~(j <= Behind)
  <2>1. P!Select
    BY <1>1, <1>2, <1>4, BehindStep
  <2>2. Ahead(page - 1) < j /\ j <= Ahead(page)
    BY <2>1, <1>1, <1>2, <1>4, BehindStep
  <2>3. j \in 1..plays
    BY <1>1 DEF TotalSays, PagingTyped
  <2>4. P!Row(j) = j
    BY <1>1 DEF P!Row
  <2> QED
    BY <2>1, <2>2, <2>3, <2>4, PageShows
<1> QED
  BY <1>3, <1>4

\* A row past what lies behind stays so while less lies behind.
LEMMA PastBehind ==
    \A j, m, n, b, c \in Nat : m <= n /\ c <= b /\ j > n - c => j > m - b
OBVIOUS

LEMMA NewestStep ==
    ASSUME PerPage \in Nat, PagingTyped, TotalSays, NewestShown, PagingTyped',
           [P!Next]_(P!vars)
    PROVE  NewestShown'
<1> SUFFICES ASSUME order' = "newest", NEW j \in 1..started',
                    \/ j > plays' - Behind'
                    \/ step' = "shown" /\ ~late' /\ j > total' - Behind'
             PROVE  j \in seen'
  BY DEF NewestShown
<1>1. order = "newest" /\ j \in 1..started /\ seen \subseteq seen' /\ plays <= plays'
  BY OtherSteps
<1>2. Behind \in Nat /\ Behind' \in Nat /\ plays \in Nat /\ plays' \in Nat
      /\ total \in Nat /\ total' \in Nat /\ j \in Nat
  BY <1>1, BehindStep DEF PagingTyped
<1>3. CASE P!Select
  <2>1. Behind = Ahead(page - 1) /\ Behind' = Ahead(page)
    BY <1>3, BehindStep
  <2>2. plays' = plays /\ total' = total /\ step = "select" /\ (late => late')
    BY <1>3, OtherSteps
  <2>3. j > plays - Behind'
    BY <1>2, <2>2 DEF TotalSays
  <2>4. CASE j > plays - Behind
    BY <1>1, <2>4 DEF NewestShown
  <2>5. CASE ~(j > plays - Behind)
    <3> DEFINE i == plays + 1 - j
    <3>1. i \in 1..plays /\ Ahead(page - 1) < i /\ i <= Ahead(page)
      BY <1>1, <1>2, <2>1, <2>3, <2>5 DEF TotalSays, PagingTyped
    <3>2. P!Row(i) = j
      BY <1>1, <1>2 DEF P!Row
    <3> HIDE DEF i
    <3> QED
      BY <1>3, <3>1, <3>2, PageShows
  <2> QED
    BY <2>4, <2>5
<1>4. CASE ~P!Select
  <2>1. Behind' <= Behind
    BY <1>4, BehindStep
  <2>2. CASE j > plays' - Behind'
    <3>1. j > plays - Behind
      BY <2>1, <2>2, <1>1, <1>2, PastBehind
    <3> QED
      BY <1>1, <3>1 DEF NewestShown
  <2>3. CASE step' = "shown" /\ ~late' /\ j > total' - Behind'
    <3>1. step = "shown" /\ total' = total /\ ~late
      BY <1>4, <2>3, OtherSteps
    <3>2. total <= total'
      BY <3>1, <1>2
    <3>3. j > total - Behind
      BY <2>1, <2>3, <3>2, <1>2, PastBehind
    <3> QED
      BY <1>1, <3>1, <3>3 DEF NewestShown
  <2> QED
    BY <2>2, <2>3
<1> QED
  BY <1>3, <1>4

LEMMA PagingInit ==
    ASSUME PerPage \in Nat, MaxPlays \in Nat, P!Init
    PROVE  PagingInv
<1>1. PagingTyped /\ TotalSays
  BY DEF P!Init, PagingTyped, TotalSays
<1>2. Behind = 0
  BY DEF P!Init, Behind, Ahead
<1>3. OldestShown
  BY <1>2 DEF OldestShown, P!Init
<1>4. NewestShown
  BY <1>2 DEF NewestShown, P!Init
<1> QED
  BY <1>1, <1>3, <1>4 DEF PagingInv

LEMMA AllShown ==
    ASSUME PerPage \in Nat, PagingInv
    PROVE  P!PagesMissNone
<1> SUFFICES ASSUME step = "shown", ~P!MorePages, ~late, NEW j \in 1..started
             PROVE  j \in seen
  BY Zenon DEF P!PagesMissNone
<1> USE DEF PagingInv, PagingTyped
<1>1. Behind = Ahead(page) /\ Ahead(page) \in Nat
  BY AheadGrows DEF Behind
<1>2. ~(Ahead(page) < total)
  BY DEF P!MorePages, Ahead
<1>3. j <= Behind /\ j > total - Behind
  BY <1>1, <1>2 DEF TotalSays
<1> QED
  BY <1>3 DEF OldestShown, NewestShown

\* Whoever has turned to the last page has seen every play there was at the
\* start, however many are logged meanwhile, unless one came between the two
\* queries of that page (history.go:80-98, helpers.go:22-37).
THEOREM NoPageMissed ==
    ASSUME PerPage \in Nat, MaxPlays \in Nat
    PROVE  P!Spec => []P!PagesMissNone
<1>1. P!Init => PagingInv
  BY PagingInit
<1>2. PagingInv /\ [P!Next]_(P!vars) => PagingInv'
  BY PagingTypedStep, TotalStep, OldestStep, NewestStep DEF PagingInv
<1>3. PagingInv => P!PagesMissNone
  BY AllShown
<1> QED
  BY <1>1, <1>2, <1>3, PTL DEF P!Spec

-----------------------------------------------------------------------------
(* The browser's WebSocket *)

\* The hub will have s once it has read the messages on their way.
Heading(s) ==
    \/ \E i \in 1..Len(pipe) : s \in pipe[i].add /\ \A k \in i..Len(pipe) : s \notin pipe[k].drop
    \/ s \in hub /\ \A k \in 1..Len(pipe) : s \notin pipe[k].drop

\* The types that the messages need.
SocketTyped ==
    /\ ws \in {"null", "connecting", "open", "ended"}
    /\ subs \in SUBSET Stages /\ hub \in SUBSET Stages
    /\ pipe \in Seq([add : SUBSET Stages, drop : SUBSET Stages])

HeadsForSubs == ws = "open" => \A s \in Stages : s \in subs <=> Heading(s)

\* An open connection with no message under way has the browser's subscriptions.
HubHasSubs == ws = "open" /\ pipe = <<>> => hub = subs

\* A queue of messages takes another, or loses its first.
LEMMA Queue ==
    ASSUME NEW M, NEW q \in Seq(M), NEW m \in M
    PROVE  /\ Append(q, m) \in Seq(M)
           /\ q # <<>> => Head(q) \in M /\ Tail(q) \in Seq(M)
OBVIOUS

LEMMA SocketTypedStep ==
    ASSUME SocketTyped, [W!Next]_(W!vars) PROVE SocketTyped'
<1> DEFINE Messages == [add : SUBSET Stages, drop : SUBSET Stages]
<1> USE DEF SocketTyped
<1>1. CASE W!Connect
  BY <1>1 DEF W!Connect
<1>2. CASE W!TimerFires
  BY <1>2 DEF W!TimerFires
<1>3. CASE W!OnOpen
  <2>1. [add |-> subs, drop |-> {}] \in Messages
    OBVIOUS
  <2>2. <<[add |-> subs, drop |-> {}]>> \in Seq(Messages) /\ <<>> \in Seq(Messages)
    BY <2>1
  <2> QED
    BY <1>3, <2>2 DEF W!OnOpen
<1>4. CASE W!Arrive
  <2>1. Head(pipe) \in Messages /\ Tail(pipe) \in Seq(Messages)
    <3>1. [add |-> {}, drop |-> {}] \in Messages
      OBVIOUS
    <3> QED
      BY <1>4, <3>1, Queue DEF W!Arrive
  <2>2. hub' \in SUBSET Stages
    BY <1>4, <2>1 DEF W!Arrive
  <2> QED
    BY <1>4, <2>1, <2>2 DEF W!Arrive
<1>5. CASE W!Break
  BY <1>5 DEF W!Break
<1>6. CASE W!OnClose
  BY <1>6 DEF W!OnClose
<1>7. ASSUME NEW S \in SUBSET Stages \ {{}}, W!Subscribe(S) \/ W!Unsubscribe(S)
      PROVE  SocketTyped'
  <2>1. /\ [add |-> S, drop |-> {}] \in Messages
        /\ [add |-> {}, drop |-> S] \in Messages
    BY <1>7
  <2>2. /\ Append(pipe, [add |-> S, drop |-> {}]) \in Seq(Messages)
        /\ Append(pipe, [add |-> {}, drop |-> S]) \in Seq(Messages)
    BY <2>1, Queue
  <2>3. pipe' \in Seq(Messages)
    BY <1>7, <2>2 DEF W!Subscribe, W!Unsubscribe, W!SendIfOpen
  <2>4. ws' = ws /\ hub' = hub /\ subs' \in SUBSET Stages
    BY <1>7 DEF W!Subscribe, W!Unsubscribe
  <2> QED
    BY <2>3, <2>4
<1>8. CASE UNCHANGED W!vars
  BY <1>8 DEF W!vars
<1> QED
  BY <1>1, <1>2, <1>3, <1>4, <1>5, <1>6, <1>7, <1>8 DEF W!Next


\* What the hub reads it was heading for already.
LEMMA ArriveHeads ==
    ASSUME SocketTyped, W!Arrive, NEW s \in Stages
    PROVE  Heading(s)' <=> Heading(s)
<1> DEFINE n == Len(pipe)
<1> DEFINE Messages == [add : SUBSET Stages, drop : SUBSET Stages]
<1>1. /\ n \in Nat \ {0} /\ Len(pipe') = n - 1
      /\ \A k \in 1..(n - 1) : pipe'[k] = pipe[k + 1]
      /\ hub' = (hub \cup pipe[1].add) \ pipe[1].drop
  BY DEF W!Arrive, SocketTyped
<1> HIDE DEF n
<1>2. ASSUME Heading(s)' PROVE Heading(s)
  <2>1. CASE \E i \in 1..(n - 1) : s \in pipe'[i].add /\ \A k \in i..(n - 1) : s \notin pipe'[k].drop
    <3>1. PICK i \in 1..(n - 1) : s \in pipe'[i].add /\ \A k \in i..(n - 1) : s \notin pipe'[k].drop
      BY <2>1
    <3>2. i + 1 \in 1..n /\ s \in pipe[i + 1].add
      BY <1>1, <3>1
    <3>3. ASSUME NEW k \in (i + 1)..n PROVE s \notin pipe[k].drop
      <4>1. k - 1 \in i..(n - 1) /\ k - 1 \in 1..(n - 1) /\ (k - 1) + 1 = k
        BY <1>1, <3>1
      <4> QED
        BY <1>1, <3>1, <4>1
    <3> QED
      BY <3>2, <3>3 DEF Heading, n
  <2>2. CASE s \in hub' /\ \A k \in 1..(n - 1) : s \notin pipe'[k].drop
    <3>1. ASSUME NEW k \in 2..n PROVE s \notin pipe[k].drop
      <4>1. k - 1 \in 1..(n - 1) /\ (k - 1) + 1 = k
        BY <1>1
      <4> QED
        BY <1>1, <2>2, <4>1
    <3>2. s \notin pipe[1].drop /\ (s \in hub \/ s \in pipe[1].add)
      BY <1>1, <2>2
    <3>3. \A k \in 1..n : s \notin pipe[k].drop
      BY <1>1, <3>1, <3>2
    <3>4. 1 \in 1..n
      BY <1>1
    <3> QED
      BY <3>2, <3>3, <3>4 DEF Heading, n
  <2> QED
    BY <1>1, <1>2, <2>1, <2>2 DEF Heading
<1>3. ASSUME Heading(s) PROVE Heading(s)'
  <2>1. ASSUME NEW i \in 1..n, \A k \in i..n : s \notin pipe[k].drop, i > 1, s \in pipe[i].add
        PROVE  Heading(s)'
    <3>1. i - 1 \in 1..(n - 1) /\ (i - 1) + 1 = i
      BY <1>1, <2>1
    <3>2. s \in pipe'[i - 1].add
      BY <1>1, <2>1, <3>1
    <3>3. ASSUME NEW k \in (i - 1)..(n - 1) PROVE s \notin pipe'[k].drop
      <4>1. k \in 1..(n - 1) /\ k + 1 \in i..n
        BY <1>1, <3>1
      <4> QED
        BY <1>1, <2>1, <4>1
    <3> QED
      BY <1>1, <3>1, <3>2, <3>3 DEF Heading
  <2>2. ASSUME \A k \in 1..n : s \notin pipe[k].drop, s \in hub \/ s \in pipe[1].add
        PROVE  Heading(s)'
    <3>1. 1 \in 1..n
      BY <1>1
    <3>2. s \in hub'
      BY <1>1, <2>2, <3>1
    <3>3. ASSUME NEW k \in 1..(n - 1) PROVE s \notin pipe'[k].drop
      <4>1. k + 1 \in 1..n
        BY <1>1
      <4> QED
        BY <1>1, <2>2, <4>1
    <3> QED
      BY <1>1, <3>2, <3>3 DEF Heading
  <2>3. CASE s \in hub /\ \A k \in 1..n : s \notin pipe[k].drop
    BY <2>2, <2>3
  <2>4. CASE \E i \in 1..n : s \in pipe[i].add /\ \A k \in i..n : s \notin pipe[k].drop
    <3>1. PICK i \in 1..n : s \in pipe[i].add /\ \A k \in i..n : s \notin pipe[k].drop
      BY <2>4
    <3>2. i = 1 \/ i > 1
      BY <3>1
    <3> QED
      BY <2>1, <2>2, <3>1, <3>2
  <2> QED
    BY <1>3, <2>3, <2>4 DEF Heading, n
<1> QED
  BY <1>2, <1>3

\* A message sent changes what the hub is heading for as it says.
LEMMA SendHeads ==
    ASSUME SocketTyped, ws = "open", NEW m \in [add : SUBSET Stages, drop : SUBSET Stages],
           W!SendIfOpen(m), hub' = hub, NEW s \in Stages
    PROVE  Heading(s)' <=> (Heading(s) \/ s \in m.add) /\ s \notin m.drop
<1> DEFINE n == Len(pipe)
<1>1. /\ n \in Nat /\ Len(pipe') = n + 1
      /\ \A k \in 1..n : pipe'[k] = pipe[k]
      /\ pipe'[n + 1] = m
  BY DEF W!SendIfOpen, SocketTyped
<1> HIDE DEF n
<1>2. ASSUME Heading(s)' PROVE (Heading(s) \/ s \in m.add) /\ s \notin m.drop
  <2>1. CASE \E i \in 1..(n + 1) : s \in pipe'[i].add /\ \A k \in i..(n + 1) : s \notin pipe'[k].drop
    <3>1. PICK i \in 1..(n + 1) : s \in pipe'[i].add /\ \A k \in i..(n + 1) : s \notin pipe'[k].drop
      BY <2>1
    <3>2. n + 1 \in i..(n + 1)
      BY <1>1
    <3>3. s \notin m.drop
      BY <1>1, <3>1, <3>2
    <3>4. CASE i = n + 1
      BY <1>1, <3>1, <3>3, <3>4
    <3>5. CASE i # n + 1
      <4>1. i \in 1..n /\ \A k \in i..n : k \in 1..n /\ k \in i..(n + 1)
        BY <1>1, <3>5
      <4>2. s \in pipe[i].add /\ \A k \in i..n : s \notin pipe[k].drop
        BY <1>1, <3>1, <4>1
      <4> QED
        BY <3>3, <4>1, <4>2 DEF Heading, n
    <3> QED
      BY <3>4, <3>5
  <2>2. CASE s \in hub' /\ \A k \in 1..(n + 1) : s \notin pipe'[k].drop
    <3>1. n + 1 \in 1..(n + 1) /\ \A k \in 1..n : k \in 1..(n + 1)
      BY <1>1
    <3>2. s \notin m.drop /\ \A k \in 1..n : s \notin pipe[k].drop
      BY <1>1, <2>2, <3>1
    <3> QED
      BY <2>2, <3>2 DEF Heading, n
  <2> QED
    BY <1>1, <1>2, <2>1, <2>2 DEF Heading
<1>3. ASSUME Heading(s) \/ s \in m.add, s \notin m.drop PROVE Heading(s)'
  <2>1. \A k \in 1..(n + 1) : k \in 1..n \/ k = n + 1
    BY <1>1
  <2>2. CASE s \in m.add
    <3>1. n + 1 \in 1..(n + 1) /\ \A k \in (n + 1)..(n + 1) : k = n + 1
      BY <1>1
    <3> QED
      BY <1>1, <1>3, <2>2, <3>1 DEF Heading
  <2>3. CASE s \in hub /\ \A k \in 1..n : s \notin pipe[k].drop
    <3>1. \A k \in 1..(n + 1) : s \notin pipe'[k].drop
      BY <1>1, <1>3, <2>1, <2>3
    <3> QED
      BY <1>1, <2>3, <3>1 DEF Heading
  <2>4. CASE \E i \in 1..n : s \in pipe[i].add /\ \A k \in i..n : s \notin pipe[k].drop
    <3>1. PICK i \in 1..n : s \in pipe[i].add /\ \A k \in i..n : s \notin pipe[k].drop
      BY <2>4
    <3>2. i \in 1..(n + 1) /\ \A k \in i..(n + 1) : (k \in i..n /\ k \in 1..n) \/ k = n + 1
      BY <1>1
    <3>3. \A k \in i..(n + 1) : s \notin pipe'[k].drop
      BY <1>1, <1>3, <3>1, <3>2
    <3> QED
      BY <1>1, <3>1, <3>2, <3>3 DEF Heading
  <2> QED
    BY <1>3, <2>2, <2>3, <2>4 DEF Heading, n
<1> QED
  BY <1>2, <1>3

LEMMA HeadsStep ==
    ASSUME SocketTyped, SocketTyped', HeadsForSubs, [W!Next]_(W!vars)
    PROVE  HeadsForSubs'
<1>1. CASE W!Connect
  BY <1>1 DEF W!Connect, HeadsForSubs
<1>2. CASE W!TimerFires
  <2>1. ws' = "open" => UNCHANGED <<ws, subs, pipe, hub>>
    BY <1>2 DEF W!TimerFires
  <2> QED
    BY <2>1 DEF HeadsForSubs, Heading
<1>3. CASE W!OnOpen
  <2>1. ws' = "open" /\ hub' = {} /\ subs' = subs
    BY <1>3 DEF W!OnOpen
  <2>2. CASE subs = {}
    <3>1. pipe' = <<>>
      BY <1>3, <2>2 DEF W!OnOpen
    <3> QED
      BY <2>1, <2>2, <3>1 DEF HeadsForSubs, Heading
  <2>3. CASE subs # {}
    <3>1. Len(pipe') = 1 /\ pipe'[1].add = subs /\ pipe'[1].drop = {}
      BY <1>3, <2>3 DEF W!OnOpen
    <3> QED
      BY <2>1, <3>1 DEF HeadsForSubs, Heading
  <2> QED
    BY <2>2, <2>3
<1>4. CASE W!Arrive
  <2>1. ws = "open" /\ ws' = ws /\ subs' = subs
    BY <1>4 DEF W!Arrive
  <2> QED
    BY <1>4, <2>1, ArriveHeads DEF HeadsForSubs
<1>5. CASE W!Break
  BY <1>5 DEF W!Break, HeadsForSubs
<1>6. CASE W!OnClose
  BY <1>6 DEF W!OnClose, HeadsForSubs
<1>7. ASSUME NEW S \in SUBSET Stages \ {{}}, W!Subscribe(S) PROVE HeadsForSubs'
  <2> SUFFICES ASSUME ws' = "open", NEW s \in Stages
               PROVE  s \in subs' <=> Heading(s)'
    BY DEF HeadsForSubs
  <2>1. /\ ws = "open" /\ hub' = hub /\ subs' = subs \cup S
        /\ W!SendIfOpen([add |-> S, drop |-> {}])
    BY <1>7 DEF W!Subscribe
  <2>2. [add |-> S, drop |-> {}] \in [add : SUBSET Stages, drop : SUBSET Stages]
    BY <1>7
  <2>3. Heading(s)' <=> Heading(s) \/ s \in S
    BY <2>1, <2>2, SendHeads
  <2> QED
    BY <2>1, <2>3 DEF HeadsForSubs
<1>8. ASSUME NEW S \in SUBSET Stages \ {{}}, W!Unsubscribe(S) PROVE HeadsForSubs'
  <2> SUFFICES ASSUME ws' = "open", NEW s \in Stages
               PROVE  s \in subs' <=> Heading(s)'
    BY DEF HeadsForSubs
  <2>1. /\ ws = "open" /\ hub' = hub /\ subs' = subs \ S
        /\ W!SendIfOpen([add |-> {}, drop |-> S])
    BY <1>8 DEF W!Unsubscribe
  <2>2. [add |-> {}, drop |-> S] \in [add : SUBSET Stages, drop : SUBSET Stages]
    BY <1>8
  <2>3. Heading(s)' <=> Heading(s) /\ s \notin S
    BY <2>1, <2>2, SendHeads
  <2> QED
    BY <2>1, <2>3 DEF HeadsForSubs
<1>9. CASE UNCHANGED W!vars
  BY <1>9 DEF W!vars, HeadsForSubs, Heading
<1> QED
  BY <1>1, <1>2, <1>3, <1>4, <1>5, <1>6, <1>7, <1>8, <1>9 DEF W!Next

\* Once no message is under way, the hub has the browser's subscriptions,
\* whether they were asked for before, between or during connections
\* (ws.ts:64-72, 101-106, 118-127, 150-157).
THEOREM HubGetsSubs == W!Spec => []HubHasSubs
<1>1. W!Init => SocketTyped /\ HeadsForSubs
  BY DEF W!Init, SocketTyped, HeadsForSubs
<1>2. SocketTyped /\ [W!Next]_(W!vars) => SocketTyped'
  BY SocketTypedStep
<1>3. SocketTyped /\ SocketTyped' /\ HeadsForSubs /\ [W!Next]_(W!vars) => HeadsForSubs'
  BY HeadsStep
<1>4. SocketTyped /\ HeadsForSubs => HubHasSubs
  <2> SUFFICES ASSUME SocketTyped, HeadsForSubs, ws = "open", pipe = <<>>
               PROVE  hub = subs
    BY DEF HubHasSubs
  <2>1. Len(pipe) = 0
    OBVIOUS
  <2>2. \A s \in Stages : s \in subs <=> s \in hub
    BY <2>1 DEF HeadsForSubs, Heading
  <2> QED
    BY <2>2 DEF SocketTyped
<1> QED
  BY <1>1, <1>2, <1>3, <1>4, PTL DEF W!Spec

-----------------------------------------------------------------------------
(* Health *)

\* What looks fresh of something that is broken for good was fresh before: a
\* stage whose MPD is gone, an importer that is stuck, a backup that is not run.
TracesFade ==
    /\ \A s \in lost :
          /\ s \in lost'
          /\ s \in alive' => s \in alive
          /\ s \in heard' => s \in heard
    /\ stuck /\ imported' = "fresh" => imported = "fresh"
    /\ ~cron => /\ ~cron'
                /\ lastOK' = "fresh" => lastOK = "fresh"
                /\ lastFailed' = "fresh" => lastFailed = "fresh"

\* Nothing refreshes the traces of what is broken, a restart of the bridge
\* included: they can only age out of their windows, which is how what is broken
\* comes to show (main.go:575-612, pool.go:284-303).
THEOREM TracesOnlyFade == H!Spec => [][TracesFade]_(H!vars)
<1>1. ASSUME H!Next PROVE TracesFade
  <2> USE DEF H!jobs, H!stages
  <2>1. CASE H!Restart \/ H!Postmaster
    BY <2>1 DEF H!Restart, H!Postmaster, H!Fault, TracesFade
  <2>2. CASE H!Import \/ H!ImportAges \/ H!Stick
    BY <2>2 DEF H!Import, H!ImportAges, H!Stick, H!Fault, TracesFade
  <2>3. ASSUME NEW ok \in BOOLEAN, H!Backup(ok) PROVE TracesFade
    BY <2>3 DEF H!Backup, TracesFade
  <2>4. CASE H!BackupAges \/ H!CronStops
    BY <2>4 DEF H!BackupAges, H!CronStops, H!Fault, TracesFade
  <2>5. ASSUME NEW s \in Watched,
               \/ H!MarkDead(s) \/ H!Reconnect(s) \/ H!Event(s) \/ H!EventAges(s)
               \/ H!Lose(s)
        PROVE  TracesFade
    BY <2>5 DEF H!MarkDead, H!Reconnect, H!Event, H!EventAges, H!Lose, H!Fault, TracesFade
  <2> QED
    BY <1>1, <2>1, <2>2, <2>3, <2>4, <2>5 DEF H!Next
<1> QED
  BY <1>1, PTL DEF H!Spec

-----------------------------------------------------------------------------
(* The parts side by side *)

\* A step of one part is no step of another.
LEMMA OnlyOne ==
    ASSUME NEW p, Only(p)
    PROVE  /\ p # "breaker" => UNCHANGED vars
           /\ p # "bridge" => UNCHANGED bridge
           /\ p # "health" => UNCHANGED health
           /\ p # "sse" => UNCHANGED sse
           /\ p # "streams" => UNCHANGED streams
           /\ p # "paging" => UNCHANGED paging
           /\ p # "digging" => UNCHANGED digging
           /\ p # "ws" => UNCHANGED socket
BY DEF Only

\* To each part a step of the whole is a step of its own or none.
LEMMA PartSteps ==
    ASSUME [PartsNext]_all
    PROVE  /\ [Next]_vars
           /\ [B!Next]_(B!vars) /\ [H!Next]_(H!vars) /\ [E!Next]_(E!vars)
           /\ [A!Next]_(A!vars) /\ [P!Next]_(P!vars) /\ [D!Next]_(D!vars)
           /\ [W!Next]_(W!vars)
<1>1. /\ UNCHANGED bridge => UNCHANGED B!vars
      /\ UNCHANGED health => UNCHANGED H!vars
      /\ UNCHANGED sse => UNCHANGED E!vars
      /\ UNCHANGED streams => UNCHANGED A!vars
      /\ UNCHANGED paging => UNCHANGED P!vars
      /\ UNCHANGED digging => UNCHANGED D!vars
      /\ UNCHANGED socket => UNCHANGED W!vars
  BY DEF bridge, B!vars, health, H!vars, H!jobs, H!stages, sse, E!vars, E!browser,
         E!broadcaster, streams, A!vars, paging, P!vars, digging, D!vars, socket, W!vars
<1>2. CASE UNCHANGED all
  BY <1>1, <1>2 DEF all
<1>3. CASE Only("breaker") /\ Next
  BY <1>1, <1>3, OnlyOne
<1>4. CASE Only("bridge") /\ B!Next
  BY <1>1, <1>4, OnlyOne
<1>5. CASE Only("health") /\ H!Next
  BY <1>1, <1>5, OnlyOne
<1>6. CASE Only("sse") /\ E!Next
  BY <1>1, <1>6, OnlyOne
<1>7. CASE Only("streams") /\ A!Next
  BY <1>1, <1>7, OnlyOne
<1>8. CASE Only("paging") /\ P!Next
  BY <1>1, <1>8, OnlyOne
<1>9. CASE Only("digging") /\ D!Next
  BY <1>1, <1>9, OnlyOne
<1>10. CASE Only("ws") /\ W!Next
  BY <1>1, <1>10, OnlyOne
<1> QED
  BY <1>2, <1>3, <1>4, <1>5, <1>6, <1>7, <1>8, <1>9, <1>10 DEF PartsNext

\* The breaker, the bridge, /health, the events, the proxy, the pages, the
\* streaks and the browser each do in the whole what they do alone: what a
\* module's specification implies holds there too.
THEOREM PartsAreParts ==
    PartsSpec => /\ Spec /\ B!Spec /\ H!Spec /\ E!Spec
                 /\ A!Spec /\ P!Spec /\ D!Spec /\ W!Spec
<1>1. PartsInit => /\ Init /\ B!Init /\ H!Init /\ E!Init
                   /\ A!Init /\ P!Init /\ D!Init /\ W!Init
  BY DEF PartsInit
<1> QED
  BY <1>1, PartSteps, PTL
  DEF PartsSpec, Spec, B!Spec, H!Spec, E!Spec, A!Spec, P!Spec, D!Spec, W!Spec

\* The bridge that BridgeProofs is about is the one of MCParts.
LEMMA SameBridge ==
    /\ B!Init <=> BP!Init
    /\ [B!Next]_(B!vars) <=> [BP!Next]_(BP!vars)
    /\ B!SchemaReady <=> BP!SchemaReady
    /\ B!RestartsForCause <=> BP!RestartsForCause
<1>1. B!Init <=> BP!Init
  BY Zenon DEF B!Init, BP!Init
<1>2. B!Next <=> BP!Next
  BY Zenon
  DEF B!Next, BP!Next, B!Boot, BP!Boot, B!ConnectDB, BP!ConnectDB,
      B!BootFails, BP!BootFails, B!ExecuteLost, BP!ExecuteLost, B!Migrate,
      BP!Migrate, B!Check, BP!Check, B!Execute, BP!Execute, B!Record,
      BP!Record, B!Serve, BP!Serve, B!Stopped, BP!Stopped, B!Watchdog,
      BP!Watchdog, B!Probe, BP!Probe, B!Terminate, BP!Terminate, B!Respawn,
      BP!Respawn, B!Crash, BP!Crash, B!Hang, BP!Hang, B!PgDown, BP!PgDown,
      B!PgUp, BP!PgUp, B!Fault, BP!Fault, B!Skip, BP!Skip, B!Answers,
      BP!Answers, B!CountAnswer, BP!CountAnswer, B!CountSilence,
      BP!CountSilence, B!Least, BP!Least, B!Booting, BP!Booting, B!process,
      BP!process, B!schema, BP!schema, B!watchdog, BP!watchdog
<1>3. UNCHANGED B!vars <=> UNCHANGED BP!vars
  BY Zenon DEF B!vars, BP!vars
<1>4. B!SchemaReady <=> BP!SchemaReady
  BY Zenon DEF B!SchemaReady, BP!SchemaReady
<1>5. B!RestartsForCause <=> BP!RestartsForCause
  BY Zenon DEF B!RestartsForCause, BP!RestartsForCause
<1> QED
  BY <1>1, <1>2, <1>3, <1>4, <1>5

\* The calendar that DiggingProofs is about is the one of MCParts.
LEMMA SameCalendar ==
    /\ D!Init <=> DP!Init
    /\ [D!Next]_(D!vars) <=> [DP!Next]_(DP!vars)
    /\ D!StreaksRight <=> DP!StreaksRight
<1>1. D!Init <=> DP!Init
  BY Zenon DEF D!Init, DP!Init, D!Days, DP!Days
<1>2. D!Next <=> DP!Next
  BY Zenon DEF D!Next, DP!Next, D!Midnight, DP!Midnight, D!AddTrack, DP!AddTrack, D!Days, DP!Days
<1>3. UNCHANGED D!vars <=> UNCHANGED DP!vars
  BY Zenon DEF D!vars, DP!vars
<1>4. D!StreaksRight <=> DP!StreaksRight
  BY Zenon
  DEF D!StreaksRight, DP!StreaksRight, D!Longest, DP!Longest, D!RunTo,
      DP!RunTo, D!Runs, DP!Runs, D!Length, DP!Length, D!Dates, DP!Dates,
      D!Days, DP!Days, D!Before, DP!Before, D!Consecutive, DP!Consecutive,
      D!Max, DP!Max, D!CurrentRun, DP!CurrentRun, D!InRun, DP!InRun, D!After,
      DP!After, D!Current, DP!Current, D!BestWeek, DP!BestWeek, D!WeekFrom,
      DP!WeekFrom, D!EightDays, DP!EightDays, D!Reach, DP!Reach, D!Idle,
      DP!Idle, D!SumFunctionOnSet,
      DP!SumFunctionOnSet, D!FoldFunctionOnSet, DP!FoldFunctionOnSet,
      D!MapThenFoldSet, DP!MapThenFoldSet, D!Cardinality, DP!Cardinality
<1> QED
  BY <1>1, <1>2, <1>3, <1>4

\* Wherever earlier boots were killed, a recorded migration has been executed
\* after all before it, and a bridge with a database serves with the whole
\* schema (db.go:45-93, main.go:53-59).
THEOREM SchemaIsReady == PartsSpec => []SchemaReady
<1>1. BP!Spec => []BP!SchemaReady
  BY PartsAssumption, BP!SchemaIsReady
<1> QED
  BY <1>1, PartsAreParts, SameBridge, PTL DEF SchemaReady, B!Spec, BP!Spec

\* The watchdog stops a bridge only after FailThreshold probes in a row without
\* any answer (bridge-watchdog.sh:6-16, 58-74).
THEOREM StopsForCause == PartsSpec => []RestartsForCause
<1>1. BP!Spec => []BP!RestartsForCause
  BY PartsAssumption, BP!StopsForCause
<1> QED
  BY <1>1, PartsAreParts, SameBridge, PTL DEF RestartsForCause, B!Spec, BP!Spec

\* No event is sent on a closed channel (hub.go:251-283).
THEOREM PartsNoSendOnClosed == PartsSpec => []SseNoSendOnClosed
BY PartsAreParts, NoSendOnClosed, PTL DEF SseNoSendOnClosed

\* Each stage's count is that of its streams (stream.go:71-124).
THEOREM PartsCountsAreRight == PartsSpec => []ListenersCounted
<1>1. A!Spec => []A!ListenersCounted
  BY PartsAssumption, CountsAreRight
<1> QED
  BY <1>1, PartsAreParts, PTL DEF ListenersCounted

\* Paging to the end misses no play (history.go:80-98).
THEOREM PartsNoPageMissed == PartsSpec => []PagesMissNone
<1>1. P!Spec => []P!PagesMissNone
  BY PartsAssumption, NoPageMissed
<1> QED
  BY <1>1, PartsAreParts, PTL DEF PagesMissNone

\* The current and the longest streak and the best week are exactly what
\* StreaksRight says of the calendar (digging.go:302-369).
THEOREM PartsStreaksAreRight == PartsSpec => []StreaksRight
<1>1. DP!Spec => []DP!StreaksRight
  BY PartsAssumption, DP!StreaksAreRight
<1> QED
  BY <1>1, PartsAreParts, SameCalendar, PTL DEF StreaksRight, D!Spec, DP!Spec

=============================================================================
