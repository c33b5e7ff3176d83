-------------------------------- MODULE MCParts --------------------------------
(***************************************************************************)
(* One model for the small components that share no state: the circuit     *)
(* breaker, the process and its watchdog, /health, the server-sent events, *)
(* the audio proxy, the paging of the history, the streaks, and the        *)
(* browser's WebSocket.  Each behaviour exercises one of them; the others  *)
(* keep their initial state.                                               *)
(***************************************************************************)
EXTENDS CircuitBreaker, FiniteSets

CONSTANTS
    Migrations, FailThreshold, MaxFaults, MaxLosses, Stages, Watched, Browsers, Listeners, Buf,
    MaxChanges, Requests, NoCounter, PerPage, MaxPlays, MaxDay, MaxPerDay, MaxCalls

ASSUME PartsAssumption ==
    /\ Migrations \in Nat /\ FailThreshold \in Nat \ {0} /\ MaxFaults \in Nat
    /\ IsFiniteSet(Requests) /\ NoCounter \notin Requests \X Stages
    /\ PerPage \in Nat /\ MaxPlays \in Nat
    /\ MaxDay \in Nat /\ MaxPerDay \in Nat

VARIABLES
    part,                                                        \* the one exercised
    life, db, next, pg, applied, recorded, fails, dog, unheard, faults,     \* Bridge
    handle, postgres, imported, stuck, lastOK, lastFailed, failedLast, cron,
    alive, heard, lost, losses,                                             \* Health
    subscribed, sseClients, closed, events, handler, shown, caster, data,
    todo, changes,                                                          \* SSE
    at, stage, listeners, counter, value,                                   \* Streams
    plays, order, page, step, total, seen, started, late,                   \* Paging
    today, added,                                                           \* Digging
    ws, timer, subs, pipe, hub, breaks, calls                               \* WSClient

B == INSTANCE Bridge
H == INSTANCE Health WITH Stages <- Watched, MaxFaults <- MaxLosses,
                          db <- handle, pg <- postgres, faults <- losses
E == INSTANCE SSE
A == INSTANCE Streams
P == INSTANCE Paging
D == INSTANCE Digging
W == INSTANCE WSClient WITH MaxFaults <- MaxLosses, faults <- breaks

Parts == {"breaker", "bridge", "health", "sse", "streams", "paging", "digging", "ws"}

bridge == <<life, db, next, pg, applied, recorded, fails, dog, unheard, faults>>
health == <<handle, postgres, imported, stuck, lastOK, lastFailed, failedLast, cron,
            alive, heard, lost, losses>>
sse == <<subscribed, sseClients, closed, events, handler, shown, caster, data, todo,
         changes>>
streams == <<at, stage, listeners, counter, value>>
paging == <<plays, order, page, step, total, seen, started, late>>
digging == <<today, added>>
socket == <<ws, timer, subs, pipe, hub, breaks, calls>>

all == <<part, vars, bridge, health, sse, streams, paging, digging, socket>>

\* The choices of an initial state are made for the part that is exercised.
PartsInit ==
    /\ part \in Parts
    /\ Init /\ B!Init /\ H!Init /\ E!Init /\ A!Init /\ P!Init /\ D!Init /\ W!Init
    /\ part # "bridge" => pg
    /\ part # "health" => postgres
    /\ part # "streams" => stage = [r \in Requests |-> CHOOSE s \in Stages : TRUE]
    /\ part # "paging" => plays = 0 /\ order = "newest"

\* The step is one of part p, and of no other.
Only(p) ==
    /\ part = p /\ UNCHANGED part
    /\ IF p = "breaker" THEN TRUE ELSE UNCHANGED vars
    /\ IF p = "bridge" THEN TRUE ELSE UNCHANGED bridge
    /\ IF p = "health" THEN TRUE ELSE UNCHANGED health
    /\ IF p = "sse" THEN TRUE ELSE UNCHANGED sse
    /\ IF p = "streams" THEN TRUE ELSE UNCHANGED streams
    /\ IF p = "paging" THEN TRUE ELSE UNCHANGED paging
    /\ IF p = "digging" THEN TRUE ELSE UNCHANGED digging
    /\ IF p = "ws" THEN TRUE ELSE UNCHANGED socket

PartsNext ==
    \/ Only("breaker") /\ Next
    \/ Only("bridge") /\ B!Next
    \/ Only("health") /\ H!Next
    \/ Only("sse") /\ E!Next
    \/ Only("streams") /\ A!Next
    \/ Only("paging") /\ P!Next
    \/ Only("digging") /\ D!Next
    \/ Only("ws") /\ W!Next

PartsSpec == PartsInit /\ [][PartsNext]_all

\* cron runs the watchdog, its script ends, and the boot goes on.
BridgeFairness ==
    WF_all(Only("bridge") /\ B!Watchdog) /\ WF_all(Only("bridge") /\ B!Boot)

\* Time passes; commands to an MPD that is gone fail.
HealthFairness ==
    /\ WF_all(Only("health") /\ H!ImportAges)
    /\ WF_all(Only("health") /\ H!BackupAges)
    /\ \A s \in Watched :
          WF_all(Only("health") /\ s \in lost /\ (H!MarkDead(s) \/ H!EventAges(s)))

\* The ticker fires, the broadcaster goes on, and a browser reads.
SSEFairness ==
    /\ WF_all(Only("sse") /\ E!Broadcaster)
    /\ \A b \in Browsers : WF_all(Only("sse") /\ E!Write(b))

\* The browser's timers and events happen, and the hub reads.
WSFairness == WF_all(Only("ws") /\ W!Proceed)

FairSpec ==
    PartsSpec /\ BridgeFairness /\ HealthFairness /\ SSEFairness /\ WSFairness

-----------------------------------------------------------------------------
(* The properties of the parts; those of the breaker are CircuitBreaker's *)

\* The schema is whole and in order (db.go:45-93).
SchemaReady == B!SchemaReady

\* A bridge that answers anything is not restarted (bridge-watchdog.sh:6-16).
RestartsForCause == B!RestartsForCause

\* A dead or wedged bridge is replaced (bridge-watchdog.sh:14-18).
BridgeComesBack == part = "bridge" => B!BridgeComesBack

\* What broke for good shows in /health (main.go:603-673).
BrokenShows == H!BrokenShows

\* No event is sent on a closed channel (hub.go:251-283).
SseNoSendOnClosed == E!SseNoSendOnClosed

\* The count shown becomes the count there is (main.go:322-338).
CountsConverge == part = "sse" => E!CountsConverge

\* Each stage's count is that of its streams (stream.go:71-124).
ListenersCounted == A!ListenersCounted

\* Paging to the end misses no play (history.go:80-98).
PagesMissNone == P!PagesMissNone

\* The streaks and the best week are exactly what the calendar's days make
\* them, the eighth day and the missing ones included (digging.go:302-369).
StreaksRight == D!StreaksRight

\* The hub gets the browser's subscriptions (ws.ts:64-157).
SubscriptionsReach == part = "ws" => W!SubscriptionsReach
=============================================================================
