-------------------------------- MODULE WSClient --------------------------------
(***************************************************************************)
(* The browser's WebSocket (apps/web/src/lib/ws.ts) and what the hub knows *)
(* of its subscriptions.  A connection that ends takes the subscriptions   *)
(* and the messages under way with it; the browser reconnects after a      *)
(* delay and subscribes again.  No page calls disconnect.                  *)
(***************************************************************************)
EXTENDS Naturals, Sequences

CONSTANTS
    Stages,
    MaxFaults,     \* bound on connections that end
    MaxCalls       \* bound on subscribe and unsubscribe

VARIABLES
    ws,            \* "null", "connecting", "open", or "ended" before onclose
    timer,         \* reconnectTimer is set
    subs,          \* subscribedStages
    pipe,          \* messages on their way to the hub
    hub,           \* the hub's subscriptions of the connection
    faults,
    calls

vars == <<ws, timer, subs, pipe, hub, faults, calls>>

Init ==
    /\ ws = "null" /\ timer = FALSE
    /\ subs = {} /\ pipe = <<>> /\ hub = {}
    /\ faults = 0 /\ calls = 0

\* The providers' effect (providers.tsx:20) and the timer call connect.
Connect ==
    /\ ws = "null" /\ ~timer
    /\ ws' = "connecting"
    /\ UNCHANGED <<timer, subs, pipe, hub, faults, calls>>

TimerFires ==
    /\ timer
    /\ timer' = FALSE
    /\ ws' = IF ws \in {"connecting", "open"} THEN ws ELSE "connecting"
    /\ UNCHANGED <<subs, pipe, hub, faults, calls>>

\* Variant: onopen does not subscribe again.
OnOpenForgets ==
    /\ ws = "connecting"
    /\ ws' = "open"
    /\ hub' = {} /\ pipe' = <<>>
    /\ UNCHANGED <<timer, subs, faults, calls>>

OnOpen ==
    /\ ws = "connecting"
    /\ ws' = "open"
    /\ hub' = {}
    /\ pipe' = IF subs # {} THEN <<[add |-> subs, drop |-> {}]>> ELSE <<>>
    /\ UNCHANGED <<timer, subs, faults, calls>>

SendIfOpen(msg) == pipe' = IF ws = "open" THEN Append(pipe, msg) ELSE pipe

Call == calls < MaxCalls /\ calls' = calls + 1

Subscribe(S) ==
    /\ Call
    /\ subs' = subs \cup S
    /\ SendIfOpen([add |-> S, drop |-> {}])
    /\ UNCHANGED <<ws, timer, hub, faults>>

Unsubscribe(S) ==
    /\ Call
    /\ subs' = subs \ S
    /\ SendIfOpen([add |-> {}, drop |-> S])
    /\ UNCHANGED <<ws, timer, hub, faults>>

\* HandleWS reads the next message (Hub has the details).
Arrive ==
    /\ ws = "open" /\ pipe # <<>>
    /\ hub' = (hub \cup Head(pipe).add) \ Head(pipe).drop
    /\ pipe' = Tail(pipe)
    /\ UNCHANGED <<ws, timer, subs, faults, calls>>

\* The network, the bridge's end, or a failed connection.
Break ==
    /\ ws \in {"connecting", "open"}
    /\ faults < MaxFaults /\ faults' = faults + 1
    /\ ws' = "ended" /\ pipe' = <<>> /\ hub' = {}
    /\ UNCHANGED <<timer, subs, calls>>

\* onclose: ws = null, scheduleReconnect.
OnClose ==
    /\ ws = "ended"
    /\ ws' = "null" /\ timer' = TRUE
    /\ UNCHANGED <<subs, pipe, hub, faults, calls>>

Next ==
    \/ Connect \/ TimerFires \/ OnOpen \/ Arrive \/ Break \/ OnClose
    \/ \E S \in SUBSET Stages \ {{}} : Subscribe(S) \/ Unsubscribe(S)

Spec == Init /\ [][Next]_vars

\* The browser's timers and events happen, and the hub reads.
Proceed == Connect \/ TimerFires \/ OnOpen \/ Arrive \/ OnClose

-----------------------------------------------------------------------------

\* Once connections stop breaking, the hub has the browser's subscriptions,
\* whether they were asked for before, between or during connections
\* (ws.ts:64-72, 101-106, 118-127, 150-157).
SubscriptionsReach == []<>(ws = "open" /\ hub = subs)
=============================================================================
