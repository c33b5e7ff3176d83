---------------------------------- MODULE SSE ----------------------------------
(***************************************************************************)
(* Server-sent events: the count of listeners that main.go:322-338         *)
(* broadcasts every ten seconds to the browsers of GET /api/events         *)
(* (hub/hub.go:159-172, 236-283, hub/handler.go:94-152).  An event that    *)
(* finds a browser's channel full is dropped.  One stage's count is kept.  *)
(***************************************************************************)
EXTENDS Naturals, Sequences, FiniteSets

CONSTANTS
    Browsers,     \* the connections to /api/events
    Listeners,    \* the WebSocket clients
    Buf,          \* sseBufSize
    MaxChanges    \* bound on subscriptions, and on connections

VARIABLES
    subscribed,   \* the WebSocket clients subscribed to the stage
    sseClients,   \* the hub's set
    closed,       \* the browsers whose channel is closed
    events,       \* events[b]: the channel of b
    handler,      \* handler[b]: where HandleSSE of b is
    shown,        \* shown[b]: the last count written to b
    caster,       \* where the broadcaster is; in its "range" it read-locks sseMu
    data,         \* the count it broadcasts
    todo,         \* the clients it has still to offer it to
    changes

browser == <<sseClients, closed, events, handler, shown>>
broadcaster == <<caster, data, todo>>
vars == <<subscribed, browser, broadcaster, changes>>

Unknown == Cardinality(Listeners) + 1      \* no count yet

Init ==
    /\ subscribed = {}
    /\ sseClients = {} /\ closed = {}
    /\ events = [b \in Browsers |-> <<>>]
    /\ handler = [b \in Browsers |-> "none"]
    /\ shown = [b \in Browsers |-> Unknown]
    /\ caster = "waiting" /\ data = Unknown /\ todo = {}
    /\ changes = 0

ListenerCount == Cardinality(subscribed)

-----------------------------------------------------------------------------
(* The broadcaster *)

\* Variant: nothing is sent while the count stays the same.
CountChanges ==
    /\ caster = "waiting" /\ data # ListenerCount
    /\ caster' = "counted"
    /\ data' = ListenerCount
    /\ UNCHANGED <<subscribed, browser, todo, changes>>

\* The ticker fires.
CountListeners ==
    /\ caster = "waiting"
    /\ caster' = "counted"
    /\ data' = ListenerCount
    /\ UNCHANGED <<subscribed, browser, todo, changes>>

Range ==
    /\ caster = "counted"
    /\ caster' = "range"
    /\ todo' = sseClients
    /\ UNCHANGED <<subscribed, browser, data, changes>>

Offer(b) ==
    /\ b \in todo
    /\ todo' = todo \ {b}
    /\ events' = IF Len(events[b]) < Buf
                 THEN [events EXCEPT ![b] = Append(@, data)]
                 ELSE events
    /\ UNCHANGED <<subscribed, sseClients, closed, handler, shown, caster, data, changes>>

EndRange ==
    /\ caster = "range" /\ todo = {}
    /\ caster' = "waiting"
    /\ UNCHANGED <<subscribed, browser, data, todo, changes>>

Broadcaster == CountListeners \/ Range \/ (\E b \in Browsers : Offer(b)) \/ EndRange

-----------------------------------------------------------------------------
(* HandleSSE *)

Change == changes < MaxChanges /\ changes' = changes + 1

Register(b) ==
    /\ Change
    /\ handler[b] = "none" /\ caster # "range"
    /\ handler' = [handler EXCEPT ![b] = "loop"]
    /\ sseClients' = sseClients \cup {b}
    /\ closed' = closed \ {b}                  \* a channel of its own
    /\ events' = [events EXCEPT ![b] = <<>>]
    /\ shown' = [shown EXCEPT ![b] = Unknown]
    /\ UNCHANGED <<subscribed, broadcaster>>

Write(b) ==
    /\ handler[b] = "loop" /\ events[b] # <<>>
    /\ events' = [events EXCEPT ![b] = Tail(@)]
    /\ shown' = [shown EXCEPT ![b] = Head(events[b])]
    /\ UNCHANGED <<subscribed, sseClients, closed, handler, broadcaster, changes>>

\* The request's context is done, or a write fails.
Leave(b) ==
    /\ handler[b] = "loop"
    /\ handler' = [handler EXCEPT ![b] = "leaving"]
    /\ UNCHANGED <<subscribed, sseClients, closed, events, shown, broadcaster, changes>>

\* Variant: UnregisterSSE does not take sseMu.
UnregisterUnlocked(b) ==
    /\ handler[b] = "leaving"
    /\ handler' = [handler EXCEPT ![b] = "none"]
    /\ sseClients' = sseClients \ {b}
    /\ closed' = closed \cup {b}
    /\ UNCHANGED <<subscribed, events, shown, broadcaster, changes>>

Unregister(b) ==
    /\ handler[b] = "leaving" /\ caster # "range"
    /\ handler' = [handler EXCEPT ![b] = "none"]
    /\ sseClients' = sseClients \ {b}
    /\ closed' = closed \cup {b}
    /\ UNCHANGED <<subscribed, events, shown, broadcaster, changes>>

\* A WebSocket client subscribes to the stage, or unsubscribes.
Listen(l) ==
    /\ Change
    /\ subscribed' = IF l \in subscribed THEN subscribed \ {l} ELSE subscribed \cup {l}
    /\ UNCHANGED <<browser, broadcaster>>

Next ==
    \/ Broadcaster
    \/ \E b \in Browsers : Register(b) \/ Write(b) \/ Leave(b) \/ Unregister(b)
    \/ \E l \in Listeners : Listen(l)

Spec == Init /\ [][Next]_vars

-----------------------------------------------------------------------------
(* Properties *)

\* No event is sent on a channel that HandleSSE has closed, although browsers
\* leave while a broadcast is under way (hub.go:251-259, 273-282).
SseNoSendOnClosed == todo \cap closed = {}

\* Once nobody comes or goes, a browser that reads is shown the number of
\* listeners, also if its channel was full when that number was first sent
\* (main.go:322-338, hub.go:276-281).
CountsConverge ==
    \A b \in Browsers : []<>(handler[b] # "loop" \/ shown[b] = ListenerCount)

=============================================================================
