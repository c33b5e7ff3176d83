--------------------------------- MODULE Hub ---------------------------------
(***************************************************************************)
(* The WebSocket hub (apps/bridge/hub/hub.go and HandleWS in handler.go).  *)
(*                                                                         *)
(* Each stage has one goroutine that broadcasts its track changes, the     *)
(* watch loop of mpd/pool.go through onChange, so the broadcasts of one    *)
(* stage follow each other and those of two stages run side by side under  *)
(* h.mu's read lock.  Each connection has a reader goroutine, which runs   *)
(* HandleWS, and a writer goroutine; they share the Send channel with the  *)
(* broadcasters.  A message is the stage it is about and the number of the *)
(* broadcast that made it.                                                 *)
(***************************************************************************)
EXTENDS Naturals, Sequences

CONSTANTS
    Conns,       \* identities of hub.Client
    Nobody,      \* no client
    Stages,      \* the valid stages
    Cap,         \* sendBufSize
    MaxVersion   \* bound on the broadcasts of one stage

ASSUME HubAssumption ==
    /\ Nobody \notin Conns
    /\ Cap \in Nat \ {0}
    /\ MaxVersion \in Nat

VARIABLES
    clients,     \* Hub.clients
    snapshots,   \* Hub.snapshots: the version cached per stage, 0 when absent
    subs,        \* Client.stages
    Send,        \* the contents of Client.Send
    open,        \* is Client.Send open?
    version,     \* the last version each stage has announced
    bpc,         \* BroadcastNowPlaying: where each stage's broadcaster is
    todo,        \* the clients its loop has still to visit
    at,          \* the client it is sending to
    rpc,         \* where each connection's reader is
    step,        \* how far it is in handling a subscribe
    req,         \* the stages of the message it handles
    snaps,       \* what h.Snapshot returned to it
    wpc,         \* where each connection's writer is
    wmsg,        \* the message it writes
    up,          \* is the WebSocket connection up?
    got,         \* the newest version the browser received of each stage
    lost         \* has a message to this browser been drained or dropped?

cast == <<bpc, todo, at>>
read == <<rpc, step, req, snaps>>
write == <<wpc, wmsg>>
vars == <<clients, snapshots, subs, Send, open, version, bpc, todo, at, rpc,
          step, req, snaps, wpc, wmsg, up, got, lost>>

Message == [stage : Stages, ver : 1..MaxVersion]
NoMessage == [stage |-> Nobody, ver |-> 0]
Zero == [s \in Stages |-> 0]

Init ==
    /\ clients = {}
    /\ snapshots = Zero
    /\ subs = [c \in Conns |-> {}]
    /\ Send = [c \in Conns |-> <<>>]
    /\ open = [c \in Conns |-> FALSE]
    /\ version = Zero
    /\ bpc = [s \in Stages |-> "idle"]
    /\ todo = [s \in Stages |-> {}]
    /\ at = [s \in Stages |-> Nobody]
    /\ rpc = [c \in Conns |-> "off"]
    /\ step = [c \in Conns |-> 0]
    /\ req = [c \in Conns |-> {}]
    /\ snaps = [c \in Conns |-> {}]
    /\ wpc = [c \in Conns |-> "done"]
    /\ wmsg = [c \in Conns |-> NoMessage]
    /\ up = [c \in Conns |-> FALSE]
    /\ got = [c \in Conns |-> Zero]
    /\ lost = [c \in Conns |-> FALSE]

\* h.mu: a broadcaster in its loop holds the read lock.
NoReader == \A s \in Stages : bpc[s] \notin {"visit", "try", "drain", "retry"}

-----------------------------------------------------------------------------
(* BroadcastNowPlaying and broadcastToStage                                *)

\* The new version is cached for later subscribers.
Cache(s) ==
    /\ bpc[s] = "idle"
    /\ version[s] < MaxVersion
    /\ version' = [version EXCEPT ![s] = @ + 1]
    /\ snapshots' = [snapshots EXCEPT ![s] = version[s] + 1]
    /\ bpc' = [bpc EXCEPT ![s] = "cached"]
    /\ UNCHANGED <<clients, subs, Send, open, todo, at, read, write, up, got, lost>>

\* h.mu.RLock
Lock(s) ==
    /\ bpc[s] = "cached"
    /\ todo' = [todo EXCEPT ![s] = clients]
    /\ bpc' = [bpc EXCEPT ![s] = "visit"]
    /\ UNCHANGED <<clients, snapshots, subs, Send, open, version, at, read,
                   write, up, got, lost>>

\* The next client of the range, or its end and RUnlock.
Visit(s) ==
    /\ bpc[s] = "visit"
    /\ IF todo[s] = {}
       THEN /\ bpc' = [bpc EXCEPT ![s] = "idle"]
            /\ UNCHANGED <<todo, at>>
       ELSE \E c \in todo[s] :
               /\ todo' = [todo EXCEPT ![s] = @ \ {c}]
               /\ IF s \in subs[c]
                  THEN /\ at' = [at EXCEPT ![s] = c]
                       /\ bpc' = [bpc EXCEPT ![s] = "try"]
                  ELSE UNCHANGED <<at, bpc>>
    /\ UNCHANGED <<clients, snapshots, subs, Send, open, version, read, write,
                   up, got, lost>>

\* Variant: a buffer without bound.
OfferUnbounded(s, c) ==
    /\ Send' = [Send EXCEPT ![c] = Append(@, [stage |-> s, ver |-> version[s]])]
    /\ bpc' = [bpc EXCEPT ![s] = "visit"]
    /\ at' = [at EXCEPT ![s] = Nobody]
    /\ UNCHANGED lost

\* A send on the client's channel in a select with a default.
Offer(s, c) ==
    /\ Len(Send[c]) < Cap
    /\ Send' = [Send EXCEPT ![c] = Append(@, [stage |-> s, ver |-> version[s]])]
    /\ bpc' = [bpc EXCEPT ![s] = "visit"]
    /\ at' = [at EXCEPT ![s] = Nobody]
    /\ UNCHANGED lost

Try(s) ==
    /\ bpc[s] = "try"
    /\ \/ Offer(s, at[s])
       \/ /\ Len(Send[at[s]]) = Cap
          /\ bpc' = [bpc EXCEPT ![s] = "drain"]
          /\ UNCHANGED <<Send, at, lost>>
    /\ UNCHANGED <<clients, snapshots, subs, open, version, todo, read, write,
                   up, got>>

\* One message, the oldest of any stage, makes room.
Drain(s) ==
    /\ bpc[s] = "drain"
    /\ LET c == at[s] IN
       IF Send[c] = <<>> THEN UNCHANGED <<Send, lost>>
       ELSE /\ Send' = [Send EXCEPT ![c] = Tail(@)]
            /\ lost' = [lost EXCEPT ![c] = TRUE]
    /\ bpc' = [bpc EXCEPT ![s] = "retry"]
    /\ UNCHANGED <<clients, snapshots, subs, open, version, todo, at, read,
                   write, up, got>>

\* Variant: the second send is tried until it succeeds.
RetrySpins(s) ==
    /\ bpc[s] = "retry"
    /\ \/ Offer(s, at[s])
       \/ /\ Len(Send[at[s]]) = Cap
          /\ UNCHANGED <<Send, at, lost, bpc>>
    /\ UNCHANGED <<clients, snapshots, subs, open, version, todo, read, write,
                   up, got>>

\* The second attempt; if others have filled the room the message is dropped.
Retry(s) ==
    /\ bpc[s] = "retry"
    /\ \/ Offer(s, at[s])
       \/ /\ Len(Send[at[s]]) = Cap
          /\ lost' = [lost EXCEPT ![at[s]] = TRUE]
          /\ bpc' = [bpc EXCEPT ![s] = "visit"]
          /\ at' = [at EXCEPT ![s] = Nobody]
          /\ UNCHANGED Send
    /\ UNCHANGED <<clients, snapshots, subs, open, version, todo, read, write,
                   up, got>>

-----------------------------------------------------------------------------
(* HandleWS: the reader                                                    *)

\* Accept, NewClient, Register and the start of the writer.
Connect(c) ==
    /\ rpc[c] = "off"
    /\ NoReader
    /\ clients' = clients \cup {c}
    /\ open' = [open EXCEPT ![c] = TRUE]
    /\ up' = [up EXCEPT ![c] = TRUE]
    /\ rpc' = [rpc EXCEPT ![c] = "read"]
    /\ wpc' = [wpc EXCEPT ![c] = "range"]
    /\ UNCHANGED <<snapshots, subs, Send, version, cast, step, req, snaps, wmsg,
                   got, lost>>

\* A subscribe message has been read.
Receive(c, stages) ==
    /\ rpc[c] = "read"
    /\ up[c]
    /\ rpc' = [rpc EXCEPT ![c] = "handle"]
    /\ step' = [step EXCEPT ![c] = 1]
    /\ req' = [req EXCEPT ![c] = stages]
    /\ UNCHANGED <<clients, snapshots, subs, Send, open, version, cast, snaps,
                   write, up, got, lost>>

\* Variant: the snapshot is read before the subscription is in place.
SnapshotFirst == <<"snapshot", "subscribe">>

\* What the reader does of a subscribe message, in this order, before it
\* queues the snapshots.
SubscribeOrder == <<"subscribe", "snapshot">>

Subscribe(c) ==
    /\ subs' = [subs EXCEPT ![c] = @ \cup req[c]]
    /\ UNCHANGED snaps

Snapshot(c) ==
    /\ snaps' = [snaps EXCEPT ![c] =
          {[stage |-> s, ver |-> snapshots[s]] :
              s \in {t \in req[c] : snapshots[t] # 0}}]
    /\ UNCHANGED subs

Handle(c) ==
    /\ rpc[c] = "handle"
    /\ IF SubscribeOrder[step[c]] = "subscribe" THEN Subscribe(c) ELSE Snapshot(c)
    /\ IF step[c] < Len(SubscribeOrder)
       THEN step' = [step EXCEPT ![c] = @ + 1] /\ UNCHANGED <<rpc, req>>
       ELSE /\ step' = [step EXCEPT ![c] = 0]
            /\ rpc' = [rpc EXCEPT ![c] = "queue"]
            /\ req' = [req EXCEPT ![c] = {}]
    /\ UNCHANGED <<clients, snapshots, Send, open, version, cast, write, up, got,
                   lost>>

\* The snapshots are sent one by one, without waiting for room.
QueueSnapshot(c) ==
    /\ rpc[c] = "queue"
    /\ IF snaps[c] = {}
       THEN /\ rpc' = [rpc EXCEPT ![c] = "read"]
            /\ UNCHANGED <<Send, snaps, lost>>
       ELSE \E m \in snaps[c] :
               /\ snaps' = [snaps EXCEPT ![c] = @ \ {m}]
               /\ IF Len(Send[c]) < Cap
                  THEN Send' = [Send EXCEPT ![c] = Append(@, m)] /\ UNCHANGED lost
                  ELSE lost' = [lost EXCEPT ![c] = TRUE] /\ UNCHANGED Send
               /\ UNCHANGED rpc
    /\ UNCHANGED <<clients, snapshots, subs, open, version, cast, step, req,
                   write, up, got>>

\* An unsubscribe message.
Unsubscribe(c, stages) ==
    /\ rpc[c] = "read"
    /\ up[c]
    /\ subs' = [subs EXCEPT ![c] = @ \ stages]
    /\ UNCHANGED <<clients, snapshots, Send, open, version, cast, read, write, up,
                   got, lost>>

\* Variant: Unregister without h.mu.
UnregisterUnlocked(c) ==
    /\ rpc[c] = "read"
    /\ ~up[c]
    /\ clients' = clients \ {c}
    /\ open' = [open EXCEPT ![c] = FALSE]
    /\ rpc' = [rpc EXCEPT ![c] = "wait"]
    /\ UNCHANGED <<snapshots, subs, Send, version, cast, step, req, snaps, write,
                   up, got, lost>>

\* conn.Read failed: the deferred Unregister, under h.mu.
Unregister(c) ==
    /\ rpc[c] = "read"
    /\ ~up[c]
    /\ NoReader
    /\ clients' = clients \ {c}
    /\ open' = [open EXCEPT ![c] = FALSE]
    /\ rpc' = [rpc EXCEPT ![c] = "wait"]
    /\ UNCHANGED <<snapshots, subs, Send, version, cast, step, req, snaps, write,
                   up, got, lost>>

\* writerWg.Wait returned; the Client is garbage and its name may be used again.
Leave(c) ==
    /\ rpc[c] = "wait"
    /\ wpc[c] = "done"
    /\ rpc' = [rpc EXCEPT ![c] = "off"]
    /\ subs' = [subs EXCEPT ![c] = {}]
    /\ Send' = [Send EXCEPT ![c] = <<>>]
    /\ got' = [got EXCEPT ![c] = Zero]
    /\ lost' = [lost EXCEPT ![c] = FALSE]
    /\ UNCHANGED <<clients, snapshots, open, version, cast, step, req, snaps,
                   write, up>>

-----------------------------------------------------------------------------
(* HandleWS: the writer, and the network                                   *)

\* Variant: the writer skips the zero values it receives of a closed channel.
TakeNextSpins(c) ==
    /\ wpc[c] = "range"
    /\ \/ /\ Send[c] # <<>>
          /\ wmsg' = [wmsg EXCEPT ![c] = Head(Send[c])]
          /\ Send' = [Send EXCEPT ![c] = Tail(@)]
          /\ wpc' = [wpc EXCEPT ![c] = "write"]
       \/ /\ Send[c] = <<>> /\ ~open[c]
          /\ UNCHANGED <<Send, wmsg, wpc>>
    /\ UNCHANGED <<clients, snapshots, subs, open, version, cast, read, up, got,
                   lost>>

\* range client.Send
TakeNext(c) ==
    /\ wpc[c] = "range"
    /\ \/ /\ Send[c] # <<>>
          /\ wmsg' = [wmsg EXCEPT ![c] = Head(Send[c])]
          /\ Send' = [Send EXCEPT ![c] = Tail(@)]
          /\ wpc' = [wpc EXCEPT ![c] = "write"]
          /\ UNCHANGED up
       \/ /\ Send[c] = <<>> /\ ~open[c]
          /\ wpc' = [wpc EXCEPT ![c] = "done"]
          /\ up' = [up EXCEPT ![c] = FALSE]
          /\ UNCHANGED <<Send, wmsg>>
    /\ UNCHANGED <<clients, snapshots, subs, open, version, cast, read, got, lost>>

Larger(a, b) == IF a > b THEN a ELSE b

\* conn.Write succeeds and the browser has the message.
Written(c) ==
    /\ wpc[c] = "write"
    /\ up[c]
    /\ got' = [got EXCEPT ![c][wmsg[c].stage] = Larger(@, wmsg[c].ver)]
    /\ wpc' = [wpc EXCEPT ![c] = "range"]
    /\ wmsg' = [wmsg EXCEPT ![c] = NoMessage]
    /\ UNCHANGED <<clients, snapshots, subs, Send, open, version, cast, read, up,
                   lost>>

\* conn.Write fails, or takes more than 5 s: the writer closes and leaves.
WriteFails(c) ==
    /\ wpc[c] = "write"
    /\ wpc' = [wpc EXCEPT ![c] = "done"]
    /\ wmsg' = [wmsg EXCEPT ![c] = NoMessage]
    /\ up' = [up EXCEPT ![c] = FALSE]
    /\ UNCHANGED <<clients, snapshots, subs, Send, open, version, cast, read, got,
                   lost>>

\* The browser goes away.
Disconnect(c) ==
    /\ up[c]
    /\ up' = [up EXCEPT ![c] = FALSE]
    /\ UNCHANGED <<clients, snapshots, subs, Send, open, version, cast, read,
                   write, got, lost>>

-----------------------------------------------------------------------------

Broadcast(s) == Cache(s) \/ Lock(s) \/ Visit(s) \/ Try(s) \/ Drain(s) \/ Retry(s)

Reader(c) ==
    \/ \E stages \in SUBSET Stages \ {{}} : Receive(c, stages) \/ Unsubscribe(c, stages)
    \/ Handle(c) \/ QueueSnapshot(c) \/ Unregister(c) \/ Leave(c)

Writer(c) == TakeNext(c) \/ Written(c) \/ WriteFails(c)

Next ==
    \/ \E s \in Stages : Broadcast(s)
    \/ \E c \in Conns : Connect(c) \/ Reader(c) \/ Writer(c) \/ Disconnect(c)

Spec == Init /\ [][Next]_vars

\* The loops of a broadcaster, a reader and a writer go on; a Lock waiting on
\* an RWMutex holds back new readers, so it is not passed over for ever.
\* Browsers, disconnections and successful writes are not promised: a write
\* that does not succeed fails after 5 s.
Fairness ==
    /\ \A s \in Stages : WF_vars(Lock(s) \/ Visit(s) \/ Try(s) \/ Drain(s) \/ Retry(s))
    /\ \A c \in Conns :
          /\ WF_vars(Handle(c) \/ QueueSnapshot(c) \/ Leave(c))
          /\ SF_vars(Unregister(c))
          /\ WF_vars(Writer(c))

FairSpec == Spec /\ Fairness

-----------------------------------------------------------------------------
(* Properties                                                              *)

\* The types; a Send buffer never holds more than its capacity (hub.go:11, 132).
TypeOK ==
    /\ clients \in SUBSET Conns
    /\ snapshots \in [Stages -> 0..MaxVersion]
    /\ subs \in [Conns -> SUBSET Stages]
    /\ Send \in [Conns -> Seq(Message)]
    /\ \A c \in Conns : Len(Send[c]) <= Cap
    /\ open \in [Conns -> BOOLEAN]
    /\ version \in [Stages -> 0..MaxVersion]
    /\ bpc \in [Stages -> {"idle", "cached", "visit", "try", "drain", "retry"}]
    /\ todo \in [Stages -> SUBSET Conns]
    /\ at \in [Stages -> Conns \cup {Nobody}]
    /\ rpc \in [Conns -> {"off", "read", "handle", "queue", "wait"}]
    /\ step \in [Conns -> 0..2]
    /\ req \in [Conns -> SUBSET Stages]
    /\ snaps \in [Conns -> SUBSET Message]
    /\ wpc \in [Conns -> {"range", "write", "done"}]
    /\ wmsg \in [Conns -> Message \cup {NoMessage}]
    /\ up \in [Conns -> BOOLEAN]
    /\ got \in [Conns -> [Stages -> 0..MaxVersion]]
    /\ lost \in [Conns -> BOOLEAN]

\* Nothing is ever sent on a closed channel, which would panic: a client is
\* not unregistered while a broadcaster is about to send to it, and its own
\* reader has stopped sending by then (hub.go:144-151, 212-234, handler.go:78-84).
NoSendOnClosed ==
    /\ \A s \in Stages : at[s] # Nobody => open[at[s]]
    /\ \A c \in Conns : rpc[c] = "queue" => open[c]

\* The browser has nothing more to receive about s unless s changes.
AtRest(c, s) ==
    /\ rpc[c] = "read" /\ wpc[c] = "range" /\ up[c]
    /\ Send[c] = <<>>
    /\ bpc[s] = "idle" /\ version[s] # 0
    /\ s \in subs[c]

\* A subscriber whose buffer never overflowed has received the last change,
\* whatever happened between its subscription, the snapshot and a broadcast
\* (hub.go:202-207, handler.go:73-84).
NoMissedUpdate ==
    \A c \in Conns, s \in Stages :
        AtRest(c, s) /\ ~lost[c] => got[c][s] = version[s]

\* What hub.go:189 and 211 say of a full buffer: the message drained to make
\* room is stale: if it is not of the stage being sent, that stage has announced
\* another since.
DrainsStale ==
    [][\A s \in Stages :
          bpc[s] = "drain" /\ bpc'[s] = "retry" /\ Send[at[s]] # <<>>
          => LET m == Head(Send[at[s]]) IN m.stage = s \/ m.ver < version[m.stage]]_vars

\* A broadcast ends however slow the browsers are: no send waits for a reader
\* (hub.go:217-233).
BroadcastEnds == \A s \in Stages : bpc[s] # "idle" ~> bpc[s] = "idle"

\* A connection that is down is unregistered and both its goroutines end
\* (handler.go:37-58).
HandlerEnds == \A c \in Conns : rpc[c] # "off" /\ ~up[c] ~> rpc[c] = "off"
=============================================================================
