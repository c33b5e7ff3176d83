------------------------------ MODULE HubProofs ------------------------------
(* Proofs about Hub, for any number of connections and stages and any buffer. *)
EXTENDS Hub, TLAPS

\* The read lock is held.
InLoop == {"visit", "try", "drain", "retry"}

\* The registered clients are those whose channel is open.
OpenMatches == \A c \in Conns : open[c] <=> c \in clients

\* The range a broadcaster is in has only registered clients, since
\* Unregister waits for the lock.
RangeRegistered ==
    \A s \in Stages :
        /\ bpc[s] \in InLoop => todo[s] \subseteq clients
        /\ at[s] # Nobody <=> bpc[s] \in {"try", "drain", "retry"}
        /\ at[s] # Nobody => at[s] \in clients

\* A reader that still handles messages has not unregistered its client.
ReaderRegistered ==
    \A c \in Conns : rpc[c] \in {"read", "handle", "queue"} => c \in clients

\* A broadcaster has something to send, and so has a writer that writes.
Announced == \A s \in Stages : bpc[s] # "idle" => version[s] # 0
Writing == \A c \in Conns : wpc[c] = "write" => wmsg[c] \in Message

IInv ==
    /\ TypeOK
    /\ OpenMatches
    /\ RangeRegistered
    /\ ReaderRegistered
    /\ Announced
    /\ Writing

-----------------------------------------------------------------------------

\* What a send that finds room leaves in the channel.
LEMMA OfferFits ==
    ASSUME NEW s \in Stages, NEW c \in Conns, IInv, bpc[s] # "idle", Offer(s, c)
    PROVE  /\ Send' \in [Conns -> Seq(Message)]
           /\ \A d \in Conns : Len(Send'[d]) <= Cap
<1>1. [stage |-> s, ver |-> version[s]] \in Message
  BY HubAssumption DEF IInv, TypeOK, Announced, Message
<1>2. /\ Append(Send[c], [stage |-> s, ver |-> version[s]]) \in Seq(Message)
      /\ Len(Append(Send[c], [stage |-> s, ver |-> version[s]])) = Len(Send[c]) + 1
  BY <1>1 DEF IInv, TypeOK
<1>3. Len(Send[c]) \in Nat /\ Len(Send[c]) < Cap
  BY DEF IInv, TypeOK, Offer
<1> QED  BY <1>2, <1>3, HubAssumption DEF IInv, TypeOK, Offer

\* Taking the first message keeps a channel's contents within its buffer.
LEMMA TailFits ==
    ASSUME NEW c \in Conns, IInv, Send[c] # <<>>,
           Send' = [Send EXCEPT ![c] = Tail(@)]
    PROVE  /\ Send' \in [Conns -> Seq(Message)]
           /\ \A d \in Conns : Len(Send'[d]) <= Cap
<1>1. Tail(Send[c]) \in Seq(Message) /\ Len(Tail(Send[c])) = Len(Send[c]) - 1
  BY DEF IInv, TypeOK
<1> QED  BY <1>1, HubAssumption DEF IInv, TypeOK

-----------------------------------------------------------------------------

\* The empty hub satisfies the invariant.
LEMMA InitHolds == Init => IInv
<1> SUFFICES ASSUME Init PROVE IInv
  OBVIOUS
<1>1. TypeOK
  BY HubAssumption DEF Init, TypeOK, Zero, NoMessage
<1> QED  BY <1>1, HubAssumption DEF Init, IInv, OpenMatches, RangeRegistered, ReaderRegistered,
            Announced, Writing, Zero, InLoop

\* A step of a stage's broadcaster keeps the invariant.
LEMMA BroadcastKeeps ==
    ASSUME NEW s \in Stages, IInv, Broadcast(s)
    PROVE  IInv'
<1> USE HubAssumption
<1>0. TypeOK /\ OpenMatches /\ RangeRegistered /\ ReaderRegistered /\ Announced /\ Writing
  BY DEF IInv
<1>1. CASE Cache(s)
  <2>1. TypeOK'
    BY <1>0, <1>1 DEF Cache, TypeOK, read, write
  <2> QED  BY <2>1, <1>0, <1>1 DEF Cache, IInv, TypeOK, OpenMatches, RangeRegistered,
              ReaderRegistered, Announced, Writing, InLoop, read, write
<1>2. CASE Lock(s)
  <2>1. TypeOK'
    BY <1>0, <1>2 DEF Lock, TypeOK, read, write
  <2> QED  BY <2>1, <1>0, <1>2 DEF Lock, IInv, TypeOK, OpenMatches, RangeRegistered,
              ReaderRegistered, Announced, Writing, InLoop, read, write
<1>3. CASE Visit(s)
  <2>1. CASE todo[s] = {} /\ bpc' = [bpc EXCEPT ![s] = "idle"] /\ UNCHANGED <<todo, at>>
    <3>1. TypeOK'
      BY <1>0, <1>3, <2>1 DEF Visit, TypeOK, read, write
    <3> QED  BY <3>1, <1>0, <1>3, <2>1 DEF Visit, IInv, TypeOK, OpenMatches, RangeRegistered,
                ReaderRegistered, Announced, Writing, InLoop, read, write
  <2>2. ASSUME NEW c \in todo[s],
               todo' = [todo EXCEPT ![s] = @ \ {c}],
               \/ at' = [at EXCEPT ![s] = c] /\ bpc' = [bpc EXCEPT ![s] = "try"]
               \/ UNCHANGED <<at, bpc>>
        PROVE  IInv'
    <3>1. c \in Conns /\ c \in clients
      BY <1>0, <1>3, <2>2 DEF Visit, TypeOK, RangeRegistered, InLoop
    <3>2. /\ todo' \in [Stages -> SUBSET Conns]
          /\ at' \in [Stages -> Conns \cup {Nobody}]
          /\ bpc' \in [Stages -> {"idle", "cached", "visit", "try", "drain", "retry"}]
      <4>1. CASE at' = [at EXCEPT ![s] = c] /\ bpc' = [bpc EXCEPT ![s] = "try"]
        BY <1>0, <2>2, <3>1, <4>1 DEF TypeOK
      <4>2. CASE UNCHANGED <<at, bpc>>
        BY <1>0, <2>2, <3>1, <4>2 DEF TypeOK
      <4> QED  BY <2>2, <4>1, <4>2
    <3>4. TypeOK'
      BY <1>0, <1>3, <3>2 DEF Visit, TypeOK, read, write
    <3>3. RangeRegistered'
      BY <1>0, <1>3, <2>2, <3>1 DEF Visit, TypeOK, RangeRegistered, InLoop, read, write
    <3> QED  BY <3>3, <3>4, <1>0, <1>3, <2>2 DEF Visit, IInv, TypeOK, OpenMatches,
                ReaderRegistered, Announced, Writing, read, write
  <2> QED  BY <1>3, <2>1, <2>2 DEF Visit
<1>4. CASE Try(s)
  <2>1. at[s] \in Conns
    BY <1>0, <1>4 DEF Try, TypeOK, RangeRegistered
  <2>2. CASE Offer(s, at[s])
    <3>1. Send' \in [Conns -> Seq(Message)] /\ \A d \in Conns : Len(Send'[d]) <= Cap
      BY <1>4, <2>1, <2>2, OfferFits DEF Try
    <3>2. TypeOK'
      BY <1>0, <1>4, <2>2, <3>1 DEF Try, Offer, TypeOK, read, write
    <3> QED  BY <3>2, <1>0, <1>4, <2>2 DEF Try, Offer, IInv, TypeOK, OpenMatches,
                RangeRegistered, ReaderRegistered, Announced, Writing, InLoop, read, write
  <2>3. CASE bpc' = [bpc EXCEPT ![s] = "drain"] /\ UNCHANGED <<Send, at, lost>>
    <3>1. TypeOK'
      BY <1>0, <1>4, <2>3 DEF Try, TypeOK, read, write
    <3> QED  BY <3>1, <1>0, <1>4, <2>3 DEF Try, IInv, TypeOK, OpenMatches,
                RangeRegistered, ReaderRegistered, Announced, Writing, InLoop, read, write
  <2> QED  BY <1>4, <2>2, <2>3 DEF Try
<1>5. CASE Drain(s)
  <2>1. at[s] \in Conns
    BY <1>0, <1>5 DEF Drain, TypeOK, RangeRegistered
  <2>2. Send' \in [Conns -> Seq(Message)] /\ \A d \in Conns : Len(Send'[d]) <= Cap
    BY <1>0, <1>5, <2>1, TailFits DEF Drain, TypeOK
  <2>3. TypeOK'
    BY <1>0, <1>5, <2>1, <2>2 DEF Drain, TypeOK, read, write
  <2> QED  BY <2>3, <1>0, <1>5 DEF Drain, IInv, TypeOK, OpenMatches, RangeRegistered,
              ReaderRegistered, Announced, Writing, InLoop, read, write
<1>6. CASE Retry(s)
  <2>1. at[s] \in Conns
    BY <1>0, <1>6 DEF Retry, TypeOK, RangeRegistered
  <2>2. Send' \in [Conns -> Seq(Message)] /\ \A d \in Conns : Len(Send'[d]) <= Cap
    BY <1>0, <1>6, <2>1, OfferFits DEF Retry, TypeOK
  <2>3. /\ bpc' = [bpc EXCEPT ![s] = "visit"]
        /\ at' = [at EXCEPT ![s] = Nobody]
        /\ lost' \in [Conns -> BOOLEAN]
    BY <1>0, <1>6, <2>1 DEF Retry, Offer, TypeOK
  <2>4. TypeOK'
    BY <1>0, <1>6, <2>2, <2>3 DEF Retry, TypeOK, read, write
  <2>5. /\ bpc[s] = "retry"
        /\ UNCHANGED <<clients, open, version, todo, rpc, wpc, wmsg>>
    BY <1>6 DEF Retry, read, write
  <2> QED  BY <2>3, <2>4, <2>5, <1>0 DEF IInv, TypeOK, OpenMatches, RangeRegistered,
              ReaderRegistered, Announced, Writing, InLoop
<1> QED  BY <1>1, <1>2, <1>3, <1>4, <1>5, <1>6 DEF Broadcast

\* So does a step of a connection's reader, of its writer, or of the network.
LEMMA ConnectionKeeps ==
    ASSUME NEW c \in Conns, IInv, Connect(c) \/ Reader(c) \/ Writer(c) \/ Disconnect(c)
    PROVE  IInv'
<1> USE HubAssumption
<1>0. TypeOK /\ OpenMatches /\ RangeRegistered /\ ReaderRegistered /\ Announced /\ Writing
  BY DEF IInv
<1>1. CASE Connect(c)
  <2>1. TypeOK'
    BY <1>0, <1>1 DEF Connect, TypeOK, cast
  <2> QED  BY <2>1, <1>0, <1>1 DEF Connect, IInv, TypeOK, OpenMatches, RangeRegistered,
              ReaderRegistered, Announced, Writing, InLoop, cast
<1>2. ASSUME NEW stages \in SUBSET Stages, Receive(c, stages) \/ Unsubscribe(c, stages)
      PROVE  IInv'
  <2>1. CASE Receive(c, stages)
    <3>1. TypeOK'
      BY <1>0, <2>1 DEF Receive, TypeOK, cast, write
    <3> QED  BY <3>1, <1>0, <2>1 DEF Receive, IInv, TypeOK, OpenMatches, RangeRegistered,
                ReaderRegistered, Announced, Writing, InLoop, cast, write
  <2>2. CASE Unsubscribe(c, stages)
    <3>1. TypeOK'
      BY <1>0, <2>2 DEF Unsubscribe, TypeOK, cast, read, write
    <3> QED  BY <3>1, <1>0, <2>2 DEF Unsubscribe, IInv, TypeOK, OpenMatches, RangeRegistered,
                ReaderRegistered, Announced, Writing, InLoop, cast, read, write
  <2> QED  BY <1>2, <2>1, <2>2
<1>3. CASE Handle(c)
  <2>1. {[stage |-> s, ver |-> snapshots[s]] : s \in {t \in req[c] : snapshots[t] # 0}}
           \in SUBSET Message
    BY <1>0 DEF TypeOK, Message
  <2>2. /\ subs' \in [Conns -> SUBSET Stages]
        /\ snaps' \in [Conns -> SUBSET Message]
    <3>1. Subscribe(c) \/ Snapshot(c)
      BY <1>3 DEF Handle
    <3>2. CASE Subscribe(c)
      BY <1>0, <3>2 DEF Subscribe, TypeOK
    <3>3. CASE Snapshot(c)
      BY <1>0, <2>1, <3>3 DEF Snapshot, TypeOK
    <3> QED  BY <3>1, <3>2, <3>3
  <2>3. /\ step' \in [Conns -> 0..2]
        /\ req' \in [Conns -> SUBSET Stages]
        /\ UNCHANGED rpc \/ rpc' = [rpc EXCEPT ![c] = "queue"]
    <3>1. Len(SubscribeOrder) = 2
      BY DEF SubscribeOrder
    <3>2. step[c] \in 0..2
      BY <1>0 DEF TypeOK
    <3>3. CASE step[c] < 2
      <4>1. step' = [step EXCEPT ![c] = @ + 1] /\ UNCHANGED <<rpc, req>>
        BY <1>3, <3>1, <3>3 DEF Handle
      <4> QED  BY <1>0, <3>2, <3>3, <4>1 DEF TypeOK
    <3>4. CASE ~(step[c] < 2)
      <4>1. /\ step' = [step EXCEPT ![c] = 0]
            /\ rpc' = [rpc EXCEPT ![c] = "queue"]
            /\ req' = [req EXCEPT ![c] = {}]
        BY <1>3, <3>1, <3>4 DEF Handle
      <4> QED  BY <1>0, <4>1 DEF TypeOK
    <3> QED  BY <3>3, <3>4
  <2>4. TypeOK'
    BY <1>0, <1>3, <2>2, <2>3 DEF Handle, TypeOK, cast, write
  <2> QED  BY <2>3, <2>4, <1>0, <1>3 DEF Handle, IInv, TypeOK, OpenMatches, RangeRegistered,
              ReaderRegistered, Announced, Writing, InLoop, cast, write
<1>4. CASE QueueSnapshot(c)
  <2>1. ASSUME NEW m \in snaps[c], Len(Send[c]) < Cap
        PROVE  /\ [Send EXCEPT ![c] = Append(@, m)] \in [Conns -> Seq(Message)]
               /\ \A d \in Conns : Len([Send EXCEPT ![c] = Append(@, m)][d]) <= Cap
    <3>1. /\ Append(Send[c], m) \in Seq(Message)
          /\ Len(Append(Send[c], m)) = Len(Send[c]) + 1
          /\ Len(Send[c]) \in Nat
      BY <1>0 DEF TypeOK
    <3> QED  BY <1>0, <2>1, <3>1 DEF TypeOK
  <2>2. /\ Send' \in [Conns -> Seq(Message)] /\ \A d \in Conns : Len(Send'[d]) <= Cap
        /\ snaps' \in [Conns -> SUBSET Message]
        /\ lost' \in [Conns -> BOOLEAN]
        /\ rpc' \in [Conns -> {"off", "read", "handle", "queue", "wait"}]
    <3>1. CASE snaps[c] = {}
      BY <1>0, <1>4, <3>1 DEF QueueSnapshot, TypeOK
    <3>2. ASSUME NEW m \in snaps[c],
                 snaps' = [snaps EXCEPT ![c] = @ \ {m}],
                 \/ /\ Len(Send[c]) < Cap
                    /\ Send' = [Send EXCEPT ![c] = Append(@, m)] /\ UNCHANGED lost
                 \/ lost' = [lost EXCEPT ![c] = TRUE] /\ UNCHANGED Send,
                 UNCHANGED rpc
          PROVE  /\ Send' \in [Conns -> Seq(Message)] /\ \A d \in Conns : Len(Send'[d]) <= Cap
                 /\ snaps' \in [Conns -> SUBSET Message]
                 /\ lost' \in [Conns -> BOOLEAN]
                 /\ rpc' \in [Conns -> {"off", "read", "handle", "queue", "wait"}]
      <4>1. Send' \in [Conns -> Seq(Message)] /\ \A d \in Conns : Len(Send'[d]) <= Cap
        BY <1>0, <2>1, <3>2 DEF TypeOK
      <4> QED  BY <1>0, <3>2, <4>1 DEF TypeOK
    <3> QED  BY <1>4, <3>1, <3>2 DEF QueueSnapshot
  <2>3. TypeOK'
    BY <1>0, <1>4, <2>2 DEF QueueSnapshot, TypeOK, cast, write
  <2> QED  BY <2>3, <1>0, <1>4 DEF QueueSnapshot, IInv, TypeOK, OpenMatches, RangeRegistered,
              ReaderRegistered, Announced, Writing, InLoop, cast, write
<1>5. CASE Unregister(c)
  <2>1. TypeOK'
    BY <1>0, <1>5 DEF Unregister, TypeOK, cast, write
  <2> QED  BY <2>1, <1>0, <1>5 DEF Unregister, NoReader, IInv, TypeOK, OpenMatches,
              RangeRegistered, ReaderRegistered, Announced, Writing, InLoop, cast, write
<1>6. CASE Leave(c)
  <2>1. TypeOK'
    BY <1>0, <1>6 DEF Leave, TypeOK, Zero, cast, write
  <2> QED  BY <2>1, <1>0, <1>6 DEF Leave, IInv, TypeOK, OpenMatches, RangeRegistered,
              ReaderRegistered, Announced, Writing, InLoop, cast, write
<1>7. CASE TakeNext(c)
  <2>1. Send[c] # <<>> => Head(Send[c]) \in Message
    BY <1>0 DEF TypeOK
  <2>2. Send' \in [Conns -> Seq(Message)] /\ \A d \in Conns : Len(Send'[d]) <= Cap
    BY <1>0, <1>7, TailFits DEF TakeNext, TypeOK
  <2>3. /\ wmsg' \in [Conns -> Message \cup {NoMessage}]
        /\ wpc' \in [Conns -> {"range", "write", "done"}]
        /\ up' \in [Conns -> BOOLEAN]
    <3>1. CASE Send[c] # <<>>
      <4>1. /\ wmsg' = [wmsg EXCEPT ![c] = Head(Send[c])]
            /\ wpc' = [wpc EXCEPT ![c] = "write"]
            /\ up' = up
        BY <1>7, <3>1 DEF TakeNext
      <4> QED  BY <1>0, <2>1, <3>1, <4>1 DEF TypeOK
    <3>2. CASE Send[c] = <<>>
      <4>1. /\ wmsg' = wmsg
            /\ wpc' = [wpc EXCEPT ![c] = "done"]
            /\ up' = [up EXCEPT ![c] = FALSE]
        BY <1>7, <3>2 DEF TakeNext
      <4> QED  BY <1>0, <4>1 DEF TypeOK
    <3> QED  BY <3>1, <3>2
  <2>4. TypeOK'
    BY <1>0, <1>7, <2>2, <2>3 DEF TakeNext, TypeOK, cast, read
  <2> QED  BY <2>1, <2>4, <1>0, <1>7 DEF TakeNext, IInv, TypeOK, OpenMatches, RangeRegistered,
              ReaderRegistered, Announced, Writing, InLoop, cast, read
<1>8. CASE Written(c)
  <2>1. wmsg[c].stage \in Stages /\ wmsg[c].ver \in 0..MaxVersion
    BY <1>0, <1>8 DEF Written, Writing, Message
  <2>2. got' \in [Conns -> [Stages -> 0..MaxVersion]]
    BY <1>0, <1>8, <2>1 DEF Written, Larger, TypeOK
  <2>3. TypeOK'
    BY <1>0, <1>8, <2>2 DEF Written, TypeOK, cast, read
  <2> QED  BY <2>3, <1>0, <1>8 DEF Written, IInv, TypeOK, OpenMatches, RangeRegistered,
              ReaderRegistered, Announced, Writing, InLoop, cast, read
<1>9. CASE WriteFails(c)
  <2>1. TypeOK'
    BY <1>0, <1>9 DEF WriteFails, TypeOK, cast, read
  <2> QED  BY <2>1, <1>0, <1>9 DEF WriteFails, IInv, TypeOK, OpenMatches, RangeRegistered,
              ReaderRegistered, Announced, Writing, InLoop, cast, read
<1>10. CASE Disconnect(c)
  <2>1. TypeOK'
    BY <1>0, <1>10 DEF Disconnect, TypeOK, cast, read, write
  <2> QED  BY <2>1, <1>0, <1>10 DEF Disconnect, IInv, TypeOK, OpenMatches, RangeRegistered,
              ReaderRegistered, Announced, Writing, InLoop, cast, read, write
<1> QED
  BY <1>1, <1>2, <1>3, <1>4, <1>5, <1>6, <1>7, <1>8, <1>9, <1>10 DEF Reader, Writer

\* The invariant on which the theorems rest holds in every reachable state.
THEOREM Inductive == Spec => []IInv
<1>1. IInv /\ [Next]_vars => IInv'
  <2> SUFFICES ASSUME IInv, [Next]_vars PROVE IInv'
    OBVIOUS
  <2>1. CASE Next
    BY <2>1, BroadcastKeeps, ConnectionKeeps DEF Next
  <2>2. CASE UNCHANGED vars
    BY <2>2 DEF vars, cast, read, write, IInv, TypeOK, OpenMatches, RangeRegistered,
       ReaderRegistered, Announced, Writing
  <2> QED  BY <2>1, <2>2
<1> QED  BY <1>1, InitHolds, PTL DEF Spec

\* Every variable keeps its type; no buffer exceeds sendBufSize.
THEOREM TypeCorrect == Spec => []TypeOK
<1>1. IInv => TypeOK
  BY DEF IInv
<1> QED  BY <1>1, Inductive, PTL

\* No broadcaster and no reader ever sends on a closed Client.Send.
THEOREM NeverOnClosed == Spec => []NoSendOnClosed
<1>1. IInv => NoSendOnClosed
  BY DEF IInv, TypeOK, OpenMatches, RangeRegistered, ReaderRegistered, NoSendOnClosed
<1> QED  BY <1>1, Inductive, PTL

\* A writer that has left has closed the connection, and a reader that waits for
\* the writer has closed the channel: neither waits for what will not come.
PeersEnd ==
    \A c \in Conns :
        /\ wpc[c] = "done" => ~up[c]
        /\ rpc[c] = "wait" => ~open[c]

\* No step of the connection's goroutines, and no loss of it, breaks this.
LEMMA StaysDown ==
    ASSUME NEW c \in Conns, TypeOK, PeersEnd, Reader(c) \/ Writer(c) \/ Disconnect(c)
    PROVE  PeersEnd'
<1> USE DEF PeersEnd, TypeOK
<1>1. ASSUME NEW stages \in SUBSET Stages, Receive(c, stages) \/ Unsubscribe(c, stages)
      PROVE  PeersEnd'
  <2>1. CASE Receive(c, stages)
    BY <2>1 DEF Receive, write
  <2>2. CASE Unsubscribe(c, stages)
    BY <2>2 DEF Unsubscribe, read, write
  <2> QED
    BY <1>1, <2>1, <2>2
<1>2. CASE Handle(c)
  <2>1. UNCHANGED <<open, up, wpc>>
    BY <1>2 DEF Handle, write
  <2>2. \A d \in Conns : rpc'[d] = "wait" => rpc[d] = "wait"
    BY <1>2 DEF Handle
  <2> QED
    BY <2>1, <2>2
<1>3. CASE QueueSnapshot(c)
  <2>1. UNCHANGED <<open, up, wpc>>
    BY <1>3 DEF QueueSnapshot, write
  <2>2. \A d \in Conns : rpc'[d] = "wait" => rpc[d] = "wait"
    BY <1>3 DEF QueueSnapshot
  <2> QED
    BY <2>1, <2>2
<1>4. CASE Unregister(c)
  BY <1>4 DEF Unregister, write
<1>5. CASE Leave(c)
  BY <1>5 DEF Leave, write
<1>6. CASE TakeNext(c)
  BY <1>6 DEF TakeNext, read
<1>7. CASE Written(c)
  BY <1>7 DEF Written, read
<1>8. CASE WriteFails(c)
  BY <1>8 DEF WriteFails, read
<1>9. CASE Disconnect(c)
  BY <1>9 DEF Disconnect, read, write
<1> QED
  BY <1>1, <1>2, <1>3, <1>4, <1>5, <1>6, <1>7, <1>8, <1>9 DEF Reader, Writer

\* The reader and the writer of a connection tell each other that they leave, so
\* that HandleWS returns (handler.go:36-58).
THEOREM PeersAreTold == Spec => []PeersEnd
<1>1. Init => PeersEnd
  BY DEF Init, PeersEnd
<1>2. TypeOK /\ PeersEnd /\ [Next]_vars => PeersEnd'
  <2> SUFFICES ASSUME TypeOK, PeersEnd, [Next]_vars PROVE PeersEnd'
    OBVIOUS
  <2>1. ASSUME NEW s \in Stages, Broadcast(s) PROVE PeersEnd'
    <3>1. UNCHANGED <<read, write, open, up>>
      BY <2>1 DEF Broadcast, Cache, Lock, Visit, Try, Drain, Retry
    <3> QED
      BY <3>1 DEF PeersEnd, read, write
  <2>2. ASSUME NEW c \in Conns, Connect(c) PROVE PeersEnd'
    BY <2>2 DEF Connect, PeersEnd, TypeOK
  <2>3. CASE UNCHANGED vars
    BY <2>3 DEF vars, read, write, PeersEnd
  <2> QED
    BY <2>1, <2>2, <2>3, StaysDown DEF Next
<1> QED
  BY <1>1, <1>2, TypeCorrect, PTL DEF Spec

-----------------------------------------------------------------------------
(* No update is missed: where the newest message of a stage is             *)

Newest(s) == [stage |-> s, ver |-> version[s]]

Contents(q) == {q[i] : i \in 1..Len(q)}

\* The newest version of s has reached the browser, or something that will
\* bring it there.
OnItsWay(c, s) ==
    \/ got[c][s] = version[s]
    \/ wpc[c] = "write" /\ wmsg[c] = Newest(s)
    \/ Newest(s) \in Contents(Send[c])
    \/ Newest(s) \in snaps[c]
    \/ rpc[c] = "handle" /\ step[c] = 2 /\ s \in req[c]
    \/ bpc[s] = "cached"
    \/ bpc[s] \in InLoop /\ (c \in todo[s] \/ at[s] = c)

Served(c) == rpc[c] \in {"read", "handle", "queue"} /\ wpc[c] # "done" /\ ~lost[c]

Reached ==
    \A c \in Conns, s \in Stages :
        Served(c) /\ s \in subs[c] /\ version[s] # 0 => OnItsWay(c, s)

\* Nothing is newer than what its stage has announced, and the cached
\* snapshot is not older either.
NotAhead ==
    /\ snapshots = version
    /\ \A c \in Conns :
          /\ \A s \in Stages : got[c][s] <= version[s]
          /\ \A m \in Contents(Send[c]) \cup snaps[c] : m.ver <= version[m.stage]
          /\ wpc[c] = "write" => wmsg[c].ver <= version[wmsg[c].stage]

\* What a reader carries from one message to the next.
BetweenMessages ==
    \A c \in Conns :
        /\ rpc[c] # "queue" => snaps[c] = {}
        /\ rpc[c] = "off" => subs[c] = {}
        /\ rpc[c] = "handle" => step[c] \in {1, 2}

Newer == Reached /\ NotAhead /\ BetweenMessages

\* What the three ways of changing a channel do to its contents.
LEMMA EmptyContents == Contents(<<>>) = {}
BY DEF Contents

LEMMA AppendContents ==
    ASSUME NEW q \in Seq(Message), NEW m \in Message
    PROVE  Contents(Append(q, m)) = Contents(q) \cup {m}
<1>1. /\ Len(q) \in Nat /\ Len(Append(q, m)) = Len(q) + 1
      /\ Append(q, m)[Len(q) + 1] = m
      /\ \A i \in 1..Len(q) : Append(q, m)[i] = q[i]
  OBVIOUS
<1>2. ASSUME NEW x PROVE x \in Contents(Append(q, m)) <=> x \in Contents(q) \cup {m}
  <2>1. CASE x \in Contents(Append(q, m))
    <3>1. PICK i \in 1..(Len(q) + 1) : Append(q, m)[i] = x
      BY <1>1, <2>1 DEF Contents
    <3>2. CASE i = Len(q) + 1
      BY <1>1, <2>1, <3>1, <3>2
    <3>3. CASE i \in 1..Len(q)
      BY <1>1, <2>1, <3>1, <3>3 DEF Contents
    <3> QED  BY <1>1, <2>1, <3>1, <3>2, <3>3
  <2>2. CASE x = m
    BY <1>1, <2>2 DEF Contents
  <2>3. CASE x \in Contents(q)
    <3>1. PICK i \in 1..Len(q) : q[i] = x
      BY <2>3 DEF Contents
    <3>2. i \in 1..(Len(q) + 1) /\ Append(q, m)[i] = x
      BY <1>1, <3>1
    <3> QED  BY <1>1, <2>3, <3>2 DEF Contents
  <2> QED  BY <2>1, <2>2, <2>3
<1> QED  BY <1>2

LEMMA TailContents ==
    ASSUME NEW q \in Seq(Message), q # <<>>
    PROVE  Contents(q) = {Head(q)} \cup Contents(Tail(q))
<1>1. /\ Len(q) \in Nat /\ Len(q) > 0 /\ Len(Tail(q)) = Len(q) - 1 /\ Head(q) = q[1]
      /\ \A i \in 1..Len(Tail(q)) : Tail(q)[i] = q[i + 1]
  OBVIOUS
<1>2. ASSUME NEW x PROVE x \in Contents(q) <=> x \in {Head(q)} \cup Contents(Tail(q))
  <2>1. CASE x \in Contents(q)
    <3>1. PICK i \in 1..Len(q) : q[i] = x
      BY <2>1 DEF Contents
    <3>2. CASE i = 1
      BY <1>1, <2>1, <3>1, <3>2
    <3>3. CASE i # 1
      <4>1. i - 1 \in 1..Len(Tail(q)) /\ Tail(q)[i - 1] = x
        BY <1>1, <3>1, <3>3
      <4> QED  BY <2>1, <4>1 DEF Contents
    <3> QED  BY <3>2, <3>3
  <2>2. CASE x = Head(q)
    BY <1>1, <2>2 DEF Contents
  <2>3. CASE x \in Contents(Tail(q))
    <3>1. PICK i \in 1..Len(Tail(q)) : Tail(q)[i] = x
      BY <2>3 DEF Contents
    <3>2. i + 1 \in 1..Len(q) /\ q[i + 1] = x
      BY <1>1, <3>1
    <3> QED  BY <3>2 DEF Contents
  <2> QED  BY <2>1, <2>2, <2>3
<1> QED  BY <1>2

\* A send that finds room adds the newest message of its stage.
LEMMA OfferAdds ==
    ASSUME NEW s \in Stages, NEW c \in Conns, IInv, bpc[s] # "idle", Offer(s, c)
    PROVE  /\ Contents(Send'[c]) = Contents(Send[c]) \cup {Newest(s)}
           /\ \A d \in Conns \ {c} : Send'[d] = Send[d]
           /\ bpc' = [bpc EXCEPT ![s] = "visit"]
           /\ at' = [at EXCEPT ![s] = Nobody]
           /\ lost' = lost
<1>1. Newest(s) \in Message
  BY HubAssumption DEF IInv, TypeOK, Announced, Message, Newest
<1>2. Send[c] \in Seq(Message) /\ Send \in [Conns -> Seq(Message)]
  BY DEF IInv, TypeOK
<1>3. Send' = [Send EXCEPT ![c] = Append(@, Newest(s))]
  BY DEF Offer, Newest
<1>4. Send'[c] = Append(Send[c], Newest(s)) /\ \A d \in Conns \ {c} : Send'[d] = Send[d]
  BY <1>2, <1>3
<1> QED  BY <1>1, <1>2, <1>4, AppendContents DEF Offer

\* The empty hub has nothing to deliver.
LEMMA InitNewer == Init => Newer
<1> SUFFICES ASSUME Init PROVE Newer
  OBVIOUS
<1>1. Reached
  BY DEF Init, Reached, Served
<1>2. NotAhead
  <2>1. \A c \in Conns : Contents(Send[c]) = {} /\ snaps[c] = {}
    BY EmptyContents DEF Init
  <2> QED  BY <2>1 DEF Init, NotAhead, Zero
<1>3. BetweenMessages
  BY DEF Init, BetweenMessages
<1> QED  BY <1>1, <1>2, <1>3 DEF Newer

\* A send to c by the broadcaster of s keeps what is newer on its way.
LEMMA OfferNewer ==
    ASSUME NEW s \in Stages, IInv, Newer, bpc[s] \in {"try", "retry"},
           at[s] \in Conns, Offer(s, at[s]),
           UNCHANGED <<clients, snapshots, subs, version, todo, read, write, got>>
    PROVE  Newer'
<1> DEFINE c == at[s]
<1>0. TypeOK /\ RangeRegistered /\ Reached /\ NotAhead /\ BetweenMessages
  BY DEF IInv, Newer
<1>1. /\ Contents(Send'[c]) = Contents(Send[c]) \cup {Newest(s)}
      /\ \A d \in Conns \ {c} : Send'[d] = Send[d]
      /\ bpc' = [bpc EXCEPT ![s] = "visit"]
      /\ at' = [at EXCEPT ![s] = Nobody]
      /\ lost' = lost
  BY OfferAdds
<1>2. /\ UNCHANGED <<rpc, step, req, snaps, wpc, wmsg, got, version, subs, todo, snapshots>>
      /\ \A t \in Stages : Newest(t)' = Newest(t)
  BY DEF read, write, Newest
<1>3. ASSUME NEW d \in Conns, NEW t \in Stages,
             Served(d)', t \in subs'[d], version'[t] # 0
      PROVE  OnItsWay(d, t)'
  <2>1. OnItsWay(d, t)
    BY <1>0, <1>1, <1>2, <1>3 DEF Reached, Served
  <2>2. Contents(Send[d]) \subseteq Contents(Send'[d])
    BY <1>1
  <2>3. CASE t = s /\ d = c
    BY <1>1, <1>2, <2>3 DEF OnItsWay
  <2>4. CASE t = s /\ d # c
    BY <1>0, <1>1, <1>2, <2>1, <2>2, <2>4 DEF OnItsWay, InLoop, TypeOK
  <2>5. CASE t # s
    BY <1>0, <1>1, <1>2, <2>1, <2>2, <2>5 DEF OnItsWay, InLoop, TypeOK
  <2> QED  BY <2>3, <2>4, <2>5
<1>4. NotAhead'
  <2>1. Newest(s).ver = version[s] /\ Newest(s).stage = s /\ version[s] \in Nat
    BY <1>0, HubAssumption DEF Newest, TypeOK
  <2>2. ASSUME NEW d \in Conns, NEW m \in Contents(Send'[d])
        PROVE  m.ver <= version[m.stage]
    BY <1>0, <1>1, <2>1 DEF NotAhead
  <2> QED  BY <1>0, <1>2, <2>2 DEF NotAhead
<1>5. BetweenMessages'
  BY <1>0, <1>2 DEF BetweenMessages
<1> QED  BY <1>3, <1>4, <1>5 DEF Newer, Reached

\* A step of a broadcaster takes the newest version from nobody on its range.
LEMMA BroadcastNewer ==
    ASSUME NEW s \in Stages, IInv, Newer, Broadcast(s)
    PROVE  Newer'
<1>0. /\ TypeOK /\ RangeRegistered /\ ReaderRegistered
      /\ Reached /\ NotAhead /\ BetweenMessages
  BY DEF IInv, Newer
<1>a. \A t \in Stages : UNCHANGED version => Newest(t)' = Newest(t)
  BY DEF Newest
<1>1. CASE Cache(s)
  <2>1. /\ version' = [version EXCEPT ![s] = @ + 1]
        /\ snapshots' = [snapshots EXCEPT ![s] = version[s] + 1]
        /\ bpc' = [bpc EXCEPT ![s] = "cached"]
        /\ bpc[s] = "idle"
        /\ UNCHANGED <<subs, Send, todo, at, rpc, step, req, snaps, wpc, wmsg, got, lost>>
    BY <1>1 DEF Cache, read, write
  <2>2. ASSUME NEW d \in Conns, NEW t \in Stages,
               Served(d)', t \in subs'[d], version'[t] # 0
        PROVE  OnItsWay(d, t)'
    <3>1. CASE t = s
      BY <1>0, <2>1, <3>1 DEF OnItsWay, TypeOK
    <3>2. CASE t # s
      <4>1. version'[t] = version[t] /\ bpc'[t] = bpc[t] /\ Newest(t)' = Newest(t)
        BY <1>0, <2>1, <3>2 DEF TypeOK, Newest
      <4>2. OnItsWay(d, t)
        BY <1>0, <2>1, <2>2, <4>1 DEF Reached, Served
      <4> QED  BY <2>1, <4>1, <4>2 DEF OnItsWay
    <3> QED  BY <3>1, <3>2
  <2>3. NotAhead'
    <3>1. \A t \in Stages : version[t] \in Nat /\ version'[t] \in Nat /\ version[t] <= version'[t]
      BY <1>0, <2>1, HubAssumption DEF TypeOK
    <3>2. ASSUME NEW d \in Conns, NEW m \in Contents(Send[d]) \cup snaps[d]
          PROVE  m.ver <= version'[m.stage]
      <4>1. m \in Message
        BY <1>0 DEF TypeOK, Contents
      <4> QED  BY <1>0, <3>1, <4>1, HubAssumption DEF NotAhead, Message
    <3>3. ASSUME NEW d \in Conns, wpc[d] = "write"
          PROVE  wmsg[d].ver <= version'[wmsg[d].stage]
      <4>1. wmsg[d] \in Message
        BY <3>3 DEF IInv, Writing
      <4> QED  BY <1>0, <3>1, <3>3, <4>1, HubAssumption DEF NotAhead, Message
    <3>4. ASSUME NEW d \in Conns, NEW t \in Stages
          PROVE  got[d][t] <= version'[t]
      BY <1>0, <3>1, HubAssumption DEF NotAhead, TypeOK
    <3>5. snapshots' = version'
      BY <1>0, <2>1 DEF NotAhead, TypeOK
    <3> QED  BY <2>1, <3>2, <3>3, <3>4, <3>5 DEF NotAhead
  <2> QED  BY <1>0, <2>1, <2>2, <2>3 DEF Newer, Reached, BetweenMessages
<1>2. CASE Lock(s)
  <2>1. /\ todo' = [todo EXCEPT ![s] = clients]
        /\ bpc' = [bpc EXCEPT ![s] = "visit"]
        /\ UNCHANGED <<snapshots, version, subs, Send, at, rpc, step, req, snaps, wpc, wmsg, got, lost>>
    BY <1>2 DEF Lock, read, write
  <2>2. ASSUME NEW d \in Conns, NEW t \in Stages,
               Served(d)', t \in subs'[d], version'[t] # 0
        PROVE  OnItsWay(d, t)'
    <3>1. CASE t = s
      <4>1. d \in clients
        BY <1>0, <2>1, <2>2 DEF Served, ReaderRegistered
      <4> QED  BY <1>0, <2>1, <3>1, <4>1 DEF OnItsWay, InLoop, TypeOK
    <3>2. CASE t # s
      <4>1. OnItsWay(d, t)
        BY <1>0, <2>1, <2>2 DEF Reached, Served
      <4> QED  BY <1>0, <1>a, <2>1, <3>2, <4>1 DEF OnItsWay, TypeOK
    <3> QED  BY <3>1, <3>2
  <2>3. NotAhead' /\ BetweenMessages'
    BY <1>0, <2>1 DEF NotAhead, BetweenMessages
  <2> QED  BY <2>2, <2>3 DEF Newer, Reached
<1>3. CASE Visit(s)
  <2>1. /\ UNCHANGED <<snapshots, version, subs, Send, rpc, step, req, snaps, wpc, wmsg, got, lost>>
        /\ bpc[s] = "visit" /\ at[s] = Nobody
    BY <1>0, <1>3 DEF Visit, read, write, RangeRegistered
  <2>2. ASSUME NEW d \in Conns, NEW t \in Stages,
               Served(d)', t \in subs'[d], version'[t] # 0
        PROVE  OnItsWay(d, t)'
    <3>0. OnItsWay(d, t)
      BY <1>0, <2>1, <2>2 DEF Reached, Served
    <3>1. CASE t # s
      <4>1. bpc'[t] = bpc[t] /\ todo'[t] = todo[t] /\ at'[t] = at[t]
        BY <1>0, <1>3, <3>1 DEF Visit, TypeOK
      <4> QED  BY <1>a, <2>1, <3>0, <4>1 DEF OnItsWay
    <3>2. CASE t = s
      <4>1. d \in todo[s] => bpc'[s] \in InLoop /\ (d \in todo'[s] \/ at'[s] = d)
        <5> SUFFICES ASSUME d \in todo[s]
                     PROVE  bpc'[s] \in InLoop /\ (d \in todo'[s] \/ at'[s] = d)
          OBVIOUS
        <5>1. PICK c \in todo[s] :
                 /\ todo' = [todo EXCEPT ![s] = @ \ {c}]
                 /\ IF s \in subs[c]
                    THEN /\ at' = [at EXCEPT ![s] = c]
                         /\ bpc' = [bpc EXCEPT ![s] = "try"]
                    ELSE UNCHANGED <<at, bpc>>
          BY <1>3 DEF Visit
        <5>2. CASE c = d
          <6>1. at' = [at EXCEPT ![s] = d] /\ bpc' = [bpc EXCEPT ![s] = "try"]
            BY <2>1, <2>2, <3>2, <5>1, <5>2
          <6> QED  BY <1>0, <6>1 DEF TypeOK, InLoop
        <5>3. CASE c # d
          <6>1. d \in todo'[s]
            BY <1>0, <5>1, <5>3 DEF TypeOK
          <6>2. bpc'[s] \in {"visit", "try"}
            BY <1>0, <2>1, <5>1 DEF TypeOK
          <6> QED  BY <6>1, <6>2 DEF InLoop
        <5> QED  BY <5>2, <5>3
      <4>2. at[s] # d
        BY <2>1, HubAssumption
      <4>3. bpc[s] # "cached"
        BY <2>1
      <4> QED  BY <1>a, <2>1, <3>0, <3>2, <4>1, <4>2, <4>3 DEF OnItsWay
    <3> QED  BY <3>1, <3>2
  <2>3. NotAhead' /\ BetweenMessages'
    BY <1>0, <2>1 DEF NotAhead, BetweenMessages
  <2> QED  BY <2>2, <2>3 DEF Newer, Reached
<1>4. CASE Try(s)
  <2>1. at[s] \in Conns
    BY <1>0, <1>4 DEF Try, TypeOK, RangeRegistered
  <2>2. CASE Offer(s, at[s])
    BY <1>4, <2>1, <2>2, OfferNewer DEF Try, read, write
  <2>3. CASE bpc' = [bpc EXCEPT ![s] = "drain"] /\ UNCHANGED <<Send, at, lost>>
    <3>1. UNCHANGED <<snapshots, version, subs, Send, todo, at, rpc, step, req, snaps, wpc, wmsg, got, lost>>
      BY <1>4, <2>3 DEF Try, read, write
    <3>2. ASSUME NEW d \in Conns, NEW t \in Stages,
                 Served(d)', t \in subs'[d], version'[t] # 0
          PROVE  OnItsWay(d, t)'
      <4>1. OnItsWay(d, t)
        BY <1>0, <3>1, <3>2 DEF Reached, Served
      <4>2. /\ bpc'[t] = "cached" <=> bpc[t] = "cached"
            /\ bpc'[t] \in InLoop <=> bpc[t] \in InLoop
        BY <1>0, <1>4, <2>3 DEF Try, TypeOK, InLoop
      <4> QED  BY <1>a, <3>1, <4>1, <4>2 DEF OnItsWay
    <3>3. NotAhead' /\ BetweenMessages'
      BY <1>0, <3>1 DEF NotAhead, BetweenMessages
    <3> QED  BY <3>2, <3>3 DEF Newer, Reached
  <2> QED  BY <1>4, <2>2, <2>3 DEF Try
<1>5. CASE Drain(s)
  <2>0. at[s] \in Conns
    BY <1>0, <1>5 DEF Drain, TypeOK, RangeRegistered
  <2>1. /\ UNCHANGED <<snapshots, version, subs, todo, at, rpc, step, req, snaps, wpc, wmsg, got>>
        /\ bpc[s] = "drain" /\ bpc' = [bpc EXCEPT ![s] = "retry"]
    BY <1>5 DEF Drain, read, write
  <2>2. /\ \A d \in Conns : Contents(Send'[d]) \subseteq Contents(Send[d])
        /\ \A d \in Conns : ~lost'[d] => ~lost[d] /\ Send'[d] = Send[d]
    <3>1. CASE Send[at[s]] = <<>>
      BY <1>5, <3>1 DEF Drain
    <3>2. CASE Send[at[s]] # <<>>
      <4>1. /\ Send' = [Send EXCEPT ![at[s]] = Tail(@)]
            /\ lost' = [lost EXCEPT ![at[s]] = TRUE]
        BY <1>5, <3>2 DEF Drain
      <4>2. Contents(Tail(Send[at[s]])) \subseteq Contents(Send[at[s]])
        BY <1>0, <2>0, <3>2, TailContents DEF TypeOK
      <4> QED  BY <1>0, <2>0, <4>1, <4>2 DEF TypeOK
    <3> QED  BY <3>1, <3>2
  <2>3. ASSUME NEW d \in Conns, NEW t \in Stages,
               Served(d)', t \in subs'[d], version'[t] # 0
        PROVE  OnItsWay(d, t)'
    <3>1. OnItsWay(d, t) /\ Send'[d] = Send[d]
      BY <1>0, <2>1, <2>2, <2>3 DEF Reached, Served
    <3>2. /\ bpc'[t] = "cached" <=> bpc[t] = "cached"
          /\ bpc'[t] \in InLoop <=> bpc[t] \in InLoop
      BY <1>0, <2>1 DEF TypeOK, InLoop
    <3> QED  BY <1>a, <2>1, <3>1, <3>2 DEF OnItsWay
  <2>4. NotAhead' /\ BetweenMessages'
    BY <1>0, <2>1, <2>2 DEF NotAhead, BetweenMessages
  <2> QED  BY <2>3, <2>4 DEF Newer, Reached
<1>6. CASE Retry(s)
  <2>1. at[s] \in Conns
    BY <1>0, <1>6 DEF Retry, TypeOK, RangeRegistered
  <2>2. CASE Offer(s, at[s])
    BY <1>6, <2>1, <2>2, OfferNewer DEF Retry, read, write
  <2>3. CASE /\ lost' = [lost EXCEPT ![at[s]] = TRUE]
             /\ bpc' = [bpc EXCEPT ![s] = "visit"]
             /\ at' = [at EXCEPT ![s] = Nobody]
             /\ UNCHANGED Send
    <3>1. UNCHANGED <<snapshots, version, subs, Send, todo, rpc, step, req, snaps, wpc, wmsg, got>>
      BY <1>6, <2>3 DEF Retry, read, write
    <3>2. ASSUME NEW d \in Conns, NEW t \in Stages,
                 Served(d)', t \in subs'[d], version'[t] # 0
          PROVE  OnItsWay(d, t)'
      <4>1. ~lost[d] /\ d # at[s]
        BY <1>0, <2>1, <2>3, <3>2 DEF Served, TypeOK
      <4>2. OnItsWay(d, t)
        BY <1>0, <3>1, <3>2, <4>1 DEF Reached, Served
      <4>3. /\ bpc'[t] = "cached" <=> bpc[t] = "cached"
            /\ bpc'[t] \in InLoop <=> bpc[t] \in InLoop
            /\ at[t] = d => at'[t] = d
        BY <1>0, <1>6, <2>3, <4>1 DEF Retry, TypeOK, InLoop
      <4> QED  BY <1>a, <3>1, <4>2, <4>3 DEF OnItsWay
    <3>3. NotAhead' /\ BetweenMessages'
      BY <1>0, <3>1 DEF NotAhead, BetweenMessages
    <3> QED  BY <3>2, <3>3 DEF Newer, Reached
  <2> QED  BY <1>6, <2>2, <2>3 DEF Retry
<1> QED  BY <1>1, <1>2, <1>3, <1>4, <1>5, <1>6 DEF Broadcast

\* Nor does a step of a connection take it from its own browser, but by
\* losing a message, ending the writer or unregistering.
LEMMA ConnectionNewer ==
    ASSUME NEW c \in Conns, IInv, Newer,
           Connect(c) \/ Reader(c) \/ Writer(c) \/ Disconnect(c)
    PROVE  Newer'
<1>0. /\ TypeOK /\ ReaderRegistered /\ Writing
      /\ Reached /\ NotAhead /\ BetweenMessages
  BY DEF IInv, Newer
<1>a. \A t \in Stages : UNCHANGED version => Newest(t)' = Newest(t)
  BY DEF Newest
<1>b. \A t \in Stages : /\ Newest(t).stage = t /\ Newest(t).ver = version[t]
                        /\ version[t] \in Nat
  BY <1>0, HubAssumption DEF Newest, TypeOK
<1>1. CASE Connect(c)
  <2>1. /\ UNCHANGED <<snapshots, version, subs, Send, bpc, todo, at, step, req, snaps, wmsg, got, lost>>
        /\ rpc[c] = "off" /\ rpc' = [rpc EXCEPT ![c] = "read"]
        /\ wpc' = [wpc EXCEPT ![c] = "range"]
    BY <1>1 DEF Connect, cast
  <2>2. ASSUME NEW d \in Conns, NEW t \in Stages,
               Served(d)', t \in subs'[d], version'[t] # 0
        PROVE  OnItsWay(d, t)'
    <3>1. d # c
      BY <1>0, <2>1, <2>2 DEF BetweenMessages
    <3>2. rpc'[d] = rpc[d] /\ wpc'[d] = wpc[d]
      BY <1>0, <2>1, <3>1 DEF TypeOK
    <3>3. OnItsWay(d, t)
      BY <1>0, <2>1, <2>2, <3>2 DEF Reached, Served
    <3> QED  BY <1>a, <2>1, <3>2, <3>3 DEF OnItsWay
  <2>3. NotAhead'
    BY <1>0, <2>1 DEF NotAhead, TypeOK
  <2>4. BetweenMessages'
    BY <1>0, <2>1 DEF BetweenMessages, TypeOK
  <2> QED  BY <2>2, <2>3, <2>4 DEF Newer, Reached
<1>2. ASSUME NEW stages \in SUBSET Stages, Receive(c, stages) \/ Unsubscribe(c, stages)
      PROVE  Newer'
  <2>1. /\ UNCHANGED <<snapshots, version, Send, bpc, todo, at, snaps, wpc, wmsg, got, lost>>
        /\ rpc[c] = "read"
        /\ \A d \in Conns : subs'[d] \subseteq subs[d]
    <3>1. CASE Receive(c, stages)
      BY <3>1 DEF Receive, cast, write
    <3>2. CASE Unsubscribe(c, stages)
      <4>1. subs' = [subs EXCEPT ![c] = subs[c] \ stages]
        BY <3>2 DEF Unsubscribe
      <4>2. \A d \in Conns : subs'[d] \subseteq subs[d]
        BY <1>0, <4>1 DEF TypeOK
      <4> QED  BY <3>2, <4>2 DEF Unsubscribe, cast, read, write
    <3> QED  BY <1>2, <3>1, <3>2
  <2>2. ASSUME NEW d \in Conns
        PROVE  /\ d = c => rpc'[d] \in {"read", "handle"}
               /\ d = c /\ rpc'[d] = "handle" => step'[d] = 1
               /\ d # c => rpc'[d] = rpc[d] /\ step'[d] = step[d] /\ req'[d] = req[d]
    BY <1>0, <1>2, <2>1 DEF Receive, Unsubscribe, TypeOK, read
  <2>3. ASSUME NEW d \in Conns, NEW t \in Stages,
               Served(d)', t \in subs'[d], version'[t] # 0
        PROVE  OnItsWay(d, t)'
    <3>1. OnItsWay(d, t)
      BY <1>0, <2>1, <2>2, <2>3 DEF Reached, Served
    <3>2. d = c => rpc[d] # "handle"
      BY <2>1
    <3> QED  BY <1>a, <2>1, <2>2, <3>1, <3>2 DEF OnItsWay
  <2>4. NotAhead'
    BY <1>0, <2>1 DEF NotAhead
  <2>5. BetweenMessages'
    <3> SUFFICES ASSUME NEW d \in Conns
                 PROVE  /\ rpc'[d] # "queue" => snaps'[d] = {}
                        /\ rpc'[d] = "off" => subs'[d] = {}
                        /\ rpc'[d] = "handle" => step'[d] \in {1, 2}
      BY DEF BetweenMessages
    <3>1. CASE d = c
      BY <1>0, <2>1, <2>2, <3>1 DEF BetweenMessages
    <3>2. CASE d # c
      BY <1>0, <2>1, <2>2, <3>2 DEF BetweenMessages
    <3> QED  BY <3>1, <3>2
  <2> QED  BY <2>3, <2>4, <2>5 DEF Newer, Reached
<1>3. CASE Handle(c)
  <2>1. /\ UNCHANGED <<snapshots, version, Send, bpc, todo, at, wpc, wmsg, got, lost>>
        /\ rpc[c] = "handle" /\ step[c] \in {1, 2} /\ snaps[c] = {}
    BY <1>0, <1>3 DEF Handle, cast, write, BetweenMessages
  <2>2. CASE step[c] = 1
    <3>1. /\ subs' = [subs EXCEPT ![c] = @ \cup req[c]]
          /\ step' = [step EXCEPT ![c] = @ + 1]
          /\ UNCHANGED <<snaps, rpc, req>>
      BY <1>3, <2>2 DEF Handle, SubscribeOrder, Subscribe
    <3>2. step'[c] = 2 /\ subs'[c] = subs[c] \cup req[c]
      BY <1>0, <2>2, <3>1 DEF TypeOK
    <3>3. ASSUME NEW d \in Conns, NEW t \in Stages,
                 Served(d)', t \in subs'[d], version'[t] # 0
          PROVE  OnItsWay(d, t)'
      <4>1. CASE d = c /\ t \in req[c]
        BY <2>1, <3>1, <3>2, <4>1 DEF OnItsWay
      <4>2. CASE d # c \/ t \notin req[c]
        <5>1. t \in subs[d]
          BY <1>0, <3>1, <3>3, <4>2 DEF TypeOK
        <5>2. OnItsWay(d, t)
          BY <1>0, <2>1, <3>1, <3>3, <5>1 DEF Reached, Served
        <5>3. step[d] = 2 => step'[d] = 2
          BY <1>0, <2>2, <3>1 DEF TypeOK
        <5> QED  BY <1>a, <2>1, <3>1, <5>2, <5>3 DEF OnItsWay
      <4> QED  BY <4>1, <4>2
    <3>4. NotAhead'
      BY <1>0, <2>1, <3>1 DEF NotAhead
    <3>5. BetweenMessages'
      BY <1>0, <2>1, <3>1, <3>2 DEF BetweenMessages, TypeOK
    <3> QED  BY <3>3, <3>4, <3>5 DEF Newer, Reached
  <2>3. CASE step[c] = 2
    <3>1. /\ snaps' = [snaps EXCEPT ![c] =
                {[stage |-> r, ver |-> snapshots[r]] :
                    r \in {t \in req[c] : snapshots[t] # 0}}]
          /\ subs' = subs
          /\ step' = [step EXCEPT ![c] = 0]
          /\ rpc' = [rpc EXCEPT ![c] = "queue"]
          /\ req' = [req EXCEPT ![c] = {}]
      BY <1>3, <2>3 DEF Handle, SubscribeOrder, Snapshot
    <3>2. snaps'[c] = {Newest(r) : r \in {t \in req[c] : version[t] # 0}}
      BY <1>0, <3>1 DEF TypeOK, NotAhead, Newest
    <3>3. ASSUME NEW d \in Conns, NEW t \in Stages,
                 Served(d)', t \in subs'[d], version'[t] # 0
          PROVE  OnItsWay(d, t)'
      <4>1. OnItsWay(d, t)
        <5>1. rpc[d] \in {"read", "handle", "queue"}
          BY <1>0, <2>1, <3>1, <3>3 DEF Served, TypeOK
        <5> QED  BY <1>0, <2>1, <3>1, <3>3, <5>1 DEF Reached, Served
      <4>2. CASE d = c
        <5>1. t \in req[c] => Newest(t) \in snaps'[c]
          BY <2>1, <3>2, <3>3
        <5> QED  BY <1>a, <2>1, <4>1, <4>2, <5>1 DEF OnItsWay
      <4>3. CASE d # c
        <5>1. /\ rpc'[d] = rpc[d] /\ step'[d] = step[d]
              /\ req'[d] = req[d] /\ snaps'[d] = snaps[d]
          BY <1>0, <3>1, <4>3 DEF TypeOK
        <5> QED  BY <1>a, <2>1, <4>1, <5>1 DEF OnItsWay
      <4> QED  BY <4>2, <4>3
    <3>4. NotAhead'
      <4>1. ASSUME NEW d \in Conns, NEW m \in Contents(Send[d]) \cup snaps'[d]
            PROVE  m.ver <= version[m.stage]
        <5>1. CASE d = c /\ m \in snaps'[c]
          <6>1. PICK r \in Stages : m = Newest(r)
            BY <1>0, <3>2, <5>1 DEF TypeOK
          <6> QED  BY <1>b, <6>1
        <5>2. CASE ~(d = c /\ m \in snaps'[c])
          BY <1>0, <3>1, <4>1, <5>2 DEF NotAhead, TypeOK
        <5> QED  BY <5>1, <5>2
      <4> QED  BY <1>0, <2>1, <4>1 DEF NotAhead
    <3>5. BetweenMessages'
      BY <1>0, <3>1 DEF BetweenMessages, TypeOK
    <3> QED  BY <3>3, <3>4, <3>5 DEF Newer, Reached
  <2> QED  BY <2>1, <2>2, <2>3
<1>4. CASE QueueSnapshot(c)
  <2>1. /\ UNCHANGED <<snapshots, version, subs, bpc, todo, at, step, req, wpc, wmsg, got>>
        /\ rpc[c] = "queue"
    BY <1>4 DEF QueueSnapshot, cast, write
  <2>2. CASE snaps[c] = {} /\ rpc' = [rpc EXCEPT ![c] = "read"] /\ UNCHANGED <<Send, snaps, lost>>
    <3>1. ASSUME NEW d \in Conns, NEW t \in Stages,
                 Served(d)', t \in subs'[d], version'[t] # 0
          PROVE  OnItsWay(d, t)'
      <4>1. OnItsWay(d, t)
        BY <1>0, <2>1, <2>2, <3>1 DEF Reached, Served, TypeOK
      <4>2. rpc[d] = "handle" => rpc'[d] = "handle"
        BY <1>0, <2>1, <2>2 DEF TypeOK
      <4> QED  BY <1>a, <2>1, <2>2, <4>1, <4>2 DEF OnItsWay
    <3>2. NotAhead' /\ BetweenMessages'
      BY <1>0, <2>1, <2>2 DEF NotAhead, BetweenMessages, TypeOK
    <3> QED  BY <3>1, <3>2 DEF Newer, Reached
  <2>3. ASSUME NEW m \in snaps[c],
               snaps' = [snaps EXCEPT ![c] = @ \ {m}],
               IF Len(Send[c]) < Cap
               THEN Send' = [Send EXCEPT ![c] = Append(@, m)] /\ UNCHANGED lost
               ELSE lost' = [lost EXCEPT ![c] = TRUE] /\ UNCHANGED Send,
               UNCHANGED rpc
        PROVE  Newer'
    <3>1. /\ \A d \in Conns : Contents(Send'[d]) \subseteq Contents(Send[d]) \cup snaps[d]
          /\ \A d \in Conns : snaps'[d] \subseteq snaps[d]
          /\ \A d \in Conns : ~lost'[d] =>
                /\ ~lost[d]
                /\ Contents(Send[d]) \cup snaps[d] \subseteq Contents(Send'[d]) \cup snaps'[d]
      <4>1. m \in Message /\ Send[c] \in Seq(Message)
        BY <1>0 DEF TypeOK
      <4>2. CASE Len(Send[c]) < Cap
        <5>1. /\ Send'[c] = Append(Send[c], m)
              /\ snaps'[c] = snaps[c] \ {m}
              /\ \A d \in Conns \ {c} : Send'[d] = Send[d] /\ snaps'[d] = snaps[d]
              /\ lost' = lost
          BY <1>0, <2>3, <4>2 DEF TypeOK
        <5>2. Contents(Send'[c]) = Contents(Send[c]) \cup {m}
          BY <4>1, <5>1, AppendContents
        <5> QED  BY <5>1, <5>2
      <4>3. CASE ~(Len(Send[c]) < Cap)
        <5>1. /\ Send' = Send
              /\ snaps'[c] = snaps[c] \ {m} /\ lost'[c] = TRUE
              /\ \A d \in Conns \ {c} : snaps'[d] = snaps[d] /\ lost'[d] = lost[d]
          BY <1>0, <2>3, <4>3 DEF TypeOK
        <5> QED  BY <5>1
      <4> QED  BY <4>2, <4>3
    <3>2. ASSUME NEW d \in Conns, NEW t \in Stages,
                 Served(d)', t \in subs'[d], version'[t] # 0
          PROVE  OnItsWay(d, t)'
      <4>1. OnItsWay(d, t)
        BY <1>0, <2>1, <2>3, <3>1, <3>2 DEF Reached, Served
      <4>2. Contents(Send[d]) \cup snaps[d] \subseteq Contents(Send'[d]) \cup snaps'[d]
        BY <3>1, <3>2 DEF Served
      <4> QED  BY <1>a, <2>1, <2>3, <4>1, <4>2 DEF OnItsWay
    <3>3. NotAhead'
      BY <1>0, <2>1, <3>1 DEF NotAhead
    <3>4. BetweenMessages'
      BY <1>0, <2>1, <2>3, <3>1 DEF BetweenMessages
    <3> QED  BY <3>2, <3>3, <3>4 DEF Newer, Reached
  <2> QED  BY <1>4, <2>2, <2>3 DEF QueueSnapshot
<1>5. CASE Unregister(c)
  <2>1. /\ UNCHANGED <<snapshots, version, subs, Send, bpc, todo, at, step, req, snaps, wpc, wmsg, got, lost>>
        /\ rpc[c] = "read" /\ rpc' = [rpc EXCEPT ![c] = "wait"]
    BY <1>5 DEF Unregister, cast, write
  <2>2. ASSUME NEW d \in Conns, NEW t \in Stages,
               Served(d)', t \in subs'[d], version'[t] # 0
        PROVE  OnItsWay(d, t)'
    <3>1. rpc'[d] = rpc[d]
      BY <1>0, <2>1, <2>2 DEF TypeOK, Served
    <3>2. OnItsWay(d, t)
      BY <1>0, <2>1, <2>2, <3>1 DEF Reached, Served
    <3> QED  BY <1>a, <2>1, <3>1, <3>2 DEF OnItsWay
  <2>3. NotAhead' /\ BetweenMessages'
    BY <1>0, <2>1 DEF NotAhead, BetweenMessages, TypeOK
  <2> QED  BY <2>2, <2>3 DEF Newer, Reached
<1>6. CASE Leave(c)
  <2>1. /\ UNCHANGED <<snapshots, version, bpc, todo, at, step, req, snaps, wpc, wmsg>>
        /\ rpc[c] = "wait" /\ rpc' = [rpc EXCEPT ![c] = "off"]
        /\ subs' = [subs EXCEPT ![c] = {}]
        /\ Send' = [Send EXCEPT ![c] = <<>>]
        /\ got' = [got EXCEPT ![c] = Zero]
        /\ lost' = [lost EXCEPT ![c] = FALSE]
        /\ wpc[c] = "done"
    BY <1>6 DEF Leave, cast, write
  <2>2. ASSUME NEW d \in Conns, d # c
        PROVE  /\ rpc'[d] = rpc[d] /\ subs'[d] = subs[d] /\ Send'[d] = Send[d]
               /\ got'[d] = got[d] /\ lost'[d] = lost[d]
    BY <1>0, <2>1, <2>2 DEF TypeOK
  <2>3. rpc'[c] = "off" /\ subs'[c] = {} /\ Contents(Send'[c]) = {} /\ got'[c] = Zero
    BY <1>0, <2>1, EmptyContents DEF TypeOK
  <2>4. ASSUME NEW d \in Conns, NEW t \in Stages,
               Served(d)', t \in subs'[d], version'[t] # 0
        PROVE  OnItsWay(d, t)'
    <3>1. d # c
      BY <2>3, <2>4
    <3>2. OnItsWay(d, t)
      BY <1>0, <2>1, <2>2, <2>4, <3>1 DEF Reached, Served
    <3> QED  BY <1>a, <2>1, <2>2, <3>1, <3>2 DEF OnItsWay
  <2>5. NotAhead'
    <3>1. \A t \in Stages : Zero[t] <= version[t]
      BY <1>b DEF Zero
    <3>2. ASSUME NEW d \in Conns
          PROVE  /\ \A t \in Stages : got'[d][t] <= version[t]
                 /\ \A m \in Contents(Send'[d]) \cup snaps[d] : m.ver <= version[m.stage]
      <4>1. CASE d = c
        BY <1>0, <2>3, <3>1, <4>1 DEF NotAhead
      <4>2. CASE d # c
        BY <1>0, <2>2, <4>2 DEF NotAhead
      <4> QED  BY <4>1, <4>2
    <3> QED  BY <1>0, <2>1, <3>2 DEF NotAhead
  <2>6. BetweenMessages'
    BY <1>0, <2>1, <2>2, <2>3 DEF BetweenMessages
  <2> QED  BY <2>4, <2>5, <2>6 DEF Newer, Reached
<1>7. CASE TakeNext(c)
  <2>1. /\ UNCHANGED <<snapshots, version, subs, bpc, todo, at, rpc, step, req, snaps, got, lost>>
        /\ wpc[c] = "range"
    BY <1>7 DEF TakeNext, cast, read
  <2>2. CASE Send[c] # <<>>
    <3>1. /\ wmsg' = [wmsg EXCEPT ![c] = Head(Send[c])]
          /\ Send' = [Send EXCEPT ![c] = Tail(@)]
          /\ wpc' = [wpc EXCEPT ![c] = "write"]
      BY <1>7, <2>2 DEF TakeNext
    <3>2. /\ wmsg'[c] = Head(Send[c]) /\ wpc'[c] = "write" /\ Send'[c] = Tail(Send[c])
          /\ \A d \in Conns \ {c} : wmsg'[d] = wmsg[d] /\ wpc'[d] = wpc[d] /\ Send'[d] = Send[d]
      BY <1>0, <3>1 DEF TypeOK
    <3>3. Contents(Send[c]) = {wmsg'[c]} \cup Contents(Send'[c])
      BY <1>0, <2>2, <3>2, TailContents DEF TypeOK
    <3>4. ASSUME NEW d \in Conns, NEW t \in Stages,
                 Served(d)', t \in subs'[d], version'[t] # 0
          PROVE  OnItsWay(d, t)'
      <4>1. OnItsWay(d, t)
        BY <1>0, <2>1, <3>2, <3>4 DEF Reached, Served
      <4>2. CASE d = c
        BY <1>a, <2>1, <3>2, <3>3, <4>1, <4>2 DEF OnItsWay
      <4>3. CASE d # c
        BY <1>a, <2>1, <3>2, <4>1, <4>3 DEF OnItsWay
      <4> QED  BY <4>2, <4>3
    <3>5. NotAhead'
      <4>1. ASSUME NEW d \in Conns
            PROVE  /\ \A m \in Contents(Send'[d]) \cup snaps[d] : m.ver <= version[m.stage]
                   /\ wpc'[d] = "write" => wmsg'[d].ver <= version[wmsg'[d].stage]
        <5>1. CASE d = c
          BY <1>0, <3>2, <3>3, <5>1 DEF NotAhead
        <5>2. CASE d # c
          BY <1>0, <3>2, <5>2 DEF NotAhead
        <5> QED  BY <5>1, <5>2
      <4> QED  BY <1>0, <2>1, <4>1 DEF NotAhead
    <3>6. BetweenMessages'
      BY <1>0, <2>1 DEF BetweenMessages
    <3> QED  BY <3>4, <3>5, <3>6 DEF Newer, Reached
  <2>3. CASE Send[c] = <<>>
    <3>1. /\ wpc' = [wpc EXCEPT ![c] = "done"]
          /\ UNCHANGED <<Send, wmsg>>
      BY <1>7, <2>3 DEF TakeNext
    <3>2. ASSUME NEW d \in Conns, NEW t \in Stages,
                 Served(d)', t \in subs'[d], version'[t] # 0
          PROVE  OnItsWay(d, t)'
      <4>1. wpc'[d] = wpc[d]
        BY <1>0, <3>1, <3>2 DEF Served, TypeOK
      <4>2. OnItsWay(d, t)
        BY <1>0, <2>1, <3>1, <3>2, <4>1 DEF Reached, Served
      <4> QED  BY <1>a, <2>1, <3>1, <4>1, <4>2 DEF OnItsWay
    <3>3. NotAhead' /\ BetweenMessages'
      BY <1>0, <2>1, <3>1 DEF NotAhead, BetweenMessages, TypeOK
    <3> QED  BY <3>2, <3>3 DEF Newer, Reached
  <2> QED  BY <2>2, <2>3
<1>8. CASE Written(c)
  <2>1. /\ UNCHANGED <<snapshots, version, subs, Send, bpc, todo, at, rpc, step, req, snaps, lost>>
        /\ wpc[c] = "write"
        /\ got' = [got EXCEPT ![c][wmsg[c].stage] = Larger(@, wmsg[c].ver)]
        /\ wpc' = [wpc EXCEPT ![c] = "range"]
        /\ wmsg' = [wmsg EXCEPT ![c] = NoMessage]
    BY <1>8 DEF Written, cast, read
  <2>2. /\ wmsg[c].stage \in Stages /\ wmsg[c].ver \in Nat
        /\ wmsg[c].ver <= version[wmsg[c].stage]
    BY <1>0, <2>1, HubAssumption DEF Writing, Message, NotAhead
  <2>3. ASSUME NEW d \in Conns, NEW t \in Stages
        PROVE  /\ got[d][t] \in Nat /\ version[t] \in Nat /\ got[d][t] <= version[t]
               /\ d = c /\ t = wmsg[c].stage => got'[d][t] = Larger(got[d][t], wmsg[c].ver)
               /\ d # c \/ t # wmsg[c].stage => got'[d][t] = got[d][t]
    BY <1>0, <2>1, HubAssumption DEF TypeOK, NotAhead
  <2>4. ASSUME NEW d \in Conns, NEW t \in Stages
        PROVE  /\ got'[d][t] <= version[t]
               /\ got[d][t] = version[t] => got'[d][t] = version[t]
    BY <2>2, <2>3 DEF Larger
  <2>5. ASSUME NEW d \in Conns, NEW t \in Stages,
               Served(d)', t \in subs'[d], version'[t] # 0
        PROVE  OnItsWay(d, t)'
    <3>1. OnItsWay(d, t)
      <4>1. wpc[d] # "done"
        BY <1>0, <2>1, <2>5 DEF Served, TypeOK
      <4> QED  BY <1>0, <2>1, <2>5, <4>1 DEF Reached, Served
    <3>2. CASE d = c /\ wmsg[c] = Newest(t)
      <4>1. got'[d][t] = Larger(got[d][t], version[t])
        BY <1>b, <2>3, <3>2
      <4>2. got'[d][t] = version[t]
        BY <2>3, <4>1 DEF Larger
      <4> QED  BY <2>1, <4>2 DEF OnItsWay
    <3>3. CASE d = c /\ wmsg[c] # Newest(t)
      BY <1>a, <2>1, <2>4, <3>1, <3>3 DEF OnItsWay
    <3>4. CASE d # c
      <4>1. wpc'[d] = wpc[d] /\ wmsg'[d] = wmsg[d]
        BY <1>0, <2>1, <3>4 DEF TypeOK
      <4> QED  BY <1>a, <2>1, <2>4, <3>1, <4>1 DEF OnItsWay
    <3> QED  BY <3>2, <3>3, <3>4
  <2>6. NotAhead'
    <3>1. ASSUME NEW d \in Conns, wpc'[d] = "write"
          PROVE  wmsg'[d].ver <= version[wmsg'[d].stage]
      <4>1. d # c /\ wpc[d] = "write" /\ wmsg'[d] = wmsg[d]
        BY <1>0, <2>1, <3>1 DEF TypeOK
      <4> QED  BY <1>0, <4>1 DEF NotAhead
    <3> QED  BY <1>0, <2>1, <2>4, <3>1 DEF NotAhead
  <2>7. BetweenMessages'
    BY <1>0, <2>1 DEF BetweenMessages
  <2> QED  BY <2>5, <2>6, <2>7 DEF Newer, Reached
<1>9. CASE WriteFails(c)
  <2>1. /\ UNCHANGED <<snapshots, version, subs, Send, bpc, todo, at, rpc, step, req, snaps, got, lost>>
        /\ wpc' = [wpc EXCEPT ![c] = "done"]
        /\ wmsg' = [wmsg EXCEPT ![c] = NoMessage]
    BY <1>9 DEF WriteFails, cast, read
  <2>2. ASSUME NEW d \in Conns, wpc'[d] # "done"
        PROVE  wpc'[d] = wpc[d] /\ wmsg'[d] = wmsg[d]
    BY <1>0, <2>1, <2>2 DEF TypeOK
  <2>3. ASSUME NEW d \in Conns, NEW t \in Stages,
               Served(d)', t \in subs'[d], version'[t] # 0
        PROVE  OnItsWay(d, t)'
    <3>1. wpc'[d] = wpc[d] /\ wmsg'[d] = wmsg[d]
      BY <2>2, <2>3 DEF Served
    <3>2. OnItsWay(d, t)
      BY <1>0, <2>1, <2>3, <3>1 DEF Reached, Served
    <3> QED  BY <1>a, <2>1, <3>1, <3>2 DEF OnItsWay
  <2>4. NotAhead' /\ BetweenMessages'
    BY <1>0, <2>1, <2>2 DEF NotAhead, BetweenMessages
  <2> QED  BY <2>3, <2>4 DEF Newer, Reached
<1>10. CASE Disconnect(c)
  <2>1. UNCHANGED <<snapshots, version, subs, Send, bpc, todo, at, rpc, step, req, snaps, wpc, wmsg, got, lost>>
    BY <1>10 DEF Disconnect, cast, read, write
  <2>2. ASSUME NEW d \in Conns, NEW t \in Stages,
               Served(d)', t \in subs'[d], version'[t] # 0
        PROVE  OnItsWay(d, t)'
    <3>1. OnItsWay(d, t)
      BY <1>0, <2>1, <2>2 DEF Reached, Served
    <3> QED  BY <1>a, <2>1, <3>1 DEF OnItsWay
  <2>3. NotAhead' /\ BetweenMessages'
    BY <1>0, <2>1 DEF NotAhead, BetweenMessages
  <2> QED  BY <2>2, <2>3 DEF Newer, Reached
<1> QED
  BY <1>1, <1>2, <1>3, <1>4, <1>5, <1>6, <1>7, <1>8, <1>9, <1>10 DEF Reader, Writer

\* A subscriber whose buffer never overflowed has, once nothing is left to
\* deliver, the last change of each of its stages.
THEOREM NothingMissed == Spec => []NoMissedUpdate
<1>1. IInv /\ Newer /\ [Next]_vars => Newer'
  <2> SUFFICES ASSUME IInv, Newer, [Next]_vars PROVE Newer'
    OBVIOUS
  <2>1. CASE Next
    BY <2>1, BroadcastNewer, ConnectionNewer DEF Next
  <2>2. CASE UNCHANGED vars
    BY <2>2 DEF vars, cast, read, write, Newer, Reached, Served, OnItsWay, NotAhead,
       BetweenMessages, Newest
  <2> QED  BY <2>1, <2>2
<1>2. IInv /\ Newer => NoMissedUpdate
  <2> SUFFICES ASSUME Newer, NEW c \in Conns, NEW s \in Stages, AtRest(c, s), ~lost[c]
               PROVE  got[c][s] = version[s]
    BY DEF NoMissedUpdate
  <2>1. OnItsWay(c, s)
    BY DEF Newer, Reached, Served, AtRest
  <2>2. Contents(Send[c]) = {} /\ snaps[c] = {}
    BY EmptyContents DEF Newer, BetweenMessages, AtRest
  <2> QED  BY <2>1, <2>2 DEF OnItsWay, AtRest, InLoop
<1> QED  BY <1>1, <1>2, InitNewer, Inductive, PTL DEF Spec
=============================================================================
