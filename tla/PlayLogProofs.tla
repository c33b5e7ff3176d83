---------------------------- MODULE PlayLogProofs ----------------------------
(* Proofs about PlayLog, for any stages, songs and queue. *)
EXTENDS PlayLog, FiniteSetTheorems, TLAPS

\* Two plays, the first announced before the second if they are of one stage.
Before(p, q) == p.stage = q.stage => p.n < q.n

\* The last announcement that may have left its watch loop.
Out(s) == IF wpc[s] = "send" THEN announced[s] - 1 ELSE announced[s]

\* The logger has a play in hand.
InHand == lpc \in {"lookup", "insert"}

HandTyped == InHand => lmsg \in Play

\* The queue is in the order of the announcements, and behind them.
QueueInOrder ==
    /\ \A i, j \in 1..Len(playCh) : i < j => Before(playCh[i], playCh[j])
    /\ \A i \in 1..Len(playCh) : playCh[i].n <= Out(playCh[i].stage)

\* The play in hand is older than those in the queue.
HandInOrder ==
    InHand => /\ \A j \in 1..Len(playCh) : Before(lmsg, playCh[j])
              /\ lmsg.n <= Out(lmsg.stage)

\* The rows are older than the play in hand and those in the queue.
RowsBehind ==
    /\ \A i, j \in 1..Len(rows) : i < j => Before(rows[i], rows[j])
    /\ \A i \in 1..Len(rows), j \in 1..Len(playCh) : Before(rows[i], playCh[j])
    /\ InHand => \A i \in 1..Len(rows) : Before(rows[i], lmsg)
    /\ \A i \in 1..Len(rows) : rows[i].n <= Out(rows[i].stage)

IInv ==
    /\ TypeOK
    /\ \A s \in Stages : wpc[s] = "send" => announced[s] >= 1
    /\ HandTyped
    /\ QueueInOrder
    /\ HandInOrder
    /\ RowsBehind

-----------------------------------------------------------------------------

\* The empty queue satisfies the invariant.
LEMMA InitHolds == Init => IInv
<1> SUFFICES ASSUME Init PROVE IInv
  OBVIOUS
<1> USE PlayAssumption
<1>1. TypeOK
  <2>1. playCh \in Seq(Play) /\ rows \in Seq(Play) /\ Len(playCh) <= QueueCap
    BY DEF Init
  <2>2. /\ song \in [Stages -> Songs]
        /\ changes \in [Stages -> 0..MaxPlays]
        /\ lastSong \in [Stages -> Songs \cup {NoSong}]
        /\ wpc \in [Stages -> {"watch", "changed", "send", "stopped"}]
        /\ announced \in [Stages -> Nat]
    BY DEF Init
  <2> QED  BY <2>1, <2>2 DEF Init, TypeOK
<1> QED  BY <1>1 DEF Init, IInv, HandTyped, InHand, QueueInOrder, HandInOrder, RowsBehind

\* What is older than a queue stays so when the queue grows by something newer,
\* stated for a sequence of plays.
LEMMA AppendPlay ==
    ASSUME NEW q \in Seq(Play), NEW p \in Play
    PROVE  /\ Append(q, p) \in Seq(Play)
           /\ Len(Append(q, p)) = Len(q) + 1
           /\ \A i \in 1..Len(q) : Append(q, p)[i] = q[i]
           /\ Append(q, p)[Len(q) + 1] = p
  OBVIOUS

\* Taking the oldest play leaves the others.
LEMMA TailPlay ==
    ASSUME NEW q \in Seq(Play), q # <<>>
    PROVE  /\ Head(q) \in Play /\ Head(q) = q[1]
           /\ Tail(q) \in Seq(Play)
           /\ Len(q) \in Nat \ {0}
           /\ Len(Tail(q)) = Len(q) - 1
           /\ \A i \in 1..Len(Tail(q)) : Tail(q)[i] = q[i + 1]
  OBVIOUS

\* Everything in the queue, in hand or in the table is a play of a stage.
LEMMA PlaysTyped ==
    ASSUME IInv
    PROVE  /\ \A i \in 1..Len(playCh) : playCh[i] \in Play
           /\ \A i \in 1..Len(rows) : rows[i] \in Play
           /\ InHand => lmsg \in Play
           /\ \A p \in Play : p.stage \in Stages /\ p.n \in Nat
<1>1. playCh \in Seq(Play) /\ rows \in Seq(Play)
  BY DEF IInv, TypeOK
<1>2. \A p \in Play : p.stage \in Stages /\ p.n \in Nat
  BY DEF Play
<1> QED  BY <1>1, <1>2 DEF IInv, HandTyped

\* A change broadcast leaves the others as they are.
LEMMA BroadcastKeeps ==
    ASSUME IInv, NEW s \in Stages, Broadcast(s)
    PROVE  IInv'
<1> USE PlayAssumption
<1>1. TypeOK'
  BY DEF IInv, TypeOK, Broadcast, logger
<1>2. \A t \in Stages : Out(t)' = Out(t)
  BY DEF IInv, TypeOK, Broadcast, Out
<1>3. UNCHANGED <<playCh, lpc, lmsg, rows>>
  BY DEF Broadcast, logger
<1>4. /\ \A i \in 1..Len(playCh) : playCh[i].stage \in Stages
      /\ \A i \in 1..Len(rows) : rows[i].stage \in Stages
      /\ InHand => lmsg.stage \in Stages
  BY PlaysTyped
<1>5. \A t \in Stages : wpc'[t] = "send" => announced'[t] >= 1
  BY DEF IInv, TypeOK, Broadcast
<1>6. QueueInOrder' /\ HandInOrder' /\ RowsBehind' /\ HandTyped'
  BY <1>2, <1>3, <1>4 DEF IInv, QueueInOrder, HandInOrder, RowsBehind, HandTyped, InHand
<1> QED  BY <1>1, <1>5, <1>6 DEF IInv

\* A send puts the last announcement behind all others, or drops it.
LEMMA SendKeeps ==
    ASSUME IInv, NEW s \in Stages, Send(s)
    PROVE  IInv'
<1> USE PlayAssumption
<1> DEFINE p == Current(s)
<1>1. /\ p \in Play /\ p.stage = s /\ p.n = Out(s) + 1
      /\ announced[s] \in Nat \ {0} /\ wpc[s] = "send"
  BY DEF IInv, TypeOK, Send, Current, Play, Out
<1> HIDE DEF p
<1>2. CASE closed
  <2>1. UNCHANGED <<wpc, announced, playCh, lpc, lmsg, rows>>
    BY <1>2 DEF Send, logger
  <2>2. TypeOK'
    BY <1>2 DEF IInv, TypeOK, Send, logger
  <2> QED  BY <2>1, <2>2 DEF IInv, QueueInOrder, HandInOrder, RowsBehind, HandTyped, InHand, Out
<1>3. CASE ~closed
  <2>1. /\ wpc' = [wpc EXCEPT ![s] = "watch"]
        /\ UNCHANGED <<announced, lpc, lmsg, rows>>
    BY <1>3 DEF Send, logger
  <2>2. /\ \A t \in Stages : Out(t) <= Out(t)' /\ Out(t) \in Int /\ Out(t)' \in Int
        /\ p.n <= Out(s)'
    BY <1>1, <2>1 DEF IInv, TypeOK, Out
  <2>3. \A t \in Stages : wpc'[t] = "send" => announced'[t] >= 1
    BY <2>1 DEF IInv, TypeOK
  <2>4. /\ \A i \in 1..Len(playCh) : playCh[i] \in Play /\ playCh[i].stage \in Stages
        /\ \A i \in 1..Len(rows) : rows[i] \in Play /\ rows[i].stage \in Stages
        /\ InHand => lmsg \in Play /\ lmsg.stage \in Stages
    BY PlaysTyped
  <2> DEFINE Older(r) == (\A t \in Stages : r.stage = t => r.n <= Out(t)') /\ Before(r, p)
  <2>5. /\ \A i \in 1..Len(playCh) : Older(playCh[i])
        /\ \A i \in 1..Len(rows) : Older(rows[i])
        /\ InHand => Older(lmsg)
    <3>1. ASSUME NEW r \in Play, r.n <= Out(r.stage)
          PROVE  Older(r)
      <4>1. r.stage \in Stages /\ r.n \in Nat /\ p.n \in Nat
        BY <1>1, PlaysTyped
      <4>2. Out(r.stage) <= Out(r.stage)' /\ Out(r.stage) \in Int /\ Out(r.stage)' \in Int
        BY <2>2, <4>1
      <4>3. \A t \in Stages : r.stage = t => r.n <= Out(t)'
        BY <3>1, <4>1, <4>2
      <4>4. r.stage = s => r.n < p.n
        BY <1>1, <3>1, <4>1, <4>2
      <4> QED  BY <1>1, <4>3, <4>4 DEF Before
    <3>2. /\ \A i \in 1..Len(playCh) : playCh[i].n <= Out(playCh[i].stage)
          /\ \A i \in 1..Len(rows) : rows[i].n <= Out(rows[i].stage)
          /\ InHand => lmsg.n <= Out(lmsg.stage)
      BY DEF IInv, QueueInOrder, HandInOrder, RowsBehind
    <3> QED  BY <2>4, <3>1, <3>2
  <2>6. CASE Len(playCh) < QueueCap /\ playCh' = Append(playCh, p) /\ UNCHANGED dropped
    <3>1. /\ playCh' \in Seq(Play) /\ Len(playCh') = Len(playCh) + 1 /\ Len(playCh) \in Nat
          /\ \A i \in 1..Len(playCh) : playCh'[i] = playCh[i]
          /\ playCh'[Len(playCh) + 1] = p
      BY <1>1, <2>6, AppendPlay DEF IInv, TypeOK
    <3>2. TypeOK'
      BY <1>3, <2>1, <2>6, <3>1 DEF IInv, TypeOK, Send, logger
    <3>3. /\ \A i \in 1..Len(playCh') : i \in 1..Len(playCh) \/ playCh'[i] = p
          /\ \A i, j \in 1..Len(playCh') : i < j => i \in 1..Len(playCh)
      BY <3>1
    <3>4. QueueInOrder'
      BY <1>1, <2>2, <2>4, <2>5, <3>1, <3>3 DEF IInv, QueueInOrder
    <3>5. HandInOrder' /\ RowsBehind' /\ HandTyped'
      BY <2>1, <2>4, <2>5, <3>1, <3>3 DEF IInv, HandInOrder, RowsBehind, HandTyped, InHand
    <3> QED  BY <2>3, <3>2, <3>4, <3>5 DEF IInv
  <2>7. CASE dropped' = dropped \cup {p} /\ UNCHANGED playCh
    <3>1. TypeOK'
      BY <1>1, <1>3, <2>1, <2>7 DEF IInv, TypeOK, Send, logger
    <3> QED  BY <2>1, <2>3, <2>4, <2>5, <2>7, <3>1
                DEF IInv, QueueInOrder, HandInOrder, RowsBehind, HandTyped, InHand
  <2> QED  BY <1>3, <2>6, <2>7 DEF Send, p
<1> QED  BY <1>2, <1>3

\* The logger takes the oldest play of the queue.
LEMMA TakeKeeps ==
    ASSUME IInv, Take
    PROVE  IInv'
<1> USE PlayAssumption
<1>1. /\ lmsg' \in Play /\ lmsg' = playCh[1] /\ Len(playCh) \in Nat \ {0}
      /\ playCh' \in Seq(Play) /\ Len(playCh') = Len(playCh) - 1
      /\ \A i \in 1..Len(playCh') : playCh'[i] = playCh[i + 1]
  BY TailPlay DEF IInv, TypeOK, Take
<1>2. lpc' = "lookup" /\ UNCHANGED <<wpc, announced, rows>>
  BY DEF Take, watchers
<1>3. TypeOK'
  BY <1>1 DEF IInv, TypeOK, Take, watchers
<1>4. \A i \in 1..Len(playCh') : i + 1 \in 1..Len(playCh)
  BY <1>1
<1>5. \A s : Out(s)' = Out(s)
  BY <1>2 DEF Out
<1>6. \A i, j \in 1..Len(playCh') : i < j => i + 1 < j + 1
  OBVIOUS
<1>7. QueueInOrder'
  BY <1>1, <1>4, <1>5, <1>6 DEF IInv, QueueInOrder
<1>8. HandTyped' /\ HandInOrder'
  <2>1. \A j \in 1..Len(playCh') : Before(playCh[1], playCh[j + 1])
    <3> TAKE j \in 1..Len(playCh')
    <3>1. 1 \in 1..Len(playCh) /\ j + 1 \in 1..Len(playCh) /\ 1 < j + 1
      BY <1>1
    <3> QED  BY <3>1 DEF IInv, QueueInOrder
  <2>2. playCh[1].n <= Out(playCh[1].stage)
    BY <1>1 DEF IInv, QueueInOrder
  <2> QED  BY <1>1, <1>5, <2>1, <2>2 DEF HandTyped, HandInOrder
<1>9. RowsBehind'
  BY <1>1, <1>2, <1>4, <1>5 DEF IInv, RowsBehind
<1> QED  BY <1>2, <1>3, <1>7, <1>8, <1>9 DEF IInv

\* An INSERT adds the play in hand to the rows, or gives it up.
LEMMA InsertKeeps ==
    ASSUME IInv, Insert
    PROVE  IInv'
<1> USE PlayAssumption
<1>1. lmsg \in Play /\ InHand
  BY DEF IInv, HandTyped, InHand, Insert
<1>2. lpc' = "range" /\ lmsg' = NoPlay /\ UNCHANGED <<wpc, announced, playCh>>
  BY DEF Insert, watchers
<1>3. ~InHand'
  BY <1>2 DEF InHand
<1>4. CASE rows' = Append(rows, lmsg) /\ UNCHANGED failed
  <2>1. /\ rows' \in Seq(Play) /\ Len(rows') = Len(rows) + 1 /\ Len(rows) \in Nat
        /\ \A i \in 1..Len(rows) : rows'[i] = rows[i]
        /\ rows'[Len(rows) + 1] = lmsg
    BY <1>1, <1>4, AppendPlay DEF IInv, TypeOK
  <2>2. TypeOK'
    BY <1>2, <1>4, <2>1 DEF IInv, TypeOK, Insert, watchers
  <2>3. /\ \A i \in 1..Len(rows') : i \in 1..Len(rows) \/ rows'[i] = lmsg
        /\ \A i, j \in 1..Len(rows') : i < j => i \in 1..Len(rows)
    BY <2>1
  <2>4. RowsBehind'
    BY <1>1, <1>2, <1>3, <2>1, <2>3 DEF IInv, RowsBehind, HandInOrder, Out
  <2> QED  BY <1>2, <1>3, <2>2, <2>4 DEF IInv, QueueInOrder, HandInOrder, HandTyped, Out
<1>5. CASE failed' = failed \cup {lmsg} /\ UNCHANGED rows
  <2>1. TypeOK'
    BY <1>1, <1>2, <1>5 DEF IInv, TypeOK, Insert, watchers
  <2> QED  BY <1>2, <1>3, <1>5, <2>1
              DEF IInv, QueueInOrder, HandInOrder, RowsBehind, HandTyped, Out
<1> QED  BY <1>4, <1>5 DEF Insert

\* The other steps move no play.
LEMMA OthersKeep ==
    ASSUME IInv,
           \/ \E s \in Stages : ChangeSong(s) \/ Fetch(s) \/ Stop(s)
           \/ Lookup \/ Drained \/ Shutdown \/ UNCHANGED vars
    PROVE  IInv'
<1> USE PlayAssumption
<1> DEFINE Unmoved ==
             /\ TypeOK'
             /\ \A t \in Stages : Out(t)' = Out(t)
             /\ \A t \in Stages : wpc'[t] = "send" => announced'[t] >= 1
             /\ UNCHANGED <<announced, playCh, lmsg, rows>>
             /\ InHand' = InHand
<1>1. Unmoved
  <2>1. ASSUME NEW s \in Stages, ChangeSong(s) PROVE Unmoved
    BY <2>1 DEF IInv, TypeOK, ChangeSong, Out, InHand, watchers, logger
  <2>2. ASSUME NEW s \in Stages, Fetch(s) PROVE Unmoved
    BY <2>2 DEF IInv, TypeOK, Fetch, Out, InHand, watchers, logger
  <2>3. ASSUME NEW s \in Stages, Stop(s) PROVE Unmoved
    BY <2>3 DEF IInv, TypeOK, Stop, Out, InHand, watchers, logger
  <2>4. CASE Lookup \/ Drained
    BY <2>4 DEF IInv, TypeOK, Lookup, Drained, Out, InHand, watchers
  <2>5. CASE Shutdown
    BY <2>5 DEF IInv, TypeOK, Shutdown, Signal, CloseQueue, LoggerGone, Exit, Out, InHand,
       watchers, logger
  <2>6. CASE UNCHANGED vars
    BY <2>6 DEF IInv, TypeOK, vars, Out, InHand, watchers, logger
  <2> QED  BY <2>1, <2>2, <2>3, <2>4, <2>5, <2>6
<1>2. /\ \A i \in 1..Len(playCh) : playCh[i].stage \in Stages
      /\ \A i \in 1..Len(rows) : rows[i].stage \in Stages
      /\ InHand => lmsg.stage \in Stages
  BY PlaysTyped
<1>3. QueueInOrder' /\ HandInOrder' /\ RowsBehind' /\ HandTyped'
  BY <1>1, <1>2 DEF IInv, QueueInOrder, HandInOrder, RowsBehind, HandTyped
<1> QED  BY <1>1, <1>3 DEF IInv

\* The invariant on which the theorems rest holds in every reachable state.
THEOREM Inductive == Spec => []IInv
<1>1. IInv /\ [Next]_vars => IInv'
  BY BroadcastKeeps, SendKeeps, TakeKeeps, InsertKeeps, OthersKeep DEF Next, Watcher, Logger
<1> QED  BY <1>1, InitHolds, PTL DEF Spec

\* Every variable keeps its type, and the queue its capacity.
THEOREM TypeCorrect == Spec => []TypeOK
<1>1. IInv => TypeOK
  BY DEF IInv
<1> QED  BY <1>1, Inductive, PTL

\* The rows of a stage are in the order of its announcements, however its watch
\* loop, the logger and the shutdown interleave, and none is there twice.
THEOREM Ordered == Spec => []RowsInOrder
<1>1. IInv => RowsInOrder
  <2> SUFFICES ASSUME IInv, NEW i \in DOMAIN rows, NEW j \in DOMAIN rows,
                      i < j, rows[i].stage = rows[j].stage
               PROVE  rows[i].n < rows[j].n
    BY DEF RowsInOrder
  <2>1. DOMAIN rows = 1..Len(rows)
    BY DEF IInv, TypeOK
  <2> QED  BY <2>1 DEF IInv, RowsBehind, Before
<1> QED  BY <1>1, Inductive, PTL

-----------------------------------------------------------------------------
(* Where the plays are                                                     *)

Logged == {rows[i] : i \in 1..Len(rows)}

\* Every play that has left its loop is somewhere, and what was given up is
\* nowhere else.
AllKept ==
    /\ \A p \in Play : p.n <= Out(p.stage) =>
          p \in Queued \cup Held \cup Logged \cup failed \cup dropped
    /\ \A p \in failed \cup dropped :
          p.n <= Out(p.stage) /\ p \notin Queued \cup Held \cup Logged
    /\ failed \cap dropped = {}

\* What the queue, the logger's hand and the loops hold, in terms of the order:
\* the play in hand is of none of the others, and a play still in its loop is
\* newer than all of them.
LEMMA Apart ==
    ASSUME IInv
    PROVE  /\ Queued \subseteq Play /\ Logged \subseteq Play /\ Held \subseteq Play
           /\ \A p \in Queued \cup Held \cup Logged : p.n <= Out(p.stage)
           /\ \A p \in Held : p \notin Queued \cup Logged
           /\ \A p \in Queued : p \notin Logged
           /\ \A p \in Held, q \in Queued : Before(p, q)
<1>1. /\ \A i \in 1..Len(playCh) : playCh[i] \in Play
      /\ \A i \in 1..Len(rows) : rows[i] \in Play
      /\ InHand => lmsg \in Play
      /\ \A p \in Play : p.stage \in Stages /\ p.n \in Nat
  BY PlaysTyped
<1>2. Held = IF InHand THEN {lmsg} ELSE {}
  BY DEF Held, InHand
<1>3. \A p \in Play : ~Before(p, p)
  BY <1>1 DEF Before
<1>4. \A p \in Held, q \in Queued : Before(p, q)
  BY <1>2 DEF IInv, HandInOrder, Queued
<1>5. \A p \in Logged, q \in Queued \cup Held : Before(p, q)
  BY <1>2 DEF IInv, RowsBehind, Queued, Logged
<1>6. \A p \in Queued \cup Held \cup Logged : p.n <= Out(p.stage)
  BY <1>2 DEF IInv, QueueInOrder, HandInOrder, RowsBehind, Queued, Logged
<1>7. Queued \subseteq Play /\ Logged \subseteq Play /\ Held \subseteq Play
  BY <1>1, <1>2 DEF Queued, Logged
<1> QED  BY <1>3, <1>4, <1>5, <1>6, <1>7

\* A send moves its play to the queue or gives it up.
LEMMA SendMoves ==
    ASSUME IInv, NEW s \in Stages, Send(s), ~closed
    PROVE  /\ Current(s) \in Play /\ Current(s).stage = s
           /\ Current(s).n = Out(s) + 1 /\ Out(s)' = Out(s) + 1
           /\ \A t \in Stages \ {s} : Out(t)' = Out(t)
           /\ UNCHANGED <<announced, Held, Logged, failed, rows>>
           /\ InLoop' = InLoop \ {Current(s)} /\ Current(s) \in InLoop
           /\ \/ Queued' = Queued \cup {Current(s)} /\ UNCHANGED dropped
              \/ UNCHANGED Queued /\ dropped' = dropped \cup {Current(s)}
<1> USE PlayAssumption
<1> DEFINE p == Current(s)
<1>1. /\ p \in Play /\ p.stage = s /\ p.n = Out(s) + 1
      /\ announced[s] \in Nat \ {0} /\ wpc[s] = "send"
  BY DEF IInv, TypeOK, Send, Current, Play, Out
<1>2. /\ wpc' = [wpc EXCEPT ![s] = "watch"]
      /\ UNCHANGED <<announced, lpc, lmsg, rows, failed>>
  BY DEF Send, logger
<1>3. Out(s)' = Out(s) + 1 /\ \A t \in Stages \ {s} : Out(t)' = Out(t)
  BY <1>1, <1>2 DEF IInv, TypeOK, Out
<1>4. UNCHANGED <<Held, Logged>>
  BY <1>2 DEF Held, Logged
<1>5. InLoop' = InLoop \ {p} /\ p \in InLoop
  <2>1. \A t \in Stages : /\ wpc'[t] = "send" <=> wpc[t] = "send" /\ t # s
                          /\ Current(t)' = Current(t)
                          /\ Current(t) = p => t = s
    BY <1>2 DEF IInv, TypeOK, Current
  <2> QED  BY <1>1, <2>1 DEF InLoop
<1>6. CASE Len(playCh) < QueueCap
  <2>1. playCh' = Append(playCh, p) /\ UNCHANGED dropped
    BY <1>6 DEF Send
  <2>2. /\ playCh' \in Seq(Play) /\ Len(playCh') = Len(playCh) + 1 /\ Len(playCh) \in Nat
        /\ \A i \in 1..Len(playCh) : playCh'[i] = playCh[i]
        /\ playCh'[Len(playCh) + 1] = p
    BY <1>1, <2>1, AppendPlay DEF IInv, TypeOK
  <2>3. 1..Len(playCh') = 1..Len(playCh) \cup {Len(playCh) + 1}
    BY <2>2
  <2>4. Queued' = Queued \cup {p}
    BY <2>2, <2>3 DEF Queued
  <2> QED  BY <1>1, <1>2, <1>3, <1>4, <1>5, <2>1, <2>4
<1>7. CASE ~(Len(playCh) < QueueCap)
  <2>1. UNCHANGED playCh /\ dropped' = dropped \cup {p}
    BY <1>7 DEF Send
  <2>2. UNCHANGED Queued
    BY <2>1 DEF Queued
  <2> QED  BY <1>1, <1>2, <1>3, <1>4, <1>5, <2>1, <2>2
<1> QED  BY <1>6, <1>7

\* Taking a play moves it from the queue to the hand.
LEMMA TakeMoves ==
    ASSUME IInv, Take
    PROVE  /\ Held = {} /\ Queued' \cup Held' = Queued /\ Queued \subseteq Play
           /\ UNCHANGED <<announced, wpc, Logged, rows, failed, dropped>>
<1>1. /\ lmsg' = playCh[1] /\ Len(playCh) \in Nat \ {0}
      /\ Len(playCh') = Len(playCh) - 1
      /\ \A i \in 1..Len(playCh') : playCh'[i] = playCh[i + 1]
  BY TailPlay DEF IInv, TypeOK, Take
<1>2. /\ Held = {} /\ Held' = {playCh[1]}
      /\ UNCHANGED <<announced, wpc, rows, failed, dropped>>
  BY <1>1 DEF Take, watchers, Held
<1>3. ASSUME NEW p PROVE p \in Queued <=> p \in Queued' \/ p = playCh[1]
  <2>1. ASSUME p \in Queued PROVE p \in Queued' \/ p = playCh[1]
    <3>1. PICK i \in 1..Len(playCh) : p = playCh[i]
      BY <2>1 DEF Queued
    <3>2. i = 1 \/ (i - 1 \in 1..Len(playCh') /\ playCh'[i - 1] = playCh[i])
      BY <1>1
    <3> QED  BY <3>1, <3>2 DEF Queued
  <2>2. ASSUME p \in Queued' PROVE p \in Queued
    <3>1. PICK i \in 1..Len(playCh') : p = playCh'[i]
      BY <2>2 DEF Queued
    <3>2. i + 1 \in 1..Len(playCh) /\ p = playCh[i + 1]
      BY <1>1, <3>1
    <3> QED  BY <3>2 DEF Queued
  <2>3. playCh[1] \in Queued
    BY <1>1 DEF Queued
  <2> QED  BY <2>1, <2>2, <2>3
<1> QED  BY <1>2, <1>3, Apart DEF Logged

\* An INSERT moves the play in hand to the rows or gives it up.
LEMMA InsertMoves ==
    ASSUME IInv, Insert
    PROVE  /\ lmsg \in Play /\ Held = {lmsg} /\ Held' = {}
           /\ UNCHANGED <<announced, wpc, Queued, dropped>>
           /\ \/ /\ rows' = Append(rows, lmsg) /\ Logged' = Logged \cup {lmsg}
                 /\ UNCHANGED failed
              \/ UNCHANGED <<rows, Logged>> /\ failed' = failed \cup {lmsg}
<1>1. /\ lmsg \in Play /\ Held = {lmsg} /\ Held' = {}
      /\ UNCHANGED <<announced, wpc, playCh, dropped>>
  BY DEF IInv, HandTyped, InHand, Insert, Held, watchers
<1>2. CASE rows' = Append(rows, lmsg) /\ UNCHANGED failed
  <2>1. /\ Len(rows') = Len(rows) + 1 /\ Len(rows) \in Nat
        /\ \A i \in 1..Len(rows) : rows'[i] = rows[i]
        /\ rows'[Len(rows) + 1] = lmsg
    BY <1>1, <1>2, AppendPlay DEF IInv, TypeOK
  <2>2. 1..Len(rows') = 1..Len(rows) \cup {Len(rows) + 1}
    BY <2>1
  <2>3. Logged' = Logged \cup {lmsg}
    BY <2>1, <2>2 DEF Logged
  <2> QED  BY <1>1, <1>2, <2>3 DEF Queued
<1>3. CASE failed' = failed \cup {lmsg} /\ UNCHANGED rows
  BY <1>1, <1>3 DEF Queued, Logged
<1> QED  BY <1>2, <1>3 DEF Insert

\* The steps of a watch loop that move no play.
Moveless(s) == ChangeSong(s) \/ Fetch(s) \/ Stop(s) \/ (Send(s) /\ closed)

\* The other steps move no play, and only Broadcast announces one.
LEMMA OthersMoveNone ==
    ASSUME IInv,
           \/ \E s \in Stages : Moveless(s)
           \/ Lookup \/ Drained \/ Shutdown \/ UNCHANGED vars
    PROVE  /\ UNCHANGED <<announced, Queued, Held, Logged, rows, failed, dropped, InLoop>>
           /\ \A t \in Stages : Out(t)' = Out(t)
<1> DEFINE Still == /\ UNCHANGED <<announced, playCh, rows, failed, dropped, lmsg>>
                    /\ InHand' = InHand
                    /\ \A t \in Stages : wpc'[t] = "send" <=> wpc[t] = "send"
<1>1. Still
  <2>1. ASSUME NEW s \in Stages, ChangeSong(s) PROVE Still
    BY <2>1 DEF ChangeSong, InHand, watchers, logger
  <2>2. ASSUME NEW s \in Stages, Fetch(s) \/ Stop(s) PROVE Still
    BY <2>2 DEF IInv, TypeOK, Fetch, Stop, InHand, logger
  <2>3. ASSUME NEW s \in Stages, Send(s), closed PROVE Still
    BY <2>3 DEF Send, InHand, logger
  <2>4. CASE Lookup \/ Drained
    BY <2>4 DEF Lookup, Drained, InHand, watchers
  <2>5. CASE Shutdown
    BY <2>5 DEF Shutdown, Signal, CloseQueue, LoggerGone, Exit, InHand, watchers, logger
  <2>6. CASE UNCHANGED vars
    BY <2>6 DEF vars, InHand, watchers, logger
  <2> QED  BY <2>1, <2>2, <2>3, <2>4, <2>5, <2>6 DEF Moveless
<1>2. UNCHANGED <<Queued, Held, Logged>>
  BY <1>1 DEF Queued, Held, InHand, Logged
<1>3. UNCHANGED InLoop
  BY <1>1 DEF InLoop, Current
<1>4. \A t \in Stages : Out(t)' = Out(t)
  BY <1>1 DEF Out
<1> QED  BY <1>1, <1>2, <1>3, <1>4

\* A play is nowhere, and everything still in its loop is later, at first.
LEMMA KeptInit == Init => AllKept
<1> SUFFICES ASSUME Init PROVE AllKept
  OBVIOUS
<1>1. \A p \in Play : ~(p.n <= Out(p.stage))
  BY DEF Init, Play, Out
<1> QED  BY <1>1 DEF Init, AllKept

\* A play stays where it is, or goes where the steps above take it.
LEMMA KeptStep ==
    ASSUME IInv, AllKept, [Next]_vars
    PROVE  AllKept'
<1>1. ASSUME NEW s \in Stages, Broadcast(s) PROVE AllKept'
  <2>1. UNCHANGED <<Queued, Held, Logged, failed, dropped>>
    BY <1>1 DEF Broadcast, Queued, Held, Logged, logger
  <2>2. \A t \in Stages : Out(t)' = Out(t)
    BY <1>1 DEF IInv, TypeOK, Broadcast, Out
  <2>3. failed \cup dropped \subseteq Play /\ \A p \in Play : p.stage \in Stages
    BY PlaysTyped DEF IInv, TypeOK
  <2> QED  BY <2>1, <2>2, <2>3 DEF AllKept
<1>2. ASSUME NEW s \in Stages, Send(s), ~closed PROVE AllKept'
  <2>0. PICK q \in Play : q = Current(s)
    BY <1>2, SendMoves
  <2>1. /\ q \in Play /\ q.stage = s /\ q.n = Out(s) + 1 /\ Out(s)' = Out(s) + 1
        /\ \A t \in Stages \ {s} : Out(t)' = Out(t)
        /\ UNCHANGED <<Held, Logged, failed>>
        /\ \/ Queued' = Queued \cup {q} /\ UNCHANGED dropped
           \/ UNCHANGED Queued /\ dropped' = dropped \cup {q}
    BY <1>2, <2>0, SendMoves
  <2>2. Out(s) \in Int
    BY DEF IInv, TypeOK, Out
  <2>3. \A p \in Play : p.stage \in Stages /\ p.n \in Nat
    BY PlaysTyped
  <2>4. \A p \in Play : p.n <= Out(p.stage) => p.n <= Out(p.stage)' /\ p # q
    BY <2>1, <2>2, <2>3
  <2>5. \A p \in Play : p.n <= Out(p.stage)' => p.n <= Out(p.stage) \/ p = q
    <3> SUFFICES ASSUME NEW p \in Play, p.n <= Out(p.stage)', ~(p.n <= Out(p.stage))
                 PROVE  p = q
      OBVIOUS
    <3>1. p.stage = s /\ p.n = Out(s) + 1
      BY <2>1, <2>2, <2>3
    <3> QED  BY <2>1, <3>1 DEF Play
  <2>6. failed \cup dropped \subseteq Play
    BY DEF IInv, TypeOK
  <2>7. q \notin Queued \cup Held \cup Logged \cup failed \cup dropped
    BY <2>1, <2>4, <2>6, Apart DEF AllKept
  <2>8. q.n <= Out(q.stage)'
    BY <2>1, <2>2
  <2>9. \A p \in failed' \cup dropped' :
           p.n <= Out(p.stage)' /\ p \notin Queued' \cup Held' \cup Logged'
    BY <2>1, <2>4, <2>6, <2>7, <2>8 DEF AllKept
  <2>10. \A p \in Play : p.n <= Out(p.stage)' =>
            p \in Queued' \cup Held' \cup Logged' \cup failed' \cup dropped'
    BY <2>1, <2>5 DEF AllKept
  <2> QED  BY <2>1, <2>7, <2>9, <2>10 DEF AllKept
<1>3. CASE Take
  <2>1. \A t : Out(t)' = Out(t)
    BY <1>3, TakeMoves DEF Out
  <2> QED  BY <1>3, <2>1, TakeMoves DEF AllKept
<1>4. CASE Insert
  <2>1. \A t : Out(t)' = Out(t)
    BY <1>4, InsertMoves DEF Out
  <2>2. lmsg \notin Queued \cup Logged /\ lmsg.n <= Out(lmsg.stage)
    BY <1>4, InsertMoves, Apart
  <2>3. lmsg \notin failed \cup dropped
    BY <1>4, InsertMoves DEF AllKept
  <2> QED  BY <1>4, <2>1, <2>2, <2>3, InsertMoves DEF AllKept
<1>5. CASE \/ \E s \in Stages : Moveless(s)
           \/ Lookup \/ Drained \/ Shutdown \/ UNCHANGED vars
  <2>1. failed \cup dropped \subseteq Play /\ \A p \in Play : p.stage \in Stages
    BY PlaysTyped DEF IInv, TypeOK
  <2> QED  BY <1>5, <2>1, OthersMoveNone DEF AllKept
<1>6. ASSUME NEW s \in Stages, ChangeSong(s) \/ Watcher(s) PROVE AllKept'
  <2>1. CASE Broadcast(s) \/ (Send(s) /\ ~closed)
    BY <1>1, <1>2, <2>1
  <2>2. CASE Moveless(s)
    BY <1>5, <2>2
  <2> QED  BY <1>6, <2>1, <2>2 DEF Watcher, Moveless
<1>7. CASE Lookup \/ Drained \/ Shutdown \/ UNCHANGED vars
  BY <1>5, <1>7
<1> QED  BY <1>3, <1>4, <1>6, <1>7 DEF Next, Logger

\* Between two plays the logger's hand is empty.
HandAtRest == ~InHand => lmsg = NoPlay

\* The logger drops its play from its hand when it goes back to the queue.
LEMMA RestStep ==
    ASSUME HandAtRest, [Next]_vars
    PROVE  HandAtRest'
<1>1. ASSUME NEW s \in Stages, ChangeSong(s) \/ Watcher(s) PROVE HandAtRest'
  BY <1>1 DEF HandAtRest, InHand, ChangeSong, Watcher, Fetch, Broadcast, Send, Stop, logger
<1>2. CASE Logger
  BY <1>2 DEF HandAtRest, InHand, Logger, Take, Lookup, Insert, Drained
<1>3. CASE Shutdown
  BY <1>3 DEF HandAtRest, InHand, Shutdown, Signal, CloseQueue, LoggerGone, Exit, logger
<1>4. CASE UNCHANGED vars
  BY <1>4 DEF HandAtRest, InHand, vars, logger
<1> QED  BY <1>1, <1>2, <1>3, <1>4 DEF Next

\* In every reachable state each play is where it belongs.
THEOREM Kept == Spec => [](IInv /\ AllKept /\ HandAtRest)
<1>1. Init => IInv /\ AllKept /\ HandAtRest
  BY InitHolds, KeptInit DEF Init, HandAtRest
<1>2. IInv /\ AllKept /\ HandAtRest /\ [Next]_vars => (IInv /\ AllKept /\ HandAtRest)'
  <2>1. IInv /\ [Next]_vars => IInv'
    BY BroadcastKeeps, SendKeeps, TakeKeeps, InsertKeeps, OthersKeep DEF Next, Watcher, Logger
  <2> QED  BY <2>1, KeptStep, RestStep
<1> QED  BY <1>1, <1>2, PTL DEF Spec

\* A play is at one place of a sequence whose plays are in order, or at none.
LEMMA OncePerSequence ==
    ASSUME NEW q \in Seq(Play), NEW p \in Play,
           \A i, j \in 1..Len(q) : i < j => Before(q[i], q[j])
    PROVE  Cardinality({i \in DOMAIN q : q[i] = p}) =
             IF p \in {q[i] : i \in 1..Len(q)} THEN 1 ELSE 0
<1> DEFINE S == {i \in DOMAIN q : q[i] = p}
<1>1. DOMAIN q = 1..Len(q) /\ Len(q) \in Nat
  OBVIOUS
<1>2. CASE p \in {q[i] : i \in 1..Len(q)}
  <2>1. PICK i \in 1..Len(q) : q[i] = p
    BY <1>2
  <2>2. \A j \in 1..Len(q) : q[j] = p => j = i
    <3>1. ~Before(p, p)
      BY DEF Play, Before
    <3>2. \A j \in 1..Len(q) : j # i => j < i \/ i < j
      OBVIOUS
    <3> QED  BY <2>1, <3>1, <3>2
  <2>3. S = {i}
    BY <1>1, <2>1, <2>2
  <2>4. Cardinality({i}) = 1
    BY FS_Singleton
  <2> QED  BY <1>2, <2>3, <2>4
<1>3. CASE p \notin {q[i] : i \in 1..Len(q)}
  <2>1. S = {}
    BY <1>1, <1>3
  <2>2. Cardinality({}) = 0
    BY FS_EmptySet
  <2> QED  BY <1>3, <2>1, <2>2
<1> QED  BY <1>2, <1>3

\* What was offered to the queue has left its loop.
LEMMA OfferedOut ==
    ASSUME IInv, NEW p \in Offered
    PROVE  p \in Play /\ p.n \in Nat \ {0} /\ p.n <= Out(p.stage)
<1>1. PICK s \in Stages : p \in {[stage |-> s, n |-> i] : i \in 1..Out(s)}
  BY DEF Offered, Out
<1>2. Out(s) \in Int
  BY DEF IInv, TypeOK, Out
<1> QED  BY <1>1, <1>2 DEF Play

\* A play offered to the queue is in exactly one place: it waits, is in hand, is
\* logged, or was given up by the queue or by the database.
THEOREM EveryPlayOnce == Spec => []Accounted
<1>1. IInv /\ AllKept /\ HandAtRest => Accounted
  <2> SUFFICES ASSUME IInv, AllKept, HandAtRest, NEW p \in Offered PROVE Places(p) = 1
    BY DEF Accounted
  <2>1. p \in Play /\ p.n \in Nat \ {0} /\ p.n <= Out(p.stage)
    BY OfferedOut
  <2>2. p \in Queued \cup Held \cup Logged \cup failed \cup dropped
    BY <2>1 DEF AllKept
  <2>3. /\ p \in failed \cup dropped => p \notin Queued \cup Held \cup Logged
        /\ ~(p \in failed /\ p \in dropped)
    BY DEF AllKept
  <2>4. /\ p \in Held => p \notin Queued \cup Logged
        /\ p \in Queued => p \notin Logged
    BY Apart
  <2>5. Cardinality({i \in DOMAIN playCh : playCh[i] = p}) = IF p \in Queued THEN 1 ELSE 0
    BY <2>1, OncePerSequence DEF IInv, TypeOK, QueueInOrder, Queued
  <2>6. Cardinality({i \in DOMAIN rows : rows[i] = p}) = IF p \in Logged THEN 1 ELSE 0
    BY <2>1, OncePerSequence DEF IInv, TypeOK, RowsBehind, Logged
  <2>7. Cardinality({h \in {lmsg} : h = p}) = IF p \in Held THEN 1 ELSE 0
    <3>1. p = lmsg <=> p \in Held
      BY <2>1 DEF HandAtRest, InHand, Held, NoPlay
    <3>2. {h \in {lmsg} : h = p} = IF p \in Held THEN {p} ELSE {}
      BY <3>1
    <3> QED  BY <3>2, FS_Singleton, FS_EmptySet
  <2>8. Cardinality({p} \cap failed) = IF p \in failed THEN 1 ELSE 0
    <3>1. {p} \cap failed = IF p \in failed THEN {p} ELSE {}
      OBVIOUS
    <3> QED  BY <3>1, FS_Singleton, FS_EmptySet
  <2>9. Cardinality({p} \cap dropped) = IF p \in dropped THEN 1 ELSE 0
    <3>1. {p} \cap dropped = IF p \in dropped THEN {p} ELSE {}
      OBVIOUS
    <3> QED  BY <3>1, FS_Singleton, FS_EmptySet
  <2>10. CASE p \in Queued
    BY <2>3, <2>4, <2>5, <2>6, <2>7, <2>8, <2>9, <2>10 DEF Places
  <2>11. CASE p \in Held
    BY <2>3, <2>4, <2>5, <2>6, <2>7, <2>8, <2>9, <2>11 DEF Places
  <2>12. CASE p \in Logged
    BY <2>3, <2>4, <2>5, <2>6, <2>7, <2>8, <2>9, <2>12 DEF Places
  <2>13. CASE p \in failed
    BY <2>3, <2>4, <2>5, <2>6, <2>7, <2>8, <2>9, <2>13 DEF Places
  <2>14. CASE p \in dropped
    BY <2>3, <2>4, <2>5, <2>6, <2>7, <2>8, <2>9, <2>14 DEF Places
  <2> QED  BY <2>2, <2>10, <2>11, <2>12, <2>13, <2>14
<1> QED  BY <1>1, Kept, PTL

-----------------------------------------------------------------------------
(* The shutdown                                                            *)

\* The shutdown goes past its drain only once the logger is done, and the logger
\* is done only with a closed and empty queue.
DrainInv ==
    /\ shut \in {"closing", "done"} => lpc = "done"
    /\ lpc = "done" => closed /\ playCh = <<>>

\* Nothing is queued after the close, so what the logger left empty stays so.
LEMMA DrainStep ==
    ASSUME DrainInv, [Next]_vars
    PROVE  DrainInv'
<1>1. ASSUME NEW s \in Stages, ChangeSong(s) \/ Watcher(s) PROVE DrainInv'
  BY <1>1 DEF DrainInv, ChangeSong, Watcher, Fetch, Broadcast, Send, Stop, logger
<1>2. CASE Logger
  BY <1>2 DEF DrainInv, Logger, Take, Lookup, Insert, Drained
<1>3. CASE Shutdown
  BY <1>3 DEF DrainInv, Shutdown, Signal, CloseQueue, LoggerGone, Exit, logger
<1>4. CASE UNCHANGED vars
  BY <1>4 DEF DrainInv, vars, logger
<1> QED  BY <1>1, <1>2, <1>3, <1>4 DEF Next

\* When main returns every play that reached the queue is in the table, or its
\* INSERT failed, or the full queue refused it.
THEOREM ExitsDrained == Spec => []DrainedAtExit
<1>1. Init => DrainInv
  BY DEF Init, DrainInv
<1>2. IInv /\ AllKept /\ DrainInv => DrainedAtExit
  <2> SUFFICES ASSUME IInv, AllKept, DrainInv, shut = "done", NEW p \in Offered
               PROVE  p \in dropped \cup failed \/ \E i \in DOMAIN rows : rows[i] = p
    BY DEF DrainedAtExit
  <2>1. Held = {} /\ Queued = {}
    BY DEF DrainInv, Held, Queued
  <2>2. p \in Play /\ p.n <= Out(p.stage)
    BY OfferedOut
  <2>3. p \in Logged \/ p \in failed \cup dropped
    BY <2>1, <2>2 DEF AllKept
  <2> QED  BY <2>3 DEF IInv, TypeOK, Logged
<1> QED  BY <1>1, <1>2, DrainStep, Kept, PTL DEF Spec

-----------------------------------------------------------------------------
(* The implementation of TrackLog                                          *)

\* What is owed in TrackLog's terms.
Owed == InLoop \cup Queued \cup Held

\* What the queue holds first is the oldest play owed, and a play still in its
\* loop is the newest.
LEMMA LoopIsNewest ==
    ASSUME IInv, NEW p \in Queued \cup Held
    PROVE  p \notin InLoop /\ \A q \in InLoop : q.stage = p.stage => p.n <= q.n
<1> SUFFICES ASSUME NEW q \in InLoop, q.stage = p.stage PROVE p.n < q.n /\ p.n \in Int /\ q.n \in Int
  OBVIOUS
<1>1. PICK s \in Stages : wpc[s] = "send" /\ q = Current(s)
  BY DEF InLoop
<1>2. q.n = announced[s] /\ q.stage = s /\ Out(s) = announced[s] - 1 /\ announced[s] \in Nat
  BY <1>1 DEF Current, Out, IInv, TypeOK
<1>3. p.n <= Out(s) /\ p.n \in Nat
  BY <1>2, Apart, PlaysTyped
<1> QED  BY <1>2, <1>3

\* An announcement is TrackLog's.
LEMMA BroadcastIsAnnounce ==
    ASSUME IInv, NEW s \in Stages, Broadcast(s)
    PROVE  Log!Announce(s)
<1>1. UNCHANGED <<Queued, Held, rows, failed, dropped>>
  BY DEF Broadcast, Queued, Held, logger
<1>2. InLoop' = InLoop \cup {[stage |-> s, n |-> announced[s] + 1]}
  <2>1. \A t \in Stages : wpc'[t] = "send" <=> wpc[t] = "send" \/ t = s
    BY DEF Broadcast, IInv, TypeOK
  <2>2. /\ \A t \in Stages \ {s} : Current(t)' = Current(t)
        /\ Current(s)' = [stage |-> s, n |-> announced[s] + 1]
    BY DEF Broadcast, IInv, TypeOK, Current
  <2>3. wpc[s] # "send"
    BY DEF Broadcast
  <2> QED  BY <2>1, <2>2, <2>3 DEF InLoop
<1>3. announced' = [announced EXCEPT ![s] = @ + 1]
  BY DEF Broadcast
<1> QED  BY <1>1, <1>2, <1>3 DEF Log!Announce

\* A send keeps what is owed, or gives up the play it cannot queue.
LEMMA SendIsLose ==
    ASSUME IInv, NEW s \in Stages, Send(s), ~closed
    PROVE  \/ UNCHANGED <<announced, Owed, rows, failed \cup dropped>>
           \/ \E p \in Owed : Log!Lose(p)
<1>1. PICK p \in Play : p = Current(s)
  BY SendMoves
<1>2. /\ UNCHANGED <<announced, Held, rows, failed>>
      /\ InLoop' = InLoop \ {p} /\ p \in InLoop
      /\ \/ Queued' = Queued \cup {p} /\ UNCHANGED dropped
         \/ UNCHANGED Queued /\ dropped' = dropped \cup {p}
  BY <1>1, SendMoves
<1>3. CASE Queued' = Queued \cup {p} /\ UNCHANGED dropped
  BY <1>2, <1>3 DEF Owed
<1>4. CASE UNCHANGED Queued /\ dropped' = dropped \cup {p}
  <2>1. p \notin Queued \cup Held
    BY <1>2, LoopIsNewest
  <2>2. Log!Lose(p)
    BY <1>2, <1>4, <2>1 DEF Log!Lose
  <2> QED  BY <1>2, <2>2 DEF Owed
<1> QED  BY <1>2, <1>3, <1>4

\* An INSERT logs the oldest play owed of its stage, or gives it up.
LEMMA InsertIsLog ==
    ASSUME IInv, Insert
    PROVE  \E p \in Owed : Log!Log(p) \/ Log!Lose(p)
<1>1. PICK p \in Play : p = lmsg
  BY InsertMoves
<1>2. /\ Held = {p} /\ Held' = {}
      /\ UNCHANGED <<announced, wpc, Queued, dropped>>
      /\ \/ rows' = Append(rows, p) /\ UNCHANGED failed
         \/ UNCHANGED rows /\ failed' = failed \cup {p}
  BY <1>1, InsertMoves
<1>3. UNCHANGED InLoop
  BY <1>2 DEF InLoop, Current
<1>4. p \notin Queued /\ p \notin InLoop
  BY <1>2, Apart, LoopIsNewest
<1>5. \A q \in InLoop \cup Queued \cup Held : q.stage = p.stage => p.n <= q.n
  <2>1. \A q \in InLoop : q.stage = p.stage => p.n <= q.n
    BY <1>2, LoopIsNewest
  <2>2. \A q \in Queued : q.stage = p.stage => p.n <= q.n
    BY <1>2, Apart, PlaysTyped DEF Before
  <2>3. p.n <= p.n
    BY PlaysTyped
  <2> QED  BY <1>2, <2>1, <2>2, <2>3
<1>6. Log!Log(p) \/ Log!Lose(p)
  <2>1. CASE rows' = Append(rows, p) /\ UNCHANGED failed
    BY <1>2, <1>3, <1>4, <1>5, <2>1 DEF Log!Log
  <2>2. CASE UNCHANGED rows /\ failed' = failed \cup {p}
    BY <1>2, <1>3, <1>4, <2>2 DEF Log!Lose
  <2> QED  BY <1>2, <2>1, <2>2
<1> QED  BY <1>2, <1>6 DEF Owed

\* The path of a track change implements TrackLog: plays are logged in order,
\* once, or given up for good, for any queue, any number of stages and whatever
\* the database and the shutdown do.
THEOREM Implements == Spec => LogsAsPromised
<1>1. Init => Log!Init
  BY DEF Init, Log!Init, InLoop, Queued, Held
<1>2. IInv /\ [Next]_vars => [Log!Next]_(Log!vars)
  <2> SUFFICES ASSUME IInv, [Next]_vars
               PROVE  Log!Next \/ UNCHANGED <<announced, Owed, rows, failed \cup dropped>>
    BY DEF Log!vars, Owed
  <2>1. ASSUME NEW s \in Stages, Broadcast(s) PROVE Log!Next
    BY <2>1, BroadcastIsAnnounce DEF Log!Next
  <2>2. ASSUME NEW s \in Stages, Send(s), ~closed
        PROVE  Log!Next \/ UNCHANGED <<announced, Owed, rows, failed \cup dropped>>
    BY <2>2, SendIsLose DEF Log!Next, Owed
  <2>3. CASE Insert
    BY <2>3, InsertIsLog DEF Log!Next, Owed
  <2>4. CASE Take
    <3>1. UNCHANGED InLoop
      BY <2>4, TakeMoves DEF InLoop, Current
    <3> QED  BY <2>4, <3>1, TakeMoves DEF Owed
  <2>5. CASE \/ \E s \in Stages : Moveless(s)
             \/ Lookup \/ Drained \/ Shutdown \/ UNCHANGED vars
    BY <2>5, OthersMoveNone DEF Owed
  <2>6. ASSUME NEW s \in Stages, ChangeSong(s) \/ Watcher(s)
        PROVE  Log!Next \/ UNCHANGED <<announced, Owed, rows, failed \cup dropped>>
    <3>1. CASE Broadcast(s) \/ (Send(s) /\ ~closed)
      BY <2>1, <2>2, <3>1
    <3>2. CASE Moveless(s)
      BY <2>5, <3>2
    <3> QED  BY <2>6, <3>1, <3>2 DEF Watcher, Moveless
  <2>7. CASE Lookup \/ Drained \/ Shutdown \/ UNCHANGED vars
    BY <2>5, <2>7
  <2> QED  BY <2>3, <2>4, <2>6, <2>7 DEF Next, Logger
<1> QED  BY <1>1, <1>2, Inductive, PTL DEF Spec, LogsAsPromised, Log!Spec
=============================================================================
