---------------------------- MODULE MPDConnProofs ----------------------------
(***************************************************************************)
(* Proofs about MPDConn, for any set of clients, callers and songs and any *)
(* number of faults.                                                       *)
(***************************************************************************)
EXTENDS MPDConn, TLAPS

Wherever == {"idle", "stopped"} \cup CallSteps \cup WatchSteps

\* The part of TypeOK that is about goroutines.
ProcOK ==
    /\ pc \in [Procs -> Wherever]
    /\ pc[Watch] # "idle"
    /\ \A q \in Procs \ {Watch} : pc[q] \notin WatchSteps
    /\ call \in [Procs -> {"none", "status", "probe", "song", "ping"}]
    /\ snap \in [Procs -> Clients \cup {Nil}]
    /\ target \in [Procs -> Clients \cup {Nil}]

\* The continuation of a withClient stays among the known commands, and the
\* watch loop goes on to emit where any other goroutine is done.
LEMMA ReturnType ==
    ASSUME TypeOK, NEW p \in Procs, NEW outcome, NEW seen \in Clients \cup {Nil},
           pc[p] \in CallSteps, Return(p, outcome, seen)
    PROVE  ProcOK'
<1> DEFINE next == NextCall(call[p], outcome)
<1>1. next \in {"song", "probe", "kill", "done"}
  BY DEF NextCall
<1>2. call' \in [Procs -> {"none", "status", "probe", "song", "ping"}]
  BY <1>1 DEF Return, TypeOK
<1>3. pc' = [pc EXCEPT ![p] = "enter"] \/ pc' = [pc EXCEPT ![p] = "kill"]
      \/ pc' = [pc EXCEPT ![p] = Finished(p)]
  BY <1>1 DEF Return
<1>4. /\ pc' \in [Procs -> Wherever]
      /\ pc'[Watch] # "idle"
      /\ \A q \in Procs \ {Watch} : pc'[q] \notin WatchSteps
  BY <1>3 DEF TypeOK, Wherever, CallSteps, WatchSteps, Finished, Procs
<1>5. snap' \in [Procs -> Clients \cup {Nil}]
  BY DEF Return, TypeOK
<1>6. target' \in [Procs -> Clients \cup {Nil}]
  BY DEF Return, TypeOK
<1> QED
  BY <1>2, <1>4, <1>5, <1>6 DEF ProcOK

\* Every variable keeps its type, and only the watch loop is ever at one of
\* watchLoop's own steps (pool.go:458-610).
THEOREM TypeCorrect == Spec => []TypeOK
<1>1. Init => TypeOK
  <2> SUFFICES ASSUME Init PROVE TypeOK
    OBVIOUS
  <2>1. pc \in [Procs -> Wherever] /\ Watch \in Procs /\ pc[Watch] = "top"
    BY DEF Init, Procs, Wherever, CallSteps, WatchSteps
  <2>2. \A p \in Procs \ {Watch} : pc[p] = "idle"
    BY DEF Init
  <2>3. call \in [Procs -> {"none"}] /\ snap \in [Procs -> {Nil}]
        /\ target \in [Procs -> {Nil}]
    BY DEF Init
  <2> QED
    BY <2>1, <2>2, <2>3 DEF Init, TypeOK, Wherever, WatchSteps
<1>2. TypeOK /\ [Next]_vars => TypeOK'
  <2> SUFFICES ASSUME TypeOK, [Next]_vars PROVE TypeOK'
    OBVIOUS
  <2>0. Watch \in Procs /\ Keep \in Procs /\ Watch # Keep
    BY ConnAssumption DEF Procs
  <2> USE <2>0 DEF conn, proc, loop, life, mpd
  <2>1. ASSUME NEW p \in Procs, Enter(p) PROVE TypeOK'
    <3>1. CASE client = Nil \/ ~alive
      <4>1. pc[p] \in CallSteps /\ Return(p, "notok", Nil)
        BY <2>1, <3>1 DEF Enter, CallSteps
      <4> QED BY <4>1, <2>1, ReturnType DEF Enter, ProcOK, TypeOK, Wherever
    <3>2. CASE ~(client = Nil \/ ~alive)
      BY <2>1, <3>2 DEF Enter, TypeOK, CallSteps, WatchSteps
    <3> QED BY <3>1, <3>2
  <2>2. ASSUME NEW p \in Procs, Acquire(p) PROVE TypeOK'
    <3>1. CASE client = snap[p] /\ alive
      BY <2>2, <3>1 DEF Acquire, TypeOK, CallSteps, WatchSteps
    <3>2. CASE ~(client = snap[p] /\ alive)
      <4>1. pc[p] \in CallSteps /\ Return(p, "notok", Nil)
        BY <2>2, <3>2 DEF Acquire, CallSteps
      <4> QED BY <4>1, <2>2, <3>2, ReturnType DEF Acquire, ProcOK, TypeOK, Wherever
    <3> QED BY <3>1, <3>2
  <2>3. ASSUME NEW p \in Procs, Succeed(p) PROVE TypeOK'
    <3>1. pc[p] \in CallSteps /\ Return(p, "ok", snap[p]) /\ snap[p] \in Clients \cup {Nil}
      BY <2>3 DEF Succeed, CallSteps, TypeOK
    <3> QED BY <3>1, <2>3, ReturnType DEF Succeed, ProcOK, TypeOK, Wherever
  <2>4. ASSUME NEW p \in Procs, Fail(p) PROVE TypeOK'
    <3>1. pc[p] \in CallSteps /\ Return(p, "err", snap[p]) /\ snap[p] \in Clients \cup {Nil}
      BY <2>4 DEF Fail, CallSteps, TypeOK
    <3> QED BY <3>1, <2>4, ReturnType DEF Fail, ProcOK, TypeOK, Wherever
  <2>5. ASSUME NEW p \in Procs, Timeout(p) PROVE TypeOK'
    <3>1. PICK seen \in Clients \cup {Nil} : Return(p, "err", seen)
      BY <2>5 DEF Timeout, TypeOK
    <3>2. pc[p] \in CallSteps /\ snap[p] \in Clients
      BY <2>5 DEF Timeout, CallSteps, TypeOK
    <3>3. client' \in Clients \cup {Nil} /\ alive' \in BOOLEAN
      BY <2>5 DEF Timeout, Kill, TypeOK
    <3> QED BY <3>1, <3>2, <3>3, <2>5, ReturnType DEF Timeout, ProcOK, TypeOK, Wherever
  <2>6. ASSUME NEW p \in Procs, MarkDead(p) PROVE TypeOK'
    <3>1. client' \in Clients \cup {Nil} /\ alive' \in BOOLEAN
      BY <2>6 DEF MarkDead, Kill, TypeOK
    <3>2. pc' = [pc EXCEPT ![p] = Finished(p)]
      BY <2>6 DEF MarkDead
    <3>3. /\ pc' \in [Procs -> Wherever]
          /\ pc'[Watch] # "idle"
          /\ \A q \in Procs \ {Watch} : pc'[q] \notin WatchSteps
      BY <3>2 DEF Finished, TypeOK, Wherever, CallSteps, WatchSteps
    <3> QED BY <2>6, <3>1, <3>3 DEF MarkDead, TypeOK, Wherever
  <2>7. ASSUME NEW p \in Procs, Request(p) PROVE TypeOK'
    BY <2>7 DEF Request, Begin, TypeOK, CallSteps, WatchSteps
  <2>8. ASSUME NEW c \in Clients, OrphanEnds(c) \/ Break(c) PROVE TypeOK'
    BY <2>8 DEF OrphanEnds, Break, Fault, TypeOK
  <2>9. CASE KeepTick \/ KeepStop
    BY <2>9 DEF KeepTick, KeepStop, Begin, TypeOK, Procs, CallSteps, WatchSteps
  <2>10. CASE WatchLoop
    <3>1. ASSUME NEW from, NEW to \in WatchSteps \cup {"stopped"}, WatchGoes(from, to)
          PROVE  ProcOK'
      BY <3>1 DEF WatchGoes, ProcOK, TypeOK, Wherever, WatchSteps
    <3>2. ASSUME Begin(Watch, "status") PROVE ProcOK'
      BY <3>2 DEF Begin, ProcOK, TypeOK, Wherever, CallSteps
    <3>3. ProcOK'
      <4>1. \/ Begin(Watch, "status")
            \/ \E from : \E to \in WatchSteps \cup {"stopped"} : WatchGoes(from, to)
        BY <2>10 DEF WatchLoop, LoopTop, BackoffStop, BackoffDial, DialOK,
           DialFail, Emit, OpenWatcher, OpenFail, Retry, RetryStop, SelectStop,
           WatcherError, Watchdog, WatcherEvent, LeaveSelect, WatchSteps, TypeOK
      <4> QED BY <4>1, <3>1, <3>2
    <3>4. /\ client' \in Clients \cup {Nil} /\ alive' \in BOOLEAN
          /\ bad' \in SUBSET Clients /\ ioMu' = ioMu /\ orphans' = orphans
      BY <2>10 DEF WatchLoop, LoopTop, BackoffStop, BackoffDial, DialOK, DialFail,
         Emit, OpenWatcher, OpenFail, Retry, RetryStop, SelectStop, WatcherError,
         Watchdog, WatcherEvent, LeaveSelect, Detach, Kill, TypeOK
    <3>5. /\ back' \in {"open", "select"} /\ heard' \in Songs \cup {NoSong}
          /\ lastSong' \in Songs \cup {NoSong} /\ event' \in BOOLEAN
          /\ watcher' \in {"none", "live", "broken", "zombie"}
      BY <2>10 DEF WatchLoop, LoopTop, BackoffStop, BackoffDial, DialOK, DialFail,
         Emit, OpenWatcher, OpenFail, Retry, RetryStop, SelectStop, WatcherError,
         Watchdog, WatcherEvent, LeaveSelect, TypeOK
    <3>6. UNCHANGED <<life, mpd>>
      BY <2>10 DEF WatchLoop, LoopTop, BackoffStop, BackoffDial, DialOK, DialFail,
         Emit, OpenWatcher, OpenFail, Retry, RetryStop, SelectStop, WatcherError,
         Watchdog, WatcherEvent, LeaveSelect
    <3> QED BY <3>3, <3>4, <3>5, <3>6 DEF ProcOK, TypeOK, Wherever
  <2>11. CASE Cancel \/ CloseDetach \/ CloseReturn
    BY <2>11 DEF Cancel, CloseDetach, CloseReturn, Detach, TypeOK
  <2>12. CASE BreakWatcher \/ PlayerEvent \/ ChangeSong
    <3>1. faults' \in Nat /\ mpdSong' \in Songs \cup {NoSong}
      BY <2>12 DEF BreakWatcher, PlayerEvent, ChangeSong, Fault, TypeOK
    <3>2. event' \in BOOLEAN /\ watcher' \in {"none", "live", "broken", "zombie"}
      BY <2>12 DEF BreakWatcher, PlayerEvent, ChangeSong, TypeOK
    <3> QED
      BY <2>12, <3>1, <3>2 DEF BreakWatcher, PlayerEvent, ChangeSong, TypeOK
  <2>13. CASE UNCHANGED vars
    BY <2>13 DEF vars, TypeOK
  <2> QED
    BY <2>1, <2>2, <2>3, <2>4, <2>5, <2>6, <2>7, <2>8, <2>9, <2>10, <2>11,
       <2>12, <2>13 DEF Next, Command
<1> QED
  BY <1>1, <1>2, PTL DEF Spec

-----------------------------------------------------------------------------
(* One command per client                                                  *)

\* ioMu is held by whoever runs a command, and a client with a command left
\* behind by a timeout is neither the current one nor in use.
ConnInv ==
    /\ \A p \in Procs : Running(p) => ioMu = p /\ snap[p] \notin orphans
    /\ client \notin orphans

\* A return of withClient leaves "run" and touches no other goroutine.
LEMMA ReturnLeaves ==
    ASSUME TypeOK, NEW p \in Procs, NEW outcome, NEW seen, Return(p, outcome, seen)
    PROVE  /\ pc'[p] \in {"enter", "kill", "emit", "idle"}
           /\ \A q \in Procs \ {p} : pc'[q] = pc[q] /\ snap'[q] = snap[q]
  BY DEF Return, TypeOK, NextCall, Finished

\* A step of one goroutine outside Return moves only its own pc and snap.
LEMMA OthersStay ==
    ASSUME TypeOK, NEW p \in Procs, NEW to, pc' = [pc EXCEPT ![p] = to],
           to # "run", UNCHANGED snap, NEW q \in Procs, Running(q)'
    PROVE  q # p /\ Running(q) /\ snap'[q] = snap[q]
  BY DEF TypeOK, Running

\* ConnInv is inductive: it follows every step of every goroutine.
LEMMA ConnInvHolds == Spec => []ConnInv
<1>1. Init => ConnInv
  BY DEF Init, ConnInv, Running
<1>2. TypeOK /\ ConnInv /\ [Next]_vars => ConnInv'
  <2> SUFFICES ASSUME TypeOK, ConnInv, [Next]_vars PROVE ConnInv'
    OBVIOUS
  <2>0. /\ Watch \in Procs /\ Keep \in Procs
        /\ Free \notin Procs /\ Nil \notin Clients /\ Nil \notin orphans
    BY ConnAssumption DEF Procs, TypeOK
  <2> USE <2>0 DEF conn, proc, loop, life, mpd
  <2>1. ASSUME NEW p \in Procs, Enter(p) PROVE ConnInv'
    <3>1. UNCHANGED <<client, ioMu, orphans>>
      BY <2>1 DEF Enter
    <3>2. /\ pc'[p] # "run"
          /\ \A q \in Procs \ {p} : pc'[q] = pc[q] /\ snap'[q] = snap[q]
      <4>1. CASE client = Nil \/ ~alive
        BY <2>1, <4>1, ReturnLeaves DEF Enter
      <4>2. CASE ~(client = Nil \/ ~alive)
        BY <2>1, <4>2 DEF Enter, TypeOK
      <4> QED BY <4>1, <4>2
    <3> QED BY <3>1, <3>2 DEF ConnInv, Running
  <2>2. ASSUME NEW p \in Procs, Acquire(p) PROVE ConnInv'
    <3>1. UNCHANGED <<client, orphans>> /\ \A q \in Procs : ~Running(q)
      BY <2>2 DEF Acquire, ConnInv
    <3>2. CASE client = snap[p] /\ alive
      BY <2>2, <3>1, <3>2 DEF Acquire, TypeOK, ConnInv, Running
    <3>3. CASE ~(client = snap[p] /\ alive)
      <4>1. Return(p, "notok", Nil)
        BY <2>2, <3>3 DEF Acquire
      <4> QED BY <3>1, <4>1, ReturnLeaves DEF ConnInv, Running
    <3> QED BY <3>2, <3>3
  <2>3. ASSUME NEW p \in Procs, Succeed(p) \/ Fail(p) PROVE ConnInv'
    <3>1. PICK outcome \in {"ok", "err"} : Return(p, outcome, snap[p])
      BY <2>3 DEF Succeed, Fail
    <3>2. UNCHANGED <<client, orphans>> /\ Running(p)
      BY <2>3 DEF Succeed, Fail, Running
    <3>3. \A q \in Procs : ~Running(q)'
      BY <3>1, <3>2, ReturnLeaves DEF ConnInv, Running
    <3> QED BY <3>2, <3>3 DEF ConnInv
  <2>4. ASSUME NEW p \in Procs, Timeout(p) PROVE ConnInv'
    <3>1. PICK seen : Return(p, "err", seen)
      BY <2>4 DEF Timeout
    <3>2. \A q \in Procs : ~Running(q)'
      BY <2>4, <3>1, ReturnLeaves DEF ConnInv, Running, Timeout
    <3>3. snap[p] \in Clients /\ orphans' = orphans \cup {snap[p]} /\ Kill(snap[p])
      BY <2>4 DEF Timeout, TypeOK
    <3>4. client' \notin orphans'
      BY <3>3 DEF Kill, Matches, ConnInv
    <3> QED BY <3>2, <3>4 DEF ConnInv
  <2>5. ASSUME NEW p \in Procs, MarkDead(p) PROVE ConnInv'
    <3>1. client' \in {client, Nil} /\ UNCHANGED <<ioMu, orphans>>
      BY <2>5 DEF MarkDead, Kill
    <3>2. /\ pc'[p] # "run"
          /\ \A q \in Procs \ {p} : pc'[q] = pc[q] /\ snap'[q] = snap[q]
      BY <2>5 DEF MarkDead, Finished, TypeOK
    <3> QED BY <3>1, <3>2 DEF ConnInv, Running
  <2>6. ASSUME NEW p \in Procs, Request(p) PROVE ConnInv'
    BY <2>6, OthersStay DEF Request, Begin, ConnInv
  <2>7. ASSUME NEW c \in Clients, OrphanEnds(c) \/ Break(c) PROVE ConnInv'
    BY <2>7 DEF OrphanEnds, Break, ConnInv, Running
  <2>8. CASE KeepTick \/ KeepStop
    BY <2>8, OthersStay DEF KeepTick, KeepStop, Begin, ConnInv
  <2>9. CASE WatchLoop
    <3>1. client' \in {client, Nil} \/ client' \notin orphans
      BY <2>9 DEF WatchLoop, LoopTop, BackoffStop, BackoffDial, DialOK, DialFail,
         Emit, OpenWatcher, OpenFail, Retry, RetryStop, SelectStop, WatcherError,
         Watchdog, WatcherEvent, Detach, Kill, Referenced
    <3>2. /\ UNCHANGED <<ioMu, orphans, snap>>
          /\ \E to : to # "run" /\ pc' = [pc EXCEPT ![Watch] = to]
      <4> USE DEF WatchGoes, Begin
      <4>1. CASE LoopTop BY <4>1 DEF LoopTop
      <4>2. CASE BackoffStop \/ BackoffDial \/ DialOK \/ DialFail
        BY <4>2 DEF BackoffStop, BackoffDial, DialOK, DialFail
      <4>3. CASE Emit BY <4>3 DEF Emit, TypeOK
      <4>4. CASE OpenWatcher \/ OpenFail \/ Retry \/ RetryStop
        BY <4>4 DEF OpenWatcher, OpenFail, Retry, RetryStop
      <4>5. CASE SelectStop \/ WatcherError \/ Watchdog
        BY <4>5 DEF SelectStop, WatcherError, Watchdog, LeaveSelect
      <4>6. CASE WatcherEvent BY <4>6 DEF WatcherEvent
      <4> QED BY <2>9, <4>1, <4>2, <4>3, <4>4, <4>5, <4>6 DEF WatchLoop
    <3> QED BY <3>1, <3>2, OthersStay DEF ConnInv
  <2>10. CASE Cancel \/ CloseDetach \/ CloseReturn
    BY <2>10 DEF Cancel, CloseDetach, CloseReturn, Detach, ConnInv, Running
  <2>11. CASE BreakWatcher \/ PlayerEvent \/ ChangeSong
    BY <2>11 DEF BreakWatcher, PlayerEvent, ChangeSong, ConnInv, Running
  <2>12. CASE UNCHANGED vars
    BY <2>12 DEF vars, ConnInv, Running
  <2> QED
    BY <2>1, <2>2, <2>3, <2>4, <2>5, <2>6, <2>7, <2>8, <2>9, <2>10, <2>11,
       <2>12 DEF Next, Command
<1> QED
  BY <1>1, <1>2, TypeCorrect, PTL DEF Spec

\* No two commands share a connection, a timed-out one included: ioMu, the
\* second look at the client and markDead before the unlock are enough
\* (pool.go:373-407).
THEOREM OneCommand == Spec => []OneCommandPerClient
<1>1. ConnInv => OneCommandPerClient
  BY DEF ConnInv, OneCommandPerClient
<1> QED
  BY <1>1, ConnInvHolds, PTL

-----------------------------------------------------------------------------
(* ioMu is never left locked                                               *)

\* Whoever holds ioMu runs a command, whose answer or 5 s timer is to come.
HolderRuns == ioMu # Free => ioMu \in Procs /\ Running(ioMu)

\* A goroutine that does not run moves on: the others, and ioMu, stay.
LEMMA OthersRun ==
    ASSUME TypeOK, HolderRuns, UNCHANGED ioMu, NEW p \in Procs, ~Running(p),
           \A q \in Procs \ {p} : pc'[q] = pc[q]
    PROVE  HolderRuns'
  BY DEF HolderRuns, Running

\* No path of withClient returns with ioMu locked, neither the second look at the
\* client nor the timeout: those that wait for it wait for a command that ends
\* (pool.go:366-407).
THEOREM LockReleased == Spec => []HolderRuns
<1>1. Init => HolderRuns
  BY DEF Init, HolderRuns
<1>2. TypeOK /\ HolderRuns /\ [Next]_vars => HolderRuns'
  <2> SUFFICES ASSUME TypeOK, HolderRuns, [Next]_vars PROVE HolderRuns'
    OBVIOUS
  <2>0. Watch \in Procs /\ Keep \in Procs
    BY DEF Procs
  <2> USE <2>0 DEF conn, proc, loop, life, mpd
  <2>1. ASSUME NEW p \in Procs, Enter(p) PROVE HolderRuns'
    <3>1. UNCHANGED ioMu /\ ~Running(p)
      BY <2>1 DEF Enter, Running
    <3>2. \A q \in Procs \ {p} : pc'[q] = pc[q]
      <4>1. CASE client = Nil \/ ~alive
        BY <2>1, <4>1, ReturnLeaves DEF Enter
      <4>2. CASE ~(client = Nil \/ ~alive)
        BY <2>1, <4>2 DEF Enter, TypeOK
      <4> QED BY <4>1, <4>2
    <3> QED BY <3>1, <3>2, OthersRun
  <2>2. ASSUME NEW p \in Procs, Acquire(p) PROVE HolderRuns'
    <3>1. CASE client = snap[p] /\ alive
      BY <2>2, <3>1 DEF Acquire, TypeOK, HolderRuns, Running
    <3>2. CASE ~(client = snap[p] /\ alive)
      BY <2>2, <3>2 DEF Acquire, HolderRuns
    <3> QED BY <3>1, <3>2
  <2>3. ASSUME NEW p \in Procs, Succeed(p) \/ Fail(p) \/ Timeout(p) PROVE HolderRuns'
    BY <2>3 DEF Succeed, Fail, Timeout, HolderRuns
  <2>4. ASSUME NEW p \in Procs, MarkDead(p) \/ Request(p) PROVE HolderRuns'
    <3>1. UNCHANGED ioMu /\ ~Running(p) /\ \A q \in Procs \ {p} : pc'[q] = pc[q]
      BY <2>4 DEF MarkDead, Request, Begin, Running, TypeOK
    <3> QED BY <3>1, OthersRun
  <2>5. ASSUME NEW c \in Clients, OrphanEnds(c) \/ Break(c) PROVE HolderRuns'
    BY <2>5 DEF OrphanEnds, Break, HolderRuns, Running
  <2>6. CASE KeepTick \/ KeepStop
    <3>1. UNCHANGED ioMu /\ ~Running(Keep) /\ \A q \in Procs \ {Keep} : pc'[q] = pc[q]
      BY <2>6 DEF KeepTick, KeepStop, Begin, Running, TypeOK
    <3> QED BY <3>1, OthersRun
  <2>7. CASE WatchLoop
    <3>1. UNCHANGED ioMu /\ pc[Watch] \in WatchSteps
      BY <2>7 DEF WatchLoop, LoopTop, BackoffStop, BackoffDial, DialOK, DialFail,
         Emit, OpenWatcher, OpenFail, Retry, RetryStop, SelectStop, WatcherError,
         Watchdog, WatcherEvent, LeaveSelect, WatchGoes, WatchSteps
    <3>2. \E to : pc' = [pc EXCEPT ![Watch] = to]
      BY <2>7 DEF WatchLoop, LoopTop, BackoffStop, BackoffDial, DialOK, DialFail,
         Emit, OpenWatcher, OpenFail, Retry, RetryStop, SelectStop, WatcherError,
         Watchdog, WatcherEvent, LeaveSelect, WatchGoes, Begin
    <3>3. ~Running(Watch) /\ \A q \in Procs \ {Watch} : pc'[q] = pc[q]
      BY <3>1, <3>2 DEF Running, WatchSteps, TypeOK
    <3> QED BY <3>1, <3>3, OthersRun
  <2>8. CASE \/ Cancel \/ CloseDetach \/ CloseReturn
             \/ BreakWatcher \/ PlayerEvent \/ ChangeSong
    BY <2>8 DEF Cancel, CloseDetach, CloseReturn, BreakWatcher, PlayerEvent,
       ChangeSong, HolderRuns, Running
  <2>9. CASE UNCHANGED vars
    BY <2>9 DEF vars, HolderRuns, Running
  <2> QED
    BY <2>1, <2>2, <2>3, <2>4, <2>5, <2>6, <2>7, <2>8, <2>9 DEF Next, Command
<1> QED
  BY <1>1, <1>2, TypeCorrect, PTL DEF Spec

-----------------------------------------------------------------------------
(* Only a client that failed is marked dead                                *)

\* A goroutine in a command knows the client it runs on, and, as long as the
\* command's goroutine starts before its timer, the one it may mark dead.
KnowsClient(p) ==
    /\ pc[p] \in {"wait", "run"} => snap[p] \in Clients
    /\ pc[p] = "kill" \/ call[p] = "probe" => target[p] \in Clients

KnowInv == ~LateStart => \A p \in Procs : KnowsClient(p)

\* A return keeps in target the client the failed command ran on.
LEMMA ReturnKnows ==
    ASSUME TypeOK, NEW p \in Procs, KnowsClient(p), NEW outcome,
           NEW seen \in Clients \cup {Nil}, Return(p, outcome, seen),
           seen \in Clients \/ outcome = "notok"
    PROVE  /\ KnowsClient(p)'
           /\ \A q \in Procs \ {p} : /\ pc'[q] = pc[q] /\ call'[q] = call[q]
                                     /\ snap'[q] = snap[q]
                                     /\ target'[q] = target[q]
<1> DEFINE next == NextCall(call[p], outcome)
<1>1. pc'[p] \notin {"wait", "run"}
  BY DEF Return, TypeOK, NextCall, Finished
<1>2. \A q \in Procs \ {p} : /\ pc'[q] = pc[q] /\ call'[q] = call[q]
                             /\ snap'[q] = snap[q] /\ target'[q] = target[q]
  BY DEF Return, TypeOK
<1>3. CASE next = "done"
  BY <1>1, <1>2, <1>3 DEF Return, TypeOK, KnowsClient, Finished
<1>4. CASE next # "done"
  <2>1. next \in {"song", "probe", "kill"} /\ outcome # "notok"
    BY <1>4 DEF NextCall
  <2>2. target'[p] \in Clients
    BY <2>1 DEF Return, TypeOK, KnowsClient
  <2> QED BY <1>1, <1>2, <2>2 DEF KnowsClient
<1> QED BY <1>3, <1>4

\* A step that moves one goroutine to a place where no client is needed.
LEMMA MoveKnows ==
    ASSUME TypeOK, NEW p \in Procs, NEW to, to \notin {"wait", "run", "kill"},
           pc' = [pc EXCEPT ![p] = to], UNCHANGED <<snap, target>>,
           NEW cmd, cmd # "probe" \/ cmd = call[p],
           call' = [call EXCEPT ![p] = cmd],
           \A q \in Procs : KnowsClient(q)
    PROVE  \A q \in Procs : KnowsClient(q)'
  BY DEF TypeOK, KnowsClient

\* A goroutine whose command has failed knows the client it failed on.
LEMMA KnowInvHolds == Spec => []KnowInv
<1>1. Init => KnowInv
  BY DEF Init, KnowInv, KnowsClient
<1>2. TypeOK /\ KnowInv /\ [Next]_vars => KnowInv'
  <2> SUFFICES ASSUME TypeOK, ~LateStart, \A p \in Procs : KnowsClient(p), [Next]_vars
               PROVE  \A p \in Procs : KnowsClient(p)'
    BY DEF KnowInv
  <2> DEFINE Goal == \A p \in Procs : KnowsClient(p)'
  <2>0. Watch \in Procs /\ Keep \in Procs
    BY DEF Procs
  <2> USE <2>0 DEF conn, proc, loop, life, mpd
  <2>1. ASSUME NEW p \in Procs, Enter(p) PROVE Goal
    <3>1. CASE client = Nil \/ ~alive
      <4>1. Return(p, "notok", Nil) BY <2>1, <3>1 DEF Enter
      <4> QED BY <4>1, ReturnKnows DEF KnowsClient
    <3>2. CASE ~(client = Nil \/ ~alive)
      BY <2>1, <3>2 DEF Enter, TypeOK, KnowsClient
    <3> QED BY <3>1, <3>2
  <2>2. ASSUME NEW p \in Procs, Acquire(p) PROVE Goal
    <3>1. CASE client = snap[p] /\ alive
      BY <2>2, <3>1 DEF Acquire, TypeOK, KnowsClient
    <3>2. CASE ~(client = snap[p] /\ alive)
      <4>1. Return(p, "notok", Nil) BY <2>2, <3>2 DEF Acquire
      <4> QED BY <4>1, ReturnKnows DEF KnowsClient
    <3> QED BY <3>1, <3>2
  <2>3. ASSUME NEW p \in Procs, Succeed(p) \/ Fail(p) \/ Timeout(p) PROVE Goal
    <3>1. snap[p] \in Clients
      BY <2>3 DEF Succeed, Fail, Timeout, KnowsClient
    <3>2. PICK outcome \in {"ok", "err"} : Return(p, outcome, snap[p])
      BY <2>3 DEF Succeed, Fail, Timeout
    <3> QED BY <3>1, <3>2, ReturnKnows DEF KnowsClient
  <2>4. ASSUME NEW p \in Procs, MarkDead(p) PROVE Goal
    BY <2>4 DEF MarkDead, Finished, TypeOK, KnowsClient
  <2>5. ASSUME NEW p \in Procs, Request(p) PROVE Goal
    BY <2>5, MoveKnows DEF Request, Begin
  <2>6. ASSUME NEW c \in Clients, OrphanEnds(c) \/ Break(c) PROVE Goal
    BY <2>6 DEF OrphanEnds, Break, KnowsClient
  <2>7. CASE KeepTick
    BY <2>7, MoveKnows DEF KeepTick, Begin
  <2>8. CASE KeepStop
    BY <2>8 DEF KeepStop, TypeOK, KnowsClient
  <2>9. CASE WatchLoop
    <3>1. ASSUME NEW from, NEW to \in WatchSteps \cup {"stopped"}, WatchGoes(from, to)
          PROVE Goal
      BY <3>1 DEF WatchGoes, WatchSteps, TypeOK, KnowsClient
    <3>2. ASSUME Begin(Watch, "status") PROVE Goal
      BY <3>2, MoveKnows DEF Begin
    <3>3. CASE Emit
      BY <3>1, <3>3 DEF Emit, WatchSteps, TypeOK
    <3>4. CASE ~Emit
      <4>1. \/ Begin(Watch, "status")
            \/ \E from : \E to \in WatchSteps \cup {"stopped"} : WatchGoes(from, to)
        BY <2>9, <3>4 DEF WatchLoop, LoopTop, BackoffStop, BackoffDial, DialOK,
           DialFail, OpenWatcher, OpenFail, Retry, RetryStop, SelectStop,
           WatcherError, Watchdog, WatcherEvent, LeaveSelect, WatchSteps
      <4> QED BY <4>1, <3>1, <3>2
    <3> QED BY <3>3, <3>4
  <2>10. CASE Cancel \/ CloseDetach \/ CloseReturn
    BY <2>10 DEF Cancel, CloseDetach, CloseReturn, KnowsClient
  <2>11. CASE BreakWatcher \/ PlayerEvent \/ ChangeSong
    BY <2>11 DEF BreakWatcher, PlayerEvent, ChangeSong, KnowsClient
  <2>12. CASE UNCHANGED vars
    BY <2>12 DEF vars, KnowsClient
  <2> QED
    BY <2>1, <2>2, <2>3, <2>4, <2>5, <2>6, <2>7, <2>8, <2>9, <2>10, <2>11,
       <2>12 DEF Next, Command
<1> QED
  BY <1>1, <1>2, TypeCorrect, PTL DEF Spec

\* markDead never takes a client from under those that use it well: what it
\* removes is the client its caller's own command failed on, for any number
\* of callers and reconnections, provided a command's goroutine starts before
\* the 5 s timer fires (pool.go:346-364, 394-405, 426-428).
THEOREM FailureSparesFresh == ~LateStart => (Spec => FailureSparesFreshClient)
<1> DEFINE Step ==
       \A p \in Procs :
          /\ pc[p] \in {"run", "kill"} /\ pc'[p] # pc[p]
          /\ client # Nil /\ client' = Nil
          => client \in {snap[p], target[p]}
<1>1. TypeOK /\ KnowInv /\ ~LateStart /\ [Next]_vars => [Step]_vars
  <2> SUFFICES ASSUME TypeOK, KnowInv, ~LateStart, Next,
                      NEW p \in Procs, pc[p] \in {"run", "kill"}, pc'[p] # pc[p],
                      client # Nil, client' = Nil
               PROVE  client \in {snap[p], target[p]}
    OBVIOUS
  <2>1. KnowsClient(p) /\ Nil \notin Clients
    BY ConnAssumption DEF KnowInv
  <2>2. ASSUME NEW q \in Procs, Command(q) PROVE client \in {snap[p], target[p]}
    <3>1. CASE Timeout(q) \/ MarkDead(q)
      <4>1. q = p
        <5>1. pc'[p] = pc[p] \/ q = p
          BY <3>1, ReturnLeaves DEF Timeout, MarkDead, TypeOK
        <5> QED BY <5>1
      <4>2. CASE Timeout(p)
        BY <2>1, <4>2 DEF Timeout, KnowsClient, Kill, Matches
      <4>3. CASE MarkDead(p)
        BY <2>1, <4>3 DEF MarkDead, KnowsClient, Kill, Matches
      <4> QED BY <3>1, <4>1, <4>2, <4>3
    <3>2. CASE Enter(q) \/ Acquire(q) \/ Succeed(q) \/ Fail(q) \/ Request(q)
      BY <3>2 DEF Enter, Acquire, Succeed, Fail, Request, conn
    <3> QED BY <2>2, <3>1, <3>2 DEF Command
  <2>3. CASE KeepTick \/ KeepStop
    BY <2>3 DEF KeepTick, KeepStop, conn
  <2>4. CASE WatchLoop
    <3>1. pc[Watch] \in WatchSteps
      BY <2>4 DEF WatchLoop, LoopTop, BackoffStop, BackoffDial, DialOK, DialFail,
         Emit, OpenWatcher, OpenFail, Retry, RetryStop, SelectStop, WatcherError,
         Watchdog, WatcherEvent, LeaveSelect, WatchGoes, WatchSteps
    <3>2. \E to : pc' = [pc EXCEPT ![Watch] = to]
      BY <2>4 DEF WatchLoop, LoopTop, BackoffStop, BackoffDial, DialOK, DialFail,
         Emit, OpenWatcher, OpenFail, Retry, RetryStop, SelectStop, WatcherError,
         Watchdog, WatcherEvent, LeaveSelect, WatchGoes, Begin
    <3> QED BY <3>1, <3>2 DEF TypeOK, WatchSteps
  <2>5. ASSUME NEW c \in Clients, OrphanEnds(c) \/ Break(c)
        PROVE  client \in {snap[p], target[p]}
    BY <2>5 DEF OrphanEnds, Break, proc
  <2>6. CASE \/ Cancel \/ CloseDetach \/ CloseReturn
             \/ BreakWatcher \/ PlayerEvent \/ ChangeSong
    BY <2>6 DEF Cancel, CloseDetach, CloseReturn, BreakWatcher, PlayerEvent,
       ChangeSong, proc
  <2> QED
    BY <2>2, <2>3, <2>4, <2>5, <2>6 DEF Next
<1>2. ASSUME ~LateStart PROVE Spec => [][Step]_vars
  BY <1>1, <1>2, TypeCorrect, KnowInvHolds, PTL DEF Spec
<1> QED
  BY <1>2 DEF FailureSparesFreshClient
=============================================================================
