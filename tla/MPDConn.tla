------------------------------- MODULE MPDConn -------------------------------
(***************************************************************************)
(* One stage's connection to its MPD server (apps/bridge/mpd/pool.go).     *)
(*                                                                         *)
(* A Conn holds the main client under mu; ioMu serialises the commands     *)
(* sent on it.  Three kinds of goroutine use it: the stage's watch loop    *)
(* (Watch), its keepalive loop (Keep) and the HTTP handlers (Callers) that *)
(* ask for the current song.  Pool.Close runs beside them.  The stages     *)
(* share nothing in this code but the cancelled context and the change     *)
(* callback, so one Conn is modelled.                                      *)
(*                                                                         *)
(* A client is a member of Clients.  An identity is taken again by a later *)
(* Dial only when nothing refers to the old one, as with Go pointers.      *)
(***************************************************************************)
EXTENDS Naturals, FiniteSets

CONSTANTS
    Clients,     \* identities of *gompd.Client
    Nil,         \* the nil client
    Watch,       \* the watch loop of the stage
    Keep,        \* the keepalive loop of the stage
    Callers,     \* the HTTP handlers inside Pool.NowPlaying or AllNowPlaying
    Free,        \* ioMu when no goroutine holds it
    Songs,       \* the songs MPD plays
    NoSong,      \* an empty or missing song["file"]
    LateStart,   \* may a command's goroutine start only after its 5 s timer?
    Shutdown,    \* may the bridge be shut down?
    MaxFaults    \* bound on broken sockets, ACK errors and song changes

Procs == {Watch, Keep} \cup Callers

ASSUME ConnAssumption ==
    /\ Nil \notin Clients
    /\ Watch # Keep
    /\ Watch \notin Callers /\ Keep \notin Callers
    /\ Free \notin Procs
    /\ NoSong \notin Songs
    /\ LateStart \in BOOLEAN /\ Shutdown \in BOOLEAN
    /\ MaxFaults \in Nat

VARIABLES
    client,      \* Conn.client
    alive,       \* Conn.alive
    ioMu,        \* who holds Conn.ioMu
    bad,         \* clients whose socket is closed, broken or hung
    orphans,     \* clients on which a timed-out command's goroutine remains
    pc,          \* where each goroutine is
    call,        \* the command of its current withClient
    snap,        \* the client its current withClient read
    target,      \* statusClient in nowPlaying, pinged in keepaliveLoop
    back,        \* where the watch loop goes after nowPlaying
    heard,       \* np.Song["file"] of the watch loop's nowPlaying
    lastSong,    \* watchLoop's lastSong
    watcher,     \* the watcher's own socket
    event,       \* an event waits in watcher.Event
    cancelled,   \* ctx.Done() is closed
    closer,      \* Pool.Close
    mpdSong,     \* the song MPD is playing
    faults       \* faults and song changes so far

conn == <<client, alive, ioMu, bad, orphans>>
proc == <<pc, call, snap, target>>
loop == <<back, heard, lastSong, watcher, event>>
life == <<cancelled, closer>>
mpd  == <<mpdSong, faults>>
vars == <<client, alive, ioMu, bad, orphans, pc, call, snap, target, back,
          heard, lastSong, watcher, event, cancelled, closer, mpdSong, faults>>

CallSteps  == {"enter", "wait", "run", "kill"}
WatchSteps == {"top", "backoff", "dial", "emit", "open", "retry", "select"}

\* ConnectAll has run: the stage is connected or it is not.
Init ==
    /\ client \in Clients \cup {Nil}
    /\ alive = (client # Nil)
    /\ ioMu = Free
    /\ bad = {}
    /\ orphans = {}
    /\ pc = [p \in Procs |-> IF p = Watch THEN "top" ELSE "idle"]
    /\ call = [p \in Procs |-> "none"]
    /\ snap = [p \in Procs |-> Nil]
    /\ target = [p \in Procs |-> Nil]
    /\ back = "open"
    /\ heard = NoSong
    /\ lastSong = NoSong
    /\ watcher = "none"
    /\ event = FALSE
    /\ cancelled = FALSE
    /\ closer = "idle"
    /\ mpdSong \in Songs \cup {NoSong}
    /\ faults = 0

-----------------------------------------------------------------------------
(* Conn.markDead and the commands                                          *)

\* Variant: markDead without the comparison.
MatchesAny(expected) == TRUE

\* markDead's CAS: a nil argument means any client.
Matches(expected) == expected = Nil \/ client = expected

Kill(expected) ==
    IF Matches(expected)
    THEN client' = Nil /\ alive' = FALSE
    ELSE UNCHANGED <<client, alive>>

\* What nowPlaying and keepaliveLoop do when a withClient returns.
NextCall(cmd, outcome) ==
    CASE cmd = "status" /\ outcome = "ok"            -> "song"
      [] cmd = "status" /\ outcome = "err"           -> "probe"
      [] cmd \in {"probe", "ping"} /\ outcome = "err" -> "kill"
      [] OTHER                                       -> "done"

\* Variant: the watch loop is left waiting after nowPlaying.
FinishedIdle(p) == "idle"

\* Where a goroutine is once its nowPlaying or its ping is over.
Finished(p) == IF p = Watch THEN "emit" ELSE "idle"

\* The return of withClient: (FALSE, nil) is "notok", (TRUE, err) is "err".
\* seen is what the closure stored in statusClient or pinged.
Return(p, outcome, seen) ==
    LET next == NextCall(call[p], outcome) IN
    /\ call' = [call EXCEPT ![p] = IF next \in {"song", "probe"} THEN next
                                   ELSE IF next = "kill" THEN @ ELSE "none"]
    /\ pc' = [pc EXCEPT ![p] = CASE next \in {"song", "probe"} -> "enter"
                                 [] next = "kill"              -> "kill"
                                 [] OTHER                      -> Finished(p)]
    /\ target' = [target EXCEPT ![p] = IF next = "done" THEN Nil
                                       ELSE IF call[p] = "probe" THEN @ ELSE seen]
    /\ snap' = [snap EXCEPT ![p] = IF next = "kill" THEN @ ELSE Nil]

\* The first lines of withClient, under mu.
Enter(p) ==
    /\ pc[p] = "enter"
    /\ IF client = Nil \/ ~alive
       THEN Return(p, "notok", Nil)
       ELSE /\ snap' = [snap EXCEPT ![p] = client]
            /\ pc' = [pc EXCEPT ![p] = "wait"]
            /\ UNCHANGED <<call, target>>
    /\ UNCHANGED <<conn, loop, life, mpd>>

\* Variant: the client is not looked at again once ioMu is held.
AcquireUnchecked(p) ==
    /\ pc[p] = "wait"
    /\ ioMu = Free
    /\ ioMu' = p
    /\ pc' = [pc EXCEPT ![p] = "run"]
    /\ UNCHANGED <<client, alive, bad, orphans, call, snap, target, loop, life, mpd>>

\* ioMu is taken, the client is looked at again, the command is started.
Acquire(p) ==
    /\ pc[p] = "wait"
    /\ ioMu = Free
    /\ IF client = snap[p] /\ alive
       THEN /\ ioMu' = p
            /\ pc' = [pc EXCEPT ![p] = "run"]
            /\ UNCHANGED <<call, snap, target>>
       ELSE /\ Return(p, "notok", Nil)
            /\ UNCHANGED ioMu
    /\ UNCHANGED <<client, alive, bad, orphans, loop, life, mpd>>

\* The command succeeds; the watch loop keeps the song CurrentSong answered.
Succeed(p) ==
    /\ pc[p] = "run"
    /\ snap[p] \notin bad
    /\ Return(p, "ok", snap[p])
    /\ heard' = IF p = Watch /\ call[p] = "song" THEN mpdSong ELSE heard
    /\ ioMu' = Free
    /\ UNCHANGED <<client, alive, bad, orphans, back, lastSong, watcher, event,
                   life, mpd>>

\* The command returns an error: from a broken socket, or, Ping excepted, an
\* ACK from a healthy one.
Fail(p) ==
    /\ pc[p] = "run"
    /\ \/ snap[p] \in bad /\ UNCHANGED faults
       \/ /\ call[p] \in {"status", "song"}
          /\ faults < MaxFaults
          /\ faults' = faults + 1
    /\ Return(p, "err", snap[p])
    /\ ioMu' = Free
    /\ UNCHANGED <<client, alive, bad, orphans, loop, life, mpdSong>>

\* Variant: the timeout's return does not release ioMu.
TimeoutKeepsLock(p) ==
    /\ pc[p] = "run"
    /\ snap[p] \in bad
    /\ Kill(snap[p])
    /\ orphans' = orphans \cup {snap[p]}
    /\ Return(p, "err", snap[p])
    /\ UNCHANGED <<ioMu, bad, loop, life, mpd>>

\* No answer in defaultCmdTimeout: the client is marked dead before ioMu is
\* released, and the command's goroutine is left behind.  If it had not run
\* yet, the variable its closure sets may still be nil.
Timeout(p) ==
    /\ pc[p] = "run"
    /\ snap[p] \in bad
    /\ Kill(snap[p])
    /\ orphans' = orphans \cup {snap[p]}
    /\ \E seen \in {snap[p]} \cup (IF LateStart THEN {Nil} ELSE {}) :
          Return(p, "err", seen)
    /\ ioMu' = Free
    /\ UNCHANGED <<bad, loop, life, mpd>>

\* The goroutine of a timed-out command ends: its client has been closed.
OrphanEnds(c) ==
    /\ c \in orphans
    /\ orphans' = orphans \ {c}
    /\ UNCHANGED <<client, alive, ioMu, bad, proc, loop, life, mpd>>

\* markDead(statusClient) after a failed probe, markDead(pinged) after a
\* failed keepalive ping.
MarkDead(p) ==
    /\ pc[p] = "kill"
    /\ Kill(target[p])
    /\ pc' = [pc EXCEPT ![p] = Finished(p)]
    /\ call' = [call EXCEPT ![p] = "none"]
    /\ snap' = [snap EXCEPT ![p] = Nil]
    /\ target' = [target EXCEPT ![p] = Nil]
    /\ UNCHANGED <<ioMu, bad, orphans, loop, life, mpd>>

\* A goroutine calls nowPlaying (cmd = "status") or pings (cmd = "ping").
Begin(p, cmd) ==
    /\ pc' = [pc EXCEPT ![p] = "enter"]
    /\ call' = [call EXCEPT ![p] = cmd]
    /\ UNCHANGED <<snap, target>>

\* An HTTP handler asks for the stage's song.
Request(p) ==
    /\ p \in Callers
    /\ pc[p] = "idle"
    /\ Begin(p, "status")
    /\ UNCHANGED <<conn, loop, life, mpd>>

-----------------------------------------------------------------------------
(* keepaliveLoop                                                           *)

KeepTick ==
    /\ pc[Keep] = "idle"
    /\ Begin(Keep, "ping")
    /\ UNCHANGED <<conn, loop, life, mpd>>

KeepStop ==
    /\ pc[Keep] = "idle"
    /\ cancelled
    /\ pc' = [pc EXCEPT ![Keep] = "stopped"]
    /\ UNCHANGED <<conn, call, snap, target, loop, life, mpd>>

-----------------------------------------------------------------------------
(* watchLoop, reconnect and drainWatcher                                   *)

WatchGoes(from, to) ==
    /\ pc[Watch] = from
    /\ pc' = [pc EXCEPT ![Watch] = to]
    /\ UNCHANGED <<call, snap, target>>

\* The head of watchLoop's for.
LoopTop ==
    /\ IF cancelled THEN WatchGoes("top", "stopped")
       ELSE IF alive THEN pc[Watch] = "top" /\ Begin(Watch, "status")
       ELSE WatchGoes("top", "backoff")
    /\ back' = "open"
    /\ UNCHANGED <<conn, heard, lastSong, watcher, event, life, mpd>>

\* connect, first half: the old client is detached and closed.
Detach ==
    /\ client' = Nil
    /\ alive' = FALSE
    /\ bad' = bad \cup ({client} \ {Nil})

BackoffStop ==
    /\ cancelled
    /\ WatchGoes("backoff", "stopped")
    /\ UNCHANGED <<conn, loop, life, mpd>>

BackoffDial ==
    /\ WatchGoes("backoff", "dial")
    /\ Detach
    /\ UNCHANGED <<ioMu, orphans, loop, life, mpd>>

\* Clients some variable or goroutine still refers to.
Referenced ==
    {client} \cup orphans \cup {snap[p] : p \in Procs} \cup {target[p] : p \in Procs}

\* connect, second half: Dial answered.
DialOK ==
    /\ pc[Watch] = "dial"
    /\ \E c \in Clients \ Referenced :
          /\ client' = c
          /\ bad' = bad \ {c}
    /\ alive' = TRUE
    /\ Begin(Watch, "status")
    /\ UNCHANGED <<ioMu, orphans, loop, life, mpd>>

\* reconnect tries again; drainWatcher goes on to nowPlaying regardless.
DialFail ==
    /\ IF back = "open" THEN WatchGoes("dial", "backoff")
       ELSE pc[Watch] = "dial" /\ Begin(Watch, "status")
    /\ UNCHANGED <<conn, loop, life, mpd>>

\* A new non-empty song is remembered and handed to onChange.
Emit ==
    /\ WatchGoes("emit", back)
    /\ lastSong' = IF heard # NoSong THEN heard ELSE lastSong
    /\ heard' = NoSong
    /\ UNCHANGED <<conn, back, watcher, event, life, mpd>>

\* gompd.NewWatcher: changes made before it are not reported on it.
OpenWatcher ==
    /\ WatchGoes("open", "select")
    /\ watcher' = "live"
    /\ event' = FALSE
    /\ UNCHANGED <<conn, back, heard, lastSong, life, mpd>>

OpenFail ==
    /\ WatchGoes("open", "retry")
    /\ UNCHANGED <<conn, loop, life, mpd>>

Retry ==
    /\ WatchGoes("retry", "top")
    /\ UNCHANGED <<conn, loop, life, mpd>>

RetryStop ==
    /\ cancelled
    /\ WatchGoes("retry", "stopped")
    /\ UNCHANGED <<conn, loop, life, mpd>>

\* drainWatcher returns and the watcher is closed.
LeaveSelect ==
    /\ WatchGoes("select", "top")
    /\ watcher' = "none"
    /\ event' = FALSE
    /\ UNCHANGED <<back, heard, lastSong, life, mpd>>

\* Variant: a break that leaves the select and not the loop.
SelectBreak ==
    /\ cancelled
    /\ WatchGoes("select", "select")
    /\ UNCHANGED <<conn, loop, life, mpd>>

SelectStop == cancelled /\ LeaveSelect /\ UNCHANGED conn

WatcherError == watcher = "broken" /\ LeaveSelect /\ UNCHANGED conn

\* Variant: the client is reset and the silent watcher kept.
WatchdogStays ==
    /\ WatchGoes("select", "select")
    /\ Kill(client)
    /\ UNCHANGED <<ioMu, bad, orphans, loop, life, mpd>>

\* watcherIdleTimeout without an event: the main client is given up too.
Watchdog ==
    /\ LeaveSelect
    /\ Kill(client)
    /\ UNCHANGED <<ioMu, bad, orphans>>

\* Variant: an event only leads to nowPlaying.
WatcherEventNoRedial ==
    /\ pc[Watch] = "select"
    /\ event
    /\ event' = FALSE
    /\ back' = "select"
    /\ Begin(Watch, "status")
    /\ UNCHANGED <<conn, heard, lastSong, watcher, life, mpd>>

\* An event: the main client is redialled if it is dead, then nowPlaying.
WatcherEvent ==
    /\ pc[Watch] = "select"
    /\ event
    /\ event' = FALSE
    /\ back' = "select"
    /\ IF alive
       THEN /\ Begin(Watch, "status")
            /\ UNCHANGED <<client, alive, bad>>
       ELSE /\ WatchGoes("select", "dial")
            /\ Detach
    /\ UNCHANGED <<ioMu, orphans, heard, lastSong, watcher, life, mpd>>

-----------------------------------------------------------------------------
(* Shutdown                                                                *)

\* main's signal handler, or Pool.Close itself, cancels the context.
Cancel ==
    /\ Shutdown /\ ~cancelled
    /\ cancelled' = TRUE
    /\ UNCHANGED <<conn, proc, loop, closer, mpd>>

\* Pool.Close detaches and closes the client of the stage.
CloseDetach ==
    /\ cancelled
    /\ closer = "idle"
    /\ Detach
    /\ closer' = "waiting"
    /\ UNCHANGED <<ioMu, orphans, proc, loop, cancelled, mpd>>

\* p.wg.Wait() returns.
CloseReturn ==
    /\ closer = "waiting"
    /\ pc[Watch] = "stopped" /\ pc[Keep] = "stopped"
    /\ closer' = "done"
    /\ UNCHANGED <<conn, proc, loop, cancelled, mpd>>

-----------------------------------------------------------------------------
(* MPD and the network                                                     *)

Fault == faults < MaxFaults /\ faults' = faults + 1

\* A socket of the main client breaks, hangs, or meets MPD's own timeout.
Break(c) ==
    /\ c \in Referenced \ {Nil}
    /\ c \notin bad
    /\ Fault
    /\ bad' = bad \cup {c}
    /\ UNCHANGED <<client, alive, ioMu, orphans, proc, loop, life, mpdSong>>

\* The watcher's socket fails visibly, or dies without an error.
BreakWatcher ==
    /\ watcher = "live"
    /\ Fault
    /\ watcher' \in {"broken", "zombie"}
    /\ UNCHANGED <<conn, proc, back, heard, lastSong, event, life, mpdSong>>

\* The player subsystem changes without a new song: pause, seek, volume.
PlayerEvent ==
    /\ watcher = "live" /\ ~event
    /\ event' = TRUE
    /\ UNCHANGED <<conn, proc, back, heard, lastSong, watcher, life, mpd>>

ChangeSong ==
    /\ Fault
    /\ mpdSong' \in (Songs \cup {NoSong}) \ {mpdSong}
    /\ event' = (event \/ watcher = "live")
    /\ UNCHANGED <<conn, proc, back, heard, lastSong, watcher, life>>

-----------------------------------------------------------------------------

Command(p) ==
    \/ Enter(p) \/ Acquire(p) \/ Succeed(p) \/ Fail(p) \/ Timeout(p)
    \/ MarkDead(p) \/ Request(p)

WatchLoop ==
    \/ LoopTop \/ BackoffStop \/ BackoffDial \/ DialOK \/ DialFail \/ Emit
    \/ OpenWatcher \/ OpenFail \/ Retry \/ RetryStop \/ SelectStop
    \/ WatcherError \/ Watchdog \/ WatcherEvent

Next ==
    \/ \E p \in Procs : Command(p)
    \/ \E c \in Clients : OrphanEnds(c) \/ Break(c)
    \/ KeepTick \/ KeepStop
    \/ WatchLoop
    \/ Cancel \/ CloseDetach \/ CloseReturn
    \/ BreakWatcher \/ PlayerEvent \/ ChangeSong

Spec == Init /\ [][Next]_vars

\* A goroutine that is not stopped takes its next step: it runs, its command
\* is answered or times out after 5 s, its timer fires.
Proceed(p) == Enter(p) \/ Succeed(p) \/ Timeout(p) \/ MarkDead(p)

WatchProceeds ==
    \/ LoopTop \/ BackoffDial \/ DialOK \/ DialFail \/ Emit \/ OpenWatcher
    \/ OpenFail \/ Retry \/ WatcherError \/ Watchdog \/ WatcherEvent

\* Go's mutex starves nobody, a select whose context is done does not choose
\* its timer for ever, and MPD accepts a connection if it is dialled often
\* enough.  Requests, events, faults and shutdown are not promised.
Fairness ==
    /\ \A p \in Procs : WF_vars(Proceed(p)) /\ SF_vars(Acquire(p))
    /\ \A c \in Clients : WF_vars(OrphanEnds(c))
    /\ WF_vars(WatchProceeds) /\ SF_vars(DialOK) /\ SF_vars(OpenWatcher)
    /\ SF_vars(BackoffStop \/ RetryStop \/ SelectStop)
    /\ WF_vars(KeepTick) /\ SF_vars(KeepStop)
    /\ WF_vars(CloseDetach) /\ WF_vars(CloseReturn)

FairSpec == Spec /\ Fairness

-----------------------------------------------------------------------------
(* Properties                                                              *)

\* The types; only the watch loop is ever at one of its steps.
TypeOK ==
    /\ client \in Clients \cup {Nil}
    /\ alive \in BOOLEAN
    /\ ioMu \in Procs \cup {Free}
    /\ bad \in SUBSET Clients
    /\ orphans \in SUBSET Clients
    /\ pc \in [Procs -> {"idle", "stopped"} \cup CallSteps \cup WatchSteps]
    /\ pc[Watch] # "idle"
    /\ \A p \in Procs \ {Watch} : pc[p] \notin WatchSteps
    /\ call \in [Procs -> {"none", "status", "probe", "song", "ping"}]
    /\ snap \in [Procs -> Clients \cup {Nil}]
    /\ target \in [Procs -> Clients \cup {Nil}]
    /\ back \in {"open", "select"}
    /\ heard \in Songs \cup {NoSong}
    /\ lastSong \in Songs \cup {NoSong}
    /\ watcher \in {"none", "live", "broken", "zombie"}
    /\ event \in BOOLEAN
    /\ cancelled \in BOOLEAN
    /\ closer \in {"idle", "waiting", "done"}
    /\ mpdSong \in Songs \cup {NoSong}
    /\ faults \in Nat

Running(p) == pc[p] = "run"

\* Frames of two commands are never interleaved on one connection, not even
\* when the first has timed out and its goroutine is still reading
\* (pool.go:54-58 on ioMu, 385-391 the second look at the client).
OneCommandPerClient ==
    \A p \in Procs : Running(p) =>
        /\ snap[p] \notin orphans
        /\ \A q \in Procs \ {p} : Running(q) => snap[q] # snap[p]

\* A goroutine marks dead only a client on which a command of its own failed,
\* never a fresh one the watch loop has installed meanwhile (pool.go:209-210,
\* 346-354, 426-428).
FailureSparesFreshClient ==
    [][\A p \in Procs :
          /\ pc[p] \in {"run", "kill"} /\ pc'[p] # pc[p]
          /\ client # Nil /\ client' = Nil
          => client \in {snap[p], target[p]}]_vars

\* Every command of every caller ends, however many sockets hang: a hung read
\* does not wedge the queue behind ioMu (pool.go:28-30, 368-372).
CallersReturn ==
    \A p \in Procs : pc[p] \in CallSteps ~> pc[p] \notin CallSteps

\* Once faults stop, the stage has a working main client again: the keepalive
\* finds the broken one, an event or the watchdog has it redialled, however
\* long events keep coming or stay away (pool.go:32-36, 38-47, 554-578).
StageHeals == []<>(cancelled \/ client \in Clients \ bad)

\* Once the song stops changing, the watch loop has announced it, also when
\* the change fell between two watchers or its event met a failed command
\* (pool.go:458-510, 521-594).
SongConverges ==
    []<>(cancelled \/ mpdSong = NoSong \/ lastSong = mpdSong)

\* Pool.Close returns, whatever command, dial or backoff it interrupts
\* (pool.go:235-241).
CloseEnds == closer = "waiting" ~> closer = "done"
=============================================================================
