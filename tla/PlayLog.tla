------------------------------- MODULE PlayLog -------------------------------
(***************************************************************************)
(* The way of a track change from the stages' watch loops through onChange *)
(* and the queue playCh to the play logger and the table track_plays, and  *)
(* the graceful shutdown (apps/bridge/main.go; the watch loops are in      *)
(* apps/bridge/mpd/pool.go and modelled closely in MPDConn).  The database *)
(* is configured.  A play is a stage and the number of its announcement.   *)
(* TrackLog states what all of it promises.                                *)
(***************************************************************************)
EXTENDS Integers, Sequences, FiniteSets

CONSTANTS
    Stages,      \* the visible stages, each with a watch loop
    Songs,       \* the songs MPD plays
    NoSong,      \* no song: lastSong at first, or a nowPlaying that failed
    QueueCap,    \* the capacity of playCh
    MaxPlays     \* bound on the changes of song of one stage

ASSUME PlayAssumption ==
    /\ NoSong \notin Songs
    /\ QueueCap \in Nat \ {0}
    /\ MaxPlays \in Nat

VARIABLES
    song,        \* the song each stage's MPD plays
    changes,     \* how many times it has changed
    lastSong,    \* watchLoop's lastSong
    wpc,         \* where each watch loop is
    announced,   \* how many changes each stage has broadcast
    playCh,      \* the queue
    closed,      \* close(playCh) has run
    panicked,    \* the process has died of a send on a closed channel
    lpc,         \* where the play logger is
    lmsg,        \* the play it logs
    rows,        \* the rows of track_plays, oldest first
    failed,      \* the plays whose INSERT failed
    dropped,     \* the plays dropped because the queue was full
    shut         \* how far the shutdown has come

watchers == <<lastSong, wpc, announced>>
logger == <<lpc, lmsg, rows, failed>>
vars == <<song, changes, watchers, playCh, closed, panicked, logger, dropped, shut>>

Play == [stage : Stages, n : Nat \ {0}]
NoPlay == [stage |-> NoSong, n |-> 0]

Init ==
    /\ song \in [Stages -> Songs]
    /\ changes = [s \in Stages |-> 0]
    /\ lastSong = [s \in Stages |-> NoSong]
    /\ wpc = [s \in Stages |-> "watch"]
    /\ announced = [s \in Stages |-> 0]
    /\ playCh = <<>>
    /\ closed = FALSE
    /\ panicked = FALSE
    /\ lpc = "range"
    /\ lmsg = NoPlay
    /\ rows = <<>>
    /\ failed = {}
    /\ dropped = {}
    /\ shut = "serving"

\* cancel() has run.
Cancelled == shut # "serving"

\* The process does nothing more once it has panicked or main has returned.
Running == ~panicked /\ shut # "done"

-----------------------------------------------------------------------------
(* The watch loops and onChange                                            *)

\* MPD goes on to another song.
ChangeSong(s) ==
    /\ changes[s] < MaxPlays
    /\ \E x \in Songs \ {song[s]} : song' = [song EXCEPT ![s] = x]
    /\ changes' = [changes EXCEPT ![s] = @ + 1]
    /\ UNCHANGED <<watchers, playCh, closed, panicked, logger, dropped, shut>>

\* nowPlaying, which may fail, and the comparison with lastSong.  A select
\* that finds an event and ctx.Done ready may still choose the event, so this
\* happens after cancel() too.
Fetch(s) ==
    /\ Running
    /\ wpc[s] = "watch"
    /\ song[s] # lastSong[s]
    /\ lastSong' = [lastSong EXCEPT ![s] = song[s]]
    /\ wpc' = [wpc EXCEPT ![s] = "changed"]
    /\ UNCHANGED <<song, changes, announced, playCh, closed, panicked, logger,
                   dropped, shut>>

\* onChange first hands the change to the hub.
Broadcast(s) ==
    /\ Running
    /\ wpc[s] = "changed"
    /\ announced' = [announced EXCEPT ![s] = @ + 1]
    /\ wpc' = [wpc EXCEPT ![s] = "send"]
    /\ UNCHANGED <<song, changes, lastSong, playCh, closed, panicked, logger,
                   dropped, shut>>

Current(s) == [stage |-> s, n |-> announced[s]]

\* Variant: the queue is a plain send.
SendWaits(s) ==
    /\ Running
    /\ wpc[s] = "send"
    /\ ~closed
    /\ Len(playCh) < QueueCap
    /\ playCh' = Append(playCh, Current(s))
    /\ wpc' = [wpc EXCEPT ![s] = "watch"]
    /\ UNCHANGED <<song, changes, lastSong, announced, closed, panicked, logger,
                   dropped, shut>>

\* Variant: a queue without bound.
SendUnbounded(s) ==
    /\ Running
    /\ wpc[s] = "send"
    /\ ~closed
    /\ playCh' = Append(playCh, Current(s))
    /\ wpc' = [wpc EXCEPT ![s] = "watch"]
    /\ UNCHANGED <<song, changes, lastSong, announced, closed, panicked, logger,
                   dropped, shut>>

\* The send in a select with a default; on a closed channel it panics.
Send(s) ==
    /\ Running
    /\ wpc[s] = "send"
    /\ \/ /\ closed
          /\ panicked' = TRUE
          /\ UNCHANGED <<wpc, playCh, dropped>>
       \/ /\ ~closed
          /\ wpc' = [wpc EXCEPT ![s] = "watch"]
          /\ IF Len(playCh) < QueueCap
             THEN playCh' = Append(playCh, Current(s)) /\ UNCHANGED dropped
             ELSE dropped' = dropped \cup {Current(s)} /\ UNCHANGED playCh
          /\ UNCHANGED panicked
    /\ UNCHANGED <<song, changes, lastSong, announced, closed, logger, shut>>

\* The loop notices ctx.Done.
Stop(s) ==
    /\ Running
    /\ wpc[s] = "watch"
    /\ Cancelled
    /\ wpc' = [wpc EXCEPT ![s] = "stopped"]
    /\ UNCHANGED <<song, changes, lastSong, announced, playCh, closed, panicked,
                   logger, dropped, shut>>

-----------------------------------------------------------------------------
(* The play logger                                                         *)

\* range playCh
Take ==
    /\ Running
    /\ lpc = "range"
    /\ playCh # <<>>
    /\ lmsg' = Head(playCh)
    /\ playCh' = Tail(playCh)
    /\ lpc' = "lookup"
    /\ UNCHANGED <<song, changes, watchers, closed, panicked, rows, failed,
                   dropped, shut>>

\* Variant: a play whose genre cannot be looked up is given up.
LookupGivesUp ==
    /\ Running
    /\ lpc = "lookup"
    /\ lpc' \in {"insert", "range"}
    /\ lmsg' = IF lpc' = "range" THEN NoPlay ELSE lmsg
    /\ UNCHANGED <<song, changes, watchers, playCh, closed, panicked, rows, failed,
                   dropped, shut>>

\* The genre: found, absent, or not known within 500 ms, the play is inserted.
Lookup ==
    /\ Running
    /\ lpc = "lookup"
    /\ lpc' = "insert"
    /\ UNCHANGED <<song, changes, watchers, playCh, closed, panicked, lmsg, rows,
                   failed, dropped, shut>>

\* Variant: a failed INSERT puts the play back at the end of the queue.
InsertRequeues ==
    /\ Running
    /\ lpc = "insert"
    /\ \/ rows' = Append(rows, lmsg) /\ UNCHANGED playCh
       \/ /\ ~closed /\ Len(playCh) < QueueCap
          /\ playCh' = Append(playCh, lmsg) /\ UNCHANGED rows
    /\ lpc' = "range"
    /\ lmsg' = NoPlay
    /\ UNCHANGED <<song, changes, watchers, failed, closed, panicked, dropped, shut>>

\* Variant: a failed INSERT is counted as lost and tried again.
InsertRetried ==
    /\ Running
    /\ lpc = "insert"
    /\ \/ /\ rows' = Append(rows, lmsg)
          /\ lpc' = "range"
          /\ lmsg' = NoPlay
          /\ UNCHANGED failed
       \/ failed' = failed \cup {lmsg} /\ UNCHANGED <<rows, lpc, lmsg>>
    /\ UNCHANGED <<song, changes, watchers, playCh, closed, panicked, dropped, shut>>

\* The INSERT succeeds, or fails and is not tried again.
Insert ==
    /\ Running
    /\ lpc = "insert"
    /\ \/ rows' = Append(rows, lmsg) /\ UNCHANGED failed
       \/ failed' = failed \cup {lmsg} /\ UNCHANGED rows
    /\ lpc' = "range"
    /\ lmsg' = NoPlay
    /\ UNCHANGED <<song, changes, watchers, playCh, closed, panicked, dropped, shut>>

\* Variant: the logger leaves as soon as the queue is closed.
DrainedEarly ==
    /\ Running
    /\ lpc = "range"
    /\ closed
    /\ lpc' = "done"
    /\ UNCHANGED <<song, changes, watchers, playCh, closed, panicked, lmsg, rows,
                   failed, dropped, shut>>

\* The queue is closed and empty: playWg.Done.
Drained ==
    /\ Running
    /\ lpc = "range"
    /\ playCh = <<>>
    /\ closed
    /\ lpc' = "done"
    /\ UNCHANGED <<song, changes, watchers, playCh, closed, panicked, lmsg, rows,
                   failed, dropped, shut>>

-----------------------------------------------------------------------------
(* The shutdown goroutine                                                  *)

\* A signal; cancel(), then server.Shutdown, which takes at most 5 s.
Signal ==
    /\ Running
    /\ shut = "serving"
    /\ shut' = "http"
    /\ UNCHANGED <<song, changes, watchers, playCh, closed, panicked, logger, dropped>>

\* Variant: the shutdown waits for the logger and leaves the queue open.
CloseQueueForgotten ==
    /\ Running
    /\ shut = "http"
    /\ shut' = "drain"
    /\ UNCHANGED <<song, changes, watchers, playCh, closed, panicked, logger, dropped>>

\* close(playCh)
CloseQueue ==
    /\ Running
    /\ shut = "http"
    /\ closed' = TRUE
    /\ shut' = "drain"
    /\ UNCHANGED <<song, changes, watchers, playCh, panicked, logger, dropped>>

\* playWg.Wait returned.
LoggerGone ==
    /\ Running
    /\ shut = "drain"
    /\ lpc = "done"
    /\ shut' = "closing"
    /\ UNCHANGED <<song, changes, watchers, playCh, closed, panicked, logger, dropped>>

\* pool.Close waits for the watch loops; main returns.
Exit ==
    /\ Running
    /\ shut = "closing"
    /\ \A s \in Stages : wpc[s] = "stopped"
    /\ shut' = "done"
    /\ UNCHANGED <<song, changes, watchers, playCh, closed, panicked, logger, dropped>>

-----------------------------------------------------------------------------

Watcher(s) == Fetch(s) \/ Broadcast(s) \/ Send(s) \/ Stop(s)
Logger == Take \/ Lookup \/ Insert \/ Drained
Shutdown == Signal \/ CloseQueue \/ LoggerGone \/ Exit

Next ==
    \/ \E s \in Stages : ChangeSong(s) \/ Watcher(s)
    \/ Logger
    \/ Shutdown

Spec == Init /\ [][Next]_vars

\* The watch loops and the shutdown goroutine go on, and a loop that is asked
\* to stop is not for ever given events instead.  The database, which the
\* logger waits for, and the signal are not promised.
Fairness ==
    /\ \A s \in Stages :
          /\ WF_vars(Broadcast(s) \/ Send(s))
          /\ SF_vars(Stop(s))
    /\ WF_vars(CloseQueue \/ LoggerGone \/ Exit)

FairSpec == Spec /\ Fairness

\* The database answers, with a row or an error.
DatabaseAnswers == WF_vars(Logger)

-----------------------------------------------------------------------------
(* Properties                                                              *)

\* The types; the queue never holds more than its capacity (main.go:44).
TypeOK ==
    /\ song \in [Stages -> Songs]
    /\ changes \in [Stages -> 0..MaxPlays]
    /\ lastSong \in [Stages -> Songs \cup {NoSong}]
    /\ wpc \in [Stages -> {"watch", "changed", "send", "stopped"}]
    /\ announced \in [Stages -> Nat]
    /\ playCh \in Seq(Play)
    /\ Len(playCh) <= QueueCap
    /\ closed \in BOOLEAN
    /\ panicked \in BOOLEAN
    /\ lpc \in {"range", "lookup", "insert", "done"}
    /\ lmsg \in Play \cup {NoPlay}
    /\ rows \in Seq(Play)
    /\ failed \in SUBSET Play
    /\ dropped \in SUBSET Play
    /\ shut \in {"serving", "http", "drain", "closing", "done"}

\* The plays onChange has put in the queue or dropped.
Offered == UNION {{[stage |-> s, n |-> i] :
                     i \in 1..(IF wpc[s] = "send" THEN announced[s] - 1 ELSE announced[s])} :
                  s \in Stages}

\* In how many places a play is.
Places(p) ==
    Cardinality({i \in DOMAIN playCh : playCh[i] = p})
  + Cardinality({i \in DOMAIN rows : rows[i] = p})
  + Cardinality({h \in {lmsg} : h = p})
  + Cardinality({p} \cap failed)
  + Cardinality({p} \cap dropped)

\* Every change that was broadcast is logged once, or waits to be, or was
\* dropped at a full queue, or its INSERT failed: nothing else loses or
\* doubles a play (main.go:66-68, 99-106, 404-445).
Accounted == \A p \in Offered : Places(p) = 1

\* The rows of a stage are in the order in which its songs were announced.
RowsInOrder ==
    \A i, j \in DOMAIN rows :
        i < j /\ rows[i].stage = rows[j].stage => rows[i].n < rows[j].n

\* When main returns, every play that reached the queue has been logged or
\* its INSERT has failed (main.go:347, 363-365).
DrainedAtExit ==
    shut = "done" =>
        \A p \in Offered : p \in dropped \cup failed \/ \E i \in DOMAIN rows : rows[i] = p

\* A stage's watch loop does not wait for the database, even one that never
\* answers (main.go:99-106).
AnnounceNotHeld ==
    \A s \in Stages : wpc[s] # "watch" ~> wpc[s] \in {"watch", "stopped"} \/ ~Running

\* A signal ends the process, as long as the database answers: the drain and
\* pool.Close wait for nothing else (main.go:353-379).
ShutdownEnds == DatabaseAnswers => (shut # "serving" ~> ~Running)

\* The plays that a watch loop has announced and not yet offered to the queue.
InLoop == {Current(s) : s \in {t \in Stages : wpc[t] = "send"}}

\* The plays in the queue.
Queued == {playCh[i] : i \in 1..Len(playCh)}

\* The play the logger has in hand.
Held == IF lpc \in {"lookup", "insert"} THEN {lmsg} ELSE {}

\* What is between the announcement and the table is owed, what the queue or
\* the database refused is lost.
Log == INSTANCE TrackLog WITH owed <- InLoop \cup Queued \cup Held,
                              lost <- failed \cup dropped

\* Through the queue, the logger, the database's failures and the shutdown,
\* every step logs the oldest play owed of its stage, or gives one up, or moves
\* none; nothing is logged twice or after it was given up (main.go:54-68,
\* 99-106, 381-446).
LogsAsPromised == Log!Spec

\* What main.go:347 says, the shutdown is graceful: it does not end in a panic.
NoPanic == ~panicked
=============================================================================
