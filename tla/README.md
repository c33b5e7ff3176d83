# Verification of the Pavoia webradio

TLA+ models of the bridge (`apps/bridge`, Go), of the Plex sync that feeds it
(`scripts/plex-sync`, Python), and of the way they share a folder, a database
and an MPD server per stage (nine by default), of the watchdog that restarts the
bridge, and of the browser's WebSocket. TLC checks them on small instances;
TLAPS proves the safety properties that matter most for every value of the
constants.

Run a model with `tlc -workers 2 -config X.cfg M` and a proof with
`tlapm M.tla` in this directory.

## The system

A *stage* is one radio channel: an MPD server that plays a playlist and an HTTP
stream. The bridge watches all the MPD servers, tells browsers what plays, logs
every play to PostgreSQL, imports the library's metadata from disk, enriches the
artists from Last.fm and MusicBrainz, and serves an HTTP API.

| Component | State it keeps | Operations | Talks to |
|---|---|---|---|
| MPD pool (`mpd/pool.go`) | per stage: the client, `alive`, `ioMu`, the last event's time | connect, markDead, withClient, nowPlaying, keepalive and watch loops, reconnect, Close | MPD over TCP; `onChange` in `main.go`; HTTP handlers |
| Hub (`hub/`) | the clients with their subscriptions and buffers, the snapshots per stage, the SSE clients | Register, Subscribe, Snapshot, BroadcastNowPlaying, Unregister, HandleWS; the SSE counterparts | the watch loops; browsers |
| Track-change path and logger (`main.go`) | the queue `playCh` | onChange, logPlay, graceful shutdown | pool, hub, database |
| Circuit breaker (`enrichment/circuit.go`) | failures, first failure, trip time | Allow, RecordSuccess, RecordFailure | the enrichment worker and the admin API |
| Enrichment worker (`enrichment/`) | rows of `artists` and `similar_artists` | batch, forced enrichment of one artist | Last.fm, MusicBrainz, database |
| Disk importer (`disk/`) | `lastGeneration`, `lastSuccessAt` | SyncOnce | the webradio folder, database |
| Plex sync (`scripts/plex-sync`) | the webradio folder, its manifest, a run lock | mirror a playlist, sweep, write artifacts and manifest | Plex; the folder |
| Health (`main.go`) | none | postgres, MPD, disk sync and backup status, the overall status | pool, importer, backup files |
| Stream proxy (`api/stream.go`) | listener counters | HandleStream | MPD's HTTP output |
| HTTP API (`api/`) | none | queries; streaks and best week (`digging.go`) | database |
| Process and migrations (`main.go`, `db/db.go`) | `schema_migrations`; the database handle | Connect, Migrate, serve, stop | database |
| Web client (`apps/web/src/lib`) | WebSocket and its reconnect timer; two audio elements | connect, resubscribe, crossfade | hub, stream proxy |
| Watchdog, backups, deploy (`scripts/ops`, `deploy.sh`) | state files | restart a wedged bridge, dump the database | the bridge process, `/health` |

Hard behaviours, by component, and what makes it right:

- **Pool.** A command may time out and leave a goroutine blocked on its socket;
  clients are swapped under callers that wait for `ioMu`; a watcher's socket can
  die without a word; changes fall between two watchers; Close runs beside all
  of that. Right means: one command at a time on a connection, a failure closes
  the connection it happened on and no other, every command returns, a stage
  recovers and announces what plays, Close ends.
- **Hub.** Several broadcasters, a reader and a writer share each buffer and
  its closing. Right means: no send on a closed channel, no missed update, no
  broadcaster held by a slow browser, no goroutine left behind.
- **SSE.** Events are dropped at a full channel, which closes while it is in a
  broadcaster's range. Right means: no send on a closed channel, and the count a
  browser shows becomes the count there is.
- **Logger.** A bounded queue between the per-stage loops and a slow database, closed
  during shutdown. Right means: a play is logged once or its loss is one of the
  two the code accepts; order; a complete drain; no loop held.
- **Breaker.** Answers arrive after the breaker has moved on.
- **Enrichment.** The batch, an administrator's request and the importer write
  the same rows from what they read before; contexts are cancelled in between;
  an artist that fails must not be taken again for ever. Right means: tags are
  not taken back, an interrupted artist stays pending, every artist settles.
- **Importer and sync.** Two processes share files without a lock; either may
  die anywhere; the database fails between two commits. Right means: nothing is
  skipped that is not imported, nothing is deleted that was there, convergence.
- **Process and watchdog.** A migration is executed and recorded in two
  statements, and a boot may be killed between them; the watchdog sees the bridge
  only from outside and counts in a file that outlives it. Right means: the
  schema is whole before anything is served, only silence is a reason to kill,
  and a dead bridge comes back.
- **Health.** Three ages, each with a window, hide what stopped a moment ago.
  Right means: what stopped for good shows in the end.
- **Stream proxy.** The first requests of a stage race to make its counter.
- **API.** Plays are logged between two pages, and between the count and the
  page of one response. Days are compared as times with a slack for the zone.
- **WebSocket client.** Pages subscribe before, between and during connections.
  Right means: the hub ends up with the subscriptions.

## Modules

```
MPDConn        <- MPDConnProofs          <- (MCMPDConn)
Hub            <- HubProofs              <- (MCHub)
TrackLog (instanced by PlayLog)
PlayLog        <- PlayLogProofs          <- (MCPlayLog)
Enrichment     <- EnrichmentProofs       <- (MCEnrichment)
Webradio <- PlexSync                                  (instanced by DiskSync)
Webradio <- Importer <- DiskSync <- DiskSyncProofs  <- (MCDiskSync)
Bridge  <- BridgeProofs      Digging <- DiggingProofs
Health   SSE   Streams   Paging   WSClient
Breaker <- CircuitBreaker <- MCParts <- PartsProofs
     MCParts instances Bridge, Health, SSE, Streams, Paging, Digging and
     WSClient; PartsProofs instances BridgeProofs and DiggingProofs
```

Each arrow is an EXTENDS; the MC modules extend the specifications. A definition
whose comment begins with *Variant* is a plausible mistake, kept beside the
definition it replaces, with which the run named in `PROJECT.json` fails: it
shows that the property depends on that piece of the code.

**MPDConn** is one stage's connection. `client`, `alive`, `ioMu` are the fields
of `Conn`; `pc`, `call`, `snap`, `target` are where each goroutine is in
`withClient`, with the client it has read. `Enter`, `Acquire`, `Succeed`,
`Fail`, `Timeout` are the stretches of `withClient` between its locks and its
select; `Return` is what `nowPlaying` or the keepalive loop does with the
result. `LoopTop` to `WatcherEvent` are the steps of `watchLoop`, `reconnect`
and `drainWatcher`; `Cancel`, `CloseDetach`, `CloseReturn` are `Pool.Close`.
Client identities are taken again only once nothing refers to them, as pointers
are. Stages share nothing here but the context and the callback, so one stage is
enough. `LateStart` says whether a command's goroutine may start after its own
5 s timer.

**Hub** has a broadcaster per stage (the watch loop inside `onChange`), a reader
and a writer per connection. `Lock` is the read lock, held to the end of
`Visit`; `Try`, `Drain`, `Retry` are the two sends and the drain. A message is
the stage and the number of its broadcast. `Handle` performs what
`SubscribeOrder` lists, in the order in which `HandleWS` does.

**PlayLog** carries a change from the watch loop through `Broadcast` and `Send`
to the logger's `Take`, `Lookup`, `Insert`, beside `Signal`, `CloseQueue`,
`LoggerGone`, `Exit`. A watch loop goes on until it notices the context.
**TrackLog** is its abstract specification: plays are announced, and each is
logged in the order of its stage or given up. `Log` in PlayLog instances it with
`owed` as the plays in the loops, in the queue and with the logger; every step
of the queue, the database and the shutdown is a step of TrackLog or none.

**Breaker** holds the breaker's three methods as operators on its fields and a
time, **CircuitBreaker** the callers that share one. Every call may end at any
later time.

**Enrichment** has the worker's goroutine, the handlers of forced enrichments
and the importer's upsert beside them. `EnrichOne` is `enrichOne` from the row it
read to its UPDATE: each source answers, fails, or is refused by its breaker
(more freely than `CircuitBreaker` allows); the similar artists are stored one
by one, as stubs that the next batches take; `Write` is the last UPDATE, which
may fail; `Cancel` is the context. Of a row the model keeps its state and where
its tags are from; a batch is the set of the places of its rows, the oldest
unenriched ones, which it takes in order.

**PlexSync** is the writing process, file operation by file operation: the
songs of a playlist go through `Unlink`, `Link`, `SaveSidecar` in four workers'
interleavings, `EndSongs` authorises the sweep, and the artifacts precede the
manifest. A file's content is the number of the run that wrote it, and the
manifest's hash of a file is its content. **Importer** is `SyncOnce` between its
reads and its commits; a playlist's transaction gathers `got` and `Commit`
publishes it. **DiskSync** lets the two processes interleave at every step and
remembers in `missing` which tracks were absent at some time of a `SyncOnce`.

**Bridge** is the life of the process. `ConnectDB`, `Check`, `Execute`, `Record`
are `db.Connect` and `db.Migrate`, with a kill or a lost answer between any two;
`Probe`, `Terminate` and the grace are `bridge-watchdog.sh`, whose counter `fails`
is a file. `unheard` remembers how many probes in a row got no answer at all.

**Health** is what `GET /health` computes, over ages that are `never`, `fresh` or
`old`, the side of their window they are on: `Postgres`, `DiskSyncStatus`,
`BackupStatus`, `MPDStatus`, `Overall`. The actions are the things it looks at.

**SSE**, **Streams**, **Paging**, **Digging** and **WSClient** are
`BroadcastSSE` with its ticker, `HandleStream`'s counters, a listener who pages
through the history while plays are logged, the streaks of
`/api/digging/streaks` against the calendar, and `ws.ts` with the hub's
subscriptions of the connection.

**MCParts** makes one model of the components that share no state. A behaviour
picks one of them in `part` and the others rest, so the state space is the sum
of theirs and each property is about its own part. Where they do share state
with a larger component, that component's module has it: the worker's breakers
are the `Breaker` of `CircuitBreaker`, refused at any time in `Enrichment`.

What the abstractions leave out: the text of messages, songs and rows; the
columns of `library_tracks` and the artist stubs; times, except for the breaker,
whose clock counts units, the windows of Health and the days of Digging; what
`nowPlaying` returns besides the file; the queue's capacity of 64, the buffer's
of 32 and the number of stages, which are constants.

## Runs

| Run | Instance | Shows |
|---|---|---|
| `mpd_safety` | 3 client identities (symmetric), 1 HTTP caller, 2 faults, shutdown | `TypeOK`, `OneCommandPerClient`, `FailureSparesFreshClient` |
| `mpd_live` | 2 identities, 2 songs, 2 faults | `StageHeals`, `SongConverges` |
| `mpd_close` | 2 identities, 1 fault, shutdown | `CallersReturn`, `CloseEnds` |
| `hub_safety` | 1 browser, 2 stages, a buffer of 1, 2 broadcasts each | `TypeOK`, `NoSendOnClosed`, `NoMissedUpdate` |
| `hub_live` | 1 browser, 1 stage, 3 broadcasts | `BroadcastEnds`, `HandlerEnds` |
| `playlog` | 2 stages, 2 songs, a queue of 2, 1 change each | `TypeOK`, `Accounted`, `RowsInOrder`, `DrainedAtExit`, `AnnounceNotHeld`, `ShutdownEnds`, `LogsAsPromised` |
| `enrichment` | 2 artists, the worker, 1 administrator, batches of 1, 1 failed UPDATE | `TypeOK`, `TagsKept`, `InterruptedStaysPending`, `EveryArtistSettles` |
| `disksync` | 2 playlists of 1 file, 2 runs of the sync, 2 faults | `TypeOK`, `SkippedIsImported`, `NoFalseDelete`, `SkipHasArtists`, `Converges` |
| `parts` | one component per behaviour, see below | `TripsForCause`, `RestsForCooldown` (breaker); `SchemaReady`, `RestartsForCause`, `BridgeComesBack` (bridge); `BrokenShows` (health); `SseNoSendOnClosed`, `CountsConverge` (sse); `ListenersCounted` (streams); `PagesMissNone` (paging); `StreaksRight` (digging); `SubscriptionsReach` (ws) |
| `playlog_panic`, `hub_drain`, `disk_sweep` | the smallest that shows it | a disagreement, see *Findings* |

Why the bounds are enough. Three identities give the current client, a detached
one still in use and a timed-out one at once; a fault budget of two is one
failure during the recovery from another. A buffer of one is full after one
message, so that the drain and the retry of two broadcasters, the writer and the
snapshots meet; one browser suffices because browsers share only the read lock,
and `Leave` lets the same name connect again. A queue of two and four plays fill
the queue while the logger holds one. Two artists with batches of one make a
batch wait for the other artist, let either be the stub the other brings in, and
let the administrator work on the one the worker is at. Two runs of the sync give
an old generation, a new one and files of both, and one run chosen by playlist;
two faults are a database error and a restart, or two of either.

In `parts`: nine ticks let the breaker (threshold 3, window 2, cooldown 3) trip,
rest, open and count again with calls of two callers from before. Two migrations
and four faults let a boot die between the execution and the record of the
first, again at the second, and leave two faults to the watchdog, whose
threshold of three is the script's own. Two stages and two losses let one stage
or both be lost. Two browsers with a channel of one event leave while a
broadcaster is at the other. Three requests on two stages race for one counter
while a third stream runs. Pages of two rows and six plays give three pages, with
rows arriving at each. Eight days and the one the database may be ahead make
nine, so that the eight of the best week are not all there are.

`CHECK_DEADLOCK FALSE` stands where the system may stop: after a shutdown
(`PlayLog`, `MPDConnClose`), when the sync's runs are used up and the
importer's database never answers again (`DiskSync`), when every artist is
settled and nobody asks for more (`Enrichment`), and when the listener has
turned the last page or the calendar ends (`Parts`).

### Fairness

- `MPDConn`: a goroutine that can go on does (weak fairness of each step); Go's
  mutex does not starve a waiter (strong fairness of `Acquire`); a select whose
  context is done does not choose its timer for ever; MPD accepts a connection
  and a watcher if it is dialled often enough. A command ends by its answer or
  its 5 s timer: `Succeed` and `Timeout` are fair together. Requests, faults,
  events and shutdown are not promised.
- `Hub`: loops go on; a waiting `Lock` of an RWMutex keeps new readers out, so
  `Unregister` is strongly fair. A write ends by success or its 5 s deadline.
  Nothing is assumed of browsers or the network.
- `PlayLog`: the loops and the shutdown goroutine go on. Nothing is assumed of
  the database, but `ShutdownEnds` has that assumption as its hypothesis
  (`DatabaseAnswers`): the INSERT of `logPlay` has no timeout of its own.
- `Enrichment`: the ticker starts batches and the worker's steps go on; every
  call to a source ends by its answer or its HTTP timeout. Administrators,
  the importer, answers and cancellations are not promised.
- `DiskSync`: the ticker keeps starting `SyncOnce` and its steps go on. Runs of
  the sync, crashes, database errors and restarts are not promised, and their
  number is bounded, so that eventually the database answers.
- `MCParts`: cron runs the watchdog every minute and a boot's steps go on
  (`BridgeFairness`; crashes, hangs, PostgreSQL's losses, and boots so slow that
  a probe meets them are bounded, or the bridge need not come back); time
  passes, and a keepalive to an MPD that is gone fails (`HealthFairness`); the
  ticker of ten seconds fires, the broadcaster goes on and a browser reads its
  events (`SSEFairness`); the browser's timers and socket events happen and the
  hub reads (`WSFairness`).

## Proofs

Every theorem is for any value of the constants that the named assumptions
allow (`ConnAssumption`, `HubAssumption`, `PlayAssumption`, `BreakerAssumption`,
`CallersAssumption`, `WebradioAssumption`, `ImporterAssumption`,
`EnrichmentAssumption`, `PartsAssumption`; for the modules that `MCParts`
instances, the theorems about one of them state what they need of it): the sets
are arbitrary, the special values lie outside them, the bounds are numbers.
Every invariant and every action property of a passing run is proved.

- **MPDConnProofs.** `TypeCorrect`. `OneCommand`: `OneCommandPerClient` is
  inductive together with *who runs a command holds `ioMu`, and neither its
  client nor the current one has a goroutine left behind by a timeout*; the step
  that matters is the second look at the client once `ioMu` is held, and the
  order of markDead and the unlock in the timeout. `LockReleased` is the converse
  and the safety half of `CallersReturn`: whoever holds `ioMu` runs a command, so
  no path of `withClient` leaves the lock behind. `FailureSparesFresh`: under
  `~LateStart`, a goroutine on its way to markDead knows the client that failed
  it, so the comparison in markDead never falls back on *any client*.
- **HubProofs.** `TypeCorrect`, `NeverOnClosed`. The invariant says that a channel
  is open exactly while its client is registered, and that whatever a
  broadcaster has in its range or is sending to is registered, because it holds
  the read lock that `Unregister` excludes. `NothingMissed` proves
  `NoMissedUpdate` from `OnItsWay`: the newest message of a subscribed stage is
  with the browser, with the writer, in the channel, among the snapshots to be
  queued, or still to come, because the reader has subscribed and not read the
  snapshots yet, or the broadcaster has cached it and not locked the clients, or
  has this client before it. `Cache` and `Lock` keep it because the version is
  cached before the clients are ranged over, `Handle` because the subscription
  precedes the reading of the snapshot. `PeersAreTold` is the safety half of
  `HandlerEnds`: of the two goroutines of a connection, the one that leaves has
  told the other, by closing the connection or the channel it waits on.
- **PlayLogProofs.** `TypeCorrect`, `Ordered`. The invariant orders the plays of
  a stage through the queue, the logger's hand and the rows, each behind the
  next and below `announced`. `EveryPlayOnce` (`Accounted`) adds that the places
  a play may be in are disjoint and together all that was announced;
  `ExitsDrained` (`DrainedAtExit`) that the shutdown goroutine passes the logger
  only once the queue is closed and empty. `Implements` (`LogsAsPromised`) maps
  the initial state and every step to TrackLog: by the two invariants a play
  that is inserted is the oldest one owed of its stage.
- **EnrichmentProofs.** `TypeCorrect`, whose hard part is that a batch holds only
  places of rows the table has, no more than `BatchSize`, while stubs are added
  to the table behind it. `TagsStay`, `InterruptedStays`: tags from Last.fm imply
  that the row is not pending, so that the importer's upsert, which asks for
  `enriched_at`, leaves them; an UPDATE merges, and needs a context.
- **BridgeProofs.** `TypeCorrect`, `SchemaIsReady`, `StopsForCause`. What the boot
  has gone past is recorded, and what it is about to record has been executed;
  the watchdog's file says how many probes in a row got no answer.
- **DiggingProofs.** `StreaksAreRight` is about two loops over dates and a sum,
  and the prover has no induction over data. `RunTo`, a recursive function, is
  therefore solved: `RunStep` shows that the distance to the last day without
  additions (`Gap`) satisfies its equation, and `RunToIsLength` that it is the
  only solution, by the least date on which the two would differ. The current
  streak is exactly as far as one can go back with no more than two idle days up
  to tomorrow (`CurrentIsRight`): that many days are idle if and only if as many
  dates are recent as days have been gone back (`IdleMeans`), so the latest date
  on which the loop and `Reach` disagreed would be both in its place and out of
  it. The best week is the most in eight days in a row (`BestWeekIsRight`), which
  compares two sums by comparing the sets of the tracks summed (`SumIsTracks`),
  again by a least counterexample, here a set of days.
- **PartsProofs.** One section per part, and then the whole.
  Breaker: `BreakerTypes`, `OnlyForCause`, `Rests`. The invariant relates the
  count to the history of failures: the last `failures` ones are not older than
  `firstFail`, and `trippedAt`, while set, is the last trip.
  Streams: `CountsAreRight`, by the theorems on finite cardinalities: a stage's
  counter is one made for it, every stream holds it, and it shows the number of
  streams; a counter that may still become it is at zero.
  Events: `NoSendOnClosed`, because the broadcaster has channels to send to only
  while its read lock keeps `Unregister` out.
  Paging: `NoPageMissed`. From the oldest on, the rows of the pages turned stay
  where they are. From the newest on they move, and the invariant
  (`NewestShown`) counts from the end of the table, or, for the page just shown,
  from the total of its response: every row of the start beyond the pages behind
  the listener has been shown.
  Browser: `HubGetsSubs`, the safety half of `SubscriptionsReach`: of each stage
  the last message under way that names it says what `subs` says, and the hub if
  none does.
  Health: `TracesOnlyFade`, the safety half of `BrokenShows`: nothing refreshes
  what a broken part has left behind, so the ages `Health` compares only grow.
  The whole: `PartsAreParts` shows that a behaviour of MCParts is one of every
  part, by the steps of `Only`, and with it every theorem about a part holds of
  the model the run checks: `SchemaIsReady`, `StopsForCause`,
  `PartsNoSendOnClosed`, `PartsCountsAreRight`, `PartsNoPageMissed`,
  `PartsStreaksAreRight`. `SameBridge` and `SameCalendar` say that the instances
  through the proof modules are those of MCParts.
- **DiskSyncProofs.** `TypeCorrect` needs that no song outside the playlist is
  being worked on. `DeletesOnlyMissing` rests on `NotFound`: for every folder
  already walked, what is not in `currentPaths` was missing; for the folder being
  read, what is neither read nor still to be read; the walk covers all playlists
  before the soft delete because a failed playlist ends the run.
  `SkipsOnlyImported` rests on `Imported`: generations grow and the run is ahead
  of the manifest, so a `SyncOnce` whose generation is still the manifest's and
  whose folder is untouched has read nothing but that generation
  (`Undisturbed`), and then what it has written copies the folder (`Copies`).
  Any other `SyncOnce` records a generation that is no longer the manifest's.
  `SkipsWithArtists` (`SkipHasArtists`) rests on `ArtistsInOrder`: a manifest's
  artists are its own run's, both only grow, and the artists in the database lie
  between the generation imported and the folder; a run that verifies the folder
  against that generation leaves no room between the two.

Only model-checked: the liveness properties, which are out of TLAPS's reach
(fairness, ENABLED): `AnnounceNotHeld`, `ShutdownEnds`, `Converges`,
`EveryArtistSettles`, `BridgeComesBack`, `BrokenShows`, `CountsConverge`,
`SubscriptionsReach`, and those of `mpd_live`, `mpd_close` and `hub_live`.
Of four of them a safety half is proved: `LockReleased`, `PeersAreTold`,
`HubGetsSubs`, `TracesOnlyFade`.

## Findings

Each is the run of the same name in `PROJECT.json`.

- `playlog_panic`: `playCh` is closed (`main.go:364`) before `pool.Close()` waits
  for the watch loops. A loop that is inside `onChange` sends on the closed
  channel and the process panics with plays still queued.
- `hub_drain`: the buffer is shared by all stages, so the message drained as
  stale may be the only copy of another stage's current track.
- `disk_sweep`: a song whose processing fails for a moment is not in
  `keep_basenames`, and the sweep takes it for one that Plex has removed.

Met while modelling, and not kept as runs:

- `pool.go:209-210` against 220-227: `pinged` is nil if the 5 s timer fires
  before the command's goroutine has run; `markDead(nil)` then closes whatever
  client is current. `FailureSparesFreshClient` fails with `LateStart = TRUE`.
- `pool.go:426`: the probe "on the SAME client" reads the client anew and may go
  to another.
- `pool.go:235`: a dial that answers after Close has detached the clients
  installs one that nobody closes.
- `handler.go:78`: the snapshot is read after the subscription and queued later;
  a broadcast in between is delivered first, and the browser is then sent an
  older "last known" (`hub.go:105`), which stays until the next change.
- `circuit.go:37` announces a half-open state that allows one call; all callers
  are let through. `circuit.go:20-21`: the window is restarted, not slid.
- `worker.go:191`: with both breakers open a whole batch is marked failed without
  a call. `main.go:258` answers "enriched" although the artist may have been
  marked failed; a cancelled request counts as a failure of the source in the
  shared breaker; a later failed mark of the batch may replace the state a forced
  enrichment has written, though not its tags. The stubs of similar artists are
  enriched too and bring their own, so the table grows outward.
- `importer.go:440-441`: an empty folder is left to "the next run", which skips
  the generation; the prune of the same run has removed every membership.
- `importer.go:27-29` says that a run is a single transaction; it is one per
  playlist and one per later statement.
- A sync that dies halfway leaves a changed folder under an old manifest, which
  the importer keeps skipping until the next run of the sync; hence `~touched`
  in `SkippedIsImported` and `Converges`.
- `main.go:53-59`: a Connect that fails at boot leaves the handle nil for ever.
  postgres, disk_sync and pg_backup are then `not_configured` and the overall
  status `ok`, though `main.go:600` reserves that word for a missing
  `DATABASE_URL` or `MUSIC_BASE_PATH`; hence `db` in `Broken`. A sync that stopped
  for days keeps disk_sync at `ok`, because a skipped generation is a success.
  `main.go:584`: a recent ok row outweighs a newer failed one, against the
  comments at 517-518 and 530.
- `bridge-watchdog.sh`: its grace of 5 s is also the time `server.Shutdown` may
  take, which open streams and SSE connections make it use; the SIGKILL that
  follows can lose queued plays.
- `hub.go:279`: a dropped SSE event is made good only by the next broadcast, ten
  seconds later.
- `digging.go:33` and `349` promise the most tracks in any 7-day window;
  `> 7*24` hours keeps the eighth day too. `digging.go:31` promises the
  consecutive days ending today; the loop forgives one missing day, and a second
  when a date is ahead of the bridge's: on day 5, additions on days 3 and 6 make a
  current streak of 2, which a longest streak of 1 does not bound. `StreaksRight`
  states what is computed, eight days and all, not what these comments say.
- `history.go:80-98`: the count and the page are two queries; a play logged
  between those of the last page hides the oldest row (`late` in
  `PagesMissNone`). `/api/artists` and `HandleArtistTracks` page over an order
  with ties.
- `ws.ts:113`: `disconnect()` leaves `reconnectTimer` set; no page calls it.
- `plex_webradio_sync.py:85`: without its lock file the sync runs unlocked.

## Not modelled

`PROJECT.json` lists every component with its status. Left aside:

- the **configuration** (a table) and the **API's single queries**, which change
  nothing and are PostgreSQL's to get right;
- the **audio engine**: timers over the Web Audio API. Three quick switches
  leave silence, and a stop during a crossfade leaves `stageId` set, so that a
  switch to that stage returns early; but neither the code nor the design
  document states what a switch during a crossfade should do, so there is no
  property to hold it to;
- the **web pages** (the buttons of the history page are actions of `Paging`),
  the **deployment and backup scripts** (the rows of a backup are an action of
  `Health`), and the extraction of metadata from Plex and audio tags;
- of the **sync**, the conversion of audio, which writes in place; of the
  **importer**, `VerifySidecars`, which only reports; of the **WebSocket
  client**, the growing delay.

## Plan

Done: every component above that keeps state across steps. What would add most:

1. `HubSafety` with two browsers: `NothingMissed` is proved for any number, the
   liveness is checked with one.
2. `NoMissedUpdate` end to end: `WSClient` composed with `Hub`, so that a
   reconnection is a new `Connect` and `Receive`.
3. The worker's two breakers in `Enrichment` as instances of `Breaker`, with its
   clock, to bound how long a source that has recovered stays refused.
4. The safety halves of the other liveness properties: what `Converges` and
   `EveryArtistSettles` rest on.
