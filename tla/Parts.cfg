SPECIFICATION FairSpec
CONSTANTS
  Callers = {worker, admin}
  Threshold = 3
  Window = 2
  Cooldown = 3
  MaxTime = 9
  Never = Never
  Migrations = 2
  FailThreshold = 3
  MaxFaults = 4
  MaxLosses = 2
  Stages = {a, b}
  Watched = {a, b}
  Browsers = {b1, b2}
  Listeners = {l1}
  Buf = 1
  MaxChanges = 3
  Requests = {r1, r2, r3}
  NoCounter = NoCounter
  PerPage = 2
  MaxPlays = 6
  MaxDay = 8
  MaxPerDay = 1
  MaxCalls = 3
CHECK_DEADLOCK FALSE
INVARIANTS
  SchemaReady
  RestartsForCause
  SseNoSendOnClosed
  ListenersCounted
  PagesMissNone
  StreaksRight
PROPERTIES
  TripsForCause
  RestsForCooldown
  BridgeComesBack
  BrokenShows
  CountsConverge
  SubscriptionsReach
