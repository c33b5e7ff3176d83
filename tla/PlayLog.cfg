SPECIFICATION FairSpec
CONSTANTS
  Stages = {a, b}
  Songs = {x, y}
  NoSong = NoSong
  QueueCap = 2
  MaxPlays = 1
CHECK_DEADLOCK FALSE
INVARIANTS
  TypeOK
  Accounted
  RowsInOrder
  DrainedAtExit
PROPERTIES
  LogsAsPromised
  AnnounceNotHeld
  ShutdownEnds
