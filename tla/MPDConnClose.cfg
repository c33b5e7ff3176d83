SPECIFICATION FairSpec
CONSTANTS
  Clients = {c1, c2}
  Nil = Nil
  Watch = Watch
  Keep = Keep
  Callers = {}
  Free = Free
  Songs = {s1}
  NoSong = NoSong
  LateStart = FALSE
  Shutdown = TRUE
  MaxFaults = 1
CHECK_DEADLOCK FALSE
PROPERTIES
  CallersReturn
  CloseEnds
