SPECIFICATION FairSpec
CONSTANTS
  Clients = {c1, c2}
  Nil = Nil
  Watch = Watch
  Keep = Keep
  Callers = {}
  Free = Free
  Songs = {s1, s2}
  NoSong = NoSong
  LateStart = FALSE
  Shutdown = FALSE
  MaxFaults = 2
PROPERTIES
  StageHeals
  SongConverges
