SPECIFICATION Spec
CONSTANTS
  Clients = {c1, c2, c3}
  Nil = Nil
  Watch = Watch
  Keep = Keep
  Callers = {h1}
  Free = Free
  Songs = {s1}
  NoSong = NoSong
  LateStart = FALSE
  Shutdown = TRUE
  MaxFaults = 2
SYMMETRY Symmetric
INVARIANTS
  TypeOK
  OneCommandPerClient
PROPERTIES
  FailureSparesFreshClient
