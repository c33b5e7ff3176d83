SPECIFICATION FairSpec
CONSTANTS
  Artists = {x, y}
  Worker = worker
  Admins = {admin}
  BatchSize = 1
  Limit = 1
  MaxFaults = 1
  Nobody = Nobody
CHECK_DEADLOCK FALSE
INVARIANTS
  TypeOK
PROPERTIES
  TagsKept
  InterruptedStaysPending
  EveryArtistSettles
