SPECIFICATION SyncFair
CONSTANTS
  Playlists = {p1, p2}
  NoPlaylist = NoPlaylist
  Names = {n1}
  Order <- AnyOrder
  MaxRuns = 2
  MaxFaults = 2
CHECK_DEADLOCK FALSE
INVARIANTS
  TypeOK
  SkippedIsImported
PROPERTIES
  NoFalseDelete
  SkipHasArtists
  Converges
