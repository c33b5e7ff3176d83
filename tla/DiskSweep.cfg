SPECIFICATION SyncSpec
CONSTANTS
  Playlists = {p1}
  NoPlaylist = NoPlaylist
  Names = {n1, n2}
  Order <- AnyOrder
  MaxRuns = 2
  MaxFaults = 0
CHECK_DEADLOCK FALSE
PROPERTY SweepsRemovedTracks
