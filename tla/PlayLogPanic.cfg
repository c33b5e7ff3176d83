SPECIFICATION Spec
CONSTANTS
  Stages = {a, b}
  Songs = {x, y}
  NoSong = NoSong
  QueueCap = 1
  MaxPlays = 0
CHECK_DEADLOCK FALSE
INVARIANT NoPanic
