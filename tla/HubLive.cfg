SPECIFICATION FairSpec
CONSTANTS
  Conns = {c1}
  Nobody = Nobody
  Stages = {a}
  Cap = 1
  MaxVersion = 3
PROPERTIES
  BroadcastEnds
  HandlerEnds
