SPECIFICATION Spec
CONSTANTS
  Conns = {c1}
  Nobody = Nobody
  Stages = {a, b}
  Cap = 1
  MaxVersion = 1
PROPERTIES
  DrainsStale
