SPECIFICATION Spec
CONSTANTS
  Conns = {c1}
  Nobody = Nobody
  Stages = {a, b}
  Cap = 1
  MaxVersion = 2
INVARIANTS
  TypeOK
  NoSendOnClosed
  NoMissedUpdate
