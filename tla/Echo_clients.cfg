SPECIFICATION Spec
CONSTANTS
  Clients = {c1, c2}
  Bytes = {a, b}
  Nul = nul
  None = none
  BufSize = 2
  QueueSize = 2
  MaxSent = 2
  MaxBeyond = 1
INVARIANTS TypeOK Echoed
PROPERTY AllServed
CHECK_DEADLOCK FALSE
