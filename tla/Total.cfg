SPECIFICATION Spec
CONSTANTS
  c1 = c1
  c2 = c2
  c3 = c3
  Clients = {c1}
  MAX_SOCKETS = 1
  MaxEdits = 0
  MaxHups = 0
  MaxLines = 1
  MaxTears = 0
  EGGZIT = EGGZIT
CHECK_DEADLOCK FALSE
INVARIANT FinalCount
