SPECIFICATION Spec
CONSTANTS
  c1 = c1
  c2 = c2
  c3 = c3
  Clients = {c1, c2, c3}
  MAX_SOCKETS = 2
  MaxEdits = 1
  MaxHups = 2
  MaxLines = 1
  MaxTears = 1
  EGGZIT = EGGZIT
CHECK_DEADLOCK FALSE
SYMMETRY ClientSymmetry
INVARIANTS TypeOK NoLostReload InStep Goodbye CountsOnce Fits
PROPERTIES Keeps
