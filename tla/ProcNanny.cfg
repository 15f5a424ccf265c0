SPECIFICATION Nanny
CONSTANTS
  c1 = c1
  c2 = c2
  Clients = {c1, c2}
  MAX_SOCKETS = 2
  MaxEdits = 1
  MaxHups = 1
  MaxLines = 1
  MaxTears = 0
  EGGZIT = EGGZIT
CHECK_DEADLOCK FALSE
INVARIANTS NannyTypeOK Agreement
PROPERTIES Welcomes Converges Leaves
