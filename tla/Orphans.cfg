SPECIFICATION Spec
CONSTANTS
  p1 = p1
  p2 = p2
  a = a
  b = b
  Pids = {p1, p2}
  Names = {a}
  Timeouts = {1, 2}
  Configs <- MCTimeouts
  MAX_PROCESSES = 1
  MAX_SNAPSHOT = 4
  ScanPeriod = 1
  MaxGen = 1
  Protected = {}
  ServerCrashes = FALSE
  SocketFills = FALSE
  RunsOut = FALSE
  MaxInbox = 1
  EGGZIT = EGGZIT
  REST = REST
  NoPid = NoPid
  NoName = NoName
CHECK_DEADLOCK FALSE
INVARIANT NoOrphans
