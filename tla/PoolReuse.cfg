SPECIFICATION Spec
CONSTANTS
  p1 = p1
  p2 = p2
  a = a
  b = b
  Pids = {p1, p2}
  Names = {a}
  Timeouts = {1, 2}
  Configs <- MCTwice
  MAX_PROCESSES = 1
  MAX_SNAPSHOT = 3
  ScanPeriod = 0
  MaxGen = 2
  Protected = {p1}
  ServerCrashes = TRUE
  SocketFills = TRUE
  RunsOut = TRUE
  MaxInbox = 1
  EGGZIT = EGGZIT
  REST = REST
  NoPid = NoPid
  NoName = NoName
CHECK_DEADLOCK FALSE
INVARIANTS SlotProtocol Accounting
PROPERTY KeepsContract
