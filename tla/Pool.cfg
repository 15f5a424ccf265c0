SPECIFICATION Spec
CONSTANTS
  p1 = p1
  p2 = p2
  a = a
  b = b
  Pids = {p1, p2}
  Names = {a, b}
  Timeouts = {1, 2}
  Configs <- MCConfigs
  MAX_PROCESSES = 2
  MAX_SNAPSHOT = 4
  ScanPeriod = 1
  MaxGen = 1
  Protected = {}
  ServerCrashes = TRUE
  SocketFills = TRUE
  RunsOut = FALSE
  MaxInbox = 1
  EGGZIT = EGGZIT
  REST = REST
  NoPid = NoPid
  NoName = NoName
CHECK_DEADLOCK FALSE
SYMMETRY PidSymmetry
INVARIANTS TypeOK SlotProtocol UniqueMonitor Accounting NeverOverrun LastConfigWins
PROPERTY QuietAfterExit
