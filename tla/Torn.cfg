SPECIFICATION Spec
CONSTANTS
  BUFFER_SIZE = 4
  TextLength <- MCTextLength
  MaxUnits = 9
  MaxMessages = 3
  REST = REST
CHECK_DEADLOCK FALSE
INVARIANT TakesConfigs
