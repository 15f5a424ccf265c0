SPECIFICATION FairSpec
CONSTANTS
  BUFFER_SIZE = 4
  TextLength <- MCTextLength
  MaxUnits = 13
  MaxMessages = 5
  REST = REST
CHECK_DEADLOCK FALSE
INVARIANTS TypeOK Intact Apart WholeInOrder
PROPERTIES KeepsQueue Delivered
