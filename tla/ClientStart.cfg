SPECIFICATION Spec
CONSTANTS
  i1 = i1
  i2 = i2
  Instances = {i1, i2}
  Texts <- MCTexts
  MaxMonitors = 1
  MaxFds = 7
CHECK_DEADLOCK FALSE
INVARIANTS TypeOK OneRuns Cleared OwnText
