SPECIFICATION FairSpec
CONSTANTS
  s1 = s1
  s2 = s2
  s3 = s3
  Servers = {s1, s2, s3}
CHECK_DEADLOCK FALSE
INVARIANTS TypeOK OneServes Named Fresh
PROPERTY Succession
