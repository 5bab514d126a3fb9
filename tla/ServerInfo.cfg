\* A link between two daemons, one of whose names is as long as the newline byte is large.
SPECIFICATION Spec
CONSTANTS
  Base = 8
  Newline = 3
  Cap32 = 100
  Threshold = 16
  IdLen = 3
  BatchMax = 2
  RecordMax = 20
  Budget = 26
INVARIANT Understood
CHECK_DEADLOCK FALSE
