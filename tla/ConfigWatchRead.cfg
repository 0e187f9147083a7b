SPECIFICATION FairSpec
CONSTANTS
  None = None
  Bad = {}
  MaxWrites = 1
  MaxSignals = 0
PROPERTIES
  FailedReadLosesNothing
