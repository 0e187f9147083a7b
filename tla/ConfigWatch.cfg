SPECIFICATION FairSpec
CONSTANTS
  None = None
  Bad = {2}
  MaxWrites = 3
  MaxSignals = 2
INVARIANTS
  TypeOK
  QuietMeansApplied
PROPERTIES
  WritesTakeEffect
  SignalTakesEffect
