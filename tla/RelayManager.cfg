SPECIFICATION FairSpec
CONSTANTS
  s1 = s1
  s2 = s2
  p0 = p0
  p1 = p1
  p2 = p2
  Subs = {s1, s2}
  Plans = {p0, p1, p2}
  SubsOf <- MCSubsOf
  HasRelays <- MCHasRelays
  Contents = {absent, a, b, x}
  Absent = absent
  Refused = {x}
  None = None
  MaxUpdates = 2
  MaxPlans = 2
CHECK_DEADLOCK FALSE
INVARIANTS
  SetPlanNeverBlocks
  NoLostWakeup
PROPERTIES
  EventuallyInSync
