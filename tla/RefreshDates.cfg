SPECIFICATION FairSpec
CONSTANTS
  s1 = s1
  s2 = s2
  u1 = u1
  u2 = u2
  u3 = u3
  Subs = {s1, s2}
  Urls = {u1, u2, u3}
  Barren = {}
  Kind <- MCDates
  Configs <- MCMovingDates
  Interval = 1
  MaxEpoch = 1
  MaxClock = 1
  MaxFaults = 0
  None = None
PROPERTIES
  UrlChangeTakesEffect
