SPECIFICATION FairSpec
CONSTANTS
  s1 = s1
  s2 = s2
  u1 = u1
  u2 = u2
  u3 = u3
  Subs = {s1, s2}
  Urls = {u1, u2, u3}
  Barren <- MCBarren
  Kind <- MCKind
  Configs <- MCConfigs
  Interval = 3
  MaxEpoch = 1
  MaxClock = 1
  MaxFaults = 2
  None = None
INVARIANTS
  TypeOK
  ExactlyOneFetcher
  ValidatorsMatchNodes
PROPERTIES
  NodesKeptUntilPruned
  SettlesOnUpstream
  StragglersExit
