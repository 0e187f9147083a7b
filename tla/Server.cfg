SPECIFICATION Spec
CONSTANTS
  s1 = s1
  s2 = s2
  k1 = k1
  k2 = k2
  Subs = {s1, s2}
  Keys = {k1, k2}
  Configs <- MCConfigs
  None = None
  MaxFetches = 2
  MaxReloads = 2
INVARIANTS
  TypeOK
  OneConfiguration
  QuotaNotOlderThanBody
  KeptSubServed
