SPECIFICATION Spec
CONSTANTS
  s1 = s1
  s2 = s2
  n1 = n1
  n2 = n2
  n3 = n3
  k1 = k1
  k2 = k2
  raw = raw
  clash = clash
  h0 = h0
  h1 = h1
  Subs = {s1, s2}
  Contents <- MCContents
  Variants = {raw, clash}
  KeyOf <- MCKeyOf
  Shown <- MCShown
  Metas = {h0}
  NoMeta = h0
  None = None
  CacheKeys <- MCCacheKeys
  Requests = {r1, r2}
  MaxGen = 2
SYMMETRY Symmetry
INVARIANTS
  IndInv
  CacheCoherent
PROPERTIES
  ChangeIsSignalled
  RendersAtomically
