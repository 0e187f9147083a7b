SPECIFICATION Spec
CONSTANTS
  k = k
  l = l
  x = x
  alice = alice
  bob = bob
  c1 = c1
  c2 = c2
  Proxies <- MCProxies
  Relays <- MCRelays
  Routes = {alice, bob}
  Conns = {c1, c2}
  Desireds <- MCDesireds
  Reject = Reject
  None = None
  DrainTimeout = 2
  MaxApplies = 3
PROPERTIES
  UnchangedIsKept
