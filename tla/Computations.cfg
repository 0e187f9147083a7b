SPECIFICATION Spec
CONSTANTS
  u1 = u1
  u2 = u2
  u3 = u3
  u4 = u4
  k1 = k1
  k2 = k2
  a1 = a1
  a2 = a2
  a3 = a3
  Files <- MCFiles
  Links <- MCLinks
  Maps <- MCMaps
  Lists <- MCLists
  Merges <- MCMerges
  KeyOf <- MCKeyOf
  Plans <- MCPlans
  Addresses = {a1, a2, a3}
  Calls <- MCCalls
  HostOf <- MCHostOf
  Builtins <- MCBuiltins
  Unloadable <- MCUnloadable
  Reject = Reject
  Junk = Junk
  None = None
INVARIANTS
  NamesAreUnique
  KeysResolveInOrder
  SharedFetch
  LinksReadBack
  LinksSurvive
  ReadsOwnOutput
  MergeKeepsFirst
  GroupsAreTheirUpstreams
  ClientAddressFound
CHECK_DEADLOCK FALSE
