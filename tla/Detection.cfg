\* Both families over the default route and one over its own uplink, in a cache for two.
SPECIFICATION Spec
CONSTANTS
  v4 = v4 v6 = v6 wan = wan a1 = a1 a2 = a2 b1 = b1
  Default = Default Junk = Junk Absent = Absent Failed = Failed None = None
  Families = {v4, v6}
  Addrs = {a1, a2, b1}
  Endpoints = 2
  TTL = 1
  Patience = 1
  Capacity = 2
  MaxChanges = 1
  Keys <- MCKeys
  AddrsOf <- MCAddrsOf
INVARIANTS TypeOK AddressesAreRecent AbsentMeansNoRoute
PROPERTIES SettlesOnTruth LookupsEnd
