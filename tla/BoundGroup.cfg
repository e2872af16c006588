\* A group bound to an interface that goes down, and away, and comes back.
SPECIFICATION GroupSpec
CONSTANTS
  v4 = v4 v6 = v6 a1 = a1 b1 = b1
  Default = Default Junk = Junk Absent = Absent Failed = Failed None = None
  Families = {v4, v6}
  Addrs = {a1, b1}
  Source = wan
  Endpoints = 1
  TTL = 1
  Patience = 1
  Capacity = 2
  MaxChanges = 2
  Keys <- MCKeys
  AddrsOf <- MCAddrsOf
  Order <- MCOrder
INVARIANTS VerdictsAreRecent
PROPERTIES CyclesDecide
