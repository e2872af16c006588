\* Two processes, with every fault but the one the code itself ignores.
SPECIFICATION Spec
CONSTANTS
  h1 = h1 h2 = h2 g1 = g1 g2 = g2 p1 = p1 p2 = p2 None = None Torn = Torn
  Procs = {p1, p2}
  Keys <- MCKeys
  Values <- MCValues
  Requests <- MCRequests
  Faults = {"load", "temp", "write", "replace", "crash", "power"}
INVARIANTS TypeOK LeavesNothingBehind
PROPERTIES Promised EditsEnd
