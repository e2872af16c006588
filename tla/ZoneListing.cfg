\* Five zones on pages of two; two of them come or go while a listing runs.
SPECIFICATION Spec
CONSTANTS
  z1 = z1 z2 = z2 z3 = z3 z4 = z4 z5 = z5
  Zones <- MCZones
  PerPage = 2
  MaxChanges = 2
INVARIANTS ListingIsComplete ListingsEnd
