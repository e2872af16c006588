\* The user's and the system's file, written by init, edited, and judged while a process starts.
SPECIFICATION Spec
CONSTANTS
  p1 = p1 p2 = p2 i1 = i1 i2 = i2 i3 = i3 Torn = Torn Broken = Broken None = None
  Fields <- MCFields
  Contents <- MCContents
  Generated <- MCGenerated
  Override = None
  Target <- MCTarget
  Root = FALSE
  Allowed = FALSE
  Procs = {p1, p2}
  Inits = {i1, i2, i3}
  MaxEdits = 2
SYMMETRY MCSymmetry
INVARIANTS CheckedIsUsed SecretsAreSealed
PROPERTIES VerdictsHold
