\* Installations in which loads run one at a time, and in which two may overlap.
SPECIFICATION Spec
CONSTANTS
  p1 = p1
  p2 = p2
  f1 = f1
  f2 = f2
  None = None
  Torn = Torn
  Abandoned = Abandoned
  Process = {p1, p2}
  File = {f1, f2}
  Limits = {1, 2}
  MaxVersion = 2
  MaxCrashes = 2
INVARIANT
  MarkedTreeWhole
PROPERTIES
  BuiltFromCurrent
  CallEnds
CHECK_DEADLOCK FALSE
