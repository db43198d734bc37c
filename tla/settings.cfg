SPECIFICATION Spec
CONSTANTS
  Procs = {p1, p2}
  Keys = {port, language}
  Portable = {port, language}
  None = None
  MaxSaves = 2
  MaxFaults = 1
  MaxCrashes = 2
INVARIANTS RecoveryInv WholeVersion
PROPERTY OverwritesOwnOnly
SYMMETRY Symmetry
CHECK_DEADLOCK FALSE
