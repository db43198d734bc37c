SPECIFICATION Spec
CONSTANTS
  Server = Server
  Clients = {c1, c2}
  MaxSwitches = 2
  MaxCopies = 4
  MaxLosses = 1
  Size <- Limits
  Files = {2}
  LocalUse = FALSE
SYMMETRY ClientSymmetry
CHECK_DEADLOCK FALSE
INVARIANTS OwnershipInv DirtyCovers OwnerPublished NothingOversized
