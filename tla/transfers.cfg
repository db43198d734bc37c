SPECIFICATION Spec
CONSTANTS
  Clients = {c1, c2}
  Server = s
  Files = {f}
  Pieces <- TwoChunks
  None = none
  MaxDrags = 1
  MaxSends = 2
  MaxMoves = 2
  MaxQueue = 1
INVARIANTS TransferInv 
SYMMETRY Symmetry
CHECK_DEADLOCK FALSE
