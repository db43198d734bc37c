SPECIFICATION Spec
CONSTANTS
  Clients = {c1, c2}
  Server = s
  Locals = {"La", "LA", "Lshift", "Lctrl"}
  Layout <- SmallLayout
  Tables <- IdentityOrSwap
  Broadcasts <- ToAll
  MaxWire = 1
INVARIANTS KeyStateInv NothingLeftDown
CONSTRAINT NoneExcused
SYMMETRY Symmetry
CHECK_DEADLOCK FALSE
