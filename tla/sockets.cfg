SPECIFICATION Spec
CONSTANTS
  Writers = {"log"}
  MaxIn = 1
INVARIANTS JobsInv ReaderTold
PROPERTIES ChangesEnd FlushReturns
CHECK_DEADLOCK FALSE
