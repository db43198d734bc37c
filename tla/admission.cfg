SPECIFICATION FairSpec
CONSTANTS
  Conns = {a, b}
  Replies <- SupportedReplies
  MaxChats = 1
CHECK_DEADLOCK FALSE
INVARIANTS AdmissionInv WaitingAnnounced
 
