SPECIFICATION Spec
CONSTANTS
  c1 = c1
  c2 = c2
  c3 = c3
  Primary = Primary
  Null = Null
  Clients = {c1, c2}
  Names <- MCNames
  NameOf <- NamesPlain
  Configs <- DelayConfigs
  QuietSaver = TRUE
  LeaveMayFail = TRUE
  Departures = FALSE
INVARIANT DelayedInv
PROPERTY LockHolds
