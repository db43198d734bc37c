SPECIFICATION FairSpec
CONSTANTS
  c1 = c1
  c2 = c2
  c3 = c3
  Primary = Primary
  Null = Null
  Clients = {c1, c3}
  Names <- MCNames
  NameOf <- NamesPlain
  Configs <- RefusableConfigs
  QuietSaver = FALSE
  LeaveMayFail = TRUE
  Departures = TRUE
INVARIANTS OwnedOnce IdleReported SaverRemembered
PROPERTY ClosingEnds
