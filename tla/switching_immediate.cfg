SPECIFICATION Spec
CONSTANTS
  c1 = c1
  c2 = c2
  c3 = c3
  Primary = Primary
  Null = Null
  Clients = {c1, c2, c3}
  Names <- MCNames
  NameOf <- NamesPlain
  Configs <- ImmediateConfigs
  QuietSaver = TRUE
  LeaveMayFail = FALSE
  Departures = TRUE
INVARIANTS TypeOK RegistryConsistent ActiveConnected OneEntered ScreensInformed
