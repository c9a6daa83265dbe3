CONSTANTS
  Default <- MCDefault
  Inputs <- MCInputs
  Client = {c1, c2}
SPECIFICATION RunFairSpec
INVARIANTS
  RunTypeOK
  StopsAfterItsClients
PROPERTIES
  LoadsWhatIsWellFormed
  SettingsPriority
  ServesWhenReady
  CleanExit
  ShutdownEnds
  ProbesGoOn
CHECK_DEADLOCK FALSE
