SPECIFICATION Spec
CONSTANTS
  changer = changer
  reader = reader
  checker = checker
  Labels <- TheScripts
  Setters = {changer, reader}
  SettersOf <- TheSetters
  Checks = {checker}
  Commands <- TheCommands
  MaxEvents = 2
  MaxChecks = 2
  MaxFaults = 1
INVARIANTS
  TypeOK
  FailuresReported
  KillSwitchShown
  ChecksTellTruth
  DashboardAgrees
CHECK_DEADLOCK FALSE
