SPECIFICATION FairSpec
CONSTANTS
  MaxFaults = 3
  session = session
  other = other
  Procs = {session, other}
  KindsOf <- TheKinds
  NoOwner = NoOwner
  ArgumentsOf <- TheArguments
  MaxFailures = 2
  MaxCycles = 0
  MaxMishaps = 1
INVARIANTS
  TypeOK
  SellsFirst
  TradesOnlyPrepared
  EndsCleanly
PROPERTIES
  GivesUpForARow
  ScriptsEnd
CHECK_DEADLOCK FALSE
