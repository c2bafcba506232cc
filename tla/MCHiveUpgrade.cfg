\* The manager of an older hive, a command and a reader of newer ones, and one stall.
SPECIFICATION UpgradeSpec
CONSTANTS
  manager = manager
  newCommand = newCommand
  reader = reader
  change1 = change1
  change2 = change2
  Nobody = Nobody
  Closed = Closed
  Proc <- Processes
  Daemon <- OldManager
  Update <- TwoChanges
  MaxStalls = 1
  LoadsFail = TRUE
  Reader <- Readers
  VersionOf <- Versions
  Made <- SomeVersions
INVARIANTS OneSessionAtATime EveryHiveOpensIt ValuesStayInTheirColumns
PROPERTIES SessionsAreSerial SavedChangesStay LockComesFree
