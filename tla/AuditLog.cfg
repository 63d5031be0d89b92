CONSTANTS
  MaxLines = 2
  MaxEntries = 8
  MaxDays = 3
  MaxKills = 3
SPECIFICATION AuditSpec
INVARIANTS
  NothingLost
  ReadBackExactly
  KillsCostLittle
CHECK_DEADLOCK FALSE
