CONSTANTS
  Workers = {w1, w2}
  t1 = t1
  t5a = t5a
  t5b = t5b
  Plan <- MCPlan
  Serialized <- MCSerialized
  image = image
  flag = flag
  old = old
  new = new
  on = on
  Settings <- MCSettings
  Flags <- MCFlags
  Sources <- MCSources
  Values <- MCValues
  Configs <- MCConfigs
  Unread = Unread
  NoFile = NoFile
  Nobody = Nobody
  NoRun = NoRun
  MaxSegments = 2
SPECIFICATION MCSpec
INVARIANTS
  NoRunRecordedTwice
  PausedMeansConsistent
  SharedFolderExclusive
  OneConfigMeasured
  FinishedMeansComplete
PROPERTIES
  ReleaseSparesThePausedSegment
  LedgerSpec
  PoolEnds
CHECK_DEADLOCK FALSE
