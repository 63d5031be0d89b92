CONSTANTS
  whole = whole
  cut = cut
  Urls <- MCUrls
  ReadAs <- MCReadAs
  NoArg = NoArg
  SubtasksMin = 2
  SubtasksMax = 3
  EpisodeCompactionTurnThreshold = 4
  Turns <- MCTurns
  MaxTasks = 2
  MaxTurns = 3
SPECIFICATION Spec
INVARIANTS
  RefsAreCurrent
CHECK_DEADLOCK FALSE
