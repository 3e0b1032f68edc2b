SPECIFICATION FairSpec
CONSTANTS
  Worker = {w1, w2}
  Keys = {TRUE, FALSE}
  Verdicts = {"keep", "drop", "custom", "lost", "skip", "defer"}
  Events = {"discard", "restore", "delete", "merge", "cutover", "route", "open", "legacy"}
  MaxAttempts = 2
  MaxFaults = 2
  MaxTouches = 1
INVARIANTS
  TypeOK
  ProjectionIsExact
  EpochsAreUnique
  EndsTruthfully
PROPERTIES
  TerminalIsFinal
  RecoveryEnds
CHECK_DEADLOCK FALSE
