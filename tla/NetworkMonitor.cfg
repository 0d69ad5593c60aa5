CONSTANTS
  MonitorInterval = 2
  ReconnectDelay = 3
  ShortPause = 1
  MaxDetached = 3
  GracePeriod = 7
SPECIFICATION FairSpec
INVARIANTS
  TypeOK
  SleepyMeansGraceOver
PROPERTIES
  RestartOnlyAfterDelays
  LinkModeChangesTwice
  RestartDrawsNear
  GraceEnds
  StuckIsRestarted
  IsReEnabled
