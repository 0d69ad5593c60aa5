CONSTANTS
  MonitorInterval = 1
  ReconnectDelay = 2
  ShortPause = 1
  MaxDetached = 6
  GracePeriod = 24
SPECIFICATION FairSpec
PROPERTY
  RestartOnlyAfterAMinute
