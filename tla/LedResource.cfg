CONSTANTS
  p1 = p1
  p2 = p2
  t1 = t1
  t2 = t2
  NoPeer = NoPeer
  NoToken = NoToken
  Peers <- MCPeers
  Tokens <- MCTokens
  OptionValues <- MCOptionValues
  AlarmLeds <- MCAlarmLeds
  MaxObservers = 1
  Width32 = 2
  Width24 = 2
  LedCount = 2
SPECIFICATION FairSpec
INVARIANTS
  TypeOK
  DrivenOnlyWithTimer
  SilentWhenOff
  ObserversKnow
PROPERTIES
  KeepsPromise
  PulseEnds
