CONSTANTS
  p1 = p1
  p2 = p2
  t1 = t1
  NoPeer = NoPeer
  NoToken = NoToken
  Peers <- MCPeers
  Tokens <- MCTokens
  OptionValues <- MCOptionValues
  MaxObservers = 2
  Width32 = 2
  Width24 = 1
  ButtonCount = 2
SPECIFICATION FairSpec
INVARIANTS
  TypeOK
  QuietMeansCurrent
PROPERTIES
  KeepsPromise
  SettledMeansCurrent
