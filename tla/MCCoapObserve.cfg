CONSTANTS
  p1 = p1
  p2 = p2
  p3 = p3
  t1 = t1
  t2 = t2
  NoPeer = NoPeer
  NoToken = NoToken
  Peers <- MCPeers
  Tokens <- MCTokens
  OptionValues <- MCOptionValues
  MaxObservers = 2
  Width32 = 4
  Width24 = 2
SPECIFICATION TableSpec
INVARIANTS
  TableTypeOK
  CountMatches
  OneSlotPerPeer
  NumberedReachSubscribers
PROPERTY
  KeepsPromise
