CONSTANTS
  d1 = d1
  hollow = hollow
  NoData = NoData
  Garbled = Garbled
  Datasets <- MCDatasets
  Networks <- MCNetworks
SPECIFICATION FairSpec
INVARIANTS
  TypeOK
  MutexHeldAroundApi
  NeverWithoutDataset
  SuccessMeansStarted
  SlowBlinkWhileWaiting
  AbortOnlyByLateMessage
  BlinkStaysOff
PROPERTIES
  RetryEndsTheWait
  KeepsPromise
  WholeWhileAnnounced
