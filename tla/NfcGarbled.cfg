CONSTANTS
  d1 = d1
  hollow = hollow
  NoData = NoData
  Garbled = Garbled
  Datasets <- MCDatasets
  Networks <- MCNetworks
SPECIFICATION FairSpec
INVARIANT OnlyWholeDatasets
