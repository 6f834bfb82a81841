SPECIFICATION FairSpec
CONSTANTS
  tv = tv
  cr = cr
  Keys <- TvAndCr
  ReplaceKeys <- OnlyTv
  AckKeys <- OnlyCr
  MaxVer = 1
  MaxPkt = 9
  ReceiverIsServer = FALSE
  SendErrors = FALSE
  Duplication = FALSE
  MaxAcks = 1
  MaxLoss = 2
  PatientTimer = TRUE
INVARIANT NothingLost
INVARIANT FakeAckTruthful
PROPERTY EventuallySettled
PROPERTY HistoryDrains
CHECK_DEADLOCK FALSE
