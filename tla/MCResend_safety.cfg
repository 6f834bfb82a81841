SPECIFICATION Spec
CONSTANTS
  tv = tv
  cr = cr
  Keys <- TvAndCr
  ReplaceKeys <- OnlyTv
  AckKeys <- OnlyCr
  MaxVer = 2
  MaxPkt = 4
  ReceiverIsServer = FALSE
  SendErrors = TRUE
  Duplication = TRUE
  MaxAcks = 1
  MaxLoss = 0
  PatientTimer = FALSE
INVARIANT TypeOK
INVARIANT HistoryTruthful
INVARIANT AtMostOnce
INVARIANT SentSizeCovers
PROPERTY NoStaleOverwrite
CHECK_DEADLOCK FALSE
