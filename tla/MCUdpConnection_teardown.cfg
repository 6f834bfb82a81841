SPECIFICATION FairSpec
CONSTANTS
  MaxAttempts = 3
  MaxPkt = 4
  MaxLoss = 1
  Duplication = FALSE
  Patient = TRUE
  CloseRequests = TRUE
  Scales <- OneScale
  FcMethods <- OneMethod
  Compressions <- OneCompression
CHECK_DEADLOCK FALSE
PROPERTY BothEnd
