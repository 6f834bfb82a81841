SPECIFICATION Spec
CONSTANTS
  tv = tv
  cr = cr
  Keys <- OnlyTv
  ReplaceKeys <- OnlyTv
  AckKeys <- NoKeys
  MaxVer = 1
  MaxPkt = 5
  ReceiverIsServer = TRUE
  SendErrors = FALSE
  Duplication = FALSE
  MaxAcks = 1
  MaxLoss = 0
  PatientTimer = FALSE
INVARIANT AtMostOnce
CHECK_DEADLOCK FALSE
