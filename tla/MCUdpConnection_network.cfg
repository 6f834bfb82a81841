SPECIFICATION Spec
CONSTANTS
  MaxAttempts = 2
  MaxPkt = 3
  MaxLoss = 0
  Duplication = TRUE
  Patient = FALSE
  CloseRequests = TRUE
  Scales <- TwoScales
  FcMethods <- TwoMethods
  Compressions <- TwoCompressions
CHECK_DEADLOCK FALSE
INVARIANT TypeOK
INVARIANT OpenTogether
INVARIANT LastIsSent
INVARIANT NegotiatedAgree
INVARIANT TeardownComplete
