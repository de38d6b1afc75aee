SPECIFICATION FairSpec
CONSTANTS
  None = None
  Payments = {p1, p2}
  Orders = {o1}
  Keys = {k1, k2}
  RefundKeys = {r1}
  Workers = {w1}
  Readers = {}
  Owed <- OwedTwo
  ProviderCaps = TRUE
  StrayErrors = FALSE
CHECK_DEADLOCK FALSE
PROPERTIES
  OnlyRefundsMoveSettled
  DecidedPaymentsResolved
