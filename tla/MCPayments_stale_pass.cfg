SPECIFICATION FairSpec
CONSTANTS
  None = None
  Payments = {p1}
  Orders = {o1}
  Keys = {k1}
  RefundKeys = {r1}
  Workers = {w1}
  Readers = {s1}
  Owed <- OwedTwo
  ProviderCaps = TRUE
  StrayErrors = FALSE
CHECK_DEADLOCK FALSE
PROPERTIES
  OnlyRefundsMoveSettled
