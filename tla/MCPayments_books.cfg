SPECIFICATION Spec
CONSTANTS
  None = None
  Payments = {p1, p2}
  Orders = {o1}
  Keys = {k1}
  RefundKeys = {r1, r2}
  Workers = {w1}
  Readers = {s1}
  Owed <- OwedTwo
  ProviderCaps = TRUE
  StrayErrors = TRUE
SYMMETRY PaymentSymmetry
CHECK_DEADLOCK FALSE
INVARIANTS
  SettledMeansCharged
  FailedMeansNotCharged
  ChargedOncePerKey
  ReplayIsTheTakenPayment
  RefundsNotOverstated
