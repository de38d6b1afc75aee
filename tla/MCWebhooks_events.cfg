SPECIFICATION FairSpec
CONSTANTS
  Events = {e1, e2}
  Orders = {o1}
  Handlers = {h1,h2}
  Sweepers = {s1}
  MaxRaises = 1
  None = None
INVARIANTS PaidForWhatIsOwed ProcessedIsApplied
PROPERTIES PaidIsFinal ClaimedIsProcessed
CHECK_DEADLOCK FALSE
