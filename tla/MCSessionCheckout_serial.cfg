SPECIFICATION Spec
CONSTANTS
  Tasks = {t1}
  Offers = {x, y}
  Keys = {k1, k2}
  MaxRounds = 2
  MaxDecisions = 4
  MaxLinks = 3
  None = None
SYMMETRY SessionSymmetry
INVARIANTS OrderNamesItsDecision PendingOrderIsTheQuote
CHECK_DEADLOCK FALSE
