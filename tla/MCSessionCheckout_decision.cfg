SPECIFICATION Spec
CONSTANTS
  Tasks = {t1, t2}
  Offers = {x, y}
  Keys = {k1}
  MaxRounds = 2
  MaxDecisions = 2
  MaxLinks = 1
  None = None
SYMMETRY SessionSymmetry
INVARIANTS OrderNamesItsDecision
CHECK_DEADLOCK FALSE
