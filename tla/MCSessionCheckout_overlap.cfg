SPECIFICATION Spec
CONSTANTS
  Tasks = {t1, t2, t3}
  Offers = {x, y}
  Keys = {k1}
  MaxRounds = 2
  MaxDecisions = 3
  MaxLinks = 2
  None = None
SYMMETRY SessionSymmetry
INVARIANTS OrderOwesWhatItsLinkAsks OrderWasApproved
CHECK_DEADLOCK FALSE
