SPECIFICATION Spec
CONSTANTS
  Auths = {a1}
  Actions = {charge, refund}
  People = {ann, bob, cid}
  Tasks = {t1, t2}
  Quorum = 1
  None = None
INVARIANTS FourEyesWhenWhole
PROPERTIES ImplementsSingleUse
CHECK_DEADLOCK FALSE
