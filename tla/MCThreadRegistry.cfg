CONSTANTS
  Handles = {h1, h2}
  Locators = {l1, l2}
  Transactions = {t1, t2, t3}
  Waiters = {w1, w2}
  None = None
SPECIFICATION Spec
INVARIANTS TypeOK MapsAgree WaitersAreToldTheTruth
PROPERTIES HandlesAreStable
SYMMETRY Symmetry
CHECK_DEADLOCK FALSE
