CONSTANTS
  Ops = {o1, o2, o3}
  Identities = {idA, idB}
  NoIdentity = NoIdentity
  NoLease = NoLease
  MaxGeneration = 2
SPECIFICATION FairSpec
INVARIANTS TypeOK NoOverlap NoRunUnderTaintedLease
PROPERTIES SettledIsFinal EveryOperationSettles
CHECK_DEADLOCK FALSE
