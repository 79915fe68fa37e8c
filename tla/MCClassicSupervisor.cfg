CONSTANTS
  Identities = {i1, i2, i3}
  NoIdentity = NoIdentity
  Ops = {o1, o2}
  Probes = {p1, p2}
  MaxRefused = 1

SPECIFICATION Spec
SYMMETRY Symmetry
INVARIANTS
  TypeOK
  NoLeaseWhileStopping
PROPERTIES
  StopIsVerified
  LaunchedIsNew
  ReplacementIsFinal
CHECK_DEADLOCK FALSE
