CONSTANTS
  Identities = {i1, i2, i3}
  NoIdentity = NoIdentity
  Sessions = {s1, s2}
  Ops = {o1}
  None = None
SPECIFICATION Spec
SYMMETRY Symmetry
INVARIANTS TypeOK NoOrphans LossIsNoticed SessionIsOfItsLease OneBinding
CHECK_DEADLOCK FALSE
