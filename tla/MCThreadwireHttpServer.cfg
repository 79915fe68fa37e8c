CONSTANTS
  Reqs = {r1, r2, r3}
  Handles = {h1, h2}
  Locators = {l1, l2}
  Identities = {idA, idB}
  NoIdentity = NoIdentity
  None = None
  MaxOutstanding = 2
  MaxGeneration = 2
  MaxInflight = 2
SPECIFICATION HttpSpec
INVARIANTS HttpTypeOK CommittedMeansDelivered NoMutationUnderTaintedLease PendingCompletionExcludesMutations
SYMMETRY Symmetry
CHECK_DEADLOCK FALSE
