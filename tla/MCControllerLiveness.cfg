CONSTANTS
  Reqs = {r1, r2}
  Handles = {h1}
  Locators = {l1}
  Identities = {idA, idB}
  NoIdentity = NoIdentity
  None = None
  MaxOutstanding = 2
  MaxGeneration = 2
SPECIFICATION FairSpec
PROPERTIES EveryCallSettles
CHECK_DEADLOCK FALSE
