CONSTANTS
  d1 = d1
  n1 = n1
  None = None
  UnknownNotice = UnknownNotice
  Goals <- MCGoals
  Dismissals <- MCDismissals
  Notices <- MCNotices
  MaxDocs = 1
  MaxNodes = 2
SPECIFICATION Spec
INVARIANTS
  TypeOK
  ReadyIsEarned
  OneDismissal
  InputIsAccountedFor
