SPECIFICATION Spec
CONSTANTS
  Requests = {r1, r2}
  None = None
  Records = {"text", "done", "half", "bad"}
  MaxBody = 3
  MaxLive = 2
  MaxQueued = 2
SYMMETRY Symmetry
INVARIANTS TypeOK FinishedIsTheWrite SettledWriteClosesTheStream TextIsInOrder CompletedIsWhole
