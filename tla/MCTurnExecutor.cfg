SPECIFICATION Spec
CONSTANTS
  Requests = {r1, r2}
  None = None
  Records = {"text", "done"}
  MaxBody = 3
  MaxLive = 1
  MaxQueued = 2
  Kinds = {"THREAD", "FRESH", "PROJECT"}
  Locators = {a, b}
  MaxText = 2
SYMMETRY Symmetry
INVARIANTS TypeOK SettlesAfterTheWrite SuccessIsWhole
PROPERTIES ProjectTurnsFailClosed CancellationEndsTheStream RefinesContract
CHECK_DEADLOCK FALSE
