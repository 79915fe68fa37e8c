SPECIFICATION Spec
CONSTANTS
  Requests = {r1}
  None = None
  Records = {"text", "done"}
  MaxBody = 3
  MaxLive = 1
  MaxQueued = 2
  Kinds = {"THREAD", "FRESH", "PROJECT"}
  Locators = {a, b}
  MaxText = 2
PROPERTY DeltasMayBeAbsent
CHECK_DEADLOCK FALSE
