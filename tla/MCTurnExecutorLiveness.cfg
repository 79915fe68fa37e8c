SPECIFICATION LiveSpec
CONSTANTS
  Requests = {r1}
  None = None
  Records = {"text", "done"}
  MaxBody = 2
  MaxLive = 1
  MaxQueued = 2
  Kinds = {"THREAD", "FRESH", "PROJECT"}
  Locators = {a}
  MaxText = 1
PROPERTY TurnSettles
CHECK_DEADLOCK FALSE
