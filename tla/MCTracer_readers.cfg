\* A reader beside two calls to one agent, and a clock that is set back once.
SPECIFICATION TracerSpec
CONSTANTS
  Calls = {c1, c2}
  Contexts = {""}
  Texts = {""}
  AgentStates = {"", "WORKING"}
  NoText = ""
  AgentEvents <- Works
  MaxEvents = 1
  MaxCrashes = 0
  DBMayFail = FALSE
  NoTask = NoTask
  Agents = {"a", "b"}
  AgentOf <- SameAgent
  Limits <- AskedFor
  MaxClock = 2
  MaxSetbacks = 1
INVARIANTS TracerTypeOK SeenClosed RecentCalls
PROPERTIES Followed
SYMMETRY Symmetry
CHECK_DEADLOCK FALSE
