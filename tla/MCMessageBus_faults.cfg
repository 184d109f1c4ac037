\* One call, every sort of event, every write may fail and the process may stop.
SPECIFICATION Spec
CONSTANTS
  Calls = {c1}
  Contexts = {"", "x"}
  Texts = {"", "t1", "t2"}
  AgentStates = {"", "WORKING", "COMPLETED", "FAILED"}
  NoText = ""
  AgentEvents <- AllSorts
  MaxEvents = 2
  MaxCrashes = 1
  DBMayFail = TRUE
  NoTask = NoTask
INVARIANTS TypeOK Outcome TraceShape StatusChain
PROPERTIES ImplementsLedger
CHECK_DEADLOCK FALSE
