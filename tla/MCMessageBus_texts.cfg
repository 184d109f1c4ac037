\* One call, no faults, replies of up to three events with texts or states.
SPECIFICATION FairSpec
CONSTANTS
  Calls = {c1}
  Contexts = {"", "x"}
  Texts = {"", "t1", "t2"}
  AgentStates = {"", "WORKING", "COMPLETED", "FAILED"}
  NoText = ""
  AgentEvents <- Spoke
  MaxEvents = 3
  MaxCrashes = 0
  DBMayFail = FALSE
  NoTask = NoTask
INVARIANTS ResponsePrecedence
PROPERTIES TaskCloses ImplementsLedger
CHECK_DEADLOCK FALSE
