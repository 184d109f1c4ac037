\* A chat beside two goroutines that register, disconnect and delete its agent.
SPECIFICATION HostFairSpec
CONSTANTS
  Names = {"a", "u1", "u2"}
  URLs = {"u1", "u2"}
  Versions = {""}
  NoVersion = ""
  NoName = "-"
  Overrides = {"a"}
  CardNames = {"-"}
  Procs = {p1, p2}
  DBConns = {c1}
  RetryMax = 1
  Ops = {"connect", "disconnect", "delete"}
  DBMayFail = TRUE
  MaxRowId = 1
  MaxRequests = 2
  MaxRestarts = 1
  NoRow = NoRow
  NoConn = NoConn
  NoURL = NoURL
  Calls = {k1}
  Texts = {"", "t1"}
  AgentStates = {"", "WORKING"}
  NoText = ""
  AgentEvents <- Works
  MaxEvents = 1
  NoTask = NoTask
INVARIANTS HostTypeOK Told
PROPERTIES Routed ChatsEnd
CHECK_DEADLOCK FALSE
