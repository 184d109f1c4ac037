\* Listing after a restart, no failures.
SPECIFICATION Spec
CONSTANTS
  Names = {"u1"}
  URLs = {"u1"}
  Versions = {""}
  NoVersion = ""
  NoName = "-"
  Overrides = {"-"}
  CardNames = {"-"}
  Procs = {p1, p2}
  DBConns = {c1}
  RetryMax = 3
  Ops = {"connect", "list"}
  DBMayFail = FALSE
  MaxRowId = 2
  MaxRequests = 3
  MaxRestarts = 1
  NoRow = NoRow
  NoConn = NoConn
  NoURL = NoURL
PROPERTY ListCrossChecked
