\* Registrations only, no failures.
SPECIFICATION Spec
CONSTANTS
  Names = {"u1"}
  URLs = {"u1"}
  Versions = {""}
  NoVersion = ""
  NoName = "-"
  Overrides = {"-"}
  CardNames = {"-"}
  Procs = {p1, p2}
  DBConns = {c1}
  RetryMax = 3
  Ops = {"connect"}
  DBMayFail = FALSE
  MaxRowId = 2
  MaxRequests = 3
  MaxRestarts = 0
  NoRow = NoRow
  NoConn = NoConn
  NoURL = NoURL
PROPERTY ReconnectOverwrites
