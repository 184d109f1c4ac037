\* Every operation, four requests, the shipped number of attempts: every
\* request returns.
SPECIFICATION FairSpec
CONSTANTS
  Names = {"u1"}
  URLs = {"u1"}
  Versions = {""}
  NoVersion = ""
  NoName = "-"
  Overrides = {"-"}
  CardNames = {"-"}
  Procs = {p1, p2}
  DBConns = {c1}
  RetryMax = 3
  Ops = {"connect", "disconnect", "delete", "list", "upsert"}
  DBMayFail = TRUE
  MaxRowId = 2
  MaxRequests = 4
  MaxRestarts = 1
  NoRow = NoRow
  NoConn = NoConn
  NoURL = NoURL
PROPERTIES RequestsReturn
