\* Three requests in flight on two agents and two URLs: registrations,
\* removals and listings, database failures and one restart.
SPECIFICATION Spec
CONSTANTS
  Names = {"a", "u1", "u2"}
  URLs = {"u1", "u2"}
  Versions = {"", "v1"}
  NoVersion = ""
  NoName = "-"
  Overrides = {"-"}
  CardNames = {"a", "-"}
  Procs = {p1, p2, p3}
  DBConns = {c1}
  RetryMax = 1
  Ops = {"connect", "disconnect", "delete", "list"}
  DBMayFail = TRUE
  MaxRowId = 2
  MaxRequests = 3
  MaxRestarts = 1
  NoRow = NoRow
  NoConn = NoConn
  NoURL = NoURL
SYMMETRY Symmetry
INVARIANTS TypeOK Agreement ListComplete
