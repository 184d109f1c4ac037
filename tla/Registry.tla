------------------------------ MODULE Registry ------------------------------
(***************************************************************************)
(* The agent registry (internal/registry) over its SQLite table            *)
(* (internal/repository/agent_repo.go).                                    *)
(*                                                                         *)
(* The registry keeps every agent twice: a row of table "agents", which    *)
(* survives a restart, and a connection in an in-memory map, which does    *)
(* not.  The mutex protects the map only.  A request therefore touches the *)
(* two copies in two separate steps, and steps of other HTTP requests fall *)
(* between them.  Each process p is one goroutine serving requests, and    *)
(* each action below is one stretch of code between two such points.       *)
(*                                                                         *)
(* ConnectByURL, UpsertAgent: the SQL statement of Upsert and its re-fetch *)
(* are two steps.  The re-fetch looks up the row by LastInsertId, which in *)
(* SQLite belongs to the pooled connection, and which an ON CONFLICT       *)
(* update leaves as it was: lastRowid models it.                           *)
(***************************************************************************)
EXTENDS Naturals, FiniteSets

CONSTANTS
  Names,        \* agent names; a URL is a possible name (registry.go:89)
  URLs,         \* agent URLs
  Versions,     \* AgentCard versions; stands for version and description
  NoVersion,    \* the empty version
  NoName,       \* the empty name
  Overrides,    \* names a registration may ask for (NoName: none)
  CardNames,    \* names an AgentCard may carry (NoName: none)
  Procs,        \* goroutines serving requests
  DBConns,      \* connections of the database/sql pool
  RetryMax,     \* attempts of ConnectByURL
  Ops,          \* the operations the clients of this instance call
  DBMayFail,    \* whether a database call may return an error
  MaxRowId,     \* bound: ids of table agents
  MaxRequests,  \* bound: requests started
  MaxRestarts,  \* bound: process restarts
  NoRow, NoConn, NoURL

Statuses == {"connected", "disconnected", "error"}

Row == [id : Nat, url : URLs, ver : Versions, status : Statuses]
Conn == [url : URLs, ver : Versions]
Job == [name : Names \cup {NoName}, url : URLs \cup {NoURL},
        ver : Versions, attempt : 0 .. (RetryMax - 1), rowid : Nat]

AllOps == {"connect", "disconnect", "delete", "list", "upsert"}

ASSUME RegistryAssumption ==
  /\ URLs \subseteq Names
  /\ NoName \notin Names
  /\ NoURL \notin URLs
  /\ NoVersion \in Versions
  /\ Overrides \subseteq Names \cup {NoName}
  /\ CardNames \subseteq Names \cup {NoName}
  /\ RetryMax \in Nat \ {0}
  /\ Ops \subseteq AllOps
  /\ DBMayFail \in BOOLEAN
  /\ NoRow \notin Row
  /\ NoConn \notin Conn

VARIABLES
  connections,  \* [Names -> Conn or NoConn]: the map under r.mu
  agents,       \* [Names -> Row or NoRow]: table agents, name UNIQUE
  nextId,       \* AUTOINCREMENT of table agents
  lastRowid,    \* [DBConns -> Nat]: last_insert_rowid of each pooled connection
  pc,           \* [Procs -> where the goroutine stands]
  job,          \* [Procs -> Job]: the arguments and locals of its request
  listing,      \* [Procs -> [Names -> Row or NoRow]]: the rows ListAgents holds
  issued,       \* requests started so far
  restarts      \* restarts so far

(***************************************************************************)
(* History variables, which no action reads:                               *)
(*   clean[p]   nobody else was between its two steps on p's name while p  *)
(*              was between its own                                        *)
(*   settled[n] what the last change of n left, when it was a clean one    *)
(*              that succeeded: n is "connected", "disconnected" or        *)
(*              "absent"; otherwise "torn", the copies may disagree.  An   *)
(*              UpsertAgent writes one copy only and always leaves "torn"  *)
(*   stable[p]  the names that were in both copies when p began to list    *)
(*              and that nobody has removed from either since              *)
(*   cut[p]     the rows p lists are not all there were: reading them broke *)
(*              off                                                        *)
(***************************************************************************)
VARIABLES clean, settled, stable, cut

store == <<connections, agents, nextId, lastRowid>>
history == <<clean, settled, stable, cut>>
vars == <<connections, agents, nextId, lastRowid, pc, job, listing, issued,
          restarts, clean, settled, stable, cut>>

(***************************************************************************)
(* A resting goroutine serves no request: it never served one, or the last *)
(* returned without or with an error.                                      *)
(***************************************************************************)
Resting == {"idle", "ok", "err"}
\* Between the two steps of a change: one copy is written, the other is not.
Window == {"refetch", "store", "refetch_only", "mark", "unrow"}
PCs == Resting \cup Window \cup {"fetch", "backoff", "upsert", "overlay", "listed"}

NullJob == [name |-> NoName, url |-> NoURL, ver |-> NoVersion,
            attempt |-> 0, rowid |-> 0]
NoListing == [n \in Names |-> NoRow]

InWindow(p, n) == pc[p] \in Window /\ job[p].name = n
\* p opens its window on n: from now on neither p nor anyone it meets is clean.
Opens(p, n) ==
  clean' = [q \in Procs |->
              IF q = p THEN \A r \in Procs \ {p} : ~InWindow(r, n)
              ELSE clean[q] /\ ~InWindow(q, n)]
\* p closes its window on n, which leaves n as outcome says if p was clean.
Closes(p, n, outcome) ==
  settled' = [settled EXCEPT ![n] = IF clean[p] THEN outcome ELSE "torn"]
\* n has been removed from one of the copies.
Removes(n) == stable' = [q \in Procs |-> stable[q] \ {n}]

Init ==
  /\ connections = [n \in Names |-> NoConn]
  /\ agents = [n \in Names |-> NoRow]
  /\ nextId = 1
  /\ lastRowid = [c \in DBConns |-> 0]
  /\ pc = [p \in Procs |-> "idle"]
  /\ job = [p \in Procs |-> NullJob]
  /\ listing = [p \in Procs |-> NoListing]
  /\ issued = 0
  /\ restarts = 0
  /\ clean = [p \in Procs |-> FALSE]
  /\ settled = [n \in Names |-> "absent"]
  /\ stable = [p \in Procs |-> {}]
  /\ cut = [p \in Procs |-> FALSE]

-----------------------------------------------------------------------------
\* A client calls operation op; p is free to serve it.
Begin(p, op) ==
  /\ pc[p] \in Resting
  /\ op \in Ops
  /\ issued < MaxRequests
  /\ issued' = issued + 1
  /\ UNCHANGED restarts

Step == UNCHANGED <<issued, restarts>>
Goto(p, label) == pc' = [pc EXCEPT ![p] = label]
\* The request returns to the caller.
Return(p, result) ==
  /\ Goto(p, result)
  /\ job' = [job EXCEPT ![p] = NullJob]

-----------------------------------------------------------------------------
(* ConnectByURL(url, agentType, nameOverride) *)

ConnectStart(p, u, override) ==
  /\ Begin(p, "connect")
  /\ Goto(p, "fetch")
  /\ job' = [job EXCEPT ![p] = [NullJob EXCEPT !.name = override, !.url = u]]
  /\ UNCHANGED <<store, listing, history>>

\* The name the agent is registered under: override, else card, else URL.
ResolveName(override, cardName, u) ==
  IF override # NoName THEN override
  ELSE IF cardName # NoName THEN cardName
  ELSE u

\* FetchAgentCard answers with a card.
FetchOk(p, cardName, v) ==
  /\ pc[p] = "fetch"
  /\ Goto(p, "upsert")
  /\ job' = [job EXCEPT ![p] =
               [job[p] EXCEPT !.name = ResolveName(@, cardName, job[p].url), !.ver = v]]
  /\ Step
  /\ UNCHANGED <<store, listing, history>>

\* Mutant: the delay is also slept after the last attempt.
FetchFail_OneMore(p) ==
  /\ pc[p] = "fetch"
  /\ IF job[p].attempt <= RetryMax - 1
       THEN Goto(p, "backoff") /\ UNCHANGED job
       ELSE Return(p, "err")
  /\ Step
  /\ UNCHANGED <<store, listing, history>>

\* FetchAgentCard fails: sleep before the next attempt, or give up.
FetchFail(p) ==
  /\ pc[p] = "fetch"
  /\ IF job[p].attempt < RetryMax - 1
       THEN Goto(p, "backoff") /\ UNCHANGED job
       ELSE Return(p, "err")
  /\ Step
  /\ UNCHANGED <<store, listing, history>>

\* Mutant: the attempt is not counted.
Wake_NoCount(p) ==
  /\ pc[p] = "backoff"
  /\ Goto(p, "fetch")
  /\ Step
  /\ UNCHANGED <<store, job, listing, history>>

\* The back-off delay is over.
Wake(p) ==
  /\ pc[p] = "backoff"
  /\ Goto(p, "fetch")
  /\ job' = [job EXCEPT ![p] = [job[p] EXCEPT !.attempt = @ + 1]]
  /\ Step
  /\ UNCHANGED <<store, listing, history>>

(***************************************************************************)
(* INSERT ... ON CONFLICT(name) DO UPDATE on pooled connection c, which    *)
(* keeps the id of a row that exists and then does not touch c's last row  *)
(* id; LastInsertId is read from c.  p is then inside its window.          *)
(***************************************************************************)
UpsertExec(p, c, n, u, v, status) ==
  LET exists == agents[n] # NoRow
      id == IF exists THEN agents[n].id ELSE nextId
      lastId == IF exists THEN lastRowid[c] ELSE nextId
  IN /\ exists \/ nextId <= MaxRowId
     /\ agents' = [agents EXCEPT ![n] =
                     [id |-> id, url |-> u, ver |-> v, status |-> status]]
     /\ nextId' = IF exists THEN nextId ELSE nextId + 1
     /\ lastRowid' = [lastRowid EXCEPT ![c] = lastId]
     /\ job' = [job EXCEPT ![p] = [name |-> n, url |-> u, ver |-> v,
                                   attempt |-> job[p].attempt, rowid |-> lastId]]
     /\ Opens(p, n)
     /\ UNCHANGED <<connections, listing, settled, stable, cut>>

ConnectUpsert(p, c) ==
  /\ pc[p] = "upsert"
  /\ UpsertExec(p, c, job[p].name, job[p].url, job[p].ver, "connected")
  /\ Goto(p, "refetch")
  /\ Step

ConnectUpsertFail(p) ==
  /\ DBMayFail
  /\ pc[p] = "upsert"
  /\ Return(p, "err")
  /\ Step
  /\ UNCHANGED <<store, listing, history>>

\* SELECT ... FROM agents WHERE id = LastInsertId finds a row.
RefetchHits(p) ==
  \E n \in Names : agents[n] # NoRow /\ agents[n].id = job[p].rowid

Refetch(p) ==
  /\ pc[p] = "refetch"
  /\ RefetchHits(p)
  /\ Goto(p, "store")
  /\ Step
  /\ UNCHANGED <<store, job, listing, history>>

\* The re-fetch finds no row, or the query fails: ConnectByURL returns the
\* error, although its row has been written.
RefetchFail(p) ==
  /\ pc[p] = "refetch"
  /\ DBMayFail \/ ~RefetchHits(p)
  /\ Closes(p, job[p].name, "torn")
  /\ Return(p, "err")
  /\ Step
  /\ UNCHANGED <<store, listing, clean, stable, cut>>

\* r.connections[name] = conn under the lock.
Store(p) ==
  /\ pc[p] = "store"
  /\ connections' = [connections EXCEPT ![job[p].name] =
                       [url |-> job[p].url, ver |-> job[p].ver]]
  /\ Closes(p, job[p].name, "connected")
  /\ Return(p, "ok")
  /\ Step
  /\ UNCHANGED <<agents, nextId, lastRowid, listing, clean, stable, cut>>

-----------------------------------------------------------------------------
(* Disconnect(name) and DeleteAgent(name): memory first, then the row *)

\* Mutant: the connection stays in the map.
DropConn_Keeps(p, n, next) ==
  /\ Goto(p, next)
  /\ job' = [job EXCEPT ![p] = [NullJob EXCEPT !.name = n]]
  /\ Opens(p, n)
  /\ Removes(n)
  /\ UNCHANGED <<connections, agents, nextId, lastRowid, listing, settled, cut>>

DropConn(p, n, next) ==
  /\ connections' = [connections EXCEPT ![n] = NoConn]
  /\ Goto(p, next)
  /\ job' = [job EXCEPT ![p] = [NullJob EXCEPT !.name = n]]
  /\ Opens(p, n)
  /\ Removes(n)
  /\ UNCHANGED <<agents, nextId, lastRowid, listing, settled, cut>>

Disconnect(p, n) == Begin(p, "disconnect") /\ DropConn(p, n, "mark")
DeleteAgent(p, n) == Begin(p, "delete") /\ DropConn(p, n, "unrow")

\* UPDATE agents SET status = 'disconnected' WHERE name = n
MarkDisconnected(p) ==
  /\ pc[p] = "mark"
  /\ LET n == job[p].name
     IN /\ agents' = [agents EXCEPT ![n] =
                        IF @ = NoRow THEN @ ELSE [@ EXCEPT !.status = "disconnected"]]
        /\ Closes(p, n, "disconnected")
  /\ Return(p, "ok")
  /\ Step
  /\ UNCHANGED <<connections, nextId, lastRowid, listing, clean, stable, cut>>

\* The update fails; the error is dropped and Disconnect returns normally.
MarkFail(p) ==
  /\ DBMayFail
  /\ pc[p] = "mark"
  /\ Closes(p, job[p].name, "torn")
  /\ Return(p, "ok")
  /\ Step
  /\ UNCHANGED <<store, listing, clean, stable, cut>>

\* DELETE FROM agents WHERE name = n
DeleteRow(p) ==
  /\ pc[p] = "unrow"
  /\ agents' = [agents EXCEPT ![job[p].name] = NoRow]
  /\ Removes(job[p].name)
  /\ Closes(p, job[p].name, "absent")
  /\ Return(p, "ok")
  /\ Step
  /\ UNCHANGED <<connections, nextId, lastRowid, listing, clean, cut>>

DeleteFail(p) ==
  /\ DBMayFail
  /\ pc[p] = "unrow"
  /\ Closes(p, job[p].name, "torn")
  /\ Return(p, "err")
  /\ Step
  /\ UNCHANGED <<store, listing, clean, stable, cut>>

-----------------------------------------------------------------------------
(* ListAgents(): read the rows, then overlay the live connections *)

Registered == {n \in Names : agents[n] # NoRow}

\* p has read the rows of the names in read, and repo.List returns them.
ReadRows(p, read) ==
  /\ Begin(p, "list")
  /\ listing' = [listing EXCEPT ![p] =
                   [n \in Names |-> IF n \in read THEN agents[n] ELSE NoRow]]
  /\ stable' = [stable EXCEPT ![p] = {n \in Registered : connections[n] # NoConn}]
  /\ cut' = [cut EXCEPT ![p] = read # Registered]
  /\ Goto(p, "overlay")
  /\ UNCHANGED <<store, job, clean, settled>>

ListRead(p) == ReadRows(p, Registered)

\* rows.Next() ends at an error as it does after the last row, and List does
\* not ask rows.Err(): the rows so far are the list.  They come in the order
\* of their created_at, by which any row may be the first.
ListCut(p) ==
  /\ DBMayFail
  /\ \E read \in SUBSET Registered : read # Registered /\ ReadRows(p, read)

\* The query fails, or a row cannot be scanned: repo.List fails and
\* ListAgents returns nil, which GetAgents serves as an empty list.
ListFail(p) ==
  /\ DBMayFail
  /\ Begin(p, "list")
  /\ Return(p, "err")
  /\ UNCHANGED <<store, listing, history>>

\* Mutant: the status of the row is reported.
Overlaid_RowStatus(row, conn) ==
  IF row = NoRow \/ conn = NoConn THEN row
  ELSE [row EXCEPT !.ver = IF conn.ver # NoVersion THEN conn.ver ELSE @]

\* A row as ListAgents reports it beside the connection of its name.
Overlaid(row, conn) ==
  IF row = NoRow \/ conn = NoConn THEN row
  ELSE [row EXCEPT !.status = "connected",
                   !.ver = IF conn.ver # NoVersion THEN conn.ver ELSE @]

Overlay(p) ==
  /\ pc[p] = "overlay"
  /\ listing' = [listing EXCEPT ![p] =
                   [n \in Names |-> Overlaid(listing[p][n], connections[n])]]
  /\ Goto(p, "listed")
  /\ Step
  /\ UNCHANGED <<store, job, history>>

\* The handler has written the list; the goroutine is free again.
ListReturn(p) ==
  /\ pc[p] = "listed"
  /\ listing' = [listing EXCEPT ![p] = NoListing]
  /\ stable' = [stable EXCEPT ![p] = {}]
  /\ cut' = [cut EXCEPT ![p] = FALSE]
  /\ Goto(p, "idle")
  /\ Step
  /\ UNCHANGED <<store, job, clean, settled>>

-----------------------------------------------------------------------------
(* UpsertAgent(record): the row only, with the status the caller gives *)

UpsertAgent(p, c, n, u, status) ==
  /\ Begin(p, "upsert")
  /\ UpsertExec(p, c, n, u, NoVersion, status)
  /\ Goto(p, "refetch_only")

UpsertAgentFail(p) ==
  /\ DBMayFail
  /\ Begin(p, "upsert")
  /\ Return(p, "err")
  /\ UNCHANGED <<store, listing, history>>

UpsertAgentReturn(p) ==
  /\ pc[p] = "refetch_only"
  /\ \/ RefetchHits(p) /\ Return(p, "ok")
     \/ (DBMayFail \/ ~RefetchHits(p)) /\ Return(p, "err")
  /\ Closes(p, job[p].name, "torn")
  /\ Step
  /\ UNCHANGED <<store, listing, clean, stable, cut>>

-----------------------------------------------------------------------------
(* The rest of the process *)

\* A task, message or trace row is inserted on c (tables with ids of their
\* own), or the pool replaces c by a fresh connection.
OtherTraffic(c, id) ==
  /\ lastRowid[c] # id
  /\ lastRowid' = [lastRowid EXCEPT ![c] = id]
  /\ Step
  /\ UNCHANGED <<connections, agents, nextId, pc, job, listing, history>>

(***************************************************************************)
(* The process stops and starts again: goroutines, map and pool are gone,  *)
(* the table stays, and newServiceContextFromDB reads none of it back.     *)
(***************************************************************************)
Restart ==
  /\ restarts < MaxRestarts
  /\ restarts' = restarts + 1
  /\ settled' = [n \in Names |->
                   IF connections[n] # NoConn \/ \E p \in Procs : InWindow(p, n)
                   THEN "torn" ELSE settled[n]]
  /\ connections' = [n \in Names |-> NoConn]
  /\ lastRowid' = [c \in DBConns |-> 0]
  /\ pc' = [p \in Procs |-> "idle"]
  /\ job' = [p \in Procs |-> NullJob]
  /\ listing' = [p \in Procs |-> NoListing]
  /\ clean' = [p \in Procs |-> FALSE]
  /\ stable' = [p \in Procs |-> {}]
  /\ cut' = [p \in Procs |-> FALSE]
  /\ UNCHANGED <<agents, nextId, issued>>

Connect(p) ==
  \/ \E u \in URLs, o \in Overrides : ConnectStart(p, u, o)
  \/ \E m \in CardNames, v \in Versions : FetchOk(p, m, v)
  \/ FetchFail(p)
  \/ Wake(p)
  \/ \E c \in DBConns : ConnectUpsert(p, c)
  \/ ConnectUpsertFail(p)
  \/ Refetch(p)
  \/ RefetchFail(p)
  \/ Store(p)

Remove(p) ==
  \/ \E n \in Names : Disconnect(p, n) \/ DeleteAgent(p, n)
  \/ MarkDisconnected(p)
  \/ MarkFail(p)
  \/ DeleteRow(p)
  \/ DeleteFail(p)

List(p) == ListRead(p) \/ ListCut(p) \/ ListFail(p) \/ Overlay(p) \/ ListReturn(p)

Upsert(p) ==
  \/ \E c \in DBConns, n \in Names, u \in URLs, s \in Statuses :
       UpsertAgent(p, c, n, u, s)
  \/ UpsertAgentFail(p)
  \/ UpsertAgentReturn(p)

Next ==
  \/ \E p \in Procs : Connect(p) \/ Remove(p) \/ List(p) \/ Upsert(p)
  \/ \E c \in DBConns, id \in 0 .. MaxRowId : OtherTraffic(c, id)
  \/ Restart

Spec == Init /\ [][Next]_vars

(***************************************************************************)
(* Fairness: the Go scheduler runs every goroutine, the HTTP client of     *)
(* FetchAgentCard gives up after its timeout, and SQLite answers.  Nothing *)
(* forces a client to call, the process to restart or other traffic.       *)
(***************************************************************************)
Continue(p) ==
  /\ pc[p] \notin Resting
  /\ Connect(p) \/ Remove(p) \/ List(p) \/ Upsert(p)

FairSpec == Spec /\ \A p \in Procs : WF_vars(Continue(p))

-----------------------------------------------------------------------------
(***************************************************************************)
(* The name and the URL a request works on are known where it needs them.  *)
(***************************************************************************)
JobOK(p) ==
  /\ pc[p] \in Window \cup {"upsert"} => job[p].name \in Names
  /\ pc[p] \in {"fetch", "backoff", "upsert", "refetch", "store"} =>
       job[p].url \in URLs
  /\ pc[p] = "backoff" => job[p].attempt < RetryMax - 1

(***************************************************************************)
(* Every variable has its type; among others, a registration never sleeps  *)
(* after its last attempt and never makes one more than RetryMax           *)
(* (registry.go:67-76).                                                    *)
(***************************************************************************)
TypeOK ==
  /\ connections \in [Names -> Conn \cup {NoConn}]
  /\ agents \in [Names -> Row \cup {NoRow}]
  /\ nextId \in Nat
  /\ lastRowid \in [DBConns -> Nat]
  /\ pc \in [Procs -> PCs]
  /\ job \in [Procs -> Job]
  /\ listing \in [Procs -> [Names -> Row \cup {NoRow}]]
  /\ issued \in Nat
  /\ restarts \in Nat
  /\ clean \in [Procs -> BOOLEAN]
  /\ settled \in [Names -> {"absent", "connected", "disconnected", "torn"}]
  /\ stable \in [Procs -> SUBSET Names]
  /\ cut \in [Procs -> BOOLEAN]
  /\ \A p \in Procs : JobOK(p)

Quiet(n) == \A p \in Procs : ~InWindow(p, n)

\* The row of n and its connection describe the same live agent.
SameAgent(n) ==
  /\ connections[n] # NoConn
  /\ agents[n] # NoRow
  /\ agents[n].status = "connected"
  /\ agents[n].url = connections[n].url
  /\ agents[n].ver = connections[n].ver

\* What the last change of n promised, if it was clean and succeeded.
Promised(n) ==
  /\ settled[n] = "connected" => SameAgent(n)
  /\ settled[n] = "disconnected" =>
       /\ connections[n] = NoConn
       /\ agents[n] # NoRow => agents[n].status = "disconnected"
  /\ settled[n] = "absent" => connections[n] = NoConn /\ agents[n] = NoRow

(***************************************************************************)
(* Registering an agent, Disconnect and DeleteAgent write map and table in *)
(* two steps with the lock released in between.  Each of them that meets   *)
(* no other change of its agent, fails nowhere and is not cut off by a     *)
(* restart leaves both copies saying what it promises, whatever they said  *)
(* before, and they stay so until the next change (registry.go:108-123,    *)
(* 129-135, 191-201).  Of an agent whose last change overlapped another,   *)
(* failed, or was UpsertAgent, which writes the row alone even when all    *)
(* goes well, it says nothing.                                             *)
(***************************************************************************)
Agreement == \A n \in Names : Quiet(n) => Promised(n)

(***************************************************************************)
(* An agent that was registered and connected when ListAgents began, and   *)
(* that nobody removes meanwhile, is in the list, whatever else happens to *)
(* it meanwhile; and if it is, then as connected, whatever a late          *)
(* UpdateStatus of an earlier Disconnect wrote in its row                  *)
(* (registry.go:155-179).  Only a list whose rows could not all be read    *)
(* may miss it: it is returned like any other (agent_repo.go:93-116).      *)
(***************************************************************************)
ListComplete ==
  \A p \in Procs : pc[p] = "listed" =>
    \A n \in stable[p] : /\ listing[p][n] # NoRow \/ cut[p]
                         /\ listing[p][n] # NoRow => listing[p][n].status = "connected"

(***************************************************************************)
(* Every request returns: the retry loop of ConnectByURL ends, whichever   *)
(* fetches, database calls and restarts come between (registry.go:67-76).  *)
(* The mutex is taken and released within a step, so that waiting for it   *)
(* is not part of the model.                                               *)
(***************************************************************************)
RequestsReturn ==
  \A p \in Procs : pc[p] \notin Resting ~> pc[p] \in Resting

-----------------------------------------------------------------------------
(* What comments, tests and docs say, and the code does not do.            *)

(***************************************************************************)
(* registry.go:190: "DeleteAgent removes an agent from memory and the      *)
(* database."  An agent without a row, which nobody is changing, has no    *)
(* connection in memory.                                                   *)
(***************************************************************************)
NoGhost == \A n \in Names : Quiet(n) /\ agents[n] = NoRow => connections[n] = NoConn

(***************************************************************************)
(* registry_test.go:176: "Connect same agent again - should overwrite".    *)
(* Without database failures, registering fails after its row was written  *)
(* only if someone has deleted the row in the meantime.                    *)
(***************************************************************************)
ReconnectOverwrites ==
  [][\A p \in Procs : pc[p] = "refetch" /\ pc'[p] = "err"
       => agents[job[p].name] = NoRow]_vars

(***************************************************************************)
(* 2026-05-14-a2a-platform-design.md:104: "list_agents() -> cross-check    *)
(* DB + memory connections".  ListAgents reports as connected only agents  *)
(* that are connected when it looks at the map, save those that somebody   *)
(* is registering or removing at that moment.                              *)
(***************************************************************************)
ListCrossChecked ==
  [][\A p \in Procs, n \in Names :
       /\ pc[p] = "overlay" /\ pc'[p] = "listed"
       /\ listing'[p][n] # NoRow
       /\ listing'[p][n].status = "connected"
       /\ Quiet(n)
       => connections[n] # NoConn]_vars
=============================================================================
