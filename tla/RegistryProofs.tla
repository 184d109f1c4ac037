--------------------------- MODULE RegistryProofs ---------------------------
(***************************************************************************)
(* Proofs about Registry, for every set of agents, URLs, goroutines and    *)
(* pooled connections and every bound.                                     *)
(***************************************************************************)
EXTENDS Registry, TLAPS

(***************************************************************************)
(* The initial state has the types of TypeOK.                              *)
(***************************************************************************)
LEMMA TypeInit == Init => TypeOK
  BY RegistryAssumption
  DEF RegistryAssumption, Init, TypeOK, JobOK, PCs, Resting, Window, Job,
      NullJob, NoListing

(***************************************************************************)
(* The initial value of a job is a job.                                    *)
(***************************************************************************)
LEMMA NullJobType == NullJob \in Job
  BY RegistryAssumption DEF RegistryAssumption, Job, NullJob

(***************************************************************************)
(* A goroutine that returns keeps the types of pc and job, and what JobOK  *)
(* says of every goroutine.                                                *)
(***************************************************************************)
LEMMA ReturnType ==
  ASSUME TypeOK, NEW p \in Procs, NEW r \in Resting, Return(p, r)
  PROVE  /\ pc' \in [Procs -> PCs]
         /\ job' \in [Procs -> Job]
         /\ \A q \in Procs : JobOK(q)'
  BY NullJobType DEF TypeOK, Return, Goto, JobOK, PCs, Resting, Window

(***************************************************************************)
(* The upsert statement preserves the types of what it writes              *)
(* (agent_repo.go:119-142).                                                *)
(***************************************************************************)
LEMMA UpsertExecType ==
  ASSUME TypeOK, NEW p \in Procs, NEW c \in DBConns, NEW n \in Names,
         NEW u \in URLs, NEW v \in Versions, NEW s \in Statuses,
         UpsertExec(p, c, n, u, v, s)
  PROVE  /\ agents' \in [Names -> Row \cup {NoRow}]
         /\ nextId' \in Nat
         /\ lastRowid' \in [DBConns -> Nat]
         /\ job' \in [Procs -> Job]
         /\ job'[p].name = n /\ job'[p].url = u /\ job'[p].ver = v
         /\ \A q \in Procs \ {p} : job'[q] = job[q]
         /\ clean' \in [Procs -> BOOLEAN]
         /\ UNCHANGED <<connections, listing, settled, stable, cut>>
<1> DEFINE exists == agents[n] # NoRow
           id == IF exists THEN agents[n].id ELSE nextId
           lastId == IF exists THEN lastRowid[c] ELSE nextId
           row == [id |-> id, url |-> u, ver |-> v, status |-> s]
           j == [name |-> n, url |-> u, ver |-> v,
                 attempt |-> job[p].attempt, rowid |-> lastId]
<1>1. id \in Nat /\ lastId \in Nat
  BY DEF TypeOK, Row
<1>2. row \in Row
  BY <1>1 DEF Row
<1>3. j \in Job
  BY <1>1 DEF Job, TypeOK
<1>4. /\ agents' = [agents EXCEPT ![n] = row]
      /\ nextId' = IF exists THEN nextId ELSE nextId + 1
      /\ lastRowid' = [lastRowid EXCEPT ![c] = lastId]
      /\ job' = [job EXCEPT ![p] = j]
      /\ Opens(p, n)
      /\ UNCHANGED <<connections, listing, settled, stable, cut>>
  BY DEF UpsertExec
<1>5. j.name = n /\ j.url = u /\ j.ver = v
  OBVIOUS
<1>6. clean' \in [Procs -> BOOLEAN]
  BY <1>4, Zenon DEF Opens, TypeOK, InWindow
<1> HIDE DEF id, lastId, row, j
<1> QED
  <2>1. agents' \in [Names -> Row \cup {NoRow}]
    BY <1>2, <1>4 DEF TypeOK
  <2>2. nextId' \in Nat /\ lastRowid' \in [DBConns -> Nat]
    BY <1>1, <1>4 DEF TypeOK
  <2>3. job' \in [Procs -> Job] /\ job'[p] = j /\ \A q \in Procs \ {p} : job'[q] = job[q]
    BY <1>3, <1>4 DEF TypeOK
  <2> QED
    BY <2>1, <2>2, <2>3, <1>4, <1>5, <1>6

(***************************************************************************)
(* The upsert statement writes the row of n and no other.                  *)
(***************************************************************************)
LEMMA UpsertExecRow ==
  ASSUME TypeOK, NEW p \in Procs, NEW c \in DBConns, NEW n \in Names,
         NEW u \in URLs, NEW v \in Versions, NEW s \in Statuses,
         UpsertExec(p, c, n, u, v, s)
  PROVE  /\ agents'[n] # NoRow
         /\ agents'[n].url = u /\ agents'[n].ver = v /\ agents'[n].status = s
         /\ \A m \in Names \ {n} : agents'[m] = agents[m]
<1> DEFINE id == IF agents[n] # NoRow THEN agents[n].id ELSE nextId
           row == [id |-> id, url |-> u, ver |-> v, status |-> s]
<1>1. id \in Nat
  BY DEF TypeOK, Row
<1>2. row \in Row /\ row.url = u /\ row.ver = v /\ row.status = s
  BY <1>1 DEF Row
<1>3. agents' = [agents EXCEPT ![n] = row]
  BY DEF UpsertExec
<1> HIDE DEF row
<1> QED
  BY <1>2, <1>3, RegistryAssumption DEF RegistryAssumption, TypeOK

(***************************************************************************)
(* Every step of a registration preserves the types (registry.go:61-126).  *)
(***************************************************************************)
LEMMA TypeConnect ==
  ASSUME TypeOK, NEW p \in Procs, Connect(p)
  PROVE  TypeOK'
<1> USE RegistryAssumption DEF RegistryAssumption
<1>1. ASSUME NEW u \in URLs, NEW o \in Overrides, ConnectStart(p, u, o)
      PROVE  TypeOK'
  <2> DEFINE j == [NullJob EXCEPT !.name = o, !.url = u]
  <2>1. j \in Job /\ j.url \in URLs
    BY NullJobType DEF Job
  <2> HIDE DEF j
  <2>2. job' = [job EXCEPT ![p] = j]
    BY <1>1 DEF ConnectStart, j
  <2> QED
    BY <1>1, <2>1, <2>2 DEF ConnectStart, Begin, Goto, TypeOK, JobOK, PCs, Resting, Window, store, history
<1>2. ASSUME NEW m \in CardNames, NEW v \in Versions, FetchOk(p, m, v)
      PROVE  TypeOK'
  <2> DEFINE name == ResolveName(job[p].name, m, job[p].url)
             j == [job[p] EXCEPT !.name = name, !.ver = v]
  <2>1. job[p].url \in URLs
    BY <1>2 DEF FetchOk, TypeOK, JobOK
  <2>2. name \in Names
    BY <2>1 DEF ResolveName, TypeOK, Job
  <2>3. job' = [job EXCEPT ![p] = j]
    BY <1>2 DEF FetchOk
  <2> HIDE DEF name
  <2>4. j \in Job /\ j.name \in Names /\ j.url \in URLs
    <3>1. job[p] \in Job /\ v \in Versions
      BY <1>2 DEF TypeOK
    <3> QED
      BY <2>1, <2>2, <3>1 DEF Job
  <2> HIDE DEF j
  <2>5. /\ pc' = [pc EXCEPT ![p] = "upsert"]
        /\ UNCHANGED <<connections, agents, nextId, lastRowid, issued, restarts,
                      listing, clean, settled, stable, cut>>
    BY <1>2 DEF FetchOk, Step, Goto, store, history
  <2> QED
    BY <2>3, <2>4, <2>5 DEF TypeOK, JobOK, PCs, Resting, Window
<1>3. CASE FetchFail(p)
  <2>1. CASE job[p].attempt < RetryMax - 1
    BY <1>3, <2>1 DEF FetchFail, Step, Goto, TypeOK, JobOK, PCs, Resting, Window, store, history
  <2>2. CASE ~(job[p].attempt < RetryMax - 1)
    BY <1>3, <2>2, ReturnType DEF FetchFail, Step, TypeOK, Resting, store, history
  <2> QED BY <2>1, <2>2
<1>4. CASE Wake(p)
  <2> DEFINE j == [job[p] EXCEPT !.attempt = @ + 1]
  <2>1. /\ job' = [job EXCEPT ![p] = j]
        /\ pc' = [pc EXCEPT ![p] = "fetch"]
        /\ UNCHANGED <<connections, agents, nextId, lastRowid, issued, restarts,
                      listing, clean, settled, stable, cut>>
    BY <1>4 DEF Wake, Step, Goto, store, history, TypeOK
  <2>2. job[p].url \in URLs /\ job[p].attempt < RetryMax - 1 /\ job[p] \in Job
    BY <1>4 DEF Wake, TypeOK, JobOK
  <2>3. j \in Job /\ j.url \in URLs
    BY <2>2 DEF Job
  <2> HIDE DEF j
  <2> QED
    BY <2>1, <2>3 DEF TypeOK, JobOK, PCs, Resting, Window
<1>5. ASSUME NEW c \in DBConns, ConnectUpsert(p, c)
      PROVE  TypeOK'
  <2>1. job[p] \in Job /\ job[p].name \in Names /\ job[p].url \in URLs
    BY <1>5 DEF ConnectUpsert, TypeOK, JobOK
  <2>2. UpsertExec(p, c, job[p].name, job[p].url, job[p].ver, "connected")
    BY <1>5 DEF ConnectUpsert
  <2>3. job[p].ver \in Versions /\ "connected" \in Statuses
    BY <2>1 DEF Job, Statuses
  <2> QED
    BY <1>5, <2>1, <2>2, <2>3, UpsertExecType
    DEF ConnectUpsert, Step, Goto, TypeOK, JobOK, PCs, Resting, Window
<1>6. CASE ConnectUpsertFail(p)
  BY <1>6, ReturnType DEF ConnectUpsertFail, Step, TypeOK, Resting, store, history
<1>7. CASE Refetch(p)
  BY <1>7 DEF Refetch, Step, Goto, TypeOK, JobOK, PCs, Resting, Window, store, history
<1>8. CASE RefetchFail(p)
  BY <1>8, ReturnType DEF RefetchFail, Closes, Step, TypeOK, Resting, store
<1>9. CASE Store(p)
  <2>1. job[p].name \in Names /\ job[p].url \in URLs /\ job[p].ver \in Versions
    BY <1>9 DEF Store, TypeOK, JobOK, Window, Job
  <2>2. connections' \in [Names -> Conn \cup {NoConn}]
    BY <1>9, <2>1 DEF Store, TypeOK, Conn
  <2> QED
    BY <1>9, <2>2, ReturnType DEF Store, Closes, Step, TypeOK, Resting
<1> QED
  BY <1>1, <1>2, <1>3, <1>4, <1>5, <1>6, <1>7, <1>8, <1>9 DEF Connect

(***************************************************************************)
(* Both steps of Disconnect and DeleteAgent preserve the types             *)
(* (registry.go:129-135, 191-201).                                         *)
(***************************************************************************)
LEMMA TypeRemove ==
  ASSUME TypeOK, NEW p \in Procs, Remove(p)
  PROVE  TypeOK'
<1>1. ASSUME NEW n \in Names, NEW op, NEW next \in Window \ {"refetch", "store"},
             Begin(p, op), DropConn(p, n, next)
      PROVE  TypeOK'
  <2> DEFINE j == [NullJob EXCEPT !.name = n]
  <2>1. j \in Job /\ j.name = n
    BY NullJobType DEF Job
  <2> HIDE DEF j
  <2>2. /\ job' = [job EXCEPT ![p] = j]
        /\ pc' = [pc EXCEPT ![p] = next]
        /\ connections' = [connections EXCEPT ![n] = NoConn]
        /\ issued' = issued + 1
        /\ UNCHANGED <<agents, nextId, lastRowid, listing, settled, cut, restarts>>
    BY <1>1 DEF DropConn, Begin, Goto, j
  <2>3. clean' \in [Procs -> BOOLEAN]
    BY <1>1, Zenon DEF DropConn, Opens, InWindow, TypeOK
  <2>4. stable' \in [Procs -> SUBSET Names]
    BY <1>1 DEF DropConn, Removes, TypeOK
  <2>5. \A q \in Procs : JobOK(q)'
    BY <1>1, <2>1, <2>2 DEF TypeOK, JobOK, Window
  <2>6. pc' \in [Procs -> PCs] /\ job' \in [Procs -> Job]
    BY <1>1, <2>1, <2>2 DEF TypeOK, PCs
  <2> QED
    BY <2>2, <2>3, <2>4, <2>5, <2>6 DEF TypeOK
<1>2. ASSUME NEW n \in Names, Disconnect(p, n) \/ DeleteAgent(p, n)
      PROVE  TypeOK'
  BY <1>1, <1>2 DEF Disconnect, DeleteAgent, Window
<1>3. CASE MarkDisconnected(p)
  <2>1. job[p].name \in Names
    BY <1>3 DEF MarkDisconnected, TypeOK, JobOK, Window
  <2>2. agents' \in [Names -> Row \cup {NoRow}]
    <3> DEFINE n == job[p].name
               row == [agents[n] EXCEPT !.status = "disconnected"]
    <3>1. agents[n] # NoRow => row \in Row
      <4>1. agents[n] \in Row \cup {NoRow}
        BY <2>1 DEF TypeOK
      <4> QED
        BY <4>1 DEF Row, Statuses
    <3>2. agents' = [agents EXCEPT ![n] = IF agents[n] = NoRow THEN agents[n] ELSE row]
      BY <1>3 DEF MarkDisconnected
    <3> HIDE DEF row
    <3> QED
      BY <2>1, <3>1, <3>2 DEF TypeOK
  <2> QED
    BY <1>3, <2>2, ReturnType DEF MarkDisconnected, Closes, Step, TypeOK, Resting
<1>4. CASE MarkFail(p)
  BY <1>4, ReturnType DEF MarkFail, Closes, Step, TypeOK, Resting, store
<1>5. CASE DeleteRow(p)
  <2>1. agents' \in [Names -> Row \cup {NoRow}]
    BY <1>5 DEF DeleteRow, TypeOK
  <2>2. stable' \in [Procs -> SUBSET Names]
    BY <1>5 DEF DeleteRow, Removes, TypeOK
  <2> QED
    BY <1>5, <2>1, <2>2, ReturnType DEF DeleteRow, Closes, Step, TypeOK, Resting
<1>6. CASE DeleteFail(p)
  BY <1>6, ReturnType DEF DeleteFail, Closes, Step, TypeOK, Resting, store
<1> QED
  BY <1>2, <1>3, <1>4, <1>5, <1>6 DEF Remove

(***************************************************************************)
(* The steps of ListAgents preserve the types (registry.go:155-179).       *)
(***************************************************************************)
LEMMA TypeList ==
  ASSUME TypeOK, NEW p \in Procs, List(p)
  PROVE  TypeOK'
<1>1. ASSUME NEW read \in SUBSET Registered, ReadRows(p, read)
      PROVE  TypeOK'
  <2> DEFINE rows == [n \in Names |-> IF n \in read THEN agents[n] ELSE NoRow]
  <2>1. /\ listing' = [listing EXCEPT ![p] = rows]
        /\ stable' = [stable EXCEPT ![p] = {n \in Registered : connections[n] # NoConn}]
        /\ cut' = [cut EXCEPT ![p] = read # Registered]
        /\ pc' = [pc EXCEPT ![p] = "overlay"]
        /\ issued' = issued + 1
        /\ UNCHANGED <<connections, agents, nextId, lastRowid, job, restarts, clean, settled>>
    BY <1>1 DEF ReadRows, Begin, Goto, store
  <2>2. rows \in [Names -> Row \cup {NoRow}]
    BY DEF TypeOK
  <2> HIDE DEF rows
  <2>3. listing' \in [Procs -> [Names -> Row \cup {NoRow}]]
    BY <2>1, <2>2 DEF TypeOK
  <2>4. stable' \in [Procs -> SUBSET Names]
    BY <2>1 DEF TypeOK, Registered
  <2>5. cut' \in [Procs -> BOOLEAN]
    BY <2>1, Zenon DEF TypeOK
  <2> QED
    BY <2>1, <2>3, <2>4, <2>5 DEF TypeOK, JobOK, PCs, Resting, Window
<1>2. CASE ListFail(p)
  BY <1>2, ReturnType DEF ListFail, Begin, TypeOK, Resting, store, history
<1>3. CASE Overlay(p)
  <2>1. \A n \in Names : Overlaid(listing[p][n], connections[n]) \in Row \cup {NoRow}
    <3> TAKE n \in Names
    <3>1. listing[p][n] \in Row \cup {NoRow} /\ connections[n] \in Conn \cup {NoConn}
      BY DEF TypeOK
    <3>2. CASE listing[p][n] \in Row /\ connections[n] \in Conn
      BY <3>2 DEF Overlaid, Row, Conn, Statuses
    <3> QED
      BY <3>1, <3>2 DEF Overlaid
  <2>2. listing' \in [Procs -> [Names -> Row \cup {NoRow}]]
    BY <1>3, <2>1 DEF Overlay, TypeOK
  <2> QED
    BY <1>3, <2>2 DEF Overlay, Step, Goto, TypeOK, JobOK, PCs, Resting, Window, store, history
<1>4. CASE ListReturn(p)
  BY <1>4 DEF ListReturn, Step, Goto, TypeOK, JobOK, PCs, Resting, Window, store, NoListing
<1> QED
  BY <1>1, <1>2, <1>3, <1>4 DEF List, ListRead, ListCut

(***************************************************************************)
(* The steps of UpsertAgent preserve the types (registry.go:182-188).      *)
(***************************************************************************)
LEMMA TypeUpsert ==
  ASSUME TypeOK, NEW p \in Procs, Upsert(p)
  PROVE  TypeOK'
<1>1. ASSUME NEW c \in DBConns, NEW n \in Names, NEW u \in URLs,
             NEW s \in Statuses, UpsertAgent(p, c, n, u, s)
      PROVE  TypeOK'
  <2>1. UpsertExec(p, c, n, u, NoVersion, s) /\ NoVersion \in Versions
    BY <1>1, RegistryAssumption DEF UpsertAgent, RegistryAssumption
  <2> QED
    BY <1>1, <2>1, UpsertExecType
    DEF UpsertAgent, Begin, Goto, TypeOK, JobOK, PCs, Resting, Window
<1>2. CASE UpsertAgentFail(p)
  BY <1>2, ReturnType DEF UpsertAgentFail, Begin, TypeOK, Resting, store, history
<1>3. CASE UpsertAgentReturn(p)
  BY <1>3, ReturnType DEF UpsertAgentReturn, Closes, Step, TypeOK, Resting, store
<1> QED
  BY <1>1, <1>2, <1>3 DEF Upsert

(***************************************************************************)
(* Inserts elsewhere and a restart preserve the types.                     *)
(***************************************************************************)
LEMMA TypeProcess ==
  ASSUME TypeOK,
         \/ \E c \in DBConns, id \in 0 .. MaxRowId : OtherTraffic(c, id)
         \/ Restart
  PROVE  TypeOK'
<1>1. ASSUME NEW c \in DBConns, NEW id \in 0 .. MaxRowId, OtherTraffic(c, id)
      PROVE  TypeOK'
  BY <1>1 DEF OtherTraffic, Step, TypeOK, JobOK, history
<1>2. CASE Restart
  <2>1. /\ pc' \in [Procs -> PCs]
        /\ job' \in [Procs -> Job]
        /\ \A q \in Procs : JobOK(q)'
    BY <1>2, NullJobType DEF Restart, JobOK, PCs, Resting, Window
  <2>2. settled' \in [Names -> {"absent", "connected", "disconnected", "torn"}]
    BY <1>2 DEF Restart, TypeOK
  <2> QED
    BY <1>2, <2>1, <2>2 DEF Restart, TypeOK, NoListing
<1> QED
  BY <1>1, <1>2

(***************************************************************************)
(* Type correctness: every reachable state is well typed, and every        *)
(* registration stays within its RetryMax attempts.                        *)
(***************************************************************************)
THEOREM TypeCorrect == Spec => []TypeOK
<1>1. Init => TypeOK
  BY TypeInit
<1>2. TypeOK /\ [Next]_vars => TypeOK'
  <2> SUFFICES ASSUME TypeOK, [Next]_vars PROVE TypeOK'
    OBVIOUS
  <2>1. CASE UNCHANGED vars
    BY <2>1 DEF vars, TypeOK, JobOK
  <2>2. CASE Next
    BY <2>2, TypeConnect, TypeRemove, TypeList, TypeUpsert, TypeProcess DEF Next
  <2> QED
    BY <2>1, <2>2
<1> QED
  BY <1>1, <1>2, PTL DEF Spec

-----------------------------------------------------------------------------
(***************************************************************************)
(* The inductive invariant behind Agreement and ListComplete.  A goroutine *)
(* that is clean inside its window is alone there, and the copy it has     *)
(* already changed still is as it left it.  While p lists, the agents in   *)
(* stable[p] keep their connection, and p holds their rows if it has read  *)
(* them all.                                                               *)
(***************************************************************************)
WindowInv(p) ==
  LET n == job[p].name
  IN pc[p] \in Window /\ clean[p] =>
       /\ \A q \in Procs \ {p} : ~InWindow(q, n)
       /\ pc[p] \in {"refetch", "store"} =>
            /\ agents[n] # NoRow
            /\ agents[n].status = "connected"
            /\ agents[n].url = job[p].url
            /\ agents[n].ver = job[p].ver
       /\ pc[p] \in {"mark", "unrow"} => connections[n] = NoConn

ListInv(p) ==
  /\ pc[p] = "overlay" =>
       \A n \in stable[p] : /\ connections[n] # NoConn
                            /\ listing[p][n] # NoRow \/ cut[p]
  /\ pc[p] = "listed" =>
       \A n \in stable[p] :
         /\ listing[p][n] # NoRow \/ cut[p]
         /\ listing[p][n] # NoRow => listing[p][n].status = "connected"

IInv ==
  /\ TypeOK
  /\ \A p \in Procs : WindowInv(p)
  /\ Agreement
  /\ \A p \in Procs : ListInv(p)

(***************************************************************************)
(* A step of p outside every window that changes neither copy.             *)
(***************************************************************************)
LEMMA AsideStep ==
  ASSUME TypeOK, \A q \in Procs : WindowInv(q), Agreement,
         NEW p \in Procs, pc[p] \notin Window, pc'[p] \notin Window,
         \A q \in Procs \ {p} : pc'[q] = pc[q] /\ job'[q] = job[q],
         UNCHANGED <<connections, agents, settled, clean>>
  PROVE  (\A q \in Procs : WindowInv(q)') /\ Agreement'
<1>1. \A q \in Procs, n \in Names : InWindow(q, n)' <=> InWindow(q, n)
  BY DEF InWindow
<1>2. \A q \in Procs : WindowInv(q)'
  <2> TAKE q \in Procs
  <2>1. CASE q = p
    BY <2>1 DEF WindowInv
  <2>2. CASE q # p
    BY <2>2 DEF WindowInv, InWindow
  <2> QED
    BY <2>1, <2>2
<1>3. Agreement'
  BY <1>1 DEF Agreement, Quiet, Promised, SameAgent
<1> QED
  BY <1>2, <1>3

(***************************************************************************)
(* p opens a window on n: everyone else's clean window is on another name. *)
(***************************************************************************)
LEMMA OpenStep ==
  ASSUME TypeOK, \A q \in Procs : WindowInv(q), Agreement,
         NEW p \in Procs, NEW n \in Names, pc[p] \notin Window,
         InWindow(p, n)', Opens(p, n),
         pc'[p] = "refetch" => /\ agents'[n] # NoRow
                               /\ agents'[n].status = "connected"
                               /\ agents'[n].url = job'[p].url
                               /\ agents'[n].ver = job'[p].ver,
         pc'[p] # "store",
         pc'[p] \in {"mark", "unrow"} => connections'[n] = NoConn,
         \A q \in Procs \ {p} : pc'[q] = pc[q] /\ job'[q] = job[q],
         \A m \in Names \ {n} : agents'[m] = agents[m] /\ connections'[m] = connections[m],
         UNCHANGED settled
  PROVE  (\A q \in Procs : WindowInv(q)') /\ Agreement'
<1>1. \A q \in Procs \ {p}, m \in Names : InWindow(q, m)' <=> InWindow(q, m)
  BY DEF InWindow
<1>2. \A m \in Names \ {n} : ~InWindow(p, m)' /\ ~InWindow(p, m)
  BY DEF InWindow
<1>3. clean'[p] <=> \A r \in Procs \ {p} : ~InWindow(r, n)
  BY Zenon DEF Opens
<1>4. \A q \in Procs \ {p} : clean'[q] => clean[q] /\ ~InWindow(q, n)
  BY Zenon DEF Opens
<1>5. WindowInv(p)'
  <2>1. job'[p].name = n
    BY DEF InWindow
  <2> QED
    BY <1>1, <1>3, <2>1 DEF WindowInv
<1>6. ASSUME NEW q \in Procs \ {p} PROVE WindowInv(q)'
  <2> DEFINE m == job[q].name
  <2> SUFFICES ASSUME pc[q] \in Window, clean'[q] PROVE WindowInv(q)'
    BY DEF WindowInv
  <2>1. m \in Names \ {n} /\ clean[q]
    BY <1>4 DEF InWindow, TypeOK, JobOK
  <2>2. \A r \in Procs \ {q} : ~InWindow(r, m)
    BY <2>1 DEF WindowInv
  <2>3. \A r \in Procs \ {q} : ~InWindow(r, m)'
    BY <1>1, <1>2, <2>1, <2>2
  <2>4. agents'[m] = agents[m] /\ connections'[m] = connections[m]
    BY <2>1
  <2> QED
    BY <2>1, <2>3, <2>4 DEF WindowInv, InWindow
<1>7. ASSUME NEW m \in Names, Quiet(m)' PROVE Promised(m)'
  <2>1. m # n
    BY <1>7 DEF Quiet
  <2>2. Quiet(m)
    BY <1>1, <1>2, <1>7, <2>1 DEF Quiet
  <2> QED
    BY <2>1, <2>2 DEF Agreement, Promised, SameAgent
<1> QED
  BY <1>5, <1>6, <1>7 DEF Agreement

(***************************************************************************)
(* p closes its window on n, and leaves n as it promises: whoever is clean *)
(* in a window is there on another name.                                   *)
(***************************************************************************)
LEMMA CloseStep ==
  ASSUME TypeOK, \A q \in Procs : WindowInv(q), Agreement,
         NEW p \in Procs, NEW n \in Names, InWindow(p, n),
         pc'[p] \notin Window,
         Promised(n)',
         \A q \in Procs \ {p} : pc'[q] = pc[q] /\ job'[q] = job[q],
         \A m \in Names \ {n} : /\ agents'[m] = agents[m]
                                /\ connections'[m] = connections[m]
                                /\ settled'[m] = settled[m],
         UNCHANGED clean
  PROVE  (\A q \in Procs : WindowInv(q)') /\ Agreement'
<1>1. \A q \in Procs \ {p}, m \in Names : InWindow(q, m)' <=> InWindow(q, m)
  BY DEF InWindow
<1>2. \A m \in Names : ~InWindow(p, m)'
  BY DEF InWindow
<1>3. \A m \in Names \ {n} : ~InWindow(p, m)
  BY DEF InWindow
<1>4. ASSUME NEW q \in Procs \ {p} PROVE WindowInv(q)'
  <2> DEFINE m == job[q].name
  <2> SUFFICES ASSUME pc[q] \in Window, clean[q] PROVE WindowInv(q)'
    BY DEF WindowInv
  <2>1. m \in Names \ {n}
    BY DEF WindowInv, TypeOK, JobOK
  <2>2. \A r \in Procs \ {q} : ~InWindow(r, m)'
    BY <1>1, <1>2, <2>1 DEF WindowInv
  <2>3. agents'[m] = agents[m] /\ connections'[m] = connections[m]
    BY <2>1
  <2> QED
    BY <2>2, <2>3 DEF WindowInv, InWindow
<1>5. WindowInv(p)'
  BY DEF WindowInv
<1>6. ASSUME NEW m \in Names \ {n}, Quiet(m)' PROVE Promised(m)'
  <2>1. Quiet(m)
    BY <1>1, <1>3, <1>6 DEF Quiet
  <2> QED
    BY <2>1 DEF Agreement, Promised, SameAgent
<1> QED
  BY <1>4, <1>5, <1>6 DEF Agreement

(***************************************************************************)
(* A step of p that is not one of ListAgents, and that takes a connection  *)
(* away only from agents it takes out of every stable set.                 *)
(***************************************************************************)
LEMMA ListAside ==
  ASSUME \A q \in Procs : ListInv(q), NEW p \in Procs,
         pc'[p] \notin {"overlay", "listed"},
         \A q \in Procs \ {p} : pc'[q] = pc[q],
         UNCHANGED <<listing, cut>>,
         \A q \in Procs : stable'[q] \subseteq stable[q],
         \A q \in Procs : \A n \in stable'[q] :
            connections[n] # NoConn => connections'[n] # NoConn
  PROVE  \A q \in Procs : ListInv(q)'
  BY DEF ListInv

-----------------------------------------------------------------------------
(***************************************************************************)
(* Every step of a registration preserves the inductive invariant.         *)
(***************************************************************************)
LEMMA InvConnect ==
  ASSUME IInv, NEW p \in Procs, Connect(p)
  PROVE  IInv'
<1> USE DEF IInv
<1>0. TypeOK'
  BY TypeConnect
<1>1. ASSUME NEW u \in URLs, NEW o \in Overrides, ConnectStart(p, u, o)
      PROVE  IInv'
  <2>1. /\ pc[p] \notin Window /\ pc' = [pc EXCEPT ![p] = "fetch"]
        /\ \A q \in Procs \ {p} : pc'[q] = pc[q] /\ job'[q] = job[q]
        /\ UNCHANGED <<connections, agents, settled, clean, listing, stable, cut>>
    BY <1>1 DEF ConnectStart, Begin, Goto, store, history, Resting, Window, TypeOK
  <2>2. pc'[p] \notin Window \cup {"overlay", "listed"}
    BY <2>1 DEF TypeOK, Window
  <2> QED
    BY <1>0, <2>1, <2>2, AsideStep, ListAside
<1>2. ASSUME NEW m \in CardNames, NEW v \in Versions, FetchOk(p, m, v)
      PROVE  IInv'
  <2>1. /\ pc[p] \notin Window /\ pc' = [pc EXCEPT ![p] = "upsert"]
        /\ \A q \in Procs \ {p} : pc'[q] = pc[q] /\ job'[q] = job[q]
        /\ UNCHANGED <<connections, agents, settled, clean, listing, stable, cut>>
    BY <1>2 DEF FetchOk, Goto, store, history, Window, TypeOK
  <2>2. pc'[p] \notin Window \cup {"overlay", "listed"}
    BY <2>1 DEF TypeOK, Window
  <2> QED
    BY <1>0, <2>1, <2>2, AsideStep, ListAside
<1>3. CASE FetchFail(p) \/ Wake(p) \/ ConnectUpsertFail(p)
  <2>1. /\ pc[p] \notin Window
        /\ pc'[p] \in {"backoff", "err", "fetch"}
        /\ \A q \in Procs \ {p} : pc'[q] = pc[q] /\ job'[q] = job[q]
        /\ UNCHANGED <<connections, agents, settled, clean, listing, stable, cut>>
    BY <1>3 DEF FetchFail, Wake, ConnectUpsertFail, Return, Goto, store, history, Window, TypeOK
  <2>2. pc'[p] \notin Window \cup {"overlay", "listed"}
    BY <2>1 DEF Window
  <2> QED
    BY <1>0, <2>1, <2>2, AsideStep, ListAside
<1>4. ASSUME NEW c \in DBConns, ConnectUpsert(p, c)
      PROVE  IInv'
  <2>1. /\ pc[p] \notin Window /\ job[p].name \in Names /\ job[p].url \in URLs
        /\ job[p].ver \in Versions
    BY <1>4 DEF ConnectUpsert, Window, TypeOK, JobOK, Job
  <2> PICK n \in Names : n = job[p].name
    BY <2>1
  <2>2. UpsertExec(p, c, n, job[p].url, job[p].ver, "connected") /\ "connected" \in Statuses
    BY <1>4 DEF ConnectUpsert, Statuses
  <2>3. /\ job'[p].name = n /\ job'[p].url = job[p].url /\ job'[p].ver = job[p].ver
        /\ \A q \in Procs \ {p} : job'[q] = job[q]
        /\ UNCHANGED <<connections, listing, settled, stable, cut>>
    BY <2>1, <2>2, UpsertExecType
  <2>4. pc'[p] = "refetch" /\ \A q \in Procs \ {p} : pc'[q] = pc[q]
    BY <1>4 DEF ConnectUpsert, Goto, TypeOK
  <2>5. /\ agents'[n] # NoRow /\ agents'[n].status = "connected"
        /\ agents'[n].url = job[p].url /\ agents'[n].ver = job[p].ver
        /\ \A m \in Names \ {n} : agents'[m] = agents[m]
    BY <2>1, <2>2, UpsertExecRow
  <2>6. Opens(p, n)
    BY <2>2 DEF UpsertExec
  <2>7. InWindow(p, n)'
    BY <2>3, <2>4 DEF InWindow, Window
  <2>8. (\A q \in Procs : WindowInv(q)') /\ Agreement'
    BY <2>1, <2>3, <2>4, <2>5, <2>6, <2>7, OpenStep
  <2> QED
    BY <1>0, <2>3, <2>4, <2>8, ListAside
<1>5. CASE Refetch(p)
  <2>1. /\ pc[p] = "refetch" /\ pc'[p] = "store"
        /\ \A q \in Procs \ {p} : pc'[q] = pc[q]
        /\ UNCHANGED <<connections, agents, settled, clean, listing, stable, cut, job>>
    BY <1>5 DEF Refetch, Goto, store, history, TypeOK
  <2>2. \A q \in Procs, m \in Names : InWindow(q, m)' <=> InWindow(q, m)
    BY <2>1 DEF InWindow, Window
  <2>3. ASSUME NEW q \in Procs PROVE WindowInv(q)'
    BY <2>1 DEF WindowInv, InWindow, Window
  <2>4. Agreement'
    BY <2>1, <2>2 DEF Agreement, Quiet, Promised, SameAgent
  <2> QED
    BY <1>0, <2>1, <2>3, <2>4, ListAside
<1>6. CASE RefetchFail(p)
  <2> PICK n \in Names : n = job[p].name
    BY <1>6 DEF RefetchFail, Window, TypeOK, JobOK
  <2>1. InWindow(p, n)
    BY <1>6 DEF RefetchFail, InWindow, Window
  <2>2. /\ pc'[p] = "err" /\ Closes(p, n, "torn")
        /\ \A q \in Procs \ {p} : pc'[q] = pc[q] /\ job'[q] = job[q]
        /\ UNCHANGED <<connections, agents, listing, clean, stable, cut>>
    BY <1>6 DEF RefetchFail, Return, Goto, store, TypeOK
  <2>3. settled'[n] = "torn" /\ \A m \in Names \ {n} : settled'[m] = settled[m]
    BY <2>1, <2>2 DEF Closes, TypeOK
  <2>4. Promised(n)'
    BY <2>3 DEF Promised
  <2>5. pc'[p] \notin Window
    BY <2>2 DEF Window
  <2>6. (\A q \in Procs : WindowInv(q)') /\ Agreement'
    BY <2>1, <2>2, <2>3, <2>4, <2>5, CloseStep
  <2> QED
    BY <1>0, <2>2, <2>6, ListAside
<1>7. CASE Store(p)
  <2> PICK n \in Names : n = job[p].name
    BY <1>7 DEF Store, Window, TypeOK, JobOK
  <2> DEFINE conn == [url |-> job[p].url, ver |-> job[p].ver]
  <2>1. InWindow(p, n) /\ job[p].url \in URLs /\ job[p].ver \in Versions
    BY <1>7 DEF Store, InWindow, Window, TypeOK, JobOK, Job
  <2>2. /\ pc[p] = "store" /\ pc'[p] = "ok" /\ Closes(p, n, "connected")
        /\ connections' = [connections EXCEPT ![n] = conn]
        /\ \A q \in Procs \ {p} : pc'[q] = pc[q] /\ job'[q] = job[q]
        /\ UNCHANGED <<agents, listing, clean, stable, cut>>
    BY <1>7 DEF Store, Return, Goto, TypeOK
  <2>3. conn \in Conn /\ conn # NoConn /\ conn.url = job[p].url /\ conn.ver = job[p].ver
    BY <2>1, RegistryAssumption DEF RegistryAssumption, Conn
  <2>4. /\ settled'[n] = IF clean[p] THEN "connected" ELSE "torn"
        /\ \A m \in Names \ {n} : settled'[m] = settled[m]
    BY <2>1, <2>2 DEF Closes, TypeOK
  <2>5. connections'[n] = conn /\ \A m \in Names \ {n} : connections'[m] = connections[m]
    BY <2>1, <2>2 DEF TypeOK
  <2>6. clean[p] => /\ agents[n] # NoRow /\ agents[n].status = "connected"
                    /\ agents[n].url = job[p].url /\ agents[n].ver = job[p].ver
    BY <2>2 DEF WindowInv, Window
  <2>7. Promised(n)'
    BY <2>2, <2>3, <2>4, <2>5, <2>6 DEF Promised, SameAgent
  <2>8. pc'[p] \notin Window
    BY <2>2 DEF Window
  <2>9. (\A q \in Procs : WindowInv(q)') /\ Agreement'
    BY <2>1, <2>2, <2>4, <2>5, <2>7, <2>8, CloseStep
  <2>10. \A m \in Names : connections[m] # NoConn => connections'[m] # NoConn
    BY <2>3, <2>5
  <2>11. \A q \in Procs : stable'[q] \subseteq Names
    BY <2>2 DEF TypeOK
  <2>12. \A q \in Procs : ListInv(q)'
    BY <2>2, <2>10, <2>11, ListAside
  <2> QED
    BY <1>0, <2>9, <2>12
<1> QED
  BY <1>1, <1>2, <1>3, <1>4, <1>5, <1>6, <1>7 DEF Connect

(***************************************************************************)
(* Both steps of Disconnect and DeleteAgent preserve it.                   *)
(***************************************************************************)
LEMMA InvRemove ==
  ASSUME IInv, NEW p \in Procs, Remove(p)
  PROVE  IInv'
<1> USE DEF IInv
<1>0. TypeOK'
  BY TypeRemove
<1>1. ASSUME NEW n \in Names, NEW op, NEW next \in {"mark", "unrow"},
             Begin(p, op), DropConn(p, n, next)
      PROVE  IInv'
  <2>1. /\ pc[p] \notin Window /\ pc'[p] = next
        /\ \A q \in Procs \ {p} : pc'[q] = pc[q] /\ job'[q] = job[q]
        /\ connections' = [connections EXCEPT ![n] = NoConn]
        /\ UNCHANGED <<agents, listing, settled, cut>>
        /\ Opens(p, n) /\ Removes(n)
    BY <1>1 DEF DropConn, Begin, Goto, Resting, Window, TypeOK
  <2>2. job'[p].name = n
    <3> DEFINE j == [NullJob EXCEPT !.name = n]
    <3>1. j.name = n
      BY DEF NullJob
    <3>2. job' = [job EXCEPT ![p] = j]
      BY <1>1 DEF DropConn
    <3> HIDE DEF j
    <3> QED
      BY <3>1, <3>2 DEF TypeOK
  <2>3. InWindow(p, n)'
    BY <1>1, <2>1, <2>2 DEF InWindow, Window
  <2>4. connections'[n] = NoConn /\ \A m \in Names \ {n} : connections'[m] = connections[m]
    BY <2>1 DEF TypeOK
  <2>5. (\A q \in Procs : WindowInv(q)') /\ Agreement'
    BY <1>1, <2>1, <2>3, <2>4, OpenStep
  <2>6. \A q \in Procs : stable'[q] = stable[q] \ {n} /\ stable[q] \subseteq Names
    BY <2>1 DEF Removes, TypeOK
  <2>7. \A q \in Procs : ListInv(q)'
    BY <1>1, <2>1, <2>4, <2>6, ListAside
  <2> QED
    BY <1>0, <2>5, <2>7
<1>2. ASSUME NEW n \in Names, Disconnect(p, n) \/ DeleteAgent(p, n)
      PROVE  IInv'
  BY <1>1, <1>2 DEF Disconnect, DeleteAgent
<1>3. CASE MarkDisconnected(p)
  <2> PICK n \in Names : n = job[p].name
    BY <1>3 DEF MarkDisconnected, Window, TypeOK, JobOK
  <2> DEFINE row == IF agents[n] = NoRow THEN agents[n]
                    ELSE [agents[n] EXCEPT !.status = "disconnected"]
  <2>1. /\ pc[p] = "mark" /\ pc'[p] = "ok" /\ Closes(p, n, "disconnected")
        /\ agents' = [agents EXCEPT ![n] = row]
        /\ \A q \in Procs \ {p} : pc'[q] = pc[q] /\ job'[q] = job[q]
        /\ UNCHANGED <<connections, listing, clean, stable, cut>>
    BY <1>3 DEF MarkDisconnected, Return, Goto, TypeOK
  <2>2. InWindow(p, n) /\ pc'[p] \notin Window
    BY <2>1 DEF InWindow, Window
  <2>3. row # NoRow => row.status = "disconnected"
    <3>1. agents[n] \in Row \cup {NoRow}
      BY DEF TypeOK
    <3> QED
      BY <3>1 DEF Row
  <2>4. /\ settled'[n] = IF clean[p] THEN "disconnected" ELSE "torn"
        /\ \A m \in Names \ {n} : settled'[m] = settled[m]
    BY <2>1 DEF Closes, TypeOK
  <2>5. agents'[n] = row /\ \A m \in Names \ {n} : agents'[m] = agents[m]
    BY <2>1 DEF TypeOK
  <2>6. clean[p] => connections[n] = NoConn
    BY <2>1 DEF WindowInv, Window
  <2> HIDE DEF row
  <2>7. Promised(n)'
    BY <2>1, <2>3, <2>4, <2>5, <2>6 DEF Promised
  <2>8. (\A q \in Procs : WindowInv(q)') /\ Agreement'
    BY <2>1, <2>2, <2>4, <2>5, <2>7, CloseStep
  <2> QED
    BY <1>0, <2>1, <2>8, ListAside
<1>4. CASE MarkFail(p) \/ DeleteFail(p)
  <2> PICK n \in Names : n = job[p].name
    BY <1>4 DEF MarkFail, DeleteFail, Window, TypeOK, JobOK
  <2>1. /\ pc[p] \in {"mark", "unrow"} /\ pc'[p] \in {"ok", "err"} /\ Closes(p, n, "torn")
        /\ \A q \in Procs \ {p} : pc'[q] = pc[q] /\ job'[q] = job[q]
        /\ UNCHANGED <<connections, agents, listing, clean, stable, cut>>
    BY <1>4 DEF MarkFail, DeleteFail, Return, Goto, store, TypeOK
  <2>2. InWindow(p, n) /\ pc'[p] \notin Window \cup {"overlay", "listed"}
    BY <2>1 DEF InWindow, Window
  <2>3. settled'[n] = "torn" /\ \A m \in Names \ {n} : settled'[m] = settled[m]
    BY <2>1 DEF Closes, TypeOK
  <2>4. Promised(n)'
    BY <2>3 DEF Promised
  <2>5. (\A q \in Procs : WindowInv(q)') /\ Agreement'
    BY <2>1, <2>2, <2>3, <2>4, CloseStep
  <2> QED
    BY <1>0, <2>1, <2>2, <2>5, ListAside
<1>5. CASE DeleteRow(p)
  <2> PICK n \in Names : n = job[p].name
    BY <1>5 DEF DeleteRow, Window, TypeOK, JobOK
  <2>1. /\ pc[p] = "unrow" /\ pc'[p] = "ok" /\ Closes(p, n, "absent") /\ Removes(n)
        /\ agents' = [agents EXCEPT ![n] = NoRow]
        /\ \A q \in Procs \ {p} : pc'[q] = pc[q] /\ job'[q] = job[q]
        /\ UNCHANGED <<connections, listing, clean, cut>>
    BY <1>5 DEF DeleteRow, Return, Goto, TypeOK
  <2>2. InWindow(p, n) /\ pc'[p] \notin Window
    BY <2>1 DEF InWindow, Window
  <2>3. /\ settled'[n] = IF clean[p] THEN "absent" ELSE "torn"
        /\ \A m \in Names \ {n} : settled'[m] = settled[m]
    BY <2>1 DEF Closes, TypeOK
  <2>4. agents'[n] = NoRow /\ \A m \in Names \ {n} : agents'[m] = agents[m]
    BY <2>1 DEF TypeOK
  <2>5. clean[p] => connections[n] = NoConn
    BY <2>1 DEF WindowInv, Window
  <2>6. Promised(n)'
    BY <2>1, <2>3, <2>4, <2>5 DEF Promised
  <2>7. (\A q \in Procs : WindowInv(q)') /\ Agreement'
    BY <2>1, <2>2, <2>3, <2>4, <2>6, CloseStep
  <2>8. \A q \in Procs : stable'[q] \subseteq stable[q]
    BY <2>1 DEF Removes, TypeOK
  <2> QED
    BY <1>0, <2>1, <2>7, <2>8, ListAside
<1> QED
  BY <1>2, <1>3, <1>4, <1>5 DEF Remove

(***************************************************************************)
(* The steps of ListAgents preserve it.                                    *)
(***************************************************************************)
LEMMA InvList ==
  ASSUME IInv, NEW p \in Procs, List(p)
  PROVE  IInv'
<1> USE DEF IInv
<1>1. TypeOK'
  BY TypeList
<1>2. /\ pc[p] \notin Window /\ pc'[p] \notin Window
      /\ \A q \in Procs \ {p} : pc'[q] = pc[q] /\ job'[q] = job[q]
      /\ UNCHANGED <<connections, agents, settled, clean>>
  BY DEF List, ListRead, ListCut, ReadRows, ListFail, Overlay, ListReturn, Begin,
         Return, Goto, store, history, Resting, Window, TypeOK
<1>3. (\A q \in Procs : WindowInv(q)') /\ Agreement'
  BY <1>2, AsideStep
<1>4. ASSUME NEW q \in Procs PROVE ListInv(q)'
  <2>1. CASE q # p
    <3>1. listing'[q] = listing[q] /\ stable'[q] = stable[q] /\ cut'[q] = cut[q]
      BY <2>1 DEF List, ListRead, ListCut, ReadRows, ListFail, Overlay, ListReturn,
                  history, TypeOK
    <3> QED
      BY <1>2, <2>1, <3>1 DEF ListInv
  <2>2. ASSUME q = p, NEW read \in SUBSET Registered, ReadRows(p, read)
        PROVE  ListInv(q)'
    <3>1. /\ pc'[p] = "overlay"
          /\ \A n \in Names : listing'[p][n] = IF n \in read THEN agents[n] ELSE NoRow
          /\ stable'[p] = {n \in Registered : connections[n] # NoConn}
      BY <2>2 DEF ReadRows, Goto, TypeOK
    <3>2. cut'[p] <=> read # Registered
      BY <2>2, Zenon DEF ReadRows, TypeOK
    <3>3. ASSUME NEW n \in stable'[p]
          PROVE  connections'[n] # NoConn /\ (listing'[p][n] # NoRow \/ cut'[p])
      <4>1. n \in Registered /\ connections[n] # NoConn /\ agents[n] # NoRow /\ n \in Names
        BY <3>1, <3>3 DEF Registered
      <4>2. CASE n \in read
        BY <1>2, <3>1, <4>1, <4>2
      <4>3. CASE n \notin read
        BY <1>2, <3>2, <4>1, <4>3
      <4> QED
        BY <4>2, <4>3
    <3> QED
      BY <2>2, <3>1, <3>3 DEF ListInv
  <2>3. CASE q = p /\ (ListFail(p) \/ ListReturn(p))
    <3>1. pc'[p] \in {"err", "idle"}
      BY <2>3 DEF ListFail, ListReturn, Return, Goto, TypeOK
    <3> QED
      BY <2>3, <3>1 DEF ListInv
  <2>4. CASE q = p /\ Overlay(p)
    <3>1. /\ pc[p] = "overlay" /\ pc'[p] = "listed" /\ stable' = stable /\ cut' = cut
          /\ \A n \in Names : listing'[p][n] = Overlaid(listing[p][n], connections[n])
      BY <2>4 DEF Overlay, Goto, history, TypeOK
    <3>2. ASSUME NEW n \in stable[p]
          PROVE  /\ listing'[p][n] # NoRow \/ cut[p]
                 /\ listing'[p][n] # NoRow => listing'[p][n].status = "connected"
      <4> DEFINE row == listing[p][n]
                 new == [row EXCEPT !.status = "connected",
                                    !.ver = IF connections[n].ver # NoVersion
                                            THEN connections[n].ver ELSE row.ver]
      <4>1. connections[n] # NoConn /\ (row # NoRow \/ cut[p]) /\ n \in Names
        BY <3>1 DEF ListInv, TypeOK
      <4>2. CASE row = NoRow
        BY <3>1, <4>1, <4>2 DEF Overlaid
      <4>3. CASE row # NoRow
        <5>1. listing'[p][n] = new
          BY <3>1, <4>1, <4>3 DEF Overlaid
        <5>2. row \in Row /\ connections[n] \in Conn
          BY <4>1, <4>3 DEF TypeOK
        <5>3. new \in Row /\ new.status = "connected"
          BY <5>2 DEF Row, Conn, Statuses
        <5> QED
          BY <5>1, <5>3, RegistryAssumption DEF RegistryAssumption
      <4> QED
        BY <4>2, <4>3
    <3> QED
      BY <2>4, <3>1, <3>2 DEF ListInv
  <2> QED
    BY <2>1, <2>2, <2>3, <2>4 DEF List, ListRead, ListCut
<1> QED
  BY <1>1, <1>3, <1>4

(***************************************************************************)
(* The steps of UpsertAgent preserve it: nothing is promised of its agent. *)
(***************************************************************************)
LEMMA InvUpsert ==
  ASSUME IInv, NEW p \in Procs, Upsert(p)
  PROVE  IInv'
<1> USE DEF IInv
<1>0. TypeOK'
  BY TypeUpsert
<1>1. ASSUME NEW c \in DBConns, NEW n \in Names, NEW u \in URLs,
             NEW s \in Statuses, UpsertAgent(p, c, n, u, s)
      PROVE  IInv'
  <2>1. UpsertExec(p, c, n, u, NoVersion, s) /\ NoVersion \in Versions
    BY <1>1, RegistryAssumption DEF UpsertAgent, RegistryAssumption
  <2>2. /\ pc[p] \notin Window /\ pc'[p] = "refetch_only"
        /\ \A q \in Procs \ {p} : pc'[q] = pc[q]
    BY <1>1 DEF UpsertAgent, Begin, Goto, Resting, Window, TypeOK
  <2>3. /\ job'[p].name = n
        /\ \A q \in Procs \ {p} : job'[q] = job[q]
        /\ UNCHANGED <<connections, listing, settled, stable, cut>>
    BY <2>1, UpsertExecType
  <2>4. \A m \in Names \ {n} : agents'[m] = agents[m]
    BY <2>1, UpsertExecRow
  <2>5. InWindow(p, n)' /\ Opens(p, n)
    BY <2>1, <2>2, <2>3 DEF InWindow, Window, UpsertExec
  <2>6. (\A q \in Procs : WindowInv(q)') /\ Agreement'
    BY <2>2, <2>3, <2>4, <2>5, OpenStep
  <2> QED
    BY <1>0, <2>2, <2>3, <2>6, ListAside
<1>2. CASE UpsertAgentFail(p)
  <2>1. /\ pc[p] \notin Window /\ pc'[p] = "err"
        /\ \A q \in Procs \ {p} : pc'[q] = pc[q] /\ job'[q] = job[q]
        /\ UNCHANGED <<connections, agents, settled, clean, listing, stable, cut>>
    BY <1>2 DEF UpsertAgentFail, Begin, Return, Goto, store, history, Resting, Window, TypeOK
  <2>2. pc'[p] \notin Window \cup {"overlay", "listed"}
    BY <2>1 DEF Window
  <2> QED
    BY <1>0, <2>1, <2>2, AsideStep, ListAside
<1>3. CASE UpsertAgentReturn(p)
  <2> PICK n \in Names : n = job[p].name
    BY <1>3 DEF UpsertAgentReturn, Window, TypeOK, JobOK
  <2>1. /\ pc[p] = "refetch_only" /\ pc'[p] \in {"ok", "err"} /\ Closes(p, n, "torn")
        /\ \A q \in Procs \ {p} : pc'[q] = pc[q] /\ job'[q] = job[q]
        /\ UNCHANGED <<connections, agents, listing, clean, stable, cut>>
    BY <1>3 DEF UpsertAgentReturn, Return, Goto, store, TypeOK
  <2>2. InWindow(p, n) /\ pc'[p] \notin Window \cup {"overlay", "listed"}
    BY <2>1 DEF InWindow, Window
  <2>3. settled'[n] = "torn" /\ \A m \in Names \ {n} : settled'[m] = settled[m]
    BY <2>1 DEF Closes, TypeOK
  <2>4. Promised(n)'
    BY <2>3 DEF Promised
  <2>5. (\A q \in Procs : WindowInv(q)') /\ Agreement'
    BY <2>1, <2>2, <2>3, <2>4, CloseStep
  <2> QED
    BY <1>0, <2>1, <2>2, <2>5, ListAside
<1> QED
  BY <1>1, <1>2, <1>3 DEF Upsert

(***************************************************************************)
(* Inserts elsewhere and a restart preserve it: after a restart an agent   *)
(* that had a connection, or was being changed, is promised nothing.       *)
(***************************************************************************)
LEMMA InvProcess ==
  ASSUME IInv,
         \/ \E c \in DBConns, id \in 0 .. MaxRowId : OtherTraffic(c, id)
         \/ Restart
  PROVE  IInv'
<1> USE DEF IInv
<1>0. TypeOK'
  BY TypeProcess
<1>1. ASSUME NEW c \in DBConns, NEW id \in 0 .. MaxRowId, OtherTraffic(c, id)
      PROVE  IInv'
  <2>1. UNCHANGED <<connections, agents, pc, job, listing, clean, settled, stable, cut>>
    BY <1>1 DEF OtherTraffic, history
  <2> QED
    BY <1>0, <2>1 DEF WindowInv, InWindow, Agreement, Quiet, Promised, SameAgent, ListInv
<1>2. CASE Restart
  <2>1. \A q \in Procs : pc'[q] = "idle"
    BY <1>2 DEF Restart
  <2>2. \A q \in Procs : WindowInv(q)' /\ ListInv(q)'
    BY <2>1 DEF WindowInv, ListInv, Window
  <2>3. ASSUME NEW n \in Names PROVE Promised(n)'
    <3>1. /\ connections'[n] = NoConn /\ agents' = agents
          /\ settled'[n] = IF connections[n] # NoConn \/ \E p \in Procs : InWindow(p, n)
                           THEN "torn" ELSE settled[n]
      BY <1>2 DEF Restart
    <3>2. CASE settled'[n] = "torn"
      BY <3>2 DEF Promised
    <3>3. CASE settled'[n] # "torn"
      <4>1. connections[n] = NoConn /\ Quiet(n) /\ settled'[n] = settled[n]
        BY <3>1, <3>3 DEF Quiet
      <4>2. Promised(n)
        BY <4>1 DEF Agreement
      <4> QED
        BY <3>1, <4>1, <4>2 DEF Promised, SameAgent
    <3> QED
      BY <3>2, <3>3
  <2> QED
    BY <1>0, <2>2, <2>3 DEF Agreement
<1> QED
  BY <1>1, <1>2

(***************************************************************************)
(* IInv is an invariant of Registry.                                       *)
(***************************************************************************)
THEOREM Invariance == Spec => []IInv
<1>1. Init => IInv
  <2> SUFFICES ASSUME Init PROVE IInv
    OBVIOUS
  <2>1. TypeOK
    BY TypeInit
  <2>2. \A p \in Procs : WindowInv(p) /\ ListInv(p)
    BY DEF Init, WindowInv, ListInv, Window
  <2>3. Agreement
    BY DEF Init, Agreement, Promised
  <2> QED
    BY <2>1, <2>2, <2>3 DEF IInv
<1>2. IInv /\ [Next]_vars => IInv'
  <2> SUFFICES ASSUME IInv, [Next]_vars PROVE IInv'
    OBVIOUS
  <2>1. CASE UNCHANGED vars
    BY <2>1 DEF vars, IInv, TypeOK, JobOK, WindowInv, InWindow, Agreement,
                Quiet, Promised, SameAgent, ListInv
  <2>2. CASE Next
    BY <2>2, InvConnect, InvRemove, InvList, InvUpsert, InvProcess DEF Next
  <2> QED
    BY <2>1, <2>2
<1> QED
  BY <1>1, <1>2, PTL DEF Spec

(***************************************************************************)
(* Map and table say of every agent that nobody is changing what its last  *)
(* registration, Disconnect or DeleteAgent promised, if that ran alone and *)
(* succeeded and nothing has changed the agent since, however many         *)
(* goroutines serve requests, whichever database calls fail, and across    *)
(* restarts.                                                               *)
(***************************************************************************)
THEOREM AgreementCorrect == Spec => []Agreement
<1>1. IInv => Agreement
  BY DEF IInv
<1> QED
  BY <1>1, Invariance, PTL

(***************************************************************************)
(* ListAgents misses no agent that was registered and connected when it    *)
(* began and that nobody removed, unless reading the rows broke off, and   *)
(* never reports such an agent as anything but connected.                  *)
(***************************************************************************)
THEOREM ListCompleteCorrect == Spec => []ListComplete
<1>1. IInv => ListComplete
  BY DEF IInv, ListInv, ListComplete
<1> QED
  BY <1>1, Invariance, PTL
=============================================================================
