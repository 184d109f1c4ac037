-------------------------------- MODULE Host --------------------------------
(***************************************************************************)
(* The host as one process: the registry and the message bus behind the    *)
(* route POST /api/chat (internal/handler/chat.go), wired together by      *)
(* newServiceContextFromDB (internal/svc/servicecontext.go).               *)
(*                                                                         *)
(* A chat looks its agent up in the registry's map once and then uses the  *)
(* client it got, whatever becomes of the agent; registrations and         *)
(* removals go on beside it.  Its HTTP request may end before it does: the *)
(* server's own Timeout (etc/host.yaml) answers 503, or the caller leaves, *)
(* and the handler's goroutine works on, because nothing it calls takes a  *)
(* context.  A restart ends everything but the tables.                     *)
(*                                                                         *)
(* Contexts and failures of the bus's writes are MessageBus's subject and  *)
(* left out here; database failures of the registry are in.                *)
(***************************************************************************)
EXTENDS Registry

CONSTANTS
  Calls, Texts, AgentStates, NoText, AgentEvents, MaxEvents, NoTask

VARIABLES
  tasks, messages, trace, loc, lost,  \* of MessageBus
  stage,   \* [Calls -> where SendStreaming stands]: pc of MessageBus
  target,  \* [Calls -> Names or NoName]: agent_name of the chat
  client,  \* [Calls -> URLs or NoURL]: the base URL of the client it got
  http     \* [Calls -> what the caller of the chat has been answered]

Bus == INSTANCE MessageBus WITH
  Contexts <- {NoText}, DBMayFail <- FALSE, MaxCrashes <- MaxRestarts,
  pc <- stage, crashes <- restarts

ASSUME HostAssumption ==
  /\ NoText \in Texts /\ NoText \in AgentStates
  /\ AgentEvents \subseteq Bus!Event
  /\ MaxEvents \in Nat
  /\ NoTask \notin Bus!TaskRow

busVars == <<tasks, messages, trace, stage, loc, lost>>
chatVars == <<target, client, http>>
hostVars == <<vars, busVars, chatVars>>

\* "invalid" is 400, "unavailable" 503; "events" and "error" are streams.
Answers == {"invalid", "events", "error", "unavailable", "gone"}

HostInit ==
  /\ Init
  /\ Bus!Init
  /\ target = [c \in Calls |-> NoName]
  /\ client = [c \in Calls |-> NoURL]
  /\ http = [c \in Calls |-> "none"]

-----------------------------------------------------------------------------
(* POST /api/chat *)

\* agent_name or message is missing.
Invalid(c) ==
  /\ http[c] = "none"
  /\ http' = [http EXCEPT ![c] = "invalid"]
  /\ UNCHANGED <<vars, busVars, target, client>>

\* Mutant: the client is made from the row, whatever its status.
Chat_FromRow(c, n) ==
  LET row == agents[n]
  IN /\ http[c] = "none"
     /\ http' = [http EXCEPT ![c] = "open"]
     /\ target' = [target EXCEPT ![c] = n]
     /\ client' = [client EXCEPT ![c] = IF row = NoRow THEN NoURL ELSE row.url]
     /\ Bus!Lookup(c, NoText)
     /\ Bus!Goto(c, IF row = NoRow THEN "refused" ELSE "create")
     /\ UNCHANGED vars

\* Mutant: the client is not looked at.
Chat_NoNilCheck(c, n) ==
  LET conn == connections[n]
  IN /\ http[c] = "none"
     /\ http' = [http EXCEPT ![c] = "open"]
     /\ target' = [target EXCEPT ![c] = n]
     /\ client' = [client EXCEPT ![c] = IF conn = NoConn THEN NoURL ELSE conn.url]
     /\ Bus!Lookup(c, NoText)
     /\ Bus!Goto(c, "create")
     /\ UNCHANGED vars

\* A chat arrives and looks up the client of its agent under the map's lock.
Chat(c, n) ==
  LET conn == connections[n]
  IN /\ http[c] = "none"
     /\ http' = [http EXCEPT ![c] = "open"]
     /\ target' = [target EXCEPT ![c] = n]
     /\ client' = [client EXCEPT ![c] = IF conn = NoConn THEN NoURL ELSE conn.url]
     /\ Bus!Lookup(c, NoText)
     /\ Bus!Goto(c, IF conn = NoConn THEN "refused" ELSE "create")
     /\ UNCHANGED vars

\* The call goes on, with or without somebody who waits for it.
Serve(c) ==
  /\ Bus!Send(c) \/ Bus!Replay(c) \/ Bus!Close(c)
  /\ UNCHANGED <<vars, chatVars>>

\* Mutant: the error of SendStreaming is not looked at.
Answer_NoCheck(c) ==
  /\ http[c] = "open"
  /\ stage[c] \in Bus!Returned
  /\ http' = [http EXCEPT ![c] = "events"]
  /\ UNCHANGED <<vars, busVars, target, client>>

\* SendStreaming has returned; its events, or one error event, are written.
Answer(c) ==
  /\ http[c] = "open"
  /\ stage[c] \in Bus!Returned
  /\ http' = [http EXCEPT ![c] = IF stage[c] = "ok" THEN "events" ELSE "error"]
  /\ UNCHANGED <<vars, busVars, target, client>>

\* Mutant: the goroutine ends with its request.
Abandon_Cancels(c, how) ==
  /\ http[c] = "open"
  /\ http' = [http EXCEPT ![c] = how]
  /\ Bus!Goto(c, "failed")
  /\ UNCHANGED <<vars, tasks, messages, trace, loc, lost, target, client>>

\* The server's time for the request is up, or the caller has left.
Abandon(c, how) ==
  /\ http[c] = "open"
  /\ http' = [http EXCEPT ![c] = how]
  /\ UNCHANGED <<vars, busVars, target, client>>

-----------------------------------------------------------------------------
(* The other routes, and the process *)

Manage(p) ==
  /\ Connect(p) \/ Remove(p) \/ List(p) \/ Upsert(p)
  /\ UNCHANGED <<busVars, chatVars>>

\* The bus's inserts on the pooled connections, and everybody else's.
Insert ==
  /\ \E c \in DBConns, id \in 0 .. MaxRowId : OtherTraffic(c, id)
  /\ UNCHANGED <<busVars, chatVars>>

HostRestart ==
  /\ Restart
  /\ Bus!Crash
  /\ http' = [c \in Calls |-> IF http[c] = "open" THEN "gone" ELSE http[c]]
  /\ UNCHANGED <<target, client>>

HostNext ==
  \/ \E c \in Calls :
       \/ Invalid(c) \/ Serve(c) \/ Answer(c)
       \/ \E n \in Names : Chat(c, n)
       \/ \E how \in {"unavailable", "gone"} : Abandon(c, how)
  \/ \E p \in Procs : Manage(p)
  \/ Insert
  \/ HostRestart

HostSpec == HostInit /\ [][HostNext]_hostVars

(***************************************************************************)
(* Fairness: every goroutine runs, SQLite answers and the HTTP client of   *)
(* an agent gives up after 60 seconds (client.go:22).  Nobody is made to   *)
(* call, to leave or to restart the host.                                  *)
(***************************************************************************)
HostFairSpec ==
  /\ HostSpec
  /\ \A c \in Calls : WF_hostVars(Serve(c)) /\ WF_hostVars(Answer(c))

-----------------------------------------------------------------------------
(***************************************************************************)
(* Every variable has its type, and a chat has a client exactly if it was  *)
(* not refused.                                                            *)
(***************************************************************************)
HostTypeOK ==
  /\ TypeOK
  /\ Bus!TypeOK
  /\ target \in [Calls -> Names \cup {NoName}]
  /\ client \in [Calls -> URLs \cup {NoURL}]
  /\ http \in [Calls -> Answers \cup {"none", "open"}]
  /\ \A c \in Calls : client[c] # NoURL <=> stage[c] \notin {"idle", "refused"}

(***************************************************************************)
(* A chat is routed by what the last change of its agent promised, if that *)
(* change ran alone and succeeded and none is going on: to the URL in the  *)
(* agent's row if it was registered, to nobody, and without a task, if it  *)
(* was disconnected, deleted or never known (messagebus.go:87-90,          *)
(* servicecontext.go:59-65).                                               *)
(***************************************************************************)
Routed ==
  [][\A c \in Calls : \A n \in Names :
       http[c] = "none" /\ http'[c] = "open" /\ target'[c] = n /\ Quiet(n) =>
         /\ settled[n] = "connected" =>
              stage'[c] = "create" /\ client'[c] = agents[n].url
         /\ settled[n] \in {"disconnected", "absent"} => stage'[c] = "refused"]_hostVars

(***************************************************************************)
(* The caller of a chat is never told less or more than the tables say:    *)
(* events only of a task that is RESPONDED and whose message is the text   *)
(* told, an error only if there is no task or it is in ERROR, and a call   *)
(* that a restart has cut off has told nobody anything (chat.go:39-66).    *)
(***************************************************************************)
Told ==
  \A c \in Calls :
    /\ http[c] = "events" =>
         /\ tasks[c] # NoTask /\ tasks[c].state = "RESPONDED"
         /\ LET told == Bus!Last(loc[c].out)
            IN told.type = "response" /\ told.text = Bus!Last(messages[c]).text
    /\ http[c] = "error" => tasks[c] = NoTask \/ tasks[c].state = "ERROR"
    /\ stage[c] = "crashed" => http[c] \in {"unavailable", "gone"}

\* What the call owes the tables is written.
Closed(c) ==
  \/ stage[c] = "refused" /\ tasks[c] = NoTask
  \/ stage[c] \in {"ok", "failed"} /\ tasks[c] # NoTask /\ tasks[c].state \in {"RESPONDED", "ERROR"}

(***************************************************************************)
(* Every chat is answered, and also one whose caller was told 503 or has   *)
(* left is carried to the end of its task, unless the host restarts        *)
(* (chat.go:38-66, etc/host.yaml:5).                                       *)
(***************************************************************************)
ChatsEnd ==
  \A c \in Calls :
    http[c] = "open" ~> http[c] \in Answers /\ (Closed(c) \/ stage[c] = "crashed")
=============================================================================
