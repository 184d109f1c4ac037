----------------------------- MODULE HostProofs -----------------------------
(***************************************************************************)
(* Proofs about Host, for every value of its constants.                    *)
(*                                                                         *)
(* The host runs the registry and the message bus as they are: its steps   *)
(* are steps of both, so what RegistryProofs and MessageBusProofs say of   *)
(* each holds in the host, and the routing of chats follows from it.       *)
(***************************************************************************)
EXTENDS Host, RegistryProofs, Sequences

BusProofs == INSTANCE MessageBusProofs WITH
  Contexts <- {NoText}, DBMayFail <- FALSE, MaxCrashes <- MaxRestarts,
  pc <- stage, crashes <- restarts

-----------------------------------------------------------------------------
(***************************************************************************)
(* The two copies of the registry change as they do in a registry alone:   *)
(* chats touch neither (messagebus.go:87-90).                              *)
(***************************************************************************)
THEOREM HostRunsRegistry == HostSpec => Spec
<1>1. [HostNext]_hostVars => [Next]_vars
  <2> SUFFICES ASSUME [HostNext]_hostVars PROVE [Next]_vars
    OBVIOUS
  <2>1. ASSUME NEW c \in Calls,
               \/ Invalid(c) \/ Serve(c) \/ Answer(c)
               \/ \E n \in Names : Chat(c, n)
               \/ \E how \in {"unavailable", "gone"} : Abandon(c, how)
        PROVE  UNCHANGED vars
    BY <2>1 DEF Invalid, Serve, Answer, Chat, Abandon
  <2>2. ASSUME NEW p \in Procs, Manage(p) PROVE Next
    BY <2>2 DEF Manage, Next
  <2>3. Insert => Next
    BY DEF Insert, Next
  <2>4. HostRestart => Next
    BY DEF HostRestart, Next
  <2> QED
    BY <2>1, <2>2, <2>3, <2>4 DEF HostNext, hostVars
<1> QED
  BY <1>1, PTL DEF HostSpec, HostInit, Spec

(***************************************************************************)
(* Map and table agree about an agent in the host whenever they agree in a *)
(* registry alone.                                                         *)
(***************************************************************************)
LEMMA HostRegistry == HostSpec => [](TypeOK /\ Agreement)
  BY HostRunsRegistry, TypeCorrect, AgreementCorrect, PTL

(***************************************************************************)
(* Requests to the registry leave the number of restarts, which the host   *)
(* shares with the bus.                                                    *)
(***************************************************************************)
LEMMA ManageRestarts ==
  ASSUME NEW p \in Procs, Connect(p) \/ Remove(p) \/ List(p) \/ Upsert(p)
  PROVE  UNCHANGED restarts
<1>1. Connect(p) => UNCHANGED restarts
  BY DEF Connect, ConnectStart, FetchOk, FetchFail, Wake, ConnectUpsert, ConnectUpsertFail,
      Refetch, RefetchFail, Store, Begin, Step
<1>2. Remove(p) => UNCHANGED restarts
  BY DEF Remove, Disconnect, DeleteAgent, MarkDisconnected, MarkFail, DeleteRow, DeleteFail,
      Begin, Step
<1>3. List(p) \/ Upsert(p) => UNCHANGED restarts
  BY DEF List, ListRead, ListCut, ReadRows, ListFail, Overlay, ListReturn, Upsert, UpsertAgent, UpsertAgentFail,
      UpsertAgentReturn, Begin, Step
<1> QED
  BY <1>1, <1>2, <1>3

(***************************************************************************)
(* The tables tasks, messages and trace_events change as they do in a bus  *)
(* alone: the registry, the answers to the callers and their leaving touch *)
(* none of them (chat.go:38-66).                                           *)
(***************************************************************************)
THEOREM HostRunsBus == HostSpec => Bus!Spec
<1>1. [HostNext]_hostVars => [Bus!Next]_(Bus!vars)
  <2> SUFFICES ASSUME [HostNext]_hostVars PROVE [Bus!Next]_(Bus!vars)
    OBVIOUS
  <2>1. UNCHANGED <<busVars, restarts>> => UNCHANGED Bus!vars
    BY DEF busVars, Bus!vars, Bus!db
  <2>2. ASSUME NEW c \in Calls, NEW n \in Names, Chat(c, n) PROVE Bus!Next
    BY <2>2 DEF Chat, Bus!Next
  <2>3. ASSUME NEW c \in Calls, Serve(c) PROVE Bus!Next
    BY <2>3 DEF Serve, Bus!Next
  <2>4. ASSUME NEW c \in Calls,
               \/ Invalid(c) \/ Answer(c)
               \/ \E how \in {"unavailable", "gone"} : Abandon(c, how)
        PROVE  UNCHANGED <<busVars, restarts>>
    BY <2>4 DEF Invalid, Answer, Abandon, vars
  <2>5. ASSUME NEW p \in Procs, Manage(p) PROVE UNCHANGED <<busVars, restarts>>
    BY <2>5, ManageRestarts DEF Manage
  <2>6. Insert => UNCHANGED <<busVars, restarts>>
    BY DEF Insert, OtherTraffic, Step
  <2>7. HostRestart => Bus!Next
    BY DEF HostRestart, Bus!Next
  <2>8. UNCHANGED hostVars => UNCHANGED <<busVars, restarts>>
    BY DEF hostVars, vars
  <2> QED
    BY <2>1, <2>2, <2>3, <2>4, <2>5, <2>6, <2>7, <2>8 DEF HostNext
<1> QED
  BY <1>1, PTL DEF HostSpec, HostInit, Bus!Spec

(***************************************************************************)
(* Bus and BusProofs are the same instance of the same specification.      *)
(***************************************************************************)
LEMMA SameBus == Bus!Spec => BusProofs!Spec
<1>1. Bus!Init => BusProofs!Init
  BY DEF Bus!Init, BusProofs!Init, Bus!NullLocals, BusProofs!NullLocals
<1>2. [Bus!Next]_(Bus!vars) => [BusProofs!Next]_(BusProofs!vars)
  BY DEF
      Bus!Next, BusProofs!Next, Bus!vars, BusProofs!vars, Bus!db, BusProofs!db,
      Bus!Crash, BusProofs!Crash, Bus!Lookup, BusProofs!Lookup, Bus!Send,
      BusProofs!Send, Bus!Replay, BusProofs!Replay, Bus!Close, BusProofs!Close,
      Bus!CreateTask, BusProofs!CreateTask, Bus!RecordUserMessage,
      BusProofs!RecordUserMessage, Bus!RecordSend, BusProofs!RecordSend,
      Bus!AgentAnswers, BusProofs!AgentAnswers, Bus!AgentFails, BusProofs!AgentFails,
      Bus!RecordError, BusProofs!RecordError, Bus!FailTask, BusProofs!FailTask,
      Bus!TaskEvent, BusProofs!TaskEvent, Bus!TaskEventUpdate,
      BusProofs!TaskEventUpdate, Bus!StatusEvent, BusProofs!StatusEvent,
      Bus!StatusTrace, BusProofs!StatusTrace, Bus!ArtifactPart,
      BusProofs!ArtifactPart, Bus!ArtifactEnd, BusProofs!ArtifactEnd, Bus!MessagePart,
      BusProofs!MessagePart, Bus!MessageEnd, BusProofs!MessageEnd, Bus!UnknownEvent,
      BusProofs!UnknownEvent, Bus!SkipEvent, BusProofs!SkipEvent, Bus!LoopEnd,
      BusProofs!LoopEnd, Bus!Respond, BusProofs!Respond, Bus!RecordAgentMessage,
      BusProofs!RecordAgentMessage, Bus!RecordResponse, BusProofs!RecordResponse,
      Bus!Replies, BusProofs!Replies, Bus!HasEvent, BusProofs!HasEvent, Bus!Current,
      BusProofs!Current, Bus!AtEvent, BusProofs!AtEvent, Bus!At, BusProofs!At,
      Bus!Goto, BusProofs!Goto, Bus!Set, BusProofs!Set, Bus!Note, BusProofs!Note,
      Bus!Record, BusProofs!Record, Bus!UpdateState, BusProofs!UpdateState,
      Bus!AddMessage, BusProofs!AddMessage, Bus!Emitted, BusProofs!Emitted,
      Bus!Advanced, BusProofs!Advanced, Bus!Outcomes, BusProofs!Outcomes,
      Bus!Returned, BusProofs!Returned, Bus!Plain, BusProofs!Plain, Bus!Change,
      BusProofs!Change, Bus!Text, BusProofs!Text, Bus!Empty, BusProofs!Empty,
      Bus!NullLocals, BusProofs!NullLocals
<1> QED
  BY <1>1, <1>2, PTL DEF Bus!Spec, BusProofs!Spec

\* The state of the bus is well typed in the host.
LEMMA BusTyped == HostSpec => []Bus!TypeOK
<1>1. BusProofs!MessageBusAssumption
  BY HostAssumption
  DEF HostAssumption, BusProofs!MessageBusAssumption, Bus!Event, BusProofs!Event, Bus!Kinds,
      BusProofs!Kinds, Bus!TaskRow, BusProofs!TaskRow, Bus!States, BusProofs!States
<1>2. BusProofs!Spec => []BusProofs!TypeOK
  BY <1>1, BusProofs!TypeCorrect DEF BusProofs!MessageBusAssumption
<1>3. BusProofs!TypeOK => Bus!TypeOK
  BY DEF Bus!TypeOK, BusProofs!TypeOK, Bus!TaskRow, BusProofs!TaskRow, Bus!States,
      BusProofs!States, Bus!Message, BusProofs!Message, Bus!Entry, BusProofs!Entry,
      Bus!PCs, BusProofs!PCs, Bus!Returned, BusProofs!Returned, Bus!Locals, BusProofs!Locals,
      Bus!Event, BusProofs!Event, Bus!Kinds, BusProofs!Kinds, Bus!Empty, BusProofs!Empty,
      Bus!HasEvent, BusProofs!HasEvent
<1> QED
  BY <1>2, <1>3, HostRunsBus, SameBus, PTL

-----------------------------------------------------------------------------
(***************************************************************************)
(* What the caller of a chat is told is read off the place where its call  *)
(* stands, so the invariant says what the tables hold at the places where  *)
(* a call ends and at those that lead there, and where a call can stand    *)
(* for each answer.                                                        *)
(***************************************************************************)
Neutral == {"user", "send", "call", "error_trace", "error_state", "loop", "task_update",
            "status_trace", "respond"}
Working == Neutral \cup {"create", "agent_msg", "response_trace"}

TableInv(c) ==
  /\ stage[c] \in {"idle", "refused", "create"} => tasks[c] = NoTask
  /\ stage[c] = "failed" => tasks[c] = NoTask \/ tasks[c].state = "ERROR"
  /\ stage[c] \in {"agent_msg", "response_trace", "ok"} =>
       tasks[c] # NoTask /\ tasks[c].state = "RESPONDED"
  /\ stage[c] \in {"response_trace", "ok"} => Bus!Last(messages[c]).text = loc[c].text
  /\ stage[c] = "ok" => LET told == Bus!Last(loc[c].out)
                        IN told.type = "response" /\ told.text = loc[c].text

ChatInv(c) ==
  /\ client[c] # NoURL <=> stage[c] \notin {"idle", "refused"}
  /\ http[c] = "events" => stage[c] = "ok"
  /\ http[c] = "error" => stage[c] \in {"refused", "failed"}
  /\ stage[c] \in Working => http[c] \in {"open", "unavailable", "gone"}
  /\ stage[c] = "crashed" => http[c] \in {"unavailable", "gone"}

ChatTypes ==
  /\ target \in [Calls -> Names \cup {NoName}]
  /\ client \in [Calls -> URLs \cup {NoURL}]
  /\ http \in [Calls -> Answers \cup {"none", "open"}]

HInv == ChatTypes /\ \A c \in Calls : TableInv(c) /\ ChatInv(c)

\* The step of c leaves the calls of the others alone.
CallAlone(c) ==
  \A d \in Calls \ {c} :
    /\ stage'[d] = stage[d] /\ tasks'[d] = tasks[d]
    /\ messages'[d] = messages[d] /\ loc'[d] = loc[d]

(***************************************************************************)
(* A step of a call leads from a place where it works to another one or to *)
(* its end, and it keeps TableInv (messagebus.go:92-259).                  *)
(***************************************************************************)
LEMMA BusStep ==
  ASSUME Bus!TypeOK, NEW c \in Calls, TableInv(c),
         Bus!Send(c) \/ Bus!Replay(c) \/ Bus!Close(c)
  PROVE  /\ CallAlone(c)
         /\ stage[c] \in Working /\ stage'[c] \in Working \cup {"ok", "failed"}
         /\ TableInv(c)'
<1> DEFINE Kept == /\ CallAlone(c)
                   /\ stage[c] \in Working /\ stage'[c] \in Working \cup {"ok", "failed"}
                   /\ TableInv(c)'
<1> USE DEF Bus!At, Bus!AtEvent, Working, Neutral
<1>0. /\ DOMAIN tasks = Calls /\ DOMAIN messages = Calls /\ DOMAIN loc = Calls
      /\ stage \in [Calls -> Bus!PCs] /\ loc[c] \in Bus!Locals
      /\ messages[c] \in Seq(Bus!Message) /\ Bus!Outcomes = {TRUE}
  BY DEF Bus!TypeOK, Bus!Outcomes
\* Steps to a place of which TableInv says nothing.
<1>1. ASSUME NEW label \in Neutral, Bus!Goto(c, label), stage[c] \in Working,
             UNCHANGED <<tasks, messages, loc>>
             \/ (UNCHANGED <<messages, loc>> /\ \E x : tasks' = [tasks EXCEPT ![c] = x])
             \/ (UNCHANGED <<tasks, loc>> /\ \E x : messages' = [messages EXCEPT ![c] = x])
             \/ (UNCHANGED <<tasks, messages>> /\ \E x : loc' = [loc EXCEPT ![c] = x])
      PROVE  Kept
  <2>1. stage'[c] = label /\ \A d \in Calls \ {c} : stage'[d] = stage[d]
    BY <1>0, <1>1 DEF Bus!Goto
  <2>2. CallAlone(c)
    BY <1>0, <1>1, <2>1 DEF CallAlone
  <2>3. TableInv(c)'
    BY <2>1 DEF TableInv
  <2> QED
    BY <1>1, <2>1, <2>2, <2>3
<1> HIDE DEF Kept
<1>2. ASSUME Bus!Send(c) PROVE Kept
  <2>1. ASSUME Bus!CreateTask(c, TRUE, TRUE) PROVE Kept
    BY <1>1, <2>1 DEF Bus!CreateTask
  <2>2. ASSUME Bus!RecordUserMessage(c, TRUE, TRUE) PROVE Kept
    BY <1>1, <2>2 DEF Bus!RecordUserMessage, Bus!AddMessage
  <2>3. ASSUME Bus!RecordSend(c, TRUE) \/ Bus!RecordError(c, TRUE) PROVE Kept
    BY <1>1, <2>3 DEF Bus!RecordSend, Bus!RecordError, Bus!Record
  <2>4. ASSUME Bus!FailTask(c, TRUE) PROVE Kept
    <3> DEFINE row == [tasks[c] EXCEPT !.state = "ERROR"]
    <3>1. /\ stage[c] = "error_state" /\ tasks[c] # NoTask /\ Bus!Goto(c, "failed")
          /\ tasks' = [tasks EXCEPT ![c] = row] /\ UNCHANGED <<messages, loc>>
      BY <1>0, <2>4 DEF Bus!FailTask, Bus!UpdateState, Bus!TypeOK, Bus!PCs, Bus!Returned
    <3>2. row.state = "ERROR"
      BY <3>1 DEF Bus!TypeOK, Bus!TaskRow
    <3> HIDE DEF row
    <3>3. /\ stage'[c] = "failed" /\ tasks'[c] = row
          /\ \A d \in Calls \ {c} : stage'[d] = stage[d] /\ tasks'[d] = tasks[d]
      BY <1>0, <3>1 DEF Bus!Goto
    <3>4. CallAlone(c)
      BY <3>1, <3>3 DEF CallAlone
    <3>5. TableInv(c)'
      BY <3>2, <3>3 DEF TableInv
    <3> QED
      BY <3>1, <3>3, <3>4, <3>5 DEF Kept
  <2>5. ASSUME NEW events, Bus!AgentAnswers(c, events) PROVE Kept
    BY <1>1, <2>5 DEF Bus!AgentAnswers, Bus!Set, Bus!db
  <2>6. ASSUME Bus!AgentFails(c) PROVE Kept
    BY <1>1, <2>6 DEF Bus!AgentFails, Bus!db
  <2> QED
    BY <1>0, <1>2, <2>1, <2>2, <2>3, <2>4, <2>5, <2>6 DEF Bus!Send
<1>3. ASSUME Bus!Replay(c) PROVE Kept
  <2>1. ASSUME UNCHANGED stage, stage[c] = "loop" PROVE Bus!Goto(c, "loop")
    BY <1>0, <2>1 DEF Bus!Goto
  <2>2. ASSUME Bus!TaskEvent(c, TRUE) PROVE Kept
    BY <1>1, <2>2 DEF Bus!TaskEvent, Bus!Record
  <2>3. ASSUME Bus!TaskEventUpdate(c, TRUE) PROVE Kept
    BY <1>1, <2>3 DEF Bus!TaskEventUpdate, Bus!Record, Bus!Set, Bus!db
  <2>4. ASSUME Bus!StatusEvent(c, TRUE) PROVE Kept
    BY <1>1, <2>4 DEF Bus!StatusEvent, Bus!UpdateState
  <2>5. ASSUME Bus!StatusTrace(c, TRUE) PROVE Kept
    BY <1>1, <2>5 DEF Bus!StatusTrace, Bus!Record, Bus!Set
  <2>6. ASSUME Bus!ArtifactPart(c, TRUE) PROVE Kept
    BY <1>1, <2>1, <2>6 DEF Bus!ArtifactPart, Bus!Record, Bus!Set, Bus!db
  <2>7. ASSUME \/ Bus!ArtifactEnd(c) \/ Bus!MessagePart(c) \/ Bus!MessageEnd(c)
               \/ Bus!UnknownEvent(c) \/ Bus!SkipEvent(c)
        PROVE  Kept
    BY <1>1, <2>1, <2>7
    DEF Bus!ArtifactEnd, Bus!MessagePart, Bus!MessageEnd, Bus!UnknownEvent, Bus!SkipEvent,
        Bus!Set, Bus!db
  <2> QED
    BY <1>0, <1>3, <2>2, <2>3, <2>4, <2>5, <2>6, <2>7 DEF Bus!Replay
<1>4. ASSUME Bus!LoopEnd(c) PROVE Kept
  BY <1>1, <1>4 DEF Bus!LoopEnd, Bus!Set, Bus!db
<1>5. ASSUME Bus!Respond(c, TRUE) PROVE Kept
  <2> DEFINE row == [tasks[c] EXCEPT !.state = "RESPONDED"]
  <2>1. /\ stage[c] = "respond" /\ tasks[c] \in Bus!TaskRow /\ tasks[c] # NoTask
        /\ Bus!Goto(c, "agent_msg")
        /\ tasks' = [tasks EXCEPT ![c] = row] /\ UNCHANGED messages
        /\ \E x : loc' = [loc EXCEPT ![c] = x]
    BY <1>0, <1>5 DEF Bus!Respond, Bus!UpdateState, Bus!Set, Bus!TypeOK, Bus!PCs, Bus!Returned
  <2>2. row.state = "RESPONDED" /\ row # NoTask
    BY <2>1, HostAssumption DEF HostAssumption, Bus!TaskRow, Bus!States
  <2> HIDE DEF row
  <2>3. /\ stage'[c] = "agent_msg" /\ tasks'[c] = row
        /\ \A d \in Calls \ {c} : stage'[d] = stage[d] /\ tasks'[d] = tasks[d] /\ loc'[d] = loc[d]
    BY <1>0, <2>1 DEF Bus!Goto
  <2>4. CallAlone(c)
    BY <2>1, <2>3 DEF CallAlone
  <2>5. TableInv(c)'
    BY <2>2, <2>3 DEF TableInv
  <2> QED
    BY <2>1, <2>3, <2>4, <2>5 DEF Kept
<1>6. ASSUME Bus!RecordAgentMessage(c, TRUE) PROVE Kept
  <2> DEFINE m == [role |-> "agent", text |-> loc[c].text]
  <2>1. /\ stage[c] = "agent_msg" /\ Bus!Goto(c, "response_trace") /\ UNCHANGED <<tasks, loc>>
        /\ messages' = [messages EXCEPT ![c] = Append(messages[c], m)]
    BY <1>6 DEF Bus!RecordAgentMessage, Bus!AddMessage
  <2>2. m.text = loc[c].text /\ m \in Bus!Message
    BY <1>0 DEF Bus!Message, Bus!Locals
  <2> HIDE DEF m
  <2>3. Bus!Last(Append(messages[c], m)) = m
    BY <1>0, <2>2 DEF Bus!Last
  <2>4. /\ stage'[c] = "response_trace" /\ messages'[c] = Append(messages[c], m)
        /\ \A d \in Calls \ {c} : stage'[d] = stage[d] /\ messages'[d] = messages[d]
    BY <1>0, <2>1 DEF Bus!Goto
  <2>5. CallAlone(c)
    BY <2>1, <2>4 DEF CallAlone
  <2>6. TableInv(c)'
    BY <2>1, <2>2, <2>3, <2>4 DEF TableInv
  <2> QED
    BY <2>1, <2>4, <2>5, <2>6 DEF Kept
<1>7. ASSUME Bus!RecordResponse(c, TRUE) PROVE Kept
  <2> DEFINE e == Bus!Text("response", loc[c].text)
             l == Bus!Emitted(c, e)
  <2>1. /\ stage[c] = "response_trace" /\ Bus!Goto(c, "ok") /\ UNCHANGED <<tasks, messages>>
        /\ loc' = [loc EXCEPT ![c] = l]
    BY <1>7 DEF Bus!RecordResponse, Bus!Record, Bus!Set
  <2>2. e.type = "response" /\ e.text = loc[c].text
    BY DEF Bus!Text, Bus!Plain
  <2> HIDE DEF e
  <2>3. l.out = Append(loc[c].out, e) /\ l.text = loc[c].text /\ loc[c].out \in Seq(Bus!Entry)
    BY <1>0 DEF Bus!Emitted, Bus!Locals
  <2>4. Bus!Last(l.out) = e
    BY <2>3 DEF Bus!Last
  <2> HIDE DEF l
  <2>5. /\ stage'[c] = "ok" /\ loc'[c] = l
        /\ \A d \in Calls \ {c} : stage'[d] = stage[d] /\ loc'[d] = loc[d]
    BY <1>0, <2>1 DEF Bus!Goto
  <2>6. CallAlone(c)
    BY <2>1, <2>5 DEF CallAlone
  <2>7. TableInv(c)'
    BY <2>1, <2>2, <2>3, <2>4, <2>5 DEF TableInv
  <2> QED
    BY <2>1, <2>5, <2>6, <2>7 DEF Kept
<1> QED
  BY <1>0, <1>2, <1>3, <1>4, <1>5, <1>6, <1>7 DEF Bus!Close, Kept

(***************************************************************************)
(* A step of one chat keeps the invariant if it keeps that chat's part.    *)
(***************************************************************************)
LEMMA ChatAlone ==
  ASSUME HInv, NEW c \in Calls, ChatTypes', CallAlone(c), TableInv(c)', ChatInv(c)',
         \A d \in Calls \ {c} : client'[d] = client[d] /\ http'[d] = http[d]
  PROVE  HInv'
<1>1. \A d \in Calls \ {c} : TableInv(d)' /\ ChatInv(d)'
  BY DEF HInv, CallAlone, TableInv, ChatInv
<1> QED
  BY <1>1 DEF HInv

\* What a chat may be answered with is in the type of http.
LEMMA AnswerTypes ==
  {"invalid", "unavailable", "gone", "events", "error", "open"} \subseteq Answers \cup {"none", "open"}
  BY DEF Answers

(***************************************************************************)
(* Arriving, being answered and leaving keep the invariant (chat.go:17-66). *)
(***************************************************************************)
LEMMA InvChat ==
  ASSUME TypeOK, Bus!TypeOK, HInv, NEW c \in Calls,
         \/ Invalid(c) \/ Serve(c) \/ Answer(c)
         \/ \E n \in Names : Chat(c, n)
         \/ \E how \in {"unavailable", "gone"} : Abandon(c, how)
  PROVE  HInv'
<1> USE DEF HInv, ChatTypes, Working, Neutral
<1>0. /\ stage \in [Calls -> Bus!PCs] /\ DOMAIN tasks = Calls /\ DOMAIN loc = Calls
      /\ TableInv(c) /\ ChatInv(c)
  BY DEF Bus!TypeOK
\* The answer changes and nothing else does.
<1>1. ASSUME NEW a \in Answers, http' = [http EXCEPT ![c] = a],
             UNCHANGED <<busVars, client, target>>,
             \/ a = "invalid" /\ http[c] = "none"
             \/ a \in {"unavailable", "gone"} /\ http[c] = "open"
             \/ a = "events" /\ stage[c] = "ok"
             \/ a = "error" /\ stage[c] \in {"refused", "failed"}
      PROVE  HInv'
  <2>1. http'[c] = a /\ (\A d \in Calls \ {c} : http'[d] = http[d]) /\ ChatTypes'
    BY <1>1
  <2>2. CallAlone(c) /\ TableInv(c)'
    BY <1>0, <1>1 DEF busVars, CallAlone, TableInv
  <2>3. ChatInv(c)'
    BY <1>0, <1>1, <2>1 DEF busVars, ChatInv
  <2> QED
    BY <1>1, <2>1, <2>2, <2>3, ChatAlone
<1>2. ASSUME Invalid(c) PROVE HInv'
  BY <1>1, <1>2 DEF Invalid, Answers
<1>3. ASSUME Serve(c) PROVE HInv'
  <2>1. /\ CallAlone(c) /\ TableInv(c)'
        /\ stage[c] \in Working /\ stage'[c] \in Working \cup {"ok", "failed"}
    BY <1>0, <1>3, BusStep DEF Serve
  <2>2. UNCHANGED <<target, client, http>>
    BY <1>3 DEF Serve, chatVars
  <2>3. ChatInv(c)'
    BY <1>0, <2>1, <2>2 DEF ChatInv
  <2> QED
    BY <2>1, <2>2, <2>3, ChatAlone
<1>4. ASSUME Answer(c) PROVE HInv'
  BY <1>1, <1>4 DEF Answer, Bus!Returned, Answers
<1>5. ASSUME NEW n \in Names, Chat(c, n) PROVE HInv'
  <2> DEFINE conn == connections[n]
             url == IF conn = NoConn THEN NoURL ELSE conn.url
             label == IF conn = NoConn THEN "refused" ELSE "create"
  <2>1. /\ http[c] = "none" /\ http' = [http EXCEPT ![c] = "open"]
        /\ target' = [target EXCEPT ![c] = n] /\ client' = [client EXCEPT ![c] = url]
        /\ stage[c] = "idle" /\ stage' = [stage EXCEPT ![c] = label]
        /\ UNCHANGED <<tasks, messages>> /\ \E x : loc' = [loc EXCEPT ![c] = x]
    BY <1>5 DEF Chat, Bus!Lookup, Bus!Goto, Bus!At, Bus!Set, Bus!db
  <2>2. url \in URLs \cup {NoURL} /\ (url # NoURL <=> label = "create") /\ label \in {"refused", "create"}
    BY RegistryAssumption DEF RegistryAssumption, TypeOK, Conn
  <2> HIDE DEF url, label
  <2>3. /\ http'[c] = "open" /\ client'[c] = url /\ stage'[c] = label
        /\ \A d \in Calls \ {c} : http'[d] = http[d] /\ client'[d] = client[d]
        /\ ChatTypes'
    BY <1>0, <2>1, <2>2
  <2>4. CallAlone(c)
    BY <1>0, <2>1 DEF CallAlone
  <2>5. TableInv(c)' /\ ChatInv(c)'
    BY <1>0, <2>1, <2>2, <2>3 DEF TableInv, ChatInv
  <2> QED
    BY <2>3, <2>4, <2>5, ChatAlone
<1>6. ASSUME NEW how \in {"unavailable", "gone"}, Abandon(c, how) PROVE HInv'
  BY <1>1, <1>6 DEF Abandon, Answers
<1> QED
  BY <1>2, <1>3, <1>4, <1>5, <1>6

(***************************************************************************)
(* A restart ends the calls in progress and the connections of the callers *)
(* and keeps the tables.                                                   *)
(***************************************************************************)
LEMMA InvRestart ==
  ASSUME Bus!TypeOK, HInv, HostRestart
  PROVE  HInv'
<1>1. /\ UNCHANGED <<tasks, messages, loc, target, client>>
      /\ stage' = [c \in Calls |->
                     IF stage[c] \in Bus!Returned \cup {"idle"} THEN stage[c] ELSE "crashed"]
      /\ http' = [c \in Calls |-> IF http[c] = "open" THEN "gone" ELSE http[c]]
  BY DEF HostRestart, Bus!Crash, Bus!db
<1>2. ChatTypes'
  BY <1>1 DEF HInv, ChatTypes, Answers
<1>3. ASSUME NEW c \in Calls PROVE TableInv(c)' /\ ChatInv(c)'
  <2>1. /\ stage'[c] = IF stage[c] \in Bus!Returned \cup {"idle"} THEN stage[c] ELSE "crashed"
        /\ http'[c] = IF http[c] = "open" THEN "gone" ELSE http[c]
        /\ stage[c] \in Bus!PCs /\ TableInv(c) /\ ChatInv(c)
    BY <1>1 DEF Bus!TypeOK, HInv
  <2>2. stage[c] \in Bus!Returned \cup {"idle", "crashed"} \/ stage[c] \in Working
    BY <2>1 DEF Bus!PCs, Bus!Returned, Working, Neutral
  <2>3. TableInv(c)'
    BY <1>1, <2>1 DEF TableInv, Bus!Returned
  <2>4. ChatInv(c)'
    BY <1>1, <2>1, <2>2 DEF ChatInv, Bus!Returned, Working, Neutral
  <2> QED
    BY <2>3, <2>4
<1> QED
  BY <1>2, <1>3 DEF HInv

\* The invariant of the host holds in every state.
LEMMA HostInvariance == HostSpec => [](TypeOK /\ Bus!TypeOK /\ HInv)
<1>1. HostInit => HInv
  <2> SUFFICES ASSUME HostInit PROVE HInv
    OBVIOUS
  <2>1. /\ target = [c \in Calls |-> NoName] /\ client = [c \in Calls |-> NoURL]
        /\ http = [c \in Calls |-> "none"] /\ tasks = [c \in Calls |-> NoTask]
        /\ stage = [c \in Calls |-> "idle"]
    BY DEF HostInit, Bus!Init
  <2> QED
    BY <2>1 DEF HInv, ChatTypes, TableInv, ChatInv, Working, Neutral
<1>2. TypeOK /\ Bus!TypeOK /\ HInv /\ [HostNext]_hostVars => HInv'
  <2> SUFFICES ASSUME TypeOK, Bus!TypeOK, HInv, [HostNext]_hostVars PROVE HInv'
    OBVIOUS
  <2>1. UNCHANGED <<busVars, chatVars>> => HInv'
    BY DEF busVars, chatVars, HInv, ChatTypes, TableInv, ChatInv
  <2>2. ASSUME NEW p \in Procs, Manage(p) PROVE HInv'
    BY <2>1, <2>2 DEF Manage
  <2>3. Insert \/ UNCHANGED hostVars => HInv'
    BY <2>1 DEF Insert, hostVars
  <2> QED
    BY <2>2, <2>3, InvChat, InvRestart DEF HostNext
<1> QED
  BY <1>1, <1>2, HostRegistry, BusTyped, PTL DEF HostSpec

-----------------------------------------------------------------------------
(***************************************************************************)
(* A chat has a client exactly if it was not refused, and every variable   *)
(* of the host has its type.                                               *)
(***************************************************************************)
THEOREM HostTypeCorrect == HostSpec => []HostTypeOK
<1>1. TypeOK /\ Bus!TypeOK /\ HInv => HostTypeOK
  BY DEF HInv, ChatTypes, ChatInv, HostTypeOK
<1> QED
  BY <1>1, HostInvariance, PTL

(***************************************************************************)
(* The caller of a chat is never told less or more than the tables say,    *)
(* whatever the agent answers, whenever the caller leaves and wherever the *)
(* host restarts.                                                          *)
(***************************************************************************)
THEOREM ToldCorrect == HostSpec => []Told
<1>1. HInv => Told
  BY DEF HInv, TableInv, ChatInv, Told
<1> QED
  BY <1>1, HostInvariance, PTL

(***************************************************************************)
(* A chat is routed by what the last change of its agent promised.         *)
(***************************************************************************)
THEOREM RoutedCorrect == HostSpec => Routed
<1> DEFINE AsPromised(c, n) ==
      http[c] = "none" /\ http'[c] = "open" /\ target'[c] = n /\ Quiet(n) =>
        /\ settled[n] = "connected" => stage'[c] = "create" /\ client'[c] = agents[n].url
        /\ settled[n] \in {"disconnected", "absent"} => stage'[c] = "refused"
<1>1. TypeOK /\ Bus!TypeOK /\ HInv /\ Agreement /\ [HostNext]_hostVars
      => \A c \in Calls : \A n \in Names : AsPromised(c, n)
  <2> SUFFICES ASSUME TypeOK, Bus!TypeOK, HInv, Agreement, [HostNext]_hostVars,
                      NEW c \in Calls, NEW n \in Names,
                      http[c] = "none", http'[c] = "open", target'[c] = n, Quiet(n)
               PROVE  /\ settled[n] = "connected" =>
                           stage'[c] = "create" /\ client'[c] = agents[n].url
                      /\ settled[n] \in {"disconnected", "absent"} => stage'[c] = "refused"
    OBVIOUS
  <2>0. stage \in [Calls -> Bus!PCs] /\ ChatTypes
    BY DEF Bus!TypeOK, HInv
  \* Only the arrival of c opens its request.
  <2>1. Chat(c, n)
    <3>1. ASSUME NEW d \in Calls, NEW a, http' = [http EXCEPT ![d] = a], a # "open"
          PROVE  FALSE
      BY <2>0, <3>1 DEF ChatTypes
    <3>2. ASSUME NEW d \in Calls, Invalid(d) \/ Answer(d) PROVE FALSE
      BY <3>1, <3>2 DEF Invalid, Answer
    <3>3. ASSUME NEW d \in Calls, NEW how \in {"unavailable", "gone"}, Abandon(d, how)
          PROVE  FALSE
      BY <3>1, <3>3 DEF Abandon
    <3>4. UNCHANGED http => FALSE
      OBVIOUS
    <3>5. ASSUME NEW d \in Calls, Serve(d) PROVE FALSE
      BY <3>4, <3>5 DEF Serve, chatVars
    <3>6. ASSUME NEW p \in Procs, Manage(p) PROVE FALSE
      BY <3>4, <3>6 DEF Manage, chatVars
    <3>7. Insert \/ UNCHANGED hostVars => FALSE
      BY <3>4 DEF Insert, hostVars, chatVars
    <3>8. HostRestart => FALSE
      BY DEF HostRestart
    <3>9. ASSUME NEW d \in Calls, NEW m \in Names, Chat(d, m) PROVE d = c /\ m = n
      BY <2>0, <3>9 DEF Chat, ChatTypes
    <3> QED
      BY <3>2, <3>3, <3>5, <3>6, <3>7, <3>8, <3>9 DEF HostNext
  <2>2. /\ client'[c] = IF connections[n] = NoConn THEN NoURL ELSE connections[n].url
        /\ stage'[c] = IF connections[n] = NoConn THEN "refused" ELSE "create"
    BY <2>0, <2>1 DEF Chat, Bus!Goto, ChatTypes
  <2>3. Promised(n)
    BY DEF Agreement
  <2> QED
    BY <2>2, <2>3 DEF Promised, SameAgent
<1> QED
  BY <1>1, HostInvariance, HostRegistry, PTL DEF HostSpec, Routed
=============================================================================
