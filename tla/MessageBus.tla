----------------------------- MODULE MessageBus -----------------------------
(***************************************************************************)
(* The message bus (internal/messagebus/messagebus.go) over the tables     *)
(* tasks, messages and trace_events.                                       *)
(*                                                                         *)
(* A call of SendStreaming creates a task, sends the message to the agent, *)
(* waits for the whole reply, and then replays the reply event by event    *)
(* into the three tables.  Nothing is transactional: every write is a      *)
(* statement of its own that may fail, most failures are dropped, and the  *)
(* process may stop between any two of them.  Each action is the code      *)
(* between two writes.  A task has a fresh id and only its call writes it, *)
(* so tables are indexed by call.                                          *)
(***************************************************************************)
EXTENDS Naturals, Sequences

CONSTANTS
  Calls,        \* calls of SendStreaming
  Contexts,     \* context ids, NoText among them
  Texts,        \* texts of message and artifact parts, NoText among them
  AgentStates,  \* task states an agent may report, NoText among them
  NoText,       \* the empty string
  AgentEvents,  \* events an agent may send in this instance
  MaxEvents,    \* bound: events of one reply
  MaxCrashes,   \* bound: crashes of the process
  DBMayFail,    \* whether a database call may return an error
  NoTask

Empty == "(empty)"
States == AgentStates \cup {"SUBMITTED", "RESPONDED", "ERROR"}
Kinds == {"task", "status_update", "artifact_update", "message", "unknown", "garbled"}
\* A decoded event; "garbled" is one of the known types with data that does
\* not decode.
Event == [kind : Kinds, state : AgentStates, ctx : Contexts, parts : Seq(Texts)]

TaskRow == [state : States, ctx : Contexts]
\* A trace row, and an event SendStreaming emits.
Entry == [type : {"send", "task_created", "task_update", "artifact", "response",
                  "error", "task", "status_update", "message", "unknown"},
          old : States, new : States, text : Texts \cup {Empty}]
Locals == [ctx : Contexts, state : States, inbox : Seq(Event), pos : Nat,
           part : Nat, text : Texts \cup {Empty}, out : Seq(Entry)]
Message == [role : {"user", "agent"}, text : Texts \cup {Empty}]

ASSUME MessageBusAssumption ==
  /\ NoText \in Contexts /\ NoText \in Texts /\ NoText \in AgentStates
  /\ AgentEvents \subseteq Event
  /\ MaxEvents \in Nat
  /\ DBMayFail \in BOOLEAN
  /\ NoTask \notin TaskRow

VARIABLES
  tasks,     \* [Calls -> TaskRow or NoTask]: the row of the call's task
  messages,  \* [Calls -> Seq(Message)]: its rows of table messages
  trace,     \* [Calls -> Seq(Entry)]: its rows of trace_events, in insertion order
  pc,        \* [Calls -> where the call stands]
  loc,       \* [Calls -> Locals]: its local variables
  crashes    \* crashes so far

\* History: which kinds of write have failed in the call; no action reads it.
VARIABLE lost

db == <<tasks, messages, trace>>
vars == <<tasks, messages, trace, pc, loc, crashes, lost>>

Returned == {"refused", "failed", "ok"}
PCs == Returned \cup {"idle", "create", "user", "send", "call", "error_trace",
         "error_state", "loop", "task_update", "status_trace", "respond",
         "agent_msg", "response_trace", "crashed"}

NullLocals == [ctx |-> NoText, state |-> "SUBMITTED", inbox |-> <<>>, pos |-> 1,
               part |-> 1, text |-> NoText, out |-> <<>>]

\* Entries of the trace and of the returned event list.
Plain(type) == [type |-> type, old |-> "SUBMITTED", new |-> "SUBMITTED", text |-> NoText]
Change(type, s, t) == [Plain(type) EXCEPT !.old = s, !.new = t]
Text(type, t) == [Plain(type) EXCEPT !.text = t]

Init ==
  /\ tasks = [c \in Calls |-> NoTask]
  /\ messages = [c \in Calls |-> <<>>]
  /\ trace = [c \in Calls |-> <<>>]
  /\ pc = [c \in Calls |-> "idle"]
  /\ loc = [c \in Calls |-> NullLocals]
  /\ crashes = 0
  /\ lost = [c \in Calls |-> {}]

-----------------------------------------------------------------------------
Outcomes == IF DBMayFail THEN BOOLEAN ELSE {TRUE}
At(c, label) == pc[c] = label /\ UNCHANGED crashes
Goto(c, label) == pc' = [pc EXCEPT ![c] = label]
Set(c, locals) == loc' = [loc EXCEPT ![c] = locals]
Note(c, kind, ok) == lost' = [lost EXCEPT ![c] = IF ok THEN @ ELSE @ \cup {kind}]

\* The writes of a call; each of them happens iff ok.
Record(c, entry, ok) ==
  /\ trace' = [trace EXCEPT ![c] = IF ok THEN Append(@, entry) ELSE @]
  /\ Note(c, "trace", ok)
  /\ UNCHANGED <<tasks, messages>>
UpdateState(c, s, ok) ==
  /\ tasks' = [tasks EXCEPT ![c] = IF ok THEN [@ EXCEPT !.state = s] ELSE @]
  /\ Note(c, "state", ok)
  /\ UNCHANGED <<messages, trace>>
AddMessage(c, role, t, ok) ==
  /\ messages' = [messages EXCEPT ![c] =
                    IF ok THEN Append(@, [role |-> role, text |-> t]) ELSE @]
  /\ Note(c, "message", ok)
  /\ UNCHANGED <<tasks, trace>>

\* The call's variables after it has emitted an entry, and on the next event.
Emitted(c, entry) == [loc[c] EXCEPT !.out = Append(@, entry)]
Advanced(locals) == [locals EXCEPT !.pos = @ + 1, !.part = 1]

-----------------------------------------------------------------------------
(* Opening a task and calling the agent *)

\* Mutant: the context is taken to have a task already.
Lookup_Reuses(c, x) ==
  /\ At(c, "idle")
  /\ Goto(c, "user") \/ Goto(c, "refused")
  /\ Set(c, [NullLocals EXCEPT !.ctx = x])
  /\ UNCHANGED <<db, lost>>

\* getClient(agentName): the agent is connected, or the call is refused.
Lookup(c, x) ==
  /\ At(c, "idle")
  /\ Goto(c, "create") \/ Goto(c, "refused")
  /\ Set(c, [NullLocals EXCEPT !.ctx = x])
  /\ UNCHANGED <<db, lost>>

\* Mutant: the error of Create is not looked at.
CreateTask_NoCheck(c, inserted, ok) ==
  /\ At(c, "create")
  /\ ok => inserted
  /\ tasks' = [tasks EXCEPT ![c] =
                 IF inserted THEN [state |-> "SUBMITTED", ctx |-> loc[c].ctx] ELSE @]
  /\ Goto(c, "user")
  /\ UNCHANGED <<messages, trace, loc, lost>>

\* Create inserts and re-reads the row: it may fail with the row inserted.
CreateTask(c, inserted, ok) ==
  /\ At(c, "create")
  /\ ok => inserted
  /\ tasks' = [tasks EXCEPT ![c] =
                 IF inserted THEN [state |-> "SUBMITTED", ctx |-> loc[c].ctx] ELSE @]
  /\ Goto(c, IF ok THEN "user" ELSE "failed")
  /\ UNCHANGED <<messages, trace, loc, lost>>

RecordUserMessage(c, inserted, ok) ==
  /\ At(c, "user")
  /\ ok => inserted
  /\ AddMessage(c, "user", NoText, inserted)
  /\ Goto(c, IF ok THEN "send" ELSE "failed")
  /\ UNCHANGED loc

RecordSend(c, ok) ==
  /\ At(c, "send")
  /\ Record(c, Plain("send"), ok)
  /\ Goto(c, "call")
  /\ UNCHANGED loc

\* SendStreamingMessage returns the decoded events of the whole reply.
AgentAnswers(c, events) ==
  /\ At(c, "call")
  /\ Set(c, [loc[c] EXCEPT !.inbox = events])
  /\ Goto(c, "loop")
  /\ UNCHANGED <<db, lost>>

\* No connection, a status other than 200, a timeout, a stream that breaks.
AgentFails(c) ==
  /\ At(c, "call")
  /\ Goto(c, "error_trace")
  /\ UNCHANGED <<db, loc, lost>>

\* Mutants: the call goes on after the error; the task is not marked.
RecordError_Continues(c, ok) ==
  /\ At(c, "error_trace")
  /\ Record(c, Plain("error"), ok)
  /\ Goto(c, "loop")
  /\ UNCHANGED loc
RecordError_NoState(c, ok) ==
  /\ At(c, "error_trace")
  /\ Record(c, Plain("error"), ok)
  /\ Goto(c, "failed")
  /\ UNCHANGED loc

RecordError(c, ok) ==
  /\ At(c, "error_trace")
  /\ Record(c, Plain("error"), ok)
  /\ Goto(c, "error_state")
  /\ UNCHANGED loc

\* The row gets state ERROR; task.State, which is returned, does not.
FailTask(c, ok) ==
  /\ At(c, "error_state")
  /\ UpdateState(c, "ERROR", ok)
  /\ Goto(c, "failed")
  /\ UNCHANGED loc

-----------------------------------------------------------------------------
(* Replaying the reply *)

HasEvent(c) == loc[c].pos <= Len(loc[c].inbox)
Current(c) == loc[c].inbox[loc[c].pos]
AtEvent(c, kind) == At(c, "loop") /\ HasEvent(c) /\ Current(c).kind = kind

TaskEvent(c, ok) ==
  /\ AtEvent(c, "task")
  /\ Record(c, Plain("task_created"), ok)
  /\ Goto(c, "task_update")
  /\ UNCHANGED loc

\* RecordTaskUpdate if the event has a state, and a context id for the rest
\* of the call if it has none; neither the row nor task.State changes.
TaskEventUpdate(c, ok) ==
  LET e == Current(c)
      emitted == Emitted(c, Change("task", "SUBMITTED", e.state))
  IN /\ At(c, "task_update")
     /\ IF e.state # NoText
          THEN Record(c, Change("task_update", "SUBMITTED", e.state), ok)
          ELSE UNCHANGED <<db, lost>>
     /\ Set(c, Advanced([emitted EXCEPT !.ctx = IF @ = NoText THEN e.ctx ELSE @]))
     /\ Goto(c, "loop")

StatusEvent(c, ok) ==
  /\ AtEvent(c, "status_update")
  /\ Current(c).state # NoText
  /\ UpdateState(c, Current(c).state, ok)
  /\ Goto(c, "status_trace")
  /\ UNCHANGED loc

\* Mutant: task.State is not updated.
StatusTrace_NoState(c, ok) ==
  LET new == Current(c).state
      old == loc[c].state
  IN /\ At(c, "status_trace")
     /\ Record(c, Change("task_update", old, new), ok)
     /\ Set(c, Advanced(Emitted(c, Change("status_update", old, new))))
     /\ Goto(c, "loop")

StatusTrace(c, ok) ==
  LET new == Current(c).state
      old == loc[c].state
  IN /\ At(c, "status_trace")
     /\ Record(c, Change("task_update", old, new), ok)
     /\ Set(c, Advanced([Emitted(c, Change("status_update", old, new))
                           EXCEPT !.state = new]))
     /\ Goto(c, "loop")

\* One part of an artifact; the first text is kept if there is none yet.
ArtifactPart(c, ok) ==
  LET t == Current(c).parts[loc[c].part]
      emitted == [Emitted(c, Text("artifact", t)) EXCEPT
                    !.text = IF @ = NoText THEN t ELSE @]
  IN /\ AtEvent(c, "artifact_update")
     /\ loc[c].part <= Len(Current(c).parts)
     /\ IF t # NoText
          THEN /\ Record(c, Text("artifact", t), ok)
               /\ Set(c, [emitted EXCEPT !.part = @ + 1])
          ELSE /\ Set(c, [loc[c] EXCEPT !.part = @ + 1])
               /\ UNCHANGED <<db, lost>>
     /\ UNCHANGED pc

ArtifactEnd(c) ==
  /\ AtEvent(c, "artifact_update")
  /\ loc[c].part > Len(Current(c).parts)
  /\ Set(c, Advanced(loc[c]))
  /\ UNCHANGED <<db, pc, lost>>

\* Mutant: a text is kept if there is one already.
MessagePart_First(c) ==
  LET t == Current(c).parts[loc[c].part]
  IN /\ AtEvent(c, "message")
     /\ loc[c].part <= Len(Current(c).parts)
     /\ Set(c, [loc[c] EXCEPT !.text = IF @ = NoText THEN t ELSE @, !.part = @ + 1])
     /\ UNCHANGED <<db, pc, lost>>

\* One part of a message: its text, if it has one, replaces any other.
MessagePart(c) ==
  LET t == Current(c).parts[loc[c].part]
  IN /\ AtEvent(c, "message")
     /\ loc[c].part <= Len(Current(c).parts)
     /\ Set(c, [loc[c] EXCEPT !.text = IF t # NoText THEN t ELSE @, !.part = @ + 1])
     /\ UNCHANGED <<db, pc, lost>>

MessageEnd(c) ==
  /\ AtEvent(c, "message")
  /\ loc[c].part > Len(Current(c).parts)
  /\ Set(c, Advanced(Emitted(c, Text("message", loc[c].text))))
  /\ UNCHANGED <<db, pc, lost>>

\* An event of an unknown type is emitted raw.
UnknownEvent(c) ==
  /\ AtEvent(c, "unknown")
  /\ Set(c, Advanced(Emitted(c, Plain("unknown"))))
  /\ UNCHANGED <<db, pc, lost>>

\* Data that does not decode, or a status_update without a state.
SkipEvent(c) ==
  /\ AtEvent(c, "garbled") \/ (AtEvent(c, "status_update") /\ Current(c).state = NoText)
  /\ Set(c, Advanced(loc[c]))
  /\ UNCHANGED <<db, pc, lost>>

-----------------------------------------------------------------------------
(* Closing the task *)

\* Mutant: the task is not closed.
LoopEnd_NoRespond(c) ==
  /\ At(c, "loop")
  /\ ~HasEvent(c)
  /\ Set(c, [loc[c] EXCEPT !.text = IF @ = NoText THEN Empty ELSE @])
  /\ Goto(c, "agent_msg")
  /\ UNCHANGED <<db, lost>>

LoopEnd(c) ==
  /\ At(c, "loop")
  /\ ~HasEvent(c)
  /\ Set(c, [loc[c] EXCEPT !.text = IF @ = NoText THEN Empty ELSE @])
  /\ Goto(c, "respond")
  /\ UNCHANGED <<db, lost>>

\* Mutant: only task.State becomes RESPONDED.
Respond_LocalOnly(c, ok) ==
  /\ At(c, "respond")
  /\ Set(c, [loc[c] EXCEPT !.state = "RESPONDED"])
  /\ Goto(c, "agent_msg")
  /\ UNCHANGED <<db, lost>>

Respond(c, ok) ==
  /\ At(c, "respond")
  /\ UpdateState(c, "RESPONDED", ok)
  /\ Set(c, [loc[c] EXCEPT !.state = "RESPONDED"])
  /\ Goto(c, "agent_msg")

RecordAgentMessage(c, ok) ==
  /\ At(c, "agent_msg")
  /\ AddMessage(c, "agent", loc[c].text, ok)
  /\ Goto(c, "response_trace")
  /\ UNCHANGED loc

\* Mutant: the fallback text is not recorded in the trace.
RecordResponse_NoFallback(c, ok) ==
  /\ At(c, "response_trace")
  /\ Record(c, Text("response", IF loc[c].text = Empty THEN NoText ELSE loc[c].text), ok)
  /\ Set(c, Emitted(c, Text("response", loc[c].text)))
  /\ Goto(c, "ok")

RecordResponse(c, ok) ==
  /\ At(c, "response_trace")
  /\ Record(c, Text("response", loc[c].text), ok)
  /\ Set(c, Emitted(c, Text("response", loc[c].text)))
  /\ Goto(c, "ok")

\* The process stops: calls in progress are gone, the tables stay, and
\* nothing takes their tasks up again after the restart.
Crash ==
  /\ crashes < MaxCrashes
  /\ crashes' = crashes + 1
  /\ pc' = [c \in Calls |-> IF pc[c] \in Returned \cup {"idle"} THEN pc[c] ELSE "crashed"]
  /\ UNCHANGED <<db, loc, lost>>

Replies == UNION {[1 .. n -> AgentEvents] : n \in 0 .. MaxEvents}

Send(c) ==
  \/ \E inserted \in Outcomes, ok \in Outcomes :
       CreateTask(c, inserted, ok) \/ RecordUserMessage(c, inserted, ok)
  \/ \E ok \in Outcomes :
       RecordSend(c, ok) \/ RecordError(c, ok) \/ FailTask(c, ok)
  \/ \E events \in Replies : AgentAnswers(c, events)
  \/ AgentFails(c)

Replay(c) ==
  \/ \E ok \in Outcomes :
       \/ TaskEvent(c, ok) \/ TaskEventUpdate(c, ok)
       \/ StatusEvent(c, ok) \/ StatusTrace(c, ok)
       \/ ArtifactPart(c, ok)
  \/ ArtifactEnd(c) \/ MessagePart(c) \/ MessageEnd(c)
  \/ UnknownEvent(c) \/ SkipEvent(c)

Close(c) ==
  \/ LoopEnd(c)
  \/ \E ok \in Outcomes : Respond(c, ok) \/ RecordAgentMessage(c, ok) \/ RecordResponse(c, ok)

Next ==
  \/ \E c \in Calls :
       \/ \E x \in Contexts : Lookup(c, x)
       \/ Send(c) \/ Replay(c) \/ Close(c)
  \/ Crash

Spec == Init /\ [][Next]_vars

(***************************************************************************)
(* Fairness: the goroutine of a call runs, SQLite answers, and the HTTP    *)
(* client of the agent gives up after 60 seconds (client.go:22), so that a *)
(* call to an agent always ends.  Crashes are never forced.                *)
(***************************************************************************)
FairSpec == Spec /\ \A c \in Calls : WF_vars(Send(c) \/ Replay(c) \/ Close(c))

-----------------------------------------------------------------------------
(***************************************************************************)
(* Every variable has its type, and a call that replays an event stands on *)
(* an event of its reply.                                                  *)
(***************************************************************************)
TypeOK ==
  /\ tasks \in [Calls -> TaskRow \cup {NoTask}]
  /\ messages \in [Calls -> Seq(Message)]
  /\ trace \in [Calls -> Seq(Entry)]
  /\ pc \in [Calls -> PCs]
  /\ loc \in [Calls -> Locals]
  /\ crashes \in Nat
  /\ lost \in [Calls -> SUBSET {"state", "trace", "message"}]
  /\ \A c \in Calls :
       /\ pc[c] \in PCs \ {"idle", "create", "refused", "failed", "crashed"} =>
            tasks[c] # NoTask
       /\ pc[c] \in {"task_update", "status_trace"} => HasEvent(c)
       /\ loc[c].pos >= 1 /\ loc[c].part >= 1

Last(s) == s[Len(s)]

(***************************************************************************)
(* What the caller is told is what the tables say, if no write was lost.   *)
(* A call that succeeds leaves a RESPONDED task, one user and one agent    *)
(* message, and one response row, and the message, the row, the returned   *)
(* event and so the text Send returns are the same text                    *)
(* (messagebus.go:59-78, 235-259).  A call that fails leaves an ERROR task *)
(* with the rows send and error and no answer (114-119).                   *)
(***************************************************************************)
Outcome ==
  \A c \in Calls : lost[c] = {} =>
    /\ pc[c] = "ok" =>
         LET t == loc[c].text
         IN /\ tasks[c].state = "RESPONDED" /\ loc[c].state = "RESPONDED"
            /\ messages[c] = <<[role |-> "user", text |-> NoText],
                               [role |-> "agent", text |-> t]>>
            /\ trace[c] # <<>> /\ Last(trace[c]) = Text("response", t)
            /\ loc[c].out # <<>> /\ Last(loc[c].out) = Text("response", t)
    /\ pc[c] = "failed" /\ trace[c] # <<>> =>
         /\ tasks[c].state = "ERROR"
         /\ trace[c] = <<Plain("send"), Plain("error")>>
         /\ messages[c] = <<[role |-> "user", text |-> NoText]>>

(***************************************************************************)
(* Whatever writes fail and wherever the process stops, the rows of a task *)
(* tell one exchange in order: send only comes first, response and error   *)
(* only last, an update or an artifact never after an error                *)
(* (messagebus.go:112-252).                                                *)
(***************************************************************************)
TraceShape ==
  \A c \in Calls : \A i \in 1 .. Len(trace[c]) :
    /\ trace[c][i].type = "send" => i = 1
    /\ trace[c][i].type \in {"response", "error"} => i = Len(trace[c])
    /\ trace[c][i].type = "error" => \A j \in 1 .. (i - 1) : trace[c][j].type = "send"

\* The non-empty parts of the events of a kind, by position.
Spoken(events, kind) ==
  UNION {{<<i, j>> : j \in {k \in DOMAIN events[i].parts : events[i].parts[k] # NoText}} :
           i \in {m \in DOMAIN events : events[m].kind = kind}}
NotAfter(x, y) == x[1] < y[1] \/ (x[1] = y[1] /\ x[2] <= y[2])

(***************************************************************************)
(* The response text is the last text of any message; without one, the     *)
(* first text of any artifact; without one, "(empty)": an artifact that    *)
(* follows a message never replaces it (messagebus.go:181-238).            *)
(***************************************************************************)
ResponsePrecedence ==
  \A c \in Calls : pc[c] = "ok" =>
    LET events == loc[c].inbox
        said == Spoken(events, "message")
        made == Spoken(events, "artifact_update")
    IN /\ \A x \in said : (\A y \in said : NotAfter(y, x)) =>
            loc[c].text = events[x[1]].parts[x[2]]
       /\ said = {} => \A x \in made : (\A y \in made : NotAfter(x, y)) =>
            loc[c].text = events[x[1]].parts[x[2]]
       /\ said = {} /\ made = {} => loc[c].text = Empty

Updates(entries) == {i \in 1 .. Len(entries) : entries[i].type = "status_update"}

(***************************************************************************)
(* The status updates a caller receives form a chain from SUBMITTED to the *)
(* state the call is in, even when every write to the task fails; and if   *)
(* none failed the row never lags behind the chain once the update is      *)
(* traced (messagebus.go:157-179).                                         *)
(***************************************************************************)
StatusChain ==
  \A c \in Calls :
    LET out == loc[c].out
        ups == Updates(out)
    IN /\ \A i \in ups :
            /\ (\A j \in ups : j >= i) => out[i].old = "SUBMITTED"
            /\ \A k \in ups : k > i /\ (\A j \in ups : j <= i \/ j >= k) =>
                 out[k].old = out[i].new
            /\ pc[c] = "loop" /\ (\A j \in ups : j <= i) => loc[c].state = out[i].new
       /\ pc[c] \in {"loop", "task_update", "respond"} /\ "state" \notin lost[c] =>
            tasks[c].state = loc[c].state

(***************************************************************************)
(* A call that opened a task returns, and without crashes and lost writes  *)
(* its task is closed by then, RESPONDED or ERROR (messagebus.go:82-260).  *)
(***************************************************************************)
TaskCloses ==
  \A c \in Calls :
    tasks[c] # NoTask ~> /\ pc[c] \in {"ok", "failed"}
                        /\ tasks[c] # NoTask
                        /\ tasks[c].state \in {"RESPONDED", "ERROR"}

-----------------------------------------------------------------------------
(* The promise of a call                                                   *)

PhaseOf(place) ==
  CASE place \in {"idle", "create"} -> "new"
    [] place \in {"user", "send"} -> "open"
    [] place \in {"agent_msg", "response_trace"} -> "responded"
    [] place \in Returned -> place
    [] place = "crashed" -> "lost"
    [] OTHER -> "asked"

ResponseTexts(entries) ==
  {entries[i].text : i \in {j \in 1 .. Len(entries) : entries[j].type = "response"}}
AnswerTexts(rows) == {rows[i].text : i \in {j \in 1 .. Len(rows) : rows[j].role = "agent"}}
Copies(c) ==
  AnswerTexts(messages[c]) \cup ResponseTexts(trace[c]) \cup ResponseTexts(loc[c].out)

Ledger == INSTANCE TaskLedger WITH
  States <- AgentStates,
  Texts <- Texts \cup {Empty},
  MayLose <- DBMayFail,
  row <- [c \in Calls |-> IF tasks[c] = NoTask THEN "none" ELSE tasks[c].state],
  phase <- [c \in Calls |-> PhaseOf(pc[c])],
  copies <- [c \in Calls |-> Copies(c)]

(***************************************************************************)
(* MessageBus implements TaskLedger: one task per call, moved only while   *)
(* the agent is asked, closed once and before the caller is told, and no   *)
(* two copies of the response differ, whichever of them are written        *)
(* (messagebus.go:82-260).                                                 *)
(***************************************************************************)
ImplementsLedger == Ledger!Spec

=============================================================================
