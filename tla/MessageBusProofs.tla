-------------------------- MODULE MessageBusProofs --------------------------
(***************************************************************************)
(* Proofs about MessageBus, for every set of calls, contexts, texts and    *)
(* agent events and every bound.                                           *)
(***************************************************************************)
EXTENDS MessageBus, TLAPS

(***************************************************************************)
(* The records the code writes and keeps have their types.                 *)
(***************************************************************************)
LEMMA EntryType ==
  /\ \A type \in {"send", "task_created", "error", "unknown"} : Plain(type) \in Entry
  /\ \A type \in {"task", "task_update", "status_update"}, s, t \in States :
       Change(type, s, t) \in Entry
  /\ \A type \in {"artifact", "message", "response"}, t \in Texts \cup {Empty} :
       Text(type, t) \in Entry
  BY MessageBusAssumption
  DEF MessageBusAssumption, Entry, Plain, Change, Text, States

\* The locals with which a call begins have their type.
LEMMA NullLocalsType == \A x \in Contexts : [NullLocals EXCEPT !.ctx = x] \in Locals
<1>1. <<>> \in Seq(Event) /\ <<>> \in Seq(Entry)
  OBVIOUS
<1> QED
  BY <1>1, MessageBusAssumption DEF MessageBusAssumption, NullLocals, Locals, States

(***************************************************************************)
(* What TypeOK says of one call and its pc and position.                   *)
(***************************************************************************)
Placed(c) ==
  /\ pc[c] \in PCs \ {"idle", "create", "refused", "failed", "crashed"} =>
       tasks[c] # NoTask
  /\ pc[c] \in {"task_update", "status_trace"} => HasEvent(c)
  /\ loc[c].pos >= 1 /\ loc[c].part >= 1

(***************************************************************************)
(* A write of a row, a state or a message preserves the types of the       *)
(* tables, whether it succeeds or not.                                     *)
(***************************************************************************)
LEMMA RecordType ==
  ASSUME TypeOK, NEW c \in Calls, NEW e \in Entry, NEW ok, Record(c, e, ok)
  PROVE  /\ trace' \in [Calls -> Seq(Entry)]
         /\ lost' \in [Calls -> SUBSET {"state", "trace", "message"}]
         /\ UNCHANGED <<tasks, messages>>
<1>1. trace[c] \in Seq(Entry) /\ Append(trace[c], e) \in Seq(Entry)
  <2> QED BY DEF TypeOK
<1>2. trace' \in [Calls -> Seq(Entry)]
  BY <1>1 DEF Record, TypeOK
<1>3. lost' \in [Calls -> SUBSET {"state", "trace", "message"}]
  BY DEF Record, Note, TypeOK
<1> QED
  BY <1>2, <1>3 DEF Record

\* UpdateState keeps the types of the variables it writes.
LEMMA UpdateStateType ==
  ASSUME TypeOK, NEW c \in Calls, NEW s \in States, NEW ok,
         tasks[c] # NoTask, UpdateState(c, s, ok)
  PROVE  /\ tasks' \in [Calls -> TaskRow \cup {NoTask}]
         /\ tasks'[c] # NoTask
         /\ \A d \in Calls \ {c} : tasks'[d] = tasks[d]
         /\ lost' \in [Calls -> SUBSET {"state", "trace", "message"}]
         /\ UNCHANGED <<messages, trace>>
<1> DEFINE row == [tasks[c] EXCEPT !.state = s]
<1>1. row \in TaskRow /\ tasks[c] \in TaskRow
  BY DEF TypeOK, TaskRow
<1>2. tasks' = [tasks EXCEPT ![c] = IF ok THEN row ELSE tasks[c]]
  BY DEF UpdateState
<1> HIDE DEF row
<1>3. lost' \in [Calls -> SUBSET {"state", "trace", "message"}]
  BY DEF UpdateState, Note, TypeOK
<1> QED
  BY <1>1, <1>2, <1>3, MessageBusAssumption DEF MessageBusAssumption, UpdateState, TypeOK

\* Adding a message keeps the types of the variables it writes.
LEMMA AddMessageType ==
  ASSUME TypeOK, NEW c \in Calls, NEW role \in {"user", "agent"},
         NEW t \in Texts \cup {Empty}, NEW ok, AddMessage(c, role, t, ok)
  PROVE  /\ messages' \in [Calls -> Seq(Message)]
         /\ lost' \in [Calls -> SUBSET {"state", "trace", "message"}]
         /\ UNCHANGED <<tasks, trace>>
<1> DEFINE m == [role |-> role, text |-> t]
<1>1. m \in Message
  BY DEF Message
<1>2. messages' = [messages EXCEPT ![c] = IF ok THEN Append(messages[c], m) ELSE messages[c]]
  BY DEF AddMessage
<1> HIDE DEF m
<1>3. Append(messages[c], m) \in Seq(Message) /\ messages[c] \in Seq(Message)
  BY <1>1 DEF TypeOK
<1>4. lost' \in [Calls -> SUBSET {"state", "trace", "message"}]
  BY DEF AddMessage, Note, TypeOK
<1> QED
  BY <1>2, <1>3, <1>4 DEF AddMessage, TypeOK

(***************************************************************************)
(* The local variables of a call keep their types when an entry is emitted *)
(* and when the call moves to the next event, and the event a call stands  *)
(* on is an event.                                                         *)
(***************************************************************************)
LEMMA EmittedType ==
  ASSUME NEW c \in Calls, NEW e \in Entry, loc[c] \in Locals
  PROVE  /\ Emitted(c, e) \in Locals
         /\ Emitted(c, e).pos = loc[c].pos /\ Emitted(c, e).part = loc[c].part
         /\ Emitted(c, e).text = loc[c].text
<1>1. Append(loc[c].out, e) \in Seq(Entry)
  BY DEF Locals
<1> QED
  BY <1>1 DEF Emitted, Locals

\* Going on to the next event keeps the type of the locals.
LEMMA AdvancedType ==
  ASSUME NEW l \in Locals
  PROVE  /\ Advanced(l) \in Locals
         /\ Advanced(l).pos >= 1 /\ Advanced(l).part = 1
         /\ Advanced(l).state = l.state /\ Advanced(l).out = l.out
<1> DEFINE m == [l EXCEPT !.pos = l.pos + 1]
<1>1. /\ m \in Locals /\ m.pos >= 1
      /\ m.state = l.state /\ m.out = l.out
  BY DEF Locals
<1> DEFINE n == [m EXCEPT !.part = 1]
<1>2. Advanced(l) = n
  BY Zenon DEF Advanced
<1> HIDE DEF m
<1>3. /\ n \in Locals /\ n.pos >= 1 /\ n.part = 1
      /\ n.state = m.state /\ n.out = m.out
  BY <1>1 DEF Locals
<1> HIDE DEF n
<1> QED
  BY <1>1, <1>2, <1>3

\* A call that stands on an event of its reply stands on an event.
LEMMA CurrentType ==
  ASSUME TypeOK, NEW c \in Calls, HasEvent(c)
  PROVE  /\ Current(c) \in Event
         /\ Current(c).state \in AgentStates /\ Current(c).ctx \in Contexts
         /\ Current(c).parts \in Seq(Texts)
<1>1. loc[c].inbox \in Seq(Event) /\ loc[c].pos \in 1 .. Len(loc[c].inbox)
  <2>1. loc[c].inbox \in Seq(Event) /\ loc[c].pos \in Nat /\ loc[c].pos >= 1
    BY DEF TypeOK, Locals
  <2> QED BY <2>1 DEF HasEvent
<1>2. Current(c) \in Event
  <2> QED BY <1>1 DEF Current
<1> QED
  BY <1>2 DEF Event

(***************************************************************************)
(* A step of call c preserves TypeOK if it preserves the types of what it  *)
(* changes and leaves the other calls alone.                               *)
(***************************************************************************)
LEMMA TypeStep ==
  ASSUME TypeOK, NEW c \in Calls, NEW label \in PCs, Goto(c, label),
         tasks' \in [Calls -> TaskRow \cup {NoTask}],
         \A d \in Calls \ {c} : tasks'[d] = tasks[d],
         messages' \in [Calls -> Seq(Message)],
         trace' \in [Calls -> Seq(Entry)],
         lost' \in [Calls -> SUBSET {"state", "trace", "message"}],
         loc' \in [Calls -> Locals],
         \A d \in Calls \ {c} : loc'[d] = loc[d],
         UNCHANGED crashes,
         Placed(c)'
  PROVE  TypeOK'
<1>1. pc' \in [Calls -> PCs] /\ \A d \in Calls \ {c} : pc'[d] = pc[d]
  BY DEF TypeOK, Goto
<1>2. ASSUME NEW d \in Calls \ {c} PROVE Placed(d)'
  BY <1>1 DEF TypeOK, Placed, HasEvent
<1>3. \A d \in Calls : Placed(d)'
  BY <1>2
<1> QED
  BY <1>1, <1>3 DEF TypeOK, Placed

\* Assigning one entry of a function keeps its type.
LEMMA SetType ==
  ASSUME TypeOK, NEW c \in Calls, NEW l \in Locals, Set(c, l)
  PROVE  /\ loc' \in [Calls -> Locals] /\ loc'[c] = l
         /\ \A d \in Calls \ {c} : loc'[d] = loc[d]
  BY DEF TypeOK, Set

(***************************************************************************)
(* Opening a task and calling the agent preserve the types                 *)
(* (messagebus.go:82-119).                                                 *)
(***************************************************************************)
LEMMA TypeSend ==
  ASSUME TypeOK, NEW c \in Calls,
         \/ \E x \in Contexts : Lookup(c, x)
         \/ Send(c)
  PROVE  TypeOK'
<1> USE DEF At, Placed, PCs, Returned
<1>0. /\ pc[c] \in PCs /\ loc[c] \in Locals /\ loc[c].ctx \in Contexts
      /\ Plain("send") \in Entry /\ Plain("error") \in Entry
      /\ "ERROR" \in States /\ "SUBMITTED" \in States
      /\ NoText \in Texts \cup {Empty}
  BY EntryType, MessageBusAssumption
  DEF TypeOK, Locals, States, MessageBusAssumption
<1>1. ASSUME NEW x \in Contexts, Lookup(c, x) PROVE TypeOK'
  <2> DEFINE l == [NullLocals EXCEPT !.ctx = x]
  <2>1. l \in Locals /\ l.pos = 1 /\ l.part = 1
    BY NullLocalsType DEF NullLocals
  <2>2. Set(c, l) /\ pc[c] = "idle" /\ UNCHANGED <<tasks, messages, trace, lost, crashes>>
        /\ (Goto(c, "create") \/ Goto(c, "refused"))
    BY <1>1 DEF Lookup, db
  <2> HIDE DEF l
  <2>3. /\ loc' \in [Calls -> Locals] /\ loc'[c] = l
        /\ \A d \in Calls \ {c} : loc'[d] = loc[d]
    BY <2>1, <2>2, SetType
  <2>4. pc'[c] \in {"create", "refused"}
    BY <2>2 DEF Goto, TypeOK
  <2>5. Placed(c)'
    BY <2>1, <2>3, <2>4
  <2>6. /\ tasks' \in [Calls -> TaskRow \cup {NoTask}] /\ messages' \in [Calls -> Seq(Message)]
        /\ trace' \in [Calls -> Seq(Entry)]
        /\ lost' \in [Calls -> SUBSET {"state", "trace", "message"}]
        /\ \A d \in Calls \ {c} : tasks'[d] = tasks[d]
    BY <2>2 DEF TypeOK
  <2> QED
    BY <2>2, <2>3, <2>5, <2>6, TypeStep
<1>2. ASSUME NEW inserted \in Outcomes, NEW ok \in Outcomes, CreateTask(c, inserted, ok)
      PROVE  TypeOK'
  <2> DEFINE row == [state |-> "SUBMITTED", ctx |-> loc[c].ctx]
  <2>1. row \in TaskRow
    BY <1>0 DEF TaskRow
  <2>2. tasks' = [tasks EXCEPT ![c] = IF inserted THEN row ELSE tasks[c]]
    BY <1>2 DEF CreateTask
  <2> HIDE DEF row
  <2>3. /\ tasks' \in [Calls -> TaskRow \cup {NoTask}]
        /\ \A d \in Calls \ {c} : tasks'[d] = tasks[d]
        /\ inserted => tasks'[c] # NoTask
    BY <2>1, <2>2, MessageBusAssumption DEF TypeOK, MessageBusAssumption
  <2>4. /\ Goto(c, IF ok THEN "user" ELSE "failed")
        /\ UNCHANGED <<messages, trace, loc, lost, crashes>>
        /\ ok => inserted
    BY <1>2 DEF CreateTask
  <2>5. pc'[c] = IF ok THEN "user" ELSE "failed"
    BY <2>4 DEF Goto, TypeOK
  <2>6. Placed(c)'
    BY <2>3, <2>4, <2>5 DEF TypeOK
  <2> QED
    BY <2>3, <2>4, <2>6, TypeStep DEF TypeOK
<1>3. ASSUME NEW inserted \in Outcomes, NEW ok \in Outcomes,
             RecordUserMessage(c, inserted, ok)
      PROVE  TypeOK'
  <2>1. /\ messages' \in [Calls -> Seq(Message)]
        /\ lost' \in [Calls -> SUBSET {"state", "trace", "message"}]
        /\ UNCHANGED <<tasks, trace>>
    BY <1>0, <1>3, AddMessageType DEF RecordUserMessage
  <2>2. /\ Goto(c, IF ok THEN "send" ELSE "failed")
        /\ pc[c] = "user" /\ UNCHANGED <<loc, crashes>>
    BY <1>3 DEF RecordUserMessage
  <2>3. pc'[c] \in {"send", "failed"}
    BY <2>2 DEF Goto, TypeOK
  <2>4. Placed(c)'
    BY <2>1, <2>2, <2>3 DEF TypeOK
  <2> QED
    BY <2>1, <2>2, <2>4, TypeStep DEF TypeOK
<1>4. ASSUME NEW ok \in Outcomes, RecordSend(c, ok) PROVE TypeOK'
  <2>1. /\ trace' \in [Calls -> Seq(Entry)]
        /\ lost' \in [Calls -> SUBSET {"state", "trace", "message"}]
        /\ UNCHANGED <<tasks, messages>>
    BY <1>0, <1>4, RecordType DEF RecordSend
  <2>2. Goto(c, "call") /\ pc[c] = "send" /\ UNCHANGED <<loc, crashes>>
    BY <1>4 DEF RecordSend
  <2>3. pc'[c] = "call"
    BY <2>2 DEF Goto, TypeOK
  <2>4. Placed(c)'
    BY <2>1, <2>2, <2>3 DEF TypeOK
  <2> QED
    BY <2>1, <2>2, <2>4, TypeStep DEF TypeOK
<1>5. ASSUME NEW ok \in Outcomes, RecordError(c, ok) PROVE TypeOK'
  <2>1. /\ trace' \in [Calls -> Seq(Entry)]
        /\ lost' \in [Calls -> SUBSET {"state", "trace", "message"}]
        /\ UNCHANGED <<tasks, messages>>
    BY <1>0, <1>5, RecordType DEF RecordError
  <2>2. Goto(c, "error_state") /\ pc[c] = "error_trace" /\ UNCHANGED <<loc, crashes>>
    BY <1>5 DEF RecordError
  <2>3. pc'[c] = "error_state"
    BY <2>2 DEF Goto, TypeOK
  <2>4. Placed(c)'
    BY <2>1, <2>2, <2>3 DEF TypeOK
  <2> QED
    BY <2>1, <2>2, <2>4, TypeStep DEF TypeOK
<1>6. ASSUME NEW ok \in Outcomes, FailTask(c, ok) PROVE TypeOK'
  <2>1. pc[c] = "error_state" /\ tasks[c] # NoTask
    BY <1>6 DEF FailTask, TypeOK
  <2>2. /\ tasks' \in [Calls -> TaskRow \cup {NoTask}]
        /\ \A d \in Calls \ {c} : tasks'[d] = tasks[d]
        /\ lost' \in [Calls -> SUBSET {"state", "trace", "message"}]
        /\ UNCHANGED <<messages, trace>>
    BY <1>0, <1>6, <2>1, UpdateStateType DEF FailTask
  <2>3. Goto(c, "failed") /\ UNCHANGED <<loc, crashes>>
    BY <1>6 DEF FailTask
  <2>4. pc'[c] = "failed"
    BY <2>3 DEF Goto, TypeOK
  <2>5. Placed(c)'
    BY <2>3, <2>4 DEF TypeOK
  <2> QED
    BY <2>2, <2>3, <2>5, TypeStep DEF TypeOK
<1>7. ASSUME NEW events \in Replies, AgentAnswers(c, events) PROVE TypeOK'
  <2> DEFINE l == [loc[c] EXCEPT !.inbox = events]
  <2>1. events \in Seq(Event)
    BY MessageBusAssumption DEF Replies, MessageBusAssumption
  <2>2. l \in Locals /\ l.pos = loc[c].pos /\ l.part = loc[c].part
    BY <1>0, <2>1 DEF Locals
  <2>3. /\ Set(c, l) /\ Goto(c, "loop") /\ pc[c] = "call"
        /\ UNCHANGED <<tasks, messages, trace, lost, crashes>>
    BY <1>7 DEF AgentAnswers, db
  <2> HIDE DEF l
  <2>4. /\ loc' \in [Calls -> Locals] /\ loc'[c] = l
        /\ \A d \in Calls \ {c} : loc'[d] = loc[d]
    BY <2>2, <2>3, SetType
  <2>5. pc'[c] = "loop"
    BY <2>3 DEF Goto, TypeOK
  <2>6. Placed(c)'
    BY <2>2, <2>3, <2>4, <2>5 DEF TypeOK
  <2> QED
    BY <2>3, <2>4, <2>6, TypeStep DEF TypeOK
<1>8. ASSUME AgentFails(c) PROVE TypeOK'
  <2>1. /\ Goto(c, "error_trace") /\ pc[c] = "call"
        /\ UNCHANGED <<tasks, messages, trace, loc, lost, crashes>>
    BY <1>8 DEF AgentFails, db
  <2>2. pc'[c] = "error_trace"
    BY <2>1 DEF Goto, TypeOK
  <2>3. Placed(c)'
    BY <2>1, <2>2 DEF TypeOK
  <2> QED
    BY <2>1, <2>3, TypeStep DEF TypeOK
<1> QED
  BY <1>1, <1>2, <1>3, <1>4, <1>5, <1>6, <1>7, <1>8 DEF Send

(***************************************************************************)
(* Replaying an event of the reply preserves the types                     *)
(* (messagebus.go:126-233).                                                *)
(***************************************************************************)
LEMMA TypeReplay ==
  ASSUME TypeOK, NEW c \in Calls, Replay(c)
  PROVE  TypeOK'
<1> USE DEF At, AtEvent, Placed, PCs, Returned
<1>0. /\ pc[c] \in PCs /\ loc[c] \in Locals
      /\ loc[c].state \in States /\ loc[c].ctx \in Contexts
      /\ loc[c].text \in Texts \cup {Empty}
      /\ loc[c].pos \in Nat /\ loc[c].pos >= 1
      /\ loc[c].part \in Nat /\ loc[c].part >= 1
      /\ Plain("task_created") \in Entry /\ Plain("unknown") \in Entry
      /\ "SUBMITTED" \in States /\ AgentStates \subseteq States
  BY EntryType DEF TypeOK, Locals, States
<1>1. ASSUME NEW ok \in Outcomes, TaskEvent(c, ok) PROVE TypeOK'
  <2>1. /\ trace' \in [Calls -> Seq(Entry)]
        /\ lost' \in [Calls -> SUBSET {"state", "trace", "message"}]
        /\ UNCHANGED <<tasks, messages>>
    BY <1>0, <1>1, RecordType DEF TaskEvent
  <2>2. /\ Goto(c, "task_update") /\ pc[c] = "loop" /\ HasEvent(c)
        /\ UNCHANGED <<loc, crashes>>
    BY <1>1 DEF TaskEvent
  <2>3. pc'[c] = "task_update"
    BY <2>2 DEF Goto, TypeOK
  <2>4. Placed(c)'
    BY <2>1, <2>2, <2>3 DEF TypeOK, HasEvent
  <2> QED
    BY <2>1, <2>2, <2>4, TypeStep DEF TypeOK
<1>2. ASSUME NEW ok \in Outcomes, TaskEventUpdate(c, ok) PROVE TypeOK'
  <2> PICK e \in Event : e = Current(c) /\ e.state \in AgentStates /\ e.ctx \in Contexts
    BY <1>2, CurrentType DEF TaskEventUpdate, TypeOK
  <2> DEFINE m == Emitted(c, Change("task", "SUBMITTED", e.state))
             l == [m EXCEPT !.ctx = IF m.ctx = NoText THEN e.ctx ELSE m.ctx]
  <2>1. /\ Change("task", "SUBMITTED", e.state) \in Entry
        /\ Change("task_update", "SUBMITTED", e.state) \in Entry
    BY <1>0, EntryType
  <2>2. m \in Locals
    BY <1>0, <2>1, EmittedType
  <2>3. /\ pc[c] = "task_update" /\ Goto(c, "loop") /\ Set(c, Advanced(l))
        /\ \/ Record(c, Change("task_update", "SUBMITTED", e.state), ok)
           \/ UNCHANGED <<tasks, messages, trace, lost>>
        /\ UNCHANGED crashes
    BY <1>2 DEF TaskEventUpdate, db
  <2> HIDE DEF m
  <2>4. l \in Locals
    BY <2>2 DEF Locals
  <2> HIDE DEF l
  <2>5. /\ trace' \in [Calls -> Seq(Entry)]
        /\ lost' \in [Calls -> SUBSET {"state", "trace", "message"}]
        /\ UNCHANGED <<tasks, messages>>
    BY <2>1, <2>3, RecordType DEF TypeOK
  <2>6. /\ loc' \in [Calls -> Locals] /\ loc'[c] = Advanced(l)
        /\ \A d \in Calls \ {c} : loc'[d] = loc[d]
    BY <2>3, <2>4, AdvancedType, SetType
  <2>7. pc'[c] = "loop"
    BY <2>3 DEF Goto, TypeOK
  <2>8. Placed(c)'
    <3>1. Advanced(l).pos >= 1 /\ Advanced(l).part = 1
      BY <2>4, AdvancedType
    <3>2. tasks'[c] # NoTask
      BY <2>3, <2>5 DEF TypeOK
    <3> QED
      BY <3>1, <3>2, <2>6, <2>7
  <2> QED
    BY <2>3, <2>5, <2>6, <2>8, TypeStep DEF TypeOK
<1>3. ASSUME NEW ok \in Outcomes, StatusEvent(c, ok) PROVE TypeOK'
  <2>1. pc[c] = "loop" /\ tasks[c] # NoTask /\ HasEvent(c)
    BY <1>3 DEF StatusEvent, TypeOK
  <2>2. Current(c).state \in States
    BY <1>0, <2>1, CurrentType
  <2>3. /\ tasks' \in [Calls -> TaskRow \cup {NoTask}]
        /\ \A d \in Calls \ {c} : tasks'[d] = tasks[d]
        /\ tasks'[c] # NoTask
        /\ lost' \in [Calls -> SUBSET {"state", "trace", "message"}]
        /\ UNCHANGED <<messages, trace>>
    BY <1>3, <2>1, <2>2, UpdateStateType DEF StatusEvent
  <2>4. Goto(c, "status_trace") /\ UNCHANGED <<loc, crashes>>
    BY <1>3 DEF StatusEvent
  <2>5. pc'[c] = "status_trace"
    BY <2>4 DEF Goto, TypeOK
  <2>6. Placed(c)'
    BY <2>1, <2>3, <2>4, <2>5 DEF TypeOK, HasEvent
  <2> QED
    BY <2>3, <2>4, <2>6, TypeStep DEF TypeOK
<1>4. ASSUME NEW ok \in Outcomes, StatusTrace(c, ok) PROVE TypeOK'
  <2> PICK new \in AgentStates : new = Current(c).state
    BY <1>4, CurrentType DEF StatusTrace, TypeOK
  <2> PICK old \in States : old = loc[c].state
    BY <1>0
  <2> DEFINE m == Emitted(c, Change("status_update", old, new))
             l == [m EXCEPT !.state = new]
  <2>1. /\ Change("status_update", old, new) \in Entry
        /\ Change("task_update", old, new) \in Entry
    BY <1>0, EntryType
  <2>2. m \in Locals
    BY <1>0, <2>1, EmittedType
  <2>3. /\ pc[c] = "status_trace" /\ Goto(c, "loop") /\ Set(c, Advanced(l))
        /\ Record(c, Change("task_update", old, new), ok)
        /\ UNCHANGED crashes
    BY <1>4 DEF StatusTrace
  <2> HIDE DEF m
  <2>4. l \in Locals
    BY <1>0, <2>2 DEF Locals
  <2> HIDE DEF l
  <2>5. /\ trace' \in [Calls -> Seq(Entry)]
        /\ lost' \in [Calls -> SUBSET {"state", "trace", "message"}]
        /\ UNCHANGED <<tasks, messages>>
    BY <2>1, <2>3, RecordType
  <2>6. /\ loc' \in [Calls -> Locals] /\ loc'[c] = Advanced(l)
        /\ \A d \in Calls \ {c} : loc'[d] = loc[d]
    BY <2>3, <2>4, AdvancedType, SetType
  <2>7. pc'[c] = "loop"
    BY <2>3 DEF Goto, TypeOK
  <2>8. Placed(c)'
    <3>1. Advanced(l).pos >= 1 /\ Advanced(l).part = 1
      BY <2>4, AdvancedType
    <3>2. tasks'[c] # NoTask
      BY <2>3, <2>5 DEF TypeOK
    <3> QED
      BY <3>1, <3>2, <2>6, <2>7
  <2> QED
    BY <2>3, <2>5, <2>6, <2>8, TypeStep DEF TypeOK
<1>5. ASSUME NEW ok \in Outcomes, ArtifactPart(c, ok) PROVE TypeOK'
  <2>1. pc[c] = "loop" /\ HasEvent(c) /\ loc[c].part <= Len(Current(c).parts)
    BY <1>5 DEF ArtifactPart
  <2> PICK t \in Texts : t = Current(c).parts[loc[c].part]
    BY <1>0, <2>1, CurrentType
  <2> DEFINE m == Emitted(c, Text("artifact", t))
             k == [m EXCEPT !.text = IF m.text = NoText THEN t ELSE m.text]
             l == [k EXCEPT !.part = k.part + 1]
             n == [loc[c] EXCEPT !.part = loc[c].part + 1]
  <2>2. Text("artifact", t) \in Entry
    BY EntryType
  <2>3. m \in Locals /\ m.pos >= 1 /\ m.part >= 1
    BY <1>0, <2>2, EmittedType
  <2>4. n \in Locals /\ n.pos >= 1 /\ n.part >= 1
    BY <1>0 DEF Locals
  <2>5. /\ \/ Record(c, Text("artifact", t), ok) /\ Set(c, l)
           \/ UNCHANGED <<tasks, messages, trace, lost>> /\ Set(c, n)
        /\ UNCHANGED <<pc, crashes>>
    BY <1>5 DEF ArtifactPart, db
  <2> HIDE DEF m, n
  <2>6. k \in Locals /\ k.pos >= 1 /\ k.part >= 1
    BY <2>3 DEF Locals
  <2> HIDE DEF k
  <2>7. l \in Locals /\ l.pos >= 1 /\ l.part >= 1
    BY <2>6 DEF Locals
  <2> HIDE DEF l
  <2>8. /\ trace' \in [Calls -> Seq(Entry)]
        /\ lost' \in [Calls -> SUBSET {"state", "trace", "message"}]
        /\ UNCHANGED <<tasks, messages>>
    BY <2>2, <2>5, RecordType DEF TypeOK
  <2>9. /\ loc' \in [Calls -> Locals] /\ loc'[c] \in {l, n}
        /\ \A d \in Calls \ {c} : loc'[d] = loc[d]
    BY <2>4, <2>5, <2>7, SetType
  <2>10. Goto(c, "loop")
    BY <2>1, <2>5 DEF Goto, TypeOK
  <2>11. Placed(c)'
    BY <2>1, <2>4, <2>5, <2>7, <2>8, <2>9 DEF TypeOK
  <2> QED
    BY <2>5, <2>8, <2>9, <2>10, <2>11, TypeStep DEF TypeOK
\* The other steps change only the locals, from l to the next event or part.
<1>6. ASSUME NEW l \in Locals, l.pos >= 1, l.part >= 1, Set(c, l), pc[c] = "loop",
             UNCHANGED <<db, pc, lost, crashes>>
      PROVE  TypeOK'
  <2>1. /\ loc' \in [Calls -> Locals] /\ loc'[c] = l
        /\ \A d \in Calls \ {c} : loc'[d] = loc[d]
    BY <1>6, SetType
  <2>2. Goto(c, "loop") /\ UNCHANGED <<tasks, messages, trace, lost, crashes>>
    BY <1>6 DEF Goto, TypeOK, db
  <2>3. Placed(c)'
    BY <1>6, <2>1, <2>2 DEF TypeOK
  <2> QED
    BY <2>1, <2>2, <2>3, TypeStep DEF TypeOK
<1>7. CASE ArtifactEnd(c)
  <2>1. Set(c, Advanced(loc[c])) /\ pc[c] = "loop" /\ UNCHANGED <<db, pc, lost, crashes>>
    BY <1>7 DEF ArtifactEnd
  <2> QED
    BY <1>0, <1>6, <2>1, AdvancedType
<1>8. CASE MessagePart(c)
  <2>1. pc[c] = "loop" /\ HasEvent(c) /\ loc[c].part <= Len(Current(c).parts)
    BY <1>8 DEF MessagePart
  <2> PICK t \in Texts : t = Current(c).parts[loc[c].part]
    BY <1>0, <2>1, CurrentType
  <2> DEFINE m == [loc[c] EXCEPT !.text = IF t # NoText THEN t ELSE loc[c].text]
             l == [m EXCEPT !.part = m.part + 1]
  <2>2. Set(c, l) /\ UNCHANGED <<db, pc, lost, crashes>>
    BY <1>8, Zenon DEF MessagePart
  <2>3. m \in Locals /\ m.pos >= 1 /\ m.part >= 1
    BY <1>0 DEF Locals
  <2> HIDE DEF m
  <2>4. l \in Locals /\ l.pos >= 1 /\ l.part >= 1
    BY <2>3 DEF Locals
  <2> HIDE DEF l
  <2> QED
    BY <1>6, <2>1, <2>2, <2>4
<1>9. CASE MessageEnd(c)
  <2>1. Text("message", loc[c].text) \in Entry
    BY <1>0, EntryType
  <2>2. Emitted(c, Text("message", loc[c].text)) \in Locals
    BY <1>0, <2>1, EmittedType
  <2>3. /\ Set(c, Advanced(Emitted(c, Text("message", loc[c].text))))
        /\ pc[c] = "loop" /\ UNCHANGED <<db, pc, lost, crashes>>
    BY <1>9 DEF MessageEnd
  <2> QED
    BY <1>6, <2>2, <2>3, AdvancedType
<1>10. CASE UnknownEvent(c)
  <2>1. Emitted(c, Plain("unknown")) \in Locals
    BY <1>0, EmittedType
  <2>2. /\ Set(c, Advanced(Emitted(c, Plain("unknown"))))
        /\ pc[c] = "loop" /\ UNCHANGED <<db, pc, lost, crashes>>
    BY <1>10 DEF UnknownEvent
  <2> QED
    BY <1>6, <2>1, <2>2, AdvancedType
<1>11. CASE SkipEvent(c)
  <2>1. Set(c, Advanced(loc[c])) /\ pc[c] = "loop" /\ UNCHANGED <<db, pc, lost, crashes>>
    BY <1>11 DEF SkipEvent
  <2> QED
    BY <1>0, <1>6, <2>1, AdvancedType
<1> QED
  BY <1>1, <1>2, <1>3, <1>4, <1>5, <1>7, <1>8, <1>9, <1>10, <1>11 DEF Replay

(***************************************************************************)
(* Closing the task preserves the types (messagebus.go:235-259).           *)
(***************************************************************************)
LEMMA TypeClose ==
  ASSUME TypeOK, NEW c \in Calls, Close(c)
  PROVE  TypeOK'
<1> USE DEF At, Placed, PCs, Returned
<1>0. /\ loc[c] \in Locals /\ loc[c].text \in Texts \cup {Empty}
      /\ loc[c].pos >= 1 /\ loc[c].part >= 1 /\ "RESPONDED" \in States
      /\ Text("response", loc[c].text) \in Entry
  BY EntryType DEF TypeOK, Locals, States
<1>1. CASE LoopEnd(c)
  <2> DEFINE l == [loc[c] EXCEPT !.text = IF loc[c].text = NoText THEN Empty ELSE loc[c].text]
  <2>1. l \in Locals /\ l.pos >= 1 /\ l.part >= 1
    BY <1>0 DEF Locals
  <2>2. /\ Set(c, l) /\ Goto(c, "respond") /\ pc[c] = "loop"
        /\ UNCHANGED <<tasks, messages, trace, lost, crashes>>
    BY <1>1 DEF LoopEnd, db
  <2> HIDE DEF l
  <2>3. /\ loc' \in [Calls -> Locals] /\ loc'[c] = l
        /\ \A d \in Calls \ {c} : loc'[d] = loc[d]
    BY <2>1, <2>2, SetType
  <2>4. pc'[c] = "respond"
    BY <2>2 DEF Goto, TypeOK
  <2>5. Placed(c)'
    BY <2>1, <2>2, <2>3, <2>4 DEF TypeOK
  <2> QED
    BY <2>2, <2>3, <2>5, TypeStep DEF TypeOK
<1>2. ASSUME NEW ok \in Outcomes, Respond(c, ok) PROVE TypeOK'
  <2> DEFINE l == [loc[c] EXCEPT !.state = "RESPONDED"]
  <2>1. l \in Locals /\ l.pos >= 1 /\ l.part >= 1
    BY <1>0 DEF Locals
  <2>2. /\ Set(c, l) /\ Goto(c, "agent_msg") /\ pc[c] = "respond"
        /\ UpdateState(c, "RESPONDED", ok) /\ UNCHANGED crashes
    BY <1>2 DEF Respond
  <2> HIDE DEF l
  <2>3. /\ tasks' \in [Calls -> TaskRow \cup {NoTask}]
        /\ \A d \in Calls \ {c} : tasks'[d] = tasks[d]
        /\ tasks'[c] # NoTask
        /\ lost' \in [Calls -> SUBSET {"state", "trace", "message"}]
        /\ UNCHANGED <<messages, trace>>
    BY <1>0, <2>2, UpdateStateType DEF TypeOK
  <2>4. /\ loc' \in [Calls -> Locals] /\ loc'[c] = l
        /\ \A d \in Calls \ {c} : loc'[d] = loc[d]
    BY <2>1, <2>2, SetType
  <2>5. pc'[c] = "agent_msg"
    BY <2>2 DEF Goto, TypeOK
  <2>6. Placed(c)'
    BY <2>1, <2>3, <2>4, <2>5
  <2> QED
    BY <2>2, <2>3, <2>4, <2>6, TypeStep DEF TypeOK
<1>3. ASSUME NEW ok \in Outcomes, RecordAgentMessage(c, ok) PROVE TypeOK'
  <2>1. /\ messages' \in [Calls -> Seq(Message)]
        /\ lost' \in [Calls -> SUBSET {"state", "trace", "message"}]
        /\ UNCHANGED <<tasks, trace>>
    BY <1>0, <1>3, AddMessageType DEF RecordAgentMessage
  <2>2. Goto(c, "response_trace") /\ pc[c] = "agent_msg" /\ UNCHANGED <<loc, crashes>>
    BY <1>3 DEF RecordAgentMessage
  <2>3. pc'[c] = "response_trace"
    BY <2>2 DEF Goto, TypeOK
  <2>4. Placed(c)'
    BY <2>1, <2>2, <2>3 DEF TypeOK
  <2> QED
    BY <2>1, <2>2, <2>4, TypeStep DEF TypeOK
<1>4. ASSUME NEW ok \in Outcomes, RecordResponse(c, ok) PROVE TypeOK'
  <2> DEFINE l == Emitted(c, Text("response", loc[c].text))
  <2>1. l \in Locals /\ l.pos >= 1 /\ l.part >= 1
    BY <1>0, EmittedType
  <2>2. /\ Set(c, l) /\ Goto(c, "ok") /\ pc[c] = "response_trace"
        /\ Record(c, Text("response", loc[c].text), ok) /\ UNCHANGED crashes
    BY <1>4 DEF RecordResponse
  <2> HIDE DEF l
  <2>3. /\ trace' \in [Calls -> Seq(Entry)]
        /\ lost' \in [Calls -> SUBSET {"state", "trace", "message"}]
        /\ UNCHANGED <<tasks, messages>>
    BY <1>0, <2>2, RecordType
  <2>4. /\ loc' \in [Calls -> Locals] /\ loc'[c] = l
        /\ \A d \in Calls \ {c} : loc'[d] = loc[d]
    BY <2>1, <2>2, SetType
  <2>5. pc'[c] = "ok"
    BY <2>2 DEF Goto, TypeOK
  <2>6. Placed(c)'
    BY <2>1, <2>2, <2>3, <2>4, <2>5 DEF TypeOK
  <2> QED
    BY <2>2, <2>3, <2>4, <2>6, TypeStep DEF TypeOK
<1> QED
  BY <1>1, <1>2, <1>3, <1>4 DEF Close

\* The tables are empty and no call has begun.
LEMMA TypeStarts == Init => TypeOK
<1> SUFFICES ASSUME Init PROVE TypeOK
  OBVIOUS
<1>1. NullLocals \in Locals /\ NullLocals.pos = 1 /\ NullLocals.part = 1
  BY MessageBusAssumption DEF MessageBusAssumption, NullLocals, Locals, States
<1>2. /\ tasks = [c \in Calls |-> NoTask] /\ messages = [c \in Calls |-> <<>>]
      /\ trace = [c \in Calls |-> <<>>] /\ pc = [c \in Calls |-> "idle"]
      /\ loc = [c \in Calls |-> NullLocals] /\ crashes = 0
      /\ lost = [c \in Calls |-> {}]
  BY DEF Init
<1> QED
  BY <1>1, <1>2 DEF TypeOK, PCs, Returned

(***************************************************************************)
(* Every variable has its type in every reachable state.                   *)
(***************************************************************************)
THEOREM TypeCorrect == Spec => []TypeOK
<1>1. TypeOK /\ [Next]_vars => TypeOK'
  <2> SUFFICES ASSUME TypeOK, [Next]_vars PROVE TypeOK'
    OBVIOUS
  <2>1. CASE UNCHANGED vars
    BY <2>1 DEF vars, TypeOK, HasEvent
  <2>2. CASE Crash
    <3>1. /\ pc' \in [Calls -> PCs]
          /\ \A c \in Calls : pc'[c] \in {pc[c], "crashed"}
      BY <2>2 DEF Crash, TypeOK, PCs, Returned
    <3> QED
      BY <2>2, <3>1 DEF Crash, TypeOK, db, HasEvent
  <2> QED
    BY <2>1, <2>2, TypeSend, TypeReplay, TypeClose DEF Next
<1> QED
  BY <1>1, TypeStarts, PTL DEF Spec

-----------------------------------------------------------------------------
(***************************************************************************)
(* The order of the rows.  TraceShape alone is not inductive: that a       *)
(* response may be appended depends on where the call stands.  So the      *)
(* invariant adds what the trace of a call can hold at each place: nothing *)
(* before the send, at most a send row while the agent works, and no       *)
(* closing row before the call closes.                                     *)
(***************************************************************************)
Opening == {"idle", "create", "user", "send", "refused"}
Waiting == {"call", "error_trace"}
Replaying == {"loop", "task_update", "status_trace", "respond", "agent_msg", "response_trace"}

OnlySend(s) == \A i \in 1 .. Len(s) : i = 1 /\ s[i].type = "send"
Unclosed(s) ==
  \A i \in 1 .. Len(s) :
    /\ s[i].type \notin {"response", "error"}
    /\ s[i].type = "send" => i = 1
Shaped(s) ==
  \A i \in 1 .. Len(s) :
    /\ s[i].type = "send" => i = 1
    /\ s[i].type \in {"response", "error"} => i = Len(s)
    /\ s[i].type = "error" => \A j \in 1 .. (i - 1) : s[j].type = "send"

ShapeInv(c) ==
  /\ pc[c] \in Opening => trace[c] = <<>>
  /\ pc[c] \in Waiting => OnlySend(trace[c])
  /\ pc[c] \in Replaying => Unclosed(trace[c])
  /\ Shaped(trace[c])

SInv == TypeOK /\ \A c \in Calls : ShapeInv(c)

(***************************************************************************)
(* A trace stays in shape when the row its place allows is appended.       *)
(***************************************************************************)
LEMMA AppendShape ==
  ASSUME NEW s \in Seq(Entry), NEW e \in Entry
  PROVE  /\ s = <<>> /\ e.type = "send" => OnlySend(Append(s, e))
         /\ Unclosed(s) /\ e.type \notin {"send", "response", "error"} =>
              Unclosed(Append(s, e))
         /\ Unclosed(s) /\ e.type = "response" => Shaped(Append(s, e))
         /\ OnlySend(s) /\ e.type = "error" => Shaped(Append(s, e))
<1> DEFINE t == Append(s, e)
<1>1. /\ Len(t) = Len(s) + 1 /\ Len(s) \in Nat
      /\ \A i \in 1 .. Len(s) : t[i] = s[i]
      /\ t[Len(s) + 1] = e
  OBVIOUS
<1>2. \A i \in 1 .. Len(t) : i \in 1 .. Len(s) \/ (i = Len(s) + 1 /\ t[i] = e)
  BY <1>1
<1>3. s = <<>> => Len(s) = 0
  OBVIOUS
<1> HIDE DEF t
<1>4. s = <<>> /\ e.type = "send" => OnlySend(t)
  BY <1>1, <1>2, <1>3 DEF OnlySend
<1>5. Unclosed(s) /\ e.type \notin {"send", "response", "error"} => Unclosed(t)
  BY <1>1, <1>2 DEF Unclosed
<1>6. Unclosed(s) /\ e.type = "response" => Shaped(t)
  BY <1>1, <1>2 DEF Unclosed, Shaped
<1>7. OnlySend(s) /\ e.type = "error" => Shaped(t)
  BY <1>1, <1>2 DEF OnlySend, Shaped
<1> QED
  BY <1>4, <1>5, <1>6, <1>7 DEF t

\* What is said of a trace at one place implies what is said at a later one.
LEMMA ShapeWeakens ==
  ASSUME NEW s \in Seq(Entry)
  PROVE  /\ OnlySend(s) => Unclosed(s)
         /\ Unclosed(s) => Shaped(s)
         /\ s = <<>> => OnlySend(s)
  BY DEF OnlySend, Unclosed, Shaped

(***************************************************************************)
(* The rows a call writes have the type they are named for.                *)
(***************************************************************************)
LEMMA RowTypes ==
  /\ \A type \in {"send", "task_created", "error"} : Plain(type).type = type
  /\ \A s, t \in States : Change("task_update", s, t).type = "task_update"
  /\ \A type \in {"artifact", "response"}, t \in Texts \cup {Empty} : Text(type, t).type = type
  BY DEF Plain, Change, Text

(***************************************************************************)
(* A step of call c preserves the shape of the others, and of its own      *)
(* trace when it writes no row and moves to a place that asks for no more. *)
(***************************************************************************)
LEMMA ShapeOthers ==
  ASSUME SInv, NEW c \in Calls, NEW label, Goto(c, label),
         \A d \in Calls \ {c} : trace'[d] = trace[d]
  PROVE  pc'[c] = label /\ \A d \in Calls \ {c} : ShapeInv(d)'
  BY DEF SInv, TypeOK, Goto, ShapeInv

\* What a trace looks like after Record.
LEMMA RecordShape ==
  ASSUME SInv, NEW c \in Calls, NEW e \in Entry, NEW ok, Record(c, e, ok)
  PROVE  /\ trace'[c] \in {trace[c], Append(trace[c], e)}
         /\ \A d \in Calls \ {c} : trace'[d] = trace[d]
  BY DEF SInv, TypeOK, Record

(***************************************************************************)
(* Every step of a call preserves the shape (messagebus.go:82-259).        *)
(***************************************************************************)
LEMMA ShapeStep ==
  ASSUME SInv, NEW c \in Calls,
         \/ \E x \in Contexts : Lookup(c, x)
         \/ Send(c) \/ Replay(c) \/ Close(c)
  PROVE  \A d \in Calls : ShapeInv(d)'
<1> USE DEF SInv, At, AtEvent
<1> DEFINE Keeps == \A d \in Calls : ShapeInv(d)'
<1>0. /\ trace[c] \in Seq(Entry) /\ ShapeInv(c) /\ loc[c] \in Locals
      /\ loc[c].text \in Texts \cup {Empty} /\ loc[c].state \in States
      /\ "SUBMITTED" \in States /\ AgentStates \subseteq States
  BY DEF TypeOK, Locals, States
\* Steps that write no row.
<1>1. ASSUME NEW label, Goto(c, label), trace' = trace,
             \/ pc[c] \in Opening /\ label \in Opening \cup {"failed"}
             \/ pc[c] \in Waiting /\ label \in Waiting \cup Replaying
             \/ pc[c] \in Replaying /\ label \in Replaying
             \/ pc[c] = "error_state" /\ label = "failed"
      PROVE  Keeps
  <2>1. pc'[c] = label /\ \A d \in Calls \ {c} : ShapeInv(d)'
    BY <1>1, ShapeOthers
  <2>2. ShapeInv(c)'
    BY <1>0, <1>1, <2>1, ShapeWeakens DEF ShapeInv, Opening, Waiting, Replaying
  <2> QED
    BY <2>1, <2>2
\* Steps that may write one.
<1>2. ASSUME NEW label, NEW e \in Entry, NEW ok, Goto(c, label), Record(c, e, ok),
             \/ pc[c] \in Opening /\ e.type = "send" /\ label \in Waiting
             \/ pc[c] \in Waiting /\ e.type = "error" /\ label = "error_state"
             \/ pc[c] \in Replaying /\ e.type = "response" /\ label = "ok"
             \/ /\ pc[c] \in Replaying /\ label \in Replaying
                /\ e.type \notin {"send", "response", "error"}
      PROVE  Keeps
  <2>1. /\ trace'[c] \in {trace[c], Append(trace[c], e)}
        /\ \A d \in Calls \ {c} : trace'[d] = trace[d]
    BY <1>2, RecordShape
  <2>2. pc'[c] = label /\ \A d \in Calls \ {c} : ShapeInv(d)'
    BY <1>2, <2>1, ShapeOthers
  <2>3. Append(trace[c], e) \in Seq(Entry)
    BY <1>0
  <2>4. ShapeInv(c)'
    BY <1>0, <1>2, <2>1, <2>2, <2>3, AppendShape, ShapeWeakens
    DEF ShapeInv, Opening, Waiting, Replaying
  <2> QED
    BY <2>2, <2>4
<1> HIDE DEF Keeps
<1>3. ASSUME NEW x \in Contexts, Lookup(c, x) PROVE Keeps
  BY <1>1, <1>3 DEF Lookup, Opening, db
<1>4. ASSUME Send(c) PROVE Keeps
  <2>1. ASSUME NEW inserted \in Outcomes, NEW ok \in Outcomes,
               CreateTask(c, inserted, ok) \/ RecordUserMessage(c, inserted, ok)
        PROVE  Keeps
    BY <1>1, <2>1 DEF CreateTask, RecordUserMessage, AddMessage, Opening
  <2>2. ASSUME NEW ok \in Outcomes, RecordSend(c, ok) PROVE Keeps
    BY <1>2, <2>2, EntryType, RowTypes DEF RecordSend, Opening, Waiting
  <2>3. ASSUME NEW ok \in Outcomes, RecordError(c, ok) PROVE Keeps
    BY <1>2, <2>3, EntryType, RowTypes DEF RecordError, Waiting
  <2>4. ASSUME NEW ok \in Outcomes, FailTask(c, ok) PROVE Keeps
    BY <1>1, <2>4 DEF FailTask, UpdateState
  <2>5. ASSUME NEW events, AgentAnswers(c, events) PROVE Keeps
    BY <1>1, <2>5 DEF AgentAnswers, db, Waiting, Replaying
  <2>6. ASSUME AgentFails(c) PROVE Keeps
    BY <1>1, <2>6 DEF AgentFails, db, Waiting
  <2> QED
    BY <1>4, <2>1, <2>2, <2>3, <2>4, <2>5, <2>6 DEF Send
<1>5. ASSUME Replay(c) PROVE Keeps
  <2>1. ASSUME NEW ok \in Outcomes, TaskEvent(c, ok) PROVE Keeps
    BY <1>2, <2>1, EntryType, RowTypes DEF TaskEvent, Replaying
  <2>2. ASSUME NEW ok \in Outcomes, TaskEventUpdate(c, ok) PROVE Keeps
    <3> PICK s \in States : s = Current(c).state
      BY <1>0, <2>2, CurrentType DEF TaskEventUpdate, TypeOK
    <3>1. /\ Change("task_update", "SUBMITTED", s) \in Entry
          /\ Change("task_update", "SUBMITTED", s).type = "task_update"
      BY <1>0, EntryType, RowTypes
    <3>2. /\ pc[c] = "task_update" /\ Goto(c, "loop")
          /\ Record(c, Change("task_update", "SUBMITTED", s), ok) \/ trace' = trace
      BY <2>2 DEF TaskEventUpdate, db
    <3> QED
      BY <1>1, <1>2, <3>1, <3>2 DEF Replaying
  <2>3. ASSUME NEW ok \in Outcomes, StatusEvent(c, ok) PROVE Keeps
    BY <1>1, <2>3 DEF StatusEvent, UpdateState, Replaying
  <2>4. ASSUME NEW ok \in Outcomes, StatusTrace(c, ok) PROVE Keeps
    <3> PICK s \in States : s = Current(c).state
      BY <1>0, <2>4, CurrentType DEF StatusTrace, TypeOK
    <3>1. /\ Change("task_update", loc[c].state, s) \in Entry
          /\ Change("task_update", loc[c].state, s).type = "task_update"
      BY <1>0, EntryType, RowTypes
    <3>2. /\ pc[c] = "status_trace" /\ Goto(c, "loop")
          /\ Record(c, Change("task_update", loc[c].state, s), ok)
      BY <2>4 DEF StatusTrace
    <3> QED
      BY <1>2, <3>1, <3>2 DEF Replaying
  <2>5. ASSUME UNCHANGED pc, pc[c] = "loop" PROVE Goto(c, "loop")
    BY <2>5 DEF Goto, TypeOK
  <2>6. ASSUME NEW ok \in Outcomes, ArtifactPart(c, ok) PROVE Keeps
    <3>1. /\ pc[c] = "loop" /\ UNCHANGED pc /\ HasEvent(c)
          /\ loc[c].part <= Len(Current(c).parts) /\ loc[c].part \in Nat /\ loc[c].part >= 1
      BY <1>0, <2>6 DEF ArtifactPart, Locals, TypeOK
    <3> PICK t \in Texts : t = Current(c).parts[loc[c].part]
      BY <3>1, CurrentType
    <3>2. Text("artifact", t) \in Entry /\ Text("artifact", t).type = "artifact"
      BY EntryType, RowTypes
    <3>3. Record(c, Text("artifact", t), ok) \/ trace' = trace
      BY <2>6 DEF ArtifactPart, db
    <3> QED
      BY <1>1, <1>2, <2>5, <3>1, <3>2, <3>3 DEF Replaying
  <2>7. ASSUME ArtifactEnd(c) \/ MessagePart(c) \/ MessageEnd(c) \/ UnknownEvent(c) \/ SkipEvent(c) PROVE Keeps
    <3>1. pc[c] = "loop" /\ UNCHANGED <<pc, trace>>
      BY <2>7 DEF ArtifactEnd, MessagePart, MessageEnd, UnknownEvent, SkipEvent, db
    <3> QED
      BY <1>1, <2>5, <3>1 DEF Replaying
  <2> QED
    BY <1>5, <2>1, <2>2, <2>3, <2>4, <2>6, <2>7 DEF Replay
<1>6. ASSUME Close(c) PROVE Keeps
  <2>1. ASSUME LoopEnd(c) PROVE Keeps
    BY <1>1, <2>1 DEF LoopEnd, db, Replaying
  <2>2. ASSUME NEW ok \in Outcomes, Respond(c, ok) PROVE Keeps
    BY <1>1, <2>2 DEF Respond, UpdateState, Replaying
  <2>3. ASSUME NEW ok \in Outcomes, RecordAgentMessage(c, ok) PROVE Keeps
    BY <1>1, <2>3 DEF RecordAgentMessage, AddMessage, Replaying
  <2>4. ASSUME NEW ok \in Outcomes, RecordResponse(c, ok) PROVE Keeps
    BY <1>0, <1>2, <2>4, EntryType, RowTypes DEF RecordResponse, Replaying
  <2> QED
    BY <1>6, <2>1, <2>2, <2>3, <2>4 DEF Close
<1> QED
  BY <1>3, <1>4, <1>5, <1>6 DEF Keeps

(***************************************************************************)
(* Whatever the agent sends, whichever writes fail and wherever the        *)
(* process stops, the rows of a task tell one exchange in order.           *)
(***************************************************************************)
THEOREM TraceShapeCorrect == Spec => []TraceShape
<1>1. Init => \A c \in Calls : ShapeInv(c)
  <2>1. Shaped(<<>>)
    BY DEF Shaped
  <2> QED
    BY <2>1 DEF Init, ShapeInv, Waiting, Replaying
<1>2. TypeOK /\ TypeOK' /\ (\A c \in Calls : ShapeInv(c)) /\ [Next]_vars
      => (\A c \in Calls : ShapeInv(c))'
  <2> SUFFICES ASSUME SInv, [Next]_vars PROVE \A c \in Calls : ShapeInv(c)'
    BY DEF SInv
  <2>1. CASE UNCHANGED vars
    BY <2>1 DEF vars, SInv, ShapeInv
  <2>2. CASE Crash
    <3>1. /\ UNCHANGED trace
          /\ \A c \in Calls : pc'[c] \in {pc[c], "crashed"}
      BY <2>2 DEF Crash, SInv, TypeOK, db
    <3> QED
      BY <3>1 DEF SInv, ShapeInv, Opening, Waiting, Replaying
  <2> QED
    BY <2>1, <2>2, ShapeStep DEF Next
<1>3. (\A c \in Calls : ShapeInv(c)) => TraceShape
  BY DEF ShapeInv, Shaped, TraceShape
<1> QED
  BY <1>1, <1>2, <1>3, TypeCorrect, PTL DEF Spec
=============================================================================
