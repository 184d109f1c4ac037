---------------------------- MODULE OutcomeProofs ----------------------------
(***************************************************************************)
(* What the caller of the bus is told is what the tables say, and the      *)
(* status updates it receives are a chain, for every set of calls, texts   *)
(* and agent events and every bound.                                       *)
(***************************************************************************)
EXTENDS MessageBusProofs, SequenceTheorems

UserRow == [role |-> "user", text |-> NoText]
AgentRow(t) == [role |-> "agent", text |-> t]
Answered == {"agent_msg", "response_trace", "ok"}

(***************************************************************************)
(* Outcome speaks of calls that have returned; the invariant adds what the *)
(* tables hold at each place before that, as long as no write was lost.    *)
(***************************************************************************)
Kept(c) ==
  /\ pc[c] \in {"idle", "create", "user", "refused"} => messages[c] = <<>> /\ trace[c] = <<>>
  /\ pc[c] = "send" => messages[c] = <<UserRow>> /\ trace[c] = <<>>
  /\ pc[c] \in {"call", "error_trace"} =>
       messages[c] = <<UserRow>> /\ trace[c] = <<Plain("send")>>
  /\ pc[c] = "error_state" =>
       messages[c] = <<UserRow>> /\ trace[c] = <<Plain("send"), Plain("error")>>
  /\ pc[c] \in {"loop", "task_update", "status_trace", "respond", "agent_msg"} =>
       messages[c] = <<UserRow>>
  /\ pc[c] \in Answered => tasks[c].state = "RESPONDED" /\ loc[c].state = "RESPONDED"
  /\ pc[c] \in {"response_trace", "ok"} => messages[c] = <<UserRow, AgentRow(loc[c].text)>>
  /\ pc[c] = "ok" =>
       /\ trace[c] # <<>> /\ Last(trace[c]) = Text("response", loc[c].text)
       /\ loc[c].out # <<>> /\ Last(loc[c].out) = Text("response", loc[c].text)
  /\ pc[c] = "failed" =>
       \/ trace[c] = <<>>
       \/ /\ tasks[c].state = "ERROR" /\ messages[c] = <<UserRow>>
          /\ trace[c] = <<Plain("send"), Plain("error")>>

KeptInv(c) == lost[c] = {} => Kept(c)

\* The step of c leaves the calls of the others alone.
Apart(c) ==
  \A d \in Calls \ {c} :
    /\ pc'[d] = pc[d] /\ tasks'[d] = tasks[d] /\ messages'[d] = messages[d]
    /\ trace'[d] = trace[d] /\ loc'[d] = loc[d] /\ lost'[d] = lost[d]

\* The last element of a sequence that was appended to.
LEMMA AppendLast ==
  ASSUME NEW S, NEW s \in Seq(S), NEW e \in S
  PROVE  Append(s, e) # <<>> /\ Last(Append(s, e)) = e
  BY DEF Last

\* Appending to an empty sequence and to one of a single element.
LEMMA ShortAppend ==
  ASSUME NEW S, NEW a \in S, NEW b \in S
  PROVE  Append(<<>>, a) = <<a>> /\ Append(<<a>>, b) = <<a, b>>
<1>1. /\ <<>> \in Seq(S) /\ <<a>> \in Seq(S) /\ <<a, b>> \in Seq(S)
      /\ Len(<<>>) = 0 /\ Len(<<a>>) = 1 /\ Len(<<a, b>>) = 2
      /\ <<a>>[1] = a /\ <<a, b>>[1] = a /\ <<a, b>>[2] = b
  OBVIOUS
<1>2. /\ Append(<<>>, a) \in Seq(S) /\ Len(Append(<<>>, a)) = 1 /\ Append(<<>>, a)[1] = a
  OBVIOUS
<1>3. /\ Append(<<a>>, b) \in Seq(S) /\ Len(Append(<<a>>, b)) = 2
      /\ Append(<<a>>, b)[1] = a /\ Append(<<a>>, b)[2] = b
  BY <1>1
<1>4. Append(<<>>, a) = <<a>>
  BY <1>1, <1>2, SeqEqual
<1>5. Append(<<a>>, b) = <<a, b>>
  <2> DEFINE p == Append(<<a>>, b)
             q == <<a, b>>
  <2>1. p \in Seq(S) /\ q \in Seq(S) /\ Len(p) = 2 /\ Len(q) = 2
        /\ p[1] = q[1] /\ p[2] = q[2]
    BY <1>1, <1>3
  <2> HIDE DEF p, q
  <2>2. \A i \in 1 .. 2 : p[i] = q[i]
    BY <2>1
  <2>3. p = q
    BY <2>1, <2>2, SeqEqual
  <2> QED
    BY <2>3 DEF p, q
<1> QED
  BY <1>4, <1>5

\* A call that has lost no write after a step had lost none before it, and
\* the write of the step succeeded.
LEMMA OnlyOkIsNotLost ==
  ASSUME TypeOK, NEW c \in Calls, NEW kind \in {"state", "trace", "message"}, NEW ok,
         Note(c, kind, ok)
  PROVE  /\ lost'[c] = {} => ok /\ lost[c] = {}
         /\ \A d \in Calls \ {c} : lost'[d] = lost[d]
  BY DEF Note, TypeOK

\* The rows the bus adds to the table messages have their type.
LEMMA MessageTypes ==
  /\ UserRow \in Message
  /\ \A t \in Texts \cup {Empty} : AgentRow(t) \in Message
  BY MessageBusAssumption DEF MessageBusAssumption, UserRow, AgentRow, Message

(***************************************************************************)
(* Every step of a call keeps what its tables hold (messagebus.go:82-259). *)
(***************************************************************************)
LEMMA KeptOpen ==
  ASSUME TypeOK, NEW c \in Calls, KeptInv(c),
         \/ \E x \in Contexts : Lookup(c, x)
         \/ Send(c)
  PROVE  Apart(c) /\ KeptInv(c)'
<1> USE DEF At
<1>0. /\ DOMAIN pc = Calls /\ DOMAIN tasks = Calls /\ DOMAIN messages = Calls
      /\ DOMAIN trace = Calls /\ DOMAIN loc = Calls /\ DOMAIN lost = Calls
      /\ loc[c] \in Locals
  BY DEF TypeOK
<1>1. ASSUME NEW x \in Contexts, Lookup(c, x) PROVE Apart(c) /\ KeptInv(c)'
  <2>1. /\ pc[c] = "idle" /\ pc'[c] \in {"create", "refused"}
        /\ UNCHANGED <<tasks, messages, trace, lost>>
        /\ \A d \in Calls \ {c} : pc'[d] = pc[d] /\ loc'[d] = loc[d]
    BY <1>0, <1>1 DEF Lookup, Goto, Set, db
  <2>2. Apart(c)
    BY <2>1 DEF Apart
  <2> QED
    BY <2>1, <2>2 DEF KeptInv, Kept, Answered
<1>2. ASSUME NEW inserted \in Outcomes, NEW ok \in Outcomes, CreateTask(c, inserted, ok)
      PROVE  Apart(c) /\ KeptInv(c)'
  <2>1. /\ pc[c] = "create" /\ pc'[c] \in {"user", "failed"}
        /\ UNCHANGED <<messages, trace, loc, lost>>
        /\ \A d \in Calls \ {c} : pc'[d] = pc[d] /\ tasks'[d] = tasks[d]
    BY <1>0, <1>2 DEF CreateTask, Goto
  <2>2. Apart(c)
    BY <2>1 DEF Apart
  <2> QED
    BY <2>1, <2>2 DEF KeptInv, Kept, Answered
<1>3. ASSUME NEW inserted \in Outcomes, NEW ok \in Outcomes, RecordUserMessage(c, inserted, ok)
      PROVE  Apart(c) /\ KeptInv(c)'
  <2>1. /\ pc[c] = "user" /\ pc'[c] \in {"send", "failed"}
        /\ UNCHANGED <<tasks, trace, loc>> /\ Note(c, "message", inserted)
        /\ messages'[c] = IF inserted THEN Append(messages[c], UserRow) ELSE messages[c]
        /\ \A d \in Calls \ {c} : pc'[d] = pc[d] /\ messages'[d] = messages[d]
    BY <1>0, <1>3 DEF RecordUserMessage, AddMessage, Goto, UserRow
  <2>2. /\ lost'[c] = {} => inserted /\ lost[c] = {}
        /\ \A d \in Calls \ {c} : lost'[d] = lost[d]
    BY <2>1, OnlyOkIsNotLost
  <2>3. Apart(c)
    BY <2>1, <2>2 DEF Apart
  <2>4. Append(<<>>, UserRow) = <<UserRow>>
    BY ShortAppend, MessageTypes
  <2> QED
    BY <2>1, <2>2, <2>3, <2>4 DEF KeptInv, Kept, Answered
<1>4. ASSUME NEW ok \in Outcomes, RecordSend(c, ok) \/ RecordError(c, ok)
      PROVE  Apart(c) /\ KeptInv(c)'
  <2> PICK e \in {Plain("send"), Plain("error")} :
        /\ \/ pc[c] = "send" /\ e = Plain("send") /\ Goto(c, "call")
           \/ pc[c] = "error_trace" /\ e = Plain("error") /\ Goto(c, "error_state")
        /\ Record(c, e, ok)
    BY <1>4 DEF RecordSend, RecordError
  <2>1. /\ pc[c] = "send" => pc'[c] = "call" /\ e = Plain("send")
        /\ pc[c] = "error_trace" => pc'[c] = "error_state" /\ e = Plain("error")
        /\ pc[c] \in {"send", "error_trace"}
        /\ UNCHANGED <<tasks, messages, loc>> /\ Note(c, "trace", ok)
        /\ trace'[c] = IF ok THEN Append(trace[c], e) ELSE trace[c]
        /\ \A d \in Calls \ {c} : pc'[d] = pc[d] /\ trace'[d] = trace[d]
    BY <1>0, <1>4 DEF Record, Goto, RecordSend, RecordError
  <2>2. /\ lost'[c] = {} => ok /\ lost[c] = {}
        /\ \A d \in Calls \ {c} : lost'[d] = lost[d]
    BY <2>1, OnlyOkIsNotLost
  <2>3. Apart(c)
    BY <2>1, <2>2 DEF Apart
  <2>4. /\ Append(<<>>, Plain("send")) = <<Plain("send")>>
        /\ Append(<<Plain("send")>>, Plain("error")) = <<Plain("send"), Plain("error")>>
    BY ShortAppend, EntryType
  <2> QED
    BY <2>1, <2>2, <2>3, <2>4 DEF KeptInv, Kept, Answered
<1>5. ASSUME NEW ok \in Outcomes, FailTask(c, ok) PROVE Apart(c) /\ KeptInv(c)'
  <2> DEFINE row == [tasks[c] EXCEPT !.state = "ERROR"]
  <2>1. /\ pc[c] = "error_state" /\ pc'[c] = "failed" /\ tasks[c] # NoTask
        /\ UNCHANGED <<messages, trace, loc>> /\ Note(c, "state", ok)
        /\ tasks'[c] = IF ok THEN row ELSE tasks[c]
        /\ \A d \in Calls \ {c} : pc'[d] = pc[d] /\ tasks'[d] = tasks[d]
    BY <1>0, <1>5 DEF FailTask, UpdateState, Goto, TypeOK, PCs, Returned
  <2>2. row.state = "ERROR"
    BY <2>1 DEF TypeOK, TaskRow
  <2> HIDE DEF row
  <2>3. /\ lost'[c] = {} => ok /\ lost[c] = {}
        /\ \A d \in Calls \ {c} : lost'[d] = lost[d]
    BY <2>1, OnlyOkIsNotLost
  <2>4. Apart(c)
    BY <2>1, <2>3 DEF Apart
  <2> QED
    BY <2>1, <2>2, <2>3, <2>4 DEF KeptInv, Kept, Answered
<1>6. ASSUME NEW events, AgentAnswers(c, events) PROVE Apart(c) /\ KeptInv(c)'
  <2>1. /\ pc[c] = "call" /\ pc'[c] = "loop" /\ UNCHANGED <<tasks, messages, trace, lost>>
        /\ \A d \in Calls \ {c} : pc'[d] = pc[d] /\ loc'[d] = loc[d]
    BY <1>0, <1>6 DEF AgentAnswers, Goto, Set, db
  <2>2. Apart(c)
    BY <2>1 DEF Apart
  <2> QED
    BY <2>1, <2>2 DEF KeptInv, Kept, Answered
<1>7. ASSUME AgentFails(c) PROVE Apart(c) /\ KeptInv(c)'
  <2>1. /\ pc[c] = "call" /\ pc'[c] = "error_trace"
        /\ UNCHANGED <<tasks, messages, trace, loc, lost>>
        /\ \A d \in Calls \ {c} : pc'[d] = pc[d]
    BY <1>0, <1>7 DEF AgentFails, Goto, db
  <2>2. Apart(c)
    BY <2>1 DEF Apart
  <2> QED
    BY <2>1, <2>2 DEF KeptInv, Kept, Answered
<1> QED
  BY <1>1, <1>2, <1>3, <1>4, <1>5, <1>6, <1>7 DEF Send

\* Replaying an event leaves the messages alone (messagebus.go:126-233).
LEMMA KeptReplay ==
  ASSUME TypeOK, NEW c \in Calls, KeptInv(c), Replay(c)
  PROVE  Apart(c) /\ KeptInv(c)'
<1> USE DEF At, AtEvent
<1>0. /\ DOMAIN pc = Calls /\ DOMAIN tasks = Calls /\ DOMAIN messages = Calls
      /\ DOMAIN trace = Calls /\ DOMAIN loc = Calls /\ DOMAIN lost = Calls
      /\ lost \in [Calls -> SUBSET {"state", "trace", "message"}]
  BY DEF TypeOK
\* Whatever the event is, the messages stay, and the call replays on.
<1>1. ASSUME NEW label \in {"loop", "task_update", "status_trace"}, Goto(c, label),
             pc[c] \in {"loop", "task_update", "status_trace"}, UNCHANGED messages,
             UNCHANGED tasks \/ \E x : tasks' = [tasks EXCEPT ![c] = x],
             UNCHANGED trace \/ \E x : trace' = [trace EXCEPT ![c] = x],
             UNCHANGED loc \/ \E x : loc' = [loc EXCEPT ![c] = x],
             UNCHANGED lost \/ \E ok : \E kind \in {"state", "trace", "message"} : Note(c, kind, ok)
      PROVE  Apart(c) /\ KeptInv(c)'
  <2>1. /\ pc'[c] = label
        /\ \A d \in Calls \ {c} :
             /\ pc'[d] = pc[d] /\ tasks'[d] = tasks[d] /\ messages'[d] = messages[d]
             /\ trace'[d] = trace[d] /\ loc'[d] = loc[d]
    BY <1>0, <1>1 DEF Goto
  <2>2. /\ lost'[c] = {} => lost[c] = {}
        /\ \A d \in Calls \ {c} : lost'[d] = lost[d]
    BY <1>1, OnlyOkIsNotLost
  <2>3. Apart(c)
    BY <2>1, <2>2 DEF Apart
  <2> QED
    BY <1>1, <2>1, <2>2, <2>3 DEF KeptInv, Kept, Answered
<1>2. ASSUME UNCHANGED pc, pc[c] = "loop" PROVE Goto(c, "loop")
  BY <1>2 DEF Goto, TypeOK
<1>3. ASSUME NEW ok, TaskEvent(c, ok) PROVE Apart(c) /\ KeptInv(c)'
  BY <1>1, <1>3 DEF TaskEvent, Record
<1>4. ASSUME NEW ok, TaskEventUpdate(c, ok) PROVE Apart(c) /\ KeptInv(c)'
  BY <1>1, <1>4 DEF TaskEventUpdate, Record, Set, db
<1>5. ASSUME NEW ok, StatusEvent(c, ok) PROVE Apart(c) /\ KeptInv(c)'
  BY <1>1, <1>5 DEF StatusEvent, UpdateState
<1>6. ASSUME NEW ok, StatusTrace(c, ok) PROVE Apart(c) /\ KeptInv(c)'
  BY <1>1, <1>6 DEF StatusTrace, Record, Set
<1>7. ASSUME NEW ok, ArtifactPart(c, ok) PROVE Apart(c) /\ KeptInv(c)'
  BY <1>1, <1>2, <1>7 DEF ArtifactPart, Record, Set, db
<1>8. ASSUME \/ ArtifactEnd(c) \/ MessagePart(c) \/ MessageEnd(c) \/ UnknownEvent(c)
             \/ SkipEvent(c)
      PROVE  Apart(c) /\ KeptInv(c)'
  BY <1>1, <1>2, <1>8
  DEF ArtifactEnd, MessagePart, MessageEnd, UnknownEvent, SkipEvent, Set, db
<1> QED
  BY <1>3, <1>4, <1>5, <1>6, <1>7, <1>8 DEF Replay

\* Closing the task writes the response three times (messagebus.go:235-259).
LEMMA KeptClose ==
  ASSUME TypeOK, NEW c \in Calls, KeptInv(c), Close(c)
  PROVE  Apart(c) /\ KeptInv(c)'
<1> USE DEF At
<1>0. /\ DOMAIN pc = Calls /\ DOMAIN tasks = Calls /\ DOMAIN messages = Calls
      /\ DOMAIN trace = Calls /\ DOMAIN loc = Calls
      /\ loc[c] \in Locals /\ loc[c].text \in Texts \cup {Empty}
      /\ loc[c].out \in Seq(Entry) /\ trace[c] \in Seq(Entry)
  BY DEF TypeOK, Locals
<1>1. ASSUME LoopEnd(c) PROVE Apart(c) /\ KeptInv(c)'
  <2>1. /\ pc[c] = "loop" /\ pc'[c] = "respond" /\ UNCHANGED <<tasks, messages, trace, lost>>
        /\ \A d \in Calls \ {c} : pc'[d] = pc[d] /\ loc'[d] = loc[d]
    BY <1>0, <1>1 DEF LoopEnd, Goto, Set, db
  <2>2. Apart(c)
    BY <2>1 DEF Apart
  <2> QED
    BY <2>1, <2>2 DEF KeptInv, Kept, Answered
<1>2. ASSUME NEW ok \in Outcomes, Respond(c, ok) PROVE Apart(c) /\ KeptInv(c)'
  <2> DEFINE row == [tasks[c] EXCEPT !.state = "RESPONDED"]
             l == [loc[c] EXCEPT !.state = "RESPONDED"]
  <2>1. /\ pc[c] = "respond" /\ pc'[c] = "agent_msg" /\ tasks[c] # NoTask
        /\ UNCHANGED <<messages, trace>> /\ Note(c, "state", ok)
        /\ tasks'[c] = IF ok THEN row ELSE tasks[c]
        /\ loc'[c] = l
        /\ \A d \in Calls \ {c} : pc'[d] = pc[d] /\ tasks'[d] = tasks[d] /\ loc'[d] = loc[d]
    BY <1>0, <1>2 DEF Respond, UpdateState, Set, Goto, TypeOK, PCs, Returned
  <2>2. row.state = "RESPONDED" /\ l.state = "RESPONDED"
    BY <1>0, <2>1 DEF TypeOK, TaskRow, Locals
  <2> HIDE DEF row, l
  <2>3. /\ lost'[c] = {} => ok /\ lost[c] = {}
        /\ \A d \in Calls \ {c} : lost'[d] = lost[d]
    BY <2>1, OnlyOkIsNotLost
  <2>4. Apart(c)
    BY <2>1, <2>3 DEF Apart
  <2> QED
    BY <2>1, <2>2, <2>3, <2>4 DEF KeptInv, Kept, Answered
<1>3. ASSUME NEW ok \in Outcomes, RecordAgentMessage(c, ok) PROVE Apart(c) /\ KeptInv(c)'
  <2> DEFINE m == AgentRow(loc[c].text)
  <2>1. /\ pc[c] = "agent_msg" /\ pc'[c] = "response_trace"
        /\ UNCHANGED <<tasks, trace, loc>> /\ Note(c, "message", ok)
        /\ messages'[c] = IF ok THEN Append(messages[c], m) ELSE messages[c]
        /\ \A d \in Calls \ {c} : pc'[d] = pc[d] /\ messages'[d] = messages[d]
    BY <1>0, <1>3 DEF RecordAgentMessage, AddMessage, Goto, AgentRow
  <2>2. /\ lost'[c] = {} => ok /\ lost[c] = {}
        /\ \A d \in Calls \ {c} : lost'[d] = lost[d]
    BY <2>1, OnlyOkIsNotLost
  <2>3. Apart(c)
    BY <2>1, <2>2 DEF Apart
  <2>4. Append(<<UserRow>>, m) = <<UserRow, m>>
    BY <1>0, ShortAppend, MessageTypes
  <2> QED
    BY <2>1, <2>2, <2>3, <2>4 DEF KeptInv, Kept, Answered
<1>4. ASSUME NEW ok \in Outcomes, RecordResponse(c, ok) PROVE Apart(c) /\ KeptInv(c)'
  <2> DEFINE e == Text("response", loc[c].text)
             l == Emitted(c, e)
  <2>1. /\ pc[c] = "response_trace" /\ pc'[c] = "ok"
        /\ UNCHANGED <<tasks, messages>> /\ Note(c, "trace", ok)
        /\ trace'[c] = IF ok THEN Append(trace[c], e) ELSE trace[c]
        /\ loc'[c] = l
        /\ \A d \in Calls \ {c} : pc'[d] = pc[d] /\ trace'[d] = trace[d] /\ loc'[d] = loc[d]
    BY <1>0, <1>4 DEF RecordResponse, Record, Set, Goto
  <2>2. e \in Entry
    BY <1>0, EntryType
  <2> HIDE DEF e
  <2>3. l.out = Append(loc[c].out, e) /\ l.text = loc[c].text /\ l.state = loc[c].state
    BY <1>0 DEF Emitted, Locals
  <2> HIDE DEF l
  <2>4. /\ lost'[c] = {} => ok /\ lost[c] = {}
        /\ \A d \in Calls \ {c} : lost'[d] = lost[d]
    BY <2>1, OnlyOkIsNotLost
  <2>5. Apart(c)
    BY <2>1, <2>4 DEF Apart
  <2>6. /\ Append(trace[c], e) # <<>> /\ Last(Append(trace[c], e)) = e
        /\ l.out # <<>> /\ Last(l.out) = e
    BY <1>0, <2>2, <2>3, AppendLast
  <2>7. e = Text("response", l.text)
    BY <2>3 DEF e
  <2> QED
    BY <2>1, <2>3, <2>4, <2>5, <2>6, <2>7 DEF KeptInv, Kept, Answered
<1> QED
  BY <1>1, <1>2, <1>3, <1>4 DEF Close

\* What the tables hold at each place of a call is an invariant.
LEMMA KeptHolds == Spec => [](\A c \in Calls : KeptInv(c))
<1>1. Init => \A c \in Calls : KeptInv(c)
  BY DEF Init, KeptInv, Kept, Answered
<1>2. TypeOK /\ (\A c \in Calls : KeptInv(c)) /\ [Next]_vars => (\A c \in Calls : KeptInv(c))'
  <2> SUFFICES ASSUME TypeOK, \A c \in Calls : KeptInv(c), [Next]_vars
               PROVE  \A c \in Calls : KeptInv(c)'
    OBVIOUS
  <2>1. CASE UNCHANGED vars
    BY <2>1 DEF vars, db, KeptInv, Kept
  <2>2. CASE Crash
    <3>1. /\ UNCHANGED <<tasks, messages, trace, loc, lost>>
          /\ \A c \in Calls : pc'[c] \in {pc[c], "crashed"}
      BY <2>2 DEF Crash, TypeOK, db
    <3> QED
      BY <3>1 DEF KeptInv, Kept, Answered
  <2>3. ASSUME NEW c \in Calls, (\E x \in Contexts : Lookup(c, x)) \/ Send(c) \/ Replay(c) \/ Close(c)
        PROVE  \A d \in Calls : KeptInv(d)'
    <3>1. Apart(c) /\ KeptInv(c)'
      BY <2>3, KeptOpen, KeptReplay, KeptClose
    <3>2. \A d \in Calls \ {c} : KeptInv(d)'
      BY <3>1 DEF Apart, KeptInv, Kept
    <3> QED
      BY <3>1, <3>2
  <2> QED
    BY <2>1, <2>2, <2>3 DEF Next
<1> QED
  BY <1>1, <1>2, TypeCorrect, PTL DEF Spec

(***************************************************************************)
(* A call that succeeds or fails has told its caller what the tables say,  *)
(* unless one of its writes was lost.                                      *)
(***************************************************************************)
THEOREM OutcomeCorrect == Spec => []Outcome
<1>1. (\A c \in Calls : KeptInv(c)) => Outcome
  BY DEF KeptInv, Kept, Answered, Outcome, UserRow, AgentRow
<1> QED
  BY <1>1, KeptHolds, PTL

-----------------------------------------------------------------------------

(***************************************************************************)
(* The status updates a caller receives are a chain, for every reply an    *)
(* agent can give and whichever writes fail.                               *)
(***************************************************************************)
Chain(s) ==
  \A i \in Updates(s) :
    /\ (\A j \in Updates(s) : j >= i) => s[i].old = "SUBMITTED"
    /\ \A k \in Updates(s) : k > i /\ (\A j \in Updates(s) : j <= i \/ j >= k) =>
         s[k].old = s[i].new
\* The chain ends in state x.
EndsIn(s, x) ==
  /\ \A i \in Updates(s) : (\A j \in Updates(s) : j <= i) => s[i].new = x
  /\ Updates(s) = {} => x = "SUBMITTED"

(***************************************************************************)
(* An update that starts where the chain ends extends it; other entries    *)
(* leave it as it is.                                                      *)
(***************************************************************************)
LEMMA AppendChain ==
  ASSUME NEW s \in Seq(Entry), NEW e \in Entry, NEW x
  PROVE  /\ e.type # "status_update" /\ Chain(s) => Chain(Append(s, e))
         /\ e.type # "status_update" /\ EndsIn(s, x) => EndsIn(Append(s, e), x)
         /\ e.type = "status_update" /\ Chain(s) /\ EndsIn(s, e.old) =>
              Chain(Append(s, e)) /\ EndsIn(Append(s, e), e.new)
<1> DEFINE t == Append(s, e)
           n == Len(s) + 1
           U == Updates(s)
<1>1. /\ Len(t) = n /\ n \in Nat /\ Len(s) \in Nat /\ t[n] = e
      /\ \A i \in 1 .. Len(s) : t[i] = s[i]
  OBVIOUS
<1>2. /\ U \subseteq 1 .. Len(s)
      /\ \A i \in U : i \in Int /\ i < n /\ t[i] = s[i]
  BY <1>1 DEF Updates
<1>3. Updates(t) = IF e.type = "status_update" THEN U \cup {n} ELSE U
  <2>1. \A i : i \in 1 .. Len(t) <=> i \in 1 .. Len(s) \/ i = n
    BY <1>1
  <2> HIDE DEF t, n
  <2> QED
    BY <1>1, <2>1 DEF Updates
<1> HIDE DEF t, n, U
<1>4. CASE e.type # "status_update"
  <2>1. Updates(t) = U
    BY <1>3, <1>4
  <2>2. Chain(s) => Chain(t)
    BY <1>2, <2>1 DEF Chain, U
  <2>3. EndsIn(s, x) => EndsIn(t, x)
    BY <1>2, <2>1 DEF EndsIn, U
  <2> QED
    BY <1>4, <2>2, <2>3 DEF t
<1>5. CASE e.type = "status_update"
  <2> SUFFICES ASSUME Chain(s), EndsIn(s, e.old) PROVE Chain(t) /\ EndsIn(t, e.new)
    BY <1>5 DEF t
  <2>1. Updates(t) = U \cup {n}
    BY <1>3, <1>5
  <2>2. EndsIn(t, e.new)
    <3>1. ASSUME NEW i \in U \cup {n}, \A j \in U \cup {n} : j <= i PROVE t[i].new = e.new
      <4>1. i = n
        BY <1>1, <1>2, <3>1
      <4> QED
        BY <1>1, <4>1
    <3>2. U \cup {n} # {}
      OBVIOUS
    <3> QED
      BY <2>1, <3>1, <3>2 DEF EndsIn
  <2>3. ASSUME NEW i \in U \cup {n}, \A j \in U \cup {n} : j >= i
        PROVE  t[i].old = "SUBMITTED"
    <3>1. CASE i \in U
      BY <1>2, <2>3, <3>1 DEF Chain, U
    <3>2. CASE i = n
      <4>1. U = {}
        BY <1>1, <1>2, <2>3, <3>2
      <4> QED
        BY <1>1, <3>2, <4>1 DEF EndsIn, U
    <3> QED
      BY <3>1, <3>2
  <2>4. ASSUME NEW i \in U \cup {n}, NEW k \in U \cup {n}, k > i,
               \A j \in U \cup {n} : j <= i \/ j >= k
        PROVE  t[k].old = t[i].new
    <3>1. i \in U
      BY <1>1, <1>2, <2>4
    <3>2. CASE k \in U
      BY <1>2, <2>4, <3>1, <3>2 DEF Chain, U
    <3>3. CASE k = n
      <4>1. \A j \in U : j <= i
        BY <1>1, <1>2, <2>4, <3>1, <3>3
      <4> QED
        BY <1>1, <1>2, <3>1, <3>3, <4>1 DEF EndsIn, U
    <3> QED
      BY <3>2, <3>3
  <2>5. Chain(t)
    BY <2>1, <2>3, <2>4 DEF Chain
  <2> QED
    BY <2>2, <2>5
<1> QED
  BY <1>4, <1>5

-----------------------------------------------------------------------------
(***************************************************************************)
(* Besides the chain, the invariant says that it ends in task.State until  *)
(* the call closes, and what the row lags behind by: nothing, except while *)
(* the update on which the call stands is not traced yet.                  *)
(***************************************************************************)
Open == {"create", "user", "send", "call", "loop", "task_update", "status_trace", "respond"}
InStep == {"user", "send", "call", "loop", "task_update", "respond"}

ChainInv(c) ==
  /\ Chain(loc[c].out)
  /\ pc[c] \in Open => EndsIn(loc[c].out, loc[c].state)
  /\ pc[c] = "create" => loc[c].state = "SUBMITTED"
  /\ "state" \notin lost[c] =>
       /\ pc[c] \in InStep => tasks[c].state = loc[c].state
       /\ pc[c] = "status_trace" => tasks[c].state = Current(c).state

\* Entries are of the type they are made with.
LEMMA EntryKinds ==
  /\ \A type, t : Text(type, t).type = type
  /\ \A type, x, y : Change(type, x, y).type = type
  /\ \A type : Plain(type).type = type
  BY DEF Plain, Text, Change

\* No write of a state is lost after a step only if none was lost before it,
\* and the one of the step, if it had one, succeeded.
LEMMA NoteOther ==
  ASSUME TypeOK, NEW c \in Calls, NEW kind \in {"state", "trace", "message"}, NEW ok,
         Note(c, kind, ok)
  PROVE  /\ "state" \notin lost'[c] => "state" \notin lost[c]
         /\ kind = "state" /\ "state" \notin lost'[c] => ok
  BY DEF Note, TypeOK

(***************************************************************************)
(* Opening a task and calling the agent emits nothing.                     *)
(***************************************************************************)
LEMMA ChainSend ==
  ASSUME TypeOK, NEW c \in Calls, ChainInv(c),
         \/ \E x \in Contexts : Lookup(c, x)
         \/ Send(c)
  PROVE  ChainInv(c)'
<1> USE DEF At, Open, InStep
<1>0. /\ DOMAIN pc = Calls /\ DOMAIN tasks = Calls /\ DOMAIN loc = Calls
      /\ loc[c] \in Locals
  BY DEF TypeOK
<1>1. ASSUME NEW x \in Contexts, Lookup(c, x) PROVE ChainInv(c)'
  <2> DEFINE l == [NullLocals EXCEPT !.ctx = x]
  <2>1. l.out = <<>> /\ l.state = "SUBMITTED"
    BY DEF NullLocals
  <2>2. loc'[c] = l /\ pc'[c] \in {"create", "refused"}
    BY <1>0, <1>1 DEF Lookup, Goto, Set
  <2> HIDE DEF l
  <2>3. Updates(<<>>) = {}
    <3>1. \A i : i \notin 1 .. Len(<<>>)
      OBVIOUS
    <3> QED BY <3>1 DEF Updates
  <2>4. Chain(<<>>) /\ EndsIn(<<>>, "SUBMITTED")
    BY <2>3 DEF Chain, EndsIn
  <2> QED
    BY <2>1, <2>2, <2>4 DEF ChainInv
<1>2. ASSUME NEW inserted \in Outcomes, NEW ok \in Outcomes, CreateTask(c, inserted, ok)
      PROVE  ChainInv(c)'
  <2> DEFINE row == [state |-> "SUBMITTED", ctx |-> loc[c].ctx]
  <2>1. /\ pc[c] = "create" /\ pc'[c] = (IF ok THEN "user" ELSE "failed") /\ UNCHANGED <<loc, lost>>
        /\ ok => inserted
        /\ tasks'[c] = IF inserted THEN row ELSE tasks[c]
    BY <1>0, <1>2 DEF CreateTask, Goto
  <2>2. row.state = "SUBMITTED"
    OBVIOUS
  <2> HIDE DEF row
  <2> QED
    BY <2>1, <2>2 DEF ChainInv
\* The rest of them leave the row and the variables that matter.
<1>3. ASSUME NEW label, Goto(c, label), pc[c] \in {"user", "send", "call", "error_trace", "error_state"},
             label \in InStep => pc[c] \in InStep,
             label \in Open => pc[c] \in Open, label \notin {"create", "status_trace"},
             label \in InStep => UNCHANGED tasks,
             loc'[c].out = loc[c].out, loc'[c].state = loc[c].state,
             UNCHANGED lost \/ \E ok : \E kind \in {"state", "trace", "message"} : Note(c, kind, ok)
      PROVE  ChainInv(c)'
  <2>1. pc'[c] = label /\ ("state" \notin lost'[c] => "state" \notin lost[c])
    BY <1>0, <1>3, NoteOther DEF Goto
  <2> QED
    BY <1>3, <2>1 DEF ChainInv
<1>4. ASSUME NEW inserted \in Outcomes, NEW ok \in Outcomes, RecordUserMessage(c, inserted, ok)
      PROVE  ChainInv(c)'
  BY <1>3, <1>4 DEF RecordUserMessage, AddMessage
<1>5. ASSUME NEW ok \in Outcomes, RecordSend(c, ok) \/ RecordError(c, ok) PROVE ChainInv(c)'
  BY <1>3, <1>5 DEF RecordSend, RecordError, Record
<1>6. ASSUME NEW ok \in Outcomes, FailTask(c, ok) PROVE ChainInv(c)'
  BY <1>3, <1>6 DEF FailTask, UpdateState
<1>7. ASSUME NEW events, AgentAnswers(c, events) PROVE ChainInv(c)'
  <2> DEFINE l == [loc[c] EXCEPT !.inbox = events]
  <2>1. l.out = loc[c].out /\ l.state = loc[c].state
    BY <1>0 DEF Locals
  <2>2. loc'[c] = l
    BY <1>0, <1>7 DEF AgentAnswers, Set
  <2> HIDE DEF l
  <2> QED
    BY <1>3, <1>7, <2>1, <2>2 DEF AgentAnswers, db
<1>8. ASSUME AgentFails(c) PROVE ChainInv(c)'
  BY <1>3, <1>8 DEF AgentFails, db
<1> QED
  BY <1>1, <1>2, <1>4, <1>5, <1>6, <1>7, <1>8 DEF Send

(***************************************************************************)
(* Replaying an event: only an update of the status extends the chain.     *)
(***************************************************************************)
LEMMA ChainReplay ==
  ASSUME TypeOK, NEW c \in Calls, ChainInv(c), Replay(c)
  PROVE  ChainInv(c)'
<1> USE DEF At, AtEvent, Open, InStep
<1>0. /\ pc \in [Calls -> PCs] /\ DOMAIN tasks = Calls /\ DOMAIN loc = Calls
      /\ loc[c] \in Locals /\ loc[c].out \in Seq(Entry)
      /\ loc[c].state \in States /\ loc[c].text \in Texts \cup {Empty}
      /\ loc[c].part \in Nat /\ loc[c].part >= 1
      /\ "SUBMITTED" \in States /\ AgentStates \subseteq States
  BY DEF TypeOK, Locals, States
\* A step that leaves the row and the state, and emits at most an entry that
\* is no update.
<1>1. ASSUME NEW label \in {"loop", "task_update"}, Goto(c, label),
             pc[c] \in {"loop", "task_update"}, UNCHANGED tasks,
             NEW l, loc'[c] = l, l.state = loc[c].state,
             \/ l.out = loc[c].out
             \/ \E e \in Entry : e.type # "status_update" /\ l.out = Append(loc[c].out, e),
             UNCHANGED lost \/ \E ok : \E kind \in {"state", "trace", "message"} : Note(c, kind, ok)
      PROVE  ChainInv(c)'
  <2>1. pc'[c] = label /\ ("state" \notin lost'[c] => "state" \notin lost[c])
    BY <1>0, <1>1, NoteOther DEF Goto
  <2>2. Chain(l.out) /\ EndsIn(l.out, l.state)
    BY <1>0, <1>1, AppendChain DEF ChainInv
  <2> QED
    BY <1>1, <2>1, <2>2 DEF ChainInv
<1>2. ASSUME UNCHANGED pc, pc[c] = "loop" PROVE Goto(c, "loop")
  BY <1>0, <1>2 DEF Goto
\* What Emitted and Advanced do to the chain and the state.
<1>3. ASSUME NEW e \in Entry
      PROVE  /\ Emitted(c, e) \in Locals
             /\ Emitted(c, e).out = Append(loc[c].out, e)
             /\ Emitted(c, e).state = loc[c].state
  <2>1. Emitted(c, e) \in Locals
    BY <1>0, EmittedType
  <2> QED
    BY <1>0, <2>1 DEF Emitted, Locals
<1>4. ASSUME NEW ok \in Outcomes, TaskEvent(c, ok) PROVE ChainInv(c)'
  <2>1. /\ pc[c] = "loop" /\ Goto(c, "task_update") /\ UNCHANGED <<tasks, loc>>
        /\ Note(c, "trace", ok)
    BY <1>4 DEF TaskEvent, Record
  <2> QED
    BY <1>1, <2>1
<1>5. ASSUME NEW ok \in Outcomes, TaskEventUpdate(c, ok) PROVE ChainInv(c)'
  <2> PICK s \in AgentStates, x \in Contexts : s = Current(c).state /\ x = Current(c).ctx
    BY <1>5, CurrentType DEF TaskEventUpdate, TypeOK
  <2> DEFINE e == Change("task", "SUBMITTED", s)
             m == Emitted(c, e)
             l == [m EXCEPT !.ctx = IF m.ctx = NoText THEN x ELSE m.ctx]
  <2>1. e \in Entry /\ e.type # "status_update"
    BY <1>0, EntryType, EntryKinds
  <2>2. /\ pc[c] = "task_update" /\ Goto(c, "loop") /\ UNCHANGED tasks
        /\ UNCHANGED lost \/ Note(c, "trace", ok)
        /\ loc'[c] = Advanced(l)
    BY <1>0, <1>5 DEF TaskEventUpdate, Record, Set, db
  <2> HIDE DEF e
  <2>3. m \in Locals /\ m.out = Append(loc[c].out, e) /\ m.state = loc[c].state
    BY <1>3, <2>1
  <2> HIDE DEF m
  <2>4. l \in Locals /\ l.out = m.out /\ l.state = m.state
    BY <2>3 DEF Locals
  <2> HIDE DEF l
  <2>5. Advanced(l).out = l.out /\ Advanced(l).state = l.state
    BY <2>4, AdvancedType
  <2> QED
    BY <1>1, <2>1, <2>2, <2>3, <2>4, <2>5
<1>6. ASSUME NEW ok \in Outcomes, StatusEvent(c, ok) PROVE ChainInv(c)'
  <2> DEFINE row == [tasks[c] EXCEPT !.state = Current(c).state]
  <2>1. /\ pc[c] = "loop" /\ tasks[c] \in TaskRow /\ UNCHANGED loc /\ Note(c, "state", ok)
        /\ pc'[c] = "status_trace" /\ tasks'[c] = IF ok THEN row ELSE tasks[c]
    BY <1>0, <1>6 DEF StatusEvent, UpdateState, Goto, TypeOK, PCs, Returned
  <2>2. row.state = Current(c).state
    BY <2>1 DEF TaskRow
  <2> HIDE DEF row
  <2>3. "state" \notin lost'[c] => ok
    BY <2>1, NoteOther
  <2>4. Current(c)' = Current(c)
    BY <2>1 DEF Current
  <2> QED
    BY <2>1, <2>2, <2>3, <2>4 DEF ChainInv
<1>7. ASSUME NEW ok \in Outcomes, StatusTrace(c, ok) PROVE ChainInv(c)'
  <2> PICK new \in AgentStates : new = Current(c).state
    BY <1>7, CurrentType DEF StatusTrace, TypeOK
  <2> DEFINE e == Change("status_update", loc[c].state, new)
             m == Emitted(c, e)
             l == [m EXCEPT !.state = new]
  <2>1. e \in Entry /\ e.type = "status_update" /\ e.old = loc[c].state /\ e.new = new
    BY <1>0, EntryType DEF Change, Plain
  <2>2. /\ pc[c] = "status_trace" /\ pc'[c] = "loop" /\ UNCHANGED tasks
        /\ Note(c, "trace", ok) /\ loc'[c] = Advanced(l)
    BY <1>0, <1>7 DEF StatusTrace, Record, Set, Goto
  <2> HIDE DEF e
  <2>3. m \in Locals /\ m.out = Append(loc[c].out, e)
    BY <1>3, <2>1
  <2> HIDE DEF m
  <2>4. l \in Locals /\ l.out = m.out /\ l.state = new
    BY <1>0, <2>3 DEF Locals
  <2> HIDE DEF l
  <2>5. Advanced(l).out = l.out /\ Advanced(l).state = new
    BY <2>4, AdvancedType
  <2>6. Chain(l.out) /\ EndsIn(l.out, new)
    <3>1. Chain(loc[c].out) /\ EndsIn(loc[c].out, e.old)
      BY <2>1, <2>2 DEF ChainInv
    <3> QED
      BY <1>0, <2>1, <2>3, <2>4, <3>1, AppendChain
  <2>7. "state" \notin lost'[c] => tasks'[c].state = new
    BY <2>2, NoteOther DEF ChainInv
  <2> QED
    BY <2>2, <2>5, <2>6, <2>7 DEF ChainInv
<1>8. ASSUME NEW ok \in Outcomes, ArtifactPart(c, ok) PROVE ChainInv(c)'
  <2>1. /\ pc[c] = "loop" /\ UNCHANGED <<pc, tasks>> /\ HasEvent(c)
        /\ loc[c].part <= Len(Current(c).parts)
        /\ UNCHANGED lost \/ Note(c, "trace", ok)
    BY <1>8 DEF ArtifactPart, Record, db
  <2> PICK t \in Texts : t = Current(c).parts[loc[c].part]
    BY <1>0, <2>1, CurrentType
  <2> DEFINE e == Text("artifact", t)
             m == Emitted(c, e)
             k == [m EXCEPT !.text = IF m.text = NoText THEN t ELSE m.text]
             l == [k EXCEPT !.part = k.part + 1]
             n == [loc[c] EXCEPT !.part = loc[c].part + 1]
  <2>2. e \in Entry /\ e.type # "status_update"
    BY EntryType, EntryKinds
  <2>3. loc'[c] = l \/ loc'[c] = n
    BY <1>0, <1>8 DEF ArtifactPart, Set
  <2> HIDE DEF e
  <2>4. m \in Locals /\ m.out = Append(loc[c].out, e) /\ m.state = loc[c].state
    BY <1>3, <2>2
  <2> HIDE DEF m
  <2>5. k \in Locals /\ k.out = m.out /\ k.state = m.state
    BY <2>4 DEF Locals
  <2> HIDE DEF k
  <2>6. l.out = k.out /\ l.state = k.state
    BY <2>5 DEF Locals
  <2>7. n.out = loc[c].out /\ n.state = loc[c].state
    BY <1>0 DEF Locals
  <2> HIDE DEF l, n
  <2> QED
    BY <1>1, <1>2, <2>1, <2>2, <2>3, <2>4, <2>5, <2>6, <2>7
<1>9. ASSUME ArtifactEnd(c) \/ SkipEvent(c) PROVE ChainInv(c)'
  <2>1. /\ pc[c] = "loop" /\ UNCHANGED <<tasks, lost, pc>> /\ loc'[c] = Advanced(loc[c])
    BY <1>0, <1>9 DEF ArtifactEnd, SkipEvent, Set, db
  <2>2. Advanced(loc[c]).out = loc[c].out /\ Advanced(loc[c]).state = loc[c].state
    BY <1>0, AdvancedType
  <2> QED
    BY <1>1, <1>2, <2>1, <2>2
<1>10. ASSUME MessagePart(c) PROVE ChainInv(c)'
  <2> DEFINE t == Current(c).parts[loc[c].part]
             m == [loc[c] EXCEPT !.text = IF t # NoText THEN t ELSE loc[c].text]
             l == [m EXCEPT !.part = m.part + 1]
  <2>1. pc[c] = "loop" /\ UNCHANGED <<tasks, lost, pc>> /\ loc'[c] = l
    BY <1>0, <1>10 DEF MessagePart, Set, db
  <2> HIDE DEF t
  <2>2. m.out = loc[c].out /\ m.state = loc[c].state /\ DOMAIN m = DOMAIN loc[c]
    BY <1>0 DEF Locals
  <2> HIDE DEF m
  <2>3. l.out = m.out /\ l.state = m.state
    BY <1>0, <2>2 DEF Locals
  <2> HIDE DEF l
  <2> QED
    BY <1>1, <1>2, <2>1, <2>2, <2>3
<1>11. ASSUME MessageEnd(c) \/ UnknownEvent(c) PROVE ChainInv(c)'
  <2> PICK e \in {Text("message", loc[c].text), Plain("unknown")} :
        pc[c] = "loop" /\ UNCHANGED <<tasks, lost, pc>> /\ loc'[c] = Advanced(Emitted(c, e))
    BY <1>0, <1>11 DEF MessageEnd, UnknownEvent, Set, db
  <2>1. e \in Entry /\ e.type # "status_update"
    BY <1>0, EntryType, EntryKinds
  <2>2. /\ Emitted(c, e).out = Append(loc[c].out, e) /\ Emitted(c, e).state = loc[c].state
        /\ Advanced(Emitted(c, e)).out = Emitted(c, e).out
        /\ Advanced(Emitted(c, e)).state = Emitted(c, e).state
    BY <1>3, <2>1, AdvancedType
  <2> QED
    BY <1>1, <1>2, <2>1, <2>2
<1> QED
  BY <1>4, <1>5, <1>6, <1>7, <1>8, <1>9, <1>10, <1>11 DEF Replay

(***************************************************************************)
(* Closing the task emits the response, which is no update.                *)
(***************************************************************************)
LEMMA ChainClose ==
  ASSUME TypeOK, NEW c \in Calls, ChainInv(c), Close(c)
  PROVE  ChainInv(c)'
<1> USE DEF At, Open, InStep
<1>0. /\ pc \in [Calls -> PCs] /\ DOMAIN tasks = Calls /\ DOMAIN loc = Calls
      /\ loc[c] \in Locals /\ loc[c].out \in Seq(Entry) /\ loc[c].text \in Texts \cup {Empty}
  BY DEF TypeOK, Locals
<1>1. ASSUME LoopEnd(c) PROVE ChainInv(c)'
  <2> DEFINE l == [loc[c] EXCEPT !.text = IF loc[c].text = NoText THEN Empty ELSE loc[c].text]
  <2>1. l.out = loc[c].out /\ l.state = loc[c].state
    BY <1>0 DEF Locals
  <2>2. pc[c] = "loop" /\ pc'[c] = "respond" /\ UNCHANGED <<tasks, lost>> /\ loc'[c] = l
    BY <1>0, <1>1 DEF LoopEnd, Set, Goto, db
  <2> HIDE DEF l
  <2> QED
    BY <2>1, <2>2 DEF ChainInv
<1>2. ASSUME NEW ok \in Outcomes, Respond(c, ok) PROVE ChainInv(c)'
  <2>1. [loc[c] EXCEPT !.state = "RESPONDED"].out = loc[c].out
    BY <1>0 DEF Locals
  <2>2. pc'[c] = "agent_msg" /\ loc'[c] = [loc[c] EXCEPT !.state = "RESPONDED"]
    BY <1>0, <1>2 DEF Respond, Set, Goto
  <2> QED
    BY <2>1, <2>2 DEF ChainInv
<1>3. ASSUME NEW ok \in Outcomes, RecordAgentMessage(c, ok) PROVE ChainInv(c)'
  <2>1. pc'[c] = "response_trace" /\ UNCHANGED loc
    BY <1>0, <1>3 DEF RecordAgentMessage, Goto
  <2> QED
    BY <2>1 DEF ChainInv
<1>4. ASSUME NEW ok \in Outcomes, RecordResponse(c, ok) PROVE ChainInv(c)'
  <2> DEFINE e == Text("response", loc[c].text)
  <2>1. e \in Entry /\ e.type # "status_update"
    BY <1>0, EntryType, EntryKinds
  <2>2. pc'[c] = "ok" /\ loc'[c] = Emitted(c, e)
    BY <1>0, <1>4 DEF RecordResponse, Set, Goto
  <2> HIDE DEF e
  <2>3. Emitted(c, e).out = Append(loc[c].out, e)
    BY <1>0 DEF Emitted, Locals
  <2>4. Chain(Append(loc[c].out, e))
    BY <1>0, <2>1, AppendChain DEF ChainInv
  <2> QED
    BY <2>2, <2>3, <2>4 DEF ChainInv
<1> QED
  BY <1>1, <1>2, <1>3, <1>4 DEF Close

(***************************************************************************)
(* The status updates a caller receives form a chain from SUBMITTED, and   *)
(* the row never lags behind it if no write to it failed.                  *)
(***************************************************************************)
THEOREM StatusChainCorrect == Spec => []StatusChain
<1>1. Init => \A c \in Calls : ChainInv(c)
  <2>1. Updates(<<>>) = {}
    <3>1. \A i : i \notin 1 .. Len(<<>>)
      OBVIOUS
    <3> QED BY <3>1 DEF Updates
  <2>2. Chain(<<>>)
    BY <2>1 DEF Chain
  <2>3. NullLocals.out = <<>>
    BY DEF NullLocals
  <2>4. Init => \A c \in Calls : pc[c] = "idle" /\ loc[c].out = <<>>
    BY <2>3 DEF Init
  <2> QED
    BY <2>2, <2>4 DEF ChainInv, Open, InStep
<1>2. /\ TypeOK /\ (\A c \in Calls : KeptInv(c)) /\ (\A c \in Calls : ChainInv(c)) /\ [Next]_vars
      => (\A c \in Calls : ChainInv(c))'
  <2> SUFFICES ASSUME TypeOK, \A c \in Calls : KeptInv(c), \A c \in Calls : ChainInv(c), [Next]_vars
               PROVE  \A c \in Calls : ChainInv(c)'
    OBVIOUS
  <2>1. CASE UNCHANGED vars
    BY <2>1 DEF vars, db, ChainInv, Current
  <2>2. CASE Crash
    <3>1. /\ UNCHANGED <<tasks, loc, lost>>
          /\ \A c \in Calls : pc'[c] \in {pc[c], "crashed"}
      BY <2>2 DEF Crash, TypeOK, db
    <3> QED
      BY <3>1 DEF ChainInv, Open, InStep, Current
  <2>3. ASSUME NEW c \in Calls, (\E x \in Contexts : Lookup(c, x)) \/ Send(c) \/ Replay(c) \/ Close(c)
        PROVE  \A d \in Calls : ChainInv(d)'
    <3>1. Apart(c) /\ ChainInv(c)'
      BY <2>3, KeptOpen, KeptReplay, KeptClose, ChainSend, ChainReplay, ChainClose
    <3>2. \A d \in Calls \ {c} : ChainInv(d)'
      BY <3>1 DEF Apart, ChainInv, Current
    <3> QED
      BY <3>1, <3>2
  <2> QED
    BY <2>1, <2>2, <2>3 DEF Next
<1>3. (\A c \in Calls : ChainInv(c)) => StatusChain
  BY DEF ChainInv, Chain, EndsIn, Open, InStep, StatusChain
<1> QED
  BY <1>1, <1>2, <1>3, KeptHolds, TypeCorrect, PTL DEF Spec
=============================================================================
