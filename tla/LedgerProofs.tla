---------------------------- MODULE LedgerProofs ----------------------------
(***************************************************************************)
(* MessageBus implements TaskLedger, for every set of calls, contexts,     *)
(* texts and agent events, every bound, and with or without writes that    *)
(* fail.                                                                   *)
(*                                                                         *)
(* A step of the bus changes the row, the phase and the copies of one call *)
(* only, so it is compared with the ledger point by point: what the ledger *)
(* allows for one call is Point, and Lift makes a step of it.              *)
(***************************************************************************)
EXTENDS MessageBusProofs

RowOf(c) == IF tasks[c] = NoTask THEN "none" ELSE tasks[c].state
Rows == [c \in Calls |-> RowOf(c)]
Phases == [c \in Calls |-> PhaseOf(pc[c])]
AllCopies == [c \in Calls |-> Copies(c)]

\* The other calls are left alone.
Alone(c) ==
  \A d \in Calls \ {c} :
    /\ tasks'[d] = tasks[d] /\ messages'[d] = messages[d] /\ trace'[d] = trace[d]
    /\ pc'[d] = pc[d] /\ loc'[d] = loc[d]

\* c goes from a phase to a phase, and the row becomes s unless that is lost.
Moves(c, from, to) == PhaseOf(pc[c]) = from /\ PhaseOf(pc'[c]) = to
Written(c, s) == RowOf(c)' = s \/ (DBMayFail /\ RowOf(c)' = RowOf(c))
SameRow(c) == RowOf(c)' = RowOf(c)
SameCopies(c) == Copies(c)' = Copies(c)

\* What TaskLedger allows c in one step.
Point(c) ==
  \/ PhaseOf(pc'[c]) = PhaseOf(pc[c]) /\ SameRow(c) /\ SameCopies(c)
  \/ Moves(c, "new", "refused") /\ SameRow(c) /\ SameCopies(c)
  \/ Moves(c, "new", "open") /\ RowOf(c)' = "SUBMITTED" /\ SameCopies(c)
  \/ DBMayFail /\ Moves(c, "new", "failed") /\ Written(c, "SUBMITTED") /\ SameCopies(c)
  \/ DBMayFail /\ Moves(c, "open", "failed") /\ SameRow(c) /\ SameCopies(c)
  \/ Moves(c, "open", "asked") /\ SameRow(c) /\ SameCopies(c)
  \/ Moves(c, "asked", "asked") /\ RowOf(c)' \in AgentStates /\ SameCopies(c)
  \/ Moves(c, "asked", "responded") /\ Written(c, "RESPONDED") /\ SameCopies(c)
  \/ Moves(c, "asked", "failed") /\ Written(c, "ERROR") /\ SameCopies(c)
  \/ \E t \in Texts \cup {Empty} :
       /\ Moves(c, "responded", "responded") \/ Moves(c, "responded", "ok")
       /\ SameRow(c) /\ Copies(c) \subseteq {t} /\ Copies(c)' = {t}

\* A step that the ledger allows for one call and that leaves the others
\* alone is a step of the ledger.
LEMMA Lift ==
  ASSUME NEW c \in Calls, Alone(c), Point(c)
  PROVE  [Ledger!Next]_(Ledger!ledger)
<1>1. /\ Rows' = [Rows EXCEPT ![c] = RowOf(c)']
      /\ Phases' = [Phases EXCEPT ![c] = PhaseOf(pc'[c])]
      /\ AllCopies' = [AllCopies EXCEPT ![c] = Copies(c)']
  BY DEF Alone, Rows, RowOf, Phases, AllCopies, Copies
<1>2. /\ Rows[c] = RowOf(c) /\ Phases[c] = PhaseOf(pc[c]) /\ AllCopies[c] = Copies(c)
      /\ DOMAIN Rows = Calls /\ DOMAIN Phases = Calls /\ DOMAIN AllCopies = Calls
  BY DEF Rows, Phases, AllCopies
<1>3. /\ SameRow(c) => Rows' = Rows
      /\ SameCopies(c) => AllCopies' = AllCopies
      /\ PhaseOf(pc'[c]) = PhaseOf(pc[c]) => Phases' = Phases
  <2>1. SameRow(c) => Rows' = Rows
    BY <1>1, <1>2 DEF SameRow, Rows
  <2>2. SameCopies(c) => AllCopies' = AllCopies
    BY <1>1, <1>2 DEF SameCopies, AllCopies
  <2>3. PhaseOf(pc'[c]) = PhaseOf(pc[c]) => Phases' = Phases
    BY <1>1, <1>2 DEF Phases
  <2> QED
    BY <2>1, <2>2, <2>3
<1>4. PhaseOf(pc'[c]) = PhaseOf(pc[c]) /\ SameRow(c) /\ SameCopies(c) => UNCHANGED Ledger!ledger
  BY <1>3 DEF Ledger!ledger, Rows, RowOf, Phases, AllCopies
<1>5. Moves(c, "new", "refused") /\ SameRow(c) /\ SameCopies(c) => Ledger!Refuse(c)
  BY <1>1, <1>2, <1>3 DEF Moves, Ledger!Refuse, Ledger!To, Rows, RowOf, Phases, AllCopies
<1>6. Moves(c, "new", "open") /\ RowOf(c)' = "SUBMITTED" /\ SameCopies(c) => Ledger!Open(c)
  BY <1>1, <1>2, <1>3 DEF Moves, Ledger!Open, Ledger!To, Rows, RowOf, Phases, AllCopies
<1>7. /\ \/ Moves(c, "new", "failed") /\ Written(c, "SUBMITTED")
         \/ Moves(c, "open", "failed") /\ SameRow(c)
      /\ DBMayFail /\ SameCopies(c)
      => Ledger!Abort(c)
  BY <1>1, <1>2, <1>3
  DEF Moves, Written, SameRow, Ledger!Abort, Ledger!To, Ledger!Write, Rows, RowOf, Phases, AllCopies
<1>8. Moves(c, "open", "asked") /\ SameRow(c) /\ SameCopies(c) => Ledger!Ask(c)
  BY <1>1, <1>2, <1>3 DEF Moves, Ledger!Ask, Ledger!To, Rows, RowOf, Phases, AllCopies
<1>9. Moves(c, "asked", "asked") /\ RowOf(c)' \in AgentStates /\ SameCopies(c)
      => \E s \in AgentStates : Ledger!Move(c, s)
  BY <1>1, <1>2, <1>3 DEF Moves, Ledger!Move, Rows, RowOf, Phases, AllCopies
<1>10. Moves(c, "asked", "responded") /\ Written(c, "RESPONDED") /\ SameCopies(c)
       => Ledger!Respond(c)
  BY <1>1, <1>2, <1>3
  DEF Moves, Written, SameRow, Ledger!Respond, Ledger!To, Ledger!Write, Rows, RowOf, Phases, AllCopies
<1>11. Moves(c, "asked", "failed") /\ Written(c, "ERROR") /\ SameCopies(c) => Ledger!Fail(c)
  BY <1>1, <1>2, <1>3
  DEF Moves, Written, SameRow, Ledger!Fail, Ledger!To, Ledger!Write, Rows, RowOf, Phases, AllCopies
<1>12. ASSUME NEW t \in Texts \cup {Empty}, SameRow(c), Copies(c) \subseteq {t}, Copies(c)' = {t}
       PROVE  /\ Moves(c, "responded", "responded") => Ledger!Publish(c, t)
              /\ Moves(c, "responded", "ok") => Ledger!Return(c, t)
  BY <1>1, <1>2, <1>3, <1>12
  DEF Moves, Ledger!Publish, Ledger!Return, Ledger!To, Rows, RowOf, Phases, AllCopies
<1> QED
  BY <1>4, <1>5, <1>6, <1>7, <1>8, <1>9, <1>10, <1>11, <1>12 DEF Point, Ledger!Next

-----------------------------------------------------------------------------
(***************************************************************************)
(* The refinement needs that a text is not chosen twice: nothing has a     *)
(* copy before the task is RESPONDED, and what has one while the tables    *)
(* are written has the text the call holds.                                *)
(***************************************************************************)
Before == PCs \ {"agent_msg", "response_trace", "ok", "crashed"}

CopyInv(c) ==
  /\ pc[c] \in Before => Copies(c) = {}
  /\ pc[c] \in {"agent_msg", "response_trace"} => Copies(c) \subseteq {loc[c].text}

LInv == TypeOK /\ \A c \in Calls : CopyInv(c)

(***************************************************************************)
(* What an appended row adds to the copies of the response.                *)
(***************************************************************************)
LEMMA AppendTexts ==
  ASSUME NEW s \in Seq(Entry), NEW e \in Entry
  PROVE  ResponseTexts(Append(s, e)) =
           ResponseTexts(s) \cup (IF e.type = "response" THEN {e.text} ELSE {})
<1>1. /\ Len(Append(s, e)) = Len(s) + 1 /\ Len(s) \in Nat
      /\ \A i \in 1 .. Len(s) : Append(s, e)[i] = s[i]
      /\ Append(s, e)[Len(s) + 1] = e
  OBVIOUS
<1>2. \A i : i \in 1 .. Len(s) + 1 <=> i \in 1 .. Len(s) \/ i = Len(s) + 1
  BY <1>1
<1> QED
  BY <1>1, <1>2 DEF ResponseTexts

\* What an added message adds to the answers on record.
LEMMA AppendAnswers ==
  ASSUME NEW s \in Seq(Message), NEW m \in Message
  PROVE  AnswerTexts(Append(s, m)) =
           AnswerTexts(s) \cup (IF m.role = "agent" THEN {m.text} ELSE {})
<1>1. /\ Len(Append(s, m)) = Len(s) + 1 /\ Len(s) \in Nat
      /\ \A i \in 1 .. Len(s) : Append(s, m)[i] = s[i]
      /\ Append(s, m)[Len(s) + 1] = m
  OBVIOUS
<1>2. \A i : i \in 1 .. Len(s) + 1 <=> i \in 1 .. Len(s) \/ i = Len(s) + 1
  BY <1>1
<1> QED
  BY <1>1, <1>2 DEF AnswerTexts

(***************************************************************************)
(* The phase of every place.                                               *)
(***************************************************************************)
LEMMA Phase ==
  /\ \A p \in {"idle", "create"} : PhaseOf(p) = "new"
  /\ \A p \in {"user", "send"} : PhaseOf(p) = "open"
  /\ \A p \in {"call", "error_trace", "error_state", "loop", "task_update", "status_trace",
               "respond"} : PhaseOf(p) = "asked"
  /\ \A p \in {"agent_msg", "response_trace"} : PhaseOf(p) = "responded"
  /\ \A p \in Returned : PhaseOf(p) = p
  /\ PhaseOf("crashed") = "lost"
  BY DEF PhaseOf, Returned

(***************************************************************************)
(* The writes of a call: what each does to its row and to the copies.      *)
(***************************************************************************)
LEMMA OutcomeOf == \A ok \in Outcomes : ok \in BOOLEAN /\ (~ok => DBMayFail)
  BY MessageBusAssumption DEF MessageBusAssumption, Outcomes

\* Record changes the trace of its call only, by one row or not at all.
LEMMA RecordEffect ==
  ASSUME TypeOK, NEW c \in Calls, NEW e \in Entry, NEW ok, Record(c, e, ok)
  PROVE  /\ UNCHANGED <<tasks, messages>>
         /\ \A d \in Calls \ {c} : trace'[d] = trace[d]
         /\ e.type # "response" => ResponseTexts(trace'[c]) = ResponseTexts(trace[c])
         /\ e.type = "response" =>
              ResponseTexts(trace'[c]) \in
                {ResponseTexts(trace[c]), ResponseTexts(trace[c]) \cup {e.text}}
<1>1. trace[c] \in Seq(Entry)
  BY DEF TypeOK
<1>2. trace'[c] \in {trace[c], Append(trace[c], e)} /\ \A d \in Calls \ {c} : trace'[d] = trace[d]
  BY DEF Record, TypeOK
<1>3. trace'[c] = trace[c] \/ ResponseTexts(trace'[c]) =
        ResponseTexts(trace[c]) \cup (IF e.type = "response" THEN {e.text} ELSE {})
  BY <1>1, <1>2, AppendTexts
<1> QED
  BY <1>2, <1>3 DEF Record

\* Adding a message changes the messages of its call, by one row or not at all.
LEMMA AddMessageEffect ==
  ASSUME TypeOK, NEW c \in Calls, NEW role \in {"user", "agent"}, NEW t \in Texts \cup {Empty},
         NEW ok, AddMessage(c, role, t, ok)
  PROVE  /\ UNCHANGED <<tasks, trace>>
         /\ \A d \in Calls \ {c} : messages'[d] = messages[d]
         /\ role = "user" => AnswerTexts(messages'[c]) = AnswerTexts(messages[c])
         /\ role = "agent" =>
              AnswerTexts(messages'[c]) \in
                {AnswerTexts(messages[c]), AnswerTexts(messages[c]) \cup {t}}
<1> DEFINE m == [role |-> role, text |-> t]
<1>1. messages[c] \in Seq(Message) /\ m \in Message /\ m.role = role /\ m.text = t
  BY DEF TypeOK, Message
<1>2. messages'[c] \in {messages[c], Append(messages[c], m)}
      /\ \A d \in Calls \ {c} : messages'[d] = messages[d]
  BY DEF AddMessage, TypeOK
<1> HIDE DEF m
<1>3. messages'[c] = messages[c] \/ AnswerTexts(messages'[c]) =
        AnswerTexts(messages[c]) \cup (IF role = "agent" THEN {t} ELSE {})
  BY <1>1, <1>2, AppendAnswers
<1> QED
  BY <1>2, <1>3 DEF AddMessage

\* UpdateState changes the row of its call, or loses the write.
LEMMA UpdateStateEffect ==
  ASSUME TypeOK, NEW c \in Calls, NEW s \in States, NEW ok \in Outcomes,
         tasks[c] # NoTask, UpdateState(c, s, ok)
  PROVE  /\ UNCHANGED <<messages, trace>>
         /\ \A d \in Calls \ {c} : tasks'[d] = tasks[d]
         /\ Written(c, s)
<1> DEFINE row == [tasks[c] EXCEPT !.state = s]
<1>1. row.state = s /\ row # NoTask
  BY MessageBusAssumption DEF MessageBusAssumption, TypeOK, TaskRow
<1>2. tasks' = [tasks EXCEPT ![c] = IF ok THEN row ELSE tasks[c]]
  BY DEF UpdateState
<1> HIDE DEF row
<1>3. tasks'[c] = IF ok THEN row ELSE tasks[c]
  BY <1>2 DEF TypeOK
<1>4. ASSUME ok PROVE Written(c, s)
  <2>1. RowOf(c)' = s
    BY <1>1, <1>3, <1>4 DEF RowOf
  <2> QED
    BY <2>1 DEF Written
<1>5. ASSUME ~ok PROVE Written(c, s)
  <2>1. DBMayFail
    BY <1>5, OutcomeOf
  <2>2. RowOf(c)' = RowOf(c)
    BY <1>3, <1>5 DEF RowOf
  <2> QED
    BY <2>1, <2>2 DEF Written
<1>6. UNCHANGED <<messages, trace>> /\ \A d \in Calls \ {c} : tasks'[d] = tasks[d]
  BY <1>2 DEF UpdateState, TypeOK
<1> QED
  BY <1>4, <1>5, <1>6

(***************************************************************************)
(* An entry that is emitted adds its text iff it is a response.            *)
(***************************************************************************)
LEMMA EmittedTexts ==
  ASSUME NEW c \in Calls, NEW e \in Entry, loc[c] \in Locals
  PROVE  ResponseTexts(Emitted(c, e).out) =
           ResponseTexts(loc[c].out) \cup (IF e.type = "response" THEN {e.text} ELSE {})
<1>1. loc[c].out \in Seq(Entry) /\ Emitted(c, e).out = Append(loc[c].out, e)
  BY DEF Locals, Emitted
<1> QED
  BY <1>1, AppendTexts

\* Entries are of the type, and carry the text, they are made with.
LEMMA MoreTypes ==
  /\ \A type \in {"send", "task_created", "error", "unknown"} : Plain(type).type = type
  /\ \A type \in {"task", "task_update", "status_update"}, s, t \in States :
       Change(type, s, t).type = type
  /\ \A type \in {"artifact", "message", "response"}, t \in Texts \cup {Empty} :
       Text(type, t).type = type /\ Text(type, t).text = t
  BY DEF Plain, Change, Text

-----------------------------------------------------------------------------
(***************************************************************************)
(* The row of a call after a step that does not copy the response, by the  *)
(* place the step leads to.                                                *)
(***************************************************************************)
RowStep(c, label) ==
  \/ PhaseOf(label) = PhaseOf(pc[c]) /\ SameRow(c)
  \/ PhaseOf(pc[c]) = "new" /\ label = "refused" /\ SameRow(c)
  \/ PhaseOf(pc[c]) = "new" /\ label = "user" /\ RowOf(c)' = "SUBMITTED"
  \/ DBMayFail /\ PhaseOf(pc[c]) = "new" /\ label = "failed" /\ Written(c, "SUBMITTED")
  \/ DBMayFail /\ PhaseOf(pc[c]) = "open" /\ label = "failed" /\ SameRow(c)
  \/ PhaseOf(pc[c]) = "open" /\ label = "call" /\ SameRow(c)
  \/ PhaseOf(pc[c]) = "asked" /\ PhaseOf(label) = "asked" /\ RowOf(c)' \in AgentStates
  \/ PhaseOf(pc[c]) = "asked" /\ label = "agent_msg" /\ Written(c, "RESPONDED")
  \/ PhaseOf(pc[c]) = "asked" /\ label = "failed" /\ Written(c, "ERROR")

\* The step copies no text, and leaves the other calls alone.
SameTexts(c) ==
  /\ ResponseTexts(trace'[c]) = ResponseTexts(trace[c])
  /\ AnswerTexts(messages'[c]) = AnswerTexts(messages[c])
  /\ ResponseTexts(loc'[c].out) = ResponseTexts(loc[c].out)
OthersSame(c) ==
  \A d \in Calls \ {c} :
    tasks'[d] = tasks[d] /\ messages'[d] = messages[d] /\ trace'[d] = trace[d] /\ loc'[d] = loc[d]

Good(c) == Alone(c) /\ Point(c) /\ CopyInv(c)'

\* A step before the response is copied satisfies the ledger if it changes
\* the row as the place it leads to says.
LEMMA NoCopy ==
  ASSUME LInv, NEW c \in Calls, NEW label \in Before \cup {"agent_msg"}, Goto(c, label),
         pc[c] \in Before, OthersSame(c), SameTexts(c), RowStep(c, label)
  PROVE  Good(c)
<1>1. pc'[c] = label /\ \A d \in Calls \ {c} : pc'[d] = pc[d]
  BY DEF LInv, TypeOK, Goto
<1>2. Alone(c)
  BY <1>1 DEF Alone, OthersSame
<1>3. SameCopies(c) /\ Copies(c) = {}
  BY DEF SameTexts, SameCopies, Copies, LInv, CopyInv
<1>4. CopyInv(c)'
  BY <1>3 DEF SameCopies, CopyInv
<1>5. Point(c)
  BY <1>1, <1>3, Phase DEF RowStep, Point, Moves, Returned
<1> QED
  BY <1>2, <1>4, <1>5 DEF Good

(***************************************************************************)
(* Opening a task and calling the agent (messagebus.go:82-119).            *)
(***************************************************************************)
LEMMA LedgerSend ==
  ASSUME LInv, NEW c \in Calls,
         \/ \E x \in Contexts : Lookup(c, x)
         \/ Send(c)
  PROVE  Good(c)
<1> USE DEF LInv, At, Before, PCs, Returned
<1>0. loc[c] \in Locals /\ "ERROR" \in States /\ NoText \in Texts \cup {Empty}
  BY MessageBusAssumption DEF TypeOK, States, MessageBusAssumption
<1>1. ASSUME NEW x \in Contexts, Lookup(c, x) PROVE Good(c)
  <2> DEFINE l == [NullLocals EXCEPT !.ctx = x]
  <2>1. l \in Locals /\ l.out = <<>>
    BY NullLocalsType DEF NullLocals
  <2>2. /\ Set(c, l) /\ pc[c] = "idle" /\ UNCHANGED <<tasks, messages, trace>>
        /\ (Goto(c, "create") \/ Goto(c, "refused"))
    BY <1>1 DEF Lookup, db
  <2> HIDE DEF l
  <2>3. loc'[c] = l /\ OthersSame(c)
    BY <2>1, <2>2, SetType DEF OthersSame
  <2>4. ResponseTexts(<<>>) = {} /\ ResponseTexts(loc[c].out) = {}
    <3>1. Copies(c) = {}
      BY <2>2 DEF CopyInv
    <3>2. ResponseTexts(loc[c].out) = {}
      BY <3>1 DEF Copies
    <3>3. \A i : i \notin 1 .. Len(<<>>)
      OBVIOUS
    <3>4. ResponseTexts(<<>>) = {}
      BY <3>3 DEF ResponseTexts
    <3> QED
      BY <3>2, <3>4
  <2>5. SameTexts(c) /\ SameRow(c)
    BY <2>1, <2>2, <2>3, <2>4 DEF SameTexts, SameRow, RowOf
  <2>6. RowStep(c, "create") /\ RowStep(c, "refused")
    BY <2>2, <2>5, Phase DEF RowStep
  <2> QED
    BY <2>2, <2>3, <2>5, <2>6, NoCopy
<1>2. ASSUME NEW inserted \in Outcomes, NEW ok \in Outcomes, CreateTask(c, inserted, ok)
      PROVE  Good(c)
  <2> DEFINE row == [state |-> "SUBMITTED", ctx |-> loc[c].ctx]
             label == IF ok THEN "user" ELSE "failed"
  <2>1. row.state = "SUBMITTED" /\ row # NoTask
    BY <1>0, MessageBusAssumption DEF MessageBusAssumption, TaskRow, States, Locals
  <2>2. /\ tasks' = [tasks EXCEPT ![c] = IF inserted THEN row ELSE tasks[c]]
        /\ UNCHANGED <<messages, trace, loc>> /\ pc[c] = "create"
        /\ Goto(c, label) /\ (ok => inserted)
    BY <1>2 DEF CreateTask
  <2> HIDE DEF row
  <2>3. /\ tasks'[c] = IF inserted THEN row ELSE tasks[c]
        /\ OthersSame(c) /\ SameTexts(c)
    BY <2>2 DEF TypeOK, OthersSame, SameTexts
  <2>4. inserted => RowOf(c)' = "SUBMITTED"
    BY <2>1, <2>3 DEF RowOf
  <2>5. ~inserted => RowOf(c)' = RowOf(c)
    BY <2>3 DEF RowOf
  <2>6. ~ok => DBMayFail /\ Written(c, "SUBMITTED")
    BY <2>4, <2>5, OutcomeOf DEF Written
  <2>7. RowStep(c, label)
    BY <2>2, <2>4, <2>6, Phase DEF RowStep
  <2> QED
    BY <2>2, <2>3, <2>7, NoCopy
<1>3. ASSUME NEW inserted \in Outcomes, NEW ok \in Outcomes, RecordUserMessage(c, inserted, ok)
      PROVE  Good(c)
  <2> DEFINE label == IF ok THEN "send" ELSE "failed"
  <2>1. /\ UNCHANGED <<tasks, trace>> /\ \A d \in Calls \ {c} : messages'[d] = messages[d]
        /\ AnswerTexts(messages'[c]) = AnswerTexts(messages[c])
    BY <1>0, <1>3, AddMessageEffect DEF RecordUserMessage
  <2>2. Goto(c, label) /\ pc[c] = "user" /\ UNCHANGED loc
    BY <1>3 DEF RecordUserMessage
  <2>3. SameTexts(c) /\ SameRow(c) /\ OthersSame(c)
    BY <2>1, <2>2 DEF SameTexts, SameRow, RowOf, OthersSame
  <2>4. RowStep(c, label)
    BY <2>2, <2>3, Phase, OutcomeOf DEF RowStep
  <2> QED
    BY <2>2, <2>3, <2>4, NoCopy
<1>4. ASSUME NEW ok \in Outcomes, RecordSend(c, ok) \/ RecordError(c, ok) PROVE Good(c)
  <2>1. \/ pc[c] = "send" /\ Goto(c, "call") /\ Record(c, Plain("send"), ok)
        \/ pc[c] = "error_trace" /\ Goto(c, "error_state") /\ Record(c, Plain("error"), ok)
    BY <1>4 DEF RecordSend, RecordError
  <2>2. /\ UNCHANGED <<tasks, messages>> /\ \A d \in Calls \ {c} : trace'[d] = trace[d]
        /\ ResponseTexts(trace'[c]) = ResponseTexts(trace[c])
    BY <2>1, EntryType, MoreTypes, RecordEffect
  <2>3. UNCHANGED loc
    BY <1>4 DEF RecordSend, RecordError
  <2>4. SameTexts(c) /\ SameRow(c) /\ OthersSame(c)
    BY <2>2, <2>3 DEF SameTexts, SameRow, RowOf, OthersSame
  <2> QED
    BY <2>1, <2>4, Phase, NoCopy DEF RowStep
<1>5. ASSUME NEW ok \in Outcomes, FailTask(c, ok) PROVE Good(c)
  <2>1. /\ pc[c] = "error_state" /\ tasks[c] # NoTask /\ UpdateState(c, "ERROR", ok)
        /\ Goto(c, "failed") /\ UNCHANGED loc
    BY <1>5 DEF FailTask, TypeOK
  <2>2. /\ UNCHANGED <<messages, trace>> /\ \A d \in Calls \ {c} : tasks'[d] = tasks[d]
        /\ Written(c, "ERROR")
    BY <1>0, <2>1, UpdateStateEffect
  <2>3. SameTexts(c) /\ OthersSame(c)
    BY <2>1, <2>2 DEF SameTexts, OthersSame
  <2> QED
    BY <2>1, <2>2, <2>3, Phase, NoCopy DEF RowStep
<1>6. ASSUME NEW events \in Replies, AgentAnswers(c, events) PROVE Good(c)
  <2> DEFINE l == [loc[c] EXCEPT !.inbox = events]
  <2>1. l \in Locals /\ l.out = loc[c].out
    <3>1. events \in Seq(Event)
      BY MessageBusAssumption DEF Replies, MessageBusAssumption
    <3> QED BY <1>0, <3>1 DEF Locals
  <2>2. Set(c, l) /\ pc[c] = "call" /\ UNCHANGED <<tasks, messages, trace>> /\ Goto(c, "loop")
    BY <1>6 DEF AgentAnswers, db
  <2> HIDE DEF l
  <2>3. loc'[c] = l /\ OthersSame(c)
    BY <2>1, <2>2, SetType DEF OthersSame
  <2>4. SameTexts(c) /\ SameRow(c)
    BY <2>1, <2>2, <2>3 DEF SameTexts, SameRow, RowOf
  <2> QED
    BY <2>2, <2>3, <2>4, Phase, NoCopy DEF RowStep
<1>7. ASSUME AgentFails(c) PROVE Good(c)
  <2>1. pc[c] = "call" /\ Goto(c, "error_trace") /\ UNCHANGED <<tasks, messages, trace, loc>>
    BY <1>7 DEF AgentFails, db
  <2>2. SameTexts(c) /\ SameRow(c) /\ OthersSame(c)
    BY <2>1 DEF SameTexts, SameRow, RowOf, OthersSame
  <2> QED
    BY <2>1, <2>2, Phase, NoCopy DEF RowStep
<1> QED
  BY <1>1, <1>2, <1>3, <1>4, <1>5, <1>6, <1>7 DEF Send

(***************************************************************************)
(* Replaying an event of the reply (messagebus.go:126-233).                *)
(***************************************************************************)
LEMMA LedgerReplay ==
  ASSUME LInv, NEW c \in Calls, Replay(c)
  PROVE  Good(c)
<1> USE DEF LInv, At, AtEvent, Before, PCs, Returned
<1>0. /\ loc[c] \in Locals /\ loc[c].state \in States /\ loc[c].text \in Texts \cup {Empty}
      /\ loc[c].part \in Nat /\ loc[c].part >= 1
      /\ "SUBMITTED" \in States /\ AgentStates \subseteq States
  BY DEF TypeOK, Locals, States
\* A step that leaves the row and the messages, records at most an entry that
\* is no response, and sets the variables to l.
<1>1. ASSUME NEW label, Goto(c, label), PhaseOf(label) = "asked", label \in Before,
             pc[c] \in Before, PhaseOf(pc[c]) = "asked",
             UNCHANGED <<tasks, messages>>, \A d \in Calls \ {c} : trace'[d] = trace[d],
             ResponseTexts(trace'[c]) = ResponseTexts(trace[c]),
             NEW l \in Locals, Set(c, l), ResponseTexts(l.out) = ResponseTexts(loc[c].out)
      PROVE  Good(c)
  <2>1. loc'[c] = l /\ OthersSame(c)
    BY <1>1, SetType DEF OthersSame
  <2>2. SameTexts(c) /\ SameRow(c)
    BY <1>1, <2>1 DEF SameTexts, SameRow, RowOf
  <2> QED
    BY <1>1, <2>1, <2>2, NoCopy DEF RowStep
\* An event emitted at the end of a step.
<1>2. ASSUME NEW e \in Entry, e.type # "response"
      PROVE  /\ Emitted(c, e) \in Locals
             /\ ResponseTexts(Emitted(c, e).out) = ResponseTexts(loc[c].out)
  BY <1>0, <1>2, EmittedType, EmittedTexts
<1>3. ASSUME NEW ok \in Outcomes, TaskEvent(c, ok) PROVE Good(c)
  <2>1. /\ pc[c] = "loop" /\ Goto(c, "task_update") /\ Record(c, Plain("task_created"), ok)
        /\ UNCHANGED loc
    BY <1>3 DEF TaskEvent
  <2>2. /\ UNCHANGED <<tasks, messages>> /\ \A d \in Calls \ {c} : trace'[d] = trace[d]
        /\ ResponseTexts(trace'[c]) = ResponseTexts(trace[c])
    BY <2>1, EntryType, MoreTypes, RecordEffect
  <2>3. SameTexts(c) /\ SameRow(c) /\ OthersSame(c)
    BY <2>1, <2>2 DEF SameTexts, SameRow, RowOf, OthersSame
  <2> QED
    BY <2>1, <2>3, Phase, NoCopy DEF RowStep
<1>4. ASSUME NEW ok \in Outcomes, TaskEventUpdate(c, ok) PROVE Good(c)
  <2> PICK e \in Event : e = Current(c) /\ e.state \in AgentStates /\ e.ctx \in Contexts
    BY <1>4, CurrentType DEF TaskEventUpdate, TypeOK
  <2> DEFINE m == Emitted(c, Change("task", "SUBMITTED", e.state))
             l == [m EXCEPT !.ctx = IF m.ctx = NoText THEN e.ctx ELSE m.ctx]
  <2>1. /\ Change("task", "SUBMITTED", e.state) \in Entry
        /\ Change("task", "SUBMITTED", e.state).type # "response"
        /\ Change("task_update", "SUBMITTED", e.state) \in Entry
        /\ Change("task_update", "SUBMITTED", e.state).type # "response"
    BY <1>0, EntryType, MoreTypes
  <2>2. m \in Locals /\ ResponseTexts(m.out) = ResponseTexts(loc[c].out)
    BY <1>2, <2>1
  <2>3. /\ pc[c] = "task_update" /\ Goto(c, "loop") /\ Set(c, Advanced(l))
        /\ \/ Record(c, Change("task_update", "SUBMITTED", e.state), ok)
           \/ UNCHANGED <<tasks, messages, trace>>
    BY <1>4 DEF TaskEventUpdate, db
  <2> HIDE DEF m
  <2>4. l \in Locals /\ l.out = m.out
    BY <2>2 DEF Locals
  <2> HIDE DEF l
  <2>5. Advanced(l) \in Locals /\ Advanced(l).out = l.out
    BY <2>4, AdvancedType
  <2>6. /\ UNCHANGED <<tasks, messages>> /\ \A d \in Calls \ {c} : trace'[d] = trace[d]
        /\ ResponseTexts(trace'[c]) = ResponseTexts(trace[c])
    BY <2>1, <2>3, RecordEffect
  <2> QED
    BY <1>1, <2>2, <2>3, <2>4, <2>5, <2>6, Phase
<1>5. ASSUME NEW ok \in Outcomes, StatusEvent(c, ok) PROVE Good(c)
  <2>1. pc[c] = "loop" /\ tasks[c] # NoTask /\ HasEvent(c)
    BY <1>5 DEF StatusEvent, TypeOK
  <2>2. Current(c).state \in AgentStates /\ Current(c).state \in States
    BY <1>0, <2>1, CurrentType
  <2>3. UpdateState(c, Current(c).state, ok) /\ Goto(c, "status_trace") /\ UNCHANGED loc
    BY <1>5 DEF StatusEvent
  <2>4. /\ UNCHANGED <<messages, trace>> /\ \A d \in Calls \ {c} : tasks'[d] = tasks[d]
        /\ Written(c, Current(c).state)
    BY <2>1, <2>2, <2>3, UpdateStateEffect
  <2>5. RowOf(c)' \in AgentStates \/ SameRow(c)
    BY <2>2, <2>4 DEF Written, SameRow
  <2>6. SameTexts(c) /\ OthersSame(c)
    BY <2>3, <2>4 DEF SameTexts, OthersSame
  <2> QED
    BY <2>1, <2>3, <2>5, <2>6, Phase, NoCopy DEF RowStep
<1>6. ASSUME NEW ok \in Outcomes, StatusTrace(c, ok) PROVE Good(c)
  <2> PICK new \in AgentStates : new = Current(c).state
    BY <1>6, CurrentType DEF StatusTrace, TypeOK
  <2> PICK old \in States : old = loc[c].state
    BY <1>0
  <2> DEFINE m == Emitted(c, Change("status_update", old, new))
             l == [m EXCEPT !.state = new]
  <2>1. /\ Change("status_update", old, new) \in Entry
        /\ Change("status_update", old, new).type # "response"
        /\ Change("task_update", old, new) \in Entry
        /\ Change("task_update", old, new).type # "response"
    BY <1>0, EntryType, MoreTypes
  <2>2. m \in Locals /\ ResponseTexts(m.out) = ResponseTexts(loc[c].out)
    BY <1>2, <2>1
  <2>3. /\ pc[c] = "status_trace" /\ Goto(c, "loop") /\ Set(c, Advanced(l))
        /\ Record(c, Change("task_update", old, new), ok)
    BY <1>6 DEF StatusTrace
  <2> HIDE DEF m
  <2>4. l \in Locals /\ l.out = m.out
    BY <1>0, <2>2 DEF Locals
  <2> HIDE DEF l
  <2>5. Advanced(l) \in Locals /\ Advanced(l).out = l.out
    BY <2>4, AdvancedType
  <2>6. /\ UNCHANGED <<tasks, messages>> /\ \A d \in Calls \ {c} : trace'[d] = trace[d]
        /\ ResponseTexts(trace'[c]) = ResponseTexts(trace[c])
    BY <2>1, <2>3, RecordEffect
  <2> QED
    BY <1>1, <2>2, <2>3, <2>4, <2>5, <2>6, Phase
<1>7. ASSUME UNCHANGED pc, pc[c] = "loop" PROVE Goto(c, "loop")
  BY <1>7 DEF Goto, TypeOK
<1>8. ASSUME NEW ok \in Outcomes, ArtifactPart(c, ok) PROVE Good(c)
  <2>1. /\ pc[c] = "loop" /\ UNCHANGED pc /\ HasEvent(c)
        /\ loc[c].part <= Len(Current(c).parts)
    BY <1>8 DEF ArtifactPart
  <2> PICK t \in Texts : t = Current(c).parts[loc[c].part]
    BY <1>0, <2>1, CurrentType
  <2> DEFINE m == Emitted(c, Text("artifact", t))
             k == [m EXCEPT !.text = IF m.text = NoText THEN t ELSE m.text]
             l == [k EXCEPT !.part = k.part + 1]
             n == [loc[c] EXCEPT !.part = loc[c].part + 1]
  <2>2. Text("artifact", t) \in Entry /\ Text("artifact", t).type # "response"
    BY EntryType, MoreTypes
  <2>3. m \in Locals /\ ResponseTexts(m.out) = ResponseTexts(loc[c].out)
    BY <1>2, <2>2
  <2>4. \/ Record(c, Text("artifact", t), ok) /\ Set(c, l)
        \/ Set(c, n) /\ UNCHANGED <<tasks, messages, trace>>
    BY <1>8 DEF ArtifactPart, db
  <2> HIDE DEF m
  <2>5. k \in Locals /\ k.out = m.out
    BY <2>3 DEF Locals
  <2> HIDE DEF k
  <2>6. l \in Locals /\ l.out = k.out
    <3>1. k.part \in Nat /\ k.part + 1 \in Nat
      BY <2>5 DEF Locals
    <3> QED
      BY <2>5, <3>1 DEF Locals
  <2>7. n \in Locals /\ n.out = loc[c].out
    BY <1>0 DEF Locals
  <2> HIDE DEF l, n
  <2>8. /\ UNCHANGED <<tasks, messages>> /\ \A d \in Calls \ {c} : trace'[d] = trace[d]
        /\ ResponseTexts(trace'[c]) = ResponseTexts(trace[c])
    BY <2>2, <2>4, RecordEffect
  <2> QED
    BY <1>1, <1>7, <2>1, <2>3, <2>4, <2>5, <2>6, <2>7, <2>8, Phase
<1>9. ASSUME ArtifactEnd(c) \/ SkipEvent(c) PROVE Good(c)
  <2>1. /\ pc[c] = "loop" /\ UNCHANGED <<tasks, messages, trace, pc>> /\ Set(c, Advanced(loc[c]))
    BY <1>9 DEF ArtifactEnd, SkipEvent, db
  <2>2. Advanced(loc[c]) \in Locals /\ Advanced(loc[c]).out = loc[c].out
    BY <1>0, AdvancedType
  <2> QED
    BY <1>1, <1>7, <2>1, <2>2, Phase
<1>10. ASSUME MessagePart(c) PROVE Good(c)
  <2>1. /\ pc[c] = "loop" /\ UNCHANGED <<tasks, messages, trace, pc>> /\ HasEvent(c)
        /\ loc[c].part <= Len(Current(c).parts)
    BY <1>10 DEF MessagePart, db
  <2> PICK t \in Texts : t = Current(c).parts[loc[c].part]
    BY <1>0, <2>1, CurrentType
  <2> DEFINE m == [loc[c] EXCEPT !.text = IF t # NoText THEN t ELSE loc[c].text]
             l == [m EXCEPT !.part = m.part + 1]
  <2>2. m \in Locals /\ m.out = loc[c].out
    BY <1>0 DEF Locals
  <2>3. Set(c, l)
    BY <1>10 DEF MessagePart
  <2> HIDE DEF m
  <2>4. l \in Locals /\ l.out = loc[c].out
    BY <2>2 DEF Locals
  <2> HIDE DEF l
  <2> QED
    BY <1>1, <1>7, <2>1, <2>3, <2>4, Phase
<1>11. ASSUME MessageEnd(c) \/ UnknownEvent(c) PROVE Good(c)
  <2> PICK e \in {Text("message", loc[c].text), Plain("unknown")} :
        /\ pc[c] = "loop" /\ UNCHANGED <<tasks, messages, trace, pc>>
        /\ Set(c, Advanced(Emitted(c, e)))
    BY <1>11 DEF MessageEnd, UnknownEvent, db
  <2>1. e \in Entry /\ e.type # "response"
    BY <1>0, EntryType, MoreTypes
  <2>2. Emitted(c, e) \in Locals /\ ResponseTexts(Emitted(c, e).out) = ResponseTexts(loc[c].out)
    BY <1>2, <2>1
  <2>3. Advanced(Emitted(c, e)) \in Locals /\ Advanced(Emitted(c, e)).out = Emitted(c, e).out
    BY <2>2, AdvancedType
  <2> QED
    BY <1>1, <1>7, <2>2, <2>3, Phase
<1> QED
  BY <1>3, <1>4, <1>5, <1>6, <1>8, <1>9, <1>10, <1>11 DEF Replay

(***************************************************************************)
(* Closing the task (messagebus.go:235-259).  These steps make the copies. *)
(***************************************************************************)
LEMMA LedgerClose ==
  ASSUME LInv, NEW c \in Calls, Close(c)
  PROVE  Good(c)
<1> USE DEF LInv, At, Before, PCs, Returned
<1>0. loc[c] \in Locals /\ loc[c].text \in Texts \cup {Empty} /\ "RESPONDED" \in States
  BY DEF TypeOK, Locals, States
<1> PICK t \in Texts \cup {Empty} : t = loc[c].text
  BY <1>0
<1>1. ASSUME LoopEnd(c) PROVE Good(c)
  <2> DEFINE l == [loc[c] EXCEPT !.text = IF loc[c].text = NoText THEN Empty ELSE loc[c].text]
  <2>1. l \in Locals /\ l.out = loc[c].out
    BY <1>0 DEF Locals
  <2>2. /\ Set(c, l) /\ Goto(c, "respond") /\ pc[c] = "loop"
        /\ UNCHANGED <<tasks, messages, trace>>
    BY <1>1 DEF LoopEnd, db
  <2> HIDE DEF l
  <2>3. loc'[c] = l /\ OthersSame(c)
    BY <2>1, <2>2, SetType DEF OthersSame
  <2>4. SameTexts(c) /\ SameRow(c)
    BY <2>1, <2>2, <2>3 DEF SameTexts, SameRow, RowOf
  <2> QED
    BY <2>2, <2>3, <2>4, Phase, NoCopy DEF RowStep
<1>2. ASSUME NEW ok \in Outcomes, Respond(c, ok) PROVE Good(c)
  <2> DEFINE l == [loc[c] EXCEPT !.state = "RESPONDED"]
  <2>1. l \in Locals /\ l.out = loc[c].out
    BY <1>0 DEF Locals
  <2>2. /\ Set(c, l) /\ Goto(c, "agent_msg") /\ pc[c] = "respond" /\ tasks[c] # NoTask
        /\ UpdateState(c, "RESPONDED", ok)
    BY <1>2 DEF Respond, TypeOK
  <2> HIDE DEF l
  <2>3. /\ UNCHANGED <<messages, trace>> /\ \A d \in Calls \ {c} : tasks'[d] = tasks[d]
        /\ Written(c, "RESPONDED")
    BY <1>0, <2>2, UpdateStateEffect
  <2>4. loc'[c] = l /\ OthersSame(c)
    BY <2>1, <2>2, <2>3, SetType DEF OthersSame
  <2>5. SameTexts(c)
    BY <2>1, <2>3, <2>4 DEF SameTexts
  <2> QED
    BY <2>2, <2>3, <2>4, <2>5, Phase, NoCopy DEF RowStep
<1>3. ASSUME NEW ok \in Outcomes, RecordAgentMessage(c, ok) PROVE Good(c)
  <2>1. /\ pc[c] = "agent_msg" /\ Goto(c, "response_trace") /\ UNCHANGED loc
        /\ AddMessage(c, "agent", t, ok)
    BY <1>3 DEF RecordAgentMessage
  <2>2. /\ UNCHANGED <<tasks, trace>> /\ \A d \in Calls \ {c} : messages'[d] = messages[d]
        /\ AnswerTexts(messages'[c]) \in
             {AnswerTexts(messages[c]), AnswerTexts(messages[c]) \cup {t}}
    BY <2>1, AddMessageEffect
  <2>3. pc'[c] = "response_trace" /\ \A d \in Calls \ {c} : pc'[d] = pc[d]
    BY <2>1 DEF TypeOK, Goto
  <2>4. Copies(c) \subseteq {t}
    BY <2>1 DEF CopyInv
  <2>5. Copies(c)' \in {Copies(c), Copies(c) \cup {t}}
    BY <2>1, <2>2 DEF Copies
  <2>6. Alone(c)
    BY <2>1, <2>2, <2>3 DEF Alone
  <2>7. CopyInv(c)'
    BY <2>1, <2>3, <2>4, <2>5 DEF CopyInv
  <2>8. SameCopies(c) \/ Copies(c)' = {t}
    BY <2>4, <2>5 DEF SameCopies
  <2>9. Point(c)
    BY <2>1, <2>2, <2>3, <2>4, <2>8, Phase DEF Point, Moves, SameRow, RowOf
  <2> QED
    BY <2>6, <2>7, <2>9 DEF Good
<1>4. ASSUME NEW ok \in Outcomes, RecordResponse(c, ok) PROVE Good(c)
  <2> DEFINE e == Text("response", t)
  <2>1. e \in Entry /\ e.type = "response" /\ e.text = t
    BY EntryType, MoreTypes
  <2>2. /\ pc[c] = "response_trace" /\ Goto(c, "ok") /\ Record(c, e, ok)
        /\ Set(c, Emitted(c, e))
    BY <1>4 DEF RecordResponse
  <2> HIDE DEF e
  <2>3. /\ UNCHANGED <<tasks, messages>> /\ \A d \in Calls \ {c} : trace'[d] = trace[d]
        /\ ResponseTexts(trace'[c]) \in
             {ResponseTexts(trace[c]), ResponseTexts(trace[c]) \cup {t}}
    BY <2>1, <2>2, RecordEffect
  <2>4. Emitted(c, e) \in Locals /\ ResponseTexts(Emitted(c, e).out) =
          ResponseTexts(loc[c].out) \cup {t}
    BY <1>0, <2>1, EmittedType, EmittedTexts
  <2>5. loc'[c] = Emitted(c, e) /\ \A d \in Calls \ {c} : loc'[d] = loc[d]
    BY <2>2, <2>4, SetType
  <2>6. pc'[c] = "ok" /\ \A d \in Calls \ {c} : pc'[d] = pc[d]
    BY <2>2 DEF TypeOK, Goto
  <2>7. Copies(c) \subseteq {t}
    BY <2>2 DEF CopyInv
  <2>8. Copies(c)' = {t}
    BY <2>3, <2>4, <2>5, <2>7 DEF Copies
  <2>9. Alone(c)
    BY <2>3, <2>5, <2>6 DEF Alone
  <2>10. CopyInv(c)'
    BY <2>6 DEF CopyInv
  <2>11. Point(c)
    BY <2>2, <2>3, <2>6, <2>7, <2>8, Phase DEF Point, Moves, SameRow, RowOf
  <2> QED
    BY <2>9, <2>10, <2>11 DEF Good
<1> QED
  BY <1>1, <1>2, <1>3, <1>4 DEF Close

(***************************************************************************)
(* A crash stops the calls in progress and touches no table.               *)
(***************************************************************************)
LEMMA LedgerCrash ==
  ASSUME LInv, Crash
  PROVE  Ledger!Stop /\ \A c \in Calls : CopyInv(c)'
<1>1. /\ UNCHANGED <<tasks, messages, trace, loc>>
      /\ \A c \in Calls : pc'[c] = IF pc[c] \in Returned \cup {"idle"} THEN pc[c] ELSE "crashed"
  BY DEF Crash, db
<1>2. UNCHANGED <<Rows, AllCopies>> /\ \A c \in Calls : Copies(c)' = Copies(c)
  BY <1>1 DEF Rows, RowOf, AllCopies, Copies
<1>3. \A c \in Calls :
        /\ PhaseOf(pc'[c]) \in Ledger!Phases
        /\ \/ PhaseOf(pc'[c]) = PhaseOf(pc[c])
           \/ PhaseOf(pc[c]) \in Ledger!InProgress /\ PhaseOf(pc'[c]) = "lost"
  <2> SUFFICES ASSUME NEW c \in Calls
               PROVE  /\ PhaseOf(pc'[c]) \in Ledger!Phases
                      /\ \/ PhaseOf(pc'[c]) = PhaseOf(pc[c])
                         \/ PhaseOf(pc[c]) \in Ledger!InProgress /\ PhaseOf(pc'[c]) = "lost"
    OBVIOUS
  <2>1. pc[c] \in PCs
    BY DEF LInv, TypeOK
  <2>2. CASE pc[c] \in Returned
    <3>1. pc'[c] = pc[c] /\ PhaseOf(pc[c]) = pc[c]
      BY <1>1, <2>2, Phase
    <3> QED
      BY <2>2, <3>1 DEF Returned, Ledger!Phases, Ledger!Told
  <2>3. CASE pc[c] = "idle"
    <3>1. pc'[c] = pc[c] /\ PhaseOf(pc[c]) = "new"
      BY <1>1, <2>3, Phase
    <3> QED
      BY <3>1 DEF Ledger!Phases, Ledger!InProgress
  <2>4. CASE pc[c] \notin Returned \cup {"idle"}
    <3>1. pc'[c] = "crashed" /\ PhaseOf(pc'[c]) = "lost"
      BY <1>1, <2>4, Phase
    <3>2. PhaseOf(pc[c]) \in {"new", "open", "asked", "responded", "lost"}
      BY <2>1, <2>4, Phase DEF PCs, Returned
    <3> QED
      BY <3>1, <3>2 DEF Ledger!Phases, Ledger!InProgress
  <2> QED
    BY <2>2, <2>3, <2>4
<1>4. Ledger!Stop
  BY <1>2, <1>3 DEF Ledger!Stop, Rows, RowOf, AllCopies
<1>5. \A c \in Calls : CopyInv(c)'
  BY <1>1, <1>2 DEF LInv, CopyInv, Before, Returned
<1> QED
  BY <1>4, <1>5

(***************************************************************************)
(* MessageBus implements TaskLedger.                                       *)
(***************************************************************************)
THEOREM LedgerImplemented == Spec => ImplementsLedger
<1>1. Init => Ledger!Init /\ \A c \in Calls : CopyInv(c)
  <2> SUFFICES ASSUME Init PROVE Ledger!Init /\ \A c \in Calls : CopyInv(c)
    OBVIOUS
  <2>1. ResponseTexts(<<>>) = {} /\ AnswerTexts(<<>>) = {}
    <3>1. \A i : i \notin 1 .. Len(<<>>)
      OBVIOUS
    <3> QED BY <3>1 DEF ResponseTexts, AnswerTexts
  <2>2. \A c \in Calls : Copies(c) = {} /\ PhaseOf(pc[c]) = "new" /\ tasks[c] = NoTask
    BY <2>1, Phase DEF Init, NullLocals, Copies
  <2> QED
    BY <2>2 DEF Ledger!Init, CopyInv
<1>2. LInv /\ [Next]_vars =>
        [Ledger!Next]_(Ledger!ledger) /\ (\A c \in Calls : CopyInv(c))'
  <2> SUFFICES ASSUME LInv, [Next]_vars
               PROVE  [Ledger!Next]_(Ledger!ledger) /\ \A c \in Calls : CopyInv(c)'
    OBVIOUS
  <2>1. CASE UNCHANGED vars
    <3>1. UNCHANGED <<Rows, Phases, AllCopies>> /\ \A c \in Calls : Copies(c)' = Copies(c)
      BY <2>1 DEF vars, db, Rows, RowOf, Phases, AllCopies, Copies
    <3> QED
      BY <2>1, <3>1 DEF vars, Ledger!ledger, Rows, RowOf, Phases, AllCopies, LInv, CopyInv
  <2>2. CASE Crash
    BY <2>2, LedgerCrash DEF Ledger!Next
  <2>3. ASSUME NEW c \in Calls, (\E x \in Contexts : Lookup(c, x)) \/ Send(c) \/ Replay(c) \/ Close(c)
        PROVE  [Ledger!Next]_(Ledger!ledger) /\ \A d \in Calls : CopyInv(d)'
    <3>1. Good(c)
      BY <2>3, LedgerSend, LedgerReplay, LedgerClose
    <3>2. \A d \in Calls \ {c} : CopyInv(d)'
      BY <3>1 DEF Good, Alone, LInv, CopyInv, Copies
    <3> QED
      BY <3>1, <3>2, Lift DEF Good
  <2> QED
    BY <2>1, <2>2, <2>3 DEF Next
<1> QED
  BY <1>1, <1>2, TypeCorrect, PTL DEF Spec, LInv, ImplementsLedger, Ledger!Spec
=============================================================================
