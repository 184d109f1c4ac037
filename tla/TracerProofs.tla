---------------------------- MODULE TracerProofs ----------------------------
(***************************************************************************)
(* Proofs about Tracer, for every set of calls and agents, every reply and *)
(* limit, and a clock that is set back as often as one likes.              *)
(*                                                                         *)
(* A timeline is any permutation of the rows that respects their stamps,   *)
(* and a limit counts rows from the end, so the proofs rest on counting    *)
(* positions: the first section has what they need of it.                  *)
(***************************************************************************)
EXTENDS Tracer, MessageBusProofs, SequenceTheorems, FiniteSetTheorems

-----------------------------------------------------------------------------
(* Positions *)

\* A set of numbers that is not empty has a least element.
LEMMA Least ==
  ASSUME NEW T \in SUBSET Nat, T # {}
  PROVE  \E x \in T : \A y \in T : x <= y
<1> DEFINE R == OpToRel(<, Nat)
<1>1. IsWellFoundedOn(R, Nat)
  BY NatLessThanWellFounded
<1>2. \E x \in T : \A y \in T : ~(<<y, x>> \in R)
  BY <1>1, WFMin
<1>3. \A x, y \in Nat : <<y, x>> \notin R => x <= y
  BY DEF OpToRel
<1> QED
  BY <1>2, <1>3

\* A bounded one has a greatest element.
LEMMA Greatest ==
  ASSUME NEW n \in Nat, NEW T \in SUBSET (1 .. n), T # {}
  PROVE  \E x \in T : \A y \in T : y <= x
<1> DEFINE U == {n - x : x \in T}
<1>1. \A x \in T : x \in Nat /\ x <= n
  OBVIOUS
<1>2. U \in SUBSET Nat /\ U # {}
  <2>1. \A x \in T : n - x \in Nat
    BY <1>1
  <2> QED
    BY <2>1
<1>3. PICK u \in U : \A v \in U : u <= v
  BY <1>2, Least
<1>4. PICK x \in T : u = n - x
  BY <1>3
<1>5. \A y \in T : n - x <= n - y
  BY <1>3, <1>4
<1> HIDE DEF U
<1> QED
  BY <1>1, <1>5

\* Positions are finitely many, and are as many as there are up to the last
\* when none before it is left out.
LEMMA Positions ==
  ASSUME NEW n \in Nat, NEW B \in SUBSET (1 .. n)
  PROVE  /\ IsFiniteSet(B) /\ Cardinality(B) \in Nat
         /\ (\A i \in B : \A j \in 1 .. i : j \in B) => B = 1 .. Cardinality(B)
<1>1. IsFiniteSet(1 .. n)
  BY FS_Interval
<1>2. IsFiniteSet(B) /\ Cardinality(B) \in Nat
  BY <1>1, FS_Subset, FS_CardinalityType
<1>3. ASSUME \A i \in B : \A j \in 1 .. i : j \in B PROVE B = 1 .. Cardinality(B)
  <2>1. CASE B = {}
    BY <2>1, FS_EmptySet
  <2>2. CASE B # {}
    <3>1. PICK m \in B : \A y \in B : y <= m
      BY <2>2, Greatest
    <3>2. \A y \in B : y \in 1 .. m
      BY <3>1
    <3>3. B = 1 .. m /\ m \in Nat /\ m >= 1
      <4>1. \A y \in 1 .. m : y \in B
        BY <1>3, <3>1
      <4>2. m \in 1 .. n
        BY <3>1
      <4>3. B = 1 .. m
        BY <3>2, <4>1, Zenon
      <4>4. m \in Nat /\ m >= 1
        BY <4>2
      <4> QED
        BY <4>3, <4>4
    <3>4. Cardinality(1 .. m) = m
      BY <3>3, FS_Interval
    <3> QED
      BY <3>3, <3>4
  <2> QED
    BY <2>1, <2>2
<1> QED
  BY <1>2, <1>3

\* A function that takes no value twice has as many as arguments.
LEMMA ImageSize ==
  ASSUME NEW B, IsFiniteSet(B), NEW f, \A i, j \in B : f[i] = f[j] => i = j
  PROVE  Cardinality({f[i] : i \in B}) = Cardinality(B)
<1> DEFINE T == {f[i] : i \in B}
           g == [i \in B |-> f[i]]
<1>1. g \in Injection(B, T) /\ g \in Surjection(B, T)
  BY DEF Injection, IsInjective, Surjection
<1> HIDE DEF T, g
<1>2. Cardinality(T) = Cardinality(B)
  BY <1>1, FS_Surjection
<1> QED
  BY <1>2 DEF T

\* The last k of a set of numbers.
Latest(O, k) == {i \in O : Cardinality({j \in O : j > i}) < k}

(***************************************************************************)
(* When one is not among the last k there are k of them: the greatest that *)
(* is left out has at least k behind it, all of which are in.              *)
(***************************************************************************)
LEMMA LeftOut ==
  ASSUME NEW n \in Nat, NEW O \in SUBSET (1 .. n), NEW k \in Nat,
         NEW p \in O, Cardinality({j \in O : j > p}) >= k
  PROVE  Cardinality(Latest(O, k)) >= k
<1> DEFINE After(i) == {j \in O : j > i}
           got == {i \in O : Cardinality(After(i)) < k}
<1>0. got = Latest(O, k)
  BY DEF Latest
<1>1. \A S \in SUBSET (1 .. n) : IsFiniteSet(S) /\ Cardinality(S) \in Nat
  BY Positions
<1>2. \A i \in O : Cardinality(After(i)) \in Nat
  BY <1>1
<1>3. p \in O \ got
  BY <1>2
<1>4. PICK m \in O \ got : \A y \in O \ got : y <= m
  <2>1. O \ got \in SUBSET (1 .. n) /\ O \ got # {}
    BY <1>3
  <2> HIDE DEF got
  <2> QED
    BY <2>1, Greatest
<1>5. After(m) \in SUBSET got
  <2>1. ASSUME NEW j \in O, j > m, j \notin got PROVE FALSE
    <3>1. j <= m /\ j \in 1 .. n /\ m \in 1 .. n
      BY <1>4, <2>1
    <3> QED
      BY <2>1, <3>1
  <2> QED
    BY <2>1
<1>6. got \in SUBSET (1 .. n)
  OBVIOUS
<1>7. Cardinality(After(m)) <= Cardinality(got) /\ Cardinality(got) \in Nat
  <2> HIDE DEF got, After
  <2> QED
    BY <1>1, <1>5, <1>6, FS_Subset
<1>8. ~(Cardinality(After(m)) < k)
  BY <1>4
<1>9. Cardinality(After(m)) \in Nat
  BY <1>2, <1>4
<1>10. Cardinality(got) >= k
  <2> HIDE DEF got, After
  <2> QED
    BY <1>7, <1>8, <1>9
<1> QED
  BY <1>0, <1>10

(***************************************************************************)
(* The last k of a set are later than all others of it: whatever comes     *)
(* after one that is in comes after everything before that one, too.       *)
(***************************************************************************)
LEMMA LaterThanRest ==
  ASSUME NEW n \in Nat, NEW O \in SUBSET (1 .. n), NEW k \in Nat,
         NEW i \in O \ Latest(O, k), NEW j \in Latest(O, k)
  PROVE  i < j
<1> DEFINE After(x) == {y \in O : y > x}
<1>1. i \in O /\ j \in O /\ i \in Nat /\ j \in Nat
  BY DEF Latest
<1>2. ~(Cardinality(After(i)) < k) /\ Cardinality(After(j)) < k
  BY DEF Latest
<1>3. After(i) \in SUBSET (1 .. n) /\ After(j) \in SUBSET (1 .. n)
  OBVIOUS
<1>4. /\ IsFiniteSet(After(i)) /\ IsFiniteSet(After(j))
      /\ Cardinality(After(i)) \in Nat /\ Cardinality(After(j)) \in Nat
  <2> HIDE DEF After
  <2> QED
    BY <1>3, Positions
<1>5. j <= i => After(i) \in SUBSET After(j)
  <2> SUFFICES ASSUME j <= i, NEW y \in O, y > i PROVE y > j
    OBVIOUS
  <2>1. y \in Nat
    OBVIOUS
  <2> QED
    BY <1>1, <2>1
<1>6. j <= i => Cardinality(After(i)) <= Cardinality(After(j))
  <2> HIDE DEF After
  <2> QED
    BY <1>4, <1>5, FS_Subset
<1>7. ~(j <= i)
  <2> HIDE DEF After
  <2> QED
    BY <1>2, <1>4, <1>6
<1> QED
  BY <1>1, <1>7

(***************************************************************************)
(* There are no more than k of the last k: all but the first of them come  *)
(* after the first, which has less than k after it.                        *)
(***************************************************************************)
LEMMA NoMoreThanAsked ==
  ASSUME NEW n \in Nat, NEW O \in SUBSET (1 .. n), NEW k \in Nat
  PROVE  Cardinality(Latest(O, k)) <= k
<1> DEFINE got == Latest(O, k)
           After(x) == {y \in O : y > x}
<1>1. got \in SUBSET (1 .. n)
  BY DEF Latest
<1>2. \A S \in SUBSET (1 .. n) : IsFiniteSet(S) /\ Cardinality(S) \in Nat
  BY Positions
<1>3. CASE got = {}
  BY <1>3, FS_EmptySet
<1>4. CASE got # {}
  <2>1. got \in SUBSET Nat
    BY <1>1
  <2>2. PICK m \in got : \A y \in got : m <= y
    <3> HIDE DEF got
    <3> QED
      BY <1>4, <2>1, Least
  <2>3. m \in O /\ Cardinality(After(m)) < k
    BY DEF Latest
  <2>4. got \ {m} \in SUBSET After(m)
    <3> SUFFICES ASSUME NEW y \in got, y # m PROVE y \in After(m)
      OBVIOUS
    <3>1. y \in O
      BY DEF Latest
    <3>2. m <= y /\ y \in Nat /\ m \in Nat
      BY <2>1, <2>2, Zenon
    <3> QED
      BY <3>1, <3>2
  <2>5. After(m) \in SUBSET (1 .. n)
    OBVIOUS
  <2> HIDE DEF got, After
  <2>6. IsFiniteSet(got) /\ IsFiniteSet(After(m)) /\ Cardinality(After(m)) \in Nat
    BY <1>1, <1>2, <2>5
  <2>7. Cardinality(got \ {m}) <= Cardinality(After(m))
    BY <2>4, <2>6, FS_Subset
  <2>8. Cardinality(got \ {m}) = Cardinality(got) - 1 /\ Cardinality(got) \in Nat
    BY <2>6, FS_RemoveElement, FS_CardinalityType
  <2>9. Cardinality(got) <= k
    BY <2>3, <2>6, <2>7, <2>8
  <2> QED
    BY <2>9 DEF got
<1> QED
  BY <1>3, <1>4

-----------------------------------------------------------------------------
(* What a step of the bus does to the tables that are read *)

Answered == {"agent_msg", "response_trace", "ok"}
Unsent == {"idle", "create", "user", "refused"}
Sent == PCs \ (Unsent \cup {"send", "failed", "crashed"})
Done == {"ok", "failed", "refused", "crashed"}

\* A call goes forward: it sends once, and is over when it has returned.
Forward(from, to) ==
  /\ from \in PCs \ Done /\ to \in PCs \ {"crashed"}
  /\ from \in Unsent => to \in Unsent \cup {"send", "failed"}
  /\ from = "send" => to = "call"
  /\ from \in Sent => to \in Sent \cup {"failed"}

(***************************************************************************)
(* What readers may know of a step of call c: it touches the rows of c     *)
(* only; a send row is written on the way from "send", or is lost, and a   *)
(* response row on the way to "ok", both of them once; and the state of an *)
(* answered call is RESPONDED if no such write was lost.                   *)
(***************************************************************************)
BusStep(c) ==
  /\ \A d \in Calls \ {c} :
       pc'[d] = pc[d] /\ tasks'[d] = tasks[d] /\ trace'[d] = trace[d] /\ lost'[d] = lost[d]
  /\ Forward(pc[c], pc'[c])
  /\ lost[c] \subseteq lost'[c]
  /\ \/ trace'[c] = trace[c] /\ (pc[c] = "send" => "trace" \in lost'[c])
     \/ \E e \in Entry : /\ trace'[c] = Append(trace[c], e)
                         /\ pc[c] \notin Unsent
                         /\ e.type = "send" <=> pc[c] = "send"
                         /\ e.type = "response" => pc'[c] = "ok"
  /\ pc'[c] \in Answered =>
       \/ pc[c] \in Answered /\ tasks'[c] = tasks[c]
       \/ "state" \in lost'[c]
       \/ tasks'[c].state = "RESPONDED"

\* What the code between two writes may write.
NoWrite == UNCHANGED <<tasks, trace, lost>>
RowWrite(c, to) ==
  \E e \in Entry, ok \in BOOLEAN :
    /\ Record(c, e, ok)
    /\ pc[c] \notin Unsent
    /\ e.type = "send" <=> pc[c] = "send"
    /\ e.type = "response" => to = "ok"
StateWrite(c, to) ==
  \E s \in States, ok \in BOOLEAN :
    UpdateState(c, s, ok) /\ tasks[c] # NoTask /\ (to \in Answered => s = "RESPONDED")
MessageWrite(c) ==
  \E role \in {"user", "agent"}, t \in Texts \cup {Empty}, ok \in BOOLEAN : AddMessage(c, role, t, ok)
TaskWrite(c) ==
  UNCHANGED <<trace, lost>> /\ \E row : tasks' = [tasks EXCEPT ![c] = row]

(***************************************************************************)
(* One write of one kind is such a step.                                   *)
(***************************************************************************)
LEMMA OneWrite ==
  ASSUME TypeOK, NEW c \in Calls, NEW to, pc' = [pc EXCEPT ![c] = to], Forward(pc[c], to),
         \/ NoWrite /\ pc[c] # "send" /\ (to \in Answered => pc[c] \in Answered)
         \/ RowWrite(c, to) /\ (to \in Answered => pc[c] \in Answered)
         \/ StateWrite(c, to) /\ pc[c] # "send"
         \/ MessageWrite(c) /\ pc[c] # "send" /\ (to \in Answered => pc[c] \in Answered)
         \/ TaskWrite(c) /\ pc[c] # "send" /\ to \notin Answered
  PROVE  BusStep(c)
<1>1. /\ pc'[c] = to /\ \A d \in Calls \ {c} : pc'[d] = pc[d]
      /\ DOMAIN trace = Calls /\ DOMAIN lost = Calls /\ DOMAIN tasks = Calls
  BY DEF TypeOK
<1>2. CASE NoWrite /\ pc[c] # "send" /\ (to \in Answered => pc[c] \in Answered)
  BY <1>1, <1>2 DEF NoWrite, BusStep
<1>3. CASE RowWrite(c, to) /\ (to \in Answered => pc[c] \in Answered)
  <2>1. PICK e \in Entry, ok \in BOOLEAN :
          /\ Record(c, e, ok)
          /\ pc[c] \notin Unsent
          /\ e.type = "send" <=> pc[c] = "send"
          /\ e.type = "response" => to = "ok"
    BY <1>3 DEF RowWrite
  <2>2. /\ UNCHANGED tasks
        /\ trace'[c] = IF ok THEN Append(trace[c], e) ELSE trace[c]
        /\ lost'[c] = IF ok THEN lost[c] ELSE lost[c] \cup {"trace"}
        /\ \A d \in Calls \ {c} : trace'[d] = trace[d] /\ lost'[d] = lost[d]
    BY <1>1, <2>1 DEF Record, Note
  <2> QED
    BY <1>1, <1>3, <2>1, <2>2 DEF BusStep
<1>4. CASE StateWrite(c, to) /\ pc[c] # "send"
  <2>1. PICK s \in States, ok \in BOOLEAN :
          UpdateState(c, s, ok) /\ tasks[c] # NoTask /\ (to \in Answered => s = "RESPONDED")
    BY <1>4 DEF StateWrite
  <2>2. /\ UNCHANGED trace
        /\ lost'[c] = IF ok THEN lost[c] ELSE lost[c] \cup {"state"}
        /\ tasks'[c] = IF ok THEN [tasks[c] EXCEPT !.state = s] ELSE tasks[c]
        /\ \A d \in Calls \ {c} : tasks'[d] = tasks[d] /\ lost'[d] = lost[d]
    BY <1>1, <2>1 DEF UpdateState, Note
  <2>3. tasks[c] \in TaskRow
    BY <2>1 DEF TypeOK
  <2>4. ok => tasks'[c].state = s
    BY <2>2, <2>3 DEF TaskRow
  <2>5. ~ok => "state" \in lost'[c]
    BY <2>2
  <2>6. to \in Answered => "state" \in lost'[c] \/ tasks'[c].state = "RESPONDED"
    BY <2>1, <2>4, <2>5
  <2>7. lost[c] \subseteq lost'[c] /\ trace'[c] = trace[c] /\ \A d \in Calls \ {c} : trace'[d] = trace[d]
    BY <2>2
  <2> QED
    BY <1>1, <1>4, <2>2, <2>6, <2>7 DEF BusStep
<1>5. CASE MessageWrite(c) /\ pc[c] # "send" /\ (to \in Answered => pc[c] \in Answered)
  <2>1. /\ UNCHANGED <<tasks, trace>> /\ lost[c] \subseteq lost'[c]
        /\ \A d \in Calls \ {c} : lost'[d] = lost[d]
    BY <1>1, <1>5 DEF MessageWrite, AddMessage, Note
  <2> QED
    BY <1>1, <1>5, <2>1 DEF BusStep
<1>6. CASE TaskWrite(c) /\ pc[c] # "send" /\ to \notin Answered
  <2>1. UNCHANGED <<trace, lost>> /\ \A d \in Calls \ {c} : tasks'[d] = tasks[d]
    BY <1>1, <1>6 DEF TaskWrite
  <2> QED
    BY <1>1, <1>6, <2>1 DEF BusStep
<1> QED
  BY <1>2, <1>3, <1>4, <1>5, <1>6

\* A step that stays where it is goes to where it is.
LEMMA Staying ==
  ASSUME TypeOK, NEW c \in Calls, UNCHANGED pc
  PROVE  pc' = [pc EXCEPT ![c] = pc[c]]
BY DEF TypeOK

(***************************************************************************)
(* Opening a task and calling the agent (messagebus.go:82-119).            *)
(***************************************************************************)
LEMMA BusSend ==
  ASSUME TypeOK, NEW c \in Calls,
         \/ \E x \in Contexts : Lookup(c, x)
         \/ Send(c)
  PROVE  BusStep(c)
<1> USE DEF At, Goto, Forward, PCs, Returned, Unsent, Sent, Done, Answered
<1>0. /\ Plain("send") \in Entry /\ Plain("error") \in Entry /\ "ERROR" \in States
      /\ Plain("send").type = "send" /\ Plain("error").type = "error"
      /\ NoText \in Texts \cup {Empty}
      /\ Outcomes \subseteq BOOLEAN
  BY EntryType, RowTypes, MessageBusAssumption DEF States, Outcomes
<1>1. ASSUME NEW x \in Contexts, Lookup(c, x) PROVE BusStep(c)
  <2>1. PICK to \in {"create", "refused"} : pc' = [pc EXCEPT ![c] = to]
    BY <1>1 DEF Lookup
  <2>2. pc[c] = "idle" /\ NoWrite
    BY <1>1 DEF Lookup, db, NoWrite
  <2>3. Forward(pc[c], to)
    BY <2>1, <2>2
  <2> QED
    BY <2>1, <2>2, <2>3, OneWrite
<1>2. ASSUME NEW inserted \in Outcomes, NEW ok \in Outcomes, CreateTask(c, inserted, ok)
      PROVE  BusStep(c)
  <2>1. PICK to \in {"user", "failed"} : pc' = [pc EXCEPT ![c] = to]
    BY <1>2 DEF CreateTask
  <2>2. pc[c] = "create" /\ TaskWrite(c)
    BY <1>2 DEF CreateTask, TaskWrite
  <2>3. Forward(pc[c], to)
    BY <2>1, <2>2
  <2> QED
    BY <2>1, <2>2, <2>3, OneWrite
<1>3. ASSUME NEW inserted \in Outcomes, NEW ok \in Outcomes, RecordUserMessage(c, inserted, ok)
      PROVE  BusStep(c)
  <2>1. PICK to \in {"send", "failed"} : pc' = [pc EXCEPT ![c] = to]
    BY <1>3 DEF RecordUserMessage
  <2>2. pc[c] = "user" /\ MessageWrite(c)
    BY <1>0, <1>3 DEF RecordUserMessage, MessageWrite
  <2>3. Forward(pc[c], to)
    BY <2>1, <2>2
  <2> QED
    BY <2>1, <2>2, <2>3, OneWrite
<1>4. ASSUME NEW ok \in Outcomes, RecordSend(c, ok) PROVE BusStep(c)
  <2>1. pc[c] = "send" /\ pc' = [pc EXCEPT ![c] = "call"] /\ RowWrite(c, "call")
    BY <1>0, <1>4 DEF RecordSend, RowWrite
  <2>2. Forward(pc[c], "call")
    BY <2>1
  <2> QED
    BY <2>1, <2>2, OneWrite
<1>5. ASSUME NEW ok \in Outcomes, RecordError(c, ok) PROVE BusStep(c)
  <2>1. pc[c] = "error_trace" /\ pc' = [pc EXCEPT ![c] = "error_state"] /\ RowWrite(c, "error_state")
    BY <1>0, <1>5 DEF RecordError, RowWrite
  <2>2. Forward(pc[c], "error_state")
    BY <2>1
  <2> QED
    BY <2>1, <2>2, OneWrite
<1>6. ASSUME NEW ok \in Outcomes, FailTask(c, ok) PROVE BusStep(c)
  <2>1. pc[c] = "error_state" /\ pc' = [pc EXCEPT ![c] = "failed"]
    BY <1>6 DEF FailTask
  <2>2. tasks[c] # NoTask
    BY <2>1 DEF TypeOK
  <2>3. StateWrite(c, "failed")
    BY <1>0, <1>6, <2>2 DEF FailTask, StateWrite
  <2>4. Forward(pc[c], "failed")
    BY <2>1
  <2> QED
    BY <2>1, <2>3, <2>4, OneWrite
<1>7. ASSUME NEW events \in Replies, AgentAnswers(c, events) PROVE BusStep(c)
  <2>1. pc[c] = "call" /\ pc' = [pc EXCEPT ![c] = "loop"] /\ NoWrite
    BY <1>7 DEF AgentAnswers, db, NoWrite
  <2>2. Forward(pc[c], "loop")
    BY <2>1
  <2> QED
    BY <2>1, <2>2, OneWrite
<1>8. ASSUME AgentFails(c) PROVE BusStep(c)
  <2>1. pc[c] = "call" /\ pc' = [pc EXCEPT ![c] = "error_trace"] /\ NoWrite
    BY <1>8 DEF AgentFails, db, NoWrite
  <2>2. Forward(pc[c], "error_trace")
    BY <2>1
  <2> QED
    BY <2>1, <2>2, OneWrite
<1> QED
  BY <1>1, <1>2, <1>3, <1>4, <1>5, <1>6, <1>7, <1>8 DEF Send

(***************************************************************************)
(* Replaying the reply (messagebus.go:126-233).                            *)
(***************************************************************************)
LEMMA BusReplay ==
  ASSUME TypeOK, NEW c \in Calls, Replay(c)
  PROVE  BusStep(c)
<1> USE DEF At, AtEvent, Goto, Forward, PCs, Returned, Unsent, Sent, Done, Answered
<1>0. /\ Plain("task_created") \in Entry /\ Plain("task_created").type = "task_created"
      /\ AgentStates \subseteq States /\ "SUBMITTED" \in States /\ loc[c].state \in States
      /\ Outcomes \subseteq BOOLEAN
  BY EntryType, RowTypes DEF States, Outcomes, TypeOK, Locals
<1>1. ASSUME NEW ok \in Outcomes, TaskEvent(c, ok) PROVE BusStep(c)
  <2>1. pc[c] = "loop" /\ pc' = [pc EXCEPT ![c] = "task_update"] /\ RowWrite(c, "task_update")
    BY <1>0, <1>1 DEF TaskEvent, RowWrite
  <2>2. Forward(pc[c], "task_update")
    BY <2>1
  <2> QED
    BY <2>1, <2>2, OneWrite
<1>2. ASSUME NEW ok \in Outcomes, TaskEventUpdate(c, ok) PROVE BusStep(c)
  <2> DEFINE e == Change("task_update", "SUBMITTED", Current(c).state)
  <2>1. pc[c] = "task_update" /\ pc' = [pc EXCEPT ![c] = "loop"]
        /\ (Record(c, e, ok) \/ UNCHANGED <<tasks, trace, lost>>)
    BY <1>2 DEF TaskEventUpdate, db
  <2>2. Current(c).state \in States
    BY <1>0, <2>1, CurrentType DEF TypeOK
  <2>3. e \in Entry /\ e.type = "task_update"
    BY <1>0, <2>2, EntryType, RowTypes
  <2> HIDE DEF e
  <2>4. NoWrite \/ RowWrite(c, "loop")
    BY <1>0, <2>1, <2>3 DEF NoWrite, RowWrite
  <2>5. Forward(pc[c], "loop")
    BY <2>1
  <2> QED
    BY <2>1, <2>4, <2>5, OneWrite
<1>3. ASSUME NEW ok \in Outcomes, StatusEvent(c, ok) PROVE BusStep(c)
  <2>1. pc[c] = "loop" /\ pc' = [pc EXCEPT ![c] = "status_trace"] /\ HasEvent(c)
        /\ UpdateState(c, Current(c).state, ok)
    BY <1>3 DEF StatusEvent
  <2>2. Current(c).state \in States /\ tasks[c] # NoTask
    BY <1>0, <2>1, CurrentType DEF TypeOK
  <2>3. StateWrite(c, "status_trace")
    BY <1>0, <2>1, <2>2 DEF StateWrite
  <2>4. Forward(pc[c], "status_trace")
    BY <2>1
  <2> QED
    BY <2>1, <2>3, <2>4, OneWrite
<1>4. ASSUME NEW ok \in Outcomes, StatusTrace(c, ok) PROVE BusStep(c)
  <2> DEFINE e == Change("task_update", loc[c].state, Current(c).state)
  <2>1. pc[c] = "status_trace" /\ pc' = [pc EXCEPT ![c] = "loop"] /\ Record(c, e, ok)
    BY <1>4 DEF StatusTrace
  <2>2. Current(c).state \in States
    BY <1>0, <2>1, CurrentType DEF TypeOK
  <2>3. e \in Entry /\ e.type = "task_update"
    BY <1>0, <2>2, EntryType, RowTypes
  <2> HIDE DEF e
  <2>4. RowWrite(c, "loop")
    BY <1>0, <2>1, <2>3 DEF RowWrite
  <2>5. Forward(pc[c], "loop")
    BY <2>1
  <2> QED
    BY <2>1, <2>4, <2>5, OneWrite
<1>5. ASSUME NEW ok \in Outcomes, ArtifactPart(c, ok) PROVE BusStep(c)
  <2> DEFINE t == Current(c).parts[loc[c].part]
             e == Text("artifact", t)
  <2>1. /\ pc[c] = "loop" /\ UNCHANGED pc /\ HasEvent(c)
        /\ loc[c].part <= Len(Current(c).parts)
        /\ Record(c, e, ok) \/ UNCHANGED <<tasks, trace, lost>>
    BY <1>5 DEF ArtifactPart, db
  <2>2. t \in Texts
    <3>1. Current(c).parts \in Seq(Texts) /\ loc[c].part \in Nat /\ loc[c].part >= 1
      BY <2>1, CurrentType DEF TypeOK, Locals
    <3> QED
      BY <2>1, <3>1
  <2>3. e \in Entry /\ e.type = "artifact"
    BY <2>2, EntryType, RowTypes
  <2> HIDE DEF e
  <2>4. NoWrite \/ RowWrite(c, pc[c])
    BY <1>0, <2>1, <2>3 DEF NoWrite, RowWrite
  <2>5. Forward(pc[c], pc[c])
    BY <2>1
  <2> QED
    BY <2>1, <2>4, <2>5, OneWrite, Staying
<1>6. ASSUME ArtifactEnd(c) \/ MessagePart(c) \/ MessageEnd(c) \/ UnknownEvent(c) \/ SkipEvent(c)
      PROVE  BusStep(c)
  <2>1. pc[c] = "loop" /\ UNCHANGED pc /\ NoWrite
    BY <1>6 DEF ArtifactEnd, MessagePart, MessageEnd, UnknownEvent, SkipEvent, db, NoWrite
  <2>2. Forward(pc[c], pc[c])
    BY <2>1
  <2> QED
    BY <2>1, <2>2, OneWrite, Staying
<1> QED
  BY <1>1, <1>2, <1>3, <1>4, <1>5, <1>6 DEF Replay

(***************************************************************************)
(* Closing the task (messagebus.go:235-259).                               *)
(***************************************************************************)
LEMMA BusClose ==
  ASSUME TypeOK, NEW c \in Calls, Close(c)
  PROVE  BusStep(c)
<1> USE DEF At, Goto, Forward, PCs, Returned, Unsent, Sent, Done, Answered
<1>0. /\ loc[c].text \in Texts \cup {Empty} /\ "RESPONDED" \in States
      /\ Outcomes \subseteq BOOLEAN
  BY DEF States, Outcomes, TypeOK, Locals
<1>1. CASE LoopEnd(c)
  <2>1. pc[c] = "loop" /\ pc' = [pc EXCEPT ![c] = "respond"] /\ NoWrite
    BY <1>1 DEF LoopEnd, db, NoWrite
  <2>2. Forward(pc[c], "respond")
    BY <2>1
  <2> QED
    BY <2>1, <2>2, OneWrite
<1>2. ASSUME NEW ok \in Outcomes, Respond(c, ok) PROVE BusStep(c)
  <2>1. pc[c] = "respond" /\ pc' = [pc EXCEPT ![c] = "agent_msg"]
    BY <1>2 DEF Respond
  <2>2. tasks[c] # NoTask
    BY <2>1 DEF TypeOK
  <2>3. StateWrite(c, "agent_msg")
    BY <1>0, <1>2, <2>2 DEF Respond, StateWrite
  <2>4. Forward(pc[c], "agent_msg")
    BY <2>1
  <2> QED
    BY <2>1, <2>3, <2>4, OneWrite
<1>3. ASSUME NEW ok \in Outcomes, RecordAgentMessage(c, ok) PROVE BusStep(c)
  <2>1. pc[c] = "agent_msg" /\ pc' = [pc EXCEPT ![c] = "response_trace"] /\ MessageWrite(c)
    BY <1>0, <1>3 DEF RecordAgentMessage, MessageWrite
  <2>2. Forward(pc[c], "response_trace")
    BY <2>1
  <2> QED
    BY <2>1, <2>2, OneWrite
<1>4. ASSUME NEW ok \in Outcomes, RecordResponse(c, ok) PROVE BusStep(c)
  <2> DEFINE e == Text("response", loc[c].text)
  <2>1. pc[c] = "response_trace" /\ pc' = [pc EXCEPT ![c] = "ok"] /\ Record(c, e, ok)
    BY <1>4 DEF RecordResponse
  <2>2. e \in Entry /\ e.type = "response"
    BY <1>0, EntryType, RowTypes
  <2> HIDE DEF e
  <2>3. RowWrite(c, "ok")
    BY <1>0, <2>1, <2>2 DEF RowWrite
  <2>4. Forward(pc[c], "ok")
    BY <2>1
  <2> QED
    BY <2>1, <2>3, <2>4, OneWrite
<1> QED
  BY <1>1, <1>2, <1>3, <1>4 DEF Close

-----------------------------------------------------------------------------
(* Timelines *)

\* s lists the numbers from 1 to n, each of them once.
Lists(s, n) ==
  /\ DOMAIN s = 1 .. n
  /\ \A i \in 1 .. n : s[i] \in 1 .. n
  /\ \A r \in 1 .. n : \E i \in 1 .. n : s[i] = r
  /\ \A i, j \in 1 .. n : s[i] = s[j] => i = j

Sorted(s, n, stamps) == \A i, j \in 1 .. n : i < j => stamps[s[i]] <= stamps[s[j]]

\* The rows from before a time, and the places that have them in a list.
RowsBefore(n, stamps, at) == {r \in 1 .. n : stamps[r] < at}
PlacesBefore(s, stamps, at) == {i \in DOMAIN s : stamps[s[i]] < at}
First(s, k) == {s[i] : i \in 1 .. k}

(***************************************************************************)
(* A list that is sorted by stamps begins with the rows from before a      *)
(* time: all of them, and no other.                                        *)
(***************************************************************************)
LEMMA BeginsWithPast ==
  ASSUME NEW n \in Nat, NEW s, NEW stamps, NEW at \in Nat,
         Lists(s, n), Sorted(s, n, stamps), \A r \in 1 .. n : stamps[r] \in Nat
  PROVE  /\ Cardinality(PlacesBefore(s, stamps, at)) = Cardinality(RowsBefore(n, stamps, at))
         /\ First(s, Cardinality(RowsBefore(n, stamps, at))) = RowsBefore(n, stamps, at)
<1> USE DEF RowsBefore, PlacesBefore
<1> DEFINE P == RowsBefore(n, stamps, at)
           B == PlacesBefore(s, stamps, at)
<1>1. B \in SUBSET (1 .. n) /\ B = {i \in 1 .. n : stamps[s[i]] < at}
  BY DEF Lists
<1>2. ASSUME NEW i \in B, NEW j \in 1 .. i PROVE j \in B
  <2>1. i \in 1 .. n /\ j \in 1 .. n /\ (j < i \/ j = i) /\ stamps[s[i]] < at
    BY <1>1
  <2>2. stamps[s[j]] \in Nat /\ stamps[s[i]] \in Nat /\ stamps[s[j]] <= stamps[s[i]]
    <3>1. stamps[s[j]] \in Nat /\ stamps[s[i]] \in Nat
      BY <2>1 DEF Lists
    <3>2. j < i => stamps[s[j]] <= stamps[s[i]]
      BY <2>1 DEF Sorted
    <3>3. j = i => stamps[s[j]] <= stamps[s[i]]
      BY <3>1
    <3> QED
      BY <2>1, <3>1, <3>2, <3>3
  <2>3. stamps[s[j]] < at
    BY <2>1, <2>2
  <2> HIDE DEF B
  <2> QED
    BY <1>1, <2>1, <2>3
<1>3. B = 1 .. Cardinality(B) /\ IsFiniteSet(B)
  <2> HIDE DEF B
  <2> QED
    BY <1>1, <1>2, Positions
<1>4. {s[i] : i \in B} = P
  <2>1. ASSUME NEW r \in P PROVE r \in {s[i] : i \in B}
    <3>1. PICK i \in 1 .. n : s[i] = r
      BY DEF Lists
    <3> QED
      BY <1>1, <3>1
  <2>2. ASSUME NEW i \in B PROVE s[i] \in P
    BY <1>1 DEF Lists
  <2> QED
    BY <2>1, <2>2
<1>5. \A i, j \in B : s[i] = s[j] => i = j
  BY <1>1 DEF Lists
<1> HIDE DEF B, P
<1>6. Cardinality(P) = Cardinality(B)
  BY <1>3, <1>4, <1>5, ImageSize
<1>7. First(s, Cardinality(P)) = P
  BY <1>3, <1>4, <1>6 DEF First
<1> QED
  BY <1>6, <1>7 DEF B, P

-----------------------------------------------------------------------------
(* The invariant *)

\* A row has one stamp, of a second the clock has shown.
Stamped(c) == created[c] \in Seq(0 .. MaxClock) /\ Len(created[c]) = Len(trace[c])

\* What the rows of a call tell of it.
Told(c) ==
  /\ pc[c] \in Unsent \cup {"send"} => trace[c] = <<>>
  /\ (\E i \in 1 .. Len(trace[c]) : trace[c][i].type = "response") => pc[c] = "ok"
  /\ pc[c] \in Answered /\ "state" \notin lost[c] => tasks[c].state = "RESPONDED"

\* A call that has sent is named, unless the row was lost, and no other is.
IsNamed(c) == \E i \in 1 .. Len(named) : named[i] = c
Named(c) ==
  /\ IsNamed(c) => pc[c] \in Sent \cup {"failed"}
  /\ "trace" \notin lost[c] /\ (pc[c] \in Sent \/ (pc[c] = "failed" /\ trace[c] # <<>>)) => IsNamed(c)
NamedOnce == \A i, j \in 1 .. Len(named) : named[i] = named[j] => i = j

\* The timeline a reader got is one of the first n rows; those that came
\* later bear a later stamp, if the clock was not set back.
Saw(c, n) ==
  /\ n <= Len(trace[c])
  /\ Lists(seen.rows, n)
  /\ Sorted(seen.rows, n, created[c])
  /\ seen.setbacks = setbacks =>
       /\ seen.at <= clock
       /\ \A r \in 1 .. Len(trace[c]) : r > n => seen.at <= created[c][r]

(***************************************************************************)
(* The properties speak of what readers get; the invariant adds how far    *)
(* the call is whose rows they are, that a send row is written once, and   *)
(* what has happened since a timeline was read.                            *)
(***************************************************************************)
Tables ==
  /\ TypeOK
  /\ clock \in 0 .. MaxClock
  /\ setbacks \in 0 .. MaxSetbacks
  /\ created \in [Calls -> Seq(0 .. MaxClock)]
  /\ named \in Seq(Calls)
  /\ \A c \in Calls : Stamped(c) /\ Told(c) /\ Named(c)
  /\ NamedOnce
View ==
  /\ seen.at \in Nat /\ seen.setbacks \in Nat /\ seen.setbacks <= setbacks
  /\ seen.call \in Calls => \E n \in Nat : Saw(seen.call, n)
TracerInv == Tables /\ View

\* There is nothing to read at first.
LEMMA TracerStarts == TracerInit => TracerInv
<1> SUFFICES ASSUME TracerInit PROVE TracerInv
  OBVIOUS
<1> USE TracerAssumption DEF TracerInit
<1>1. TypeOK
  BY TypeStarts
<1>2. \A c \in Calls : trace[c] = <<>> /\ created[c] = <<>> /\ pc[c] = "idle"
  BY DEF Init
<1>3. Len(<<>>) = 0 /\ <<>> \in Seq(0 .. MaxClock) /\ <<>> \in Seq(Calls)
  BY EmptySeq
<1>4. \A c \in Calls : Stamped(c) /\ Told(c) /\ Named(c)
  <2> SUFFICES ASSUME NEW c \in Calls PROVE Stamped(c) /\ Told(c) /\ Named(c)
    OBVIOUS
  <2>1. trace[c] = <<>> /\ created[c] = <<>> /\ pc[c] = "idle" /\ named = <<>> /\ \A i \in 1 .. 0 : FALSE
    BY <1>2
  <2>2. Stamped(c)
    BY <1>3, <2>1 DEF Stamped
  <2>3. Told(c)
    BY <1>3, <2>1 DEF Told, Answered
  <2>4. ~IsNamed(c)
    BY <1>3, <2>1 DEF IsNamed
  <2> QED
    BY <2>1, <2>2, <2>3, <2>4 DEF Named, Sent, Unsent
<1>5. NamedOnce
  BY <1>3 DEF NamedOnce
<1>6. Tables
  BY <1>1, <1>3, <1>4, <1>5 DEF Tables
<1>7. View
  <2>1. seen.rows = <<>> /\ seen.at = 0 /\ seen.setbacks = 0 /\ DOMAIN <<>> = 1 .. 0
    BY DEF NothingSeen
  <2>2. \A c \in Calls : Saw(c, 0)
    <3> SUFFICES ASSUME NEW c \in Calls PROVE Saw(c, 0)
      OBVIOUS
    <3>1. trace[c] = <<>> /\ Len(<<>>) = 0 /\ clock = 0 /\ \A i \in 1 .. 0 : FALSE
      BY <1>2, <1>3
    <3>2. Lists(seen.rows, 0)
      BY <2>1, <3>1 DEF Lists
    <3>3. Sorted(seen.rows, 0, created[c])
      BY <3>1 DEF Sorted
    <3> QED
      BY <2>1, <3>1, <3>2, <3>3 DEF Saw
  <2> QED
    BY <2>1, <2>2 DEF View
<1> QED
  BY <1>6, <1>7 DEF TracerInv

(***************************************************************************)
(* A step of the bus as the tracer's tables record it.                     *)
(***************************************************************************)
Wrote(c) ==
  /\ TypeOK' /\ BusStep(c)
  /\ UNCHANGED <<clock, setbacks, seen>>
  /\ \/ trace'[c] = trace[c] /\ UNCHANGED <<created, named>>
     \/ \E e \in Entry :
          /\ trace'[c] = Append(trace[c], e)
          /\ created' = [created EXCEPT ![c] = Append(@, clock)]
          /\ named' = IF e.type = "send" THEN Append(named, c) ELSE named

\* A writing step of the tracer is such a step.
LEMMA Writes ==
  ASSUME Tables, NEW c \in Calls, Write(c)
  PROVE  Wrote(c)
<1>0. TypeOK /\ trace[c] \in Seq(Entry)
  BY DEF Tables, TypeOK
<1>1. (\E x \in Contexts : Lookup(c, x)) \/ Send(c) \/ Replay(c) \/ Close(c)
  BY DEF Write
<1>2. TypeOK' /\ BusStep(c)
  BY <1>0, <1>1, TypeSend, TypeReplay, TypeClose, BusSend, BusReplay, BusClose
<1>3. UNCHANGED <<clock, setbacks, seen>>
  BY DEF Write
<1>4. CASE trace'[c] = trace[c]
  BY <1>2, <1>3, <1>4 DEF Write, Wrote
<1>5. CASE trace'[c] # trace[c]
  <2>1. PICK e \in Entry : trace'[c] = Append(trace[c], e)
    BY <1>2, <1>5 DEF BusStep
  <2>2. Last(trace'[c]) = e
    BY <1>0, <2>1, AppendProperties DEF Last
  <2>3. /\ created' = [created EXCEPT ![c] = Append(@, clock)]
        /\ named' = IF e.type = "send" THEN Append(named, c) ELSE named
    BY <1>5, <2>2 DEF Write, CreatedAt, HasAgentName
  <2> QED
    BY <1>2, <1>3, <2>1, <2>3 DEF Wrote
<1> QED
  BY <1>4, <1>5

(***************************************************************************)
(* Writing keeps the tables: the other calls' rows are left alone, and     *)
(* those of the call tell how far it is now.                               *)
(***************************************************************************)
LEMMA TablesWrite ==
  ASSUME Tables, NEW c \in Calls, Wrote(c)
  PROVE  Tables'
<1> USE DEF Tables
<1>0. /\ \A d \in Calls : trace[d] \in Seq(Entry) /\ created[d] \in Seq(0 .. MaxClock)
      /\ \A d \in Calls : Stamped(d) /\ Told(d) /\ Named(d)
      /\ named \in Seq(Calls) /\ clock \in 0 .. MaxClock
  BY DEF TypeOK
<1>1. /\ \A d \in Calls \ {c} :
           pc'[d] = pc[d] /\ tasks'[d] = tasks[d] /\ trace'[d] = trace[d] /\ lost'[d] = lost[d]
      /\ Forward(pc[c], pc'[c]) /\ lost[c] \subseteq lost'[c]
      /\ pc'[c] \in Answered =>
           \/ pc[c] \in Answered /\ tasks'[c] = tasks[c]
           \/ "state" \in lost'[c]
           \/ tasks'[c].state = "RESPONDED"
      /\ TypeOK' /\ UNCHANGED <<clock, setbacks, seen>>
  BY DEF Wrote, BusStep
<1>2. pc'[c] \in Answered /\ "state" \notin lost'[c] => tasks'[c].state = "RESPONDED"
  BY <1>0, <1>1 DEF Told
<1>3. CASE trace'[c] = trace[c]
  <2>1. UNCHANGED <<created, named>>
    <3>1. ASSUME NEW e \in Entry, trace'[c] = Append(trace[c], e) PROVE FALSE
      BY <1>0, <1>3, <3>1
    <3> QED
      BY <3>1 DEF Wrote
  <2>2. pc[c] = "send" => "trace" \in lost'[c]
    <3>1. ASSUME NEW e \in Entry, trace'[c] = Append(trace[c], e) PROVE FALSE
      BY <1>0, <1>3, <3>1
    <3> QED
      BY <3>1 DEF Wrote, BusStep
  <2>3. Told(c)'
    BY <1>0, <1>1, <1>2, <1>3 DEF Told, Forward, Unsent, Sent, Done, PCs, Returned
  <2>4. Named(c)'
    <3>1. IsNamed(c)' <=> IsNamed(c)
      BY <2>1 DEF IsNamed
    <3>2. pc[c] \in Sent \cup {"failed"} => pc'[c] \in Sent \cup {"failed"}
      BY <1>1 DEF Forward, Done
    <3>3. ASSUME "trace" \notin lost'[c], pc'[c] \in Sent \/ (pc'[c] = "failed" /\ trace'[c] # <<>>)
          PROVE  IsNamed(c)
      <4>1. "trace" \notin lost[c] /\ pc[c] # "send"
        BY <1>1, <2>2, <3>3
      <4>2. pc[c] \in Sent \/ pc[c] \in Unsent
        BY <1>1, <4>1 DEF Forward, Sent, Done, PCs, Returned
      <4>3. CASE pc[c] \in Sent
        BY <1>0, <4>1, <4>3 DEF Named
      <4>4. CASE pc[c] \in Unsent
        <5>1. trace[c] = <<>>
          BY <1>0, <4>4 DEF Told
        <5>2. pc'[c] \notin Sent
          BY <1>1, <4>4 DEF Forward, Sent, Unsent
        <5> QED
          BY <1>3, <3>3, <5>1, <5>2
      <4> QED
        BY <4>2, <4>3, <4>4
    <3> QED
      BY <1>0, <3>1, <3>2, <3>3 DEF Named
  <2>5. \A d \in Calls \ {c} : Told(d)' /\ Named(d)'
    <3> SUFFICES ASSUME NEW d \in Calls \ {c} PROVE Told(d)' /\ Named(d)'
      OBVIOUS
    <3>1. pc'[d] = pc[d] /\ tasks'[d] = tasks[d] /\ trace'[d] = trace[d] /\ lost'[d] = lost[d]
      BY <1>1
    <3>2. IsNamed(d)' <=> IsNamed(d)
      BY <2>1 DEF IsNamed
    <3>3. Told(d)'
      BY <1>0, <3>1 DEF Told
    <3>4. Named(d)'
      BY <1>0, <3>1, <3>2 DEF Named
    <3> QED
      BY <3>3, <3>4
  <2>6. \A d \in Calls : Stamped(d)'
    BY <1>0, <1>1, <1>3, <2>1 DEF Stamped
  <2> QED
    BY <1>0, <1>1, <2>1, <2>3, <2>4, <2>5, <2>6 DEF NamedOnce
<1>4. CASE trace'[c] # trace[c]
  <2>1. PICK e \in Entry :
          /\ trace'[c] = Append(trace[c], e)
          /\ created' = [created EXCEPT ![c] = Append(@, clock)]
          /\ named' = IF e.type = "send" THEN Append(named, c) ELSE named
    BY <1>4 DEF Wrote
  <2>2. pc[c] \notin Unsent /\ (e.type = "send" <=> pc[c] = "send") /\ (e.type = "response" => pc'[c] = "ok")
    <3>1. PICK f \in Entry : /\ trace'[c] = Append(trace[c], f)
                             /\ pc[c] \notin Unsent
                             /\ f.type = "send" <=> pc[c] = "send"
                             /\ f.type = "response" => pc'[c] = "ok"
      BY <1>4 DEF Wrote, BusStep
    <3>2. trace[c] \in Seq(Entry) /\ Append(trace[c], e) = Append(trace[c], f)
      BY <1>0, <2>1, <3>1
    <3>3. e = f
      BY <3>2, AppendInjective
    <3> QED
      BY <3>1, <3>3
  <2>3. /\ trace'[c] # <<>> /\ Len(trace'[c]) = Len(trace[c]) + 1
        /\ \A i \in 1 .. Len(trace[c]) : trace'[c][i] = trace[c][i]
        /\ trace'[c][Len(trace[c]) + 1] = e
        /\ Len(trace[c]) \in Nat
    <3> DEFINE s == trace[c]
               t == trace'[c]
    <3>1. s \in Seq(Entry) /\ t = Append(s, e)
      BY <1>0, <2>1
    <3> HIDE DEF s, t
    <3>2. t # <<>> /\ Len(t) = Len(s) + 1 /\ (\A i \in 1 .. Len(s) : t[i] = s[i]) /\ t[Len(s) + 1] = e
          /\ Len(s) \in Nat
      BY <3>1, AppendProperties
    <3> QED
      BY <3>2 DEF s, t
  <2>4. \A i \in 1 .. Len(trace'[c]) : i \in 1 .. Len(trace[c]) \/ i = Len(trace[c]) + 1
    BY <1>0, <2>3
  <2>5. Told(c)'
    <3>1. pc'[c] \notin Unsent \cup {"send"}
      BY <1>1, <2>2 DEF Forward, Unsent, Sent, Done, PCs, Returned
    <3>2. pc[c] # "ok"
      BY <1>1 DEF Forward, Done
    <3>3. (\E i \in 1 .. Len(trace'[c]) : trace'[c][i].type = "response") => pc'[c] = "ok"
      <4> SUFFICES ASSUME NEW i \in 1 .. Len(trace'[c]), trace'[c][i].type = "response"
                   PROVE  pc'[c] = "ok"
        OBVIOUS
      <4>1. CASE i \in 1 .. Len(trace[c])
        BY <1>0, <2>3, <3>2, <4>1 DEF Told
      <4>2. CASE i = Len(trace[c]) + 1
        BY <2>2, <2>3, <4>2
      <4> QED
        BY <2>4, <4>1, <4>2
    <3> QED
      BY <1>2, <3>1, <3>3 DEF Told
  <2>6. /\ named' \in Seq(Calls)
        /\ Len(named') = IF e.type = "send" THEN Len(named) + 1 ELSE Len(named)
        /\ \A i \in 1 .. Len(named) : named'[i] = named[i]
        /\ e.type = "send" => named'[Len(named) + 1] = c
        /\ Len(named) \in Nat
    BY <1>0, <2>1, AppendProperties
  <2>7. \A i \in 1 .. Len(named') : i \in 1 .. Len(named) \/ (i = Len(named) + 1 /\ e.type = "send")
    BY <2>6
  <2>8. IsNamed(c)' <=> IsNamed(c) \/ e.type = "send"
    <3>1. e.type = "send" => Len(named) + 1 \in 1 .. Len(named')
      BY <2>6
    <3>2. \A i \in 1 .. Len(named) : i \in 1 .. Len(named')
      BY <2>6
    <3> QED
      BY <2>6, <2>7, <3>1, <3>2 DEF IsNamed
  <2>9. \A d \in Calls \ {c} : IsNamed(d)' <=> IsNamed(d)
    <3>2. \A i \in 1 .. Len(named) : i \in 1 .. Len(named')
      BY <2>6
    <3> QED
      BY <2>6, <2>7, <3>2 DEF IsNamed
  <2>10. NamedOnce'
    <3>1. e.type = "send" => \A i \in 1 .. Len(named) : named[i] # c
      BY <1>0, <2>2 DEF Named, IsNamed, Sent, PCs, Returned
    <3>2. SUFFICES ASSUME NEW i \in 1 .. Len(named'), NEW j \in 1 .. Len(named'), named'[i] = named'[j]
                   PROVE  i = j
      BY DEF NamedOnce
    <3> QED
      BY <2>6, <2>7, <3>1, <3>2 DEF NamedOnce
  <2>11. Named(c)'
    <3>1. pc'[c] \in Sent \cup {"failed"}
      BY <1>1, <2>2 DEF Forward, Unsent, Sent, Done, PCs, Returned
    <3>2. "trace" \notin lost'[c] => IsNamed(c)'
      <4>1. CASE pc[c] = "send"
        BY <2>2, <2>8, <4>1
      <4>2. CASE pc[c] # "send"
        BY <1>0, <1>1, <2>2, <2>8, <4>2 DEF Named, Forward, Unsent, Sent, Done, PCs, Returned
      <4> QED
        BY <4>1, <4>2
    <3> QED
      BY <3>1, <3>2 DEF Named
  <2>12. ASSUME NEW d \in Calls \ {c} PROVE Told(d)' /\ Named(d)'
    <3>1. /\ pc'[d] = pc[d] /\ tasks'[d] = tasks[d] /\ trace'[d] = trace[d] /\ lost'[d] = lost[d]
          /\ Told(d) /\ Named(d)
      BY <1>0, <1>1
    <3>2. Told(d)'
      BY <3>1 DEF Told
    <3>3. Named(d)'
      BY <2>9, <3>1 DEF Named
    <3> QED
      BY <3>2, <3>3
  <2>13. /\ created' \in [Calls -> Seq(0 .. MaxClock)]
         /\ Len(created'[c]) = Len(created[c]) + 1
         /\ \A d \in Calls \ {c} : created'[d] = created[d]
    <3>1. Append(created[c], clock) \in Seq(0 .. MaxClock) /\ Len(Append(created[c], clock)) = Len(created[c]) + 1
      BY <1>0, AppendProperties
    <3> QED
      BY <2>1, <3>1
  <2>14. \A d \in Calls : Stamped(d)'
    BY <1>0, <1>1, <2>3, <2>13 DEF Stamped
  <2> QED
    BY <1>1, <2>5, <2>6, <2>10, <2>11, <2>12, <2>13, <2>14
<1> QED
  BY <1>3, <1>4

(***************************************************************************)
(* Rows that are written after a timeline was read come after it, and bear *)
(* the clock's present time.                                               *)
(***************************************************************************)
LEMMA ViewWrite ==
  ASSUME TracerInv, NEW c \in Calls, Wrote(c)
  PROVE  View'
<1> USE DEF TracerInv
<1>0. UNCHANGED <<clock, setbacks, seen>> /\ clock \in Nat
  BY TracerAssumption DEF Wrote, Tables
<1>1. ASSUME NEW d \in Calls
      PROVE  /\ Len(trace[d]) \in Nat /\ Len(trace'[d]) \in Nat /\ Len(trace[d]) <= Len(trace'[d])
             /\ \A r \in 1 .. Len(trace[d]) : created'[d][r] = created[d][r]
             /\ \A r \in 1 .. Len(trace'[d]) : r > Len(trace[d]) => created'[d][r] = clock
  <2>1. trace[d] \in Seq(Entry) /\ created[d] \in Seq(0 .. MaxClock) /\ Len(created[d]) = Len(trace[d])
    BY DEF Tables, TypeOK, Stamped
  <2>2. CASE d # c
    <3>1. trace'[d] = trace[d] /\ created'[d] = created[d]
      BY <2>2 DEF Wrote, BusStep, Tables
    <3> QED
      BY <2>1, <3>1
  <2>3. CASE d = c /\ trace'[c] = trace[c] /\ UNCHANGED created
    BY <2>1, <2>3
  <2>4. ASSUME NEW e \in Entry, d = c, trace'[c] = Append(trace[c], e),
               created' = [created EXCEPT ![c] = Append(@, clock)]
        PROVE  /\ Len(trace[d]) \in Nat /\ Len(trace'[d]) = Len(trace[d]) + 1
               /\ \A r \in 1 .. Len(trace[d]) : created'[d][r] = created[d][r]
               /\ created'[d][Len(trace[d]) + 1] = clock
    <3> DEFINE s == trace[d]
               t == created[d]
               u == created'[d]
    <3>1. u = Append(t, clock) /\ trace'[d] = Append(s, e)
      BY <2>4 DEF Tables
    <3>2. clock \in 0 .. MaxClock
      BY DEF Tables
    <3>3. s \in Seq(Entry) /\ t \in Seq(0 .. MaxClock) /\ Len(t) = Len(s)
      BY <2>1
    <3> HIDE DEF s, t, u
    <3>4. Len(trace'[d]) = Len(s) + 1 /\ Len(s) \in Nat
      BY <3>1, <3>3, AppendProperties
    <3>5. (\A r \in 1 .. Len(t) : u[r] = t[r]) /\ u[Len(t) + 1] = clock
      BY <3>1, <3>2, <3>3, AppendProperties
    <3> QED
      BY <3>3, <3>4, <3>5 DEF s, t, u
  <2>5. CASE d = c /\ trace'[c] # trace[c]
    <3>1. PICK e \in Entry : /\ trace'[c] = Append(trace[c], e)
                             /\ created' = [created EXCEPT ![c] = Append(@, clock)]
      BY <2>5 DEF Wrote
    <3>2. /\ Len(trace[d]) \in Nat /\ Len(trace'[d]) = Len(trace[d]) + 1
          /\ \A r \in 1 .. Len(trace[d]) : created'[d][r] = created[d][r]
          /\ created'[d][Len(trace[d]) + 1] = clock
      BY <2>4, <2>5, <3>1
    <3>3. \A r \in 1 .. Len(trace'[d]) : r > Len(trace[d]) => r = Len(trace[d]) + 1
      BY <3>2
    <3> QED
      BY <3>2, <3>3
  <2>6. trace'[c] = trace[c] => UNCHANGED created
    <3>1. ASSUME NEW e \in Entry, trace'[c] = Append(trace[c], e), trace'[c] = trace[c] PROVE FALSE
      <4>1. trace[c] \in Seq(Entry)
        BY DEF Tables, TypeOK
      <4> DEFINE s == trace[c]
      <4>2. Append(s, e) = s
        BY <3>1
      <4>3. s \in Seq(Entry)
        BY <4>1
      <4> HIDE DEF s
      <4>4. Len(Append(s, e)) = Len(s) + 1 /\ Len(s) \in Nat
        BY <4>3, AppendProperties
      <4> QED
        BY <4>2, <4>4
    <3> QED
      BY <3>1 DEF Wrote
  <2> QED
    BY <2>2, <2>3, <2>5, <2>6
<1>2. ASSUME seen.call \in Calls PROVE \E n \in Nat : Saw(seen.call, n)'
  <2> DEFINE d == seen.call
  <2>1. PICK n \in Nat : Saw(d, n)
    BY <1>2 DEF View
  <2>2. \A r \in 1 .. n : r \in 1 .. Len(trace[d])
    BY <1>1, <1>2, <2>1 DEF Saw
  <2>3. Lists(seen.rows, n) /\ Sorted(seen.rows, n, created'[d])
    <3>1. \A i \in 1 .. n : created'[d][seen.rows[i]] = created[d][seen.rows[i]]
      <4>1. \A r \in 1 .. Len(trace[d]) : created'[d][r] = created[d][r]
        BY <1>1, <1>2
      <4>2. \A i \in 1 .. n : seen.rows[i] \in 1 .. n
        BY <2>1 DEF Saw, Lists
      <4> QED
        BY <2>2, <4>1, <4>2
    <3> QED
      BY <2>1, <3>1 DEF Saw, Sorted
  <2>4. n <= Len(trace'[d])
    BY <1>1, <1>2, <2>1 DEF Saw
  <2>5. ASSUME seen.setbacks = setbacks
        PROVE  /\ seen.at <= clock
               /\ \A r \in 1 .. Len(trace'[d]) : r > n => seen.at <= created'[d][r]
    <3>1. seen.at <= clock /\ \A r \in 1 .. Len(trace[d]) : r > n => seen.at <= created[d][r]
      BY <2>1, <2>5 DEF Saw
    <3> QED
      BY <1>1, <1>2, <3>1
  <2> QED
    BY <1>0, <2>1, <2>3, <2>4, <2>5 DEF Saw
<1> QED
  BY <1>0, <1>2 DEF View

\* A timeline lists the rows of the call, sorted by their stamps.
LEMMA TimelineLists ==
  ASSUME Tables, NEW c \in Calls, NEW s \in Timelines(c)
  PROVE  /\ Len(trace[c]) \in Nat
         /\ Lists(s, Len(trace[c])) /\ Sorted(s, Len(trace[c]), created[c])
         /\ \A r \in 1 .. Len(trace[c]) : created[c][r] \in Nat
<1> DEFINE n == Len(trace[c])
<1>1. n \in Nat /\ created[c] \in Seq(0 .. MaxClock) /\ Len(created[c]) = n
  BY DEF Tables, TypeOK, Stamped
<1>2. \A r \in 1 .. n : created[c][r] \in Nat
  BY <1>1, TracerAssumption, ElementOfSeq
<1>3. /\ s \in Bijection(1 .. n, 1 .. n)
      /\ \A i, j \in DOMAIN s : i < j => created[c][s[i]] <= created[c][s[j]]
  BY DEF Timelines
<1> HIDE DEF n
<1>4. s \in [1 .. n -> 1 .. n] /\ (\A r \in 1 .. n : \E i \in 1 .. n : s[i] = r)
      /\ \A i, j \in 1 .. n : s[i] = s[j] => i = j
  BY <1>3 DEF Bijection, Injection, Surjection, IsInjective
<1>5. Lists(s, n)
  BY <1>4 DEF Lists
<1>6. Sorted(s, n, created[c])
  BY <1>3, <1>4 DEF Sorted
<1> QED
  BY <1>1, <1>2, <1>5, <1>6 DEF n

(***************************************************************************)
(* Reading keeps the invariant: what was read is all there is.             *)
(***************************************************************************)
LEMMA TracerReads ==
  ASSUME TracerInv, NEW c \in Calls, GetTrace(c)
  PROVE  TracerInv'
<1> USE DEF TracerInv
<1>1. PICK s \in Timelines(c) : seen' = [call |-> c, rows |-> s, at |-> clock, setbacks |-> setbacks]
  BY DEF GetTrace
<1>2. UNCHANGED <<vars, clock, setbacks, created, named>>
  BY DEF GetTrace
<1>3. Tables'
  BY <1>2 DEF Tables, TypeOK, HasEvent, vars, Stamped, Told, Named, IsNamed, NamedOnce
<1>4. /\ Len(trace[c]) \in Nat
      /\ Lists(s, Len(trace[c])) /\ Sorted(s, Len(trace[c]), created[c])
  BY TimelineLists
<1>5. clock \in Nat /\ setbacks \in Nat
  BY TracerAssumption DEF Tables
<1>6. Saw(c, Len(trace[c]))'
  BY <1>1, <1>2, <1>4, <1>5 DEF Saw, vars
<1>7. seen'.call = c /\ seen'.at = clock /\ seen'.setbacks = setbacks
  BY <1>1
<1>8. View'
  BY <1>2, <1>4, <1>5, <1>6, <1>7 DEF View, vars
<1> QED
  BY <1>3, <1>8

(***************************************************************************)
(* The clock goes on, or is set back, which every timeline so far notices. *)
(***************************************************************************)
LEMMA TracerTicks ==
  ASSUME TracerInv, Tick \/ SetBack
  PROVE  TracerInv'
<1> USE DEF TracerInv
<1>1. UNCHANGED <<vars, created, named, seen>>
  BY DEF Tick, SetBack
<1>2. clock \in Nat /\ setbacks \in Nat /\ clock <= MaxClock /\ setbacks <= MaxSetbacks
      /\ MaxClock \in Nat /\ MaxSetbacks \in Nat
  BY TracerAssumption DEF Tables
<1>3. /\ clock' \in 0 .. MaxClock /\ setbacks' \in 0 .. MaxSetbacks
      /\ \/ setbacks' = setbacks /\ clock' >= clock
         \/ setbacks' > setbacks
  BY <1>2 DEF Tick, SetBack
<1>4. Tables'
  BY <1>1, <1>3 DEF Tables, TypeOK, HasEvent, vars, Stamped, Told, Named, IsNamed, NamedOnce
<1>5. seen.at \in Nat /\ seen.setbacks \in Nat /\ seen.setbacks <= setbacks'
      /\ (seen.setbacks = setbacks' => seen.setbacks = setbacks /\ clock' >= clock)
  BY <1>2, <1>3 DEF View
<1>6. ASSUME NEW n \in Nat, Saw(seen.call, n) PROVE Saw(seen.call, n)'
  <2>1. seen.setbacks = setbacks' => seen.at <= clock'
    BY <1>2, <1>3, <1>5, <1>6 DEF Saw
  <2> QED
    BY <1>1, <1>5, <1>6, <2>1 DEF Saw, vars
<1>7. View'
  BY <1>1, <1>3, <1>5, <1>6 DEF View
<1> QED
  BY <1>4, <1>7

\* TracerInv holds in every state.
LEMMA TracerInvHolds == TracerSpec => []TracerInv
<1>1. TracerInv /\ [TracerNext]_tracerVars => TracerInv'
  <2> SUFFICES ASSUME TracerInv, [TracerNext]_tracerVars PROVE TracerInv'
    OBVIOUS
  <2>1. ASSUME NEW c \in Calls, Write(c) PROVE TracerInv'
    <3>1. Wrote(c)
      BY <2>1, Writes DEF TracerInv
    <3> QED
      BY <3>1, TablesWrite, ViewWrite DEF TracerInv
  <2>2. CASE UNCHANGED tracerVars
    BY <2>2 DEF tracerVars, vars, TracerInv, Tables, View, Saw, TypeOK, HasEvent,
                Stamped, Told, Named, IsNamed, NamedOnce
  <2> QED
    BY <2>1, <2>2, TracerReads, TracerTicks DEF TracerNext
<1> QED
  BY <1>1, TracerStarts, PTL DEF TracerSpec

-----------------------------------------------------------------------------
(* The theorems *)

(***************************************************************************)
(* Readers do not disturb the bus: beside them it behaves as it does       *)
(* alone, so that what is proved of it holds here (tracer.go:95-111).      *)
(***************************************************************************)
THEOREM TracerRunsBus == TracerSpec => Spec
<1>1. [TracerNext]_tracerVars => [Next]_vars
  <2> SUFFICES ASSUME [TracerNext]_tracerVars PROVE [Next]_vars
    OBVIOUS
  <2>1. ASSUME NEW c \in Calls, Write(c) PROVE Next
    BY <2>1 DEF Write, Next
  <2>2. CASE \/ \E c \in Calls : GetTrace(c)
             \/ Tick \/ SetBack \/ UNCHANGED tracerVars
    BY <2>2 DEF GetTrace, Tick, SetBack, tracerVars
  <2> QED
    BY <2>1, <2>2 DEF TracerNext
<1> QED
  BY <1>1, PTL DEF TracerSpec, TracerInit, Spec

(***************************************************************************)
(* Every variable has its type, and every row has one stamp.               *)
(***************************************************************************)
THEOREM TracerTypeCorrect == TracerSpec => []TracerTypeOK
<1>1. TracerInv => TracerTypeOK
  <2> SUFFICES ASSUME TracerInv PROVE TracerTypeOK
    OBVIOUS
  <2>1. ASSUME NEW c \in Calls PROVE created[c] \in [DOMAIN trace[c] -> 0 .. MaxClock]
    <3>1. trace[c] \in Seq(Entry) /\ created[c] \in Seq(0 .. MaxClock) /\ Len(created[c]) = Len(trace[c])
      BY DEF TracerInv, Tables, TypeOK, Stamped
    <3>2. DOMAIN trace[c] = 1 .. Len(trace[c]) /\ created[c] \in [1 .. Len(created[c]) -> 0 .. MaxClock]
      BY <3>1, LenProperties
    <3> QED
      BY <3>1, <3>2
  <2> QED
    BY <2>1 DEF TracerInv, Tables, TracerTypeOK
<1> QED
  BY <1>1, TracerInvHolds, PTL

(***************************************************************************)
(* Who has seen a response in a trace finds the task among the RESPONDED   *)
(* ones, and in no other list (messagebus.go:240-252,                      *)
(* task_repo.go:95-143).                                                   *)
(***************************************************************************)
THEOREM SeenClosedCorrect == TracerSpec => []SeenClosed
<1>1. TracerInv => SeenClosed
  <2> SUFFICES ASSUME TracerInv, NEW c \in Calls, seen.call = c, "state" \notin lost[c],
                      NEW i \in DOMAIN seen.rows, trace[c][seen.rows[i]].type = "response",
                      NEW s \in States
               PROVE  c \in TaskList(AgentOf[c], s) <=> s \in {"RESPONDED", NoText}
    BY DEF SeenClosed
  <2>1. PICK n \in Nat : Saw(c, n)
    BY DEF TracerInv, View
  <2>2. seen.rows[i] \in 1 .. n /\ n <= Len(trace[c]) /\ Len(trace[c]) \in Nat
    <3>1. trace[c] \in Seq(Entry)
      BY DEF TracerInv, Tables, TypeOK
    <3>2. Len(trace[c]) \in Nat
      BY <3>1, LenProperties
    <3> QED
      BY <2>1, <3>2 DEF Saw, Lists
  <2>3. seen.rows[i] \in 1 .. Len(trace[c])
    BY <2>2
  <2>4. pc[c] = "ok"
    BY <2>3 DEF TracerInv, Tables, Told
  <2>5. tasks[c].state = "RESPONDED" /\ tasks[c] # NoTask
    BY <2>4 DEF TracerInv, Tables, Told, Answered, TypeOK, PCs, Returned
  <2> QED
    BY <2>5 DEF TaskList
<1> QED
  BY <1>1, TracerInvHolds, PTL

(***************************************************************************)
(* The recent events of an agent are its last calls, each of them once: no *)
(* more than were asked for, and if a call that was sent is left out, then *)
(* that many, all of them sent later (trace_repo.go:105-134,               *)
(* tracer.go:21-31).                                                       *)
(***************************************************************************)
THEOREM RecentCallsCorrect == TracerSpec => []RecentCalls
<1>1. TracerInv => RecentCalls
  <2> SUFFICES ASSUME TracerInv, NEW a \in Agents, NEW k \in Limits
               PROVE  LET got == GetRecentByAgent(a, k)
                          calls == {named[i] : i \in got}
                          asked == IF k > 0 THEN k ELSE 10
                      IN /\ Cardinality(calls) = Cardinality(got)
                         /\ Cardinality(calls) <= asked
                         /\ \A c \in calls : AgentOf[c] = a
                         /\ \A c \in SentTo(a) \ calls :
                              /\ Cardinality(calls) = asked
                              /\ \A d \in calls : SentBefore(c, d)
    BY DEF RecentCalls
  <2> DEFINE O == OfAgent(a)
             got == GetRecentByAgent(a, k)
             calls == {named[i] : i \in got}
             asked == IF k > 0 THEN k ELSE 10
  <2>1. named \in Seq(Calls) /\ Len(named) \in Nat /\ DOMAIN named = 1 .. Len(named)
    BY DEF TracerInv, Tables
  <2>2. O \in SUBSET (1 .. Len(named)) /\ \A i \in O : AgentOf[named[i]] = a
    BY <2>1 DEF OfAgent
  <2>3. asked \in Nat /\ asked = Limit(k)
    BY TracerAssumption DEF Limit
  <2>4. got = Latest(O, asked)
    BY <2>3 DEF GetRecentByAgent, Latest
  <2>5. got \in SUBSET O /\ got \in SUBSET (1 .. Len(named))
    BY <2>2, <2>4 DEF Latest
  <2>6. IsFiniteSet(got)
    BY <2>1, <2>5, Positions
  <2>7. \A i, j \in got : named[i] = named[j] => i = j
    BY <2>5 DEF TracerInv, Tables, NamedOnce
  <2> HIDE DEF got, O
  <2>8. Cardinality(calls) = Cardinality(got)
    BY <2>6, <2>7, ImageSize
  <2>9. \A c \in calls : AgentOf[c] = a
    BY <2>2, <2>5
  <2>10. Cardinality(calls) \in Nat /\ Cardinality(calls) <= asked
    BY <2>1, <2>2, <2>3, <2>4, <2>6, <2>8, NoMoreThanAsked, FS_CardinalityType
  <2>11. ASSUME NEW c \in SentTo(a) \ calls
         PROVE  /\ Cardinality(calls) = asked
                /\ \A d \in calls : SentBefore(c, d)
    <3>1. c \in Calls /\ AgentOf[c] = a /\ IsNamed(c)
      BY DEF SentTo, TracerInv, Tables, Named, Sent, Unsent, TypeOK, PCs, Returned
    <3>2. PICK p \in 1 .. Len(named) : named[p] = c
      BY <3>1 DEF IsNamed
    <3>3. p \in O /\ p \notin got
      BY <2>1, <3>1, <3>2 DEF OfAgent, O
    <3>4. Cardinality({j \in O : j > p}) >= asked
      <4>1. {j \in O : j > p} \in SUBSET (1 .. Len(named))
        BY <2>2
      <4>2. Cardinality({j \in O : j > p}) \in Nat
        BY <2>1, <4>1, Positions
      <4>3. ~(Cardinality({j \in O : j > p}) < asked)
        <5> HIDE DEF asked
        <5> QED
          BY <2>4, <3>3 DEF Latest
      <4> QED
        BY <2>3, <4>2, <4>3
    <3>5. Cardinality(got) >= asked
      BY <2>1, <2>2, <2>3, <2>4, <3>3, <3>4, LeftOut
    <3>6. ASSUME NEW d \in calls, NEW i \in DOMAIN named, NEW j \in DOMAIN named,
                 named[i] = c, named[j] = d
          PROVE  i < j
      <4>1. PICK q \in got : named[q] = d
        OBVIOUS
      <4>2. i = p /\ j = q
        BY <2>1, <2>5, <3>2, <3>6, <4>1 DEF TracerInv, Tables, NamedOnce
      <4>3. p < q
        BY <2>1, <2>2, <2>3, <2>4, <3>3, LaterThanRest
      <4> QED
        BY <4>2, <4>3
    <3>7. \A d \in calls : SentBefore(c, d)
      BY <3>6 DEF SentBefore
    <3>8. Cardinality(calls) = asked
      <4> HIDE DEF asked, calls
      <4> QED
        BY <2>3, <2>8, <2>10, <3>5
    <3> QED
      BY <3>7, <3>8
  <2> QED
    BY <2>8, <2>9, <2>10, <2>11 DEF got
<1> QED
  BY <1>1, TracerInvHolds, PTL

(***************************************************************************)
(* A later timeline has every row of an earlier one and begins with those  *)
(* of the seconds that were over then, if the clock was not set back       *)
(* (trace_repo.go:60-85, db.go:46).                                        *)
(***************************************************************************)
LEMMA TimelineFollows ==
  ASSUME TracerInv, NEW c \in Calls, GetTrace(c), seen.call = c, seen.setbacks = setbacks
  PROVE  /\ \A i \in DOMAIN seen.rows : \E j \in DOMAIN seen'.rows : seen'.rows[j] = seen.rows[i]
         /\ {seen'.rows[i] : i \in 1 .. Cardinality(Past(seen))} = Past(seen)
<1> DEFINE m == Len(trace[c])
           stamps == created[c]
           old == seen.rows
           at == seen.at
<1>1. PICK s \in Timelines(c) : seen'.rows = s
  BY DEF GetTrace
<1>2. /\ m \in Nat /\ Lists(s, m) /\ Sorted(s, m, stamps)
      /\ \A r \in 1 .. m : stamps[r] \in Nat
  BY TimelineLists DEF TracerInv
<1>3. PICK n \in Nat : Saw(c, n)
  BY DEF TracerInv, View
<1>4. n <= m /\ Lists(old, n) /\ Sorted(old, n, stamps) /\ at \in Nat
      /\ \A r \in 1 .. m : r > n => at <= stamps[r]
  BY <1>3 DEF Saw, TracerInv, View
<1>5. \A r \in 1 .. n : r \in 1 .. m
  BY <1>2, <1>4
<1> DEFINE P == RowsBefore(n, stamps, at)
           Q == RowsBefore(m, stamps, at)
           before == PlacesBefore(old, stamps, at)
<1>6. Past(seen) = First(old, Cardinality(before))
  BY DEF Past, PlacesBefore, First
<1>7. P = Q
  <2>1. ASSUME NEW r \in Q PROVE r \in 1 .. n
    <3>1. r \in 1 .. m /\ ~(r > n)
      BY <1>2, <1>4 DEF RowsBefore
    <3> QED
      BY <3>1
  <2> QED
    BY <1>5, <2>1 DEF RowsBefore
<1> HIDE DEF m, stamps, old, at
<1>8. Cardinality(before) = Cardinality(P) /\ First(old, Cardinality(P)) = P
  <2>1. \A r \in 1 .. n : stamps[r] \in Nat
    BY <1>2, <1>5
  <2> QED
    BY <1>4, <2>1, BeginsWithPast
<1>9. First(s, Cardinality(Q)) = Q
  BY <1>2, <1>4, BeginsWithPast
<1>10. Past(seen) = P
  BY <1>6, <1>8
<1>11. {s[i] : i \in 1 .. Cardinality(Past(seen))} = Past(seen)
  BY <1>7, <1>9, <1>10 DEF First
<1>12. \A i \in DOMAIN old : \E j \in DOMAIN s : s[j] = old[i]
  BY <1>2, <1>4, <1>5 DEF Lists
<1> QED
  BY <1>1, <1>11, <1>12 DEF old

(***************************************************************************)
(* Who follows the trace of a task misses nothing (trace_repo.go:60-85,    *)
(* db.go:46).                                                              *)
(***************************************************************************)
THEOREM FollowedCorrect == TracerSpec => Followed
<1>1. TracerInv /\ [TracerNext]_tracerVars =>
        [/\ seen' # seen /\ seen.call = seen'.call /\ seen.setbacks = setbacks
         => /\ \A i \in DOMAIN seen.rows : \E j \in DOMAIN seen'.rows : seen'.rows[j] = seen.rows[i]
            /\ {seen'.rows[i] : i \in 1 .. Cardinality(Past(seen))} = Past(seen)]_tracerVars
  <2> SUFFICES ASSUME TracerInv, TracerNext, seen' # seen, seen.call = seen'.call, seen.setbacks = setbacks
               PROVE  /\ \A i \in DOMAIN seen.rows : \E j \in DOMAIN seen'.rows : seen'.rows[j] = seen.rows[i]
                      /\ {seen'.rows[i] : i \in 1 .. Cardinality(Past(seen))} = Past(seen)
    OBVIOUS
  <2>1. PICK c \in Calls : GetTrace(c)
    BY DEF TracerNext, Write, Tick, SetBack
  <2>2. seen.call = c
    BY <2>1 DEF GetTrace
  <2> QED
    BY <2>1, <2>2, TimelineFollows
<1> QED
  BY <1>1, TracerInvHolds, PTL DEF TracerSpec, Followed
=============================================================================
