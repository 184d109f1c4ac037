-------------------------- MODULE PrecedenceProofs --------------------------
(***************************************************************************)
(* Which text of a reply becomes the response, for every reply.            *)
(***************************************************************************)
EXTENDS OutcomeProofs

\* Part j of event i is a text of an event of the kind.
Heard(events, kind, i, j) ==
  /\ i \in 1 .. Len(events) /\ events[i].kind = kind
  /\ j \in 1 .. Len(events[i].parts) /\ events[i].parts[j] # NoText

\* It has been replayed when the call stands on part q of event p.
Past(events, kind, i, j, p, q) ==
  Heard(events, kind, i, j) /\ (i < p \/ (i = p /\ j < q))

IsLast(events, kind, i, j, p, q) ==
  /\ Past(events, kind, i, j, p, q)
  /\ \A k, l \in Nat : Past(events, kind, k, l, p, q) => k < i \/ (k = i /\ l <= j)
IsFirst(events, kind, i, j, p, q) ==
  /\ Past(events, kind, i, j, p, q)
  /\ \A k, l \in Nat : Past(events, kind, k, l, p, q) => i < k \/ (i = k /\ j <= l)
Silent(events, kind, p, q) == \A i, j \in Nat : ~Past(events, kind, i, j, p, q)

(***************************************************************************)
(* The text a call holds is the response to the part of the reply it has   *)
(* replayed.                                                               *)
(***************************************************************************)
Prefers(events, p, q, text) ==
  /\ \A i, j \in Nat : IsLast(events, "message", i, j, p, q) => text = events[i].parts[j]
  /\ Silent(events, "message", p, q) =>
       \A i, j \in Nat : IsFirst(events, "artifact_update", i, j, p, q) => text = events[i].parts[j]
  /\ text = NoText <=>
       Silent(events, "message", p, q) /\ Silent(events, "artifact_update", p, q)

\* An event of a reply has a sequence of texts as its parts.
LEMMA EventParts ==
  ASSUME NEW events \in Seq(Event), NEW p \in 1 .. Len(events)
  PROVE  /\ events[p] \in Event /\ events[p].parts \in Seq(Texts)
         /\ Len(events[p].parts) \in Nat /\ p \in Nat /\ Len(events) \in Nat
<1>1. events[p] \in Event /\ p \in Nat /\ Len(events) \in Nat
  OBVIOUS
<1>2. events[p].parts \in Seq(Texts)
  BY <1>1 DEF Event
<1> QED
  BY <1>1, <1>2

\* Before the first event nothing has been heard.
LEMMA PrefersStart ==
  ASSUME NEW events \in Seq(Event)
  PROVE  Prefers(events, 1, 1, NoText)
<1>1. \A kind, i, j : ~Past(events, kind, i, j, 1, 1)
  <2> SUFFICES ASSUME NEW kind, NEW i, NEW j, Past(events, kind, i, j, 1, 1) PROVE FALSE
    OBVIOUS
  <2>1. Len(events) \in Nat
    OBVIOUS
  <2>2. i \in 1 .. Len(events) /\ j \in 1 .. Len(events[i].parts) /\ (i < 1 \/ j < 1)
    BY DEF Past, Heard
  <2>3. events[i] \in Event /\ Len(events[i].parts) \in Nat
    BY <2>2 DEF Event
  <2> QED
    BY <2>1, <2>2, <2>3
<1> QED
  BY <1>1 DEF Prefers, IsLast, IsFirst, Silent

(***************************************************************************)
(* One part replayed: the texts of another kind stay as they are, and the  *)
(* part is the latest text of its own kind, if it is one.                  *)
(***************************************************************************)
LEMMA PastPart ==
  ASSUME NEW events \in Seq(Event), NEW p \in 1 .. Len(events), NEW q \in Nat, q >= 1,
         q <= Len(events[p].parts), NEW kind
  PROVE  \A i, j \in Nat : Past(events, kind, i, j, p, q + 1) <=>
           \/ Past(events, kind, i, j, p, q)
           \/ i = p /\ j = q /\ events[p].kind = kind /\ events[p].parts[q] # NoText
<1>1. events[p] \in Event /\ Len(events[p].parts) \in Nat /\ p \in Nat
  BY EventParts
<1> QED
  BY <1>1 DEF Past, Heard

\* Going on to the next event adds no text.
LEMMA PastNext ==
  ASSUME NEW events \in Seq(Event), NEW p \in 1 .. Len(events), NEW q \in Nat, q >= 1,
         NEW kind, events[p].kind = kind => q > Len(events[p].parts)
  PROVE  \A i, j \in Nat : Past(events, kind, i, j, p + 1, 1) <=> Past(events, kind, i, j, p, q)
<1>1. events[p] \in Event /\ Len(events[p].parts) \in Nat /\ p \in Nat /\ Len(events) \in Nat
  BY EventParts
<1> SUFFICES ASSUME NEW i \in Nat, NEW j \in Nat
             PROVE  Past(events, kind, i, j, p + 1, 1) <=> Past(events, kind, i, j, p, q)
  OBVIOUS
<1>2. CASE i = p
  BY <1>1, <1>2 DEF Past, Heard
<1>3. CASE i # p
  <2>1. i < p + 1 <=> i < p
    BY <1>1, <1>3
  <2>2. i = p + 1 => ~(j < 1) \/ ~Heard(events, kind, i, j)
    <3> SUFFICES ASSUME j < 1, Heard(events, kind, i, j) PROVE FALSE
      OBVIOUS
    <3>1. i \in 1 .. Len(events) /\ j \in 1 .. Len(events[i].parts)
      BY DEF Heard
    <3>2. events[i] \in Event /\ Len(events[i].parts) \in Nat
      BY <3>1 DEF Event
    <3> QED
      BY <3>1, <3>2
  <2> QED
    BY <1>3, <2>1, <2>2 DEF Past
<1> QED
  BY <1>2, <1>3

\* Positions with the same texts behind them have the same last and first.
LEMMA SamePast ==
  ASSUME NEW events, NEW p, NEW q, NEW r, NEW s, NEW kind,
         \A i, j \in Nat : Past(events, kind, i, j, r, s) <=> Past(events, kind, i, j, p, q)
  PROVE  /\ \A i, j \in Nat : IsLast(events, kind, i, j, r, s) <=> IsLast(events, kind, i, j, p, q)
         /\ \A i, j \in Nat : IsFirst(events, kind, i, j, r, s) <=> IsFirst(events, kind, i, j, p, q)
         /\ Silent(events, kind, r, s) <=> Silent(events, kind, p, q)
  BY DEF IsLast, IsFirst, Silent

\* Going on to the next event keeps the preferred text.
LEMMA PrefersNext ==
  ASSUME NEW events \in Seq(Event), NEW p \in 1 .. Len(events), NEW q \in Nat, q >= 1, NEW x,
         events[p].kind \in {"message", "artifact_update"} => q > Len(events[p].parts),
         Prefers(events, p, q, x)
  PROVE  Prefers(events, p + 1, 1, x)
<1>1. \A kind \in {"message", "artifact_update"} :
        \A i, j \in Nat : Past(events, kind, i, j, p + 1, 1) <=> Past(events, kind, i, j, p, q)
  BY PastNext
<1>2. \A kind \in {"message", "artifact_update"} :
        /\ \A i, j \in Nat : IsLast(events, kind, i, j, p + 1, 1) <=> IsLast(events, kind, i, j, p, q)
        /\ \A i, j \in Nat : IsFirst(events, kind, i, j, p + 1, 1) <=> IsFirst(events, kind, i, j, p, q)
        /\ Silent(events, kind, p + 1, 1) <=> Silent(events, kind, p, q)
  BY <1>1, SamePast
<1> QED
  BY <1>2 DEF Prefers

\* A text of a message replaces whatever was preferred.
LEMMA PrefersMessage ==
  ASSUME NEW events \in Seq(Event), NEW p \in 1 .. Len(events), NEW q \in Nat, q >= 1,
         q <= Len(events[p].parts), events[p].kind = "message", NEW x,
         Prefers(events, p, q, x)
  PROVE  Prefers(events, p, q + 1,
                 IF events[p].parts[q] # NoText THEN events[p].parts[q] ELSE x)
<1> DEFINE t == events[p].parts[q]
<1>0. p \in Nat /\ q + 1 \in Nat
  OBVIOUS
<1>1. \A i, j \in Nat : Past(events, "message", i, j, p, q + 1) <=>
        Past(events, "message", i, j, p, q) \/ (i = p /\ j = q /\ t # NoText)
  BY PastPart
<1>2. \A i, j \in Nat : Past(events, "artifact_update", i, j, p, q + 1) <=>
        Past(events, "artifact_update", i, j, p, q)
  BY PastPart
<1>3. /\ \A i, j \in Nat : IsFirst(events, "artifact_update", i, j, p, q + 1) <=>
           IsFirst(events, "artifact_update", i, j, p, q)
      /\ Silent(events, "artifact_update", p, q + 1) <=> Silent(events, "artifact_update", p, q)
  BY <1>2, SamePast
<1>4. CASE t = NoText
  <2>1. \A i, j \in Nat : Past(events, "message", i, j, p, q + 1) <=> Past(events, "message", i, j, p, q)
    BY <1>1, <1>4
  <2>2. /\ \A i, j \in Nat : IsLast(events, "message", i, j, p, q + 1) <=>
             IsLast(events, "message", i, j, p, q)
        /\ Silent(events, "message", p, q + 1) <=> Silent(events, "message", p, q)
    BY <2>1, SamePast
  <2> QED
    BY <1>3, <1>4, <2>2 DEF Prefers
<1>5. CASE t # NoText
  <2>1. Past(events, "message", p, q, p, q + 1)
    BY <1>0, <1>1, <1>5
  <2>2. \A i, j \in Nat : IsLast(events, "message", i, j, p, q + 1) => i = p /\ j = q
    <3> SUFFICES ASSUME NEW i \in Nat, NEW j \in Nat, IsLast(events, "message", i, j, p, q + 1)
                 PROVE  i = p /\ j = q
      OBVIOUS
    <3>1. p < i \/ (p = i /\ q <= j)
      BY <1>0, <2>1 DEF IsLast
    <3>2. i < p \/ (i = p /\ j < q + 1)
      BY DEF IsLast, Past
    <3> QED
      BY <1>0, <3>1, <3>2
  <2>3. ~Silent(events, "message", p, q + 1)
    BY <1>0, <2>1 DEF Silent
  <2> QED
    BY <1>5, <2>2, <2>3 DEF Prefers
<1> QED
  BY <1>4, <1>5

\* A text of an artifact is taken only if nothing is preferred yet.
LEMMA PrefersArtifact ==
  ASSUME NEW events \in Seq(Event), NEW p \in 1 .. Len(events), NEW q \in Nat, q >= 1,
         q <= Len(events[p].parts), events[p].kind = "artifact_update", NEW x,
         Prefers(events, p, q, x)
  PROVE  Prefers(events, p, q + 1, IF x = NoText THEN events[p].parts[q] ELSE x)
<1> DEFINE t == events[p].parts[q]
<1>0. p \in Nat /\ q + 1 \in Nat
  OBVIOUS
<1>1. \A i, j \in Nat : Past(events, "artifact_update", i, j, p, q + 1) <=>
        Past(events, "artifact_update", i, j, p, q) \/ (i = p /\ j = q /\ t # NoText)
  BY PastPart
<1>2. \A i, j \in Nat : Past(events, "message", i, j, p, q + 1) <=>
        Past(events, "message", i, j, p, q)
  BY PastPart
<1>3. /\ \A i, j \in Nat : IsLast(events, "message", i, j, p, q + 1) <=>
           IsLast(events, "message", i, j, p, q)
      /\ Silent(events, "message", p, q + 1) <=> Silent(events, "message", p, q)
  BY <1>2, SamePast
<1>4. CASE t = NoText
  <2>1. \A i, j \in Nat : Past(events, "artifact_update", i, j, p, q + 1) <=>
          Past(events, "artifact_update", i, j, p, q)
    BY <1>1, <1>4
  <2>2. /\ \A i, j \in Nat : IsFirst(events, "artifact_update", i, j, p, q + 1) <=>
             IsFirst(events, "artifact_update", i, j, p, q)
        /\ Silent(events, "artifact_update", p, q + 1) <=> Silent(events, "artifact_update", p, q)
    BY <2>1, SamePast
  <2>3. (IF x = NoText THEN t ELSE x) = x
    BY <1>4
  <2> QED
    BY <1>3, <2>2, <2>3 DEF Prefers
<1>5. CASE t # NoText
  <2>1. Past(events, "artifact_update", p, q, p, q + 1)
    BY <1>0, <1>1, <1>5
  <2>2. ~Silent(events, "artifact_update", p, q + 1)
    BY <1>0, <2>1 DEF Silent
  <2>3. CASE x = NoText
    <3>1. Silent(events, "message", p, q) /\ Silent(events, "artifact_update", p, q)
      BY <2>3 DEF Prefers
    <3>2. \A i, j \in Nat : ~IsLast(events, "message", i, j, p, q)
      BY <3>1 DEF IsLast, Silent
    <3>3. \A i, j \in Nat : IsFirst(events, "artifact_update", i, j, p, q + 1) => i = p /\ j = q
      BY <1>1, <3>1 DEF IsFirst, Silent
    <3> QED
      BY <1>3, <1>5, <2>2, <2>3, <3>2, <3>3 DEF Prefers
  <2>4. CASE x # NoText
    <3>1. Silent(events, "message", p, q) => ~Silent(events, "artifact_update", p, q)
      BY <2>4 DEF Prefers
    <3>2. ASSUME Silent(events, "message", p, q), NEW i \in Nat, NEW j \in Nat,
                 IsFirst(events, "artifact_update", i, j, p, q + 1)
          PROVE  IsFirst(events, "artifact_update", i, j, p, q)
      <4> PICK k \in Nat, l \in Nat : Past(events, "artifact_update", k, l, p, q)
        BY <3>1, <3>2 DEF Silent
      <4>1. k < p \/ (k = p /\ l < q)
        BY DEF Past
      <4>2. i < k \/ (i = k /\ j <= l)
        BY <1>1, <3>2 DEF IsFirst
      <4>3. ~(i = p /\ j = q)
        BY <1>0, <4>1, <4>2
      <4>4. Past(events, "artifact_update", i, j, p, q)
        BY <1>1, <3>2, <4>3 DEF IsFirst
      <4> QED
        BY <1>1, <3>2, <4>4 DEF IsFirst
    <3> QED
      BY <1>3, <2>2, <2>4, <3>2 DEF Prefers
  <2> QED
    BY <2>3, <2>4
<1> QED
  BY <1>4, <1>5

(***************************************************************************)
(* At the end of the reply, what the call holds is the response that       *)
(* ResponsePrecedence asks for.                                            *)
(***************************************************************************)
Right(events, text) ==
  LET said == Spoken(events, "message")
      made == Spoken(events, "artifact_update")
  IN /\ \A x \in said : (\A y \in said : NotAfter(y, x)) => text = events[x[1]].parts[x[2]]
     /\ said = {} => \A x \in made : (\A y \in made : NotAfter(x, y)) =>
          text = events[x[1]].parts[x[2]]
     /\ said = {} /\ made = {} => text = Empty

\* The texts the property collects are those that can be heard.
LEMMA SpokenIsHeard ==
  ASSUME NEW events \in Seq(Event), NEW kind
  PROVE  /\ \A x \in Spoken(events, kind) :
              /\ x[1] \in Nat /\ x[2] \in Nat /\ x = <<x[1], x[2]>>
              /\ Heard(events, kind, x[1], x[2])
         /\ \A i, j \in Nat : Heard(events, kind, i, j) => <<i, j>> \in Spoken(events, kind)
<1>1. DOMAIN events = 1 .. Len(events)
  OBVIOUS
<1>2. \A i \in 1 .. Len(events) : DOMAIN events[i].parts = 1 .. Len(events[i].parts)
  BY EventParts
<1>3. ASSUME NEW x \in Spoken(events, kind)
      PROVE  /\ x[1] \in Nat /\ x[2] \in Nat /\ x = <<x[1], x[2]>>
             /\ Heard(events, kind, x[1], x[2])
  <2>1. PICK i \in DOMAIN events : /\ events[i].kind = kind
                                   /\ x \in {<<i, j>> : j \in {k \in DOMAIN events[i].parts :
                                                                 events[i].parts[k] # NoText}}
    BY <1>3 DEF Spoken
  <2>2. PICK j \in DOMAIN events[i].parts : events[i].parts[j] # NoText /\ x = <<i, j>>
    BY <2>1
  <2>3. i \in 1 .. Len(events) /\ j \in 1 .. Len(events[i].parts)
    BY <1>1, <1>2
  <2>4. i \in Nat /\ j \in Nat
    BY <2>3, EventParts
  <2> QED
    BY <2>1, <2>2, <2>3, <2>4 DEF Heard
<1>4. ASSUME NEW i \in Nat, NEW j \in Nat, Heard(events, kind, i, j)
      PROVE  <<i, j>> \in Spoken(events, kind)
  <2>1. /\ i \in DOMAIN events /\ events[i].kind = kind
        /\ j \in DOMAIN events[i].parts /\ events[i].parts[j] # NoText
    BY <1>1, <1>2, <1>4 DEF Heard
  <2> QED
    BY <2>1 DEF Spoken
<1> QED
  BY <1>3, <1>4

\* Behind the last event the preferred text, or the fallback, is the right one.
LEMMA PrefersEnd ==
  ASSUME NEW events \in Seq(Event), NEW p \in Nat, p > Len(events), NEW q, NEW x,
         Prefers(events, p, q, x)
  PROVE  Right(events, IF x = NoText THEN Empty ELSE x)
<1> DEFINE text == IF x = NoText THEN Empty ELSE x
           said == Spoken(events, "message")
           made == Spoken(events, "artifact_update")
<1>1. \A kind : \A i, j \in Nat : Heard(events, kind, i, j) => Past(events, kind, i, j, p, q)
  BY DEF Heard, Past
<1>2. \A kind : \A k, l \in Nat : Past(events, kind, k, l, p, q) => <<k, l>> \in Spoken(events, kind)
  BY SpokenIsHeard DEF Past
<1>3. ASSUME NEW z \in said, \A y \in said : NotAfter(y, z)
      PROVE  text = events[z[1]].parts[z[2]]
  <2>1. z[1] \in Nat /\ z[2] \in Nat /\ Past(events, "message", z[1], z[2], p, q)
    BY <1>1, <1>3, SpokenIsHeard
  <2>2. ASSUME NEW k \in Nat, NEW l \in Nat, Past(events, "message", k, l, p, q)
        PROVE  k < z[1] \/ (k = z[1] /\ l <= z[2])
    <3>1. NotAfter(<<k, l>>, z)
      BY <1>2, <1>3, <2>2
    <3> QED
      BY <3>1 DEF NotAfter
  <2>3. IsLast(events, "message", z[1], z[2], p, q)
    BY <2>1, <2>2 DEF IsLast
  <2>4. x # NoText
    BY <2>1 DEF Prefers, Silent
  <2> QED
    BY <2>1, <2>3, <2>4 DEF Prefers
<1>4. ASSUME said = {} PROVE Silent(events, "message", p, q)
  BY <1>2, <1>4 DEF Silent
<1>5. ASSUME said = {}, NEW z \in made, \A y \in made : NotAfter(z, y)
      PROVE  text = events[z[1]].parts[z[2]]
  <2>1. z[1] \in Nat /\ z[2] \in Nat /\ Past(events, "artifact_update", z[1], z[2], p, q)
    BY <1>1, <1>5, SpokenIsHeard
  <2>2. ASSUME NEW k \in Nat, NEW l \in Nat, Past(events, "artifact_update", k, l, p, q)
        PROVE  z[1] < k \/ (z[1] = k /\ z[2] <= l)
    <3>1. NotAfter(z, <<k, l>>)
      BY <1>2, <1>5, <2>2
    <3> QED
      BY <3>1 DEF NotAfter
  <2>3. IsFirst(events, "artifact_update", z[1], z[2], p, q)
    BY <2>1, <2>2 DEF IsFirst
  <2>4. x # NoText
    BY <2>1 DEF Prefers, Silent
  <2> QED
    BY <1>4, <1>5, <2>1, <2>3, <2>4 DEF Prefers
<1>6. ASSUME said = {}, made = {} PROVE text = Empty
  <2>1. Silent(events, "artifact_update", p, q)
    BY <1>2, <1>6 DEF Silent
  <2> QED
    BY <1>4, <1>6, <2>1 DEF Prefers
<1> QED
  BY <1>3, <1>5, <1>6 DEF Right

-----------------------------------------------------------------------------
(***************************************************************************)
(* The invariant: a call that replays holds the response to what it has    *)
(* replayed, and one that closes holds the response to the whole reply.    *)
(***************************************************************************)
Fresh == {"create", "user", "send", "call"}
Replays == {"loop", "task_update", "status_trace"}
Closes == {"respond", "agent_msg", "response_trace", "ok"}

PInv(c) ==
  LET l == loc[c]
  IN /\ pc[c] \in Fresh => l.pos = 1 /\ l.part = 1 /\ l.text = NoText
     /\ pc[c] \in Replays => Prefers(l.inbox, l.pos, l.part, l.text)
     /\ pc[c] = "task_update" => Current(c).kind = "task"
     /\ pc[c] = "status_trace" => Current(c).kind = "status_update"
     /\ pc[c] \in Closes => Right(l.inbox, l.text)

(***************************************************************************)
(* Steps that leave the reply, the position and the text.                  *)
(***************************************************************************)
LEMMA PrecedenceStays ==
  ASSUME TypeOK, NEW c \in Calls, PInv(c), NEW label, Goto(c, label),
         loc'[c].inbox = loc[c].inbox, loc'[c].pos = loc[c].pos,
         loc'[c].part = loc[c].part, loc'[c].text = loc[c].text,
         \/ pc[c] \in Fresh /\ label \in Fresh \cup {"failed", "error_trace"}
         \/ pc[c] \in {"error_trace", "error_state"} /\ label \in {"error_state", "failed"}
         \/ pc[c] = "loop" /\ label = "task_update" /\ Current(c).kind = "task"
         \/ pc[c] = "loop" /\ label = "status_trace" /\ Current(c).kind = "status_update"
         \/ pc[c] \in Closes /\ label \in Closes
  PROVE  PInv(c)'
<1>1. pc'[c] = label /\ Current(c)' = Current(c)
  BY DEF TypeOK, Goto, Current
<1> QED
  BY <1>1 DEF PInv, Fresh, Replays, Closes

\* Up to the agent's answer there is no text.
LEMMA PrecedenceSend ==
  ASSUME TypeOK, NEW c \in Calls, PInv(c),
         \/ \E x \in Contexts : Lookup(c, x)
         \/ Send(c)
  PROVE  PInv(c)'
<1> USE DEF At
<1>0. /\ DOMAIN pc = Calls /\ DOMAIN loc = Calls /\ loc[c] \in Locals
  BY DEF TypeOK
<1>1. ASSUME NEW x \in Contexts, Lookup(c, x) PROVE PInv(c)'
  <2> DEFINE l == [NullLocals EXCEPT !.ctx = x]
  <2>1. l.pos = 1 /\ l.part = 1 /\ l.text = NoText
    BY DEF NullLocals
  <2>2. loc'[c] = l /\ pc'[c] \in {"create", "refused"}
    BY <1>0, <1>1 DEF Lookup, Goto, Set
  <2> HIDE DEF l
  <2> QED
    BY <2>1, <2>2 DEF PInv, Fresh, Replays, Closes
<1>2. ASSUME NEW inserted \in Outcomes, NEW ok \in Outcomes,
             CreateTask(c, inserted, ok) \/ RecordUserMessage(c, inserted, ok)
      PROVE  PInv(c)'
  BY <1>2, PrecedenceStays DEF CreateTask, RecordUserMessage, Fresh
<1>3. ASSUME NEW ok \in Outcomes, RecordSend(c, ok) \/ RecordError(c, ok) \/ FailTask(c, ok)
      PROVE  PInv(c)'
  BY <1>3, PrecedenceStays DEF RecordSend, RecordError, FailTask, Fresh
<1>4. ASSUME NEW events \in Replies, AgentAnswers(c, events) PROVE PInv(c)'
  <2> DEFINE l == [loc[c] EXCEPT !.inbox = events]
  <2>1. /\ l.inbox = events /\ l.pos = loc[c].pos /\ l.part = loc[c].part
        /\ l.text = loc[c].text
    BY <1>0 DEF Locals
  <2>2. pc[c] = "call" /\ pc'[c] = "loop" /\ loc'[c] = l
    BY <1>0, <1>4 DEF AgentAnswers, Goto, Set
  <2> HIDE DEF l
  <2>3. events \in Seq(Event)
    BY MessageBusAssumption DEF Replies, MessageBusAssumption
  <2>4. Prefers(l.inbox, l.pos, l.part, l.text)
    BY <2>1, <2>2, <2>3, PrefersStart DEF PInv, Fresh
  <2> QED
    BY <2>2, <2>4 DEF PInv, Fresh, Replays, Closes
<1>5. ASSUME AgentFails(c) PROVE PInv(c)'
  BY <1>5, PrecedenceStays DEF AgentFails, Fresh
<1> QED
  BY <1>1, <1>2, <1>3, <1>4, <1>5 DEF Send

(***************************************************************************)
(* Replaying an event: parts of messages and artifacts change the text,    *)
(* and every event is left behind when its parts are.                      *)
(***************************************************************************)
LEMMA PrecedenceReplay ==
  ASSUME TypeOK, NEW c \in Calls, PInv(c), Replay(c)
  PROVE  PInv(c)'
<1> USE DEF At, AtEvent
<1>0. /\ pc \in [Calls -> PCs] /\ DOMAIN loc = Calls /\ loc[c] \in Locals
      /\ loc[c].inbox \in Seq(Event)
      /\ loc[c].pos \in Nat /\ loc[c].pos >= 1 /\ loc[c].part \in Nat /\ loc[c].part >= 1
      /\ Current(c) = loc[c].inbox[loc[c].pos]
      /\ HasEvent(c) => loc[c].pos \in 1 .. Len(loc[c].inbox)
  BY DEF TypeOK, Locals, Current, HasEvent
\* The call moves to the next event.
<1>1. ASSUME pc[c] \in Replays, HasEvent(c),
             Current(c).kind \in {"message", "artifact_update"} => loc[c].part > Len(Current(c).parts),
             NEW l, l.inbox = loc[c].inbox, l.pos = loc[c].pos, l.text = loc[c].text,
             l \in Locals, loc'[c] = Advanced(l), pc'[c] = "loop"
      PROVE  PInv(c)'
  <2>1. /\ Advanced(l).inbox = l.inbox /\ Advanced(l).text = l.text
        /\ Advanced(l).pos = l.pos + 1 /\ Advanced(l).part = 1
    <3> DEFINE m == [l EXCEPT !.pos = l.pos + 1]
    <3>1. m.inbox = l.inbox /\ m.text = l.text /\ m.pos = l.pos + 1 /\ DOMAIN m = DOMAIN l
      BY <1>1 DEF Locals
    <3>2. Advanced(l) = [m EXCEPT !.part = 1]
      BY Zenon DEF Advanced
    <3> HIDE DEF m
    <3> QED
      BY <1>1, <3>1, <3>2 DEF Locals
  <2>2. Prefers(loc[c].inbox, loc[c].pos, loc[c].part, loc[c].text)
    BY <1>1 DEF PInv
  <2>3. Prefers(loc[c].inbox, loc[c].pos + 1, 1, loc[c].text)
    BY <1>0, <1>1, <2>2, PrefersNext
  <2> QED
    BY <1>1, <2>1, <2>3 DEF PInv, Fresh, Replays, Closes
\* What Emitted leaves.
<1>2. ASSUME NEW e \in Entry
      PROVE  /\ Emitted(c, e) \in Locals
             /\ Emitted(c, e).inbox = loc[c].inbox /\ Emitted(c, e).pos = loc[c].pos
             /\ Emitted(c, e).part = loc[c].part /\ Emitted(c, e).text = loc[c].text
  <2>1. Emitted(c, e) \in Locals
    BY <1>0, EmittedType
  <2> QED
    BY <1>0, <2>1 DEF Emitted, Locals
<1>3. loc[c].state \in States /\ loc[c].text \in Texts \cup {Empty}
      /\ "SUBMITTED" \in States /\ AgentStates \subseteq States
  BY <1>0 DEF Locals, States
<1>4. ASSUME NEW ok \in Outcomes, TaskEvent(c, ok) \/ StatusEvent(c, ok) PROVE PInv(c)'
  BY <1>4, PrecedenceStays DEF TaskEvent, StatusEvent
<1>5. ASSUME NEW ok \in Outcomes, TaskEventUpdate(c, ok) PROVE PInv(c)'
  <2> PICK s \in AgentStates, x \in Contexts : s = Current(c).state /\ x = Current(c).ctx
    BY <1>5, CurrentType DEF TaskEventUpdate, TypeOK
  <2> DEFINE e == Change("task", "SUBMITTED", s)
             m == Emitted(c, e)
             l == [m EXCEPT !.ctx = IF m.ctx = NoText THEN x ELSE m.ctx]
  <2>1. e \in Entry
    BY <1>3, EntryType
  <2>2. pc[c] = "task_update" /\ pc'[c] = "loop" /\ loc'[c] = Advanced(l)
    BY <1>0, <1>5 DEF TaskEventUpdate, Set, Goto
  <2>3. HasEvent(c) /\ Current(c).kind = "task"
    BY <2>2 DEF TypeOK, PInv
  <2> HIDE DEF e
  <2>4. /\ m \in Locals
        /\ m.inbox = loc[c].inbox /\ m.pos = loc[c].pos /\ m.text = loc[c].text
    BY <1>2, <2>1
  <2> HIDE DEF m
  <2>5. l \in Locals /\ l.inbox = m.inbox /\ l.pos = m.pos /\ l.text = m.text
    BY <2>4 DEF Locals
  <2> HIDE DEF l
  <2> QED
    BY <1>1, <2>2, <2>3, <2>4, <2>5 DEF Replays
<1>6. ASSUME NEW ok \in Outcomes, StatusTrace(c, ok) PROVE PInv(c)'
  <2> PICK s \in AgentStates : s = Current(c).state
    BY <1>6, CurrentType DEF StatusTrace, TypeOK
  <2> DEFINE e == Change("status_update", loc[c].state, s)
             m == Emitted(c, e)
             l == [m EXCEPT !.state = s]
  <2>1. e \in Entry
    BY <1>3, EntryType
  <2>2. pc[c] = "status_trace" /\ pc'[c] = "loop" /\ loc'[c] = Advanced(l)
    BY <1>0, <1>6 DEF StatusTrace, Set, Goto
  <2>3. HasEvent(c) /\ Current(c).kind = "status_update"
    BY <2>2 DEF TypeOK, PInv
  <2> HIDE DEF e
  <2>4. /\ m \in Locals
        /\ m.inbox = loc[c].inbox /\ m.pos = loc[c].pos /\ m.text = loc[c].text
    BY <1>2, <2>1
  <2> HIDE DEF m
  <2>5. l \in Locals /\ l.inbox = m.inbox /\ l.pos = m.pos /\ l.text = m.text
    BY <1>3, <2>4 DEF Locals
  <2> HIDE DEF l
  <2> QED
    BY <1>1, <2>2, <2>3, <2>4, <2>5 DEF Replays
\* The next part of the event, with the text it leaves.
<1>7. ASSUME NEW t, pc[c] = "loop", UNCHANGED pc,
             loc'[c].inbox = loc[c].inbox, loc'[c].pos = loc[c].pos,
             loc'[c].part = loc[c].part + 1, loc'[c].text = t,
             Prefers(loc[c].inbox, loc[c].pos, loc[c].part + 1, t)
      PROVE  PInv(c)'
  BY <1>7 DEF PInv, Fresh, Replays, Closes
<1>8. ASSUME NEW ok \in Outcomes, ArtifactPart(c, ok) PROVE PInv(c)'
  <2>1. /\ pc[c] = "loop" /\ UNCHANGED pc /\ HasEvent(c) /\ Current(c).kind = "artifact_update"
        /\ loc[c].part <= Len(Current(c).parts)
    BY <1>8 DEF ArtifactPart
  <2> PICK t \in Texts : t = Current(c).parts[loc[c].part]
    BY <1>0, <2>1, CurrentType
  <2> DEFINE e == Text("artifact", t)
             m == Emitted(c, e)
             new == IF loc[c].text = NoText THEN t ELSE loc[c].text
             k == [m EXCEPT !.text = IF m.text = NoText THEN t ELSE m.text]
             l == [k EXCEPT !.part = k.part + 1]
             n == [loc[c] EXCEPT !.part = loc[c].part + 1]
  <2>2. e \in Entry
    BY EntryType
  <2>3. (t # NoText /\ loc'[c] = l) \/ (t = NoText /\ loc'[c] = n)
    BY <1>0, <1>8 DEF ArtifactPart, Set
  <2>4. Prefers(loc[c].inbox, loc[c].pos, loc[c].part + 1, new)
    <3>1. Prefers(loc[c].inbox, loc[c].pos, loc[c].part, loc[c].text)
      BY <2>1 DEF PInv, Replays
    <3> QED
      BY <1>0, <2>1, <3>1, PrefersArtifact
  <2> HIDE DEF e
  <2>5. /\ m \in Locals /\ m.part = loc[c].part
        /\ m.inbox = loc[c].inbox /\ m.pos = loc[c].pos /\ m.text = loc[c].text
    BY <1>2, <2>2
  <2> HIDE DEF m
  <2>6. /\ k.part = m.part /\ k.inbox = m.inbox /\ k.pos = m.pos /\ k.text = new
        /\ DOMAIN k = DOMAIN m
    BY <2>5 DEF Locals
  <2> HIDE DEF k
  <2>7. l.part = k.part + 1 /\ l.inbox = k.inbox /\ l.pos = k.pos /\ l.text = k.text
    BY <2>5, <2>6 DEF Locals
  <2>8. /\ n.part = loc[c].part + 1 /\ n.inbox = loc[c].inbox /\ n.pos = loc[c].pos
        /\ n.text = loc[c].text
    BY <1>0 DEF Locals
  <2>9. t = NoText => new = loc[c].text
    OBVIOUS
  <2> HIDE DEF l, n, new
  <2> QED
    BY <1>7, <2>1, <2>3, <2>4, <2>5, <2>6, <2>7, <2>8, <2>9
<1>9. ASSUME MessagePart(c) PROVE PInv(c)'
  <2>1. /\ pc[c] = "loop" /\ UNCHANGED pc /\ HasEvent(c) /\ Current(c).kind = "message"
        /\ loc[c].part <= Len(Current(c).parts)
    BY <1>9 DEF MessagePart
  <2> PICK t : t = Current(c).parts[loc[c].part]
    OBVIOUS
  <2> DEFINE new == IF t # NoText THEN t ELSE loc[c].text
             m == [loc[c] EXCEPT !.text = new]
             l == [m EXCEPT !.part = m.part + 1]
  <2>2. loc'[c] = l
    BY <1>0, <1>9 DEF MessagePart, Set
  <2>3. Prefers(loc[c].inbox, loc[c].pos, loc[c].part + 1, new)
    <3>1. Prefers(loc[c].inbox, loc[c].pos, loc[c].part, loc[c].text)
      BY <2>1 DEF PInv, Replays
    <3> QED
      BY <1>0, <2>1, <3>1, PrefersMessage
  <2> HIDE DEF new
  <2>4. /\ m.part = loc[c].part /\ m.inbox = loc[c].inbox /\ m.pos = loc[c].pos /\ m.text = new
        /\ DOMAIN m = DOMAIN loc[c]
    BY <1>0 DEF Locals
  <2> HIDE DEF m
  <2>5. l.part = m.part + 1 /\ l.inbox = m.inbox /\ l.pos = m.pos /\ l.text = m.text
    BY <1>0, <2>4 DEF Locals
  <2> HIDE DEF l
  <2> QED
    BY <1>7, <2>1, <2>2, <2>3, <2>4, <2>5
<1>10. ASSUME UNCHANGED pc, pc[c] = "loop" PROVE pc'[c] = "loop"
  BY <1>10
<1>11. ASSUME ArtifactEnd(c) \/ SkipEvent(c) PROVE PInv(c)'
  <2>1. /\ pc[c] = "loop" /\ pc'[c] = "loop" /\ loc'[c] = Advanced(loc[c]) /\ HasEvent(c)
        /\ \/ Current(c).kind \in {"garbled", "status_update"}
           \/ loc[c].part > Len(Current(c).parts)
    BY <1>0, <1>11 DEF ArtifactEnd, SkipEvent, Set
  <2> QED
    BY <1>0, <1>1, <2>1 DEF Replays
<1>12. ASSUME MessageEnd(c) \/ UnknownEvent(c) PROVE PInv(c)'
  <2> PICK e \in {Text("message", loc[c].text), Plain("unknown")} :
        /\ pc[c] = "loop" /\ pc'[c] = "loop" /\ loc'[c] = Advanced(Emitted(c, e)) /\ HasEvent(c)
        /\ \/ Current(c).kind = "unknown"
           \/ loc[c].part > Len(Current(c).parts)
    BY <1>0, <1>12 DEF MessageEnd, UnknownEvent, Set
  <2>1. e \in Entry
    BY <1>3, EntryType
  <2>2. Emitted(c, e) \in Locals /\ Emitted(c, e).inbox = loc[c].inbox
        /\ Emitted(c, e).pos = loc[c].pos /\ Emitted(c, e).text = loc[c].text
    BY <1>2, <2>1
  <2> QED
    BY <1>1, <2>2 DEF Replays
<1> QED
  BY <1>4, <1>5, <1>6, <1>8, <1>9, <1>11, <1>12 DEF Replay

\* Closing the task uses the preferred text, or the fallback.
LEMMA PrecedenceClose ==
  ASSUME TypeOK, NEW c \in Calls, PInv(c), Close(c)
  PROVE  PInv(c)'
<1> USE DEF At
<1>0. /\ DOMAIN pc = Calls /\ DOMAIN loc = Calls /\ loc[c] \in Locals
      /\ loc[c].inbox \in Seq(Event) /\ loc[c].pos \in Nat /\ loc[c].text \in Texts \cup {Empty}
  BY DEF TypeOK, Locals
<1>1. ASSUME LoopEnd(c) PROVE PInv(c)'
  <2> DEFINE new == IF loc[c].text = NoText THEN Empty ELSE loc[c].text
             l == [loc[c] EXCEPT !.text = new]
  <2>1. l.inbox = loc[c].inbox /\ l.text = new
    BY <1>0 DEF Locals
  <2>2. pc[c] = "loop" /\ ~HasEvent(c) /\ pc'[c] = "respond" /\ loc'[c] = l
    BY <1>0, <1>1 DEF LoopEnd, Set, Goto
  <2> HIDE DEF l
  <2>3. loc[c].pos > Len(loc[c].inbox)
    BY <1>0, <2>2 DEF HasEvent
  <2>4. Prefers(loc[c].inbox, loc[c].pos, loc[c].part, loc[c].text)
    BY <2>2 DEF PInv, Replays
  <2>5. Right(loc[c].inbox, new)
    BY <1>0, <2>3, <2>4, PrefersEnd
  <2> QED
    BY <2>1, <2>2, <2>5 DEF PInv, Fresh, Replays, Closes
<1>2. ASSUME NEW ok \in Outcomes, Respond(c, ok) PROVE PInv(c)'
  <2> DEFINE l == [loc[c] EXCEPT !.state = "RESPONDED"]
  <2>1. /\ l.inbox = loc[c].inbox /\ l.pos = loc[c].pos /\ l.part = loc[c].part
        /\ l.text = loc[c].text
    BY <1>0 DEF Locals
  <2>2. pc[c] = "respond" /\ Goto(c, "agent_msg") /\ loc'[c] = l
    BY <1>0, <1>2 DEF Respond, Set
  <2> HIDE DEF l
  <2> QED
    BY <2>1, <2>2, PrecedenceStays DEF Closes
<1>3. ASSUME NEW ok \in Outcomes, RecordAgentMessage(c, ok) PROVE PInv(c)'
  BY <1>3, PrecedenceStays DEF RecordAgentMessage, Closes
<1>4. ASSUME NEW ok \in Outcomes, RecordResponse(c, ok) PROVE PInv(c)'
  <2> DEFINE e == Text("response", loc[c].text)
             l == Emitted(c, e)
  <2>1. /\ l.inbox = loc[c].inbox /\ l.pos = loc[c].pos /\ l.part = loc[c].part
        /\ l.text = loc[c].text
    BY <1>0 DEF Emitted, Locals
  <2>2. pc[c] = "response_trace" /\ Goto(c, "ok") /\ loc'[c] = l
    BY <1>0, <1>4 DEF RecordResponse, Set
  <2> HIDE DEF l
  <2> QED
    BY <2>1, <2>2, PrecedenceStays DEF Closes
<1> QED
  BY <1>1, <1>2, <1>3, <1>4 DEF Close

(***************************************************************************)
(* The response text is the last text of any message, without one the      *)
(* first text of any artifact, and without one "(empty)".                  *)
(***************************************************************************)
THEOREM PrecedenceCorrect == Spec => []ResponsePrecedence
<1>1. Init => \A c \in Calls : PInv(c)
  BY DEF Init, PInv, Fresh, Replays, Closes
<1>2. /\ TypeOK /\ (\A c \in Calls : KeptInv(c)) /\ (\A c \in Calls : PInv(c)) /\ [Next]_vars
      => (\A c \in Calls : PInv(c))'
  <2> SUFFICES ASSUME TypeOK, \A c \in Calls : KeptInv(c), \A c \in Calls : PInv(c), [Next]_vars
               PROVE  \A c \in Calls : PInv(c)'
    OBVIOUS
  <2>1. CASE UNCHANGED vars
    BY <2>1 DEF vars, PInv, Current
  <2>2. CASE Crash
    <3>1. /\ UNCHANGED loc
          /\ \A c \in Calls : pc'[c] \in {pc[c], "crashed"}
      BY <2>2 DEF Crash, TypeOK
    <3> QED
      BY <3>1 DEF PInv, Fresh, Replays, Closes, Current
  <2>3. ASSUME NEW c \in Calls, (\E x \in Contexts : Lookup(c, x)) \/ Send(c) \/ Replay(c) \/ Close(c)
        PROVE  \A d \in Calls : PInv(d)'
    <3>1. Apart(c) /\ PInv(c)'
      BY <2>3, KeptOpen, KeptReplay, KeptClose, PrecedenceSend, PrecedenceReplay, PrecedenceClose
    <3>2. \A d \in Calls \ {c} : PInv(d)'
      BY <3>1 DEF Apart, PInv, Current
    <3> QED
      BY <3>1, <3>2
  <2> QED
    BY <2>1, <2>2, <2>3 DEF Next
<1>3. (\A c \in Calls : PInv(c)) => ResponsePrecedence
  BY DEF PInv, Closes, Right, ResponsePrecedence
<1> QED
  BY <1>1, <1>2, <1>3, KeptHolds, TypeCorrect, PTL DEF Spec
=============================================================================
