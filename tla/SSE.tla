-------------------------------- MODULE SSE ---------------------------------
(***************************************************************************)
(* The reply of an agent as the A2A client reads it (pkg/a2a/client.go,    *)
(* sse.go).  The agent writes lines; the connection may break, and the     *)
(* client may give up, after any of them or in the middle of one.  The     *)
(* parser takes line after line, collects data lines, and decodes what it  *)
(* has collected at a blank line.                                          *)
(*                                                                         *)
(* A line is blank, a data line with its text, one the parser skips (a     *)
(* comment, another field, "data:" without a space), or one longer than    *)
(* the 64 KB the scanner takes.  Which texts together are the JSON of an   *)
(* event is the constant Envelope: an agent may spread an event over       *)
(* several lines.  A line that was cut short is a line with another text.  *)
(***************************************************************************)
EXTENDS Naturals, Sequences, FiniteSets

CONSTANTS
  Texts,      \* texts of data lines
  Envelope,   \* a function from sequences of texts to the events they encode
  MaxLines,   \* bound: lines of a reply
  NoText

Line == [kind : {"data", "blank", "other", "long"}, text : Texts \cup {NoText}]
\* The one event a reply that is no event stream is wrapped in: its body, or
\* what had come of it.
Body(whole) == IF whole THEN "body" ELSE "part of the body"
Event == {Envelope[s] : s \in DOMAIN Envelope} \cup {Body(TRUE), Body(FALSE)}

ASSUME SSEAssumption ==
  /\ DOMAIN Envelope \subseteq Seq(Texts) \ {<<>>}
  /\ MaxLines \in Nat

VARIABLES
  reply,      \* what the header said: "sse", "plain" or "refused" (not 200)
  wire,       \* Seq(Line): the lines the agent has written
  agent,      \* "writing", then the body is "closed" or the connection "broken"
  pos,        \* lines the scanner has taken
  dataLines,  \* Seq(Texts): dataLines of ParseSSEStream
  events,     \* Seq(Event): events it has decoded
  result      \* "reading"; then SendStreamingMessage returned "ok" or "error"

vars == <<reply, wire, agent, pos, dataLines, events, result>>

Init ==
  /\ reply \in {"sse", "plain", "refused"}
  /\ wire = <<>>
  /\ agent = "writing"
  /\ pos = 0
  /\ dataLines = <<>>
  /\ events = <<>>
  /\ result = "reading"

-----------------------------------------------------------------------------
(* The agent and the network *)

Write(line) ==
  /\ agent = "writing"
  /\ Len(wire) < MaxLines
  /\ wire' = Append(wire, line)
  /\ UNCHANGED <<reply, agent, pos, dataLines, events, result>>

Finish(how) ==
  /\ agent = "writing"
  /\ agent' = how
  /\ UNCHANGED <<reply, wire, pos, dataLines, events, result>>

-----------------------------------------------------------------------------
(* ParseSSEStream *)

Scanned == wire[pos + 1]
Scans(kind) ==
  /\ reply = "sse" /\ result = "reading"
  /\ pos < Len(wire)
  /\ Scanned.kind = kind
  /\ pos' = pos + 1

ScanData ==
  /\ Scans("data")
  /\ dataLines' = Append(dataLines, Scanned.text)
  /\ UNCHANGED <<reply, wire, agent, events, result>>

\* Mutant: the error of Unmarshal is not looked at, and the envelope it left
\* empty is appended.
Decode_Any(lines) ==
  IF lines = <<>> THEN <<>>
  ELSE IF lines \in DOMAIN Envelope THEN <<Envelope[lines]>> ELSE <<NoText>>

\* json.Unmarshal of the joined lines; what does not decode is dropped.
Decode(lines) == IF lines \in DOMAIN Envelope THEN <<Envelope[lines]>> ELSE <<>>

\* Mutant: dataLines is reset only when it decodes.
ScanBlank_Keeps ==
  /\ Scans("blank")
  /\ events' = events \o Decode(dataLines)
  /\ dataLines' = IF Decode(dataLines) = <<>> THEN dataLines ELSE <<>>
  /\ UNCHANGED <<reply, wire, agent, result>>

\* A blank line ends an event.
ScanBlank ==
  /\ Scans("blank")
  /\ events' = events \o Decode(dataLines)
  /\ dataLines' = <<>>
  /\ UNCHANGED <<reply, wire, agent, result>>

ScanOther ==
  /\ Scans("other")
  /\ UNCHANGED <<reply, wire, agent, dataLines, events, result>>

\* The scanner stops with ErrTooLong.
ScanTooLong ==
  /\ Scans("long")
  /\ result' = "error"
  /\ UNCHANGED <<reply, wire, agent, dataLines, events>>

\* Mutant: scanner.Err() is not returned.
ScanEnd_NoErr ==
  /\ reply = "sse" /\ result = "reading"
  /\ pos = Len(wire) /\ agent # "writing"
  /\ result' = "ok"
  /\ UNCHANGED <<reply, wire, agent, pos, dataLines, events>>

\* All lines are taken and no more will come.  Data lines without a blank
\* one after them are dropped; scanner.Err() is nil if the body ended.
ScanEnd ==
  /\ reply = "sse" /\ result = "reading"
  /\ pos = Len(wire) /\ agent # "writing"
  /\ result' = IF agent = "closed" THEN "ok" ELSE "error"
  /\ UNCHANGED <<reply, wire, agent, pos, dataLines, events>>

-----------------------------------------------------------------------------
(* The rest of SendStreamingMessage *)

Refused ==
  /\ reply = "refused" /\ result = "reading"
  /\ result' = "error"
  /\ UNCHANGED <<reply, wire, agent, pos, dataLines, events>>

\* The 60 seconds of the HTTP client end before the reply does.
GiveUp ==
  /\ reply = "sse" /\ result = "reading"
  /\ result' = "error"
  /\ UNCHANGED <<reply, wire, agent, pos, dataLines, events>>

\* The error of ReadAll is dropped: a body that broke off, or that did not
\* end within the 60 seconds, is returned as far as it came.
WrapBody ==
  /\ reply = "plain" /\ result = "reading"
  /\ events' = <<Body(agent = "closed")>>
  /\ result' = "ok"
  /\ UNCHANGED <<reply, wire, agent, pos, dataLines>>

Peer == \/ \E line \in Line : (line.text # NoText <=> line.kind = "data") /\ Write(line)
        \/ \E how \in {"closed", "broken"} : Finish(how)

Client == \/ ScanData \/ ScanBlank \/ ScanOther \/ ScanTooLong \/ ScanEnd
          \/ Refused \/ GiveUp \/ WrapBody

Next == Peer \/ Client

Spec == Init /\ [][Next]_vars

-----------------------------------------------------------------------------
(* What the stream says *)

\* The k-th of the positions in P is the one that has k of them up to it.
Ranked(P, k) == {i \in P : Cardinality({j \in P : j <= i}) = k}
InOrder(P) == [k \in 1 .. Cardinality(P) |-> CHOOSE i \in Ranked(P, k) : TRUE]

\* The data lines of s after the last blank line before i, and their texts.
DataLines(s, i) ==
  {j \in 1 .. (i - 1) : s[j].kind = "data" /\ \A k \in j .. (i - 1) : s[k].kind # "blank"}
Gathered(s, i) ==
  LET lines == DataLines(s, i)
  IN [k \in 1 .. Cardinality(lines) |-> s[InOrder(lines)[k]].text]

\* The blank lines among the first n of s that end an event, and the events.
Ends(s, n) == {i \in 1 .. n : s[i].kind = "blank" /\ Gathered(s, i) \in DOMAIN Envelope}
EventsOf(s, n) ==
  LET ends == Ends(s, n)
  IN [k \in 1 .. Cardinality(ends) |-> Envelope[Gathered(s, InOrder(ends)[k])]]

(***************************************************************************)
(* However the lines come and wherever they stop, the events the parser    *)
(* has are those of the lines it has taken: no event is lost, repeated,    *)
(* joined with another or made of lines of an event that did not decode    *)
(* (sse.go:12-31).                                                         *)
(***************************************************************************)
Parsed == reply = "sse" => events = EventsOf(wire, pos)

(***************************************************************************)
(* An event stream is returned without an error only when the agent has    *)
(* ended it, and then it is returned whole: a stream that breaks, that is  *)
(* too slow or that has a line too long is never taken for a shorter one   *)
(* (client.go:77-79, sse.go:30).                                           *)
(***************************************************************************)
Whole ==
  reply = "sse" /\ result = "ok" => agent = "closed" /\ events = EventsOf(wire, Len(wire))

(***************************************************************************)
(* Every variable has its type, and the scanner does not pass the stream.  *)
(***************************************************************************)
TypeOK ==
  /\ reply \in {"sse", "plain", "refused"}
  /\ wire \in Seq(Line) /\ Len(wire) <= MaxLines
  /\ agent \in {"writing", "closed", "broken"}
  /\ pos \in 0 .. Len(wire)
  /\ dataLines \in Seq(Texts)
  /\ events \in Seq(Event)
  /\ result \in {"reading", "ok", "error"}

(***************************************************************************)
(* client.go:46: "Otherwise, the response body is wrapped as a single      *)
(* event."  What is wrapped is the body.                                   *)
(***************************************************************************)
BodyWrapped == reply = "plain" /\ result = "ok" => events = <<Body(TRUE)>>
=============================================================================
