------------------------------- MODULE Proxy --------------------------------
(***************************************************************************)
(* An A2A client that reaches its agent through the host: ProxyAgent       *)
(* (internal/handler/proxy.go) between the agent and the client of SSE.    *)
(*                                                                         *)
(* The agent's body arrives in "upstream"; the handler copies what it      *)
(* reads to "wire", the body of its own answer, which the client parses as *)
(* it parses an agent's.  The body ends for the client when the handler    *)
(* returns: net/http then closes it properly, unless the handler has       *)
(* copied a Content-Length from the agent and written less.                *)
(*                                                                         *)
(* The header filter decides nothing here and is left out; the unit of a   *)
(* copy is a line, or what is left of one when the agent breaks off.       *)
(***************************************************************************)
EXTENDS SSE

VARIABLES
  handler,   \* "lookup", "request", "copy", "done": where ProxyAgent stands
  upstream,  \* Seq(Line): what the agent has written
  source,    \* "writing", then the agent's body is "closed" or "broken"
  sized      \* whether the agent's header has a Content-Length

proxyVars == <<vars, handler, upstream, source, sized>>

\* As in SSE, what the header of the answer says is settled at the start.
ProxyInit ==
  /\ Init
  /\ handler = "lookup"
  /\ upstream = <<>>
  /\ source = "writing"
  /\ sized \in BOOLEAN

-----------------------------------------------------------------------------
(* The agent *)

AgentWrites(line) ==
  /\ handler = "copy" /\ source = "writing"
  /\ Len(upstream) < MaxLines
  /\ upstream' = Append(upstream, line)
  /\ UNCHANGED <<vars, handler, source, sized>>

AgentEnds(how) ==
  /\ handler = "copy" /\ source = "writing"
  /\ source' = how
  /\ UNCHANGED <<vars, handler, upstream, sized>>

-----------------------------------------------------------------------------
(* ProxyAgent *)

\* An error of the host itself: 404 without a connection, 502 if RoundTrip
\* fails.
Reject ==
  /\ handler \in {"lookup", "request"}
  /\ reply = "refused"
  /\ handler' = "done"
  /\ Finish("closed")
  /\ UNCHANGED <<upstream, source, sized>>

\* The agent is connected: the request is rebuilt for its URL.
Lookup ==
  /\ handler = "lookup"
  /\ handler' = "request"
  /\ UNCHANGED <<vars, upstream, source, sized>>

\* RoundTrip has the agent's header; it is copied and sent.
Answer ==
  /\ handler = "request"
  /\ handler' = "copy"
  /\ UNCHANGED <<vars, upstream, source, sized>>

\* The handler returns, and the server ends the body.
Return ==
  /\ handler' = "done"
  /\ agent' = IF sized /\ source = "broken" THEN "broken" ELSE "closed"

Unread == Len(upstream) > Len(wire)

\* Mutant: the end is looked at before the data is written.
Copy_EndFirst(last) ==
  /\ handler = "copy" /\ Unread
  /\ last => source # "writing" /\ Len(wire) + 1 = Len(upstream)
  /\ IF last THEN Return /\ UNCHANGED wire
     ELSE wire' = Append(wire, upstream[Len(wire) + 1]) /\ UNCHANGED <<handler, agent>>
  /\ UNCHANGED <<reply, pos, dataLines, events, result, upstream, source, sized>>

\* Read has returned data, and perhaps the end of the body with the last of
\* it; the data is written, and then the end is looked at.
Copy(last) ==
  /\ handler = "copy" /\ Unread
  /\ wire' = Append(wire, upstream[Len(wire) + 1])
  /\ last => source # "writing" /\ Len(wire') = Len(upstream)
  /\ IF last THEN Return ELSE UNCHANGED <<handler, agent>>
  /\ UNCHANGED <<reply, pos, dataLines, events, result, upstream, source, sized>>

\* Mutant: the loop ends at io.EOF only.
CopyEnd_OnlyEOF ==
  /\ handler = "copy" /\ ~Unread
  /\ source = "closed"
  /\ Return
  /\ UNCHANGED <<reply, wire, pos, dataLines, events, result, upstream, source, sized>>

\* Read has returned the end of the body, or an error, and no data.
CopyEnd ==
  /\ handler = "copy" /\ ~Unread
  /\ source # "writing"
  /\ Return
  /\ UNCHANGED <<reply, wire, pos, dataLines, events, result, upstream, source, sized>>

ProxyAgent ==
  \/ Reject \/ Lookup \/ Answer \/ CopyEnd
  \/ \E last \in BOOLEAN : Copy(last)

\* The client reads once it has a header; its time may run out before.
Reads ==
  /\ handler \in {"copy", "done"} \/ GiveUp
  /\ Client
  /\ UNCHANGED <<handler, upstream, source, sized>>

ProxyNext ==
  \/ \E line \in Line : (line.text # NoText <=> line.kind = "data") /\ AgentWrites(line)
  \/ \E how \in {"closed", "broken"} : AgentEnds(how)
  \/ ProxyAgent
  \/ Reads

ProxySpec == ProxyInit /\ [][ProxyNext]_proxyVars

(***************************************************************************)
(* Fairness: the handler's goroutine runs, RoundTrip returns, and Read     *)
(* returns what there is to read.  Nothing makes an agent end its body.    *)
(***************************************************************************)
ProxyFairSpec == ProxySpec /\ WF_proxyVars(ProxyAgent)

-----------------------------------------------------------------------------
(***************************************************************************)
(* Every variable has its type.                                            *)
(***************************************************************************)
ProxyTypeOK ==
  /\ TypeOK
  /\ handler \in {"lookup", "request", "copy", "done"}
  /\ upstream \in Seq(Line) /\ Len(upstream) <= MaxLines
  /\ source \in {"writing", "closed", "broken"}
  /\ sized \in BOOLEAN

(***************************************************************************)
(* What the client gets through the host as an event stream without an     *)
(* error is every event the agent has written, the last included, to the   *)
(* end of its body; and if the agent said how long its body is, that end   *)
(* is not a break (proxy.go:89-117).                                       *)
(***************************************************************************)
Proxied ==
  reply = "sse" /\ result = "ok" =>
    /\ events = EventsOf(upstream, Len(upstream))
    /\ source # "writing"
    /\ sized => source = "closed"

(***************************************************************************)
(* When the agent's body is over, however it ended and whether or not the  *)
(* client is still there, the handler returns (proxy.go:103-117).          *)
(***************************************************************************)
ProxyReturns == source # "writing" ~> handler = "done"

(***************************************************************************)
(* 2026-05-14-a2a-platform-design.md:127: "Transparent forwarding of POST  *)
(* /agent/:name to target agent".  A stream that broke is not returned as  *)
(* a whole one, as it is not without the proxy (SSE!Whole).                *)
(***************************************************************************)
Transparent == reply = "sse" /\ result = "ok" => source = "closed"
=============================================================================
