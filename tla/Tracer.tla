------------------------------- MODULE Tracer -------------------------------
(***************************************************************************)
(* The tables of the message bus as readers see them while it writes:      *)
(* GetTimeline and GetDebugTrace behind GET /api/tasks/:id/trace, List     *)
(* behind GET /api/tasks, and GetRecentByAgent (internal/tracer/tracer.go, *)
(* internal/repository/trace_repo.go, task_repo.go).                       *)
(*                                                                         *)
(* A row of trace_events is stamped by SQLite with the second in which it  *)
(* is inserted, and a timeline is ordered by that stamp alone: rows of one *)
(* second come in any order, and the host's clock may be set back.         *)
(* Readers read without failures: a query that fails half-way, which       *)
(* returns the rows so far as if they were all, is left out here.          *)
(***************************************************************************)
EXTENDS MessageBus, Integers, FiniteSets, Functions

CONSTANTS
  Agents,
  AgentOf,      \* [Calls -> Agents]: the agent a call is made to
  Limits,       \* limits GetRecentByAgent is called with
  MaxClock,     \* bound: the clock's last second
  MaxSetbacks   \* bound: how often the clock is set back

ASSUME TracerAssumption ==
  /\ AgentOf \in [Calls -> Agents]
  /\ Limits \subseteq Int
  /\ MaxClock \in Nat /\ MaxSetbacks \in Nat

VARIABLES
  clock,     \* the host's clock, in seconds
  setbacks,  \* how often it has been set back
  created,   \* [Calls -> Seq(Nat)]: created_at of the rows in trace
  named,     \* Seq(Calls): the rows of trace_events that have an agent_name,
             \* by the calls they belong to, in the order of their ids
  seen       \* the last timeline a reader got: of which call, its rows as
             \* positions in trace, and the clock and setbacks at the time

tracerVars == <<vars, clock, setbacks, created, named, seen>>

NothingSeen == [call |-> NoTask, rows |-> <<>>, at |-> 0, setbacks |-> 0]

TracerInit ==
  /\ Init
  /\ clock = 0
  /\ setbacks = 0
  /\ created = [c \in Calls |-> <<>>]
  /\ named = <<>>
  /\ seen = NothingSeen

-----------------------------------------------------------------------------
(* Writing *)

\* Mutant: a row carries the time at which its call began.
CreatedAt_Begin(c) == IF created[c] = <<>> THEN clock ELSE created[c][1]

\* DEFAULT CURRENT_TIMESTAMP
CreatedAt(c) == clock

\* Only RecordSend fills in agent_name.
HasAgentName(entry) == entry.type = "send"

Write(c) ==
  /\ \/ \E x \in Contexts : Lookup(c, x)
     \/ Send(c) \/ Replay(c) \/ Close(c)
  /\ IF trace'[c] # trace[c]
       THEN /\ created' = [created EXCEPT ![c] = Append(@, CreatedAt(c))]
            /\ named' = IF HasAgentName(Last(trace'[c])) THEN Append(named, c) ELSE named
       ELSE UNCHANGED <<created, named>>
  /\ UNCHANGED <<clock, setbacks, seen>>

Tick ==
  /\ clock < MaxClock
  /\ clock' = clock + 1
  /\ UNCHANGED <<vars, setbacks, created, named, seen>>

SetBack ==
  /\ setbacks < MaxSetbacks /\ clock > 0
  /\ setbacks' = setbacks + 1
  /\ clock' \in 0 .. (clock - 1)
  /\ UNCHANGED <<vars, created, named, seen>>

-----------------------------------------------------------------------------
(* Reading *)

\* SELECT ... WHERE task_id = c ORDER BY created_at ASC: any of these.
Timelines(c) ==
  {s \in Bijection(1 .. Len(trace[c]), 1 .. Len(trace[c])) :
     \A i, j \in DOMAIN s : i < j => created[c][s[i]] <= created[c][s[j]]}

\* GET /api/tasks/c/trace
GetTrace(c) ==
  /\ \E s \in Timelines(c) :
       seen' = [call |-> c, rows |-> s, at |-> clock, setbacks |-> setbacks]
  /\ UNCHANGED <<vars, clock, setbacks, created, named>>

\* GET /api/tasks with its two filters; which comes first is left out.
TaskList(agent, state) ==
  {c \in Calls : /\ tasks[c] # NoTask
                 /\ agent \in {NoText, AgentOf[c]}
                 /\ state \in {NoText, tasks[c].state}}

Limit(k) == IF k <= 0 THEN 10 ELSE k

\* The rows with this agent_name, as positions in named.
OfAgent(a) == {i \in DOMAIN named : AgentOf[named[i]] = a}

\* Mutant: ORDER BY id ASC, the oldest rows.
GetRecentByAgent_Oldest(a, k) ==
  {i \in OfAgent(a) : Cardinality({j \in OfAgent(a) : j < i}) < Limit(k)}

\* SELECT ... WHERE agent_name = a ORDER BY id DESC LIMIT k
GetRecentByAgent(a, k) ==
  {i \in OfAgent(a) : Cardinality({j \in OfAgent(a) : j > i}) < Limit(k)}

TracerNext ==
  \/ \E c \in Calls : Write(c) \/ GetTrace(c)
  \/ Tick
  \/ SetBack

TracerSpec == TracerInit /\ [][TracerNext]_tracerVars

-----------------------------------------------------------------------------
(***************************************************************************)
(* Every variable has its type, and every row has one stamp.               *)
(***************************************************************************)
TracerTypeOK ==
  /\ TypeOK
  /\ clock \in 0 .. MaxClock
  /\ setbacks \in 0 .. MaxSetbacks
  /\ \A c \in Calls : created[c] \in [DOMAIN trace[c] -> 0 .. MaxClock]
  /\ named \in Seq(Calls)

\* The rows of a timeline from before the second in which it was read.
Past(view) ==
  LET before == {i \in DOMAIN view.rows : created[view.call][view.rows[i]] < view.at}
  IN {view.rows[i] : i \in 1 .. Cardinality(before)}

(***************************************************************************)
(* A reader who follows the trace of a task misses nothing: a later        *)
(* timeline has every row of an earlier one, and begins with those of the  *)
(* seconds that were over then, so that what is new comes after them.  It  *)
(* is so as long as the clock is not set back in between                   *)
(* (trace_repo.go:60-85, db.go:46).                                        *)
(***************************************************************************)
Followed ==
  [][/\ seen' # seen /\ seen.call = seen'.call /\ seen.setbacks = setbacks
     => /\ \A i \in DOMAIN seen.rows : \E j \in DOMAIN seen'.rows : seen'.rows[j] = seen.rows[i]
        /\ {seen'.rows[i] : i \in 1 .. Cardinality(Past(seen))} = Past(seen)]_tracerVars

(***************************************************************************)
(* A reader who has seen a response in the trace of a task finds the task  *)
(* among the RESPONDED ones of its agent, if that write was not lost, and  *)
(* never again among the others: the state is written before the trace     *)
(* (messagebus.go:240-252, task_repo.go:95-143).                           *)
(***************************************************************************)
SeenClosed ==
  \A c \in Calls :
    /\ seen.call = c /\ "state" \notin lost[c]
    /\ \E i \in DOMAIN seen.rows : trace[c][seen.rows[i]].type = "response"
    => \A s \in States : c \in TaskList(AgentOf[c], s) <=> s \in {"RESPONDED", NoText}

\* The calls to a that have been sent, as far as the trace knows.
SentTo(a) ==
  {c \in Calls : AgentOf[c] = a /\ "trace" \notin lost[c]
                 /\ pc[c] \notin {"idle", "refused", "create", "user", "send", "crashed"}
                 /\ (pc[c] = "failed" => trace[c] # <<>>)}

\* The row of c in trace_events came before that of d.
SentBefore(c, d) ==
  \A i, j \in DOMAIN named : named[i] = c /\ named[j] = d => i < j

(***************************************************************************)
(* The recent events of an agent are its last calls, each of them once,    *)
(* whatever its trace has grown to and however the clock was set: no more  *)
(* than were asked for, which are ten if nothing sensible was; and a call  *)
(* that was sent is left out only if there are that many others, all of    *)
(* them later than it (trace_repo.go:105-134, tracer.go:21-31).            *)
(***************************************************************************)
RecentCalls ==
  \A a \in Agents, k \in Limits :
    LET got == GetRecentByAgent(a, k)
        calls == {named[i] : i \in got}
        asked == IF k > 0 THEN k ELSE 10
    IN /\ Cardinality(calls) = Cardinality(got)
       /\ Cardinality(calls) <= asked
       /\ \A c \in calls : AgentOf[c] = a
       /\ \A c \in SentTo(a) \ calls :
            /\ Cardinality(calls) = asked
            /\ \A d \in calls : SentBefore(c, d)
=============================================================================
