# Verification of a2a-platform

TLA+ models of the A2A host: a Go process that keeps a registry of agents, sends
messages to them over HTTP, and records tasks, messages and traces in SQLite.
Paths below are relative to `src/`.

```
cd tla
tlc -workers 4 -config MCRegistry_safety.cfg MCRegistry.tla     # any run of PROJECT.json
tlapm RegistryProofs.tla                                         # proofs
```

## The system

```
 client ──HTTP──> handler ──> Registry ──> agents (SQLite)      ──> agent: GET card
                     │           │ map name -> connection
                     │           v getClient
                     ├──> MessageBus ──> tasks, messages (SQLite)
                     │        │  └─────> Tracer ──> trace_events (SQLite)
                     │        └──> a2a.Client ──> agent: POST, SSE reply
                     └──> Proxy ──> agent
```

| Component | Source | State | Operations |
|---|---|---|---|
| Registry | `internal/registry` | `connections`, a map under an RWMutex | ConnectByURL, Disconnect, DeleteAgent, ListAgents, UpsertAgent, GetClient, GetAgent |
| Agent repository | `internal/repository/agent_repo.go` | table `agents`, `name` unique | Upsert, UpdateStatus, Delete, List, GetByName, Create |
| Message bus | `internal/messagebus` | none of its own; locals of a call | Send, SendStreaming, CreateTask |
| Task, message, trace repositories | `internal/repository` | tables `tasks`, `messages`, `trace_events` | Create, UpdateState, Record, queries |
| Tracer | `internal/tracer` | none | Record..., GetTimeline, GetDebugTrace, GetRecentByAgent |
| A2A client, SSE parser | `pkg/a2a` | none | FetchAgentCard, SendStreamingMessage, ParseSSEStream |
| HTTP handlers | `internal/handler` | none | ten routes (`helper.go:27`) |
| Proxy | `internal/handler/proxy.go` | none | forwards a request and streams the answer |
| Service context | `internal/svc` | owns all of the above | start |
| Tool calls | `internal/messagebus/tools.go` | none | builds JSON answers |
| Host command | `cmd/host` | none | start |
| Fake agent, LLM agent | `e2e` | a test double; an agent that calls agents | |

Interactions. Each HTTP request is a goroutine; the registry's mutex is the only
lock, and it guards the map alone. The registry calls the agent (card) and the table.
The message bus reaches the registry through the callback set in
`svc/servicecontext.go:59`, and calls the client it gets without a lock. An LLM agent
calls the host again from inside a call (`e2e/llm_agent/main.go:400`).

What is hard here:

- an agent lives in two copies, row and connection, written in two steps by concurrent
  requests, and only the row survives a restart;
- nothing is transactional: a call of the bus makes up to a dozen writes, most errors
  are dropped (`_ =`), and the process may stop between any two;
- an agent's reply is replayed only once it is complete, and its events come in any
  order and any form;
- `Upsert` re-fetches by `LastInsertId`, which belongs to a pooled connection;
- retries with back-off, a 30 s server timeout around a 60 s client timeout, and calls
  nested through the host.

What makes each part correct:

- *Registry*: row and connection agree after a change of the agent that ran alone and
  succeeded; listings miss nobody; requests end.
- *Message bus*: a call ends; its task, messages and trace say what the caller was told;
  the rows tell one exchange in order; the response text is the right one.
- *Tracer*: a timeline is the order in which things happened; recent events of an agent
  are its last calls.
- *SSE parser*: the events returned are those of the stream, whole.
- *Proxy*: what the client takes for the whole reply is the whole reply.
- *Host*: a chat goes where the registry promised, its caller is told what the tables say,
  and it is carried to its end whoever leaves.

`PROJECT.json` lists every hazard at its line, with the properties that watch it. Where a property
says nothing while the bad state lasts, or leaves the case out, a note says so.

## Modules

| Module | Models | Proofs |
|---|---|---|
| `Registry` | registry and table `agents`, goroutines interleaved | `RegistryProofs` |
| `MessageBus` | `SendStreaming`, write by write | `MessageBusProofs`, `OutcomeProofs`, `PrecedenceProofs` |
| `TaskLedger` | what a call promises, without its writes: `MessageBus` implements it | `LedgerProofs` |
| `Host` | `Registry` and `MessageBus` behind `POST /api/chat`: one process with its timeout and restarts | `HostProofs` |
| `SSE` | the reply as the A2A client reads it, line by line, against a reference | `ProxyProofs` |
| `Proxy` | `SSE` behind `ProxyAgent`, which copies the agent's body | `ProxyProofs` |
| `Tracer` | readers of the bus's tables beside its writers, under a one-second clock | `TracerProofs` |
| `MCRegistry`, `MCMessageBus`, `MCHost`, `MCSSE`, `MCProxy`, `MCTracer` | instances for TLC | |

Composition. `Host` extends `Registry` and instantiates `MessageBus` (`Bus!`); the two share
the number of restarts, and a chat is the step that reads the map of one and starts a call
of the other. `Tracer` extends `MessageBus`, `Proxy` extends `SSE`. `MessageBus` takes the
outcome of `SSE` as its inputs: `AgentAnswers` with the events of a reply that was read to
its end, or `AgentFails` without any. `MessageBus!ImplementsLedger` instantiates `TaskLedger`
with a refinement mapping.

### Registry

One process is one goroutine. `pc` says where it stands, `job` holds the arguments and
locals of its request, `listing` the rows `ListAgents` has read. The mutex is held for
single statements on the map, so that the map access is one atomic action, and every
database call is another.

| Action | Code |
|---|---|
| `ConnectStart`, `FetchOk`, `FetchFail`, `Wake` | handler, card, retry loop (`registry.go:61-90`) |
| `ConnectUpsert`, `ConnectUpsertFail`, `UpsertExec` | `registry.go:108`, `agent_repo.go:119-142` |
| `Refetch`, `RefetchFail` | `agent_repo.go:144-168` |
| `Store` | `registry.go:121-123` |
| `Disconnect`, `DeleteAgent` (`DropConn`), then `MarkDisconnected`, `MarkFail`, `DeleteRow`, `DeleteFail` | `registry.go:129-135, 191-201` |
| `ListRead`, `ListCut`, `ListFail` | the query and its rows: all of them, some, or an error (`agent_repo.go:82-117`) |
| `Overlay`, `ListReturn` | `registry.go:155-179` |
| `UpsertAgent`, `UpsertAgentFail`, `UpsertAgentReturn` | `registry.go:182-188` |
| `OtherTraffic` | inserts into other tables, turnover of the pool (external) |
| `Restart` | the process stops and starts again (`servicecontext.go:32-78`) |

The routes of the host call ConnectByURL, DeleteAgent and ListAgents; Disconnect and
UpsertAgent are called by tests only (`registry_test.go`, `e2e/test_helper.go`), and are
modelled as the package's operations they are. A version stands for everything a card
carries besides its name.

`lastRowid`. SQLite keeps `last_insert_rowid` per connection; an
`INSERT ... ON CONFLICT DO UPDATE` that updates leaves it alone. `database/sql` hands
any pooled connection to any statement, and inserts into the other tables move the value
too. So `lastRowid[c]` is what `LastInsertId` returns after `Upsert` ran on `c`, and
`OtherTraffic` sets it to any id: after an update, the re-fetch looks for
a row by an id that need not be its own.

`ListCut`. The loop over the rows ends when `rows.Next()` is false, at the end of the table or at an
error, and `rows.Err()` is not asked: what was read so far is returned as the list. `created_at`, by
which the rows are ordered, is not in the model, and stamps of one second or of a clock that was set
back leave any order possible, so the rows read are any of them but all.

History. `clean[p]` says that no other request has been between its two steps on the
same agent while `p` was; `settled[n]` says what the last change of `n` promised, or
`"torn"` when it overlapped or failed, or was an `UpsertAgent`, which writes the row
alone; `stable[p]` holds the agents that are in both copies since `p` began to list, and
`cut[p]` says that `p` does not have all rows. No guard reads them.

### MessageBus

One call of `SendStreaming` is one element of `Calls`; its place between two writes is
`pc`, its local variables are `loc`. A task has a fresh UUID that no other call uses, so
`tasks`, `messages` and `trace` are indexed by call. `loc.state` is `task.State`, which
the caller gets back, and is not the row.

| Action | Code (`messagebus.go`) |
|---|---|
| `Lookup`, `CreateTask`, `RecordUserMessage`, `RecordSend` | 87-112 |
| `AgentAnswers`, `AgentFails` | 114, and `pkg/a2a/client.go:47-86` |
| `RecordError`, `FailTask` | 115-119 |
| `TaskEvent`, `TaskEventUpdate` | 129-155 |
| `StatusEvent`, `StatusTrace` | 157-179 |
| `ArtifactPart`, `ArtifactEnd` | 181-202 |
| `MessagePart`, `MessageEnd` | 204-225 |
| `UnknownEvent`, `SkipEvent` | 227-232, and events without effect |
| `LoopEnd`, `Respond`, `RecordAgentMessage`, `RecordResponse` | 235-259 |
| `Crash` | the process stops; no code takes a task up again |

An event is its kind, a state, a context id and the texts of its parts; a `garbled` event
is of a known type and has data that does not decode. A write that fails is one that has
no effect and whose error the code drops; where it looks at the error (`CreateTask`,
`RecordUserMessage`) insertion and success are chosen separately, because both `Create`
functions insert and then re-read. `lost` is a history variable: the kinds of write
that failed in the call.

### SSE

One reply of an agent, from its header on. `wire` holds the lines the agent has written,
`pos` counts those the scanner has taken, `dataLines` and `events` are the variables of
`ParseSSEStream`. Agent, network and client interleave line by line: the connection breaks
(`Finish("broken")`) and the client's 60 seconds end (`GiveUp`) after any of them. What a text
decodes to is the constant `Envelope`; a line cut in the middle is a line with another
text, which the scanner does hand out.

The reference the parser is compared with does not run: `DataLines` are the positions of the data
lines since the last blank one, `Gathered` their texts in order, `Ends` the blank lines before
which they decode, and `EventsOf` the events of those. It counts positions of the whole stream where
the parser appends to what it has.

| Action | Code (`pkg/a2a`) |
|---|---|
| `ScanData`, `ScanBlank`, `ScanOther` | `sse.go:17-29` |
| `ScanTooLong`, `ScanEnd` | `sse.go:30`: `scanner.Err()` |
| `Refused`, `GiveUp`, `WrapBody` | `client.go:67-75`, 22, 80-85 |
| `Write`, `Finish` | the agent, and the network |

### TaskLedger

The state is what a client of the host can compare: the row of the task, where the call
stands, and the set of texts that the copies of the response have, in `messages`, in
`trace_events` and in the events returned to the caller. `MayLose` says whether writes may
be lost. A step of `MessageBus` is one of these or a stutter:

| Ledger | Bus |
|---|---|
| `Refuse`, `Open`, `Abort` | `Lookup`, `CreateTask`, `RecordUserMessage` and their failures |
| `Ask` | `RecordSend` |
| `Move` | `StatusEvent` (a task event leaves the row alone) |
| `Respond`, `Publish`, `Return` | `Respond`, `RecordAgentMessage`, `RecordResponse` |
| `Fail`, `Stop` | `FailTask`, `Crash` |

### Host

| Action | Code |
|---|---|
| `Invalid` | `chat.go:14-27` |
| `Chat` | `messagebus.go:87-90`, `servicecontext.go:59-65`: one lookup under the lock |
| `Serve` | a step of `MessageBus` for this call |
| `Answer` | `chat.go:38-67`: the events, or one error event |
| `Abandon` | 503 by go-zero's timeout handler (`etc/host.yaml:5`), or the caller leaves (external) |
| `Manage`, `Insert` | a step of `Registry`; inserts on the pooled connections |
| `HostRestart` | `Restart` of the registry and `Crash` of the bus, together |

Nothing that `SendStreaming` calls takes the request's context, so `Abandon` changes what the
caller has been told and nothing else. The contexts of chats and failures of the bus's
own writes are left out here: `bus_faults` has them.

### Tracer

`created` has the stamp of every row, `clock` is the clock they are taken from, and `Write`
is any step of the bus. A timeline is any order of the rows of a task that is sorted by
their stamps, since `ORDER BY created_at` says nothing about rows of one second. `seen`
is the last timeline somebody read. `GetRecentByAgent` and the list of tasks are
operators: they are evaluated in every state.

### Proxy

`upstream` is the agent's body, `wire` the body of the host's answer, which the client of `SSE`
reads. `Lookup`, `Answer`, `Reject`, `Copy`, `CopyEnd` are `proxy.go:26-119`; `Read` may return the
end of the body with the last of its data (`Copy(TRUE)`) or alone. When the handler
returns, net/http ends the answer properly unless it was promised more bytes
(`sized`). The A2A client asks for an event stream, for which go-zero's
timeout handler stands aside, so the proxy has no `Abandon`.

## Runs

| Run | Instance | Checks |
|---|---|---|
| `registry_safety` | 3 goroutines, 3 requests to register, remove or list, 3 names, 2 URLs, 2 versions, 1 restart, database failures | `TypeOK`, `Agreement`, `ListComplete` |
| `registry_live` | 2 goroutines, 4 requests, all operations on 1 agent, 3 attempts, 1 restart, database failures | `RequestsReturn` |
| `bus_faults` | 1 call, replies of up to 2 events of 11 sorts, any write may fail, 1 crash | `TypeOK`, `Outcome`, `TraceShape`, `StatusChain`, `ImplementsLedger` |
| `bus_texts` | 1 call, replies of up to 3 of 8 events, no faults | `ResponsePrecedence`, `TaskCloses`, `ImplementsLedger` |
| `host_chat` | 1 chat beside 2 goroutines with 2 registry requests, 2 URLs, database failures, 1 restart | `HostTypeOK`, `Told`, `Routed`, `ChatsEnd` |
| `trace_readers` | 2 calls to one of 2 agents, a clock of 3 seconds that is set back once | `TracerTypeOK`, `SeenClosed`, `RecentCalls`, `Followed` |
| `proxy_stream` | streams of up to 4 lines, ended or broken off anywhere | `ProxyTypeOK`, `Parsed`, `Whole`, `Proxied`, `ProxyReturns` |
| `registry_ghost`, `registry_reconnect`, `registry_crosscheck`, `proxy_cut`, `sse_plain` | the smallest that show it | findings, below |

Why the bounds are enough. *Registry.* A disagreement needs two requests on one agent, a
third to be the one that follows and repairs; a second agent and URL tell the copies of
agents and registrations apart; `MaxRowId` 2 lets `LastInsertId` hit a row, another row,
or none. One pooled connection suffices, because `OtherTraffic` gives it any id: a second
one adds no outcome. `RetryMax` is 1 where the retry is not in question and 3, the shipped value,
in `registry_live`. `ListComplete` is about one listing: three requests leave room for two
changes before it, within it or across its beginning, and two agents for a listing that has the row of
one only. `UpsertAgent` is in `registry_live` only, since `Agreement` promises nothing of its agent, and the
status it writes is one that a listing meets as well after a late `UpdateStatus`.
*MessageBus.* Calls share no row, so one call is enough; two events have
every pair of branches one after the other, with a crash or a lost write anywhere, and three
let texts compete on both sides of a third. *Host.* A chat reads the registry once, so two
changes are enough for it to fall before, between and inside them, or after one that failed
half way; two URLs tell the registrations apart. *Tracer.* Two calls are enough for a limit of
one to leave a call out, and three seconds for a second that is over, the one in which a reader
reads, and one after. The ten rows of the default limit are not reached: what the run
shows of it is that a limit of zero does not return nothing. *SSE, Proxy.* Four lines hold
an event on two lines, its blank line, and one more event; the breaks fall after any of them.
All of these bounds are for TLC only: the proofs (below) hold for every value of them, and so for
streams, traces and replies of any length.

`Symmetry` exchanges goroutines, or calls to the same agent, in safety runs only. Runs of the
bus, the host, the client and the proxy switch deadlock checking off, since a call that has
returned does nothing more; in the registry runs `OtherTraffic` is always possible.

Fairness. It is always that of goroutines in the middle of something, never of clients,
agents, restarts or clocks.

- `Registry!FairSpec`: a request goes on (weakly fair `Continue`): the scheduler runs it,
  `FetchAgentCard` ends after at most 60 seconds (`client.go:22`), sleeps end, SQLite answers or fails.
- `MessageBus!FairSpec`: a call goes on, and the call to the agent ends, for the same reasons.
- `Host!HostFairSpec`: the same of the call of a chat (`Serve`), and of the handler that
  answers once it has returned (`Answer`). Nothing is assumed of the registry's requests:
  no chat waits for one.
- `Proxy!ProxyFairSpec`: the handler goes on when `Read` has something to return. An agent
  need not end its body, so `ProxyReturns` speaks of bodies that are over.

## Properties

- `Registry!Agreement`: a registration, Disconnect or DeleteAgent that meets no other change of its
  agent, fails nowhere and is not cut off by a restart leaves both copies saying what it
  promises, whatever they said before, until the next change. It says nothing of an agent whose last
  change overlapped another or failed, or was an `UpsertAgent`: that writes the row alone, so that the
  copies differ even when it succeeds. It is thus about the repair of such states, and does
  not exclude them.
- `Registry!ListComplete`: an agent that is in both copies from the beginning of a listing
  to its end is in the list unless reading the rows broke off, and if it is, then as connected,
  whatever its row says.
- `Registry!RequestsReturn`: every request returns. The mutex is taken and released within a step:
  waiting for it is not modelled.
- `MessageBus!Outcome`: what the caller is told is what the tables say, unless a write was
  lost.
- `MessageBus!TraceShape`: send first, response or error last, nothing but send before an
  error, whatever is lost.
- `MessageBus!StatusChain`: the status updates form a chain from SUBMITTED to the state of
  the call, and the row does not lag behind unless a write of it failed.
- `MessageBus!ResponsePrecedence`: the last text of any message, or the first text of any
  artifact, or `(empty)`.
- `MessageBus!ImplementsLedger`: one task per call, moved only while the agent is asked,
  closed once and before the caller is told; copies of the response may be missing, but
  no two differ.
- `MessageBus!TaskCloses`: a call that opened a task returns, and without faults its task is closed then.
- `Host!Routed`: a chat goes to the URL in the row if the last change of its agent, run alone, was
  a registration, and is refused if it was a removal.
- `Host!Told`: no caller gets events of a task that is not RESPONDED, or an error of one that is not
  in ERROR, and one whose call a restart cut off was told nothing.
- `Host!ChatsEnd`: every chat is answered, and its task closed even when its caller got 503 or
  left, unless the host restarts.
- `Tracer!Followed`: a later timeline contains an earlier one, and what is new comes after the
  rows of the seconds that were over then, unless the clock was set back in between.
- `Tracer!SeenClosed`: who has seen a response in a trace finds its task among the RESPONDED ones.
- `Tracer!RecentCalls`: the recent events of an agent are calls to it, each once and no more than were
  asked for; one that was sent is left out only if there are that many others, all sent later.
- `SSE!Parsed`: at any time the events are those of the lines taken, none lost, repeated, or made of
  the lines of two.
- `SSE!Whole`: a stream is returned without an error only if it was ended, and then with
  all its events.
- `Proxy!Proxied`: the same of a stream through the host, as far as the host can tell.
- `Proxy!ProxyReturns`: when the agent's body is over the handler returns.

Each has, in its module or in one it builds on, a mutant of a definition that breaks it
(`PROJECT.json`, `mutants`).

## Findings

| Run | The code | What is said of it |
|---|---|---|
| `registry_ghost` | a deletion between the upsert and the store of a registration leaves a connection without a row: unlisted, still served | `registry.go:190` |
| `registry_reconnect` | registering a known agent again returns an error after its row was overwritten, and leaves the old connection, because `LastInsertId` is not the row's id after an update | `registry_test.go:176`, `agent_repo.go:144` |
| `registry_crosscheck` | rows left as connected by an earlier process are listed as connected | design, line 104 |
| `proxy_cut` | a stream that the agent breaks off reaches the client as a shorter stream that ended well, because an error of `Read` ends the copy as its end does | design, line 127 |
| `sse_plain` | a reply that is no event stream and breaks off is returned as a success with what had come of it, because the error of `ReadAll` is dropped | `client.go:46` |

(`design` is `docs/superpowers/specs/2026-05-14-a2a-platform-design.md`.)

Differences between documents and code that a reader sees without a model:

- contexts are not continued: a second message in a context opens a second task (design, line
  113; `e2e/messaging_test.go:345`). `MessageBus!Lookup` takes a context and only passes it on;
- the proxy is routed for `/agent/:name` alone, so that no path suffix reaches it (design,
  line 130);
- `ListAgents` "returns all agents from the database" (`registry.go:153`) and `GET /api/agents` "a JSON list
  of all registered agents" (`handler/agents.go:11`), but when the database fails in the middle of the
  rows both return the agents read so far, as a success (`agent_repo.go:93-116`; `Registry!ListCut`), and
  when it fails before, none;
- three attempts have two delays between them, so the 4 s of "1s→2s→4s" are never slept (design,
  line 106; `registry.go:72`);
- "the most recent trace events for an agent" (`tracer.go:108`) are its send rows, the only ones that
  carry a name (`Tracer!HasAgentName`);
- the tool `send_to_agent` answers "queued" and names a route that the host does not serve
  (`tools.go:84-87`).

## Proofs

For every value of the constants under the named assumptions. `RegistryAssumption`: a URL is a
possible name, the null values are not values, `RetryMax` is positive (`NewWithRetry` sees to
it). `MessageBusAssumption`: the empty string is a possible text, context id and state, and the
events of the instance are events. `HostAssumption`: the same for the bus of the host.
`SSEAssumption`: `Envelope` is defined on sequences of texts, and not on the empty one, which is no
JSON. `TracerAssumption`: every call has an agent, limits are integers, the two bounds are numbers.

`RegistryProofs`

- `TypeCorrect`: `TypeOK` is inductive; one lemma per group of actions.
- `AgreementCorrect`, `ListCompleteCorrect`. Neither property is inductive. `Agreement`
  speaks of the moment at which nobody is in a window (between the two writes of a
  change), so the invariant must say what a request that is in its window has already
  achieved: `WindowInv(p)` says that if `p` is clean then no one else is in a window on its
  agent, and the copy `p` wrote first holds what it wrote. `OpenStep`, `CloseStep` and `AsideStep` show
  once that a step which opens a window, closes one, or does neither preserves
  `WindowInv` and `Agreement`; every action is one of the three. `ListInv(p)` adds that
  the agents in `stable[p]` still have a connection, and a row in what `p` holds unless `cut[p]`.
  `Invariance` proves the conjunction `IInv`.

`MessageBusProofs`

- `TypeCorrect`: `TypeOK` is inductive.
- `TraceShapeCorrect`. That appending a response keeps the shape depends on where the call
  stands, so `ShapeInv` adds what a trace can hold at each place: nothing before the send, at most a
  send while the agent works, no closing row until the call closes. `ShapeStep` sorts the
  actions into those that write no row and those that may write one.

`OutcomeProofs`, `PrecedenceProofs`

- `OutcomeCorrect`. `Outcome` speaks of calls that have returned; `Kept(c)` says what the three tables
  hold at each place before that. It holds only as long as no write was lost, and `lost` only
  grows, so `KeptInv(c) == lost[c] = {} => Kept(c)` is inductive.
- `StatusChainCorrect`. `AppendChain` is the lemma about sequences: an update that starts where
  the chain ends extends it. `ChainInv(c)` adds that the chain ends in `task.State` while the call is
  open, and that the row equals it except between the write of an update and its trace.
- `PrecedenceCorrect`. `Prefers(events, p, q, text)` generalises the property from a whole reply to the
  part of it that lies before part `q` of event `p`. The lemmas `PrefersStart`, `PrefersMessage`,
  `PrefersArtifact`, `PrefersNext` and `PrefersEnd` take it through the loop, one step each; no
  induction over the reply is needed, because the loop is the induction.

`LedgerProofs`

- `LedgerImplemented`: `Spec => ImplementsLedger`. `Point(c)` is a step of the ledger as one call sees it, and
  `Lift` makes a step of `TaskLedger` of it when the other calls are left alone. That no two copies
  differ needs `CopyInv(c)`: before the response there are no copies, and while it is published every
  copy is `loc[c].text`. Every action is then shown to be a `Point` or a stutter.

`HostProofs`

- `HostRunsRegistry`, `HostRunsBus`: the host implements both of its components, so that all
  that is proved of them holds in it; `Agreement` and both type invariants are taken over that way.
- `HostTypeCorrect`, `ToldCorrect`. `Told` reads the tables off the place where a call ended, so
  `TableInv(c)` says what they hold at the places where a call ends and at those that lead there,
  and `ChatInv(c)` at which places a call can be for each answer: in particular, a call whose caller has left
  goes on working.
- `RoutedCorrect`: a chat is opened by `Chat` only, and `Agreement` in the state before says what the lookup finds.

`TracerProofs`

- `TracerRunsBus`: `TracerSpec => Spec`, so that what is proved of the bus holds beside its readers.
- `TracerTypeCorrect`, `SeenClosedCorrect`, `RecentCallsCorrect`, `FollowedCorrect`. None of the last three is
  inductive. `TracerInv` has two parts. `Tables`: rows of a trace and their stamps correspond; a
  call that has sent is in `named`, and only once; a response in a trace means that the call has
  returned, and the row of a call that was answered is RESPONDED unless that write was lost. `View`: what was seen lists the first
  `n` rows of a trace for some `n`, in the order of their stamps, and every later row has a stamp that
  is not before the time of reading, unless the clock was set back since.
  A step of the bus enters through `BusStep(c)`, which says what it does to the trace of `c` (no
  row, or one at its end) and where the call then stands; `BusSend`, `BusReplay` and `BusClose` show that every
  action is such a step. The rest is counting. `LeftOut`: whoever is missing among the latest `k` of a set
  has `k` after him. `LaterThanRest`, `NoMoreThanAsked`: those `k` are later than all others, and not more
  than `k`. `BeginsWithPast`: however the rows of one second are ordered, a sorted list begins with
  the rows of earlier seconds, so that two lists of the same past agree on it.

`ProxyProofs`

- `StreamTypeCorrect`, `ParsedCorrect`, `WholeCorrect`. The events of the lines taken, recomputed from all of
  them, must be one step's work more than before. `OneMore` does it for sets of positions: what `InOrder`
  lists of a set to which a greater position is added is what it listed before, and that position. `GatheredNext`
  and `EventsNext` lift it to the data lines and the events; `StreamInv` adds to `Parsed` that `dataLines`
  is `Gathered` at the next line. `SameLines`: lines that the agent adds later do not change what was parsed.
- `ProxyTypeCorrect`, `ProxyParses`, `ProxiedCorrect`. `StreamInv` is proved for a client of any peer that only
  appends lines and ends its stream once (`Arrives`): an agent does, and so does the host, whose `Copy` does
  both in one step, which no step of `SSE` does. `CopyInv` adds that `wire` is the
  beginning of `upstream`, all of it when the handler has returned from a copy, and that if the
  length of the body was announced, an answer that ends well has a body that did.

An induction over data with the rule of the library would need an operator as a parameter, which
the prover does not take. Where a proof about sets of positions needs an induction it goes by the least
position that fails (`Least`, `Greatest`, in `TracerProofs`), or is stated as one step of an
invariant.

Model-checked only: the liveness properties `RequestsReturn`, `TaskCloses`, `ChatsEnd` and
`ProxyReturns`, since the prover has no rules for `ENABLED` and fairness. Every invariant and every
action property of a run without findings is a theorem. The findings are counterexamples of TLC.

## Not modelled

- lengths of delays and timeouts: a timeout may fall at any time, a delay ends some time;
- queries that fail half-way in the task list, the timelines and the recent events, which return the rows so
  far like `ListCut` does (`task_repo.go:128-142`, `trace_repo.go:72-84, 121-133`): the readers of `Tracer` are read
  without failures;
- the contents of cards, messages and errors beyond what the properties tell apart; JSON of the handlers;
- the proxy's header filter, query string and version header: they decide nothing that a
  property is about;
- `internal/messagebus/tools.go`: `HandleToolCall` computes a JSON text from its arguments and is called by
  tests only;
- `e2e/fake_agent`, a test double, and `e2e/llm_agent`, a program outside the host that is an agent and a
  caller of the chat route. Agents that call each other through the host wait for each other until
  a client's time is up: in `Host` such a call is one to an agent that answers late or not at all;
- flags, logging and the listening socket; the parsing of the configuration;
- corruption or loss of the database file: a committed row stays.

## Plan

What is left: agents that call agents through the host (`e2e/llm_agent/main.go:400`), where two calls wait for
each other until a client's time is up, for which `Host` would need the call to the agent as a state of the
agent. An abstract directory that `Registry` refines was considered and left out: what it could promise of
an agent between two changes is `Agreement`, and of a lookup is `Routed`.
