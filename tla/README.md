# A TLA+ model of the vxcloud SDK

The repository is a client SDK in five languages (Go at the root, `python/`, `typescript/`, `java/`,
`cpp/`) for one wire contract. A **control plane** (`api.vxcloud.io`) exchanges API keys for access
tokens, keeps the account's node records and runs SalesShift, a lead pool with a metered allowance.
One **node** per tenant runs deployments, sessions, services, agents and the email worker. The SDK is
a thin layer of resource methods over a transport that retries, refreshes credentials and picks a
base URL. Its state and its concurrency are in that transport, in node discovery, in the metered lead
calls and in the loops that walk, wait and stream; they are modelled action by action. The resource methods
of the Go client are modelled as tables of operations and one machine that runs them.

Contents: [inventory](#inventory) · [modules](#modules-and-their-code) · [runs](#runs) ·
[fairness](#fairness) · [proofs](#proofs) · [divergences](#where-the-text-and-the-code-differ) ·
[not modelled](#what-is-not-modelled) · [plan](#plan)

## Inventory

| Component | State it keeps | Operations | What is hard |
|---|---|---|---|
| Go transport (`transport/`, `errors/`) | per call: loop variable, `refreshed`, `lastErr` | `JSONWithHeaders`, `MultipartWithHeaders`, `BytesWithHeaders`, `StreamJSON` | the refresh inside a counted loop; lost answers; cancelled contexts |
| Go client (`client.go`, `internal/cred`, `auth/exchange.go`) | access token, API key, username, node URL behind an `RWMutex` | `Authenticate`, `refresh`, the credential accessors | concurrent exchanges whose answers are stored in any order; three accessors per request |
| TypeScript transport (`transport.ts`, `auth.ts`, `errors.ts`) | token, `inflightRefresh`, per call: attempts, signal | `send`, `getBlob`, `stream`, `refreshJwt` | callers joining one exchange; deadlines and aborts in every waiting place |
| Python `Client`, `AsyncClient` | token; a `threading.Lock` held to read and store, an `asyncio.Lock` held across the exchange | `_do`, `_json`, `_stream`, `_refresh`, `authenticate` | threads that exchange at once; task cancellation under the lock; headers built once per call |
| Node discovery (all languages) | node URL, `nodeUrlPending` or a monitor | `ensureNodeUrl`, `setNodeURL`, node-scoped calls | sharing a lookup; a listing that changes; parsing by text scan in Java and C++ |
| Lead reveals and conversions (`salesshift/leads.go`) | none in the client; pool, meter, ownership, Contacts at the server | `RevealLeads`, `RevealLead`, `RevealQuota`, `ConvertFromPool`, `RequestErasure` | money: a reveal is spent even when its answer is lost; a shared meter; repeated ids; 402 in mid-batch |
| Lead walk (Go, TypeScript, Python, asyncio) | a cursor, the cursors seen, the ordering to name | `WalkLeads`, `SearchAllLeads`, `searchAllLeads`, `search_all_leads` | a server that repeats a cursor, sends empty pages, or serves a page from a store with another ordering |
| Job pollers | a deadline; in TypeScript and Python the job object | `waitForJob`, `waitForCompletion`, `wait_for_completion`, `wait_ready`, `wait_for_campaign` | deadline against late answer; several waiters that update one object |
| Chat streams (Go) | a goroutine, the name of the next event | `streamEvents` behind `StreamAgent`, `StreamWorkflow` | a body cut anywhere, lines that are too long, a caller that stops receiving |
| Resource methods (Go packages, TypeScript and Python classes) | none between calls, but for a copy of the username | one request each, `Restart` two | missing ids, repeated requests, failures inside a 2xx, what arrives late |
| Java and C++ clients | token, username, node URL | the same contract, synchronous | the text-scanning JSON helpers |

How they interact: an application's tasks or threads share one client. A resource method resolves
the node when it is node-scoped (not all do), then makes one call through the transport. The transport
reads the credential state, sends, and on a 401 calls back into the client, which exchanges the API key at
the control plane and stores the token for everyone. A bulk reveal is a sequence of such calls, each
retried on its own, against a meter that other clients of the organisation also spend from.

What makes each correct: a call ends, is transmitted a bounded number of times, spends at most one
exchange, never replays a refused credential and reports success only when the server acted
(transports); callers of one client agree on the node, and a lookup is neither repeated nor lost
(discovery); nothing is charged silently and nobody is missing from a report (leads); a walk visits each page
once and does not end quietly before the last (walks); a wait ends, with a state the job was in or with
the deadline (pollers); a stream that closes without an error is whole (streams); and the operation called
for is done, nothing else, and a nil error says so (resource methods).

`PROJECT.json` lists every component with its sources, and under `hazards` the lines at which these can
go wrong, with the properties that cover each or the reason why none does. Smaller ones that no model
reaches: a JSON body that does not parse is a success without data in TypeScript (`transport.ts:326`);
`auth_user_id` of Python, called too early, caches an empty id for good (`vxsdk.py:5792`).

## Modules and their code

```
WireContract   <-- refinement --  GoTransport   --  MCGoTransport,   GoTransportProofs
               <-- refinement --  TsTransport   --  MCTsTransport,   TsTransportProofs
               <-- refinement --  PyTransport   --  MCPyTransport,   PyTransportProofs
NodeDiscovery                                   --  MCNodeDiscovery, NodeDiscoveryProofs
Leads                                           --  MCLeads,         LeadsProofs
LeadWalk                                        --                   LeadWalkProofs
ChatStream, JobWait                             --                   WaitingProofs
OperationTypes <-- AgentControlOps, NodeOps, ControlPlaneOps
               <-- Operations                   --  MCOperations,    OperationsProofs
```

**WireContract** is the abstract specification of one call: `Begin`, `Send` (at most `Budget` times),
`Effect` (never more effects than transmissions, possibly after the call has returned), `Exchange` (at
most one) and `Return` (success only after an effect). `NodeDiscovery` and `Leads` rest on it: a
lookup or a metered request is, there, a call that is transmitted at most so often and returns.

**GoTransport** models `transport/transport.go` and `transport/multipart.go` over the credential
state of `client.go`. Actors are calls (JSON, multipart, bytes, stream) and direct `Authenticate`s.
Every lock-protected section of `client.go` is one action; the round trip, the sleep and the exchange
are not, so other actors run between `LoadCredentials` (token and key headers) and `Transmit`
(username header), between a 401 and the store of the new token (`BeginRefresh`, `IssueToken`,
`StoreToken`), and so on. The attempt loop is `attempt`, `refreshed`, `lastErr` as in the code: the replay after a
refresh is a `continue`, which counts. The network is `Receive`, `LoseRequest`, `LoseReply` and
`LateExecute`: a request may be lost before or after it was acted upon, or acted upon after the client has
given up. Tokens are numbered as issued and expire oldest first.

**TsTransport** models `transport.ts`: `send` with its deadline and one `didRefresh`, `getBlob`, and
`stream`; the exchange is shared (`Joins`, `Party`): whoever finds `inflightRefresh` set waits for it,
and store, clearing and waking happen in the one microtask step they take in the code. JavaScript runs one
task at a time, so an action is what runs between two `await`s. `signal` says which of the call's signals
has fired: `Deadline` is the timer of `send`, `CallerAborts` the application. A signal that was aborted
before the call (`"early"`) is only listened to, never looked at: nothing fires, and the request is sent.

**PyTransport** models the request core of `vxsdk.py` and `vxsdk_async.py` in one module; `async` is
chosen in `Init`. A threaded client locks only to read and to store; an asyncio client holds its lock
through the exchange, and `CancelTask` raises `CancelledError` where a task awaits. `hdr` is built
once per call and updated after a refresh, as `_do` does. An exchange may answer 200 without a
token, which the code stores (`tokenless` records that it happened).

**NodeDiscovery** puts the discovery of the five clients side by side as four designs, `sdk`: a shared
promise (TypeScript), unlocked lookups (Python), a monitor (Java; the C++ client is the same code on
one thread), and no discovery (Go; also `AsyncClient`). `PickRecord` is the choice of record and
address of the parsing clients, `PickScan` the text scan of the Java and C++ clients, from the record
to the end of the listing; `AddressOf` adds the fourth field that only TypeScript falls back to. `Direct` callers use methods that do not resolve the node. `Relist` changes the
account's nodes, `SetNodeURL` is the application's switch. Simplifications: a record is flat (a
nested object before the default flag is not modelled), keys are absent or strings (no JSON null), the
response is the bare list, the `https://` prefix and the trailing slash are left out.

**Leads** models `RevealLeads`, one metered request per id after a pre-flight of the allowance, and
`ConvertFromPool`, one request that reveals and converts. `Arrive`, `ServeReveal`, `ServeConvert` and `LateServe`
are the server, which is outside the repository and modelled from what `leads.go` says of it: an owned row is
free, a reveal that finds the meter empty is answered 402, an erased row 410, an unknown row 404, and a
conversion serves its ids one by one. `Retransmit` stands for the transport's loop, `Budget` for its
transmissions. Ids are positions in the caller's list, so `DedupeIDs` is modelled by what it keeps.
Simplifications: every pool row has an address, the allowance does not roll over to a new
period, and the pre-flight's request and its comparison are one action (other spenders act before and after
it).

**LeadWalk** is one walk of any of the four clients (`kind`). A page stands for its rows, a cursor is a
place in an ordering. The server may change the store that serves (`Outage`) and with it the ordering (`Applied`),
repeat a cursor it has sent (`fault = "stuck"`) or send an empty page with a cursor (`"gap"`); a cursor read under
the wrong ordering continues anywhere. `GoOn` is the end of the loop body: `Pin` is the ordering the next
request names, `AtEnd`, `Remembered` and `EndsQuietly` are where the four clients differ. `maxItems` and the
caller's `visit` are `ConsumerStops`.

**JobWait** is the loop of the pollers: poll, judge, sleep. `how` says whether a waiter keeps its answer
in a variable of its own or in the job object it shares (`refresh` updates it in place, so a `Receive` of one
waiter changes what the others judge). `at` is where a waiter is. `Deadline` is the clock, which may pass the deadline between any two
steps, `Cancel` the context of Go. The server moves the job on its own (`Moves`).

**ChatStream** is `streamEvents`: the goroutine (`Scan`, `ScanEnds`), the unbuffered channel (`Take`, `TakeError`) and a
body that a server writes line by line and the network cuts (`Cut`). A line is reduced to what the loop
tells apart; an event to its name, and the one whose `Err` is set to `Failure`. What should be received is
said of the body alone: `EventsIn` counts its data lines, `Pending` is the name an event line left for the next one.

**OperationTypes** says what one method of a Go resource client is, as a record: request, the arguments it refuses to do
without, what the server does, host, transport method, whether the body names the user, whether a failure
may come inside a 2xx, and whether the method reads the answer at all (`via`). **AgentControlOps**, **NodeOps** and **ControlPlaneOps** are the tables: every
method of the Go packages is a row, in the order of the files. **Operations** runs them: an accessor copies the
username (`Take`), a call checks its arguments and begins (`Call`, `Restart`), its transmissions fail, are lost,
are answered, softly or "already" among them (`Transmission`), requests given up on
arrive later (`ServedLate`), and the key is exchanged meanwhile. `Receive` is what becomes of a 2xx: a method that
decodes its body fails when it breaks off in the middle; one that discards it (the deletions, `SetDefault`,
`AddContactNote`), a download and a stream return nil without noticing. The server keeps the one resource the
calls are about; its node URL is an argument to the one method that refuses without it (`GetWorkerHealth`). An id that is missing and not checked leaves the address of a collection (`Instead`).
Simplifications: the credentials of a request are GoTransport's business and left out; bodies are what the row
says of them.

`map` in `PROJECT.json` names, for each definition, the lines it stands for. Each component
module also states its `TypeOK`; where it is not listed in a run it is the first conjunct of an
`IInv` that is, or that is proved.

The definitions whose comment begins "The bug of ..." are not part of the specifications. They are
plausible mistakes, each of which breaks a property when it replaces the definition that follows it
(`mutants` in `PROJECT.json`): they show that the properties constrain the code and not only the model.

## Runs

All passing runs explore their whole state space.

| Run | Instance | What it asks |
|---|---|---|
| `go_calls` | cancellable JSON call to the node, stream, `Authenticate`; a client that starts with its key alone; `MaxRetries` 1; statuses 200, 401, 503 | the call's first request may carry the key and its replay a token, the token may expire at any moment, the call's refresh races the `Authenticate`: the inductive invariant; `nil` only for work done (`NilMeansDone`); a node request that carries a bearer carries neither key nor username (`NodeHeaderDiscipline`); no replay with a refused token (`ReplayUsesAnotherToken`); a 401 is surfaced only after a refresh was tried (`Unauthorized401Tried`); `WireContract`; all return, cancelled or not |
| `ts_calls` | two `send`s; `MaxRetries` 1; statuses 200, 401, 503; deadlines at any moment | one exchange at a time and no orphaned waiter (`SingleFlight`), no replay with a refused token, both settle with **no** assumption on the network, `WireContract` with one transmission more |
| `ts_kinds` | `send`, `getBlob`, `stream`; `MaxRetries` 0; statuses 200, 401; no token at first; each may be aborted before it begins, under way or never | a call whose signal fired under way settles though no server answers (`AbortSettles`) |
| `py_calls` | call, stream, `authenticate`; threaded or asyncio; cancellation; statuses 200, 401, 503 | the inductive invariant (the lock is held exactly by the exchange), no replay with a refused token, a 401 only after a refresh was tried, all return, `WireContract` |
| `py_node_headers` | one node call | *violated*: the replay carries the API key next to the new token |
| `leads_calls` | a batch of 3 ids and a conversion of 4, both with a repeated id, one id unknown; allowance 2; two transmissions per request; one erasure | no silent spend (`SkippedIsNotCharged`), a strict batch falls short only by a race (`ShortfallIsARace`), every person is accounted for once (`AccountsForEveryone`), a conversion reports no reveal it did not spend, and all unless it was sent again (`ReportIsHonest`), both return |
| `node_discovery` | three callers, one of them direct, two calls each; four designs; five listings; one change of listing, one of URL | the inductive invariant (lookups are shared, a given URL wins), callers agree on the node, the default is adopted, every caller returns |
| `node_scan` | one caller of the scanning design | *violated*: a neighbour's domain is adopted |
| `operations` | the whole tables; two calls on one handle, two transmissions each | nothing but the operation called for is done (`OwnOperation`), `nil` means done (`NilIsDone`), the last call's effect stays (`Settled`), "already" and 404 are echoes (`RepetitionIsTold`), nothing is done twice without need (`RepeatedOnlyWhenUnsure`), a restart stops first (`RestartStopsFirst`) |
| `waits` | two waiters of each kind, sharing a job object or not | no wait claims an end that was not reached or times out on one it woke to (`VerdictIsTrue`), every wait returns though the job may never end |
| `walk` | four pages, at most four requests, from the start or a cursor; four clients; changing stores, repeated cursors, empty pages | a walk of Go or Python that ends without an error is whole (`WholeWalkIsComplete`), no page is asked for twice (`NoPageTwice`), a fallback ordering is kept by TypeScript and Python (`FallbackIsKept`) |
| `stream` | bodies of up to four lines, one event name, cut anywhere | events arrive in order, once, under their names, and a channel that closes without an error was whole (`DeliveredInFull`); it closes while the caller receives |

**Why the bounds are enough to be interesting.** The races are between two parties over one
shared value, so two calls plus a login (Go, Python), or two calls of which either may lead the exchange (TypeScript), show every
order of read, exchange and store; `MaxRetries` 1 has a first, a last and, in TypeScript, a replay
attempt beyond the last; a call's own loop does not look at the others, and the theorems hold for every
`MaxRetries`. In `go_calls` a stream never refreshes; two JSON calls that exchange at once take TLC beyond a few
minutes with liveness and refinement, and that race rests on the theorems.
Statuses are one per class the loops tell apart (success, refresh, definitive, retried). In `Leads`
the allowance is smaller than what is asked for, so 402 falls in mid-batch, the two calls overlap in
a person, and the second transmission of a request meets the late delivery of the first. In `NodeDiscovery` a
third caller can be overtaken by a lookup that two others share; listings cover a default that
comes first or second, no default, a default without an address in the three fields, none at all, and keys left out. In `Operations` two
calls let the late stop of a restart meet the next call, and two transmissions are one loss and one repetition. In
`JobWait` two waiters are one that overtakes and one that is overtaken. In `LeadWalk` the bound on
requests equals the number of pages, so that a walk which loses one request to a repeated cursor meets the bound. In `ChatStream` a
body holds a named event, an unnamed one and the line a cut or a long line takes. The
theorems below hold without any of these bounds.

Runs whose cfg says `CHECK_DEADLOCK FALSE` are of systems that stop when all calls have returned.

## Fairness

- Go and Python: a goroutine, thread or task that can run does (`ClientStep`), and a round trip ends
  (`NetworkStep`): `http.Client` has a timeout of 30 s unless the application gives another, urllib and
  httpx calls carry one. Nothing obliges a token to expire, a request to be served late, or a
  caller to cancel.
- TypeScript: timers fire (`Deadline` of a `send`), a fetch whose signal has fired rejects, and the event
  loop runs what is ready. Nothing is assumed of the network: `SendSettles` holds if no server ever
  answers. It is asked of `send` only, see below for `getBlob`; nothing obliges a caller to abort.
- Discovery: a lookup returns, which is `EveryCallReturns` or `SendSettles` of its transport.
- Leads: a transmission is answered or given up on, for the same reason.
- Waits: timers fire and each request of a poll comes to an answer or an error, for the same reason. The server
  owes nothing: the job may never end.
- Streams: the goroutine runs, a caller that ranges over the channel receives, and a body that does not end is
  cut by the timeout of the `http.Client`, which covers the body.
- `LeadWalk` and `Operations` state no fairness: their properties are about what has happened.

## Proofs

`<Component>Proofs` holds the theorems for any number of calls, tasks, ids, tokens and retries. All
start from the named assumption on the constants (`GoAssumption`, `TsAssumption`, ...), which
TLC evaluates for each instance. Each has the same shape: `Init => IInv` and
`IInv /\ [Next]_vars => IInv'`, one step per action, and consequences.

- **Transports.** No safety property is inductive by itself. `TokenInv` is the heart: a token that was
  issued but not stored yet has been seen by nobody (no request carries it, no call was refused for
  it, no other exchange holds it), so whichever exchange stores last, the token it stores is new to
  every refused call. `ReplayIsFresh` (`ReplayUsesAnotherToken`) follows for all three clients, in
  Python as long as no exchange answered without a token. `NodeNeverSeesBoth` (Go) needs
  `HeaderInv`: headers are rebuilt as a whole on each attempt, though the attempts share one request object. `SuccessIsEarned` (Go) needs `LoopInv`:
  every way round the loop but the one refresh sets `lastErr`, and because `MaxRetries` is at least 1
  the loop cannot end with the nil it started with. `OneExchange` is `SingleFlight` (TypeScript) and
  `LockHeldByExchange` (Python).
- **Refinement.** `ContractHolds`, for each transport: `Init` maps to `Init` of `WireContract`, and
  every step to one of its steps or a stutter, under `CountInv` (effects, requests in flight and
  requests given up on never exceed transmissions; transmissions never exceed attempts; an exchange
  happens inside the one refresh).
- **NodeDiscovery.** `LookupIsShared`, `CallersAgree`, `GivenURLWins`, `DefaultIsAdopted` and
  `URLChangesOnlySo`, from an invariant that says which design may be where, that a shared lookup is only
  in flight while the URL is unknown, and that what callers were told is what is stored. `ScanAgrees` is
  the lemma about the two ways of choosing an address: on listings that leave no key out, the text
  scan and the field reads agree.
- **Leads.** `NoSilentSpend`, `ShortfallNeedsARace` and `NobodyIsLost`. The
  invariant keeps, per call, the order of a batch (nothing beyond the id it is at is on the wire), that what
  was charged is owned, that the meter of a call that was told "no quota" is empty, and that the
  pre-flight found room for the whole batch; the shortfall theorem is then a count. `KeptOnce`
  is the fact about `DedupeIDs`: of the positions of one person exactly one, the first, is kept.
  `ReportsAreHonest` has an invariant of its own (`SentOnce`): until a conversion is sent again or given up on, what it
  was charged and what its report counts are the same set.
- **401s.** `UnauthorizedIsTried` (Go, Python): a 401 reaches the caller only after a refresh. `SurfaceInv` says what a
  call that returns an `Auth` error has behind it, and that an error kept for later is never a 401.
- **Operations.** For every table: `NilIsEarned`, `EffectStays`, `RepetitionsAreTold`, `RepeatsAreRetries` and `RestartIsOrdered`; the
  invariant says, per transmission, what the server may have done and whether the client can know. `NothingElseIsDone` assumes of
  the table that only reads are served where a method does not check its id (`OnlyReadsInstead`); the run
  shows that the real tables are so.
- **The node's headers in Python.** The comment that a run refutes (`py_node_headers`) fails only as
  `NodeSeesBothOnlyOnReplay` says: on the replay of a call that was refused without any token, or after an exchange
  that brought none. `KeyInv` keeps, for each place of a call, whether its headers still hold the key and why.
- **ChatStream.** `StreamIsDeliveredInFull`, for bodies of any length and any names. `InHand` is the heart: the events of the
  lines read are delivered or on their way, and the name in hand is the one those lines leave pending. The lemmas before it are about
  `EventsIn` and `Pending`: what one line more does to them, and that lines that come, end or are lost behind what was read
  change nothing.
- **JobWait.** `VerdictsAreTrue`, for any number of waiters: what a waiter holds is a state the job was in, and what it
  judges is not older than the job it woke to unless another's answer replaced it (`NotOlder`).
- **LeadWalk.** `WalkIsWhole`, `WalkAdvances`, `OrderingIsPinned`, for any number of pages and any bound. `Tracked` ties
  the pages asked for to the cursors remembered; `Progress` says that, under one ordering, the rows up to any
  cursor that was followed have been delivered.

- **Winding down.** Liveness is out of the prover's reach, but what it rests on is not. `CallsWindDown` (each transport,
  `NodeDiscovery`, `Leads`), `StreamWindsDown` and `WaitsWindDown` say that a number, `Work`, falls with every step of a call, that no
  step of others raises it (of a stream, once its body is over), and how large it is at most: a loop has no way round that does not use up an attempt, an id, a
  line of the body or, once it is late, one of four turns. With the fairness of the runs, by which a call that is not done
  moves, this is the whole argument; that it does move (no deadlock) is what TLC adds. In `Leads` a batch starts its attempts again with
  every id and a conversion its ids again with every attempt, so the two count in opposite orders. In `NodeDiscovery`
  a caller that waits does not move itself: `WaitIsServed` says that the lookup it waits for is still under way.

Model-checked only: the liveness properties themselves (`EveryCallReturns`, `SendSettles`, `AbortSettles`, `EveryWaitEnds`, `ChannelCloses`);
every invariant and action property of a passing run is a theorem, `OwnOperation` under the assumption said above. Proved only: what the `IInv` of a run
already contains (`LockHeldByExchange`, `OneLookup`, `GivenWins`), and `URLIsKept`.

## Where the text and the code differ

Shown by a run (`findings` in `PROJECT.json`):

1. `python/vxsdk.py:5832-5833`: `X-API-Key` is dropped for the node when a bearer token is present. Not on a
   replay, whose headers still hold the key (`py_node_headers`).
2. `cpp/src/vxsdk.cpp:317`: "read its address field". The Java and C++ clients may read a later
   record's (`node_scan`).

Met while modelling, without a run of their own:

- `transport/transport.go:56-57`: "On success the request is replayed". Not when the 401 is answered to the last
  attempt: the replay is a `continue` of the counted loop, which ends and returns an earlier error.
- `typescript/src/errors.ts:6-12`: network failures are `VxNetworkError`. Not those of the exchange (298), nor
  the abort of the call that leads it, which every call that waits for it receives as it is.
- `salesshift/leads.go:674-675` on `RevealedNow`, printed as "reveals spent": a conversion reports its reveals. Not
  those of a transmission whose answer was lost; its retry finds the people revealed already (`ReportIsHonest` says that
  this is the only way it is short).
- `salesshift/leads.go:846`: "a repeated cursor aborts". Not the first time it is the one the walk was resumed at, which `seen`
  does not hold: that page is visited twice (`NoPageTwice` allows for it). `leads.go:845` "frozen for the whole
  walk": the requested sort is sent again, but the server may apply another (`WholeWalkIsComplete` asks for one ordering).
- `typescript/src/leads.ts` and the asyncio client end a walk at its bound or at a repeated cursor without an error, as at the end.
- `python/vxsdk.py:4814`: `wait_for_campaign` blocks "until the sender has finished"; at its deadline it returns the
  campaign as it is, and a campaign that ended without sending keeps it until then.
- `chat/chat.go:322-323`: "inspect StreamEvent.Err for a transport or decoding failure". Data that does not parse (292) is
  delivered raw and without an `Err`; only the scanner sets it.
- `chat/chat.go:314`: a caller that stops receiving leaves the goroutine and the connection behind, whatever
  it cancels (`ChannelCloses` is asked of callers that go on receiving).
- `transport/transport.go:164-166, 366`: an answer that breaks off is not noticed by the methods that discard it, nor by a
  download, which hands out what came as a whole file: nil says that the server acted (`NilIsDone`), not that its answer is whole.
- `services/services.go:107`: a restart goes on after a stop that failed inside a 2xx (`RestartStopsFirst` allows for it), and
  a stop whose answer was lost may arrive after the start and undo it (`Settled` allows for what is late).
- `workspace/workspace.go:520`: `withIdentity` "guarantees username + organization". A handle that was taken
  before the first exchange holds no username and sends none.
- `errors/errors.go:74-75` calls a `NetworkError` a request that "did not reach the server ... Safe to retry".
  It is also what an answer lost after execution becomes (`transport.go:153-160`); in the models the
  effect is counted, which is why `WireContract` bounds effects by transmissions and not by one.
- `options.go:25-26`, `client.go:63-64` and `auth.ts:11` say the first call exchanges the key; it
  is the first 401 that does.
- `options.go:47-48`: an unset node URL "is resolved from the API key exchange response"; no refresh
  stores one. `README.md:189-190` says the tenant's node is resolved automatically; Go and
  `AsyncClient` never resolve it, most synchronous methods of the Python client do not, and the TypeScript client falls
  back to the control plane until one does.
- `options.go:53-55`: the SDK applies its "own retry/timeout policy on top" of an injected HTTP client; the
  retries yes, but the timeout is only set on the default client.
- `typescript/src/transport.ts:133, 277`: a signal that was aborted before the call is not looked at; the request is sent, and
  only the deadline is left to end it, if the call has one (`AbortSettles` is asked of what fires under way).
- `typescript/src/transport.ts:23`: a per-call timeout; `getBlob` (206) arms no timer.
- `typescript/src/client.ts:270`: a discovery in flight overwrites what `setNodeURL` set. `URLIsKept` names
  this as the one way TypeScript may lose a URL.
- `CHANGELOG.md:587-588` speaks of a single-flight refresh for Go; goroutines exchange
  concurrently (`ReplayUsesAnotherToken` shows that it does no harm to a replay).
- `python/README.md:392-394`: a 401 "only surfaces ... if the refresh itself fails"; a second 401 after a
  successful refresh is surfaced as well. `ConnectionResetError`, `RemoteDisconnected` and
  `IncompleteRead` escape the synchronous `_request` untyped.
- `salesshift/leads.go:1035-1037`: `len(Revealed) + len(Skipped) == Requested` does not hold for
  the partial report of an aborted batch (`AccountsForEveryone` asks it of reports without an error).
  `leads.go:1078-1079` and `1106-1107` stop at a 402 because the rest "cannot succeed", though an owned
  id in the rest would be free. The refusal of `leads.go:1021-1024` to spend an allowance in part
  is undone by a race, and by nothing else (`ShortfallIsARace`).

## What is not modelled

- **Resource methods of TypeScript and Python** (and the pool calls of their lead APIs): the same requests as the Go
  tables, over transports that are modelled. A second and third copy of the tables would say nothing that the
  first does not; where their code differs in control (walks, waits, discovery) it is in the modules above.
- **Java and C++ request loops**: synchronous, one replay, no concurrency. They would be further implementations of
  `WireContract`.
- The data of requests and answers beyond what changes control: decoding, form fields, request ids, user
  agents, archive and script building, `Describe` and other formatting, percentages and callbacks of waits.
- The length of waits.
- `auth/auth.go` (declarations and a check of an API key's form), the test double, examples, packaging and
  `python-vxcloud`, which only re-exports.

## Plan

Done, with proofs: `WireContract` and the three transports, `Leads`, `NodeDiscovery`, `LeadWalk`, `JobWait`,
`ChatStream`, the operation tables and `Operations`.

Left, in this order:

1. **Java and C++** as implementations of `WireContract`.
2. **TypeScript and Python pool calls** where they differ from Go: repeated ids are not dropped by Python.
