# A TLA+ model of hku_rest

hku_rest is a C++20 server library on Boost.Asio coroutines: an HTTP/WebSocket server with permits,
rate limits and access lists (`src/hikyuu/httpd`), an MCP service with sessions on top of it
(`src/hikyuu/mcp`), and an MQTT broker around an external library (`src/hikyuu/mqtt`). The server's
`io_context` is run by as many threads as the machine has cores (`HttpServer.cpp` 2074-2121), so
everything two connections share is touched by several threads, and everything one connection does
is interleaved with its timers, its client and the server's shutdown.

This directory models the parts whose correctness depends on such interleavings, and the functions
that decide about an input, checks them with TLC on small instances, and proves the main safety
properties for all instances with TLAPS.

## 1. Inventory

| component | state | operations | interacts with |
|---|---|---|---|
| connection permits (`ConnectionManager.h`) | atomic counters of permits, waiters and ids; a mutex-protected queue of timers; a shutdown flag | `acquire`, `release`, `notifyOne`, `shutdown` | every `Connection` acquires one permit and releases it in its destructor; `HttpServer::stop` calls `shutdown` |
| HTTP connection (`HttpServer.cpp` 1011-1624) | permit, request counter, a `BeastContext` reused by all requests, its timer | `readLoop`, `processHandle`, `writeResponse`, `close` | permits, rate limiter, router, handlers, WebSocket upgrade |
| HTTP handler (`HttpHandle.*`) | chunked-transfer flags, filters | `operator()`, `enableChunkedTransfer`, `writeChunk`, `finishChunkedTransfer`, query parameters, headers | sets `response_sent` in the connection's context |
| REST handlers (`RestHandle.*`) | the request's document | `before_run`, `after_run` | bodies in JSON, MessagePack or CBOR, compressed or not |
| MCP sessions (`SessionManager.h`) | a map of sessions with last activity and metadata, one mutex | register, get, touch, set/get metadata, unregister, cleanup | requests on all threads; a scheduled cleanup task |
| MCP requests (`McpHandle.cpp`, `McpService.cpp`) | the lists of tools, prompts and resources | `run`, `dispatchMethod`, tool history, progress, replies as JSON or event stream; registration of descriptions | sessions; chunked transfer of the handler |
| HTTP server lifecycle (`HttpServer.cpp` 1641-2164) | running flag, acceptor, `io_context`, threads | `start`, `loop`, `stop`, `doAccept`, `doAcceptSsl` | spawns connections, shuts the permits down |
| WebSocket connection (`HttpServer.cpp` 244-993) | one timer for all waits, a send queue, a close flag | `readLoop`, `sendPing`, `send`, `sendBatch`, `validateWebSocketMessage`, `close` | a user handler; takes over an upgraded socket |
| WebSocket permits (`WebSocketConnectionManager.h`) | as connection permits | as connection permits; nothing calls `acquire` | `HttpServer::stop` calls `shutdown` |
| rate limiter (`RateLimit.*`, `HttpServer.cpp` 2277-2380) | token bucket, configuration, whitelists | `allowRequest`, `updateConfig`, `updateConfigPreserveWhitelist`, `reset` | asked by `readLoop` on all threads |
| address lists (`HttpServer.cpp` 60-240, `HttpServer.h`) | the configured lists | `isIpAllowed`, the wrappers that configure | asked for every accepted connection |
| router (`Router.cpp`) | the registered routes | registration, `findHandler` | asked for every request and upgrade |
| MQTT broker (`MqttBroker.cpp`) | running and stop flags, io_contexts, threads, work guards | `start`, `stop`, four listeners | an external broker library |
| coroutine helpers, monitoring, pods, errors, examples | see `PROJECT.json` | - | used by no modelled part |

What is hard in this code, and which property is about it, is the list of `hazards` in
`PROJECT.json`, each at its line. In short:

- permits: the freed slot is contended by the fast path and by the waiter that the release woke; a
  wake-up can come before the wait begins or after its deadline; a shutdown looks like a wake-up.
- HTTP connection: one context, one timer and one socket serve all requests of a connection; the
  handler and the framework both write responses; the client may leave between any two steps.
- sessions: every use of a session is several sections of the mutex (validate, touch, read, write
  back), between which it can expire, be cleaned up or be unregistered.
- WebSocket: three coroutines, perhaps on several threads, share one timer and one send queue, and
  the callback of an aborted wait does the same as that of an expired one.
- server and broker lifecycle: `stop` may come between any two steps of `start`, from any thread,
  twice at a time; a connection may outlive the permits it was counted in.
- inputs: each of the functions that read what a client or an application supplies has its own limits
  and its own place where two of them meet.

For each component, what makes it correct: permits are never lost and the overrun of the limit is bounded,
every `acquire` returns; every request gets one whole response and no more (unless it is a stream over
TLS), every connection that nobody keeps waiting ends and returns its permit; sessions end when due, stay
ended, and keep what was stored in them; a rate limiter admits no more than the bucket allows in any
interval, and limits nobody without cause; a WebSocket never has a read or write that no timeout watches,
and notices a dead peer; a running server accepts and a stop ends it, with the permits in balance; a
stopped broker leaves no thread; what is decided about an input is what the input means.

## 2. How the project is built

| # | modules | what |
|---|---|---|
| 1 | `ConnectionManager`, `PermitPool`, `ConnectionManagerRefinement`, proofs | permits and their abstract specification |
| 2 | `HttpConnection`, `McpReplies`, proofs | keep-alive loop, handler scripts, limits; the MCP handler's replies as one of those scripts |
| 3 | `McpSessions`, proofs | sessions under concurrent requests |
| 4 | `RateLimiter`, proofs | bucket arithmetic in integer units, unlocked reads, configuration updates |
| 5 | `WebSocketConnection`, proofs | shared timer, read/ping/send/close |
| 6 | `HttpServerLifecycle`, proofs | start, accept loops, stop, restarts, connections across them |
| 7 | `MqttBroker`, proofs | start, stop, threads, accept loops |
| 8 | `Router`, `AccessControl`, `RequestData`, `TextMessages`, `McpCatalog`, `InputProofs` | the functions that decide about an input, composed by `MCInputs` |

A module `MCx` gives the constants of module `x` their values; its `.cfg` files are the runs. `McpReplies`
extends `HttpConnection`, so that run checks the two together; `HttpServerLifecycle` keeps of each
connection only its permit and of each `ConnectionManager` only its count, and the inside of both is
checked by their own modules.

## 3. The modules and the code

### ConnectionManager, PermitPool, ConnectionManagerRefinement

One action is one atomic operation, one section under `m_wait_mutex` or one timer operation of
`acquire` (lines 186-270), `release` (276-283), `notifyOne` (326-333) or `shutdown` (157-180).
`pc[c]` is where the coroutine of connection `c` is; a queued timer is named by its connection;
`expected[c]` is the local copy used by the compare-exchange. `timer[c]` tells a wait that has not
begun (`set`) from one in progress (`armed`), because `cancel()` has no effect on the former: this is
how wake-ups get lost. Permit ids are a C++ `int` that wraps; a negative id is an invalid permit that
occupies its slot for ever (`stranded`).

`PermitPool` is what callers rely on: a connection asks, is granted a free permit, is handed one that
somebody returned, or is refused. `ConnectionManagerRefinement` maps the manager to it.

### HttpConnection, McpReplies

The coroutine `Connection::readLoop` of one connection: handshake, permit, then per iteration the age
check, the reset of the context, the read, HTTP/2 refusal, upgrade, rate limit, `processHandle`, the
handler, `writeResponse`, and the accounting that decides whether to go on. A handler is a *script* of
calls to the chunked-transfer interface and an ending (`ok`, an error result, an exception); all calls of
filters, `before_run`, `run` and `after_run` are in it. `wire` holds what was written for the current
request, as items: a whole response, or `head`, `chunk`, `end`. A client that has left may make any write
fail, or not be noticed. `response_sent` belongs to the context, which lives as long as the connection,
and the flags of the stream to the handler, which is new for each request, as in the code. `m_ssl_stream`
tells whether the connection has TLS: whole responses then go to the TLS stream, but the parts of a
streamed one to `ctx->socket`, the layer below it (`SendsRaw`), which puts `plaintext` on the wire.
Bodies, headers and addresses are abstracted; whether a request may be kept alive and which handler the
router finds are parts of the request.

`McpReplies` derives the script of `McpHandle::run` from an MCP request: whether its client accepts
event streams, whether it is refused before it is dispatched, which kind of method it calls and what
comes out of it, and how many progress messages a tool pushes. `run`, `sendMcpSuccessResponse`,
`sendMcpErrorResponse` and `pushProgress` are the functions of those names.

### McpSessions

Each of the `Workers` is a request in service on some thread. `SessionManager` locks its mutex once for
each of its operations, so a request is a sequence of sections: `getSession`, `touchSession`, then what
the method does. `registerSession` is the exception the model keeps: it takes the mutex (`Register`), lets
it go at the limit and cleans up (`Cleanup`), reads the size without it (`Recheck`) and takes it again to
insert (`Insert`). The histories of tools and progress are read, extended and written back in two sections
(`ReadHistory`, `SaveHistory`). A client can store a value of its own under the key of a history with
`session/set_metadata` (`SetMetadata`): its entries are no records, its length is any of `ArrayLengths`,
and `replaced` remembers where that happened. `last_active` is represented by the ticks since then, capped
just above the timeout, where more makes no difference.

### RateLimiter

Each of the `Workers` is a read loop that asks the limiter: `isRateLimitEnabled` (`Arrive`), the two
unlocked reads of `allowRequest` (`CheckEnabled`, `CheckWhitelist`) and its section under the mutex
(`TakeToken`). An update takes the mutex (`Lock`) and writes in a later step, so requests in between
read a configuration that is being written: `SeenEnabled` and `SeenListed` are what they may see.
The wrappers that add to a whitelist read the configuration and write it back in two sections
(`ReadConfig`, `WriteConfig`); one whitelist of clients stands for those of addresses, endpoints and
methods. Tokens are counted in units of `1/Unit`, time in ticks of which `Resolution` make the whole
millisecond the code counts in, and scaling rounds down. `m_tokens` starts with any content, as the
default constructor leaves it uninitialized; a negative content has to be refilled first. Two history
variables serve the properties: `lag`, the admissions of the worst interval up to now beyond what the
rate allows for its length, and `earned`, what a second bucket would hold that has the same burst and the
same admissions, but is filled at half the rate and without rounding.

### WebSocketConnection

`rd` is where `readLoop` (with the handler it calls) is, `snd[s]` where each call of `send()` is - the
handler's own, which may be one of a `sendBatch`, and those of other coroutines that hold the handle -
and `ping` where the heartbeat is. The one `steady_timer` of the context is `timer`, the waits pending
on it are `waits`: setting or cancelling it (`EndWaits`) ends them all, and posts for `readLoop` and
`send()` a callback (`cancels`) that cancels every operation on the socket (`RunCallback`), whether the
wait expired or was aborted. `op` is the asynchronous operation each of them has under way. `loop()`
runs the `io_context` in one thread or in many: in one, `turn` keeps a coroutine in its thread from one
suspension point to the next, and posted callbacks run in between. `sendPing` holds no reference to the
object; `Destroy` lets it resume on freed memory (`PingDangles`), after which it does nothing more in
the model. The TLS handshake, the upgrade and the WebSocket handshake are one step that may fail.

### HttpServerLifecycle

The main thread calls `start()` (which makes new managers, an acceptor, and the accept loop, and sets
`m_running` in separate steps, and may fail in between) and `loop()`; each of the `Stoppers` is a call
of `stop()`, from outside or by a handler in one of the threads in `run()` (`by`), a step for each
thing it stops: the flag, the acceptor, the managers, the context, its deletion after 100 ms, the
pointer. Each `start()` has its own number: `acc` is its accept loop, `cnt` the count of its manager, and
`gen[c]` the manager a connection's permit comes from; the destructor returns the permit to whatever
manager the server has at that moment. With a context the application has bound, its threads are the
application's (`AppRuns`, `AppRestarts`). Running a deleted context, stopping it again and deleting one
that is in use set `crash`, after which nothing is said.

### MqttBroker

`start()` runs the listeners' set-up in the order of the code, then starts the threads, runs the accept
context in its own thread until it is stopped, and joins; `stop()` clears and sets the flags, stops the
contexts and joins and clears the same vector of threads. `by[t]` is the thread a `stop()` interrupts
when it is called in a signal handler; that thread does nothing meanwhile. A thread joined twice at a
time, joined by itself or a vector used by two threads while one changes it set `crash`. Each listener
has its accept loop: plain ones hand a client over at once, secure ones wait for its handshake. An error
that is thrown - by a socket option that cannot be set (`AcceptThrows`) or by a handshake - ends the
detached loop and closes its acceptor (`LoopThrows`). When a thread cannot be created
(`SpawnThreadFails`), `start()` throws and leaves the threads it has (`abandoned`).
Clients are accepted and then belong to the external broker library.

### Router, AccessControl, RequestData, TextMessages, McpCatalog

Functions that decide about an input, written as operators after the code, each with a variable or
two for what has been configured and for the input in hand:

- `Router`: the vectors of routes in the order of their registration, `findHandler` (an exact route
  before a wildcard, the first of each) and `findWsHandler`. Paths are sequences of characters.
- `AccessControl`: the wrappers that replace the lists, `parseCidr`, `isIpInSubnet` and `isIpAllowed`,
  with addresses of `Width` bits. An address is the set of its bits that are set, so that `&` is an
  intersection and a shift moves the elements of a set. The shift by the whole width that a prefix of 0
  makes is undefined in C++; the model gives both results a compiler produces.
- `RequestData`: the one-pass parser of the query (`ScanChar`, `EndParam`), the lookup of headers, and the
  document's way in and out of `before_run` and `after_run`, with formats and compression, and the error
  reply (`processError`) where one of them fails.
  Clients send documents in one of the three formats, with header values made of the names that the
  code looks for (`RequestsAssumption`).
- `TextMessages`: the UTF-8 and control-character checks of `validateWebSocketMessage`, on bytes.
- `McpCatalog`: the validators of tool, prompt and resource descriptions and the functions that add them,
  one at a time, in batches, which stop at the first bad one, or from one JSON value. `call` is the last
  such call, with what it was given and whether it threw. The validators call each other one level
  deeper into a schema. Here each of them gets the set of nodes that those calls accept, and `ValidNodes`
  makes that set, level by level; as a JSON value is finite, some level is the last (`NodesAssumption`).

Their properties compare each with a definition of what it is to compute that is written another
way: subnets by their first bits instead of masks, UTF-8 by the table of RFC 3629 instead of bits, the
query by its parts instead of a scan, schemas by all the nodes they lead to. Where the code accepts more
or less than one would expect, the property says so in its comment (see section 7). For `SoundAreListed`
that is `addResources` of a JSON value, which lists what is not even an object, and the overloads that
throw for every array, or for every resource object.

## 4. The runs

| run | shows |
|---|---|
| `permits` | three connections, one permit, ids that wrap after the second permit, shutdown at any moment: counters equal what they count, the queue is sound, the pool is implemented, every `acquire` returns while the server runs |
| `permit_limit` | the documented limit can be exceeded (finding) |
| `http_connection` | up to three requests of all kinds on one connection, with TLS or without, with handlers that answer, stream, fail, throw inside a stream or break the rules, and the MCP handler with every kind of request |
| `http_answered` | after a streamed response the next request of the connection gets none (finding) |
| `mcp_sse_replies` | a client that accepts event streams gets no reply from a method that does not run long (finding) |
| `mcp_sessions` | two requests at a time, three sessions, a limit of one, a timeout of one tick, two records, histories of one and two entries, and histories that a client writes itself |
| `rate_limiter` | two requests at a time, two clients, bursts of one and two tokens, rates of none, one or two units a millisecond, updates at any moment, against a second bucket filled at half the rate |
| `websocket` | `readLoop` with a handler that sends a batch of up to two or closes, another sender and the heartbeat, in one thread or in many, with a client that sends, leaves or vanishes |
| `ws_long_connection` | the heartbeat ends the connection of a healthy client (finding) |
| `http_server` | two starts and two overlapping stops, with an own or a bound context, from the server's thread or others, while two connections come and go |
| `mqtt_broker` | two starts and two overlapping stops, with a plain and a secure listener, threads that cannot be created, accepts and socket options that fail, and a client that stalls its handshake |
| `inputs` | the five modules of inputs, one at a time, over all small inputs |

What the properties say is written above each of them. Every property of a passing run has a mutant in
`PROJECT.json`: a definition of the model with a plausible bug (the operators marked *Fault*), under
which TLC finds the property violated.

**Bounds and why they are enough.**

- `permits`: three connections are the fewest that show the race of the permits: one returns a permit, one
  is woken, one takes the slot by the fast path. With a limit of one both of the others contend for
  every slot; larger limits only add slots nobody contends for. `IntMax = 1` makes the third id wrap.
  The bound on the overrun needs more connections than that to be at risk; it is proved, not run.
- `http_connection`: a request limit of three lets a request be served after a streamed one and another
  after a rejected one; two progress messages (`MaxPushes`) tell a stream that keeps their number and
  order from one that does not.
- `mcp_sessions`: two workers are the fewest that race in the registry; with three sessions one can be
  ended, one in use and one being registered. `MaxRecords` bounds the only counter of the model that the
  code does not have; two records are enough for one to overwrite the other, and to fill both histories.
  The arrays that a client stores (`ArrayLengths`) have no entry, or one more than the longest history may
  have.
- `rate_limiter`: a tick is half a millisecond and `MaxIdle` bounds the time between two refills to two of
  them and a half, more than it takes to fill any of the buckets; the contents of the uninitialized
  tokens are an empty and an overfull bucket (the proofs allow any content, negative ones too, which
  lost updates can multiply without bound).
- `websocket`: one pusher beside the handler and the heartbeat gives each kind of user of the timer a
  rival of its own and of another kind; a queue limit of one makes every second send meet the limit; two
  messages in batches of one (`BatchSize`) reach the pause between batches; one message of the client
  gives two iterations of the loop.
- `http_server`: two starts are needed for a connection to outlive its manager, two calls of `stop()` for
  them to race, two connections for their permits to belong to different managers. One thread in
  `run()` is enough: a second only adds steps of connections that do not share anything here.
- `mqtt_broker`: a plain and a secure listener with a client each, so that one can hold up the other; a
  two connection threads for each start (`ThreadsPerStart`), so that creating the second can fail when the
  first runs; two stops for their joining loops to race with each other and with that of `start()`.
- `inputs`: three registrations put a route before, between and after two others; addresses of four bits
  have all prefixes from 1 to 4, and lists hold up to two entries; queries are all those of up to four
  characters and of up to four parts from eight kinds, with a limit of two parameters; messages have up
  to four bytes out of those next to a bound in the code, the length of the longest UTF-8 sequence;
  schemas have three levels with a mistake in any one place. The limits of sizes are scaled to match.

Symmetry is used only in runs without liveness.

**Fairness.** No fairness is assumed of a client, of an application's decisions, or of a handler of HTTP
requests.

- `ConnectionManager`: each connection's steps and its timer are weakly fair as long as the server runs,
  because the executor runs every ready coroutine and every timer expires; `stop()` stops the executor
  after it has shut the manager down (`Running`), and from then on any step may be the last. Releasing
  and shutting down are not fair.
- `HttpConnection`: the coroutine's own steps, its deadlines and the passing of `MAX_CONNECTION_AGE` are
  weakly fair; reading and writing are fair only once the client has left, when the socket reports it, and
  the steps of a handler (`HandlerStep`) not at all. `PermitReturned` therefore assumes a client and
  handlers that do not keep the connection waiting for ever; the code's deadlines do not enforce it
  (section 7).
- `WebSocketConnection`: senders, the heartbeat and the expiry of the timer are weakly fair. `readLoop` and
  the posted callbacks are strongly fair: in one thread they are disabled whenever another coroutine has
  the thread, and Asio's queue is served first in, first out, so what keeps becoming ready runs.
- `HttpServerLifecycle`: the steps of a `stop()` and those by which a thread enters or leaves `run()` or ends
  a handler are weakly fair. `StopEndsRun` therefore is about handlers that return.
- `MqttBroker`: the threads, the steps of `start()` and `stop()` and those of the plain accept loops are
  weakly fair. Accepting a client that waits at a plain port is strongly fair, since an accept that fails
  with another error disables it for the moment. Of the secure listeners nothing is assumed.
- `McpSessions`, `RateLimiter` and the inputs state no liveness.

All runs but one look for deadlocks; final states have an explicit step (`Terminated`, `Stops`).
`inputs` does not, as its bounded inputs come to an end.

## 5. What is proved

The proofs hold for every value of the constants that satisfies the named assumptions: finite sets of
connections, requests in service and session ids, natural numbers for limits and timeouts, scripts
that are sequences of the three calls, a `MaxIdle` of at least one whole millisecond, paths that are
sequences of characters; for the inputs, addresses of at least one bit, bytes below 256, limits that are
natural numbers, documents in one of the three formats, and schemas of finite depth. The bounds of the
runs (`MaxLength`, `MaxListed`, `MaxRoutes`, `MaxDepth`, the sets of inputs) are arbitrary in the proofs.

- `ConnectionManagerProofs`: types, `CountIsHolders`, `FastPathWithinLimit`, `WakesArePaid`,
  `OverrunIsBounded`, `WaitingIsWaiters` and `QueueIsSound`; the bound is in no
  run, as three connections are too few to break it. The overrun is not inductive by itself: it needs
  that a connection on its way through the slow path was woken by a returned permit (`WakesArePaid`),
  which in turn needs that a timer is cancelled once, and that connections between the load and the
  exchange of the fast path hold a copy below the limit. The queue needs that a connection pushes its
  timer before it waits and is not queued when it does (`BeforeQueue`), and facts about where the
  elements of a sequence go when one is appended, popped, unlinked or all are moved to another. From
  the same invariant every step of the manager is a step of `PermitPool` or a stutter
  (`Implementation`).
- `HttpConnectionProofs`: types and `HandledWithinLimit`. The request is counted after it was served,
  so the invariant `Counted` says at which stages `handled` is ahead of `m_request_count`. In the same
  module, `WireIsSound` and `AnsweredOnce`, for handlers of any length: the invariant
  `WireInv` follows a disciplined handler through its stream: not begun, begun, headers sent, ended;
  what is on the wire, what is left of the script and the two flags agree in each phase, until the
  client leaves, after which nothing more reaches it. A handler that streams over TLS is outside of it,
  as what it writes is no response (`Answerable`). `McpReplied` adds what the scripts of `McpHandle` are
  (`McpScripts`): `McpInv` says that a streaming handler has on the wire or left in its script exactly
  the events it owes, in order, and that one that answers with a body has begun no stream, so that
  `response_sent` can only be set before its answer when an earlier request left it so.
- `McpSessionsProofs`: types, `OverrunByWorkers`, `NoResurrection`, `RemovedWhenDue`, `DeadStaysDead` and
  `HistoryKept`. That no history is too long needs the same of the copies that requests hold of it
  (`LimitInv`); both except the histories a client has written. The overrun counts requests on the point
  of inserting together with the sessions: a request reaches that point only when the size was below the
  limit, and at least one request, itself, was not there before. That sessions do not come back needs that
  ids being registered have not been issued and belong to one request (`Fresh`). That histories are kept
  needs that a copy held by a request has all that was stored, unless two requests hold copies of it
  (`CopiesWhole`, `Alone`), and that ids are not used again, so that nobody stores an old copy in a new
  session (`OldIds`).
- `RateLimiterProofs`: types, `AdmissionsBounded` and `LimitedJustly`. The bound on `lag` is not inductive:
  `Level` sets it against the units missing in the bucket and the part of a millisecond the next refill
  will still have to wait for, and `Overfull` covers tokens nobody has initialized, which the first
  refill or update cuts before an admission can count on them. `LimitedJustly` needs that the bucket and
  the part of a millisecond it still waits for are never behind the one filled at half the rate
  (`Paced`): a refill that forgets a fraction has counted at least one whole millisecond, so it brings
  more than half of the time that has passed.
- `WebSocketConnectionProofs`: types, `QueueCounted` and `OperationsWatched`, for any number of senders.
  In one thread nothing comes between setting the timer and beginning the operation, so an operation in
  progress has its wait, or whoever ended that wait has posted the callback.
- `HttpServerLifecycleProofs`: types, `AcceptsWhileRunning` and `PermitsBalanced`. `start()` does not overlap
  with a `stop()` that has work to do, and no `stop()` is past its first step while the server runs
  (`Phases`); only who deleted the context clears its pointer (`Freeing`). From these follows `Owned`: with
  a context of its own the server's threads are those of `loop()`, the context lives from `start()` until
  it is halted, and every permit that is held is the last manager's, as a new manager is made only when
  no connection is left; so the destructor, which returns a permit to the manager of the moment, returns
  it to the right one.
- `MqttBrokerProofs`: types and `NoThreadLeft`. Threads are numbered in the order of their start, and
  there is a number left for each (`Room`); what lies before the place of a joining loop has been joined
  (`Places`); a thread stays in the vector until it was joined, so that both the end of `start()` and the
  clearing of the vector come after all joins (`Known`).
- `InputProofs`: the five properties of the inputs. Their invariants are small, since a decision is made in
  one step; the work is in showing that the code's way of deciding is the other way of saying it:
  - `AnswersKept`, for all routes and requests: a loop over a longer list finds the same route or the new one.
  - `ListsDecide`, for any width, entries and wrappers: a mask made by shifting is the first bits of an
    address, and comparing under the mask is having these bits in common (`MasksOfPrefixes`).
  - `TextAccepted`, for messages of any length: the tests of one pass accept exactly the rows of the tables
    (`Utf8Passes`, `PassesLoosely`), and passing them one after the other to the end is to cut the message
    into such rows, by induction from its end and from its beginning (`Utf8IsValid`, `ValidIsMadeLoosely`).
  - `RequestUnderstood`, for queries of any length: `Scanned` is the invariant of the loop. It says where in
    the current part the scan is (`Within`), what it has collected from the parts before
    (`Collected`), and that it stops at the first error (`Stopped`). `DocInv` follows a document from the
    request to the handler and back.
  - `SoundAreListed`, for schemas of any depth, any number of descriptions and each overload that adds
    them: accepted nodes are those whose levels below all have types, by induction over the depth in both
    directions (`AcceptedAreTyped`).

  The recursive functions among these definitions are proved to exist before anything is said of them
  (`StatesExist`, `AcceptedExist`, `LevelsExist`); induction is over sets of numbers (`SetInduction`).

Every safety invariant and action property of the runs is proved, and `PermitPool` is proved to be
implemented. Only model-checked is liveness (`AcquireReturns`, `PermitReturned`, `SilentPeerNoticed`,
`StopEndsRun`, `StopEndsStart`, `PlainClientsServed`): it needs fairness, which is out of the prover's reach.
What the four runs that expect a violation show are counterexamples, not theorems.

## 6. Findings

Places where the code does not do what its comments say, each with a run whose counterexample shows
the steps (`PROJECT.json`, `findings`):

1. `ConnectionManager.h` 256: a woken waiter takes its slot without testing the limit, so the limit
   is exceeded when the fast path was faster. The excess is bounded until a shutdown (`OverrunIsBounded`,
   proved for any number of connections).
2. `HttpServer.cpp` 1167: `response_sent` is not reset between requests, so a kept-alive connection
   never answers again after a streamed response.
3. `McpHandle.cpp` 197: the reply to a client that accepts event streams is written to a stream that was
   only enabled for tools that run long.
4. `HttpServer.cpp` 528: the callback of the read's wait cancels the socket when the wait is aborted as
   well as when it expires, so the first heartbeat ends the connection of an idle client.

## 7. What else was seen

Behaviour that the models have as the code does, and that a reader of the properties should know of.
Where a comment of the code promises something else, the place is named with it.

Permits:

- `ConnectionManager.h` 252: a waiter cannot tell a shutdown from a wake-up, and returns with a permit;
  line 155 says that all waiters get a timeout. `PermitPool` lets the pool grant on a shutdown, so
  `ImplementsPermitPool` does not object.
- A wait timeout of 0, which `ConnectionManager.h` 141 and `HttpServer.h` 638 describe as waiting without end,
  is an `expires_after(0)` and times out at once. That is why `AcquireReturns` holds for every timeout:
  with an infinite wait, a waiter whose wake-up is lost would stay behind.
- After a shutdown the count of waiters becomes negative, when those it was reset for decrement it
  (`WaitingIsWaiters` speaks of the time before). A permit whose id has wrapped to a negative number counts
  as a holder for ever in `CountIsHolders`.

Connections:

- `HttpServer.cpp` 1181: the deadlines of a connection emit a cancellation signal that no operation
  listens to; a client that stops sending or reading, or a handler that does not return, keeps its
  connection and its permit.
- `HttpHandle.cpp` 472, 488, 595 (and 549, 564, 644): the parts of a streamed response are written to
  `ctx->socket`, which with TLS is the layer below the TLS stream (`HttpServer.cpp` 1128). A TLS client
  gets plain bytes instead of the stream. `WireIsSound`, `AnsweredOnce` and `McpReplied` say nothing of
  streams over TLS. `HttpServer.cpp` 267, 351 and 1310: an upgrade to a WebSocket over TLS makes another
  TLS handshake on the socket and then sends frames past the TLS stream.
- `McpHandle.cpp`: an error after progress was pushed enables the transfer again; a stream whose result is
  null and that pushed nothing ends without headers.
- `HttpServer.cpp` 305: a heartbeat that sleeps when its connection is destroyed resumes on freed memory.
  880: with several threads the limit of the write queue is tested before the size is incremented;
  `QueueCounted` states the limit for one thread.

Sessions:

- `SessionManager.h` 115: the second test of the session limit is made without the mutex; the overrun is
  what `OverrunByWorkers` bounds. `McpHandle.cpp` 346: two updates of one session's history at a time
  overwrite each other, which is why `HistoryKept` excepts them.
- `McpService.cpp` 147-156: `session/set_metadata` stores any value under any key. With the keys `history` and
  `progress_history` a client replaces the records of its session, by a longer array if it likes, which
  then stays too long, since recording drops one entry for each it adds. `TypeOK` and `HistoryKept`
  except these histories.

Rate limiter:

- `RateLimit.cpp` 37: a refill forgets the fraction of a millisecond. Clients whose requests are just short
  of two milliseconds apart get little more than half of `requests_per_second`, of which `RateLimit.h`
  promises the whole; `LimitedJustly` promises the half.
- `RateLimit.cpp` 117: whether the limiter was disabled is judged by its old rate, which is positive by
  default, so enabling it scales uninitialized tokens instead of filling the bucket. 143: the
  whitelist wrappers of the server (`HttpServer.h` 584-600) exempt nobody, because the update they call
  restores the old lists; they also undo a change of rate made between their two sections.
  `RateLimit.h` 43: `per_ip` is read by nothing, one bucket serves all clients.

Server and broker:

- `HttpServer.cpp` 2154: `stop()` deletes the context after 100 ms whether or not threads have left it, and
  two calls of `stop()` can delete it twice; so with a context of its own `StopEndsRun` says that the run
  ends or crashes. 1894: an error in accepting ends the accept loop of a server that goes on running.
- With a context of the application whose threads already run, the accept loop can test `m_running` before
  `start()` sets it, and end at once; and connections can outlive the run and return their permits to
  the next manager. `AcceptsWhileRunning` and `PermitsBalanced` are about servers with their own context.
- `MqttBroker.cpp` 317: when a thread cannot be created, `start()` clears `m_running` and throws (342-346),
  with the earlier threads running; `stop()` then does nothing, and destroying the broker with threads
  that can be joined ends the program. `NoThreadLeft` excepts these threads. 393: setting a socket option
  may throw, which ends the accept loop, as a failed TLS handshake does (604); `PlainClientsServed`
  excepts a loop that ended so.
- `MqttBroker.cpp`: a broker that was stopped never runs again, as its contexts stay stopped; `start()`
  returns without blocking, contrary to `MqttBroker.h` 67, when it cannot open a plain port or was called
  after a stop.

Inputs:

- `HttpHandle.cpp` 322: values that contain an equals sign are read wrongly. Header names are looked up
  with their usual spelling only, and a compressed body that does not decompress counts as empty.
- `RestHandle.cpp` 91: when compressing the reply throws, the header `Content-Encoding: gzip` is already
  set, and the error text is sent plain under it. `DocumentsExchanged` is about replies that are encoded.
- `HttpServer.cpp` 811: surrogates are looked for among four-byte sequences, where they cannot occur in
  their usual form, and some overlong sequences pass. In the run messages are no longer than the limit,
  so the test of the length itself is met only in the proof.
- `HttpServer.cpp` 60-240: a prefix of 0 shifts by 32 bits; a network in dotted notation with bits behind
  its mask matches nothing. `HttpServer.h` 222 lets `default_allow` decide when the lists are empty, but
  nothing reads it: an empty allow list admits nobody, an empty deny list everybody. `ListsDecide` is
  about lists with entries of prefixes from 1.
- `McpService.h` 60, 78, 98: the overloads that take a JSON array throw for arrays and accept anything
  else, `addResources` without a look; `McpService.cpp` 332, 399: required properties are not looked up
  when there are no properties.

## 8. Not modelled

- `WebSocketConnectionManager.h` repeats `ConnectionManager.h` under other names and nothing calls its
  `acquire`; `coroutine_helpers.h` (`AsyncLock`, retries, timeouts) is used by nothing in the repository, and
  so are the monitoring counters. Models of them would have to invent their callers.
- Contents of messages beyond the inputs of section 3: HTTP parsing (Boost.Beast), compression, JSON
  libraries, texts of errors, logging, cookies, languages and client addresses in headers; the lists and
  reads of the MCP catalog.
- The statistics of the rate limiter, and its tokens while its rate is 0: a whitelist wrapper that
  restores such a rate leaves more tokens than the burst, which the next refill removes.
- Handlers that break the streaming rules are run, but no property says what their clients receive.
- `Connection::close` is one step; its TLS shutdown from a blocked thread is not split.
- The MQTT protocol, sessions and topics are the external library's.
- Memory-order effects weaker than interleaving: the counters are atomics with acquire/release order,
  and every other shared variable of the modelled parts is under a mutex or belongs to one thread, with
  these exceptions, which are modelled: `Recheck` (the unlocked read of the map's size), the limiter's
  unlocked reads, and the vectors and pointers that a `stop()` changes under another thread.
- Process-wide set-up (pods, configuration, thread pools), tables of errors, and the examples, with the
  reasons in `PROJECT.json`.
