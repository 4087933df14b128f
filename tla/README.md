# Verification of icecast-proxy-go

icecast-proxy-go stands between source clients (DJs) and an icecast server.
Several clients may be connected to one mountpoint; the first one is *live* and
its data is forwarded, the others wait in line, and when the live client leaves
the next one takes over. This directory holds a TLA+ model of that program, the
TLC runs that check it on small instances, and TLAPS proofs about it. Sources
are named relative to `src/`.

## Inventory

| Part | State | Operations | Interacts with |
|---|---|---|---|
| Manager loop (`server/icecast.go`, `manager.go`, `mount.go`, `packets.go`) | `Mounts`, `metaStore`, channels `Receiver`, `MountCollector`, `MetaChan`, `dataChan`, `errChan`; per mount `Clients`, `Active`, `ClientQueue`, `Shout` | the cases of `ProcessClients`; `AddClient`, `RemoveClient`, `NextLiveClient`, `SwapLiveClient`, `HandleData`; recovery from a panic | receives from HTTP handlers, readers and delaying goroutines; **sends to itself** on `MetaChan` and `MountCollector`; takes `HandlerLock` |
| Client identity and container (`server/client.go`) | `byID`, `Length` of a container | `Add`, `Remove`, `GetByHash`, `GetByID`, `Destroy`, `Hash` | manager |
| Readers (`ReadInto`, `server/icecast.go`) | one goroutine per client | read data, report an error | send on `dataChan`, `errChan` |
| Event handlers (`server/handlers.go`) | `HandlerMounts`, `HandlerLock` | `HandleClientConnect`, `HandleClientDisconnect`, `HandleClientLive` | called by the manager; shared with the admin pages |
| HTTP handlers (`server/http.go`) | none of their own | `sourceHandler`, `metadataHandler`, `adminHandler`, `mainHandler`, `listclientsHandler` | send on `Receiver` and `MetaChan`; close connections |
| Authentication (`server/auth.go`) | database handle | `Login`, `FetchUser`, `makeAuthHandler` | wraps the HTTP handlers |
| Encoding (`server/encoding.go`) | none | `ParseMetadata` | iconv |
| libshout wrapper (`shout/shout.go`) | a C instance per mount | `Open`, `Close`, `Send`, `SendMetadata`, `DestroyShout`, options | manager |
| Configuration, start (`config/config.go`, `initializer.go`) | read once | `CreateShoutMap`, `CreateDatabaseDSN` | all |
| HTTP server (`http/server.go`; a fork of Go's `net/http`, like all of `http/`) | per connection: buffers, the request and its body reader, the response; per timed handler a `timeoutWriter`; the patterns of a `ServeMux` | `conn.serve`, the calls of a `ResponseWriter`, `Hijack`, `TimeoutHandler`, `Handle`, `ServeHTTP` | carries the proxy's handlers, one goroutine per connection, one more per timed handler |
| HTTP messages (`http/request.go`, `response.go`, `transfer.go`, `chunked.go`, `header.go`, ...) | a body reader per message | `readTransfer`, `transferWriter`, `body.Read`, `body.Close`, parsing | used by servers and clients |
| HTTP client (`http/client.go`, `transport.go`, `jar.go`) | idle pool; per connection `numExpectedResponses`, `reqch`, `lastbody` | `RoundTrip`, `readLoop`, `bodyEOFSignal`, `CloseIdleConnections`, `Get` with redirects | callers and `readLoop` goroutines share connections |
| File server (`http/fs.go`, `filetransport.go`) | none; a goroutine per multipart reply | `serveFile`, `serveContent`, `parseRange`, `checkLastModified` | behind a mux or a client's transport |
| Utilities (`http/httputil/persist.go`, `chunked.go`, `dump.go`, `reverseproxy.go`; `http/httptest`, `http/pprof`) | `ClientConn` and `ServerConn`: pipeline, errors, counts, `lastbody` | `Write`, `Read`, `Do`, `Hijack`, `Close` | goroutines share one connection |
| CGI, FastCGI (`http/cgi`, `http/fcgi`) | processes, streams of records | translate requests | not used by the proxy |

Hard behaviours, listed with their lines under `hazards` in `PROJECT.json`:

* the manager sends on channels that only it receives from;
* a mount is emptied, joined again, emptied again and collected in any order;
* entries of departed clients stay in `ClientQueue` and count against its limit;
* metadata comes back a second after it was accepted, when somebody else may be
  live, or when the manager that delayed it no longer exists;
* a panic replaces the manager while handlers, readers and delaying goroutines
  of the old one go on;
* `HandlerLock` can be left locked, and `HandleClientLive` does not take it;
* an HTTP handler reads, writes, flushes, hijacks, panics or times out at any
  point, and both ends must still agree where a message ends;
* a pooled connection is put back, taken, closed by either end and reused while
  its last response is on its way;
* pipelined requests fail, and their connection is closed, with others in flight;
* files change, and redirects lead in circles, while a client follows them.

What makes the parts correct: nobody in line is forgotten, skipped or preempted;
the admin page shows the line as it is; a reader's client is on the registered
mount; no connection is lost; metadata stays with its sender; errors,
handed-over clients and empty mounts are dealt with in the end. For HTTP: both
ends of a connection read the same messages; a caller gets the answer to its own
request, or an error, and gets it in the end; a request reaches the page that its
path stands for, and its body is what was asked for; goroutines come to an end.

## Modules

| Module | Models |
|---|---|
| `Handlers` | the effect of the event handlers on the list of one mountpoint |
| `ProxyState` | constants, variables, `Init` (`NewManager`), the type invariant |
| `SourceIntake` | `sourceHandler` and `ReadInto` |
| `AdminPages` | `adminHandler`: the page (lock and unlock are two steps) and the kick |
| `ClientLifecycle` | the `Receiver`, `errChan` and `MountCollector` cases: `AddClient`, `RemoveClient`, `NextLiveClient`, `SwapLiveClient`, collection |
| `DataPath` | the `dataChan` case and `Mount.HandleData` |
| `MetadataPath` | the `MetaChan` and ticker cases, `metadataHandler`, the delaying goroutines |
| `Proxy` | panic recovery (`init`, `DestroyManager`), `Next`, fairness, the properties |
| `MCProxy` | instances for TLC |
| `ProxyProofs` | type correctness, and whose metadata is saved and sent, proved |
| `SuccessionProofs` | line of succession, registered mounts, their counts, connections and readers, proved |
| `AdminListProofs` | the rows of the admin page, proved |
| `DataLemmas` | what a send and a receive do to a channel, and what a recursive function computes, for all proofs |
| `Transfer` | message framing: `readTransfer`, `fixLength`, `transferWriter`, `body`, the chunked coding, as operators |
| `HttpServer` | one connection of the server: `conn.serve`, `response`, `expectContinueReader`, `Hijack`, any handler, and the client at the other end |
| `TimeoutHandler` | `HttpServer` with `timeoutHandler` and `timeoutWriter`; the properties of the server |
| `MCServer` | instances of the server |
| `Transport` | the idle pool, `persistConn.roundTrip`, `readLoop`, `bodyEOFSignal`; `MCTransport` instantiates it |
| `TransportProofs` | types, exclusive use of connections and own responses, proved |
| `ServerProofs` | types, the stream of requests in sync, replies that end where they say, flushes and hijacking, proved |
| `PipelinedLink` | abstract: one order of requests, receptions, answers and deliveries |
| `Persist` | `ClientConn` and `ServerConn` at two ends of a connection, and the refinement mapping to `PipelinedLink`; `MCPersist` instantiates it |
| `PersistProofs` | types, message boundaries and the refinement of `PipelinedLink`, proved |
| `Mux` | `ServeMux`, `Redirect`, `StripPrefix`, and paths |
| `Access` | `Login`, permissions, `makeAuthHandler`, and the choice of a page in `mainHandler` and `adminHandler` |
| `FileServer` | `serveFile`, `serveContent`, `parseRange`, `checkLastModified`, as operators |
| `Site` | composes `Mux`, `Access` and `FileServer` with `Client.Get`, the file transport and the goroutines that copy content; `MCSite` instantiates it |
| `SiteProofs` | types, routes, redirects, answers to conditional requests and the contents of bodies, proved |

`Proxy` composes the component modules of the proxy: each one contributes
actions on the shared variables of `ProxyState`. `TimeoutHandler` extends
`HttpServer`, which uses `Transfer` for the requests it reads; its property
`ReplyIsDelimited` uses the client's half of `Transfer` to read the reply.

How state corresponds to the code:

* The manager is one goroutine. A handler of its loop is one atomic step up to
  the next point where it can block: a send on one of its own channels, or
  `HandlerLock.Lock()`. `pc` names that point and `cur` the client in hand.
  `"panic"` is the state between a panic and the next manager, `"crashed"` the
  end of the process.
* A client's `Client` and `ClientID` pointers are created together, so both are
  the client's name. A `Mount` is created by the arrival of a client, so its
  pointer is that client's name; this keeps an old mount and a newer one with
  the same mountpoint apart. `byID`, `length`, `active`, `clientQueue` and
  `shout` are functions of that pointer.
* `Length` is a variable of its own: the code counts separately from the map,
  and after a double collection the two differ.
* An absent entry of `HandlerMounts` is the empty list; the code never stores an
  empty list.
* `source` follows `sourceHandler`: `loaded` (connection hijacked, channel
  evaluated), `queued`, `adopted`, or `stranded` when the manager it chose is
  gone.
* `timers` counts the goroutines that sleep before they put a packet back.
* A destroyed libshout instance is `"freed"`. Using it is undefined behaviour:
  the process ends, or goes on with `freedUse` set. What happens after that is
  still modelled, and some properties say `freedUse \/ ...` because the
  code's bookkeeping really is wrong from then on.
* A data race on `HandlerMounts` (`SwapRacesAdmin`) may end the process, as the
  Go runtime does on concurrent map access.
* A metadata string is a record of who sent it and which request it came from;
  audio data is not represented. User name, password and host are one value.

In the modules of `http/`:

* Messages are sequences of tokens: a head, an end of head, a size, data of some
  units, a line end. Payload is counted in units (`SniffLen`, `MaxPostRead` and
  declared lengths too), its contents are not represented. What a header says is
  a record of the fields that the code looks at.
* A call of the response that waits for `WriteHeader` to drain the request body is
  several steps (`call` holds the rest of it), because the client acts in between.
  `tw[i]` is the goroutine of the timed handler of request `i`; the unlock in
  `timeoutWriter` and the call behind it are two steps.
* In `Transport` a goroutine's position is the last lock, channel or read it
  passed. A response carries the request it answers, or `NoRequest` if the server
  sent it unasked; no action looks at it. `wire[p].overtaken` is a history variable
  (see `Overtaken`); `events` bounds what comes from outside.
* In `Persist` each call is split where it waits for its turn or for the other
  end, and where it releases its lock.
* In `Site` a path is a sequence of segments and whether it ends in a slash;
  modification times are in half seconds, `Last-Modified` in seconds.

Actions have the names of the functions or cases they model; `PROJECT.json` maps
every definition to its lines. Next to some definitions stands a *variant*, the
same operator with a plausible bug. No specification uses it; replacing the
definition by it must make a property fail, which shows that the property
depends on the code.

## Runs

For the proxy, channels have capacity 1 or 2 instead of 5 to 1024, so that full
channels are reached; `QueueLimit` is 2, so that stale entries fill the
queue. Each client connects once; three or four of them suffice for live, waiting,
stale and rejected clients to exist together. Clients are interchangeable, hence
the symmetry (not in the runs with liveness). `DataCap = 0` leaves audio data
out of runs that are not about it. Deadlock checking is off everywhere: a bounded
number of clients or requests comes to an end, and the states in which something
is stuck are the subject of properties.

| Run | Checks | Shows |
|---|---|---|
| `succession` | `TypeOK`, `WaitingClientsAreQueued`, `LiveClientNotInLine`, `LiveClientNotPreempted`, `AdminListsInSuccessionOrder`, `AdminShowsLiveFirst`, `ReaderHasMount`, `ConnectedClientIsRead`, `LengthIsSize`, `RegisteredMountIsUsable` | four clients on one mount, all interleavings of joins, departures, rejections, swaps and collections |
| `metadata` | `MetadataStaysWithOwner`, `SongIsOfLiveUser` | two users, three clients, two metadata requests, delayed and overtaken by swaps |
| `restart` | `AdoptedConnectionNotLeaked`, `ReaderHasMount`, `ConnectedClientIsRead` | a fatal libshout error at any moment, and the next manager |
| `progress` | `FailedClientIsRemoved`, `QueuedClientIsTaken`, `EmptyMountIsCollected` | liveness, with a panic, kicks and admin pages going on; a client that is still in `Receiver` at a panic is excepted |
| `server` | `TypeOK`, `StreamInSync`, `ReplyIsDelimited`, `NothingHeldBack`, `RequestIsRead`, `HijackedIsLeftAlone` | both ends agree on where messages end, whatever the handler does |
| `transport` | `TypeOK`, `OwnResponse`, `OneUserAtATime`, `CloseIdleSparesBusy`, `RequestReturns` | connections pass from caller to caller, while the server also speaks unasked: nothing is mixed up, except on a connection where a caller's request was overtaken (`Overtaken`) |
| `pipelining` | `TypeOK`, `StreamsInSync`, `ImplementsPipelinedLink`, `DoReturns` | two ends of a pipelined connection implement the abstract link |
| `site` | `TypeOK`, `RoutesByPattern`, `RedirectsKeepTarget`, `ContentAsAsked`, `NotModifiedIsTrue`, `PartWriterEnds`, `GetEnds` | routing, redirects, ranges and caching while files change |

Bounds of the runs about `http/`:

* `server` (584,131 states): two requests on a connection. The first is any of
  13: each framing (none, chunked, a length that is right, or too large for what
  comes), both protocol versions, keep-alive, `HEAD`, expectations, malformed
  ones, a body twice the drain limit, a timed handler. The second, plain or with a
  body, is there to be misread. A handler writes at most two units, one more than
  `SniffLen`, so that both sides of the sniffing buffer are reached, with headers
  that declare nothing, a length, or a length and a coding at once.
  `LateReads = FALSE` keeps out handlers that ask for an expected body after they
  began to reply: the code then puts "100 Continue" into the middle of the reply
  (see below), and `ReplyIsDelimited` would only say so again.
* `transport` (511,821 states): two callers, three requests, two connections, a
  pool with room for one: enough for a connection to be given back, refused by the
  pool, taken over, closed by the server while idle or in use, and caught by
  `CloseIdleConnections` between its two halves. A body is read, closed or
  abandoned. The caller with two requests must take what the other left. The
  answers to it are of every kind, those to the other caller have no body. One event
  (`MaxEvents`) comes from outside, at any moment: a call of `CloseIdleConnections`,
  or a response without a body on the first connection that nobody asked for.
* `pipelining` (424,568 states): three requests on one connection, so that one can
  fail before, between and behind others; bodies both ways, `Close` on a request
  and on a response, failures of either end, `Close` and `Hijack` at any moment.
* `site` (195,961 states): six patterns registered in all orders (an explicit
  handler beside the tree of the same name, a redirect to itself, a host pattern),
  two requests one after the other from a list of 22, the second one conditional
  if the first was answered with content, and one change of a file, before, between
  or during them. Files have up to three bytes, which is enough for ranges inside,
  at and behind the end, and for two parts.

Disagreements between code and comments (expected violations; the quoted lines
are in `findings`):

| Run | What TLC shows |
|---|---|
| `stale_active` | the last client leaves and another joins before the collection: the newcomer is queued behind the departed `Active` and never goes live, although the window exists for it |
| `double_collection` | a mount that is emptied twice is collected twice; the second time uses a destroyed instance |
| `stale_kick` | a kick whose index is no longer in the list leaves `HandlerLock` locked, and errors are never handled again |
| `late_write` | a write that a timed-out handler had begun does not fail but lands behind the timeout message, in the next reply, or on a closed connection |

Other defects of the code that the models show, without a run of their own. Where a
property has an exemption, it is for one of these.

In the proxy:

* A client in `Receiver` when the manager panics is never read and never closed
  (`source = "stranded"`): the manager closes the channel (`manager.go:34`) and its
  successor makes a new one, although `http.go:221` leaves everything else to the
  manager. `QueuedClientIsTaken` says `"adopted"` or `"stranded"`, and so exempts it.
* Rejecting a client from a queue full of stale entries gets to the early return of
  `HandleClientDisconnect`, which leaves `HandlerLock` locked; and the live client
  leaving while `MetaChan` is full makes the manager wait for itself. Both are in
  `Wedged`, which the progress properties exempt.
* `SwapLiveClient` sends empty metadata for a client that never sent any;
  `HandlerMounts` keeps the clients of a manager that was replaced;
  `HandleMetadata` is called again for saved metadata when its client goes live.
* `NewPermission` never answers `PERM_META`.

In the HTTP server:

* A handler that reads an expected body after it began to write puts "100
  Continue" into its reply (`LateReads`).
* `finishRequest` closes an expected body that nobody asked for, which reads all of
  it, beyond `maxPostHandlerReadBytes`.
* `Connection: close` of an HTTP/1.1 request is not honoured: `readTransfer` leaves
  a request's `Close` unset (this also affects `ServerConn`). `body.res` is never
  set, so that `body.Close` does not see that the limit on a body was hit.
* A timeout after the handler wrote without calling `WriteHeader` appends the
  timeout message to a reply with status 200.
* The redirect that is registered along with a host pattern leads to `/host/tree/`.
* `FileServer` behind a file transport, which cleans no paths, answers a file asked for
  as `f/./` with the redirect `../.`, which leads to the directory around it.

In the client and the utilities:

* A `readLoop` that ends between `getIdleConn` and the counting of the request
  leaves the caller waiting for ever; `RequestReturns` exempts this (`Abandoned`).
* A response that nobody asked for is handed to a caller if it arrives while a
  response is expected, or before a caller counts its request: `readLoop` looks at
  `numExpectedResponses` only after `Peek` has returned (`transport.go:543-547`). The
  answer to that caller then goes to the next one. `OwnResponse` exempts connections
  where this has happened (`Overtaken`); where `readLoop` sees the unsolicited response in
  time, it closes the connection, and no caller gets it.
* The function of a `bodyEOFSignal`, run "at most once", runs twice if a body is
  closed while `Read` is calling it; its `readLoop` is then stuck, and
  `OneUserAtATime` and `CloseIdleSparesBusy` leave that connection out.
* A body that is not the gzip its header announces, or fails half way, leaves its
  `readLoop` waiting for it.
* The redirect limit lets ten requests through, so nine redirects.
* A range that starts at the size of the file gets an empty 206.
* A failed `ClientConn.Write` or `ServerConn.Read` returns only when it is its turn
  among the responses.

## Fairness

`FairSpec` of `Proxy` assumes weak fairness of steps that only their own goroutine
can disable (a handler that goes on, an admin page that finishes: its write has a
timeout), because the Go scheduler runs every runnable goroutine. It assumes
strong fairness of each case of the loop, because `select` chooses uniformly
among ready cases, and of steps that wait for `HandlerLock` or for room in
`Receiver`, because mutex and channel waiters are served in turn. Clients, users
and admins are not assumed to do anything; only a read on a closed connection
fails. The `progress` properties exempt the states in `Wedged`: the ways in which
the manager stops for good, which are the defects above, the end of the process
and use of a destroyed instance.

In the modules of `http/` a goroutine that can run does so (weak fairness), and the
other side is assumed to do no more than the code can count on:

* `TimeoutHandler`: the serving goroutine runs on and the timer fires; a handler
  that is not timed returns or panics at last (strong fairness: whatever else it
  can do in the meantime); a client sends the rest of a body it began, or goes
  away, which is what a read deadline makes of a client that does neither. Timed
  handlers, and clients between requests, need not do anything.
* `Transport`: callers in `roundTrip` and the `readLoop`s run; a server that holds a
  request answers it or closes. It need not speak unasked, and nobody has to read a
  body.
* `Persist`: goroutines in `Do`, `Read` and `Write` run, a request that was read is
  answered, and the user of a `ServerConn` closes it when `Read` has failed and all
  requests are dealt with.
* `Site`: goroutines run, and a caller reads a body to its end or closes it, as the
  documentation of `Client` asks.

## Refinement

`PipelinedLink` says what a `ClientConn` and a `ServerConn` promise together: the
requests, written by any number of goroutines, form one order; they are received,
answered and delivered in that order; and the answer that a caller gets is the one
to its request. `Persist` keeps the order of writing in the history variable
`sent`, and maps the counts to `nread` and `nwritten` of the two connections and the
deliveries to what each `Do` returned. `ImplementsPipelinedLink` is that abstract
specification, checked as a property of `pipelining`: failures, skipped turns,
`Close` and `Hijack` must all be stuttering steps. The same is proved, as
`PipeliningIsRefined`, for any number of goroutines.

## Proofs

A theorem holds for every value of the constants that satisfies the module's
assumption: `ConstantsAssumption` for the proxy (mountpoints and identities are
total, `Nil` is not a client, capacities are natural numbers), `PersistAssumption`
for pipelining (`Nil` is neither a request, nor a kind of response, nor an error),
`TransportAssumption` and `NilAssumption` for the pool (callers have keys, every
limit is a number, what a server may send unasked are responses, a body that fails to
decompress is a body, and `Nil` is none of the callers, connections, keys and
responses), and `ServerAssumption` for the server
(the fields of requests and replies have their types, and a client of HTTP/1.0, which
has no chunks, declares the length of a body that it sends), and for the site
`SiteAssumption` (handlers, files and requests have their types, the files are a tree,
and `Nil` is none of them) with `SegmentAssumption` (the names that the code itself
puts into paths are names). Three theorems need more than types and say so in their
statement: `OrderlyHandlers` and `OrderlySite`, below. Each invariant is proved with
one lemma per action or per kind of effect, and the properties were checked by TLC on
the instance of their run before.

Recursive functions (`Clean`, `Payload`, `sumRangesSize`) are proved about by hand:
the library's induction theorems cannot be instantiated here, but that a set of
numbers has a least element (`LeastNat`), and that numbers reach each other by steps
of one (`UpTo`), follow from the axioms of `Nat`. From them `DataLemmas` derives that
a function defined by recursion exists and satisfies its equations (`RecursionExists`,
`SumsExist`), and that what holds at 0 and is kept by a step holds at every step
(`Steps`, over a function that records the truth of it).

### The proxy

Every safety property that the runs check of `Proxy` is proved.

* `TypeCorrect`: `Spec => []TypeOK`. `TypeOK` alone is not inductive: a handler
  that blocked resumes with what it looked up before. `LoopOK` adds what it may
  rely on: it has a client, stored metadata is still stored, the mount is still
  registered, and after a swap the mount has a live client.
* `NobodyIsForgotten`: `Spec => []WaitingClientsAreQueued`, inductive with the
  type invariant. The interesting steps are `SwapLiveClient` (entries before the
  first connected one belong to nobody on the mount, so all others remain
  behind it), `RemoveLastLiveClient` (nobody in the queue is connected, hence
  nobody else is on the mount) and the exemption for the client that is being
  removed, which is confined to its own mount.
* `RegisteredMountsAreUsable`: `Spec => []RegisteredMountIsUsable`, strengthened
  by `RegisteredUnderOwnName`: a collection frees by pointer and deletes by name,
  and both hit the same mount.
* `LiveClientIsNotInLine` and `LiveClientIsNotPreempted` (an action property):
  from `PlaceInv`, which follows a client through its life. It is once in
  `Receiver` or adopted; only an adopted one is queued (once), live, on a mount or
  read; an error is pending once, and only of a reader that has ended; and the
  client that the manager is removing has a reader that has ended, or is nowhere
  live. Without the last part a swap could take the mount from a client that is
  still sending.
* `ReadersHaveMounts`, `ConnectedClientsAreRead`, `LengthIsRight` and
  `NoAdoptedConnectionLeaks`: one invariant, `BookInv`, because the four need each
  other. A mount is collected by its count, so a reader keeps its mount only while
  the count is right; the count is right only because `RemoveClient` finds the
  client on the mount that its mountpoint names; and that is so only while no mount
  is collected under a connected client. A second collection of a mount breaks the
  circle, after the destroyed instance was used: hence `freedUse`, as in the
  properties.
* `AdminListFollowsSuccession`: from `OrderInv`. The list and the queue are updated
  in different steps, so the invariant says that they agree on the order of the
  clients in both (`SameOrder`), that a newcomer who is not yet listed is last in
  the queue, and that a mount registered anew begins with an empty queue even if
  old rows are still listed.
* `FirstRowIsLive`: from `RowsInv`, which excludes old rows until a manager is
  replaced: a list without a mount is empty, and a row without a client is that of
  the client whose handler runs next.
* `MetadataIsNeverMixedUp` and `IcecastHearsLiveUser` (an action property): from
  `MetaInv`, which covers the packets in `MetaChan` and those that a delaying
  goroutine holds while the mount may change hands.

### Pipelining

`LinkInv` is the inductive invariant of `Persist`, in four parts.

* `TypeInv` (theorem `TypesAreKept`).
* `ClientInv`: numbers of the `textproto.Pipeline` are handed out once; who writes
  or reads has the number whose turn it is; the request at place k of `sent` has
  the number k - 1. Failures are what makes this hard: a caller that skips its turn
  to write moves the turn on without adding to `sent`. That it happens only once
  the connection can no longer be written to, so that nothing is written later, is
  `AllWrittenSoFar`; `AllReadSoFar` is the same for responses.
* `ServerInv`: requests are received in the order of `sent`, and the turn of a
  response is the place of its request (`Received`), as long as the server can
  write (`AllAnsweredSoFar`).
* `StreamInv`: in both directions a body follows its head, and only one that
  `lastbody` knows of may be in front (`WellFramed`); the messages under way are
  those between the two counts, in order (`InOrder`).

`MessagesStayWhole` (`Spec => []StreamsInSync`) follows from `WellFramed`: what
`lastbody.Close` leaves begins with a head. `PipeliningIsRefined`
(`Spec => ImplementsPipelinedLink`) shows that `WriteEnd` is `Send`,
`ReadRequestEnd` is `Receive`, `RespondEnd` is `Answer`, `ReadEnd` is `Deliver` of
the request whose turn it is, and every other step leaves the abstract state alone.

### The pool of connections

Every safety property that the run `transport` checks is proved, from `PoolInv`.

* `TypeInv` (theorem `PoolTypesAreKept`) adds to `TypeOK` that a caller between
  `getConn` and the end of its body holds a connection that was dialled, and that
  `numExpectedResponses` is at least the number of callers between `CountRequest`
  and `ReceiveAnswer` on it (`CountOK`). Without the last it could fall below 0, and
  `readLoop` could take an answer for an unsolicited response. It may be larger: a
  failed write never takes its request from the count.
* `PoolOK`: a connection is pooled under its own key, so that one place under each
  key is one place in the pool.
* `RequestsWait`: the callers in `reqch`, and the one that `readLoop` serves, are
  different, wait on this connection and have no result; what is about to be
  delivered answers the request of the one it is delivered to, unless the connection
  was overtaken.
* `Exclusivity`: a caller *claims* its connection from `getConn` until the response
  is read or, if it has a body, until the body is given up. A connection is claimed
  by at most one caller; one that is pooled (once) or about to be closed is claimed
  by nobody. And unless the connection was overtaken (`OwnWire`), its wire is quiet
  (`Quiet`: nothing is on it but perhaps an unsolicited response, as long as none is
  expected), except while the claimer has written its request and not been answered:
  then at most that request or its response is on it. This is why order alone pairs
  responses with requests. `readLoop` gives a connection without a body back *before*
  it delivers the response, so claims end at `ReadResponse` and not at
  `ReceiveAnswer`.

`ResponsesAreOwn` (`Spec => []OwnResponse`: a response that is not an error answers
the request of the caller that gets it, on every connection that was not overtaken by
an unsolicited response) and `ConnectionsHaveOneUser` (which holds on overtaken
connections too) follow directly;
`ClosingSparesBusy` is the action property, from the part about connections in
`reap`. A connection whose loop is `stuck` (the function of its `bodyEOFSignal` ran
twice and gave it back twice) is exempt from `Exclusivity`, as it is from the
properties; that it cannot answer anybody is why `ResponsesAreOwn` need not leave it
out.

### The server

`ServerInv` has three parts, and `SyncInv` is proved on top of it.

* `ControlInv`: where the goroutines are. The handler of a timed request runs beside
  its own request only, until the time is over; if it is in a call then, the call is
  `raced` and may interleave with anything later (`WriterOK`). A call of `WriteHeader`
  goes back to its caller, and `Body.Close` to the handler or to the end of
  `finishRequest` (`CallOK`); the flush of `finishRequest` comes before that
  `Body.Close` (`Flushed`); behind `Hijack` only the handler runs (`HijackOK`). From it
  follow `NothingIsHeldBack` and the action property `HijackedStaysAlone`.
* `InputTyped` and `ReplyInv` (theorem `ServerTypesAreKept`). A body reader that counts
  never reaches below zero because one inside a chunk has some of it left and a limited
  one is not read at its end.
* `SyncInv`. `StreamOK` says of everything under way, what the client still holds back
  included, that there is a reader in front of each token: it is at its end where a
  head follows, and belongs to the request whose body follows otherwise, up to a head
  that does not parse, where `serve` gives up. A step of `serve` moves these readers by
  one; a step of the client extends them by the readers of one more request, which the
  lemmas `ChunksTaken` and `PlainTaken` give for either framing: this is where what
  `transferWriter` writes meets what `readTransfer` and the body readers make of it.
  `RestOK` says that a reader is closed, and `serve` back at reading requests, only at
  the end of the body or where nothing more will come, or else that the connection is
  about to be closed: `WriteHeader` may leave a long body unread, but only together with
  `closeAfterReply`, which no later write takes back. `StreamStaysInSync` follows.

`RepliesAreDelimited` (`OrderlyHandlers => (Spec => []ReplyIsDelimited)`) is proved on
top of `ServerInv`, from `ReplyFits`: what is in `out` follows `serve` and the handler
through four stages, `Fresh` (no header yet, perhaps a "100 Continue"), `Begun` (a
header and its end), `Open` (and behind it data, or whole chunks, as many units as
`written` says) and `Closed` (and the last chunk, if it has chunks). `HeadFits` says
what the header tells the client in terms of `contentLength`, `chunking` and
`closeAfterReply`. The last step lets the client's half of `Transfer` loose on a closed
reply: it finds the end where `written` says, or the connection is closed.
`OrderlyHandlers` excludes three things, each of which breaks the property: a handler
that asks for an expected body behind its reply (`LateReads`, see above), one that sets
a `Connection` header of its own making (to an HTTP/1.0 client that asked for
keep-alive, the server then leaves a connection open that the client closes), and one
that declares a length with a code that has no body (1xx, 204). The instance of
`server` satisfies it.

### The site

`SiteInv` types the mux, the files, the client and the goroutines that copy (theorem
`SiteTyped`): each goroutine is idle before its Get, starts with ranges that
`parseRange` made, which are not negative, and copies no more than `SendSize`.

* `MuxRoutesByPattern`. `MuxOf` describes the map of the mux after any set of patterns
  was registered: the patterns themselves, and an implicit entry for each tree unless
  that path is a pattern too. `HandleKeeps` shows that the order does not matter, and
  `MatchIsRoute` that the longest match in this map is what `Route` says of the
  patterns.
* `RedirectsLeadToTarget` (`OrderlySite => (Spec => []RedirectsKeepTarget)`). What a
  caller asks for, `Wanted`, depends on the names of the files and not on what they
  are at a moment: a name without its dots and slashes, and the index page of a
  directory that has one. `FilesInv` says that every request on the way is for the
  same (`Toward`), and that the redirects behind it and those still to come
  (`Cost`) are four at most: one that cleans the path, then index page to directory,
  directory to file and file to the path without its slash can follow each other
  once. `LedKeepsAim` shows that each of the three redirects of `serveFile` keeps
  `Wanted` and lowers the cost; `LedResolves` and `LedLifts`, that resolving its
  relative `Location` at the URL of the request, prefix and all, leads there; and
  `ProxyInv` does the same for the pages of the proxy, where at most two redirects
  (one to a clean path, one from the kick to the list) follow each other. So the
  limit on redirects is never met.
* `NotModifiedHolds` (`OrderlySite => (Spec => []NotModifiedIsTrue)`). Only the first
  request of a Get is conditional (`SinceInv`), and nobody but the file server answers
  304, to a request that is for the very file the copy was made of (`UnmodifiedInv`,
  `CopiedInv`). Files only become younger, so the date of the copy is a lower bound of
  the file's (`DatedBy`), and the check of the server gives the upper one.

* `ContentIsAsAsked` (`Spec => []ContentAsAsked`, for every site). `BodyInv` follows a
  body from `serveContent` to the caller: the goroutine copies the ranges that the
  reply announced, which are the whole file or what `parseRange` made of the header
  (`AsAsked`), and what it has sent so far is the beginning of a range (`Single`), or
  all parts in front of the one that is being written and the beginning of that one
  (`Parted`). Nothing in it needs the order in which goroutines run: as long as
  something is left, the writer of the parts is not done (`PartedLeft`); no part
  reaches behind the end of the file (`PartedInFile`, `RangeIsAsked`); so neither of
  them ends or fails early while the body is read (`EndsWhole`, `PartFailsBody`).
  `RangeIsAsked` compares what `parseRange` computes from a header with the set of
  bytes that the header asks for, in order (`InOrder`), and `FlattenIs` the parts one
  behind the other with the function by which `FlattenSeq` is defined.

`OrderlySite` says of the patterns, never of the requests of a caller, except for one
case: a tree of files is registered with the prefix that is stripped from its paths
and no other pattern lies in it (else a redirect may leave the tree); the page of the
administrator, to which a kick leads, is the proxy's; and the file transport, which
has no mux to clean its paths, is not asked for a directory by a name that ends in a
dot ("f/./" is answered with the redirect "../.", which leads to the directory above).
The proxy registers its pages so, and TLC assumes it of the instance.

### Only model-checked

* Liveness, which the prover does not handle (nor `ENABLED`): the properties of
  `progress`, `RequestReturns`, `RequestIsRead`, `DoReturns`, `PartWriterEnds`,
  `GetEnds`.
* `TimedOutWritesFail` and the other properties of the runs that expect a violation.

## Not modelled

In the proxy: the contents of data and metadata; hash collisions; the recover
branch of `ReadInto` (its body cannot panic, and a nil error would only break the
log line); `NewMount` panicking on a missing configuration; a read of zero bytes
without error; options of libshout; the building of a `ClientID` from the fields of
a request; `ParseMetadata` (a call of iconv); configuration and start (read once);
the database and bcrypt (a table of users stands for them).

In `http/`:

* what a data race inside the response could do when a late write of a timed-out
  handler meets the serving goroutine (the order of whole calls is modelled);
* the accept loop, TLS, and proxies of a transport; a failed TLS handshake, after
  which the code leaks the connection;
* parsers and formatters of text: header syntax, cookies, forms, content sniffing
  beyond its buffering, MIME types, dumps, directory listings beyond their being
  one; range headers outside the grammar (`parseRange` accepts signed numbers);
* replies that may have no body (204, 304) apart from 304, which stands for them;
* messages of `Persist` are written whole or not at all: a request whose body cannot
  be read to its end, which leaves part of a message on an open connection
  (`persist.go:330-336`), does not occur;
* `Base` is the last segment of a path as it is written, where `path.Base`
  (`fs.go:288`) first strips all trailing slashes: they differ only for paths that no
  mux has cleaned;
* a write of a timed-out handler on a connection that another handler's panic closed:
  `WritesOnClosed` allows a crash there too, although `server.go:592-594` leaves the
  buffer in place (it allows more than the code does);
* `httputil/chunked.go` (a copy of `http/chunked.go`), the reverse proxy (one
  request and one response copied), `httptest` and `pprof` (tools), CGI and FastCGI
  (they translate requests for other processes; the proxy does not use them).

## Plan

1. `Succession`: an abstract specification of a mount (a line of clients, the first
   is live) and the refinement by `Proxy`, up to the stale `Active`.
2. FastCGI: the multiplexing of requests in `http/fcgi/child.go`.
