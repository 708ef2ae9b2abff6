# Verification of the KernelHttp library

TLA+ models of `src/src/KernelHttpLib`, a Windows kernel-mode HTTP/1.1, HTTP/2 and
WebSocket client library with its own TLS over WSK, with TLC runs on small instances and
TLAPS proofs of central invariants. `PROJECT.json` maps every definition to the lines it
models and lists the runs, mutants, hazards, findings and theorems.

## The system

| Component | State | Operations | Interacts with |
|---|---|---|---|
| Handle table (`engine/Engine.cpp`) | four lists of active handles under one lock; `InFlight`, `DrainEvent`, `Closed` in each handle | create/register, begin/end operation, close (unlink, drain, free), close all on unload | everything: each API call is an operation on its handle |
| Request handles (`engine/Engine.cpp`) | method, URL, headers, trailers, TLS override, a borrowed or an owned body | setters, multipart building, the clone of an asynchronous send | the send pipeline |
| Connection pool (`engine/ConnectionPool.cpp`) | entries (key, layers, `InUse`, stream leases, `LastUsedTime`, `CloseWhenIdle`), `ActiveCount`, under one mutex | acquire, release, promote to an HTTP/2 lease, close, shutdown | called by the send pipeline, shut down by the session's close |
| Send pipeline (`engine/HttpEngine.cpp`) | per request: acquired entry, statuses; writes the layers of the entry without a lock | connect, proxy tunnel, TLS and TLS 1.2 confirmation, HTTP/1 or HTTP/2 exchange, fresh-connection retry, redirects, response decoding | pool, WSK, TLS, HTTP/2, requests, URLs |
| Asynchronous runtime (`engine/Async.cpp`) | operations (references, `Canceled`, `Completed`, `State`, `Status`), a bounded queue, a semaphore, four worker threads, a drain event | create, queue, cancel, wait, release, the worker loop, drain | runs the sends of the HTTP and WebSocket engines; holds the session through their contexts |
| WebSocket engine and client (`engine/WsEngine.cpp`, `client/WebSocketClient.cpp`, `websocket/`) | connection, fragments and text state in both directions, two close flags, two locks | connect, send, receive, ping, close | a transport over TLS, TCP or an HTTP/2 stream; its session |
| HTTP/2 (`http2/`) | streams, windows, settings, two locks; HPACK's dynamic tables | send request, receive response, serve frames of other streams, GOAWAY; encode and decode header blocks | shared by the requests that hold leases |
| TLS (`tls/`) | handshake and transcript, keys and sequence numbers, session and ticket caches | connect, send, receive, key update, close | transport, crypto, certificates |
| Certificates (`tls/CertificateValidator.cpp`, `CertificateStore.cpp`) | the store: anchors, bundles, pins, revocations | parse, build the path, validate | TLS |
| WSK (`net/`) | sockets, IRP contexts with two owners, rundown counters | connect, send, receive with timeout and cancellation, close | Windows sockets (external) |
| HTTP/1 (`http/`), URLs (`engine/UrlParser.cpp`) | sequential data | parse, build, decode through two buffers | the engine |
| Workspaces, CNG provider cache, crypto, stand-alone clients, public wrappers (`khttp/`) | | | not modelled |

What is hard here: several threads share a pooled HTTP/2 connection; pool accounting is
adjusted by hand on many paths; handles, operations, sessions and sockets are freed while
other threads may still hold their addresses; a cancel races a worker; unloading races
sends; timeouts race late answers and are followed by replays; both ends of TLS, HPACK and
flow control must change their state at the same point of the byte stream; and everything
that is parsed comes from the network, cut anywhere. These are the hazards listed in
`PROJECT.json`.

## The modules

**Pool and sends.** `ConnectionPool` has the pool's operations as operators from table to
table; each is one critical section of the pool mutex. A key is reduced to what its
comparisons tell apart. `HttpSend` extends it with request threads: one pass of
`SendSingleHttpRequest`, split at every network wait, because between two pool operations
it runs without a lock on an entry others may share. The peer, the network and TLS appear
as outcomes of those waits (`Faults` selects timeouts and TLS failures, `StreamLimits` the
limits peers announce). `Tick` advances the clock, `Shutdown` is the session's close.

**Handles.** `HandleTable` is one of the four lists. Addresses are reused after a free, so a
thread may come with a stale handle. `EndHandleOperation` is two steps (the interlocked
decrement and the event), all else one critical section each.

**Asynchronous runtime.** `AsyncRuntime` has the operations with an owner and somebody who
may cancel, the workers, the drain and the session the operations are counted in. A step is
one interlocked operation or one section of the queue lock; the three stores of
`CompleteOperation` are three steps, a failed start of the threads is included. The
routine is a step into and a step out of the send: what happens in between is `HttpSend`.
Only the kernel build is modelled. Assumed of the client: it does not release an operation
during another call on it. `OneShotOperation` is the abstract specification, what a client
may rely on; `ImplementsOneShot` is the refinement, with the exchange of `Completed` as the
point of decision and the event as the point of publication.

**Sockets.** `WskSocket` is one socket with the calls of `net/WskSync.h` on it: a context per
call, owned by the caller and by the completion; the wait with its timeout, the cancellation
and the second wait; the hand-over to a late completion; the reusable IRPs; the rundown
that a close waits for. The provider is external: it completes a request at some time, with
success or, after `IoCancelIrp`, with the cancelled status. `WskClient` is `Initialize`,
`Shutdown` and the count of outstanding contexts with its event. `MCWsk` runs both side by
side. Whether calls overlap and whether allocations fail is chosen in the initial state.

**HTTP/2.** `Http2Connection` is a connection after `Initialize`, shared by requests that call
`BeginRequest`, `ReceiveResponse` and, after a failure, `ReleaseStream`. `DispatchFrame` and
what it calls are operators from connection to connection and status, in the order of the
code's checks; a read and its dispatch are one step, because only the holder of
`receiveLock_` reads and `stateLock_` is held for the whole dispatch. The peer sends any
frame for any stream it knows. A header block is what the code makes of it, DATA a content
and a payload length. `ledger` is history: the peer's flow control accounts. `Hpack` has the
dynamic table in its ring of entries and its byte buffer, the encoder with its size updates,
the decoder with its limits, and the integer and Huffman codings, next to an independent
receiver of RFC 7541 (`RfcDecode`). The widths of the wire format are constants, so that all
inputs of a narrow format can be enumerated.

**TLS.** `TlsMessages`: what the client offers, what a server may say (well formed, malformed
or unsupported) and the status its parser returns. `TlsHandshake`: `Connect` for TLS 1.2 and
1.3 as a thread that waits for the server, so that a step is one message of the server and
all the client does until it reads again; with resumption by id, ticket and PSK,
HelloRetryRequest, client certificates, early data, the caches with their clock, the failure
categories and the callers' second attempt at TLS 1.2. A digest is the sequence of messages
it was fed, a chain the verdict on it. `TlsConnection`: an established connection, `Send` and
`Receive` on two threads or one, records under a key generation and a sequence number, key
updates, tickets and certificate requests after the handshake, timeouts inside a record.
`MCTls` shows one or the other.

**Certificates.** `CertificateDer` reads them: DER elements on octets, above that a tree of
elements, with times, names, extensions and PEM. `CertificateChain` is `ValidateChain` with
the `CertificateStore`; a signature is the key that made it. `CertificateScenarios` has
certificates described by what they say, the trees they are sent as, and the path rules of
RFC 5280 stated about the descriptions.

**WebSocket.** `WebSocket` is one `KH_WEBSOCKET`: the engine's handle over a
`WebSocketClient`, with senders, a receiver and a closer. A frame leaves in two writes, its
header and its payload, and arrives in two pieces; the peer chooses a frame when it is read
and parses ours as it is written. A payload is units of text, of which one may end inside a
character; control frames have payloads too, which a receive drops between two fragments and
refuses when they are longer than the caller's buffer. An HTTP/2 stream may end with what is read.
The peer sends a bounded number of frames, which are recorded for `MessagesWhole`, or frames without end,
which are not (`use.endless`). `Duplex` lets a receive run while a send does.

**Messages.** `HttpMessages` parses responses (framing, chunks, trailers, transfer and content
codings through `DecodedBody` and `ScratchBody`) and builds requests, on symbols: a status
line or a field is one symbol, chunk sizes and bodies are spelt out. `MessageScenarios` has
responses as a server means them and what RFC 9112 makes of them. `Codecs`: gzip and zlib
wrappers, and compress with its widths as constants. `Names`: UTF-8, Punycode, IP literals
and the matching of certificate names. `Urls`: parsing a URL and building the one of a
redirect. `Requests`: a request handle with borrowed and owned bodies, an allocation that
fails in any one of a setter's steps, the clone a send works on and the redirects it follows. `MCMessages` puts these to TLC: a
behaviour is about one subject, a request handle, one direction of HPACK, a text that grows
symbol by symbol, or a message or certificate chain that departs step by step from the
plainest one. Reference definitions (`RfcDecode`, `MessageScenarios`, `...Right` operators)
are written from the RFCs and not from the code.

`MC*` modules hold the instances and the symmetry sets; `*Proofs` the theorems. Operators
marked *mutant* change one operation the way a plausible bug would; no specification uses
them, and each property is broken by one.

## The runs

| Run | What it shows | Instance |
|---|---|---|
| `pool_exclusive` | quota, slot leaks, replay bound, idle expiry | 3 requests of any policy to 3 hosts, 2 slots, 1 connection per host, timeouts, clock to 3 |
| `pool_shared` | requests that share HTTP/2 connections do not take them from each other (`SharedConnectionSound`: ownership, exact leases, layers); doomed ones drain | 3 requests that are not replayed, stream limits 1 and 2 |
| `pool_secure` | identity, TLS inside the tunnel of its own socket, every request ends | 2 requests, proxy, timeouts and TLS failures; liveness |
| `pool_shared_retry` | *violation*: a retry closes a connection others lease | 3 replayed requests, limits 2 and 3 |
| `handles` | no handle is freed under an operation, every close ends | 2 addresses, 4 threads; liveness |
| `async` | references, session lifetime, a quiet driver after the drain; implements `OneShotOperation` | 2 operations, 1 cancellable, 2 workers, depth 1, 1 drain |
| `async_drain` | every accepted operation completes, the session closes | 2 operations, 1 worker, depth 1, 1 drain; liveness |
| `wsk` | contexts, IRPs and sockets freed once and not lost, a close waits for the calls, every call returns; the event of the client | 3 calls, overlapping or not, with and without failing allocations; 4 threads with contexts; liveness |
| `http2` | frames reach their stream, windows agree with the peer's, success means a whole response, every request returns | 2 requests, with and without body, any 3 frames, stream limits 1 and 2, a transport that may fail; liveness |
| `tls` | keys in step with the peer's, data in order, success means an authenticated handshake over one transcript, conforming servers are accepted, no fallback without evidence | 11 sets of options, one connection and a resuming one, any message of the server at any point; 3 records out and 4 in, sequence numbers to 3, key updates by either side |
| `websocket` | frames on the wire are well formed, messages arrive whole, nobody uses a freed transport, every close ends | 2 senders, a receiver, a closer; up to 3 sends or 3 frames of the peer, of 14 kinds, over HTTP/1 and HTTP/2; two peers that send 6 kinds of frames without end, to a client that answers Pings and to one that does not; liveness |
| `messages` | HPACK stays in step, codings are exact, responses and requests mean what was meant, names and URLs agree with their RFCs, chains are sound, what is sent is what was submitted, redirects are safe | 5 header blocks, texts of 3 to 9 symbols, 3 departures from the plainest message or chain, 2 calls on a request and 2 redirects |

Bounds. Two slots and two connections per host are enough for reuse, eviction of another
key, quota eviction and two entries of one host; three requests for two sharers and a
newcomer. The clock runs past the idle timeout and a reuse after it. Two addresses and four
threads give a close, an operation, a competing close and an allocation at the same address.
Two operations with a queue of depth one give a full queue, an operation running while
another waits, and a refused one. Three calls on a socket give a timed-out call with its late
completion, a call that reuses the IRP and a close. On an HTTP/2 connection two requests give
a reader that serves another stream and a body that waits for window under both locks; three
frames give a response with DATA and trailers or two CONTINUATIONs, a stream error met by the
other stream's reader and SETTINGS between the DATA of two streams; a window of three with
frames of two gives exhausted windows and updates. A TLS handshake is bounded by its own
messages; two connections give a session that is made and one that is resumed or evicted
(the cache holds one), and the record limit of two a message in two records and one too many.
A `Send` of two records with a key update between them, and a peer with four records, give
every order of the flag, the new keys and the data. Three frames of the peer give a message in
two fragments with a control frame between; how long a receive can last is a matter of the peers
without a bound, with messages of two units and one control frame in a receive. Two calls on a request
give a multipart body whose Content-Type cannot be stored behind one whose was. The texts of `messages` are long enough for every
branch of their parsers with the narrow formats chosen (9 bits are compress codes on both
sides of a change of width, 5 symbols of a location are `/../a` and `a?#./`), and three departures
combine any three peculiarities of a response, a request or a chain. Requests, workers and
threads that are interchangeable use symmetry where no liveness is checked.

Deadlock is not checked where the model ends: all operations released, calls returned, the
handle freed, texts at their length (`async`, `async_drain`, `wsk`, `http2`, `websocket`,
`messages`). In `HttpSend`, `HandleTable` and `MCTls` there is always a step.

Fairness. A thread inside the library goes on (`WF` of its steps): kernel threads are
scheduled, and every wait of the code has a timeout or is for another such thread.
`RoutineEnds` and the network steps are fair because each transport wait has a timeout.
Clients are only assumed to release their operations in `AsyncRuntime`'s `FairSpec`
(`SessionCloses` is about that); nobody has to create, cancel, drain or close. In `WskSocket`
the provider completes what it was given; see below for one that does not. In
`Http2Connection` some caller inside the library goes on: a read ends with a frame, a failure
or the timeout of `WskSocket::Receive`, and the frame budget bounds the frames. In
`WebSocket` each thread that is inside a call goes on, and the wait for the peer's Close ends at
its deadline (`WF` of `WaitEnds`) also where frames keep coming. That is not enough for `ClosingEnds`: a
close waits for the receive inside, which counts control frames and limits the length of a
message, but has no limit for empty fragments that are not the last (`WebSocketClient.cpp:1865`). The property
has it as its hypothesis that from some time on none is read; against a peer that goes on sending them TLC
finds the close that never ends.

## Where the code departs from its documents

`pool_shared_retry` is the violation that is kept as a run: a `GET` that fails on a shared
HTTP/2 connection closes it for its retry without looking at the leases of others.

These are stated in the modules, and TLC refutes them when they are added to the cfg:

* `SignalsLive` (`HandleTable.cfg`): `EndHandleOperation` sets the event after the decrement
  that lets the closer free the handle (`docsite/async-model.en.md:7`).
* `IrpsOwnedOnce` (`MCWsk.cfg`): a timed-out call on a reusable IRP leaves the rundown before
  it hands the IRP over; a close that runs in between frees it (`WskSync.h:36`).
* `StreamErrorsStayLocal` (`Http2Connection.cfg`): `ReceiveResponse` returns the error of any
  frame it dispatched, so one stream's error fails the request that reads
  (`docs/capability-gap-closing-plan-phase2.md:151`).
* `ClientCertificatesWork` (`Tls.cfg`): a TLS 1.2 client sends its Certificate after its
  ClientKeyExchange (`TlsConnection.cpp:2525`; `README_en.md:44`).
* `WireWellFormed` and `TransportOutlivesUse` with `Duplex = TRUE` (`WebSocket.cfg`): the receiving
  thread writes its Pongs and its Close without `SendLock`, in the middle of a frame of another
  thread, and either closes the transport the other is using
  (`docsite/low-level-api.en.md:807`).

Limits met while modelling, outside the bounds or the statements of the passing runs:

* Pool: with timeouts, a request that joins a shared connection after one stream's timeout
  closed the socket frees the layers a third one is using.
* Runtime: `RunOperation` stores `Running` unconditionally and can overwrite `Completed`; a
  second drain after a timed-out one passes the semaphore's limit. A failed start adds twice
  as many permits as there are workers, which the depth of 256 makes room for.
* WSK: the close request is waited for without a timeout; `WskClient`'s event may be set after
  a new context has been counted.
* HTTP/2: the slot of a stream ended by RST_STREAM is never released, and a RST_STREAM with
  `NO_ERROR` after the response fails the request (`docsite/http2.md:57`); GOAWAY reaches no
  active stream, so the `STATUS_RETRY` of `docsite/http2.md:56` does not happen; DATA and header
  blocks of released streams are dropped without credit and without decoding; a stream one of
  whose frames failed under another reader may report success (`SuccessIsComplete` leaves it
  out); a response to HEAD, or a 304, with a content-length is refused.
* HPACK: only the last of several sizes is announced, which is harmless because a reduction
  that is not announced leaves the receiver with more entries at the same indices; a block
  given up after its first insertions leaves the tables apart (`Http2Connection.cpp:865`).
* TLS: with an accepted TLS 1.3 ticket the code still waits for a Certificate
  (`TlsConnection.cpp:3369`); a TLS 1.2 session with a ticket and no id is not recognised as
  resumed (1073, 2150); `serverHello.SessionId` points into a buffer that is reused (1184,
  2746); early data is sealed with SHA-256 also for a SHA-384 ticket (2773); the identity of
  a session leaves out `VerifyCertificate` (1908); a ServerHello the client cannot use counts
  as a version failure (3009; `docsite/tls-and-certificates.md:10`); a handshake record after
  a TLS 1.2 handshake is copied into a buffer that has been released (4618); answers to
  certificate requests after the handshake are written by `Receive`, hence only one-threaded
  callers have them in the model.
* WebSocket: `SendFrame` that fails for want of memory between the chunks of a message leaves it
  unfinished (`hist.torn`); `CloseEx` does not wait for the peer's Close
  (`docsite/websocket.en.md:9`); the checks of the engine before `SendLock` are repeated by the
  client under it. A receive that returns inside a frame without giving up the connection (no memory, a
  Pong that could not be built) forgets what it had read of it, and the next one begins in the middle of the frame:
  `MessagesWhole` claims nothing from there on (`hist.lost`). A message whose callback or copy fails
  is gone. Without automatic Pongs, a Ping or Pong between two fragments is handed over with its payload
  dropped (`WebSocketClient.cpp:1674`, 1724), and one longer than the caller's buffer ends the connection; so
  does such a Close, which is then not delivered. Messages behind the end of an HTTP/2 stream that was read together with them are
  not delivered once a receive has returned, and a violation found there is not answered by a Close (2472). Empty fragments hold a receive, and a
  close, as long as the peer likes (above).
* Names: a label with U+10FFFF is refused (`UrlParser.cpp:282`, `CertificateValidator.cpp:1749`), and so is an IPv6
  address whose end is written as an IPv4 one (RFC 4291, form 3: `::ffff:1.2.3.4`), so that a certificate is searched for
  such a host among its DNS names. `NamesAgree` states both as exceptions.
* Certificates: the greedy path does not come back from a cross-signed certificate; an expired
  root that is sent along is refused; a self-issued certificate ends the path; the common name of
  an intermediate without DNS names is held against DNS constraints; a host with a trailing dot
  does not match. `ChainSound` demands acceptance only where there is nothing to choose.
* URLs and redirects: an absolute or scheme-relative Location is not dot-normalised and a
  scheme-relative one loses the inherited fragment; trailers survive the rewrite to GET, which
  is then refused when it is built.
* Requests: `SetRawBody` and `SetBody` without a type keep the previous Content-Type; a failed
  multipart build leaves a Content-Type without a body; a Content-Type that cannot be stored leaves the new
  body without one, or, if the text of a multipart one finds no memory, with the boundary of an earlier body
  (`Engine.cpp:1560`, 2858: the call returns an error and keeps both). `SentAsSubmitted` claims the Content-Type only
  after a call that succeeded.
* Codings: after a CLEAR code the compress reader does not skip to a group boundary; raw DEFLATE
  that looks like a zlib header is read as zlib.

## The proofs

Every theorem holds for all values of the constants the named assumptions allow, with the
hypotheses given here and no others. `PROJECT.json` lists the theorems and the property of a run
each one states.

**Assumptions.** `PoolAssumption`, `SendAssumption` (with a finite set of requests, because a
lease count is a cardinality), `HandleAssumption`, `AsyncAssumption` (`"none"` is not an
operation: it marks a worker without one), `WskAssumption`, `ThreadsAssumption` (a finite set of
threads), `RequestAssumption` (the URL parser accepts `http` and `https` and nothing else),
`Http2Assumption`, `TlsAssumption`, `RecordAssumption`, `WebSocketAssumption` (a finite set of senders, because
`InFlight` is a cardinality, who are neither the receiver nor the closer). Each is in the module that declares the constants, and TLC
evaluates it in the runs.

**Pool and sends** (`HttpSendProofs`). First the operators of the pool, then three invariants that are
built on each other.

* `PoolInv == TypeOK /\ Consistent(Entries, ActiveCount)` gives `ActiveCountCorrect` and
  `QuotaCorrect`. `Consistent` adds to the exact count and the quota that an entry in use is
  connected: the quota counts connected entries and eviction takes entries that are not in use,
  so without it a fresh connection could be counted twice or not at all.
* `LedgerInv` gives `ReplayCorrect`, `NoLeaks` and the action property `DoomedDrain`: leases never
  exceed the holders of an entry, an entry in use has a holder, a doomed entry is leased,
  connections are numbered in the order they open, and the sends made so far follow from where the
  request is. No hypothesis: it holds also where a retry closes a shared connection, which is why
  leases are only bounded here and not exact.
* `KeptInv` (a request finds in its slot the connection it acquired, leases are exact) gives
  `ConnectionsKept` and `ExpiredNotReused`, if no connection is shared (`Unshared`: the peers allow
  one stream) or no request is replayed (`NoReplay`). `LayersInv` (whose layers a connection has, at every
  place of the pipeline) gives `SharingSound` and `IdentityKept`, if no connection is shared or
  there is neither a replay nor a link fault (`Undisturbed`). The hypotheses are needed: run
  `pool_shared_retry` is a counterexample to the first, the timeout described under *Limits* to
  the second.

**Requests** (`RequestProofs`), for any targets, names, limits, number of calls and of redirects.
`RequestInv` is `CallerInv` about the handle and `SendInv` about the send.

* `CallerInv`: the owned buffer holds what its length says (`Store`), and a length other than zero points
  to the caller's buffer or to the owned one of this generation (`Sound`). `Kept` says what is there: after a
  call that succeeded the body it asked for, with its boundary as the only Content-Type if it is multipart;
  after one that failed that body or nothing, and of the Content-Type nothing can be said; a lent buffer is not empty
  (`Lent`). A setter may fail after any piece, so the lemmas follow a body under
  construction (`Built`, `Builds`): it begins empty, each piece is appended or nothing has changed but
  the capacity, and a call ends with the body whole or dropped (`SetsBody`).
* `SendInv`: the request a send works on is the caller's own while the caller waits, and otherwise
  one whose body is not borrowed (`Current`); that is why nothing the caller does changes what
  will be written (`OwnContent`, `CallerLeavesSend`). `CloneFacts` says that a copy is written like its
  original. For redirects the invariant is about the request that will be written next, not about
  the one on the wire: `RedirectFacts` shows that one more redirect keeps `Follows`. That a secure
  request stays secure needs the assumption, since the code refuses only a step from `https` to `http`.

It gives `SubmittedIsSent` and `RedirectsSafe`.

**Handles** (`HandleTableProofs`): `HandlesOutliveOperations` (`UsedIsLive`), `HandlesClosedOnce`,
`InFlightCorrect` and the action property `NoLateOperations`, for every set of handles and finite
set of threads. The inductive invariant `HandleInv` joins them with `Ownership`: listed handles
are live, a thread that creates owns its address alone, a thread about to free has read
`InFlight = 0`. `UsedIsLive` alone is not inductive: that no operation is under way when the
memory is freed follows from the exact count, and that the memory is still the closer's from
`ClosedOnce`.

**Asynchronous runtime** (`AsyncRuntimeProofs`). `AsyncInv` has four parts that are proved one after
the other: `Placement` (an operation is at most once in the queue, on the list the drain unlinked or
with a worker; the phases of runtime and drain), `References` (its references are those of the
handle, of that place and of the send that is queueing it), `SessionLedger` (the session counts it until
its end is recorded) and `Completions` (who has claimed `Completed`, and that no send of a
decided operation runs). They give `SessionSafe`, `NothingForgotten` and, with the step-by-step
refinement of `OneShotOperation`, `OneShot`. The mapping shows the runtime as unloaded when it has
ended and its worker threads have too: between the two a worker may still finish its operation.
`DrainQuiet` assumes `MaxDrains <= 1`, with `PermitsBounded`: unloading drains once
(`Lifecycle.cpp:8`); a second drain after a timed-out one adds its permits to those nobody took
and passes the semaphore's limit.

**Sockets** (`WskProofs`). `SocketInv` says for each step of a call what its two contexts look like,
which calls may run together, whose each native socket is, who may close it, and that the rundown
count is the number of calls that hold it. It gives `RundownCorrect` and `ReferencesCorrect` for
any number of calls and both disciplines. `IrpInv` adds, where one call runs at a time, that every
IRP was freed once, belongs to the socket or has exactly one context that will free it; it gives
`FreedCorrect`. With overlapping calls the IRP part is false (`IrpsOwnedOnce` under *Where the code
departs*), and `FreedOnce` claims it only for the exclusive discipline. `NoLostWakeUp` is about
`WskClient` for any threads; `ClientInv` follows each thread between the count and the event.

**HTTP/2** (`Http2Proofs`), for any number of requests and slots, any windows, limits, frames and
transport failures. `H2Inv` is `ConnInv` about the connection and `Callers` about who uses it.

* The parts of `ConnInv` need each other. `WindowsAgree` is `Balanced` and `StreamBalanced`, but a
  frame changes the accounts of a stream number and the windows of a slot, so `Table` says that a
  number is in one slot and below the next one to give out; and a new stream starts in balance
  only because nothing is booked on a number that was never given out (`Blank`). `Whole` is what
  success and the header buffer need: unless one of its frames failed, a stream has all content the
  peer sent, its own fragments in the buffer, and its state says whether the peer has ended it,
  which a block that still expects a CONTINUATION keeps in `PendingHeaderEndStream`.
* `Callers` says that every stream in the table is some request's, that no two requests have the same
  one, that a request in the middle of its body holds `stateLock_` and an open stream (else the
  SETTINGS read by another caller could come between reading a window and drawing on it), and that
  a stream number is left for every request that has none yet.

The proof goes by the operators of the frame dispatch: each has a lemma on what it leaves alone and
what it does to the accounts (`Touch`, `Quiet`, `Received0`), composed by `StreamFrameKeeps` for the
frames of a stream and by one lemma each for SETTINGS, WINDOW_UPDATE and GOAWAY. It gives
`WindowsAlwaysAgree`, `FramesAlwaysReachTheirStream` and the action property `SuccessIsAlwaysComplete`.

**TLS** (`TlsProofs`). `RecordInv` is about an established connection. `KeysInStep` needs to know where
the peer's read key is at each place of `Send` (`InStep`), that all records so far were sealed before
the present write key (`Sealing`: freshness of the next nonce is not visible from the last one), and that `Send` has
not looked at the flag since data went out behind a request (`Owing`). `DataInOrder` needs where the peer's
data is between the record, the rest of the last record and the caller (`Taking`, `Giving`), and both need `Turns`:
only one-threaded callers answer certificate requests. `HandshakeOk` is the invariant of a
handshake: while it runs nothing has been recorded as failed (`Ready`), each way to fail ties
what it records to its cause, and before the first ServerHello of TLS 1.3 exactly one message has
been exchanged. It gives `FallbackCorrect` for any options, caches and messages.

**WebSocket** (`WebSocketProofs`), for callers that do not receive and send at once (`~Duplex`). `LifeInv`
says where each thread can be and what it writes (`Places`, `Purposes`), that one call at a time uses the
transport (`Turns`: `SendLock`, the drain and the caller's own order), and that whoever reads or writes has
a transport (`Connection`; not a connection: the end of an HTTP/2 stream clears `connected_` and leaves the
transport); it gives `TransportSafe`. `WireInv` adds that only the
thread in the middle of a frame has one open and nothing follows a Close frame (`Framing`), and that
the peer's parser agrees with the client (`Fragments`): between two messages about the open fragment and its
text, between two frames of one message that the units still to come complete the text the client has
already checked (`Chunking`, from the lemma `Utf8ByUnit`: a body may be checked unit by unit). Without
`Chunking` the well-formedness of the last frame does not follow from that of the ones before. It gives
`WireCorrect`. With `Duplex = TRUE` TLC refutes both properties: the receiver writes without `SendLock`, and
either side may close the transport the other is using.

**Only model-checked.** All liveness properties (fairness and `ENABLED` are outside the prover's
reach). What recursive and folded definitions compute: `Hpack`, `Codecs`, `HttpMessages`, `Names`,
`Urls`, `CertificateDer`, `CertificateChain` and the properties of `MCMessages` over them; induction
over data and modules with `RECURSIVE` operators are outside it too. `EstablishedIsAuthenticated`
compares the handshake with the legal one by `SelectSeq`, which is recursive;
`MessagesWhole` does so with messages and their fragments. `ConformingServerAccepted` is not proved yet.

## Not modelled

* Cryptographic arithmetic, DEFLATE and Brotli: out of a model checker's reach, used by their
  outcomes.
* The byte layout of TLS and HTTP/2 messages, masking, formatting, logging, header texts.
* Name resolution and its cache; workspaces and the CNG provider cache, one atomic exchange or one
  counter under a lock each; the stand-alone clients, which are sequential.
* HTTP/2 tunnels, the h2c upgrade, ping and shutdown.
* The asynchronous connect of a WebSocket beyond its operation; the WebSocket's pointer to a
  session that may be closed first (`Engine.cpp:2151`).
* The cancellation token in a shared transport (`HttpEngine.cpp:2580`).
* The user-mode test build, the samples and the public wrappers, which add no state.

## Plan

1. Proofs: the parts of `EstablishedIsAuthenticated` that do not compare whole handshakes, and
   `ConformingServerAccepted`.
2. Tunnels and the h2c upgrade in `Http2Connection`, and its composition with the leases of the
   pool; parent and child handles; the transport's cancellation token.
