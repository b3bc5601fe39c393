# A TLA+ development of XMLHttpRequest

This directory holds TLA+ models of the C++ library in `src/`: an
`XMLHttpRequest` object that sends HTTP/2 requests over TLS with nghttp2 and
Boost.Asio. TLC checks the models on small instances; TLAPS proves the
theorems of the `*_proofs` modules for every value of the constants.
`PROJECT.json` lists components, runs, mutants, the lines every definition
translates, findings, hazards and theorems. Paths below are relative to `src/`.

To run one check: `tlc -config async_request.cfg XMLHttpRequest.tla`
(`PROJECT.json` says which module a configuration belongs to); to check the
proofs of a module: `tlapm Output_proofs.tla`.

## 1. The system

Each row is a component of `PROJECT.json`.

| Component | Source | State it keeps | Operations |
|---|---|---|---|
| I/O service | Boost.Asio (external), as `source/xmlhttprequest.cpp` and `source/xmlhttprequest_impl.cpp` use it | queued handlers, operations under way, stopped flag, whether `run()` executes | `post`, `run`, `stop`, completion of a read, a write or a timer |
| HTTP/2 session | `source/abstractsession.cpp`, `source/httptlssession.cpp` | `stopped`, `writing`, `insideCb`, the 64 Kb write buffer `wb_`/`wblen_`, the pending block `data_pending_`, the stream map, the ping timer | `connect`, `read`, `write`, `startPing`, `submit`, `stop` and their completion handlers |
| Request driver | `source/xmlhttprequest.cpp` | `service`, `future`, the timer, `body`, `isAsync` | `send` (three overloads), `abort`, the jobs and handlers they install |
| Session callbacks and streams | `source/sessioncallbacks.cpp`, `source/sessionstream.cpp`, `source/httpresponse.cpp`, `source/httprequest.cpp`, `source/httpheader.cpp` | a map of `Stream`, each with a state, a `Request` and a `Response`; the user's `readyState` and `response` | the nghttp2 callbacks: begin headers, header, data chunk, frame received, before frame send, stream close |
| Request object | `source/xmlhttprequest.cpp`, `source/xmlhttprequest_impl.cpp` | `addr`, `method`, `isAsync`, `session`, callbacks, `readyState`, `timeout` | constructors, `open` (four overloads), `timeout`, setters, `send`, `abort` |
| URI and number parsing | `proccessUri` in `source/xmlhttprequest_impl.cpp`, `include/sessionutil.h`, `third-party/url-parser/` | the elements of a URL, from `open()` to `submit()` | split, join, split again; `parse_uint`, `utos`, `percent_decode` |
| Header tokens and status tables | `source/http2.cpp`, `include/http2.h` | none | generated comparisons and constant tables |
| Base64 and script functions | `include/jsfunctions.h` | none | `encodeURIComponent`, `encodeFromArray` and their decoders |
| Utilities | `include/utilities.h`, `include/netservice.h`, `include/types.h`, `include/literals.h` | none | `selectProto`/`selectH2`; TLS context, templates |
| Tests and examples | `tests/requests/` | | programs that need a network |

What makes each stateful component correct, in the names of section 3:

* I/O service and session: bytes are given to the socket once, in order and
  completely (`GivenInFull`, `WireIncreasing`), the buffers are neither overrun nor changed under
  the kernel (`BufferBound`, `PendingFresh`, `BufferStable`), operations are not
  started twice (`OneOpEach`) nor forgotten (`Attended`), output is not left behind
  (`NoStrandedOutput`), a stopped session lets `run()` return (`StopStopsService`);
  seen from the socket, it is an ordered pipe of bytes that holds back at most a
  buffer and a frame (`OutputInOrder`).
* Request driver: calls return and requests leave (`SendReturns`,
  `RequestLeaves`, `AbortEnds`, `LostPeerStops`, `NoSelfDeadlock`), the first three
  as far as the resolver and the peer let them.
* Session callbacks: the map has the `Stream` of exactly the streams nghttp2 has,
  and every `Response` and `Request` is the stream's own (`TableAgrees`,
  `BodyIntact`, `StatusIntact`, `RequestKnown`); seen by the user, an exchange
  begins, is answered and is reported at most once, a request with a whole
  answer certainly (`AnswersKept`).
* Request object: no order of calls leaves it half set up (`TimerIsTimeout`,
  `SessionWired`, `OpenHasSession`).
* URI parsing: for URLs that fit the parser's 16-bit fields the two parsers agree
  (`SentAsAsked`) and ordinary URLs pass (`PlainIsSent`); nothing is lost between
  the parsers (`Spelled`).
* Numbers and encodings: no overflow, exactly the numbers that fit
  (`NoOverflow`, `ParsedExactly`, `PrintedExactly`), nothing read beyond the end
  (`PercentDecoded`), what is encoded comes back (`ComponentReturns`,
  `Base64Standard`, `Base64Returns`), the best protocol is taken
  (`BestIsChosen`).

### How they interact

    user's thread                       I/O thread (inside io_service::run)
    -------------                       -----------------------------------
    send() posts connect, fetch  --->   connect -> write -> read -> ping
    send() starts run()                 fetch   -> submit -> write
    abort(): service->stop();           read handler: mem_recv -> callbacks -> write -> read
             session->stop()            write handler: write again if output waits
                                        ping handler: ping, rearm, write
                                        timer handler: user's callback, abort()

* `open()` splits the URL and sets up the session with the address and the port;
  `fetch()` joins the pieces and `submit()` splits them with another parser.
* A synchronous `send()` runs the I/O service in the caller's thread; an
  asynchronous one in a `std::async` thread, after waiting for the previous one.
* Everything nghttp2 has to send goes through `AbstractSession::write()`,
  which is called from five places and returns at once when a write is under way.
* nghttp2 calls the callbacks from `mem_recv` and `mem_send`; the last of them,
  for a stream that closes, calls the user's ready callback, which may call
  `abort()` or, for a synchronous request, stops the session.
* `abort()` stops the service and the session in two steps, on any thread.

### What is hard

* `write()` is reentrant by design: its guard `writing`, the pending block that
  points into nghttp2's memory, the buffer a write under way still reads, and a
  mutex `insideCb` that `submit()` may hold when it calls `write()`.
* `stop()` and `abort()` at any point of a handler, and a handler that runs for
  an operation that was cancelled.
* `run()` returns only when the service is stopped or has no work, and the
  pings and reads are always work.
* `resolve()`, `connect()` and `handshake()` block the I/O thread; while they do, no
  handler runs and `stop()` does nothing. A peer may also stop reading, or let a
  flow-control window run out.
* The callbacks' order: 1xx responses, trailers, pushed and refused streams,
  resets from either side and GOAWAY, chunks of several streams mixed.
* The order of the user's own calls on one object.
* Two parsers of one URL, one of which counts in 16 bits, loops that look ahead two
  characters, integers at their limit, groups of three bytes that are not full.

## 2. The modules

| Module | Models | Extends |
|---|---|---|
| `IoService` | the io_service: `ready` (handlers to run), `armed` (operations under way), `svcStopped`, `runner` | |
| `AbstractSession` | the session, nghttp2's output, the socket and the peer | `IoService` |
| `XMLHttpRequest` | the request driver: threads, `send`, `run`, `abort`, the timer; composes the three | `AbstractSession` |
| `SessionCallbacks` | the callbacks, the stream map, `Response`, `readyState` | |
| `RequestObject` | the order of the user's calls | |
| `Address` | a URL on its way from `open()` to the request | |
| `Conversions` | the loops of `parse_uint`, `utos`, `percent_decode`, the URI component and base64 coders, `selectH2` | |
| `OutputPipe` | abstract: what the output of a session looks like to the socket; `XMLHttpRequest` implements it (`OutputInOrder`) | |
| `Exchange` | abstract: what answers look like to the user; `SessionCallbacks` implements it (`AnswersKept`) | |
| `XMLHttpRequest_proofs` | type correctness of the composition | `XMLHttpRequest` |
| `Output_proofs` | safety of the output path | `XMLHttpRequest_proofs` |
| `Delivery_proofs` | operations and bytes one by one; the refinement of `OutputPipe` | `Output_proofs` |
| `SessionCallbacks_proofs`, `RequestObject_proofs`, `Address_proofs`, `Conversions_proofs` | theorems about these modules | their module |
| `Answers_proofs` | the refinement of `Exchange` | `SessionCallbacks_proofs` |

An operator with a name such as `FitsUntested`, next to `Fits`, is a mutated
form of its neighbour that nothing uses: `PROJECT.json` pairs each property with
the mutant that breaks it.

### IoService, AbstractSession, XMLHttpRequest

The I/O thread is a program counter, `pc`: a handler starts (`Dispatch`), runs
through the points at which another thread's `stop()` can be noticed, and ends at
`"idle"`. `write()` is one piece of code with five callers; `ret` is where it
returns to. The user's thread is `user`.

| Model | Code |
|---|---|
| `WriteSkip`, `WriteEnter` | the guard of `AbstractSession::write()` and the copy of the pending block |
| `SendControl`, `SendHeaders`, `SendData`, `SendNothing`, `SendNoMem` | one turn of its `mem_send` loop, and its exit: `Emit`, `Fits`, `Leave`, `Launch` |
| `WriteHandler` (`Written`, `WriteFailed`) | the completion of `writeSocket` |
| `ReadNothing`, `ReadHandler`, `RecvControl`, `RecvWindow`, `RecvGoAway`, `RecvProtocolError`, `RecvBad`, `RecvEnd`, `ReadAgain` | the completion of `readSocket`, around and inside `mem_recv` |
| `ConnectBegin`, `ConnectFail`, `ConnectOk`, `ConnectSkip`, `FirstRead` | `connect`, `startResolve`, `startConnect` and what follows; from the first to the second or third, at `pc = "connecting"`, the thread blocks |
| `StartPing`, `PingHandler` | `startPing` and its handler |
| `SubmitStopped`, `SubmitInvalid`, `SubmitRefused`, `Submit`, `SubmitReturn` | `fetch`/`fetchWithBody` down to `AbstractSession::submit` |
| `Stop`, `shutdownSocket`, `cancelPing`, `shouldStop` | the functions of these names |
| `Send`, `Run`, `RunReturn`, `AbortService`, `AbortSession`, `Abort`, `TimerHandler`, `ReadyCallback` | `XMLHttpRequest` |
| `WriteSocket`, `ReadSocket`, `PingExpires`, `TimerExpires`, `PeerCloses` | the socket, the timers, the peer (external) |

Bytes are numbered in the order nghttp2 produces them; 0 is a byte it never
produced (what an uninitialised `wblen_` puts before them). So what the peer has
received, `wire`, is right exactly when `wire[k] = k`. `given` is a history: the
whole buffers of the writes that a connected socket completed, of which `wire` may
have only a part each, since the code takes a short write for a whole one. A
control frame or a HEADERS is one byte, a DATA frame one byte and its payload.
`nghttp2` is kept as its queue of frames (`outq`), the streams with a body left
(`data`), those of them that a flow-control window of the peer holds back
(`stalled`), the open streams (`active`), and whether a GOAWAY was received or
sent. Any HEADERS or DATA may use up the stream's window, any DATA the
connection's; a WINDOW_UPDATE or a SETTINGS of the peer changes which streams are
held back, and none need ever come.

What the abstraction leaves out: the sizes of the windows, half-closed states, the
messages of the TLS handshake and of the resolver (`connect()` may block, for ever
too, succeed or fail), and logging. A write completes only while `run()` executes
and the service is not stopped, so the last write of a session that stops is not
modelled as arriving. The peer may answer before the body is sent: an answer needs only the
HEADERS to have arrived. A `wblen_` larger than the buffer is excluded: the
loop's behaviour is then not defined. The model starts after `open()`, which
`RequestObject` covers.

### SessionCallbacks

`known` are the keys of `d->streams` whose `Stream` is that of a request or a
promise, `strays` those with an empty `Stream` that `beforeFrameSendCallback` made
for a frame of an id it did not find; `strm` the `Stream` objects (state, status,
header fields, chunks, whether the `Request` is filled). `ng` is what nghttp2
thinks of each stream, `resets` the streams it has an RST_STREAM to send for, and
`frame` the frame whose callbacks it is making, one at a time; the callbacks are the actions of the same names. `told`
is a history of what the peer really sent, which the code never sees and the
properties compare with. Header values and body chunks are numbers. A `send()`
from the user's thread may come between any two callbacks. `stop()` in a
callback does not end the `mem_recv` that is under way: the frame's remaining
callbacks follow. nghttp2 queues an RST_STREAM when it finds a fault on a stream
(`QueueReset`, between two frames) and for a promise on a stream that is closed or
about to be reset (`RefusePromise`, without a callback). When it is sent
(`SendReset`) the stream may be gone: then the callback makes an empty `Stream`
for it, and no close follows that would remove it. `SendControl` makes the one for
id 0, whose own state is left out, as nothing in the callbacks reads it.

### RequestObject

One action per public call. `session` is the host the session was made for,
`asked` a history of the last successful constructor or `open`. `StateChange`
stands for the callbacks that move `readyState`, which `SessionCallbacks`
models. Setting up the session always succeeds (no setter of the certificate
paths is public). A moved-from object and the credentials of the five-argument
`open` are left out.

### Address

A URL is the letters before `://` and the sequence of characters after it; a
character is its class, so that a URL of the model stands for all URLs that the
code cannot tell apart. `Prepare` is `open()` down to `proccessUri()`: `Matches`
is the first regular expression, `HostAndPort` the second, `Elements` the two
`substr`/`erase` around the last colon. `Submit` is `fetch()` (`Joined`, and `Whole`
with the scheme) and `submit()`. `Server`, `After`, `PathRun` and `QueryRun` are the
states of `parse_url_char()` as the positions at which they change. The parser keeps
the offset and the length of a field in 16 bits: `Field` is what is then copied
of it, so that `Cut` is what `http_parse_host()` reads, and `PathOf` and `QueryOf`
what `submit()` takes; the constant `FieldMod` is the 2^16. `GoodServer`, `HostOf`
and `PortOf` are `http_parse_host()` and its tests, `PortText` and `PortValue` the
number that `strtoul()` reads, `Accepted` all that is required, `FullPath` the
`:path` that `submit()` makes. The host and the port do not leave in the request,
as `:authority` is commented out (`source/abstractsession.cpp:460`): they decide
only whether `submit()` takes the URL, and the server is the one that `open()`
gave the session. What a URL means (`UrlHost`, `UrlPort`, `Target`) is written the other
way round, from the left and without either parser.

### Conversions

One `job` per function, its input `in`, its place `i` and its output `out`; an
action is a turn of the loop. The encoders are followed by their decoders, whose
output is `back`. `parse_uint` has two actions a turn, for its two tests before
two operations that could overflow. Characters are bytes, and integers are
bounded by `MaxInt`, which the constants choose: what `parse_uint` does with an
`int64_t` depends on its width only through that number.

### The two abstract specifications

`OutputPipe` has three variables: how many bytes nghttp2 made, what the socket was
given, whether the connection is lost. Before the first byte it allows as many
meaningless ones as `wblen_` may start at. The mapping takes `produced`, `given` and
`peer # "up"`; what the socket sends of it, and loses, is `WireIncreasing` and
`v_short_write`. Buffer, pending block, `writing`, the I/O thread and every
handler are gone, and all their steps are stutters but three. `Exchange` has
the life, the status and the body of each stream, whether the server has sent all
of its answer, and the list of streams the user was told of. It requires a report
of a request whose answer is whole and allows one of any other stream; a final
status is never replaced, while an interim one may be: the code does neither more
nor less than that, and what it ought to do besides is in section 5. The mapping
takes nghttp2's view of the stream, the fields of its `Response`, whether the
server has ended the stream, and the calls of the ready callback; the frames, the
map and the callbacks' order are gone.

## 3. What TLC checks

Deadlock is not checked: a session that has stopped, and a user who makes no
further call, are legitimate ends. "No thread waits for ever" is
`NoSelfDeadlock` and the liveness properties instead.

| Run | Question | Properties |
|---|---|---|
| `sync_request` | A synchronous GET or POST with a timeout, and a peer that may answer, reset, say GOAWAY, fail, vanish or fall silent anywhere: does `send()` return, if `connect()` does? | `TypeOK`, `NoSelfDeadlock` (the thread never waits for `insideCb` it holds), `SendReturns` |
| `async_request` | An asynchronous POST larger than the buffer, writes cut short, an uninitialised `wblen_`: is its output intact up to the socket, is all of it given to the socket, and does the object stop when told to and when its peer is gone? | `BufferBound`, `PendingFresh`, `GivenInFull`, `BufferStable`, `OutputInOrder` (it implements `OutputPipe`), `RequestLeaves`, `LostPeerStops`, `AbortEnds` |
| `two_sends` | Two `send()` calls on one object, with writes cut short | `WireIncreasing`, `OneOpEach`, `NoStrandedOutput`, `StopStopsService`, `Attended` |
| `responses` | Two requests and a pushed stream with 1xx, trailers, resets from either side, refused promises and GOAWAY | `TypeOK`, `TableAgrees`, `BodyIntact`, `StatusIntact`, `RequestKnown`, `AnswersKept` (it implements `Exchange`) |
| `call_orders` | Every order of the user's calls | `TypeOK`, `TimerIsTimeout`, `SessionWired`, `OpenHasSession` |
| `addresses` | Every URL of three schemes and up to five characters after `://`: is what is sent what the URL asks for, and is a plain URL sent, unless it is too long for the parser's fields? | `TypeOK`, `SentAsAsked`, `PlainIsSent`, `Spelled` |
| `conversions` | Every input of up to four bytes of eleven kinds, numbers to 1100, and offers of two protocols: do the loops stay in range, and compute what their definitions say? | `TypeOK`, `NoOverflow`, `ParsedExactly`, `PrintedExactly`, `PercentDecoded`, `ComponentReturns`, `Base64Standard`, `Base64Returns`, `BestIsChosen` |

### Bounds, and why they are enough

* `Cap` is 3 or 4 and `MaxPayload = 2`: the magic, SETTINGS, HEADERS and a DATA
  frame of three bytes do not fit together, so the pending block is used and the
  buffer fills more than once. A body of 2 or 3 takes two or three DATA frames, the
  last one empty.
* `MaxRecord = 2` lets a write send part of a full buffer (`async_request`,
  `two_sends`; a TLS record is 16 Kb, the buffer 64 Kb). In `sync_request`, whose
  question is whether `send()` returns, it is the whole buffer.
* `Garbage` is the set of values `wblen_` may have before it is first assigned: 0
  and 1, and 0 where the question is about something else.
* `MaxSends` is 1 or 2: the second `send()` is the one whose behaviour differs
  (the service has been stopped, the session is connected); a third differs in
  nothing the code looks at.
* `MaxRecv = 1`, `MaxPings` 0 or 1: each control frame adds one frame to the output,
  and one is enough for it to collide with each other source of output. Once the
  peer is gone two more pings are allowed: the first meets a "fin", the second
  its reset.
* `Requests = {1, 3}`, `Promises = {2}`: two requests show that responses
  are kept apart, one pushed stream that the user's own are told from it.
  `MaxChunks` bounds the chunks of all bodies together: two can be of one stream
  or of two. `Resets = {1}` and `Faulty = {1}`: one request can be reset by the peer
  and by nghttp2, so that each may come first; the other shows that it is left alone.
* `Urls = {"a", "b"}`, `BadUrls`, `Times = {1, 2}`: two of each show that the
  first or the last one given is used.
* `Letters` of `addresses` has a member of each class of character. Five characters
  are a host of two, a colon, a digit and one more, or a host and a path with a
  query. `MinAddr = 2` (3 in the code), `MaxPort = 500` (65535) and `FieldMod = 16`
  (2^16) bring all three limits within them: `https://a:888` has a port above the
  highest, and a URL of `https` with four or five characters and no port of its own,
  to which `fetch()` adds one, does not fit the fields, while those of `tptp` do. The
  theorems hold for any.
* `Letters` of `conversions` has a byte at each edge the functions test: 0, 255,
  space, `%`, `+`, digits, hexadecimal letters of both cases. Four bytes are a
  whole group of base64 and one more, and an escape and one more. `MaxInt = 285`
  lets both tests of `parse_uint` refuse (28 can be scaled, 285 ends in a digit
  that 286 does not). Names of up to three bytes over `NameBytes`, which hold `h`,
  `2` and the length of `h2`, make an entry that contains another; with
  `MaxOffers = 2` the best may come first or last.

### Fairness

`FairSpec` of `XMLHttpRequest` has weak fairness on the steps of the I/O thread
that do not wait for anything (the operating system runs it), on `Run` and
`AbortSession` (the rest of a call the user's thread has begun), on the two timers
(they expire), and on the completion of a write once the peer is gone (the kernel
reports it). There is none on the user, the resolver or the peer: the calls that
`connect()` makes may block for ever, a peer that is there may never read, so that
a write never completes, and never grant a window; the end of file need not be
read. What a property needs of these it states as a hypothesis:

* `SendReturns` and `AbortEnds`: `ConnectReturns`, that no `connect()` blocks for
  ever. It is needed: a timeout does not end a `connect()` (`v_silent_peer`).
* `RequestLeaves`: `PeerReads`, that no write waits for ever, and `PeerGrants`, that
  again and again no stream is held back. `SecondRequestLeaves`: `PeerReads`.
* `LostPeerStops` needs none: it holds through pings that fail.

## 4. What is proved

TLAPS proves these for every value of the constants that meets the modules'
assumptions (`SizesAssumption`: a frame fits an empty buffer;
`BoundsAssumption`, `RequestAssumption`, `StreamsAssumption`, `UrlsAssumption`,
`AddressAssumption`, `ConversionsAssumption`: the constants' types). The bounds
are constants too, so the theorems hold however large they are.

| Module | Theorem | Says |
|---|---|---|
| `XMLHttpRequest_proofs` | `TypeCorrect` | `Spec => []TypeOK` for the composition of service, session and driver |
| `Output_proofs` | `NoOverrun`, `NeverStale` | the buffer is never overrun, the pending block never stale |
| | `NothingStranded` | output that waits while no handler runs has a write under way |
| | `ServiceStops` | a connected session that stopped has stopped its service |
| `Delivery_proofs` | `OneAtATime` | one read, one write, one ping wait, with handlers that are due counted |
| | `BufferKept` | the buffer of a write under way is not touched |
| | `AlwaysAttended` | between two handlers a connected session has one ping wait and, while the peer is there, one read |
| | `InOrder` | the peer gets no byte twice or out of order, for writes cut short too |
| | `NeverWaitsForItself` | the thread never waits for the mutex it holds, if there is one `send()` |
| | `NoGap`, `Refinement` | the socket is given every byte, and the session implements `OutputPipe`, for any record size and `wblen_` |
| `SessionCallbacks_proofs` | `TypesKept`, `TableIsExact`, `BodiesIntact`, `RequestsKnown` | the map has the `Stream` of exactly nghttp2's streams, bodies and requests are right |
| `Answers_proofs` | `StatusIsIntact`, `AnswersAreKept` | statuses are right, and the callbacks implement `Exchange` |
| `RequestObject_proofs` | `TypesKept`, `TimeoutFixed`, `OpenIsUsable`, `OpenHasOne` | the timer keeps the timeout; sessions are wired, open objects have one |
| `Address_proofs` | `TypesKept`, `NothingLost`, `ParsersAgree`, `PlainUrlsPass` | the four properties of `addresses`: the first two for URLs of any length, the others for all that fit the parser's fields |
| `Conversions_proofs` | `TypesKept`, `NumbersFit` | only bytes are written, no number overflows |
| | `StringsReturn`, `BytesReturn` | what the two encoders write, their decoders undo, at any length |
| | `NumbersAreRead`, `NumbersArePrinted` | `parse_uint` reads exactly the numbers that fit; `utos` prints every number |
| | `EscapesDecoded`, `StandardWritten` | `percent_decode` decodes every escape and no more; the encoder writes RFC 4648's base64 |
| | `BestIsTaken` | `selectH2` takes the best protocol of any offer |

The arguments:

* `Output_proofs`. None of its properties is inductive. `BufferBound`:
  `WriteEnter` copies the pending block into the buffer without a test, which is
  safe because the block fits the buffer and waits only while a write is under
  way or the buffer is empty (`PendingInv`). `NoStrandedOutput` speaks of the idle
  thread; `OutputInv` says at every point why waiting output will be written: a
  write is under way, or the thread is in `write()` or in `mem_recv`, which
  `write()` follows (a body that a window holds back is no waiting output). It
  needs `ConnectingInv` (a session whose `connect()` blocks is stopped) and
  `LockInv`, which says where `insideCb` can be held when `write()` is entered. The invariant `Inv` was checked by TLC before it was
  proved. The proof has a case per action of `SessionStep`, then lemmas for the
  environment, the user's thread and the callbacks.
* `Delivery_proofs`. `OneOpEach` counts; `OneInv` accounts for each kind of
  operation by three places of which at most one is taken: under way, its handler
  due, or held by the thread at a point that will start it again. `ConnectInv`
  says that before the first connect there is none, and `WritingInv` what
  `writing` means. `BytesInv` accounts for each byte by where it is: given to the
  socket, in the buffer, in the pending block, and all of them after `g` meaningless
  ones, for a `g` that `wblen_` may have started at (`Accounted`). What the peer
  receives is less (`v_short_write`, `v_garbage_length`); `WireIncreasing` rests on
  `OrderInv`, by which the buffer comes after what the peer has until its write
  completes, and is of no more use from then to the handler.
* `Attended` is the other half of `OneOpEach`, in the same module: between two
  handlers not only at most but exactly one ping wait and one read. `Chained` says
  it at every point of the thread (one of the three places is always taken) for as
  long as the service is not stopped; it needs `StopStopsService`, since a
  stopped session starts no read, and `ReadsWell`, since the handler of a read that
  failed starts no other: only a peer that has gone makes one fail. A thread that
  waits for itself (`v_second_async`) is excepted, as it runs no handler. It follows
  that `run()` of a connected session has work until it is stopped, which is
  what `SendReturns` and `LostPeerStops` start from.
* `NeverWaitsForItself`, in the same module, assumes `OneSend`: `v_second_async` is
  what happens without. `FirstInv` follows the one `send()` through five stages:
  not called, posted, in `connect()`, greeting, and submitting, where no job is
  left in the queue. It rests on the order of the queue (`connect()`, `fetch()`, then
  completions: a step only appends, `StepGrows`) and on the greeting, which always
  has a byte to write, so that a write is under way, or the session is
  stopped, when `fetch()` starts; no handler comes between them.
* `SessionCallbacks_proofs`. `TableAgrees` needs to know that an RST_STREAM waits
  only for a stream that nghttp2 has or has given up (`ResetsKnown`), so that the
  empty `Stream` it may leave is of none that will still be used; that the frame under
  delivery belongs to a live stream (`FrameLive`), that a promise being
  delivered has its new stream and its parent in the map (`PromiseLive`), and
  that a stream not yet begun has an untouched object (`Fresh`), or a HEADERS
  that adds the stream again could replace a body. `RequestInv` strengthens
  `RequestKnown` to the frames still to come.
* `Answers_proofs`. `StatusInv` says when the status of a `Response` is still to
  come: a HEADERS of the right category is being delivered and its `:status` is
  the next field (`StatusDue`); otherwise it is 0 before the first HEADERS and
  that HEADERS' after. With `ToldOfClosed` (only closed streams are reported)
  each step is a step of `Exchange` or a stutter.
* `RequestObject_proofs`. `TimerIsTimeout` needs that a timer exists only when
  the object has been opened (`TimerWhenOpen`), as `timeout()` is refused from
  then on; `OpenHasSession` needs that an object that has sent has a session
  (`SentHasSession`).
* `Address_proofs`. The invariant only says that what is stored, and what is
  sent, are the functions of the URL that the actions compute; the work is in
  lemmas about those functions. They rest on `RunIs` (a prefix of characters of
  one kind is unique; it exists because a set of numbers has a least one) and on
  `FieldIs` (a field of a text shorter than `FieldMod` is copied as it is; `CutIs` and
  `RunsAre` say so of server, path and query) and go case by case: an address with
  a port and without, a user name, a path, a query. That a port up to the highest
  passes needs that what `strtoul()` reads ends where the port does (`PortTextIs`).
* `Conversions_proofs`. `TypeInv` carries what each loop needs of its output so
  far: `ParseInv` (between the two tests of `parse_uint` the number is a multiple
  of 10 that fits), `WellEscaped` (every `%` of the encoder's output has two
  hexadecimal digits behind it, and the decoder stands at the start of an
  escape), `Base64Inv` (the groups written so far are those of the bytes read
  so far, and back). `ComponentInv` says more: a function `p` gives the place
  at which the escape of each character begins (`Laid`), and the decoder stands
  between two of them (`Between`).
* What a whole loop computes, in the same module, has an invariant for each. `ReadInv`:
  the number is what the digits read so far say, so a test that refuses proves
  that all of them say too much (`ValuesGrow`). `PrintInv`: what is left to print,
  followed by what is printed, says the number (`DigitBefore`). `PercentInv`: the
  output is what the characters read stand for, and the loop never stands inside
  an escape, as a hexadecimal digit is no `%`. `StandardInv`: all characters are of
  the alphabet, so that what `decode()` would read (`Closed`) says what they are;
  bit by bit that is `SextetOfGroup`. `SelectInv`: the loop stands at the start of
  an entry or beyond the end, as no entry starts inside another (`EntriesApart`).
  `Values`, `EntryStarts` and `Offers` are recursive functions. That they exist and
  are what their equations say is proved by `UpToInduction`, induction over a set
  of numbers instead of a predicate (a set that lacks one lacks a least one): the
  library's theorems take the predicate as an operator, which no prover here
  instantiates.

Every invariant and every action property that a passing run checks is also
a theorem. Only model-checked are the four properties that need fairness
(`SendReturns`, `RequestLeaves`, `LostPeerStops`, `AbortEnds`), which are beyond
the prover, and the properties of section 5, which the code does not have.
`NoSelfDeadlock` is about one `send()`, in the theorem as in the run: see the
findings.

## 5. Where the program and what is said of it differ

Each of these is a run of `PROJECT.json` that ends with a counterexample.

| Run | Property | Finding |
|---|---|---|
| `v_short_write` | `Gapless` | `async_write_some` may send less than it is given; the handler empties the buffer all the same, and the rest of a body is lost |
| `v_second_async` | `SecondRequestLeaves` | a second asynchronous `send()` on an idle session locks `insideCb` twice |
| `v_body_overwritten` | `BodyKept` | a second POST replaces the body of the first, which is still queued or half sent |
| `v_final_status` | `FinalStatus` | the final status after a 1xx is ignored |
| `v_null_call` | `NoNullCall` | `abort()`, and the destructor, on an object never opened |

The modules state more of what the documentation says, and the configurations
below show that the code does not keep it either. They are smaller matters, or
rest on a reading of the documentation:

| Configuration | Module, property | What TLC shows |
|---|---|---|
| `v_garbage_length` | `XMLHttpRequest`, `MagicFirst` | `wblen_` is not initialised: the connection may start with bytes of uninitialised memory |
| `v_second_sync` | `XMLHttpRequest`, `SendConnects` | a second synchronous `send()` returns with its jobs still queued: `stop()` never calls the stop callback, and nothing resets the service |
| `v_mime` | `SessionCallbacks`, `MimeOverridden` | `overrideMimeType()` loses the content-type |
| `v_base64_padding` | `Conversions`, `Base64Exact` | `decode()` leaves a zero byte where the text ends in a single `=` (`include/jsfunctions.h:258`) |
| `v_ping_busy` | `XMLHttpRequest`, `PingWhenIdle` | pings are sent while streams are open (`include/defaults.h:22`) |
| `v_late_timeout` | `XMLHttpRequest`, `TimeoutOnlyIfUnanswered` | the timer hits requests that are answered |
| `v_silent_peer` | `XMLHttpRequest`, `TimeoutTerminates` | a synchronous `send()` with a timeout does not return while the peer keeps `connect()` or the handshake waiting (`README.md:167`): the timer's handler needs the thread that blocks |
| `v_sync_no_callback` | `XMLHttpRequest`, `SendReturnsWhenAnswered` | a synchronous `send()` without a ready callback does not return when answered |
| `v_trailers` | `SessionCallbacks`, `ReadyStateForward` | trailers move `readyState` backwards |
| `v_push_ready` | `SessionCallbacks`, `ReadyForRequests` | the ready callback is called for pushed streams |
| `v_unanswered` | `SessionCallbacks`, `ReadyWhenAnswered` | it is called for reset and refused requests |
| `v_map_leak` | `SessionCallbacks`, `OnlyZeroMade` | an RST_STREAM for a refused promise or a closed stream adds an empty `Stream` that nothing removes (`source/sessioncallbacks.cpp:481`) |
| `v_idle_promise` | `SessionCallbacks`, `NoProtocolError` | a PUSH_PROMISE before the response is taken for a protocol error |
| `v_long_url` | `Address`, `SentWhole` | a URL that 16 bits cannot count (`third-party/url-parser/url_parser.h:57`) is cut: its request asks for a piece of the path |
| `v_open_mode` | `RequestObject`, `OpenMode` | `open(method, url)` is synchronous (`README.md:102` says asynchronous) |
| `v_open_host` | `RequestObject`, `OpenHost` | `open()` with another URL keeps the host of the constructor's |

Seen while reading and not checked by a run: `submit()` takes a failing
nghttp2 id for a success when it is 0; `goAway()` is never called and would not
write; the `deadline` timer is never armed; `make_nv_ls(":method", ...)` keeps a
pointer to a temporary string; `startConnect()` returns, and does not stop, when
h2 was not negotiated; `:authority`, with the host and port that `submit()`
computed for it, is commented out; `expectFinalResponse()` is always false, as
`Stream::status` is never set. Of URLs: with a user name the connection goes to
the user's part of the URL and the request names the host; a `#` right after the
host is refused by `submit()`, after `open()` took it; a host with upper-case
letters is cut at the first one. `contentLength()` keeps the sum of the chunks it
saw at its first call.

## 6. What is not modelled

* Header tokens and status tables (`source/http2.cpp`): `lookup_token()` is
  generated code, a comparison with each name of a list, and the rest are
  constant tables. The models use tokens.
* Floating point in `encode(double)`, which nothing calls. IPv6 addresses in
  brackets, which `proccessUri()` refuses, and the CONNECT form of the URL
  parser, which `submit()` does not use. The `make_nv` helpers, regular
  expressions and templates of the utilities.
* TLS and the resolver: library code; a connect blocks, succeeds or fails. The
  configuration of the TLS context. The sizes of the flow-control windows.
* `goAway()`, `startWaitConnectionTimer()` and `startReadTimer()`: nothing
  calls them.
* What the user computes from a `Response`: `contentLength()`, `text()`,
  `type()`, header lookup.
* Data races: `d->response`, `d->isAsync` and `d->readyState` are used by two
  threads without synchronisation. Each access is one atomic step here.
* Lifetimes of memory (the dangling `:method`, callbacks that keep `this` of an
  object that was moved), logging, and the text of messages.
* Tests and examples: they are used as descriptions of intended use.

## 7. The plan

1. (done) The connection: `IoService`, `AbstractSession`, `XMLHttpRequest`, with
   `TypeCorrect` and the safety of the output path.
2. (done) `SessionCallbacks` and `RequestObject`, with their theorems.
3. (done) The abstract specifications `OutputPipe` and `Exchange`, checked as
   properties and proved.
4. (done) The pure algorithms, `Address` and `Conversions`, with their theorems.
5. The composition of the callbacks with the driver: what the user's thread sees
   of `response()` after a second `send()`, and a mode changed by a failed
   `open()` while an answer is due. (Two POSTs that share `d->body` are in
   `XMLHttpRequest`: `BodyKept`.)
6. The life of one request (unsent, queued, on the wire, answered or lost) as a
   third abstract specification, implemented by `XMLHttpRequest`.
7. `contentLength()` and the status code of a `Response` as numbers.
