-------------------------- MODULE AbstractSession --------------------------
(***************************************************************************)
(* AbstractSession / HttpTlsSession: one HTTP/2 connection driven by the   *)
(* handlers of an io_service.                                              *)
(*                                                                         *)
(* The I/O thread's position is `pc'; write() is called from five places,  *)
(* and `ret' is where it returns to.  Every step is what the thread does   *)
(* between two points at which another thread's stop() can be noticed.     *)
(*                                                                         *)
(* Bytes nghttp2 produces are numbered 1, 2, 3, ...; 0 is a byte nghttp2   *)
(* never produced.  So a buffer is a sequence of numbers, and what the     *)
(* peer receives is right exactly when wire[k] = k.                        *)
(***************************************************************************)
EXTENDS IoService

CONSTANTS
    Cap,         \* size of wb_ (64 Kb in the code)
    MaxRecord,   \* most bytes one async_write_some sends (a TLS record)
    MaxPayload,  \* most body bytes in one DATA frame
    Garbage,     \* values the uninitialised wblen_ can start with
    MaxSends,    \* bound: calls of send()
    MaxRecv,     \* bound: control frames the peer sends
    MaxPings     \* bound: pings sent to a peer that is up

\* A serialised frame fits the write buffer: 9 + 16384 bytes against 64 Kb.
ASSUME SizesAssumption ==
    /\ Cap \in Nat /\ MaxPayload \in Nat \ {0} /\ MaxRecord \in Nat \ {0}
    /\ MaxPayload + 1 =< Cap
    /\ Garbage \subseteq 0..Cap

ASSUME BoundsAssumption ==
    MaxSends \in Nat /\ MaxRecv \in Nat /\ MaxPings \in Nat

VARIABLES
    pc,        \* where the I/O thread is
    ret,       \* where write() returns to
    err,       \* the ErrorCode given to the running handler
    lock,      \* the mutex insideCb is held
    stopped,   \* d->stopped
    writing,   \* d->writing
    wb,        \* the first wblen_ bytes of wb_
    pend,      \* data_pending_, data_pendinglen_
    s0,        \* the map's entry for stream 0
    h2,        \* d->session is not null
    outq,      \* nghttp2: frames submitted, not serialised
    data,      \* nghttp2: streams whose body is not fully serialised
    stalled,   \* nghttp2: those of them a flow-control window of the peer holds back
    body,      \* length of XMLHttpRequest's d->body, which the data provider eats
    produced,  \* nghttp2: number of bytes serialised
    active,    \* nghttp2: open streams
    goaway,    \* nghttp2: GOAWAY received, about to be sent, or sent
    at,        \* number of the byte that ends a request's HEADERS, and its last byte
    nsub,      \* number of requests submitted
    recvd,     \* bound: control frames received
    pings,     \* bound: pings submitted
    wire,      \* bytes the peer has received
    given,     \* history: the buffers of the writes a connected socket completed
    peer       \* "up", or its socket is closed ("fin"), or has reset ("rst")

ngVars == <<outq, data, stalled, body, produced, active, goaway, at, nsub>>
bufVars == <<writing, wb, pend>>
netVars == <<wire, given, peer>>
boundVars == <<recvd, pings>>
sessVars == <<pc, ret, err, lock, stopped, s0, h2, bufVars, ngVars, netVars, boundVars>>

Streams == 1..MaxSends

\* A submitted frame; `id' is 0 for the frames of the connection.
FrameKinds == {"magic", "settings", "ack", "ping", "goaway", "get", "post"}
Frame(k, i) == [k |-> k, id |-> i]
Frames == [k : FrameKinds, id : 0..MaxSends]

\* Handlers of the I/O thread, then the points inside them.
Points == {"idle", "write", "send", "recv", "again", "read0", "startPing",
           "emplace", "written", "onRead", "onPing", "onTimer",
           "connect", "connecting", "fetch", "fetchWithBody", "blocked"}

FlagTypeOK ==
    /\ lock \in BOOLEAN /\ stopped \in BOOLEAN /\ writing \in BOOLEAN /\ h2 \in BOOLEAN

SessTypeOK ==
    /\ FlagTypeOK
    /\ pc \in Points
    /\ ret \in {"idle", "read0", "again", "startPing", "emplace"}
    /\ err \in ErrorCodes
    /\ wb \in Seq(Nat) /\ pend \in Seq(Nat)
    /\ wire \in Seq(Nat) /\ given \in Seq(Nat)
    /\ s0 \in {"none", "open", "closed"}
    /\ outq \in Seq(Frames)
    /\ data \subseteq Streams /\ stalled \subseteq data /\ active \subseteq Streams
    /\ body \in Nat /\ produced \in Nat
    /\ goaway \in {"no", "received", "sending", "sent"}
    /\ at \in [Streams -> [hdr : Nat, end : Nat]]
    /\ nsub \in 0..MaxSends /\ recvd \in Nat /\ pings \in Nat
    /\ peer \in {"up", "fin", "rst"}

\* struct Impl as the constructor leaves it: every member has an initialiser
\* except wblen_, whose value is whatever the memory held.
SessInit ==
    /\ pc = "idle" /\ ret = "idle" /\ err = "ok"
    /\ lock = FALSE /\ stopped = TRUE /\ writing = FALSE /\ h2 = FALSE
    /\ \E g \in Garbage : wb = [k \in 1..g |-> 0]
    /\ pend = <<>> /\ wire = <<>> /\ given = <<>> /\ outq = <<>>
    /\ s0 = "none"
    /\ data = {} /\ stalled = {} /\ active = {}
    /\ body = 0 /\ produced = 0
    /\ goaway = "no"
    /\ at = [i \in Streams |-> [hdr |-> 0, end |-> 0]]
    /\ nsub = 0 /\ recvd = 0 /\ pings = 0
    /\ peer = "up"
-----------------------------------------------------------------------------
(* stop(), shouldStop()                                                    *)

\* cancelPing(): the wait under way, if any, ends as aborted.
cancelPingUncounted ==
    /\ ready' = CancelledReady("ping")
    /\ armed' = [armed EXCEPT !["ping"] = @ - 1]
cancelPing ==
    /\ ready' = CancelledReady("ping")
    /\ armed' = [armed EXCEPT !["ping"] = 0]

\* shutdownSocket() leaves the socket alone and stops the io_service.
shutdownSocketOnly == UNCHANGED svcStopped
shutdownSocket == svcStopped' = TRUE

\* stop(): cancel the ping timer, shutdownSocket() (which stops the
\* io_service), set stopped.  The statement `onStopCallback();' that ends the
\* function makes a temporary of that type: the stop callback is never called.
Stop ==
    IF stopped
    THEN UNCHANGED <<stopped, svcVars>>
    ELSE /\ cancelPing
         /\ shutdownSocket
         /\ stopped' = TRUE
         /\ UNCHANGED runner

WantRead == goaway # "sent" /\ (active # {} \/ goaway # "received")

\* Frames and DATA that may go now, or a block already serialised.
HasOutput == outq # <<>> \/ data \ stalled # {} \/ pend # <<>>
WantWrite == goaway # "sent" /\ HasOutput

shouldStop == ~writing /\ ~WantRead /\ ~WantWrite
-----------------------------------------------------------------------------
(* write()                                                                 *)

\* write() goes on only in a running session that has no write under way.
MayWriteTwice == ~stopped
MayWrite == ~stopped /\ ~writing

WriteSkip ==
    /\ pc = "write"
    /\ ~MayWrite
    /\ pc' = ret
    /\ UNCHANGED <<ret, err, lock, stopped, s0, h2, bufVars, ngVars, netVars,
                   boundVars, svcVars>>

\* What did not fit last time goes first.
DropPending == pend' = <<>> /\ UNCHANGED wb
TakePending == pend' = <<>> /\ wb' = wb \o pend

\* Then insideCb is locked.  It is not recursive: a thread that holds it
\* already waits for itself.
WriteEnter ==
    /\ pc = "write"
    /\ MayWrite
    /\ TakePending
    /\ lock' = TRUE
    /\ pc' = IF lock THEN "blocked" ELSE "send"
    /\ UNCHANGED <<ret, err, stopped, s0, h2, writing, ngVars, netVars, boundVars,
                   svcVars>>

StartUnmarked == UNCHANGED writing /\ armed' = Armed("write")
StartWrite == writing' = TRUE /\ armed' = Armed("write")

\* The end of write(): insideCb is released and, unless buffer b is empty,
\* the socket is given it.
Launch(b) ==
    /\ pc' = ret
    /\ lock' = FALSE
    /\ IF b = <<>>
       THEN UNCHANGED <<writing, armed>>
       ELSE StartWrite
    /\ UNCHANGED <<ret, err, stopped, h2, netVars, boundVars, ready, svcStopped, runner>>

\* The block of the next n bytes, as mem_send returns it.
Block(n) == [k \in 1..n |-> produced + k]

\* The test before the copy, and what is done when it fails: the block is left
\* with nghttp2 and the loop ends.
FitsUntested(n) == TRUE
Fits(n) == Len(wb) + n =< Cap

LeaveAndLoop(n) ==
    /\ pend' = Block(n)
    /\ UNCHANGED <<wb, writing, pc, lock, ret, err, stopped, h2, netVars, boundVars,
                   svcVars>>
Leave(n) == pend' = Block(n) /\ UNCHANGED wb /\ Launch(wb)

\* One turn of the loop: nghttp2_session_mem_send() returned n > 0 bytes.
Emit(n) ==
    /\ produced' = produced + n
    /\ IF ~Fits(n)
       THEN Leave(n)
       ELSE /\ wb' = wb \o Block(n)
            /\ UNCHANGED <<pend, writing, pc, lock, ret, err, stopped, h2, netVars,
                           boundVars, svcVars>>

\* beforeFrameSendCallback on a connection frame: stream 0 is created open
\* if the map lacks it, and a GOAWAY closes it.
BeforeSend0(k) ==
    s0' = CASE k = "goaway" -> "closed"
            [] k = "magic" -> s0
            [] s0 = "none" -> "open"
            [] OTHER -> s0

\* A connection frame is serialised.
SendControl ==
    /\ pc = "send"
    /\ outq # <<>> /\ Head(outq).id = 0
    /\ outq' = Tail(outq)
    /\ BeforeSend0(Head(outq).k)
    /\ goaway' = IF Head(outq).k = "goaway" THEN "sent" ELSE goaway
    /\ Emit(1)
    /\ UNCHANGED <<data, stalled, body, active, at, nsub>>

\* A request's HEADERS is serialised; a POST's body follows, when the peer's
\* windows let it.
SendHeaders ==
    /\ pc = "send"
    /\ outq # <<>> /\ Head(outq).id # 0
    /\ goaway = "no"
    /\ outq' = Tail(outq)
    /\ LET i == Head(outq).id
           n == produced + 1
       IN  /\ active' = active \cup {i}
           /\ IF Head(outq).k = "post"
              THEN /\ data' = data \cup {i}
                   /\ stalled' \in {stalled, stalled \cup {i}}
                   /\ at' = [at EXCEPT ![i].hdr = n]
              ELSE UNCHANGED <<data, stalled>> /\ at' = [at EXCEPT ![i] = [hdr |-> n, end |-> n]]
    /\ Emit(1)
    /\ UNCHANGED <<s0, body, goaway, nsub>>

\* The data provider of submit(): up to MaxPayload bytes are moved out of the
\* body; only when nothing is left does an empty DATA frame end the stream.
\* It may use up the stream's window, or the connection's; then mem_send gives
\* no more DATA, an empty one included, until the peer grants it.
SendData ==
    /\ pc = "send"
    /\ outq = <<>>
    /\ \E i \in data \ stalled :
         LET n == IF body > MaxPayload THEN MaxPayload ELSE body
         IN  /\ body' = body - n
             /\ IF n = 0
                THEN data' = data \ {i} /\ at' = [at EXCEPT ![i].end = produced + 1]
                ELSE UNCHANGED <<data, at>>
             /\ stalled' \in {s \cap data' : s \in {stalled, stalled \cup {i}, data}}
             /\ Emit(n + 1)
    /\ UNCHANGED <<s0, outq, active, goaway, nsub>>

\* mem_send returned 0.
SendNothing ==
    /\ pc = "send"
    /\ outq = <<>> /\ data \subseteq stalled
    /\ Launch(wb)
    /\ UNCHANGED <<s0, wb, pend, ngVars>>

\* mem_send returned NGHTTP2_ERR_NOMEM.
SendNoMem ==
    /\ pc = "send"
    /\ Stop
    /\ lock' = FALSE
    /\ pc' = ret
    /\ UNCHANGED <<ret, err, s0, h2, bufVars, ngVars, netVars, boundVars>>

\* The handler of writeSocket(): an error, or a closed stream 0, ends the
\* session; else the buffer is emptied and write() runs again.
WriteFailedUnseen == s0 = "closed"
WriteFailed == err # "ok" \/ s0 = "closed"

WrittenUncleared == UNCHANGED wb /\ writing' = FALSE /\ pc' = "write" /\ ret' = "idle"
WrittenStillMarked == wb' = <<>> /\ UNCHANGED writing /\ pc' = "write" /\ ret' = "idle"
WrittenOnce == wb' = <<>> /\ writing' = FALSE /\ pc' = "idle" /\ UNCHANGED ret
Written == wb' = <<>> /\ writing' = FALSE /\ pc' = "write" /\ ret' = "idle"

WriteHandler ==
    /\ pc = "written"
    /\ IF WriteFailed
       THEN Stop /\ pc' = "idle" /\ UNCHANGED <<wb, writing, ret>>
       ELSE Written /\ UNCHANGED <<stopped, svcVars>>
    /\ UNCHANGED <<err, lock, s0, h2, pend, ngVars, netVars, boundVars>>

\* HttpTlsSession::writeSocket: async_write_some completes after one record,
\* with fewer bytes than the buffer holds when the buffer is longer.  While the
\* peer is there it completes when the peer reads, which may be never.
OneRecord(b) == SubSeq(b, 1, IF Len(b) > MaxRecord THEN MaxRecord ELSE Len(b))

WriteSocket ==
    /\ \/ peer = "up" /\ Complete("write", "ok")
          /\ wire' = wire \o OneRecord(wb) /\ given' = given \o wb /\ UNCHANGED peer
       \/ peer = "fin" /\ Complete("write", "ok") /\ peer' = "rst" /\ UNCHANGED <<wire, given>>
       \/ peer = "rst" /\ Complete("write", "err") /\ UNCHANGED netVars
    /\ UNCHANGED <<pc, ret, err, lock, stopped, s0, h2, bufVars, ngVars, boundVars>>
-----------------------------------------------------------------------------
(* startResolve(), onSocketConnected()                                     *)

\* resolve(), connect() and handshake() are calls that return when the resolver
\* and the peer let them: until then the thread runs no handler, not even the
\* timer's, and a stop() finds the session stopped and does nothing.
ConnectBegin ==
    /\ pc = "connect"
    /\ stopped
    /\ pc' = "connecting"
    /\ UNCHANGED <<ret, err, lock, stopped, s0, h2, bufVars, ngVars, netVars,
                   boundVars, svcVars>>

\* One of them failed.  connect() got here because the session is stopped, so
\* the stop() on this path does nothing.
ConnectFail ==
    /\ pc = "connecting"
    /\ Stop
    /\ pc' = "idle"
    /\ UNCHANGED <<ret, err, lock, s0, h2, bufVars, ngVars, netVars, boundVars>>

\* sendClientConnectionHeader(): SETTINGS is submitted, before which nghttp2
\* puts the client magic; then write(), after which read() and startPing().
GreetUnwritten ==
    /\ outq' = <<Frame("magic", 0), Frame("settings", 0)>>
    /\ pc' = "read0" /\ UNCHANGED ret
Greet ==
    /\ outq' = <<Frame("magic", 0), Frame("settings", 0)>>
    /\ pc' = "write" /\ ret' = "read0"

\* onSocketConnected(): stopped is cleared; setupSession() returns false if
\* there is a session already, and then nothing else happens.
ConnectOk ==
    /\ pc = "connecting"
    /\ stopped' = FALSE
    /\ h2' = TRUE
    /\ IF h2
       THEN pc' = "idle" /\ UNCHANGED <<ret, outq>>
       ELSE Greet
    /\ UNCHANGED <<err, lock, s0, bufVars, data, stalled, body, produced, active, goaway,
                   at, nsub, netVars, boundVars, svcVars>>

\* XMLHttpRequest::connect() on a session that is not stopped.
ConnectSkip ==
    /\ pc = "connect"
    /\ ~stopped
    /\ pc' = "idle"
    /\ UNCHANGED <<ret, err, lock, stopped, s0, h2, bufVars, ngVars, netVars,
                   boundVars, svcVars>>

\* read() at the end of onSocketConnected() and of the read handler.
ReadWhenQuiet(next) ==
    /\ pc' = next
    /\ armed' = IF stopped \/ writing THEN armed ELSE Armed("read")
Read(next) ==
    /\ pc' = next
    /\ armed' = IF stopped THEN armed ELSE Armed("read")

FirstRead ==
    /\ pc = "read0"
    /\ Read("startPing")
    /\ UNCHANGED <<ret, err, lock, stopped, s0, h2, bufVars, ngVars, netVars,
                   boundVars, ready, svcStopped, runner>>
-----------------------------------------------------------------------------
(* startPing(), its handler                                                *)

\* expires_from_now() cancels a wait that is under way; a new one is started,
\* whether or not the session has been stopped.
StartPing ==
    /\ pc = "startPing"
    /\ ready' = CancelledReady("ping")
    /\ armed' = [armed EXCEPT !["ping"] = 1]
    /\ pc' = "idle"
    /\ UNCHANGED <<ret, err, lock, stopped, s0, h2, bufVars, ngVars, netVars,
                   boundVars, svcStopped, runner>>

\* submitPing(ec), then write(), then startPing().
PingHandler ==
    /\ pc = "onPing"
    /\ IF stopped \/ err = "aborted"
       THEN UNCHANGED <<outq, pings>>
       ELSE outq' = Append(outq, Frame("ping", 0)) /\ pings' = pings + 1
    /\ pc' = "write" /\ ret' = "startPing"
    /\ UNCHANGED <<err, lock, stopped, s0, h2, bufVars, data, stalled, body, produced,
                   active, goaway, at, nsub, netVars, recvd, svcVars>>

\* The ping timer expires.  Bound: MaxPings times, and then the two pings it
\* takes to find out that the peer has gone.
PingExpires ==
    /\ pings < MaxPings + (IF peer = "up" THEN 0 ELSE 2)
    /\ Complete("ping", "ok")
    /\ UNCHANGED sessVars
-----------------------------------------------------------------------------
(* submit()                                                                *)

\* A handler of fetch() / fetchWithBody() that finds the session stopped.
SubmitStopped ==
    /\ pc \in {"fetch", "fetchWithBody"}
    /\ stopped
    /\ pc' = "idle"
    /\ UNCHANGED <<ret, err, lock, stopped, s0, h2, bufVars, ngVars, netVars,
                   boundVars, svcVars>>

\* submit() returns -1 (the URL does not parse): fetch() stops the session.
SubmitInvalid ==
    /\ pc \in {"fetch", "fetchWithBody"}
    /\ ~stopped
    /\ Stop
    /\ pc' = "idle"
    /\ UNCHANGED <<ret, err, lock, s0, h2, bufVars, ngVars, netVars, boundVars>>

\* nghttp2_submit_request() fails: submit() returns {}, that is id 0, which
\* fetch() takes for a success.
SubmitRefused ==
    /\ pc \in {"fetch", "fetchWithBody"}
    /\ ~stopped
    /\ pc' = "idle"
    /\ UNCHANGED <<ret, err, lock, stopped, s0, h2, bufVars, ngVars, netVars,
                   boundVars, svcVars>>

\* The request is queued; if try_lock() takes insideCb, write() is called
\* with the lock held.
Submit ==
    /\ pc \in {"fetch", "fetchWithBody"}
    /\ ~stopped
    /\ nsub < MaxSends
    /\ nsub' = nsub + 1
    /\ outq' = Append(outq, Frame(IF pc = "fetch" THEN "get" ELSE "post", nsub + 1))
    /\ lock' = TRUE
    /\ pc' = IF lock THEN "emplace" ELSE "write"
    /\ ret' = "emplace"
    /\ UNCHANGED <<err, stopped, s0, h2, bufVars, data, stalled, body, produced, active,
                   goaway, at, netVars, boundVars, svcVars>>

\* After write(): unlock, find the stream, try_emplace it.
SubmitReturn ==
    /\ pc = "emplace"
    /\ lock' = FALSE
    /\ pc' = "idle"
    /\ UNCHANGED <<ret, err, stopped, s0, h2, bufVars, ngVars, netVars, boundVars,
                   svcVars>>
-----------------------------------------------------------------------------
(* read()'s handler                                                        *)

\* No bytes, which is what every error comes with: the handler returns.  It
\* neither stops the session nor reads again.
ReadNothing ==
    /\ pc = "onRead"
    /\ err # "ok"
    /\ pc' = "idle"
    /\ UNCHANGED <<ret, err, lock, stopped, s0, h2, bufVars, ngVars, netVars,
                   boundVars, svcVars>>

\* insideCb is locked around nghttp2_session_mem_recv().
ReadHandler ==
    /\ pc = "onRead"
    /\ err = "ok"
    /\ lock' = TRUE
    /\ pc' = "recv"
    /\ UNCHANGED <<ret, err, stopped, s0, h2, bufVars, ngVars, netVars, boundVars,
                   svcVars>>

\* Inside mem_recv nothing but nghttp2's state and stream 0 changes here.
RecvFrame ==
    /\ pc = "recv"
    /\ goaway \in {"no", "received"}
    /\ recvd < MaxRecv
    /\ recvd' = recvd + 1
    /\ UNCHANGED <<pc, ret, err, lock, stopped, h2, bufVars, data, body, produced,
                   active, at, nsub, netVars, pings, svcVars>>

\* A SETTINGS or PING, which nghttp2 acknowledges, or DATA it answers with
\* WINDOW_UPDATE.  A SETTINGS may change the windows either way.
RecvControl ==
    /\ RecvFrame
    /\ outq' = Append(outq, Frame("ack", 0))
    /\ stalled' \in SUBSET data
    /\ UNCHANGED <<s0, goaway>>

\* A GOAWAY: onFrameRecvCallback closes stream 0, if the map has it.
RecvGoAway ==
    /\ RecvFrame
    /\ goaway' = "received"
    /\ s0' = IF s0 = "none" THEN "none" ELSE "closed"
    /\ UNCHANGED <<outq, stalled>>

\* A protocol error that nghttp2 answers with a GOAWAY of its own.
RecvProtocolError ==
    /\ RecvFrame
    /\ goaway' = "sending"
    /\ outq' = Append(outq, Frame("goaway", 0))
    /\ UNCHANGED <<s0, stalled>>

\* A WINDOW_UPDATE lets DATA go again.
RecvWindow ==
    /\ pc = "recv"
    /\ goaway \in {"no", "received"}
    /\ \E s \in SUBSET stalled : s # stalled /\ stalled' = s
    /\ UNCHANGED <<pc, ret, err, lock, stopped, s0, h2, bufVars, outq, data, body,
                   produced, active, goaway, at, nsub, netVars, boundVars, svcVars>>

\* mem_recv fails.
RecvBad ==
    /\ pc = "recv"
    /\ Stop
    /\ lock' = FALSE
    /\ pc' = "idle"
    /\ UNCHANGED <<ret, err, s0, h2, bufVars, ngVars, netVars, boundVars>>

\* mem_recv has consumed the input; write() follows.
RecvEnd ==
    /\ pc = "recv"
    /\ lock' = FALSE
    /\ pc' = "write" /\ ret' = "again"
    /\ UNCHANGED <<err, stopped, s0, h2, bufVars, ngVars, netVars, boundVars, svcVars>>

\* After write(): stop, or read on.
ReadAgain ==
    /\ pc = "again"
    /\ IF shouldStop
       THEN Stop /\ pc' = "idle"
       ELSE Read("idle") /\ UNCHANGED <<stopped, ready, svcStopped, runner>>
    /\ UNCHANGED <<ret, err, lock, s0, h2, bufVars, ngVars, netVars, boundVars>>

\* The first n bytes nghttp2 produced are the first n the peer received.
Received(n) == n > 0 /\ n =< Len(wire) /\ \A k \in 1..n : wire[k] = k

\* readSocket() completes: with data, or with end of file or an error.
ReadSocket ==
    /\ \/ peer = "up" /\ Received(1) /\ Complete("read", "ok")
       \/ peer # "up" /\ Complete("read", "eof")
    /\ UNCHANGED sessVars

\* The peer's process ends, or the network drops the connection.
PeerCloses ==
    /\ peer = "up"
    /\ h2
    /\ peer' \in {"fin", "rst"}
    /\ UNCHANGED <<pc, ret, err, lock, stopped, s0, h2, bufVars, ngVars, wire, given,
                   boundVars, svcVars>>
-----------------------------------------------------------------------------
(* Streams that end, inside mem_recv or mem_send.  What the callback of the *)
(* owner does with svcVars and stopped is the owner's to say.              *)

\* The peer ended (or reset) stream i: nghttp2 forgets it.
RecvStreamEnd(i) ==
    /\ pc = "recv"
    /\ goaway \in {"no", "received"}
    /\ i \in active
    /\ Received(at[i].hdr)
    /\ active' = active \ {i}
    /\ data' = data \ {i} /\ stalled' = stalled \ {i}
    /\ UNCHANGED <<pc, ret, err, lock, s0, h2, bufVars, outq, body, produced, goaway,
                   at, nsub, netVars, boundVars>>

\* After a GOAWAY nghttp2 starts no stream: the queued request is dropped and
\* its stream closed.
RefuseHeaders(i) ==
    /\ pc = "send"
    /\ outq # <<>> /\ Head(outq).id = i
    /\ goaway # "no"
    /\ outq' = Tail(outq)
    /\ UNCHANGED <<pc, ret, err, lock, s0, h2, bufVars, data, stalled, body, produced,
                   active, goaway, at, nsub, netVars, boundVars>>
-----------------------------------------------------------------------------
\* Steps of the I/O thread inside a handler.
SessionStep ==
    \/ WriteSkip \/ WriteEnter
    \/ SendControl \/ SendHeaders \/ SendData \/ SendNothing \/ SendNoMem
    \/ WriteHandler
    \/ ConnectBegin \/ ConnectFail \/ ConnectOk \/ ConnectSkip \/ FirstRead
    \/ StartPing \/ PingHandler
    \/ SubmitStopped \/ SubmitInvalid \/ SubmitRefused \/ Submit \/ SubmitReturn
    \/ ReadNothing \/ ReadHandler
    \/ RecvControl \/ RecvGoAway \/ RecvProtocolError \/ RecvWindow \/ RecvBad \/ RecvEnd
    \/ ReadAgain

\* The socket, the ping timer and the peer.
Environment == WriteSocket \/ ReadSocket \/ PingExpires \/ PeerCloses
=============================================================================
