--------------------------- MODULE XMLHttpRequest ---------------------------
(***************************************************************************)
(* XMLHttpRequest: the user's object.  It owns the io_service and the      *)
(* session; send() posts connect() and fetch() and runs the service, in    *)
(* the calling thread (synchronous) or in one of its own (asynchronous).   *)
(* The model starts after open(), which built the session and, when a      *)
(* timeout is set, started the timer.                                      *)
(***************************************************************************)
EXTENDS AbstractSession

CONSTANTS
    Async,       \* d->isAsync
    HasReadyCb,  \* setOnReadyCallback() was called
    HasTimeout,  \* timeout() was called before open()
    Methods,     \* which of "fetch" (GET) and "fetchWithBody" (POST) send() posts
    Bodies       \* lengths of the bodies given to send()

ASSUME RequestAssumption ==
    /\ Async \in BOOLEAN /\ HasReadyCb \in BOOLEAN /\ HasTimeout \in BOOLEAN
    /\ Methods \subseteq {"fetch", "fetchWithBody"}
    /\ Bodies \subseteq Nat

VARIABLES
    user,      \* what the user's thread is doing
    sends,     \* number of send() calls
    answered,  \* streams the ready callback was due for
    aborted,   \* abort() was called, by the user or by the timer
    timedOut   \* the timer's handler has run

userVars == <<user, sends, answered, aborted, timedOut>>
vars == <<svcVars, sessVars, userVars>>

TypeOK ==
    /\ SvcTypeOK
    /\ SessTypeOK
    /\ user \in {"free", "send", "run", "abort"}
    /\ sends \in 0..MaxSends
    /\ answered \subseteq Streams
    /\ aborted \in BOOLEAN
    /\ timedOut \in BOOLEAN

Init ==
    /\ SvcInit(HasTimeout)
    /\ SessInit
    /\ user = "free" /\ sends = 0 /\ answered = {}
    /\ aborted = FALSE /\ timedOut = FALSE
-----------------------------------------------------------------------------
(* The user's thread                                                       *)

\* send(): sendPost() saves the body first; both post their two jobs.
Send ==
    /\ user = "free"
    /\ sends < MaxSends
    /\ \E m \in Methods :
         /\ ready' = ready \o <<Handler("connect", "ok"), Handler(m, "ok")>>
         /\ IF m = "fetchWithBody" THEN body' \in Bodies ELSE UNCHANGED body
    /\ sends' = sends + 1
    /\ user' = "send"
    /\ UNCHANGED <<armed, svcStopped, runner, pc, ret, err, lock, stopped, s0, h2,
                   bufVars, outq, data, stalled, produced, active, goaway, at, nsub, netVars,
                   boundVars, answered, aborted, timedOut>>

\* The rest of send().  Asynchronous: future.reset() waits for the previous
\* run() to return, then a new thread runs the service.  Synchronous: this
\* thread does.  Nothing calls io_service::reset().
Run ==
    /\ user = "send"
    /\ ~runner
    /\ runner' = TRUE
    /\ user' = IF Async THEN "free" ELSE "run"
    /\ UNCHANGED <<ready, armed, svcStopped, sessVars, sends, answered, aborted, timedOut>>

\* abort() and the destructor: service->stop(), then session->stop().
AbortServiceLater ==
    /\ user = "free"
    /\ sends > 0
    /\ ~aborted
    /\ user' = "abort"
    /\ aborted' = TRUE
    /\ UNCHANGED <<svcVars, sessVars, sends, answered, timedOut>>
AbortService ==
    /\ user = "free"
    /\ sends > 0
    /\ ~aborted
    /\ svcStopped' = TRUE
    /\ user' = "abort"
    /\ aborted' = TRUE
    /\ UNCHANGED <<ready, armed, runner, sessVars, sends, answered, timedOut>>

AbortSession ==
    /\ user = "abort"
    /\ Stop
    /\ user' = "free"
    /\ UNCHANGED <<pc, ret, err, lock, s0, h2, bufVars, ngVars, netVars, boundVars,
                   sends, answered, aborted, timedOut>>
-----------------------------------------------------------------------------
(* The thread inside run()                                                 *)

HandlerPoint(op) ==
    CASE op = "read" -> "onRead"
      [] op = "write" -> "written"
      [] op = "ping" -> "onPing"
      [] op = "timer" -> "onTimer"
      [] OTHER -> op

\* The next handler starts.
Dispatch ==
    /\ pc = "idle"
    /\ runner /\ ~svcStopped
    /\ ready # <<>>
    /\ ready' = Tail(ready)
    /\ pc' = HandlerPoint(Head(ready).op)
    /\ err' = Head(ready).ec
    /\ UNCHANGED <<armed, svcStopped, runner, ret, lock, stopped, s0, h2, bufVars,
                   ngVars, netVars, boundVars, userVars>>

\* run() returns; a synchronous send() returns with it.
RunReturn ==
    /\ pc = "idle"
    /\ runner
    /\ svcStopped \/ OutOfWork
    /\ runner' = FALSE
    /\ svcStopped' = TRUE
    /\ user' = IF user = "run" THEN "free" ELSE user
    /\ UNCHANGED <<ready, armed, sessVars, sends, answered, aborted, timedOut>>

\* abort() on the I/O thread, as one step: both parts happen there.
AbortNothing == aborted' = TRUE /\ UNCHANGED <<stopped, svcVars>>
Abort ==
    /\ svcStopped' = TRUE
    /\ stopped' = TRUE
    /\ IF stopped THEN UNCHANGED <<ready, armed>> ELSE cancelPing
    /\ aborted' = TRUE
    /\ UNCHANGED runner

\* setupTimer()'s handler: the user's callback, then abort().
TimerHandler ==
    /\ pc = "onTimer"
    /\ Abort
    /\ timedOut' = TRUE
    /\ pc' = "idle"
    /\ UNCHANGED <<ret, err, lock, s0, h2, bufVars, ngVars, netVars, boundVars, user,
                   sends, answered>>

\* setOnReadyCallback()'s lambda, called by onStreamCloseCallback: the user's
\* function, which may call abort(); a synchronous request then stops.
ReadyCallback(i) ==
    /\ answered' = answered \cup {i}
    /\ \/ HasReadyCb /\ Abort
       \/ /\ IF HasReadyCb /\ ~Async THEN Stop ELSE UNCHANGED <<stopped, svcVars>>
          /\ UNCHANGED aborted
    /\ UNCHANGED <<user, sends, timedOut>>

\* A stream ends with the response, or is refused after a GOAWAY.
StreamEnds == \E i \in Streams : RecvStreamEnd(i) /\ ReadyCallback(i)
StreamRefused == \E i \in Streams : RefuseHeaders(i) /\ ReadyCallback(i)

\* The timer expires.
TimerExpires == Complete("timer", "ok") /\ UNCHANGED <<sessVars, userVars>>
-----------------------------------------------------------------------------
IoThread ==
    \/ SessionStep /\ UNCHANGED userVars
    \/ Dispatch \/ RunReturn \/ TimerHandler \/ StreamEnds \/ StreamRefused

User == Send \/ Run \/ AbortService \/ AbortSession

Next ==
    \/ IoThread
    \/ User
    \/ Environment /\ UNCHANGED userVars
    \/ TimerExpires

Spec == Init /\ [][Next]_vars

\* A thread that can run does, the timers expire, and a write to a peer that is
\* gone completes.  Nothing is assumed of the user, nor of the peer and the
\* resolver: connect() may block for ever, and a peer may never read, so that
\* a write never completes.
Fairness ==
    /\ WF_vars(IoThread /\ pc # "connecting")
    /\ WF_vars(Run)
    /\ WF_vars(AbortSession)
    /\ WF_vars(peer # "up" /\ WriteSocket /\ UNCHANGED userVars)
    /\ WF_vars(PingExpires /\ UNCHANGED userVars)
    /\ WF_vars(TimerExpires)

FairSpec == Spec /\ Fairness
-----------------------------------------------------------------------------
(* The bytes                                                               *)

\* write() never overruns wb_, the copy of the pending block included, which
\* it makes with no test of its own.
BufferBound == Len(wb) =< Cap

\* data_pending_ points into nghttp2's buffer: it may be used only until the
\* next mem_send, so its last byte must be the last byte produced.
PendingFresh == pend # <<>> => pend[Len(pend)] = produced

\* Bytes reach the peer at most once and in the order nghttp2 made them,
\* whatever is pending, interrupted or cut short.  (Bytes of an uninitialised
\* buffer, 0, can only come first.)
WireIncreasing ==
    \A j, k \in DOMAIN wire : j < k /\ wire[k] # 0 => wire[j] < wire[k]

\* The socket is given every byte nghttp2 made, from the first on, after the
\* bytes an uninitialised wblen_ puts before them: write(), the pending block
\* and the write handler lose, repeat and reorder none.
GivenInFull ==
    \E g \in Garbage : \A k \in DOMAIN given : given[k] = IF k =< g THEN 0 ELSE k - g

\* What the socket is given is what OutputPipe says: the buffer, the pending
\* block, write()'s guard and the write handler together neither lose, repeat
\* nor reorder a byte, and hold back at most a buffer and a frame.
Pipe == INSTANCE OutputPipe
        WITH made <- produced, got <- given, cut <- (peer # "up"), Junk <- Garbage,
             Burst <- MaxPayload + 1, Limit <- Cap + MaxPayload + 1
OutputInOrder == Pipe!Spec

\* The buffer a write was given is not touched before its handler runs.
BufferStable == [][Outstanding("write") > 0 => wb' = wb]_vars

(* The session                                                             *)

\* At most one read, one write and one ping wait are under way: the session
\* has one buffer for each and one timer.
OneOpEach == \A k \in OpKinds : Outstanding(k) =< 1

\* When no handler runs, output that waits has a write under way whose handler
\* will call write(); nothing else would.
NoStrandedOutput == pc = "idle" /\ h2 /\ ~stopped /\ HasOutput => writing

\* A session stopped after it was connected has stopped its io_service, so
\* that run() returns.
StopStopsService == stopped /\ h2 => svcStopped

\* Between two handlers a connected session whose service runs has its ping
\* timer waiting and, while the peer is there, a read: only the handler of the
\* last one starts the next, so once the chain breaks nothing mends it.
Attended ==
    pc = "idle" /\ h2 /\ ~svcStopped =>
        /\ Outstanding("ping") = 1
        /\ peer = "up" => Outstanding("read") = 1

\* The I/O thread never waits for the mutex it holds.
NoSelfDeadlock == pc # "blocked"

\* send() does not return with its connect() still queued.
SendConnects ==
    (user = "free" /\ ~runner /\ ~aborted)
        => \A k \in DOMAIN ready : ready[k].op # "connect"

(* Liveness                                                                *)

\* What some of it needs of the outside: resolver and peer end each connect(),
\* the peer reads on, and it grants the windows its senders use up.
ConnectReturns == []<>(pc # "connecting")
PeerReads == []<>(armed["write"] = 0)
PeerGrants == []<>(stalled = {})

\* With a timeout, a synchronous send() returns, whatever the peer does once
\* it is connected, if connect() does.
SendReturns == ConnectReturns => ((user = "run") ~> (user = "free"))

\* abort() ends run(), wherever the I/O thread was, if connect() returns.
AbortEnds == ConnectReturns => (aborted ~> ~runner)

\* A connection the peer closed is noticed and ends run(), although the read
\* handler ignores it: the next pings fail.
LostPeerStops == (h2 /\ peer # "up") ~> svcStopped

\* Request i is gone from the session: serialised to its end and given to the
\* socket, closed, or the whole connection is over.
Given(n) == n > 0 /\ \E k \in DOMAIN given : given[k] = n
Settled(i) ==
    \/ Given(at[i].end) \/ i \in answered
    \/ svcStopped \/ peer # "up"

\* A submitted request is given to the socket in full unless the connection
\* ends, if the peer reads and grants the windows its body needs.
RequestLeaves ==
    PeerReads /\ PeerGrants => \A i \in Streams : (nsub >= i) ~> Settled(i)
-----------------------------------------------------------------------------
(* What the repository says of the program and the program does not do     *)

\* abstractsession.cpp:35, "client 24 bytes magic string will be sent by
\* nghttp2 library": the connection starts with it.
MagicFirst == wire # <<>> => wire[1] = 1

\* defaults.h:22, "When session streams empty ping http session every this
\* time": no ping while a request is open.
PingWhenIdle == [][pings' > pings => active = {}]_vars

\* README.md:167, the timeout is what "a request can take before automatically
\* being terminated": it does not hit requests that are answered.
TimeoutOnlyIfUnanswered ==
    [][timedOut' /\ ~timedOut => nsub = 0 \/ answered # 1..nsub]_vars

\* README.md:167, the timeout is what "a request can take before automatically
\* being terminated": a synchronous send() with a timeout returns.
TimeoutTerminates == (user = "run") ~> (user = "free")

\* The peer receives every byte nghttp2 made, from the first on.
Gapless == \A k \in DOMAIN wire : wire[k] = k

\* README.md:122, a synchronous send() "returns as soon as the request is
\* sent": at least once it is answered.
SendReturnsWhenAnswered == (answered # {}) ~> (user = "free")

\* README.md:122, send() "Sends the request": of a second send() on the same
\* object too, to a peer that reads, unless the connection ends.
SecondRequestLeaves == PeerReads => ((nsub = 2) ~> Settled(2))

\* README.md:132, send(body) "Sends the POST request with data represented as
\* strig": while a POST is queued, or its DATA is not all serialised, no other
\* send() replaces the body its data provider eats.
PostQueued ==
    \/ pc = "fetchWithBody"
    \/ \E j \in DOMAIN ready : ready[j].op = "fetchWithBody"
    \/ \E j \in DOMAIN outq : outq[j].k = "post"
BodyKept == [][(PostQueued \/ data # {}) /\ sends' # sends => body' = body]_vars
=============================================================================
