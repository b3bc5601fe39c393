--------------------------- MODULE RequestObject ---------------------------
(***************************************************************************)
(* What the calls of the user do to an XMLHttpRequest, in whatever order   *)
(* they come: constructors, open(), timeout(), the setters, send() and     *)
(* abort().  The session it makes is the one of AbstractSession; here only *)
(* the host it was made for matters.                                       *)
(***************************************************************************)
EXTENDS Naturals

CONSTANTS
    Urls,     \* addresses of the URLs proccessUri() accepts
    BadUrls,  \* URLs it does not
    Times     \* arguments of timeout(), in milliseconds

NoAddr == "empty"   \* the empty string
NoSession == "null"

ASSUME UrlsAssumption ==
    /\ Urls \cap BadUrls = {}
    /\ {NoAddr, NoSession} \cap (Urls \cup BadUrls) = {}
    /\ Times \subseteq Nat \ {0}

VARIABLES
    made,        \* the object has been constructed
    addr,        \* d->addr (and port, proto, urn, method)
    isAsync,     \* d->isAsync
    session,     \* the host d->session was made for, or null
    stateCb,     \* whose function the state-change callback is
    readyCb,     \* a ready callback is set
    readyState,  \* d->readyState
    timeout,     \* d->timeout
    timer,       \* what the timer was started with, 0 if it was not
    sent,        \* send() has posted its jobs
    crashed,     \* a null service or session was called
    asked        \* the address and mode of the last successful open or constructor

cbVars == <<stateCb, readyCb>>
vars == <<made, addr, isAsync, session, cbVars, readyState, timeout, timer, sent,
          crashed, asked>>

\* enum class ReadyState
Unsent == 0
Opened == 1
Done == 4

Modes == [addr : Urls \cup {NoAddr}, async : BOOLEAN]

TypeOK ==
    /\ made \in BOOLEAN
    /\ addr \in Urls \cup {NoAddr}
    /\ isAsync \in BOOLEAN
    /\ session \in Urls \cup {NoAddr, NoSession}
    /\ stateCb \in {"none", "init", "user"}
    /\ readyCb \in BOOLEAN
    /\ readyState \in Unsent..Done
    /\ timeout \in Times \cup {0}
    /\ timer \in Times \cup {0}
    /\ sent \in BOOLEAN
    /\ crashed \in BOOLEAN
    /\ asked \in Modes

\* struct XMLHttpRequest::Impl.
Init ==
    /\ made = FALSE
    /\ addr = NoAddr
    /\ isAsync = FALSE
    /\ session = NoSession
    /\ stateCb = "none" /\ readyCb = FALSE
    /\ readyState = Unsent
    /\ timeout = 0 /\ timer = 0
    /\ sent = FALSE
    /\ crashed = FALSE
    /\ asked = [addr |-> NoAddr, async |-> FALSE]

Alive == made /\ ~crashed
-----------------------------------------------------------------------------
\* prepare(u, a): the mode is stored before the URL is looked at.
prepareUnchecked(u, a) == isAsync' = a /\ addr' = u
prepare(u, a) ==
    /\ isAsync' = a
    /\ addr' = IF u \in Urls THEN u ELSE addr

\* initCallbacks(): gives a new session the function that keeps readyState.
initCallbacks ==
    stateCb' = IF readyState = Unsent /\ stateCb = "none" THEN "init" ELSE stateCb

\* setup() for address a: only an object without a session is given one.
setupUnwired(a) ==
    /\ session' = IF session = NoSession THEN a ELSE session
    /\ UNCHANGED stateCb
setup(a) ==
    IF session = NoSession
    THEN session' = a /\ initCallbacks
    ELSE UNCHANGED <<session, stateCb>>

\* setupTimer().
setupTimer == timer' = IF timeout > 0 THEN timeout ELSE timer

\* open() for address a, on an object that is not open: the state-change
\* callback is told, and sets readyState.
OpenUnsentBare(a) ==
    /\ UNCHANGED <<session, stateCb>>
    /\ setupTimer
    /\ readyState' = Opened
OpenUnsent(a) ==
    /\ setup(a)
    /\ setupTimer
    /\ readyState' = IF stateCb' # "none" THEN Opened ELSE readyState

\* XMLHttpRequest().
Construct ==
    /\ ~made
    /\ made' = TRUE
    /\ UNCHANGED <<addr, isAsync, session, cbVars, readyState, timeout, timer, sent,
                   crashed, asked>>

\* XMLHttpRequest(method, url, async): prepare() and setup(), whatever prepare()
\* returns.
ConstructWith(u, a) ==
    /\ ~made
    /\ made' = TRUE
    /\ prepare(u, a)
    /\ setup(addr')
    /\ asked' = IF u \in Urls THEN [addr |-> u, async |-> a] ELSE asked
    /\ UNCHANGED <<readyCb, readyState, timeout, timer, sent, crashed>>

\* open().
Open ==
    /\ Alive
    /\ readyState < Opened
    /\ OpenUnsent(addr)
    /\ UNCHANGED <<made, addr, isAsync, readyCb, timeout, sent, crashed, asked>>

\* open(method, url, async): prepare() has done its work even when open() then
\* finds the object open already and fails.
OpenWith(u, a, wanted) ==
    /\ Alive
    /\ prepare(u, a)
    /\ IF u \in Urls /\ readyState < Opened
       THEN OpenUnsent(u) /\ asked' = [addr |-> u, async |-> wanted]
       ELSE UNCHANGED <<session, stateCb, timer, readyState, asked>>
    /\ UNCHANGED <<made, readyCb, timeout, sent, crashed>>

\* open(method, url) passes false; its documentation promises the other mode.
OpenTwoArguments(u) == OpenWith(u, FALSE, TRUE)

\* timeout(ms): refused once the request is open.
TimeoutAnytime(ms) ==
    /\ Alive
    /\ timeout' = ms
    /\ UNCHANGED <<made, addr, isAsync, session, cbVars, readyState, timer, sent, crashed,
                   asked>>
Timeout(ms) ==
    /\ Alive
    /\ readyState = Unsent
    /\ timeout' = ms
    /\ UNCHANGED <<made, addr, isAsync, session, cbVars, readyState, timer, sent, crashed,
                   asked>>

\* setOnReadyCallback(), setOnStateChangedCallback(): need a session.
SetOnReadyCallback ==
    /\ Alive
    /\ session # NoSession
    /\ readyCb' = TRUE
    /\ UNCHANGED <<made, addr, isAsync, session, stateCb, readyState, timeout, timer, sent,
                   crashed, asked>>

SetOnStateChangedCallback ==
    /\ Alive
    /\ session # NoSession
    /\ stateCb' = "user"
    /\ UNCHANGED <<made, addr, isAsync, session, readyCb, readyState, timeout, timer, sent,
                   crashed, asked>>

\* send(), send(callback), send(body): nothing happens without a session.
Send ==
    /\ Alive
    /\ session # NoSession
    /\ sent' = TRUE
    /\ readyCb' \in {readyCb, TRUE}
    /\ UNCHANGED <<made, addr, isAsync, session, stateCb, readyState, timeout, timer,
                   crashed, asked>>

\* A callback of the session tells the state (see SessionCallbacks).
StateChange(s) ==
    /\ Alive
    /\ sent
    /\ readyState' = IF stateCb # "none" THEN s ELSE readyState
    /\ UNCHANGED <<made, addr, isAsync, session, cbVars, timeout, timer, sent, crashed,
                   asked>>

\* abort() and the destructor, overrideMimeType(): they use the service or the
\* session without a test.
UseSession ==
    /\ Alive
    /\ crashed' = (session = NoSession)
    /\ UNCHANGED <<made, addr, isAsync, session, cbVars, readyState, timeout, timer, sent,
                   asked>>
-----------------------------------------------------------------------------
Next ==
    \/ Construct
    \/ \E u \in Urls \cup BadUrls, a \in BOOLEAN :
         ConstructWith(u, a) \/ OpenWith(u, a, a)
    \/ Open
    \/ \E u \in Urls \cup BadUrls : OpenTwoArguments(u)
    \/ \E ms \in Times : Timeout(ms)
    \/ SetOnReadyCallback \/ SetOnStateChangedCallback
    \/ Send
    \/ \E s \in 2..Done : StateChange(s)
    \/ UseSession

Spec == Init /\ [][Next]_vars
-----------------------------------------------------------------------------
\* The timer that runs is the one timeout() reports: no order of calls changes
\* the timeout under it.
TimerIsTimeout == timer # 0 => timer = timeout

\* A session always has a state-change callback, so that open() and the answer
\* move readyState; the code installs one only while readyState is Unsent.
SessionWired == session # NoSession => stateCb # "none"

\* open() never leaves an object open without a session to send on.
OpenHasSession == readyState >= Opened => session # NoSession
-----------------------------------------------------------------------------
(* What the repository says of the program and the program does not do     *)

\* README.md:102, open(method, url) "Initializes a request in ASYNC mode".
OpenMode == readyState = Opened => isAsync = asked.async

\* README.md:107, open(method, url, async) "Initializes a request": to the
\* given URL, so the session goes to its host.
OpenHost == readyState = Opened => session = asked.addr

\* README.md:82, abort() "Aborts the request if it has already been sent": else
\* it does nothing.
NoNullCall == ~crashed
=============================================================================
