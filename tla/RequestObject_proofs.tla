----------------------- MODULE RequestObject_proofs -----------------------
(***************************************************************************)
(* Whatever calls the user makes, in whatever order and with whatever      *)
(* URLs: proofs about RequestObject.                                       *)
(***************************************************************************)
EXTENDS RequestObject, TLAPS

\* A timer exists only once the object is open: this is what makes the refusal
\* in timeout() enough.
TimerWhenOpen == timer # 0 => readyState >= Opened

\* Only an object with a session has sent anything, so only then can a callback
\* of the session move readyState.
SentHasSession == sent => session # NoSession

\* The inductive invariant.  TimerIsTimeout needs TimerWhenOpen, which needs
\* open() to succeed in moving readyState, that is SessionWired, which needs
\* initCallbacks() to run while readyState is Unsent, that is OpenHasSession.
Inv ==
    /\ TypeOK
    /\ SessionWired
    /\ OpenHasSession
    /\ SentHasSession
    /\ TimerIsTimeout
    /\ TimerWhenOpen

\* Init establishes the invariant.
LEMMA InitInv == Init => Inv
<1> SUFFICES ASSUME Init PROVE Inv
  OBVIOUS
<1>1. /\ made \in BOOLEAN /\ isAsync \in BOOLEAN /\ readyCb \in BOOLEAN
      /\ sent \in BOOLEAN /\ crashed \in BOOLEAN
  BY DEF Init
<1>2. asked \in Modes
  BY DEF Init, Modes
<1>3. SentHasSession
  BY DEF Init, SentHasSession
<1> QED
  BY <1>1, <1>2, <1>3 DEF Init, Inv, TypeOK, SessionWired, OpenHasSession,
     TimerIsTimeout, TimerWhenOpen, Unsent, Opened, Done

\* open() on an object that is not open keeps the invariant of what it changes:
\* it ends with a session, a callback, readyState Opened and the right timer.
LEMMA OpenUnsentWorks ==
  ASSUME Inv, NEW a \in Urls \cup {NoAddr}, readyState < Opened, OpenUnsent(a)
  PROVE  /\ session' \in Urls \cup {NoAddr, NoSession}
         /\ session' # NoSession
         /\ stateCb' \in {"none", "init", "user"}
         /\ stateCb' # "none"
         /\ readyState' = Opened
         /\ timer' \in Times \cup {0}
         /\ timer' # 0 => timer' = timeout
<1>1. readyState = Unsent
  BY DEF Inv, TypeOK, Unsent, Opened, Done
<1>2. NoSession \notin Urls /\ NoAddr # NoSession
  BY UrlsAssumption DEF NoAddr, NoSession
<1>3. /\ session' \in Urls \cup {NoAddr, NoSession} /\ session' # NoSession
      /\ stateCb' \in {"none", "init", "user"} /\ stateCb' # "none"
  BY <1>1, <1>2 DEF OpenUnsent, setup, initCallbacks, Inv, TypeOK, SessionWired
<1>4. timer' \in Times \cup {0} /\ (timer' # 0 => timer' = timeout)
  BY DEF OpenUnsent, setupTimer, Inv, TypeOK, TimerIsTimeout
<1> QED
  BY <1>3, <1>4 DEF OpenUnsent

\* Every call preserves the invariant.
LEMMA NextInv == Inv /\ [Next]_vars => Inv'
<1> SUFFICES ASSUME Inv, [Next]_vars PROVE Inv'
  OBVIOUS
<1> USE DEF Inv, TypeOK, SessionWired, OpenHasSession, SentHasSession, TimerIsTimeout,
            TimerWhenOpen, Unsent, Opened, Done
<1>1. CASE Construct
  BY <1>1 DEF Construct, cbVars
<1>2. ASSUME NEW u \in Urls \cup BadUrls, NEW b \in BOOLEAN, ConstructWith(u, b)
      PROVE  Inv'
  <2>1. addr' \in Urls \cup {NoAddr} /\ isAsync' \in BOOLEAN
    BY <1>2 DEF ConstructWith, prepare
  <2>2. asked' \in Modes
    BY <1>2 DEF ConstructWith, Modes
  <2>3. /\ session' \in Urls \cup {NoAddr, NoSession}
        /\ stateCb' \in {"none", "init", "user"}
        /\ session' # NoSession => stateCb' # "none"
        /\ session # NoSession => session' # NoSession
    BY <1>2, <2>1, UrlsAssumption DEF ConstructWith, setup, initCallbacks
  <2> QED
    BY <1>2, <2>1, <2>2, <2>3 DEF ConstructWith
<1>3. CASE Open
  <2>1. addr \in Urls \cup {NoAddr} /\ readyState < Opened /\ OpenUnsent(addr)
    BY <1>3 DEF Open
  <2> QED
    BY <1>3, <2>1, OpenUnsentWorks DEF Open
<1>4. ASSUME NEW u \in Urls \cup BadUrls, NEW b \in BOOLEAN, NEW w \in BOOLEAN,
             OpenWith(u, b, w)
      PROVE  Inv'
  <2>1. addr' \in Urls \cup {NoAddr} /\ isAsync' \in BOOLEAN
    BY <1>4 DEF OpenWith, prepare
  <2>2. CASE u \in Urls /\ readyState < Opened
    <3>1. OpenUnsent(u) /\ asked' = [addr |-> u, async |-> w]
      BY <1>4, <2>2 DEF OpenWith
    <3>2. asked' \in Modes
      BY <2>2, <3>1 DEF Modes
    <3> QED
      BY <1>4, <2>1, <2>2, <3>1, <3>2, OpenUnsentWorks DEF OpenWith
  <2>3. CASE ~(u \in Urls /\ readyState < Opened)
    BY <1>4, <2>1, <2>3 DEF OpenWith
  <2> QED
    BY <2>2, <2>3
<1>5. ASSUME NEW ms \in Times, Timeout(ms) PROVE Inv'
  BY <1>5 DEF Timeout, cbVars
<1>6. CASE SetOnReadyCallback
  BY <1>6 DEF SetOnReadyCallback
<1>7. CASE SetOnStateChangedCallback
  BY <1>7 DEF SetOnStateChangedCallback
<1>8. CASE Send
  BY <1>8 DEF Send
<1>9. ASSUME NEW s \in 2..Done, StateChange(s) PROVE Inv'
  BY <1>9 DEF StateChange, cbVars
<1>10. CASE UseSession
  BY <1>10 DEF UseSession, cbVars
<1>11. CASE UNCHANGED vars
  BY <1>11 DEF vars, cbVars
<1> HIDE DEF Inv
<1>12. ASSUME NEW u \in Urls \cup BadUrls, OpenTwoArguments(u) PROVE Inv'
  BY <1>12, <1>4 DEF OpenTwoArguments
<1> QED
  BY <1>1, <1>2, <1>3, <1>4, <1>5, <1>6, <1>7, <1>8, <1>9, <1>10, <1>11, <1>12 DEF Next

\* The invariant holds for every set of URLs and of times.
THEOREM CallsSafe == Spec => []Inv
  BY InitInv, NextInv, PTL DEF Spec

\* No order of calls changes the timeout under a timer that was started.
THEOREM TimeoutFixed == Spec => []TimerIsTimeout
<1>1. Inv => TimerIsTimeout
  BY DEF Inv
<1> QED
  BY <1>1, CallsSafe, PTL

\* Every session has a state-change callback, so that its answers move readyState.
THEOREM OpenIsUsable == Spec => []SessionWired
<1>1. Inv => SessionWired
  BY DEF Inv
<1> QED
  BY <1>1, CallsSafe, PTL

\* An object that open() has opened has a session for send() to use.
THEOREM OpenHasOne == Spec => []OpenHasSession
<1>1. Inv => OpenHasSession
  BY DEF Inv
<1> QED
  BY <1>1, CallsSafe, PTL

\* Every variable keeps its type, whatever the order of the user's calls.
THEOREM TypesKept == Spec => []TypeOK
<1>1. Inv => TypeOK
  BY DEF Inv
<1> QED
  BY <1>1, CallsSafe, PTL
===========================================================================
