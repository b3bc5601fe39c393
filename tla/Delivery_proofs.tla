--------------------------- MODULE Delivery_proofs ---------------------------
(***************************************************************************)
(* How the session's operations follow one another, and what that does to  *)
(* its bytes, for every buffer size and any number of requests.            *)
(*                                                                         *)
(* OpsInv accounts for each kind of operation: it is under way, or its     *)
(* handler waits, or the thread is at a point that will start it again,    *)
(* and never two of these.  From it follow OneOpEach and BufferStable.     *)
(* AttendInv adds that the read and the ping wait never run out.           *)
(* BytesInv accounts for each byte nghttp2 made while the peer is there:   *)
(* given to the socket, in the buffer, or in the pending block, after the  *)
(* meaningless bytes of an uninitialised wblen_.  From it follow           *)
(* GivenInFull and, step by step, OutputPipe.                              *)
(* OrderInv gives WireIncreasing, for writes cut short.  FirstInv, at the  *)
(* end, says why the write() of the first submit() returns before it locks *)
(* insideCb.                                                               *)
(***************************************************************************)
EXTENDS Output_proofs, FiniteSetTheorems

\* The thread holds the operation of kind k: it runs its handler, or is on the
\* way to starting it again.
Busy(k) ==
    \/ k = "read" /\ pc \in {"read0", "onRead", "recv", "again"}
    \/ k = "read" /\ pc \in {"write", "send"} /\ ret \in {"read0", "again"}
    \/ k = "ping" /\ pc \in {"read0", "onPing", "startPing"}
    \/ k = "ping" /\ pc \in {"write", "send"} /\ ret \in {"read0", "startPing"}
    \/ k = "write" /\ pc = "written"
    \/ k = "timer" /\ pc = "onTimer"

AtMostOne(k) ==
    /\ armed[k] =< 1
    /\ armed[k] = 1 => Waiting(k) = {} /\ ~Busy(k)
    /\ Waiting(k) # {} => ~Busy(k)
    /\ \A i, j \in Waiting(k) : i = j

\* Before the first connect nothing has been started but the timer.
Unconnected ==
    /\ stopped
    /\ pc \in {"idle", "connect", "connecting", "fetch", "fetchWithBody", "onTimer"}
    /\ \A k \in {"read", "write", "ping"} : armed[k] = 0 /\ Waiting(k) = {}

\* `writing' is set while a write is under way or its handler is due, and the
\* loop of write() runs without one.
WritingInv ==
    /\ armed["write"] = 1 \/ Waiting("write") # {} \/ Busy("write") => writing
    /\ pc = "send" => ~writing

OneInv == \A k \in OpKinds : AtMostOne(k)
ConnectInv == ~h2 => Unconnected

OpsInv == OneInv /\ ConnectInv /\ WritingInv

\* Byte p of what the socket is given, when g bytes of an uninitialised buffer
\* come first; and sequence s holds the bytes that follow the first m.
Byte(g, p) == IF p =< g THEN 0 ELSE p - g
Follows(g, s, m) == \A k \in 1..Len(s) : s[k] = Byte(g, m + k)

\* What of the buffer the socket has still to be given: after the write is
\* complete, and until its handler runs, nothing.
Buffered == IF writing /\ armed["write"] = 0 THEN <<>> ELSE wb

\* Each byte nghttp2 made for a connected peer was given to the socket, or is in
\* the buffer, or in the pending block, in this order; the first write takes all
\* the meaningless bytes.
Accounted(g) ==
    /\ Follows(g, given, 0)
    /\ peer = "up" =>
         /\ Follows(g, Buffered, Len(given))
         /\ Follows(g, pend, Len(given) + Len(Buffered))
         /\ Len(given) + Len(Buffered) + Len(pend) = produced + g
         /\ Len(given) + Len(Buffered) >= g
         /\ given = <<>> \/ Len(given) >= g

BytesInv == \E g \in Garbage : Accounted(g)
-----------------------------------------------------------------------------
(* The queue of handlers                                                   *)

\* A handler is queued: it waits behind the others.
LEMMA AppendWaits ==
    ASSUME SvcTypeOK, NEW h \in Handlers, ready' = Append(ready, h), NEW k
    PROVE  /\ h.op # k => Waiting(k)' = Waiting(k)
           /\ h.op = k => Waiting(k)' = Waiting(k) \cup {Len(ready) + 1}
<1>1. /\ ready \in Seq(Handlers) /\ Len(ready) \in Nat /\ DOMAIN ready = 1..Len(ready)
      /\ ready' \in Seq(Handlers) /\ DOMAIN ready' = 1..(Len(ready) + 1)
      /\ \A j \in 1..Len(ready) : ready'[j] = ready[j]
      /\ ready'[Len(ready) + 1] = h
  BY DEF SvcTypeOK
<1> QED BY <1>1 DEF Waiting

\* The first handler is taken: the others move up.
LEMMA TailWaits ==
    ASSUME SvcTypeOK, ready # <<>>, ready' = Tail(ready), NEW k
    PROVE  \A j : j \in Waiting(k)' => j + 1 \in Waiting(k) /\ j \in Nat \ {0}
<1>1. /\ ready \in Seq(Handlers) /\ Len(ready) \in Nat /\ DOMAIN ready = 1..Len(ready)
      /\ DOMAIN ready' = 1..(Len(ready) - 1)
      /\ \A j \in 1..(Len(ready) - 1) : ready'[j] = ready[j + 1]
  BY HeadTailProperties DEF SvcTypeOK
<1> QED BY <1>1 DEF Waiting

\* The first handler waited.
LEMMA HeadWaits ==
    ASSUME SvcTypeOK, ready # <<>>
    PROVE  1 \in Waiting(Head(ready).op) /\ Head(ready) = ready[1]
<1>1. ready \in Seq(Handlers) /\ Len(ready) >= 1 /\ DOMAIN ready = 1..Len(ready)
  BY EmptySeq DEF SvcTypeOK
<1> QED BY <1>1 DEF Waiting

\* Jobs that are posted are no operation's handler.
LEMMA PostWaits ==
    ASSUME SvcTypeOK, NEW g \in Handlers, NEW h \in Handlers,
           g.op \notin OpKinds, h.op \notin OpKinds,
           ready' = ready \o <<g, h>>, NEW k \in OpKinds
    PROVE  Waiting(k)' = Waiting(k)
<1>1. /\ ready \in Seq(Handlers) /\ Len(ready) \in Nat /\ DOMAIN ready = 1..Len(ready)
      /\ <<g, h>> \in Seq(Handlers) /\ Len(<<g, h>>) = 2
  BY DEF SvcTypeOK
<1>2. /\ DOMAIN ready' = 1..(Len(ready) + 2)
      /\ \A j \in 1..Len(ready) : ready'[j] = ready[j]
      /\ ready'[Len(ready) + 1] = g /\ ready'[Len(ready) + 2] = h
  BY <1>1
<1> QED BY <1>1, <1>2 DEF Waiting
-----------------------------------------------------------------------------
(* OneInv: what the steps do to the operations                             *)

\* The thread takes hold of nothing new.
Released == \A k \in OpKinds : Busy(k)' => Busy(k)

\* Nothing starts and nothing completes.
LEMMA QuietKeeps ==
    ASSUME OneInv, Released, UNCHANGED <<ready, armed>>
    PROVE  OneInv'
<1> SUFFICES ASSUME NEW k \in OpKinds PROVE AtMostOne(k)'
  BY DEF OneInv
<1>1. Waiting(k)' = Waiting(k)
  BY DEF Waiting
<1> HIDE DEF Waiting
<1>2. (Busy(k)' => Busy(k)) /\ AtMostOne(k)
  BY DEF OneInv, Released
<1> HIDE DEF Busy
<1> QED BY <1>1, <1>2 DEF AtMostOne

\* An operation of kind k starts, of which there was none.
LEMMA StartKeeps ==
    ASSUME SvcTypeOK, OneInv, Released, NEW k \in OpKinds, armed[k] = 0, Waiting(k) = {},
           ~Busy(k)', armed' = Armed(k), ready' = ready
    PROVE  OneInv'
<1> SUFFICES ASSUME NEW j \in OpKinds PROVE AtMostOne(j)'
  BY DEF OneInv
<1>1. Waiting(j)' = Waiting(j)
  BY DEF Waiting
<1>2. (Busy(j)' => Busy(j)) /\ AtMostOne(j)
  BY DEF OneInv, Released
<1>3. armed'[j] = IF j = k THEN 1 ELSE armed[j]
  BY DEF SvcTypeOK, Armed
<1> HIDE DEF Busy, Waiting
<1> QED BY <1>1, <1>2, <1>3 DEF AtMostOne

\* An operation under way ends, and its handler is queued.
LEMMA QueuedKeeps ==
    ASSUME SvcTypeOK, OneInv, Released, NEW k \in OpKinds, NEW e \in ErrorCodes,
           armed[k] = 1, armed' = [armed EXCEPT ![k] = 0],
           ready' = Append(ready, Handler(k, e))
    PROVE  OneInv'
<1> SUFFICES ASSUME NEW j \in OpKinds PROVE AtMostOne(j)'
  BY DEF OneInv
<1>1. Handler(k, e) \in Handlers /\ Handler(k, e).op = k
  BY HandlerType DEF Handler
<1>2. (Busy(j)' => Busy(j)) /\ AtMostOne(j)
  BY DEF OneInv, Released
<1>3. armed'[j] = IF j = k THEN 0 ELSE armed[j]
  BY DEF SvcTypeOK
<1> HIDE DEF Busy
<1>4. CASE j # k
  <2>1. Waiting(j)' = Waiting(j)
    BY <1>1, <1>4, AppendWaits
  <2> QED BY <1>2, <1>3, <1>4, <2>1 DEF AtMostOne
<1>5. CASE j = k
  <2>1. Waiting(k)' = Waiting(k) \cup {Len(ready) + 1} /\ Waiting(k) = {}
    BY <1>1, <1>2, <1>5, AppendWaits DEF AtMostOne
  <2>2. ~Busy(j)'
    BY <1>2, <1>5 DEF AtMostOne
  <2> QED BY <1>3, <1>5, <2>1, <2>2 DEF AtMostOne
<1> QED BY <1>4, <1>5

\* Cancelling the ping timer queues its handler, if it waits.
LEMMA CancelKeeps ==
    ASSUME SvcTypeOK, OneInv, Released, cancelPing
    PROVE  OneInv'
<1>1. armed["ping"] \in Nat /\ armed["ping"] =< 1 /\ "ping" \in OpKinds
  BY DEF SvcTypeOK, OneInv, AtMostOne, OpKinds
<1>2. CASE armed["ping"] = 1
  <2>1. /\ armed' = [armed EXCEPT !["ping"] = 0]
        /\ ready' = Append(ready, Handler("ping", "aborted"))
    BY <1>2 DEF cancelPing, CancelledReady
  <2>2. "aborted" \in ErrorCodes
    BY DEF ErrorCodes
  <2> QED BY <1>1, <1>2, <2>1, <2>2, QueuedKeeps
<1>3. CASE armed["ping"] = 0
  <2>1. ready' = ready /\ armed' = armed
    BY <1>1, <1>3 DEF cancelPing, CancelledReady, SvcTypeOK
  <2> QED BY <2>1, QuietKeeps
<1> QED BY <1>1, <1>2, <1>3

LEMMA StopOne ==
    ASSUME SvcTypeOK, OneInv, Released, Stop
    PROVE  OneInv'
<1>1. CASE stopped
  BY <1>1, QuietKeeps DEF Stop, svcVars
<1>2. CASE ~stopped
  BY <1>2, CancelKeeps DEF Stop
<1> QED BY <1>1, <1>2

LEMMA AbortOne ==
    ASSUME SvcTypeOK, OneInv, Released, Abort
    PROVE  OneInv'
<1>1. CASE stopped
  BY <1>1, QuietKeeps DEF Abort
<1>2. CASE ~stopped
  BY <1>2, CancelKeeps DEF Abort
<1> QED BY <1>1, <1>2

LEMMA CompleteOne ==
    ASSUME SvcTypeOK, OneInv, Released, NEW k \in OpKinds, NEW e \in ErrorCodes, Complete(k, e)
    PROVE  OneInv'
<1>1. armed[k] = 1
  BY DEF Complete, OneInv, AtMostOne, SvcTypeOK
<1>2. armed' = [armed EXCEPT ![k] = 0] /\ ready' = Append(ready, Handler(k, e))
  BY <1>1 DEF Complete, SvcTypeOK
<1> QED BY <1>1, <1>2, QueuedKeeps

\* A handler starts: the thread is busy with its operation and no other.
LEMMA DispatchOne ==
    ASSUME TypeOK, OneInv, Dispatch
    PROVE  OneInv'
<1> SUFFICES ASSUME NEW k \in OpKinds PROVE AtMostOne(k)'
  BY DEF OneInv
<1> DEFINE op == Head(ready).op
<1>1. SvcTypeOK /\ ready # <<>> /\ ready' = Tail(ready) /\ armed' = armed
      /\ pc' = HandlerPoint(op)
  BY DEF Dispatch, TypeOK
<1>2. 1 \in Waiting(op)
  BY <1>1, HeadWaits
<1>3. op \in OpKinds \cup Jobs
  BY <1>1, HeadTailProperties, HeadType DEF SvcTypeOK
<1> HIDE DEF op
<1>4. Busy(k)' => k = op
  BY <1>1, <1>3 DEF Busy, HandlerPoint, OpKinds, Jobs
<1>5. AtMostOne(k)
  BY DEF OneInv
<1>6. \A j : j \in Waiting(k)' => j + 1 \in Waiting(k) /\ j \in Nat \ {0}
  BY <1>1, TailWaits
<1>7. CASE k = op
  <2> HIDE DEF Busy, Waiting
  <2>1. Waiting(k)' = {}
    <3> SUFFICES ASSUME NEW j \in Waiting(k)' PROVE FALSE
      OBVIOUS
    <3>1. j + 1 \in Waiting(k) /\ j \in Nat \ {0} /\ 1 \in Waiting(k)
      BY <1>2, <1>6, <1>7
    <3>2. j + 1 = 1
      BY <1>5, <3>1 DEF AtMostOne
    <3> QED BY <3>1, <3>2
  <2>2. armed'[k] = 0
    BY <1>1, <1>2, <1>5, <1>7 DEF AtMostOne, SvcTypeOK
  <2> QED BY <2>1, <2>2 DEF AtMostOne
<1>8. CASE k # op
  <2>1. ~Busy(k)'
    BY <1>4, <1>8
  <2>2. Waiting(k) = {} => Waiting(k)' = {}
    BY <1>6
  <2>3. \A i, j \in Waiting(k)' : i = j
    BY <1>5, <1>6 DEF AtMostOne
  <2> HIDE DEF Busy
  <2> QED BY <1>1, <1>5, <2>1, <2>2, <2>3 DEF AtMostOne
<1> QED BY <1>7, <1>8
-----------------------------------------------------------------------------
(* OpsInv: the steps by what they do                                       *)

\* The thread goes from a point to another and starts nothing.
LEMMA QuietOps ==
    ASSUME TypeOK, OpsInv, Released, UNCHANGED <<ready, armed, writing>>,
           pc' = "send" => ~writing, h2 => h2', ~h2' => stopped' /\ pc' \in {"idle", "connecting"}
    PROVE  OpsInv'
<1>1. OneInv'
  BY QuietKeeps DEF OpsInv
<1>2. \A k : Waiting(k)' = Waiting(k)
  BY DEF Waiting
<1>3. ConnectInv'
  BY <1>2 DEF OpsInv, ConnectInv, Unconnected
<1>4. Busy("write")' => Busy("write")
  BY DEF Released, OpKinds
<1>5. WritingInv'
  <2> HIDE DEF Busy, Waiting
  <2> QED BY <1>2, <1>4 DEF OpsInv, WritingInv
<1> QED BY <1>1, <1>3, <1>5 DEF OpsInv

\* What stop() leaves alone: all but the ping timer.
LEMMA StopOps ==
    ASSUME TypeOK, OpsInv, Released, Stop \/ Abort, UNCHANGED <<writing, h2>>,
           pc' = "send" => pc = "send", ~h2 => pc' \in {pc, "idle"}
    PROVE  OpsInv'
<1>1. OneInv'
  BY StopOne, AbortOne DEF OpsInv, TypeOK
<1>2. stopped' = TRUE
  BY StopFacts DEF Abort
<1>3. CASE ready' = ready /\ armed' = armed
  <2>1. \A k : Waiting(k)' = Waiting(k)
    BY <1>3 DEF Waiting
  <2>2. Busy("write")' => Busy("write")
    BY DEF Released, OpKinds
  <2> HIDE DEF Busy, Waiting
  <2>3. ConnectInv'
    BY <1>2, <1>3, <2>1 DEF OpsInv, ConnectInv, Unconnected
  <2>4. WritingInv'
    BY <1>3, <2>1, <2>2 DEF OpsInv, WritingInv
  <2> QED BY <1>1, <2>3, <2>4 DEF OpsInv
<1>4. CASE ~stopped /\ cancelPing
  <2>1. Handler("ping", "aborted") \in Handlers /\ Handler("ping", "aborted").op = "ping"
    BY HandlerType DEF Handler, OpKinds, ErrorCodes
  <2>2. Waiting("write")' = Waiting("write")
    <3>1. CASE armed["ping"] > 0
      <4>1. ready' = Append(ready, Handler("ping", "aborted"))
        BY <1>4, <3>1 DEF cancelPing, CancelledReady
      <4> QED BY <2>1, <4>1, AppendWaits DEF TypeOK
    <3>2. CASE ~(armed["ping"] > 0)
      BY <1>4, <3>2 DEF cancelPing, CancelledReady, Waiting
    <3> QED BY <3>1, <3>2
  <2>3. armed'["write"] = armed["write"]
    BY <1>4 DEF cancelPing, TypeOK, SvcTypeOK, OpKinds
  <2>4. Busy("write")' => Busy("write")
    BY DEF Released, OpKinds
  <2> HIDE DEF Busy, Waiting
  <2>5. ConnectInv'
    BY <1>4 DEF OpsInv, ConnectInv, Unconnected
  <2>6. WritingInv'
    BY <2>2, <2>3, <2>4 DEF OpsInv, WritingInv
  <2> QED BY <1>1, <2>5, <2>6 DEF OpsInv
<1> QED BY <1>3, <1>4 DEF Stop, Abort, svcVars

\* The end of write(): the write that starts is the only one.
LEMMA LaunchOps ==
    ASSUME TypeOK, OpsInv, pc = "send", h2, NEW b, Launch(b)
    PROVE  OpsInv'
<1>1. Released /\ ~Busy("write")' /\ pc' # "send"
  BY DEF Released, Busy, OpKinds, Launch, TypeOK, SessTypeOK
<1>2. CASE b = <<>>
  BY <1>1, <1>2, QuietOps DEF Launch
<1>3. CASE b # <<>>
  <2>1. writing' = TRUE /\ armed' = Armed("write") /\ ready' = ready /\ h2'
    BY <1>3 DEF Launch, StartWrite
  <2>2. ~writing
    BY DEF OpsInv, WritingInv
  <2>3. "write" \in OpKinds /\ armed["write"] = 0 /\ Waiting("write") = {}
    <3> HIDE DEF Busy, Waiting
    <3>1. AtMostOne("write") /\ armed["write"] \in Nat
      BY DEF OpsInv, OneInv, OpKinds, TypeOK, SvcTypeOK
    <3> QED BY <2>2, <3>1 DEF OpsInv, WritingInv, AtMostOne, OpKinds
  <2>4. OneInv'
    BY <1>1, <2>1, <2>3, StartKeeps DEF OpsInv, TypeOK
  <2>5. ConnectInv' /\ WritingInv'
    BY <1>1, <2>1 DEF ConnectInv, WritingInv
  <2> QED BY <2>4, <2>5 DEF OpsInv
<1> QED BY <1>2, <1>3

\* One turn of the loop.
LEMMA EmitOps ==
    ASSUME TypeOK, OpsInv, pc = "send", h2, NEW n, Emit(n)
    PROVE  OpsInv'
<1>1. CASE Fits(n)
  <2>1. UNCHANGED <<pc, ret, h2, ready, armed, writing>>
    BY <1>1 DEF Emit, svcVars
  <2>2. Released
    BY <2>1 DEF Released, Busy
  <2>3. ~writing
    BY DEF OpsInv, WritingInv
  <2> QED BY <2>1, <2>2, <2>3, QuietOps
<1>2. CASE ~Fits(n)
  BY <1>2, LaunchOps DEF Emit, Leave
<1> QED BY <1>1, <1>2
-----------------------------------------------------------------------------
(* OpsInv: the actions                                                     *)

\* Before the first connection the thread is at none of a session's points.
LEMMA Connected ==
    ASSUME OpsInv, pc \notin {"idle", "connect", "connecting", "fetch", "fetchWithBody",
    "onTimer"}
    PROVE  h2
BY DEF OpsInv, ConnectInv, Unconnected

\* write() and what it serialises.
LEMMA WriteOps ==
    ASSUME TypeOK, OpsInv,
           \/ WriteSkip \/ WriteEnter \/ SendControl \/ SendHeaders \/ SendData
           \/ SendNothing \/ SendNoMem \/ WriteHandler
    PROVE  OpsInv'
<1>0. pc \in {"write", "send", "written"} /\ h2
  BY Connected DEF WriteSkip, WriteEnter, SendControl, SendHeaders, SendData, SendNothing,
                   SendNoMem, WriteHandler
<1>1. CASE WriteSkip
  <2>1. Released /\ pc' # "send"
    BY <1>1 DEF WriteSkip, Released, Busy, OpKinds, TypeOK, SessTypeOK
  <2> QED BY <1>0, <1>1, <2>1, QuietOps DEF WriteSkip, bufVars, svcVars
<1>2. CASE WriteEnter
  <2>1. Released
    BY <1>2 DEF WriteEnter, Released, Busy, OpKinds
  <2> QED BY <1>0, <1>2, <2>1, QuietOps DEF WriteEnter, MayWrite, svcVars
<1>3. CASE SendControl
  BY <1>0, <1>3, EmitOps DEF SendControl
<1>4. CASE SendHeaders
  BY <1>0, <1>4, EmitOps DEF SendHeaders
<1>5. CASE SendData
  BY <1>0, <1>5, EmitOps DEF SendData
<1>6. CASE SendNothing
  BY <1>0, <1>6, LaunchOps DEF SendNothing
<1>7. CASE SendNoMem
  <2>1. Released /\ pc' # "send"
    BY <1>7 DEF SendNoMem, Released, Busy, OpKinds, TypeOK, SessTypeOK
  <2> QED BY <1>0, <1>7, <2>1, StopOps DEF SendNoMem, bufVars
<1>8. CASE WriteHandler
  <2>1. Released /\ ~Busy("write")' /\ pc' # "send"
    BY <1>8 DEF WriteHandler, Written, Released, Busy, OpKinds
  <2>2. CASE WriteFailed
    BY <1>0, <1>8, <2>1, <2>2, StopOps DEF WriteHandler
  <2>3. CASE ~WriteFailed
    <3>1. UNCHANGED <<ready, armed>> /\ h2'
      BY <1>0, <1>8, <2>3 DEF WriteHandler, svcVars
    <3>2. OneInv'
      BY <2>1, <3>1, QuietKeeps DEF OpsInv
    <3>3. Busy("write") /\ AtMostOne("write") /\ armed["write"] \in Nat
      BY <1>8 DEF WriteHandler, Busy, OpsInv, OneInv, OpKinds, TypeOK, SvcTypeOK
    <3>4. Waiting("write")' = {} /\ armed'["write"] = 0
      BY <3>1, <3>3 DEF AtMostOne, Waiting
    <3> HIDE DEF Busy, Waiting
    <3>5. ConnectInv' /\ WritingInv'
      BY <2>1, <3>1, <3>4 DEF ConnectInv, WritingInv
    <3> QED BY <3>2, <3>5 DEF OpsInv
  <2> QED BY <2>2, <2>3
<1> QED BY <1>1, <1>2, <1>3, <1>4, <1>5, <1>6, <1>7, <1>8

\* The first connection takes hold of the read and of the ping; nothing else
\* can have started them.
LEMMA ConnectOps ==
    ASSUME TypeOK, OpsInv, ConnectBegin \/ ConnectFail \/ ConnectOk \/ ConnectSkip
    PROVE  OpsInv'
<1>1. CASE ConnectFail
  <2>1. Released
    BY <1>1 DEF ConnectFail, Released, Busy
  <2> QED BY <1>1, <2>1, StopOps DEF ConnectFail, bufVars
<1>2. CASE ConnectSkip
  <2>1. Released
    BY <1>2 DEF ConnectSkip, Released, Busy
  <2>2. h2
    BY <1>2 DEF ConnectSkip, OpsInv, ConnectInv, Unconnected
  <2> QED BY <1>2, <2>1, <2>2, QuietOps DEF ConnectSkip, bufVars, svcVars
<1>3. CASE ConnectOk
  <2>1. UNCHANGED <<ready, armed, writing>> /\ h2'
    BY <1>3 DEF ConnectOk, bufVars, svcVars
  <2>2. CASE h2
    <3>1. Released /\ pc' # "send"
      BY <1>3, <2>2 DEF ConnectOk, Released, Busy
    <3> QED BY <2>1, <3>1, QuietOps
  <2>3. CASE ~h2
    <3>1. pc' = "write" /\ ret' = "read0"
      BY <1>3, <2>3 DEF ConnectOk, Greet
    <3>2. \A k \in OpKinds : Busy(k)' => armed[k] = 0 /\ Waiting(k) = {}
      BY <2>3, <3>1 DEF Busy, OpsInv, ConnectInv, Unconnected, OpKinds
    <3>3. \A k : Waiting(k)' = Waiting(k)
      BY <2>1 DEF Waiting
    <3>4. ~Busy("write")'
      BY <3>1 DEF Busy
    <3> HIDE DEF Busy, Waiting
    <3>5. OneInv'
      BY <2>1, <3>2, <3>3 DEF OpsInv, OneInv, AtMostOne
    <3>6. ConnectInv'
      BY <2>1 DEF ConnectInv
    <3>7. WritingInv'
      BY <2>1, <3>1, <3>3, <3>4 DEF OpsInv, WritingInv
    <3> QED BY <3>5, <3>6, <3>7 DEF OpsInv
  <2> QED BY <2>2, <2>3
<1>4. CASE ConnectBegin
  <2>1. Released
    BY <1>4 DEF ConnectBegin, Released, Busy
  <2> QED BY <1>4, <2>1, QuietOps DEF ConnectBegin, bufVars, svcVars
<1> QED BY <1>1, <1>2, <1>3, <1>4

\* The read that starts is the only one.
LEMMA ReadOps ==
    ASSUME TypeOK, OpsInv, NEW next, Read(next), Busy("read"), ~Busy("read")', Released, h2,
           next # "send", UNCHANGED <<ready, writing, h2>>
    PROVE  OpsInv'
<1>1. CASE stopped
  <2>1. armed' = armed /\ pc' # "send"
    BY <1>1 DEF Read
  <2> QED BY <2>1, QuietOps
<1>2. CASE ~stopped
  <2> HIDE DEF Busy
  <2>1. armed' = Armed("read") /\ pc' # "send" /\ "read" \in OpKinds
    BY <1>2 DEF Read, OpKinds
  <2>2. armed["read"] = 0 /\ Waiting("read") = {}
    <3> HIDE DEF Waiting
    <3>1. AtMostOne("read") /\ armed["read"] \in Nat
      BY DEF OpsInv, OneInv, OpKinds, TypeOK, SvcTypeOK
    <3> QED BY <3>1 DEF AtMostOne
  <2>3. OneInv'
    BY <2>1, <2>2, StartKeeps DEF OpsInv, TypeOK
  <2>4. Waiting("write")' = Waiting("write") /\ armed'["write"] = armed["write"]
    BY <2>1 DEF Waiting, Armed, TypeOK, SvcTypeOK, OpKinds
  <2>5. Busy("write")' => Busy("write")
    BY DEF Released, OpKinds
  <2> HIDE DEF Waiting
  <2>6. ConnectInv' /\ WritingInv'
    BY <2>1, <2>4, <2>5 DEF OpsInv, ConnectInv, WritingInv
  <2> QED BY <2>3, <2>6 DEF OpsInv
<1> QED BY <1>1, <1>2

\* The ping timer: startPing() finds no wait under way, so it cancels none.
LEMMA PingOps ==
    ASSUME TypeOK, OpsInv, StartPing \/ PingHandler
    PROVE  OpsInv'
<1>0. h2
  BY Connected DEF StartPing, PingHandler
<1>1. CASE StartPing
  <2>1. Released /\ ~Busy("ping")' /\ pc' # "send" /\ "ping" \in OpKinds /\ h2'
    BY <1>0, <1>1 DEF StartPing, Released, Busy, OpKinds
  <2>2. armed["ping"] = 0 /\ Waiting("ping") = {}
    <3>1. AtMostOne("ping") /\ Busy("ping") /\ armed["ping"] \in Nat
      BY <1>1 DEF StartPing, Busy, OpsInv, OneInv, OpKinds, TypeOK, SvcTypeOK
    <3> HIDE DEF Waiting, Busy
    <3> QED BY <3>1 DEF AtMostOne
  <2>3. ready' = ready /\ armed' = Armed("ping") /\ writing' = writing
    BY <1>1, <2>2 DEF StartPing, CancelledReady, Armed, TypeOK, SvcTypeOK, OpKinds, bufVars
  <2>4. OneInv'
    BY <2>1, <2>2, <2>3, StartKeeps DEF OpsInv, TypeOK
  <2>5. Waiting("write")' = Waiting("write") /\ armed'["write"] = armed["write"]
    BY <2>3 DEF Waiting, Armed, TypeOK, SvcTypeOK, OpKinds
  <2>6. Busy("write")' => Busy("write")
    BY <2>1 DEF Released, OpKinds
  <2> HIDE DEF Waiting, Busy
  <2>7. ConnectInv' /\ WritingInv'
    BY <2>1, <2>3, <2>5, <2>6 DEF OpsInv, ConnectInv, WritingInv
  <2> QED BY <2>4, <2>7 DEF OpsInv
<1>2. CASE PingHandler
  <2>1. Released /\ pc' # "send" /\ h2'
    BY <1>0, <1>2 DEF PingHandler, Released, Busy, OpKinds
  <2> QED BY <1>2, <2>1, QuietOps DEF PingHandler, svcVars, bufVars
<1> QED BY <1>1, <1>2

\* submit() starts nothing itself.
LEMMA SubmitOps ==
    ASSUME TypeOK, OpsInv,
           SubmitStopped \/ SubmitInvalid \/ SubmitRefused \/ Submit \/ SubmitReturn
    PROVE  OpsInv'
<1>1. Released /\ pc' # "send" /\ h2' = h2 /\ writing' = writing
  BY DEF SubmitStopped, SubmitInvalid, SubmitRefused, Submit, SubmitReturn, Released, Busy,
         OpKinds, bufVars
<1>2. CASE SubmitInvalid
  BY <1>1, <1>2, StopOps DEF SubmitInvalid
<1>3. CASE SubmitStopped
  BY <1>1, <1>3, QuietOps DEF SubmitStopped, svcVars
<1>4. CASE SubmitRefused \/ Submit
  <2>1. h2
    BY <1>4 DEF SubmitRefused, Submit, OpsInv, ConnectInv, Unconnected
  <2> QED BY <1>1, <1>4, <2>1, QuietOps DEF SubmitRefused, Submit, svcVars
<1>5. CASE SubmitReturn
  <2>1. h2
    BY <1>5, Connected DEF SubmitReturn
  <2> QED BY <1>1, <1>5, <2>1, QuietOps DEF SubmitReturn, svcVars
<1> QED BY <1>2, <1>3, <1>4, <1>5

\* The first read, and the read handler.
LEMMA ReadHandlerOps ==
    ASSUME TypeOK, OpsInv,
           \/ FirstRead \/ ReadNothing \/ ReadHandler \/ RecvControl \/ RecvGoAway
           \/ RecvProtocolError \/ RecvWindow \/ RecvBad \/ RecvEnd \/ ReadAgain
    PROVE  OpsInv'
<1>0. h2 /\ UNCHANGED <<writing, h2>> /\ pc' # "send"
  BY Connected DEF FirstRead, ReadNothing, ReadHandler, RecvControl, RecvGoAway,
     RecvProtocolError, RecvWindow, RecvFrame, RecvBad, RecvEnd, ReadAgain, Read, bufVars
<1>1. Released
  BY DEF FirstRead, ReadNothing, ReadHandler, RecvControl, RecvGoAway, RecvProtocolError,
         RecvWindow, RecvFrame, RecvBad, RecvEnd, ReadAgain, Read, Released, Busy, OpKinds
<1>2. CASE FirstRead
  <2>1. Read("startPing") /\ Busy("read") /\ ~Busy("read")' /\ ready' = ready
    BY <1>2 DEF FirstRead, Read, Busy
  <2> QED BY <1>0, <1>1, <2>1, ReadOps
<1>3. CASE ReadAgain /\ ~shouldStop
  <2>1. Read("idle") /\ Busy("read") /\ ~Busy("read")' /\ ready' = ready
    BY <1>3 DEF ReadAgain, Read, Busy
  <2> QED BY <1>0, <1>1, <2>1, ReadOps
<1>4. CASE RecvBad \/ (ReadAgain /\ shouldStop)
  BY <1>0, <1>1, <1>4, StopOps DEF RecvBad, ReadAgain
<1>5. CASE ReadNothing \/ ReadHandler \/ RecvControl \/ RecvGoAway \/ RecvProtocolError
         \/ RecvWindow \/ RecvEnd
  <2>1. UNCHANGED <<ready, armed>>
    BY <1>5 DEF ReadNothing, ReadHandler, RecvControl, RecvGoAway, RecvProtocolError, RecvWindow,
                RecvFrame, RecvEnd, svcVars
  <2> QED BY <1>0, <1>1, <2>1, QuietOps
<1> QED BY <1>2, <1>3, <1>4, <1>5

\* The session's steps.
LEMMA SessionStepOps ==
    ASSUME TypeOK, OpsInv, SessionStep
    PROVE  OpsInv'
BY WriteOps, ConnectOps, PingOps, SubmitOps, ReadHandlerOps DEF SessionStep

\* A handler starts.
LEMMA DispatchOps ==
    ASSUME TypeOK, OpsInv, Dispatch
    PROVE  OpsInv'
<1>1. OneInv'
  BY DispatchOne DEF OpsInv
<1> DEFINE op == Head(ready).op
<1>2. /\ SvcTypeOK /\ ready # <<>> /\ ready' = Tail(ready) /\ armed' = armed
      /\ UNCHANGED <<h2, stopped, writing>> /\ pc' = HandlerPoint(op)
  BY DEF Dispatch, TypeOK, bufVars
<1>3. 1 \in Waiting(op) /\ op \in OpKinds \cup Jobs
  BY <1>2, HeadWaits, HeadTailProperties, HeadType DEF SvcTypeOK
<1>4. \A k : Waiting(k) = {} => Waiting(k)' = {}
  BY <1>2, TailWaits
<1> HIDE DEF op
<1>5. Busy("write")' => op = "write"
  BY <1>2, <1>3 DEF Busy, HandlerPoint, OpKinds, Jobs
<1>6. pc' # "send"
  BY <1>2, <1>3 DEF HandlerPoint, OpKinds, Jobs
<1> HIDE DEF Busy, Waiting
<1>7. WritingInv'
  BY <1>2, <1>3, <1>4, <1>5, <1>6 DEF OpsInv, WritingInv
<1>8. ConnectInv'
  <2> SUFFICES ASSUME ~h2' PROVE Unconnected'
    BY DEF ConnectInv
  <2>1. Unconnected
    BY <1>2 DEF OpsInv, ConnectInv
  <2>2. op \notin {"read", "write", "ping"}
    BY <1>3, <2>1 DEF Unconnected
  <2>3. pc' \in {"idle", "connect", "connecting", "fetch", "fetchWithBody", "onTimer"}
    BY <1>2, <1>3, <2>2 DEF HandlerPoint, OpKinds, Jobs
  <2> QED BY <1>2, <1>4, <2>1, <2>3 DEF Unconnected
<1> QED BY <1>1, <1>7, <1>8 DEF OpsInv

\* An operation completes, of a kind that is under way.
LEMMA CompleteOps ==
    ASSUME TypeOK, OpsInv, NEW k \in OpKinds, NEW e \in ErrorCodes, Complete(k, e),
           UNCHANGED <<pc, ret, stopped, h2, writing>>
    PROVE  OpsInv'
<1>1. Released
  BY DEF Released, Busy
<1>2. OneInv'
  BY <1>1, CompleteOne DEF OpsInv, TypeOK
<1>3. /\ armed[k] = 1 /\ armed' = [armed EXCEPT ![k] = 0]
      /\ ready' = Append(ready, Handler(k, e))
  <2>1. armed[k] = 1
    BY DEF Complete, OpsInv, OneInv, AtMostOne, TypeOK, SvcTypeOK
  <2> QED BY <2>1 DEF Complete, TypeOK, SvcTypeOK
<1>4. Handler(k, e) \in Handlers /\ Handler(k, e).op = k
  BY HandlerType DEF Handler
<1>5. /\ \A j \in OpKinds : j # k => Waiting(j)' = Waiting(j) /\ armed'[j] = armed[j]
      /\ armed'[k] = 0
  BY <1>3, <1>4, AppendWaits DEF TypeOK, SvcTypeOK
<1>6. Busy("write")' = Busy("write")
  BY DEF Busy
<1> HIDE DEF Busy, Waiting
<1>7. WritingInv'
  <2>1. CASE k = "write"
    BY <1>3, <2>1 DEF OpsInv, WritingInv
  <2>2. CASE k # "write"
    BY <1>5, <1>6, <2>2 DEF OpsInv, WritingInv, OpKinds
  <2> QED BY <2>1, <2>2
<1>8. ConnectInv'
  <2> SUFFICES ASSUME ~h2' PROVE Unconnected'
    BY DEF ConnectInv
  <2>1. Unconnected
    BY DEF OpsInv, ConnectInv
  <2>2. k \notin {"read", "write", "ping"}
    BY <1>3, <2>1 DEF Unconnected
  <2>3. {"read", "write", "ping"} \subseteq OpKinds
    BY DEF OpKinds
  <2> QED BY <1>5, <2>1, <2>2, <2>3 DEF Unconnected
<1> QED BY <1>2, <1>7, <1>8 DEF OpsInv

\* The rest of the I/O thread: run() returns, the timer's handler, the ready
\* callback.
LEMMA IoThreadOps ==
    ASSUME TypeOK, OpsInv, IoThread
    PROVE  OpsInv'
<1>1. CASE RunReturn
  <2>1. UNCHANGED <<pc, ret, ready, armed, stopped, h2, writing>>
    BY <1>1 DEF RunReturn, sessVars, bufVars
  <2>2. OpsInv' = OpsInv
    BY <2>1 DEF OpsInv, OneInv, AtMostOne, ConnectInv, Unconnected, WritingInv, Busy, Waiting
  <2> QED BY <2>2
<1>2. CASE TimerHandler
  <2>1. Released /\ Abort /\ UNCHANGED <<writing, h2>> /\ pc' = "idle"
    BY <1>2 DEF TimerHandler, Released, Busy, bufVars
  <2> QED BY <2>1, StopOps
<1>3. CASE StreamEnds \/ StreamRefused
  <2>1. PICK i \in Streams : (RecvStreamEnd(i) \/ RefuseHeaders(i)) /\ ReadyCallback(i)
    BY <1>3 DEF StreamEnds, StreamRefused
  <2>2. UNCHANGED <<pc, ret, writing, h2>> /\ pc \in {"recv", "send"}
    BY <2>1 DEF RecvStreamEnd, RefuseHeaders, bufVars
  <2>3. Released /\ h2
    BY <2>2, Connected DEF Released, Busy
  <2>4. CASE Stop \/ Abort
    BY <2>2, <2>3, <2>4, StopOps
  <2>5. CASE UNCHANGED svcVars
    <3>1. pc' = "send" => ~writing
      BY <2>2 DEF OpsInv, WritingInv
    <3> QED BY <2>2, <2>3, <2>5, <3>1, QuietOps DEF svcVars
  <2> QED BY <2>1, <2>4, <2>5 DEF ReadyCallback
<1> QED BY <1>1, <1>2, <1>3, SessionStepOps, DispatchOps DEF IoThread

\* The user's thread.
LEMMA UserOps ==
    ASSUME TypeOK, OpsInv, User
    PROVE  OpsInv'
<1>1. UNCHANGED <<pc, ret, h2, writing>>
  BY DEF User, Send, Run, AbortService, AbortSession, sessVars, bufVars
<1>2. Released /\ \A k : Busy(k)' = Busy(k)
  BY <1>1 DEF Released, Busy
<1>3. CASE AbortSession
  BY <1>1, <1>2, <1>3, StopOps DEF AbortSession
<1>4. CASE Send \/ Run \/ AbortService
  <2>1. UNCHANGED <<armed, stopped>>
    BY <1>4 DEF Send, Run, AbortService, sessVars
  <2>2. \A k \in OpKinds : Waiting(k)' = Waiting(k)
    <3>1. CASE Send
      <4>1. PICK m \in Methods : ready' = ready \o <<Handler("connect", "ok"), Handler(m, "ok")>>
        BY <3>1 DEF Send
      <4>2. "connect" \in Jobs /\ m \in Jobs /\ "ok" \in ErrorCodes
        BY RequestAssumption DEF Jobs, ErrorCodes
      <4>3. /\ Handler("connect", "ok") \in Handlers /\ Handler(m, "ok") \in Handlers
            /\ Handler("connect", "ok").op = "connect" /\ Handler(m, "ok").op = m
        BY <4>2, HandlerType DEF Handler
      <4>4. "connect" \notin OpKinds /\ m \notin OpKinds
        BY <4>2 DEF Jobs, OpKinds
      <4> QED BY <4>1, <4>3, <4>4, PostWaits DEF TypeOK
    <3>2. CASE Run \/ AbortService
      BY <3>2 DEF Run, AbortService, Waiting
    <3> QED BY <1>4, <3>1, <3>2
  <2>3. {"read", "write", "ping"} \subseteq OpKinds /\ "write" \in OpKinds
    BY DEF OpKinds
  <2> HIDE DEF Busy, Waiting
  <2>4. OneInv'
    BY <1>2, <2>1, <2>2 DEF OpsInv, OneInv, AtMostOne
  <2>5. ConnectInv'
    BY <1>1, <2>1, <2>2, <2>3 DEF OpsInv, ConnectInv, Unconnected
  <2>6. WritingInv'
    BY <1>1, <1>2, <2>1, <2>2, <2>3 DEF OpsInv, WritingInv
  <2> QED BY <2>4, <2>5, <2>6 DEF OpsInv
<1> QED BY <1>3, <1>4 DEF User

\* The socket, the timers and the peer.
LEMMA EnvironmentOps ==
    ASSUME TypeOK, OpsInv, Environment \/ TimerExpires
    PROVE  OpsInv'
<1>1. UNCHANGED <<pc, ret, stopped, h2, writing>>
  BY DEF Environment, WriteSocket, ReadSocket, PingExpires, PeerCloses, TimerExpires,
         sessVars, bufVars
<1>2. CASE PeerCloses
  <2>1. UNCHANGED <<ready, armed>>
    BY <1>2 DEF PeerCloses, svcVars
  <2>2. OpsInv' = OpsInv
    BY <1>1, <2>1 DEF OpsInv, OneInv, AtMostOne, ConnectInv, Unconnected, WritingInv, Busy,
                      Waiting
  <2> QED BY <2>2
<1>3. CASE ~PeerCloses
  <2>1. PICK k \in OpKinds, e \in ErrorCodes : Complete(k, e)
    BY <1>3 DEF Environment, WriteSocket, ReadSocket, PingExpires, TimerExpires, OpKinds,
                ErrorCodes
  <2> QED BY <1>1, <2>1, CompleteOps
<1> QED BY <1>2, <1>3

\* Every step keeps it, and it holds at first.
LEMMA NextOps ==
    ASSUME TypeOK, OpsInv, [Next]_vars
    PROVE  OpsInv'
<1>1. CASE UNCHANGED vars
  <2>1. UNCHANGED <<pc, ret, ready, armed, stopped, h2, writing>>
    BY <1>1 DEF vars, svcVars, sessVars, bufVars
  <2>2. OpsInv' = OpsInv
    BY <2>1 DEF OpsInv, OneInv, AtMostOne, ConnectInv, Unconnected, WritingInv, Busy, Waiting
  <2> QED BY <2>2
<1> QED BY <1>1, IoThreadOps, UserOps, EnvironmentOps DEF Next

LEMMA InitOps == Init => OpsInv
<1> SUFFICES ASSUME Init PROVE OpsInv
  OBVIOUS
<1>1. \A k : Waiting(k) = {}
  BY DEF Init, SvcInit, Waiting
<1>2. armed = [k \in OpKinds |-> IF k = "timer" /\ HasTimeout THEN 1 ELSE 0]
  BY DEF Init, SvcInit
<1>3. pc = "idle" /\ stopped = TRUE /\ h2 = FALSE /\ writing = FALSE
  BY DEF Init, SessInit
<1>4. \A k : ~Busy(k)
  BY <1>3 DEF Busy
<1> HIDE DEF Busy, Waiting
<1>5. OneInv
  BY <1>1, <1>2, <1>4 DEF OneInv, AtMostOne
<1>6. ConnectInv
  BY <1>1, <1>2, <1>3 DEF ConnectInv, Unconnected, OpKinds
<1>7. WritingInv
  BY <1>1, <1>2, <1>3, <1>4 DEF WritingInv, OpKinds
<1> QED BY <1>5, <1>6, <1>7 DEF OpsInv

\* The invariant of every reachable state.
THEOREM Operations == Spec => [](Inv /\ OpsInv)
<1>1. Init => OpsInv
  BY InitOps
<1>2. Inv /\ OpsInv /\ [Next]_vars => OpsInv'
  BY NextOps DEF Inv
<1> QED BY <1>1, <1>2, Invariance, PTL DEF Spec

\* At most one read, one write, one ping wait and one timer, counting those
\* whose handler is due: of each the session has one buffer, or one timer, and
\* nothing would keep two apart.
THEOREM OneAtATime == Spec => []OneOpEach
<1>1. Inv /\ OpsInv => OneOpEach
  <2> SUFFICES ASSUME Inv, OpsInv, NEW k \in OpKinds PROVE Outstanding(k) =< 1
    BY DEF OneOpEach
  <2>1. AtMostOne(k) /\ armed[k] \in Nat
    BY DEF OpsInv, OneInv, Inv, TypeOK, SvcTypeOK
  <2> HIDE DEF Waiting, Busy
  <2>2. CASE Waiting(k) = {}
    BY <2>1, <2>2, FS_EmptySet DEF AtMostOne, Outstanding
  <2>3. CASE Waiting(k) # {}
    <3>1. PICK j : Waiting(k) = {j}
      BY <2>1, <2>3 DEF AtMostOne
    <3>2. armed[k] = 0
      BY <2>1, <2>3 DEF AtMostOne
    <3> QED BY <3>1, <3>2, FS_Singleton DEF Outstanding
  <2> QED BY <2>2, <2>3
<1> QED BY <1>1, Operations, PTL

\* A write is under way, or its handler is due: `writing' is set, and nobody
\* is in the loop or in the handler.
LEMMA OutstandingWrite ==
    ASSUME TypeOK, OpsInv, Outstanding("write") > 0
    PROVE  writing /\ pc # "written" /\ pc # "send"
<1>1. AtMostOne("write") /\ armed["write"] \in Nat
  BY DEF OpsInv, OneInv, OpKinds, TypeOK, SvcTypeOK
<1>2. armed["write"] = 1 \/ Waiting("write") # {}
  <2> HIDE DEF Waiting, Busy
  <2> QED BY <1>1, FS_EmptySet DEF AtMostOne, Outstanding
<1>3. ~Busy("write")
  BY <1>1, <1>2 DEF AtMostOne
<1>4. pc # "written"
  BY <1>3 DEF Busy
<1> HIDE DEF Waiting, Busy
<1> QED BY <1>2, <1>4 DEF OpsInv, WritingInv

\* The buffer the socket was given keeps its contents until the handler of
\* that write empties it, whoever calls write() in between.
THEOREM BufferKept == Spec => BufferStable
<1>1. ASSUME Inv, OpsInv, [Next]_vars, Outstanding("write") > 0 PROVE wb' = wb
  <2>1. writing /\ pc # "written" /\ pc # "send"
    BY <1>1, OutstandingWrite DEF Inv
  <2>2. CASE SessionStep
    BY <2>1, <2>2 DEF SessionStep, WriteSkip, WriteEnter, MayWrite, SendControl, SendHeaders,
       SendData, SendNothing, SendNoMem, WriteHandler, ConnectBegin, ConnectFail, ConnectOk,
       ConnectSkip, FirstRead, StartPing, PingHandler, SubmitStopped, SubmitInvalid,
       SubmitRefused, Submit, SubmitReturn, ReadNothing, ReadHandler, RecvControl, RecvGoAway,
       RecvProtocolError, RecvWindow, RecvFrame, RecvBad, RecvEnd, ReadAgain, bufVars
  <2>3. CASE ~SessionStep
    BY <1>1, <2>3 DEF Next, IoThread, Dispatch, RunReturn, TimerHandler, StreamEnds,
       StreamRefused, RecvStreamEnd, RefuseHeaders, User, Send, Run, AbortService, AbortSession,
       Environment, WriteSocket, ReadSocket, PingExpires, PeerCloses, TimerExpires, vars,
       sessVars, bufVars
  <2> QED BY <2>2, <2>3
<1>2. Inv /\ OpsInv /\ [Next]_vars => [Outstanding("write") > 0 => wb' = wb]_vars
  BY <1>1
<1> QED BY <1>2, Operations, PTL DEF Spec, BufferStable
-----------------------------------------------------------------------------
(* AttendInv: the read and the ping wait follow one another without end    *)

\* The operation of kind k is under way, or its handler waits, or the thread
\* will start it again.
Held(k) == armed[k] = 1 \/ Waiting(k) # {} \/ Busy(k)

Chained ==
    h2 /\ ~svcStopped /\ pc # "blocked" => Held("ping") /\ (peer = "up" => Held("read"))

\* A read handler is told an error, and so starts no read, only when the peer
\* has gone.
ReadsWell ==
    peer = "up" =>
        /\ \A j \in Waiting("read") : ready[j].ec = "ok"
        /\ pc = "onRead" => err = "ok"

AttendInv == Chained /\ ReadsWell

\* Nothing but a write starts, and what the thread holds it still holds.
LEMMA SameHolds ==
    ASSUME SvcTypeOK, NEW k \in {"ping", "read"}, Held(k), Busy(k) => Busy(k)', ready' = ready,
           armed' = armed \/ armed' = Armed("write")
    PROVE  Held(k)'
<1>1. armed'[k] = armed[k]
  BY DEF SvcTypeOK, Armed, OpKinds
<1>2. Waiting(k)' = Waiting(k)
  BY DEF Waiting
<1> HIDE DEF Busy, Waiting
<1> QED BY <1>1, <1>2 DEF Held

\* A completion turns what is under way into what waits.
LEMMA CompleteHolds ==
    ASSUME SvcTypeOK, OneInv, NEW k \in OpKinds, NEW j \in OpKinds, NEW e \in ErrorCodes,
           Held(k), Complete(j, e), UNCHANGED <<pc, ret>>
    PROVE  Held(k)'
<1>1. Handler(j, e) \in Handlers /\ Handler(j, e).op = j
  BY HandlerType DEF Handler
<1>2. ready' = Append(ready, Handler(j, e)) /\ armed' = [armed EXCEPT ![j] = @ - 1]
  BY DEF Complete
<1>3. Busy(k)' = Busy(k)
  BY DEF Busy
<1>4. CASE j = k
  <2>1. Waiting(k)' # {}
    BY <1>1, <1>2, <1>4, AppendWaits
  <2> QED BY <2>1 DEF Held
<1>5. CASE j # k
  <2>1. Waiting(k)' = Waiting(k) /\ armed'[k] = armed[k]
    BY <1>1, <1>2, <1>5, AppendWaits DEF SvcTypeOK
  <2> HIDE DEF Busy, Waiting
  <2> QED BY <1>3, <2>1 DEF Held
<1> QED BY <1>4, <1>5

\* A handler that waits moves up, or starts.
LEMMA DispatchHolds ==
    ASSUME SvcTypeOK, NEW k \in {"ping", "read"}, Held(k), Dispatch
    PROVE  Held(k)'
<1>1. pc = "idle" /\ ready # <<>> /\ ready' = Tail(ready) /\ armed' = armed
  BY DEF Dispatch
<1>2. ~Busy(k)
  BY <1>1 DEF Busy
<1>3. CASE armed[k] = 1
  BY <1>1, <1>3 DEF Held
<1>4. CASE Waiting(k) # {}
  <2>1. PICK j \in DOMAIN ready : ready[j].op = k
    BY <1>4 DEF Waiting
  <2>2. /\ ready \in Seq(Handlers) /\ Len(ready) \in Nat /\ j \in 1..Len(ready)
        /\ DOMAIN ready' = 1..(Len(ready) - 1)
        /\ \A i \in 1..(Len(ready) - 1) : ready'[i] = ready[i + 1]
    BY <1>1, <2>1, HeadTailProperties DEF SvcTypeOK
  <2>3. CASE j = 1
    <3>1. Head(ready).op = k
      BY <1>1, <2>1, <2>3, HeadWaits
    <3>2. pc' = HandlerPoint(k)
      BY <3>1 DEF Dispatch
    <3>3. Busy(k)'
      BY <3>2 DEF HandlerPoint, Busy
    <3> QED BY <3>3 DEF Held
  <2>4. CASE j # 1
    <3>1. j - 1 \in 1..(Len(ready) - 1) /\ (j - 1) + 1 = j
      BY <2>2, <2>4
    <3>2. j - 1 \in DOMAIN ready' /\ ready'[j - 1].op = k
      BY <2>1, <2>2, <3>1
    <3>3. Waiting(k)' # {}
      BY <3>2 DEF Waiting
    <3> QED BY <3>3 DEF Held
  <2> QED BY <2>3, <2>4
<1> HIDE DEF Busy, Waiting
<1> QED BY <1>2, <1>3, <1>4 DEF Held

\* The steps of a session that has not been stopped: each handler of the chain
\* goes on to the point that starts the next operation.
LEMMA SessionStepHolds ==
    ASSUME TypeOK, OpsInv, ReadsWell, SessionStep, ~stopped, ~svcStopped', pc' # "blocked",
           NEW k \in {"ping", "read"}, k = "read" => peer' = "up", Held(k)
    PROVE  Held(k)'
<1>0. SvcTypeOK
  BY DEF TypeOK
<1>1. ~Stop
  BY DEF Stop, shutdownSocket
<1>2. CASE StartPing
  <2>1. "ping" \in OpKinds /\ "read" \in OpKinds
    BY DEF OpKinds
  <2>2. armed' = [armed EXCEPT !["ping"] = 1] /\ armed'["ping"] = 1
    BY <1>0, <1>2, <2>1 DEF StartPing, SvcTypeOK
  <2>3. CASE k = "ping"
    BY <2>2, <2>3 DEF Held
  <2>4. CASE k = "read"
    <3>1. Busy("ping") /\ ~Busy("read")
      BY <1>2 DEF StartPing, Busy
    <3>2. armed["ping"] = 0
      <4>1. AtMostOne("ping") /\ armed["ping"] \in Nat
        BY <1>0, <2>1 DEF OpsInv, OneInv, SvcTypeOK
      <4> HIDE DEF Busy, Waiting
      <4> QED BY <3>1, <4>1 DEF AtMostOne
    <3>3. ready' = ready
      BY <1>2, <3>2 DEF StartPing, CancelledReady
    <3>4. Waiting("read")' = Waiting("read") /\ armed'["read"] = armed["read"]
      BY <1>0, <2>1, <2>2, <3>3 DEF Waiting, SvcTypeOK
    <3> HIDE DEF Busy, Waiting
    <3> QED BY <2>4, <3>1, <3>4 DEF Held
  <2> QED BY <2>3, <2>4
<1>3. CASE FirstRead \/ ReadAgain
  <2>1. ready' = ready /\ armed' = Armed("read") /\ pc \in {"read0", "again"}
        /\ (pc = "read0" => pc' = "startPing")
    BY <1>1, <1>3 DEF FirstRead, ReadAgain, Read
  <2>2. CASE k = "read"
    <3>1. Busy("read") /\ "read" \in OpKinds
      BY <2>1 DEF Busy, OpKinds
    <3>2. armed["read"] = 0
      <4>1. AtMostOne("read") /\ armed["read"] \in Nat
        BY <1>0, <3>1 DEF OpsInv, OneInv, SvcTypeOK
      <4> HIDE DEF Busy, Waiting
      <4> QED BY <3>1, <4>1 DEF AtMostOne
    <3>3. armed'["read"] = 1
      BY <1>0, <2>1, <3>1, <3>2 DEF Armed, SvcTypeOK
    <3> QED BY <2>2, <3>3 DEF Held
  <2>3. CASE k = "ping"
    <3>1. Busy("ping") => Busy("ping")'
      BY <2>1 DEF Busy
    <3>2. Waiting("ping")' = Waiting("ping") /\ armed'["ping"] = armed["ping"]
      BY <1>0, <2>1 DEF Waiting, Armed, SvcTypeOK, OpKinds
    <3> HIDE DEF Busy, Waiting
    <3> QED BY <2>3, <3>1, <3>2 DEF Held
  <2> QED BY <2>2, <2>3
<1>4. CASE SendControl \/ SendHeaders \/ SendData \/ SendNothing
  <2>1. pc = "send" /\ ready' = ready /\ (armed' = armed \/ armed' = Armed("write"))
        /\ (pc' = ret \/ (pc' = pc /\ ret' = ret))
    BY <1>4 DEF SendControl, SendHeaders, SendData, SendNothing, Emit, Leave, Launch,
       StartWrite, svcVars
  <2>2. Busy(k) => Busy(k)'
    BY <2>1 DEF Busy
  <2> QED BY <1>0, <2>1, <2>2, SameHolds
<1>5. CASE ReadNothing
  <2>1. pc = "onRead" /\ err # "ok" /\ peer' = peer /\ UNCHANGED <<ready, armed>>
    BY <1>5 DEF ReadNothing, netVars, svcVars
  <2>2. k = "ping"
    BY <2>1 DEF ReadsWell
  <2>3. ~Busy(k)
    BY <2>1, <2>2 DEF Busy
  <2> QED BY <1>0, <2>1, <2>3, SameHolds
<1>6. CASE \/ WriteSkip \/ WriteEnter \/ WriteHandler \/ ConnectOk \/ ConnectSkip \/ PingHandler
           \/ SubmitStopped \/ SubmitRefused \/ Submit \/ SubmitReturn \/ ReadHandler
           \/ RecvControl \/ RecvGoAway \/ RecvProtocolError \/ RecvWindow \/ RecvEnd
  <2>1. UNCHANGED <<ready, armed>>
    BY <1>1, <1>6 DEF WriteSkip, WriteEnter, WriteHandler, ConnectOk, ConnectSkip, PingHandler,
       SubmitStopped, SubmitRefused, Submit, SubmitReturn, ReadHandler, RecvControl, RecvGoAway,
       RecvProtocolError, RecvWindow, RecvFrame, RecvEnd, svcVars
  <2>2. Busy(k) => Busy(k)'
    BY <1>6 DEF WriteSkip, WriteEnter, WriteHandler, Written, ConnectOk, ConnectSkip, PingHandler,
       SubmitStopped, SubmitRefused, Submit, SubmitReturn, ReadHandler, RecvControl, RecvGoAway,
       RecvProtocolError, RecvWindow, RecvFrame, RecvEnd, Busy
  <2> QED BY <1>0, <2>1, <2>2, SameHolds
<1> QED BY <1>1, <1>2, <1>3, <1>4, <1>5, <1>6 DEF SessionStep, SendNoMem, ConnectBegin,
       ConnectFail, SubmitInvalid, RecvBad

\* Any step of a session that has not been stopped, and is not by it.
LEMMA NextHolds ==
    ASSUME Inv, OpsInv, ReadsWell, [Next]_vars, h2, ~stopped, ~svcStopped', pc' # "blocked",
           NEW k \in {"ping", "read"}, k = "read" => peer' = "up", Held(k)
    PROVE  Held(k)'
<1>0. TypeOK /\ SvcTypeOK /\ OneInv /\ k \in OpKinds
  BY DEF Inv, TypeOK, OpsInv, OpKinds
<1>1. ~Stop /\ ~Abort
  BY DEF Stop, Abort, shutdownSocket
<1>2. CASE SessionStep
  BY <1>0, <1>2, SessionStepHolds
<1>3. CASE Dispatch
  BY <1>0, <1>3, DispatchHolds
<1>4. CASE WriteSocket \/ ReadSocket \/ PingExpires \/ TimerExpires
  <2>1. PICK j \in OpKinds, e \in ErrorCodes : Complete(j, e)
    BY <1>4 DEF WriteSocket, ReadSocket, PingExpires, TimerExpires, OpKinds, ErrorCodes
  <2>2. UNCHANGED <<pc, ret>>
    BY <1>4 DEF WriteSocket, ReadSocket, PingExpires, TimerExpires, sessVars
  <2> QED BY <1>0, <2>1, <2>2, CompleteHolds
<1>5. CASE Send
  <2>1. Waiting(k)' = Waiting(k)
    <3>1. PICK m \in Methods : ready' = ready \o <<Handler("connect", "ok"), Handler(m, "ok")>>
      BY <1>5 DEF Send
    <3>2. "connect" \in Jobs /\ m \in Jobs /\ "ok" \in ErrorCodes
      BY RequestAssumption DEF Jobs, ErrorCodes
    <3>3. /\ Handler("connect", "ok") \in Handlers /\ Handler(m, "ok") \in Handlers
          /\ Handler("connect", "ok").op = "connect" /\ Handler(m, "ok").op = m
      BY <3>2, HandlerType DEF Handler
    <3>4. "connect" \notin OpKinds /\ m \notin OpKinds
      BY <3>2 DEF Jobs, OpKinds
    <3> QED BY <1>0, <3>1, <3>3, <3>4, PostWaits
  <2>2. armed' = armed /\ Busy(k)' = Busy(k)
    BY <1>5 DEF Send, Busy
  <2> HIDE DEF Busy, Waiting
  <2> QED BY <2>1, <2>2 DEF Held
<1>6. CASE PeerCloses \/ Run \/ AbortService \/ RunReturn \/ UNCHANGED vars
  <2>1. UNCHANGED <<pc, ret, ready, armed>>
    BY <1>6 DEF PeerCloses, Run, AbortService, RunReturn, vars, sessVars, svcVars
  <2>2. Busy(k) => Busy(k)'
    BY <2>1 DEF Busy
  <2> QED BY <1>0, <2>1, <2>2, SameHolds
<1>7. CASE StreamEnds \/ StreamRefused
  <2>1. PICK i \in Streams : (RecvStreamEnd(i) \/ RefuseHeaders(i)) /\ ReadyCallback(i)
    BY <1>7 DEF StreamEnds, StreamRefused
  <2>2. UNCHANGED <<pc, ret>>
    BY <2>1 DEF RecvStreamEnd, RefuseHeaders
  <2>3. UNCHANGED <<ready, armed>>
    BY <1>1, <2>1 DEF ReadyCallback, svcVars
  <2>4. Busy(k) => Busy(k)'
    BY <2>2 DEF Busy
  <2> QED BY <1>0, <2>3, <2>4, SameHolds
<1>8. ~TimerHandler /\ ~AbortSession
  <2>1. TimerHandler => Abort
    BY DEF TimerHandler
  <2>2. AbortSession => Stop
    BY DEF AbortSession
  <2> QED BY <1>1, <2>1, <2>2
<1> QED BY <1>2, <1>3, <1>4, <1>5, <1>6, <1>7, <1>8 DEF Next, IoThread, User, Environment

\* A connection is not taken back, nor is the end of the service or of the
\* peer, and a thread that waits for itself waits for ever.
LEMMA Lasting ==
    ASSUME [Next]_vars
    PROVE  /\ svcStopped => svcStopped'
           /\ h2 => h2'
           /\ peer' = "up" => peer = "up"
           /\ pc = "blocked" => pc' = "blocked"
<1>1. CASE SessionStep
  <2>1. h2 => h2'
    BY <1>1 DEF SessionStep, WriteSkip, WriteEnter, SendControl, SendHeaders, SendData,
       SendNothing, SendNoMem, Emit, Leave, Launch, WriteHandler, ConnectBegin, ConnectFail,
       ConnectOk, ConnectSkip, FirstRead, StartPing, PingHandler, SubmitStopped, SubmitInvalid,
       SubmitRefused, Submit, SubmitReturn, ReadNothing, ReadHandler, RecvControl, RecvGoAway,
       RecvProtocolError, RecvWindow, RecvFrame, RecvBad, RecvEnd, ReadAgain
  <2>2. peer' = peer
    BY <1>1 DEF SessionStep, WriteSkip, WriteEnter, SendControl, SendHeaders, SendData,
       SendNothing, SendNoMem, Emit, Leave, Launch, WriteHandler, ConnectBegin, ConnectFail,
       ConnectOk, ConnectSkip, FirstRead, StartPing, PingHandler, SubmitStopped, SubmitInvalid,
       SubmitRefused, Submit, SubmitReturn, ReadNothing, ReadHandler, RecvControl, RecvGoAway,
       RecvProtocolError, RecvWindow, RecvFrame, RecvBad, RecvEnd, ReadAgain, netVars
  <2>3. svcStopped => svcStopped'
    BY <1>1 DEF SessionStep, WriteSkip, WriteEnter, SendControl, SendHeaders, SendData,
       SendNothing, SendNoMem, Emit, Leave, Launch, WriteHandler, ConnectBegin, ConnectFail,
       ConnectOk, ConnectSkip, FirstRead, StartPing, PingHandler, SubmitStopped, SubmitInvalid,
       SubmitRefused, Submit, SubmitReturn, ReadNothing, ReadHandler, RecvControl, RecvGoAway,
       RecvProtocolError, RecvWindow, RecvFrame, RecvBad, RecvEnd, ReadAgain, Stop,
       shutdownSocket, svcVars
  <2>4. pc # "blocked"
    BY <1>1 DEF SessionStep, WriteSkip, WriteEnter, SendControl, SendHeaders, SendData,
       SendNothing, SendNoMem, WriteHandler, ConnectBegin, ConnectFail, ConnectOk,
       ConnectSkip, FirstRead, StartPing, PingHandler, SubmitStopped, SubmitInvalid,
       SubmitRefused, Submit, SubmitReturn, ReadNothing, ReadHandler, RecvControl, RecvGoAway,
       RecvProtocolError, RecvWindow, RecvFrame, RecvBad, RecvEnd, ReadAgain
  <2> QED BY <2>1, <2>2, <2>3, <2>4
<1>2. CASE ~SessionStep
  <2>1. h2' = h2
    BY <1>2 DEF Next, IoThread, Dispatch, RunReturn, TimerHandler, StreamEnds, StreamRefused,
       RecvStreamEnd, RefuseHeaders, User, Send, Run, AbortService, AbortSession, Environment,
       WriteSocket, ReadSocket, PingExpires, PeerCloses, TimerExpires, vars, sessVars
  <2>4. peer' = "up" => peer = "up"
    BY <1>2 DEF Next, IoThread, Dispatch, RunReturn, TimerHandler, StreamEnds, StreamRefused,
       RecvStreamEnd, RefuseHeaders, User, Send, Run, AbortService, AbortSession, Environment,
       WriteSocket, ReadSocket, PingExpires, PeerCloses, TimerExpires, vars, sessVars, netVars
  <2>2. svcStopped => svcStopped'
    BY <1>2 DEF Next, IoThread, Dispatch, RunReturn, TimerHandler, StreamEnds, StreamRefused,
       ReadyCallback, Abort, Stop, shutdownSocket, User, Send, Run, AbortService, AbortSession,
       Environment, WriteSocket, ReadSocket, PingExpires, PeerCloses, TimerExpires, Complete,
       vars, svcVars
  <2>3. pc = "blocked" => pc' = "blocked"
    BY <1>2 DEF Next, IoThread, Dispatch, RunReturn, TimerHandler, StreamEnds, StreamRefused,
       RecvStreamEnd, RefuseHeaders, User, Send, Run, AbortService, AbortSession, Environment,
       WriteSocket, ReadSocket, PingExpires, PeerCloses, TimerExpires, vars, sessVars
  <2> QED BY <2>1, <2>2, <2>3, <2>4
<1> QED BY <1>1, <1>2

LEMMA NextChained ==
    ASSUME Inv, OpsInv, AttendInv, [Next]_vars
    PROVE  Chained'
<1> SUFFICES ASSUME h2', ~svcStopped', pc' # "blocked",
                    NEW k \in {"ping", "read"}, k = "read" => peer' = "up"
             PROVE  Held(k)'
  BY DEF Chained
<1>1. ~svcStopped /\ pc # "blocked" /\ (k = "read" => peer = "up")
  BY Lasting
<1>2. CASE h2
  <2>1. ~stopped
    BY <1>1, <1>2 DEF Inv, SafetyInv, StopStopsService
  <2>2. Held(k)
    BY <1>1, <1>2 DEF AttendInv, Chained
  <2> QED BY <1>2, <2>1, <2>2, NextHolds DEF AttendInv
<1>3. CASE ~h2
  <2>1. CASE ConnectOk
    <3>1. pc' = "write" /\ ret' = "read0"
      BY <1>3, <2>1 DEF ConnectOk, Greet
    <3>2. Busy(k)'
      BY <3>1 DEF Busy
    <3> QED BY <3>2 DEF Held
  <2>2. CASE SessionStep /\ ~ConnectOk
    BY <1>3, <2>2 DEF SessionStep, WriteSkip, WriteEnter, SendControl, SendHeaders, SendData,
       SendNothing, SendNoMem, Emit, Leave, Launch, WriteHandler, ConnectBegin, ConnectFail,
       ConnectSkip, FirstRead, StartPing, PingHandler, SubmitStopped, SubmitInvalid,
       SubmitRefused, Submit, SubmitReturn, ReadNothing, ReadHandler, RecvControl, RecvGoAway,
       RecvProtocolError, RecvWindow, RecvFrame, RecvBad, RecvEnd, ReadAgain
  <2>3. CASE ~SessionStep
    BY <1>3, <2>3 DEF Next, IoThread, Dispatch, RunReturn, TimerHandler, StreamEnds,
       StreamRefused, RecvStreamEnd, RefuseHeaders, User, Send, Run, AbortService, AbortSession,
       Environment, WriteSocket, ReadSocket, PingExpires, PeerCloses, TimerExpires, vars, sessVars
  <2> QED BY <2>1, <2>2, <2>3
<1> QED BY <1>2, <1>3

\* Read handlers are queued with an error by a lost peer only: the queue is
\* added to and the first handler started.
LEMMA NextReadsWell ==
    ASSUME Inv, OpsInv, AttendInv, [Next]_vars
    PROVE  ReadsWell'
<1> SUFFICES ASSUME peer' = "up"
             PROVE  /\ \A j \in DOMAIN ready' : ready'[j].op = "read" => ready'[j].ec = "ok"
                    /\ pc' = "onRead" => err' = "ok"
  BY DEF ReadsWell, Waiting
<1>0. TypeOK /\ SvcTypeOK /\ peer = "up"
  BY Lasting DEF Inv, TypeOK
<1>1. /\ \A j \in DOMAIN ready : ready[j].op = "read" => ready[j].ec = "ok"
      /\ pc = "onRead" => err = "ok"
  BY <1>0 DEF AttendInv, ReadsWell, Waiting
<1>2. /\ ready \in Seq(Handlers) /\ Len(ready) \in Nat /\ DOMAIN ready = 1..Len(ready)
  BY <1>0 DEF SvcTypeOK
<1>3. CASE Dispatch
  <2>1. /\ ready # <<>> /\ ready' = Tail(ready) /\ err' = Head(ready).ec
        /\ pc' = HandlerPoint(Head(ready).op) /\ Head(ready) = ready[1] /\ 1 \in DOMAIN ready
    BY <1>0, <1>3, HeadWaits DEF Dispatch, Waiting
  <2>2. /\ DOMAIN ready' = 1..(Len(ready) - 1)
        /\ \A i \in 1..(Len(ready) - 1) : ready'[i] = ready[i + 1] /\ i + 1 \in DOMAIN ready
    BY <1>2, <2>1, HeadTailProperties
  <2>3. Head(ready).op \in OpKinds \cup Jobs
    <3>1. Head(ready) \in Handlers
      BY <1>2, <2>1
    <3> QED BY <3>1, HeadType
  <2>4. pc' = "onRead" => Head(ready).op = "read"
    BY <2>1, <2>3 DEF HandlerPoint, OpKinds, Jobs
  <2> QED BY <1>1, <2>1, <2>2, <2>4
<1>4. CASE ~Dispatch
  <2>1. pc' = "onRead" => pc = "onRead" /\ err' = err
    <3>1. CASE SessionStep
      <4>1. pc' = "onRead" => FALSE
        BY <1>0, <3>1 DEF SessionStep, WriteSkip, WriteEnter, SendControl, SendHeaders, SendData,
           SendNothing, SendNoMem, Emit, Leave, Launch, WriteHandler, Written, ConnectBegin,
           ConnectFail, ConnectOk, Greet, ConnectSkip, FirstRead, Read, StartPing, PingHandler,
           SubmitStopped, SubmitInvalid, SubmitRefused, Submit, SubmitReturn, ReadNothing,
           ReadHandler, RecvControl, RecvGoAway, RecvProtocolError, RecvWindow, RecvFrame,
           RecvBad, RecvEnd, ReadAgain, TypeOK, SessTypeOK
      <4> QED BY <4>1
    <3>2. CASE ~SessionStep
      BY <1>4, <3>2 DEF Next, IoThread, RunReturn, TimerHandler, StreamEnds, StreamRefused,
         RecvStreamEnd, RefuseHeaders, User, Send, Run, AbortService, AbortSession, Environment,
         WriteSocket, ReadSocket, PingExpires, PeerCloses, TimerExpires, vars, sessVars
    <3> QED BY <3>1, <3>2
  <2>2. \A j \in DOMAIN ready' : ready'[j].op = "read" => ready'[j].ec = "ok"
    <3>1. CASE ready' = ready
      BY <1>1, <3>1
    <3>2. CASE \E h \in Handlers : (h.op = "read" => h.ec = "ok") /\ ready' = Append(ready, h)
      BY <1>1, <1>2, <3>2
    <3>3. CASE Send
      <4>1. PICK m \in Methods : ready' = ready \o <<Handler("connect", "ok"), Handler(m, "ok")>>
        BY <3>3 DEF Send
      <4>2. m \in Jobs /\ m # "read"
        BY RequestAssumption DEF Jobs
      <4>3. /\ Handler("connect", "ok") \in Handlers /\ Handler(m, "ok") \in Handlers
            /\ Handler("connect", "ok").ec = "ok" /\ Handler(m, "ok").ec = "ok"
        BY <4>2, HandlerType DEF Handler, Jobs, ErrorCodes
      <4> DEFINE two == <<Handler("connect", "ok"), Handler(m, "ok")>>
      <4>4. two \in Seq(Handlers) /\ Len(two) = 2 /\ two[1].ec = "ok" /\ two[2].ec = "ok"
        BY <4>3
      <4> HIDE DEF two
      <4>5. /\ DOMAIN ready' = 1..(Len(ready) + 2)
            /\ \A j \in 1..Len(ready) : ready'[j] = ready[j]
            /\ ready'[Len(ready) + 1] = two[1] /\ ready'[Len(ready) + 2] = two[2]
        BY <1>2, <4>1, <4>4 DEF two
      <4> QED BY <1>1, <1>2, <4>4, <4>5
    <3>4. CASE ~Send
      <4>1. CASE ReadSocket
        <5>1. ready' = Append(ready, Handler("read", "ok"))
          BY <1>0, <4>1 DEF ReadSocket, Complete
        <5>2. Handler("read", "ok") \in Handlers /\ Handler("read", "ok").ec = "ok"
          BY HandlerType DEF Handler, OpKinds, ErrorCodes
        <5> QED BY <3>2, <5>1, <5>2
      <4>2. CASE ~ReadSocket
        <5>1. \/ ready' = ready
              \/ \E k \in OpKinds, e \in ErrorCodes :
                    k # "read" /\ ready' = Append(ready, Handler(k, e))
          <6>1. CASE Stop \/ Abort \/ StartPing
            <7>1. ready' = ready \/ ready' = Append(ready, Handler("ping", "aborted"))
              BY <6>1 DEF Stop, Abort, StartPing, cancelPing, CancelledReady, svcVars
            <7> QED BY <7>1 DEF OpKinds, ErrorCodes
          <6>2. CASE Environment \/ TimerExpires
            BY <4>2, <6>2 DEF Environment, WriteSocket, PingExpires, PeerCloses, TimerExpires,
               Complete, svcVars, OpKinds, ErrorCodes
          <6>3. CASE SessionStep
            BY <6>1, <6>3 DEF SessionStep, WriteSkip, WriteEnter, SendControl, SendHeaders,
               SendData, Emit, Leave, Launch, SendNothing, SendNoMem, WriteHandler,
               ConnectBegin, ConnectFail, ConnectOk, ConnectSkip, FirstRead, PingHandler,
               SubmitStopped, SubmitInvalid, SubmitRefused, Submit, SubmitReturn, ReadNothing,
               ReadHandler, RecvControl, RecvGoAway, RecvProtocolError, RecvWindow, RecvFrame,
               RecvBad, RecvEnd, ReadAgain, svcVars
          <6>4. CASE ~SessionStep /\ ~(Environment \/ TimerExpires)
            BY <1>4, <3>4, <6>1, <6>4 DEF Next, IoThread, RunReturn, TimerHandler, StreamEnds,
               StreamRefused, ReadyCallback, User, Run, AbortService, AbortSession, vars, svcVars
          <6> QED BY <6>2, <6>3, <6>4
        <5>2. \A k \in OpKinds, e \in ErrorCodes :
                 Handler(k, e) \in Handlers /\ Handler(k, e).op = k
          <6> SUFFICES ASSUME NEW k \in OpKinds, NEW e \in ErrorCodes
                       PROVE  Handler(k, e) \in Handlers /\ Handler(k, e).op = k
            OBVIOUS
          <6>1. Handler(k, e) \in Handlers
            BY HandlerType
          <6> QED BY <6>1 DEF Handler
        <5> QED BY <3>1, <3>2, <5>1, <5>2
      <4> QED BY <4>1, <4>2
    <3> QED BY <3>3, <3>4
  <2> QED BY <1>1, <2>1, <2>2
<1> QED BY <1>3, <1>4

LEMMA InitAttend == Init => AttendInv
BY DEF Init, SvcInit, SessInit, AttendInv, Chained, ReadsWell, Waiting

\* Between two handlers a connected session whose service has not been stopped
\* has one ping wait under way or due and, while the peer is there, one read:
\* no interleaving of the handlers, the user's thread and failures breaks the
\* chain in which the handler of each starts the next.
THEOREM AlwaysAttended == Spec => []Attended
<1>1. Inv /\ OpsInv /\ AttendInv => Attended
  <2> SUFFICES ASSUME Inv, OpsInv, AttendInv, pc = "idle", h2, ~svcStopped,
                      NEW k \in {"ping", "read"}, k = "read" => peer = "up"
               PROVE  Outstanding(k) = 1
    BY DEF Attended
  <2>1. AtMostOne(k) /\ armed[k] \in Nat
    BY DEF OpsInv, OneInv, OpKinds, Inv, TypeOK, SvcTypeOK
  <2>2. ~Busy(k)
    BY DEF Busy
  <2>3. Held(k)
    BY DEF AttendInv, Chained
  <2> HIDE DEF Busy, Waiting
  <2>4. CASE armed[k] = 1
    BY <2>1, <2>4, FS_EmptySet DEF AtMostOne, Outstanding
  <2>5. CASE Waiting(k) # {}
    <3>1. PICK j : Waiting(k) = {j}
      BY <2>1, <2>5 DEF AtMostOne
    <3>2. armed[k] = 0
      BY <2>1, <2>5 DEF AtMostOne
    <3>3. Cardinality(Waiting(k)) = 1
      BY <3>1, FS_Singleton
    <3> QED BY <3>2, <3>3 DEF Outstanding
  <2> QED BY <2>2, <2>3, <2>4, <2>5 DEF Held
<1>2. Inv /\ OpsInv /\ AttendInv /\ [Next]_vars => AttendInv'
  BY NextChained, NextReadsWell DEF AttendInv
<1> QED BY <1>1, <1>2, InitAttend, Operations, PTL DEF Spec
-----------------------------------------------------------------------------
(* BytesInv and OutputPipe                                                 *)

\* The number of meaningless bytes is one.
LEMMA GarbageType == \A g \in Garbage : g \in Nat
BY SizesAssumption

\* The block that is produced follows what was produced.
LEMMA BlockFollows ==
    ASSUME produced \in Nat, NEW g \in Nat, NEW n \in Nat
    PROVE  Follows(g, Block(n), produced + g)
<1>1. Len(Block(n)) = n
  BY BlockSeq
<1> QED BY <1>1 DEF Follows, Block, Byte

\* What follows what follows.
LEMMA ConcatFollows ==
    ASSUME NEW g, NEW s \in Seq(Nat), NEW t \in Seq(Nat), NEW m \in Nat,
           Follows(g, s, m), Follows(g, t, m + Len(s))
    PROVE  Follows(g, s \o t, m) /\ Len(s \o t) = Len(s) + Len(t)
<1>1. /\ Len(s \o t) = Len(s) + Len(t) /\ Len(s) \in Nat /\ Len(t) \in Nat
      /\ \A k \in 1..(Len(s) + Len(t)) :
           (s \o t)[k] = IF k =< Len(s) THEN s[k] ELSE t[k - Len(s)]
  BY ConcatProperties
<1> SUFFICES ASSUME NEW k \in 1..(Len(s) + Len(t)) PROVE (s \o t)[k] = Byte(g, m + k)
  BY <1>1 DEF Follows
<1>2. CASE k =< Len(s)
  BY <1>1, <1>2 DEF Follows
<1>3. CASE k > Len(s)
  <2>1. k - Len(s) \in 1..Len(t) /\ m + Len(s) + (k - Len(s)) = m + k
    BY <1>1, <1>3
  <2>2. t[k - Len(s)] = Byte(g, m + Len(s) + (k - Len(s)))
    BY <2>1 DEF Follows
  <2> QED BY <1>1, <1>3, <2>1, <2>2
<1> QED BY <1>1, <1>2, <1>3

\* An empty sequence follows anything.
LEMMA EmptyFollows == \A g, m : Follows(g, <<>>, m) /\ Len(<<>>) = 0
BY DEF Follows

\* A step that makes, buffers and delivers nothing.
LEMMA BytesFrame ==
    ASSUME NEW g, Accounted(g), UNCHANGED <<wb, pend, given, produced, writing, peer>>,
           armed'["write"] = armed["write"]
    PROVE  Accounted(g)' /\ [Pipe!Next]_(Pipe!pipeVars)
BY DEF Accounted, Follows, Buffered, Pipe!pipeVars

\* stop() and the other operations leave the write alone.
LEMMA WriteAlone ==
    ASSUME TypeOK
    PROVE  /\ Stop \/ Abort => armed'["write"] = armed["write"]
           /\ \A k \in OpKinds, e \in ErrorCodes :
                k # "write" /\ Complete(k, e) => armed'["write"] = armed["write"]
           /\ \A p : Read(p) => armed'["write"] = armed["write"]
           /\ StartPing => armed'["write"] = armed["write"]
<1> USE DEF TypeOK, SvcTypeOK
<1>1. Stop \/ Abort => armed'["write"] = armed["write"]
  BY DEF Stop, Abort, cancelPing, svcVars, OpKinds
<1>2. \A k \in OpKinds, e \in ErrorCodes :
        k # "write" /\ Complete(k, e) => armed'["write"] = armed["write"]
  BY DEF Complete, OpKinds
<1>3. \A p : Read(p) => armed'["write"] = armed["write"]
  BY DEF Read, Armed, OpKinds
<1>4. StartPing => armed'["write"] = armed["write"]
  BY DEF StartPing, OpKinds
<1> QED BY <1>1, <1>2, <1>3, <1>4

\* The bytes of a running loop.
LEMMA LoopBytes ==
    ASSUME Inv, OpsInv, NEW g \in Garbage, Accounted(g), pc = "send"
    PROVE  /\ pend = <<>> /\ ~writing
           /\ Follows(g, given, 0)
           /\ peer = "up" =>
                /\ Follows(g, wb, Len(given)) /\ Len(given) + Len(wb) = produced + g
                /\ Len(given) + Len(wb) >= g
                /\ given = <<>> \/ Len(given) >= g
<1>1. pend = <<>> /\ ~writing
  BY DEF Inv, SafetyInv, PendingInv, OpsInv, WritingInv
<1>2. wb \in Seq(Nat) /\ given \in Seq(Nat) /\ Len(given) \in Nat /\ Len(wb) \in Nat
  BY DEF Inv, TypeOK, SessTypeOK
<1>3. Buffered = wb /\ Len(pend) = 0
  BY <1>1, EmptyFollows DEF Buffered
<1> QED BY <1>1, <1>2, <1>3 DEF Accounted

\* The end of write() starts the write of all of the buffer.
LEMMA LaunchBytes ==
    ASSUME TypeOK, ~writing, NEW b, Launch(b)
    PROVE  /\ ~(writing' /\ armed'["write"] = 0)
           /\ UNCHANGED <<given, peer>>
<1>1. UNCHANGED <<given, peer>>
  BY DEF Launch, netVars
<1>2. CASE b = <<>>
  BY <1>1, <1>2 DEF Launch
<1>3. CASE b # <<>>
  <2>1. armed'["write"] = armed["write"] + 1 /\ armed["write"] \in Nat
    BY <1>3 DEF Launch, StartWrite, Armed, TypeOK, SvcTypeOK, OpKinds
  <2> QED BY <1>1, <2>1
<1> QED BY <1>2, <1>3

\* The last byte given is as many as were given, but for the meaningless ones.
LEMMA DeliveredIs ==
    ASSUME NEW g \in Nat, given \in Seq(Nat), Follows(g, given, 0),
           given = <<>> \/ Len(given) >= g
    PROVE  Pipe!Delivered(given) = IF given = <<>> THEN 0 ELSE Len(given) - g
<1>1. CASE given = <<>>
  BY <1>1 DEF Pipe!Delivered
<1>2. CASE given # <<>>
  <2>1. Len(given) \in Nat /\ Len(given) # 0 /\ Len(given) \in 1..Len(given)
    BY <1>2, EmptySeq
  <2>2. given[Len(given)] = Byte(g, 0 + Len(given))
    BY <2>1 DEF Follows
  <2>3. Byte(g, 0 + Len(given)) = Len(given) - g
    BY <1>2, <2>1 DEF Byte
  <2> QED BY <1>2, <2>2, <2>3 DEF Pipe!Delivered
<1> QED BY <1>1, <1>2

\* The sums of the next lemma.
LEMMA SumsGrow ==
    ASSUME NEW a \in Nat, NEW b \in Nat, NEW n \in Nat, NEW p \in Nat, NEW g \in Nat,
           a + b = p + g, a + b >= g
    PROVE  /\ a + (b + n) + 0 = p + n + g /\ a + (b + n) >= g
           /\ a + b + n = p + n + g
OBVIOUS

\* One turn of the loop makes bytes, and keeps them in one place or the other.
LEMMA EmitBytes ==
    ASSUME Inv, OpsInv, NEW g \in Garbage, Accounted(g), pc = "send",
           NEW n \in 1..(MaxPayload + 1), Emit(n)
    PROVE  Accounted(g)' /\ [Pipe!Next]_(Pipe!pipeVars)
<1>0. /\ pend = <<>> /\ ~writing /\ Follows(g, given, 0)
      /\ peer = "up" =>
           /\ Follows(g, wb, Len(given)) /\ Len(given) + Len(wb) = produced + g
           /\ Len(given) + Len(wb) >= g
           /\ given = <<>> \/ Len(given) >= g
  BY LoopBytes
<1>1. wb \in Seq(Nat) /\ given \in Seq(Nat)
  BY DEF Inv, TypeOK, SessTypeOK
<1>num. /\ n \in Nat /\ MaxPayload \in Nat /\ g \in Nat /\ Cap \in Nat /\ produced \in Nat
        /\ Len(wb) \in Nat /\ Len(given) \in Nat /\ Len(wb) =< Cap
  BY <1>1, SizesAssumption, GarbageType DEF Inv, TypeOK, SessTypeOK, SafetyInv, PendingInv,
     BufferBound
<1>2. Block(n) \in Seq(Nat) /\ Len(Block(n)) = n /\ Follows(g, Block(n), produced + g)
  BY <1>num, BlockSeq, BlockFollows
<1>3. produced' = produced + n
  BY DEF Emit
<1>4. /\ UNCHANGED <<given, peer>> /\ ~(writing' /\ armed'["write"] = 0)
      /\ peer = "up" =>
           /\ Follows(g, wb', Len(given)) /\ Follows(g, pend', Len(given) + Len(wb'))
           /\ Len(given) + Len(wb') + Len(pend') = produced + n + g
           /\ Len(given) + Len(wb') >= g
  <2>1. CASE Fits(n)
    <3>1. wb' = wb \o Block(n) /\ UNCHANGED <<pend, writing, given, peer>>
      BY <2>1 DEF Emit, netVars
    <3>2. peer = "up" =>
            Follows(g, wb \o Block(n), Len(given)) /\ Len(wb \o Block(n)) = Len(wb) + n
      <4> SUFFICES ASSUME peer = "up"
                   PROVE  Follows(g, wb \o Block(n), Len(given))
                          /\ Len(wb \o Block(n)) = Len(wb) + n
        OBVIOUS
      <4>1. Follows(g, wb, Len(given)) /\ Follows(g, Block(n), Len(given) + Len(wb))
        BY <1>0, <1>2
      <4> DEFINE b == Block(n)
      <4>2. b \in Seq(Nat) /\ Len(b) = n /\ Follows(g, b, Len(given) + Len(wb))
        BY <1>2, <4>1
      <4> HIDE DEF b
      <4>3. Follows(g, wb \o b, Len(given)) /\ Len(wb \o b) = Len(wb) + Len(b)
        BY <1>1, <1>num, <4>1, <4>2, ConcatFollows
      <4> QED BY <4>2, <4>3 DEF b
    <3>3. ~writing'
      BY <1>0, <3>1
    <3>4. Follows(g, pend', Len(given) + Len(wb')) /\ Len(pend') = 0
      BY <1>0, <3>1, EmptyFollows
    <3>5. peer = "up" => /\ Len(given) + Len(wb') + Len(pend') = produced + n + g
                         /\ Len(given) + Len(wb') >= g
      <4> SUFFICES ASSUME peer = "up"
                   PROVE  /\ Len(given) + Len(wb') + Len(pend') = produced + n + g
                          /\ Len(given) + Len(wb') >= g
        OBVIOUS
      <4>1. Len(wb') = Len(wb) + n
        BY <3>1, <3>2
      <4>2. Len(given) + Len(wb) = produced + g /\ Len(given) + Len(wb) >= g
        BY <1>0
      <4>3. Len(pend') = 0
        BY <3>4
      <4> QED BY <1>num, <4>1, <4>2, <4>3, SumsGrow
    <3>6. peer = "up" => Follows(g, wb', Len(given))
      BY <3>1, <3>2
    <3> QED BY <3>1, <3>3, <3>4, <3>5, <3>6
  <2>2. CASE ~Fits(n)
    <3>1. Launch(wb) /\ wb' = wb /\ pend' = Block(n)
      BY <2>2 DEF Emit, Leave
    <3>2. UNCHANGED <<given, peer>> /\ ~(writing' /\ armed'["write"] = 0)
      BY <1>0, <3>1, LaunchBytes DEF Inv
    <3>3. ASSUME peer = "up"
          PROVE  /\ Follows(g, wb', Len(given)) /\ Follows(g, pend', Len(given) + Len(wb'))
                 /\ Len(given) + Len(wb') + Len(pend') = produced + n + g
                 /\ Len(given) + Len(wb') >= g
      <4>1. Len(given) + Len(wb) = produced + g /\ Len(given) + Len(wb) >= g
        BY <1>0, <3>3
      <4>2. Follows(g, pend', Len(given) + Len(wb'))
        BY <1>2, <3>1, <4>1
      <4>3. Follows(g, wb', Len(given))
        BY <1>0, <3>1, <3>3
      <4>4. Len(wb') = Len(wb) /\ Len(pend') = n
        BY <1>2, <3>1
      <4>5. /\ Len(given) + Len(wb') + Len(pend') = produced + n + g
            /\ Len(given) + Len(wb') >= g
        BY <1>num, <4>1, <4>4, SumsGrow
      <4> QED BY <4>2, <4>3, <4>5
    <3> QED BY <3>2, <3>3
  <2> QED BY <2>1, <2>2
<1>5. Accounted(g)'
  <2>1. Buffered' = wb'
    BY <1>4 DEF Buffered
  <2>2. Follows(g, given, 0)' /\ (peer' = "up" => given' = <<>> \/ Len(given') >= g)
    BY <1>0, <1>4 DEF Follows
  <2>3. peer' = "up" =>
          /\ Follows(g, wb', Len(given')) /\ Follows(g, pend', Len(given') + Len(wb'))
          /\ Len(given') + Len(wb') + Len(pend') = produced' + g
          /\ Len(given') + Len(wb') >= g
    BY <1>3, <1>4
  <2> QED BY <2>1, <2>2, <2>3 DEF Accounted, Follows
<1>6. Pipe!Make
  <2>1. produced' = produced + n /\ n \in 1..(MaxPayload + 1)
    BY <1>3
  <2>2. peer = "up" => produced' =< Pipe!Delivered(given) + (Cap + MaxPayload + 1)
    <3> SUFFICES ASSUME peer = "up"
                 PROVE  produced' =< Pipe!Delivered(given) + (Cap + MaxPayload + 1)
      OBVIOUS
    <3>1. Pipe!Delivered(given) = IF given = <<>> THEN 0 ELSE Len(given) - g
      BY <1>0, <1>1, <1>num, DeliveredIs
    <3>2. given = <<>> => Len(given) = 0
      BY EmptyFollows
    <3>3. Len(given) + Len(wb) = produced + g
      BY <1>0
    <3>4. CASE given = <<>>
      BY <1>num, <1>3, <3>1, <3>2, <3>3, <3>4
    <3>5. CASE given # <<>>
      BY <1>num, <1>3, <3>1, <3>3, <3>5
    <3> QED BY <3>4, <3>5
  <2> QED BY <1>4, <2>1, <2>2 DEF Pipe!Make
<1> QED BY <1>5, <1>6 DEF Pipe!Next

\* No other step of the session touches the bytes or the write under way.
LEMMA WriteKept ==
    ASSUME TypeOK, SessionStep,
           ~(SendControl \/ SendHeaders \/ SendData \/ SendNothing \/ WriteEnter \/ WriteHandler)
    PROVE  UNCHANGED <<wb, pend, wire, given, produced, writing,
    peer>> /\ armed'["write"] = armed["write"]
<1>1. UNCHANGED <<wb, pend, wire, given, produced, writing, peer>>
  BY DEF SessionStep, WriteSkip, SendNoMem, ConnectBegin, ConnectFail, ConnectOk, ConnectSkip,
     FirstRead, StartPing, PingHandler, SubmitStopped, SubmitInvalid, SubmitRefused, Submit,
     SubmitReturn, ReadNothing, ReadHandler, RecvControl, RecvGoAway, RecvProtocolError,
     RecvWindow, RecvFrame, RecvBad, RecvEnd, ReadAgain, bufVars, ngVars, netVars
<1>2. armed'["write"] = armed["write"]
  <2>1. CASE \E p : Read(p)
    BY <2>1, WriteAlone
  <2>2. CASE Stop \/ StartPing
    BY <2>2, WriteAlone
  <2>3. CASE armed' = armed
    BY <2>3
  <2> QED
    BY <2>1, <2>2, <2>3 DEF SessionStep, WriteSkip, SendNoMem, ConnectBegin, ConnectFail,
       ConnectOk, ConnectSkip, FirstRead, PingHandler, SubmitStopped, SubmitInvalid,
       SubmitRefused, Submit, SubmitReturn, ReadNothing, ReadHandler, RecvControl, RecvGoAway,
       RecvProtocolError, RecvWindow, RecvFrame, RecvBad, RecvEnd, ReadAgain, svcVars
<1> QED BY <1>1, <1>2

\* The other steps of the session.
LEMMA SessionStepBytes ==
    ASSUME Inv, OpsInv, NEW g \in Garbage, Accounted(g), SessionStep
    PROVE  Accounted(g)' /\ [Pipe!Next]_(Pipe!pipeVars)
<1>0. TypeOK
  BY DEF Inv
<1>1. CASE SendControl \/ SendHeaders
  <2>1. Emit(1) /\ pc = "send" /\ 1 \in 1..(MaxPayload + 1)
    BY <1>1, SizesAssumption DEF SendControl, SendHeaders
  <2> QED BY <2>1, EmitBytes
<1>2. CASE SendData
  <2> DEFINE n == IF body > MaxPayload THEN MaxPayload ELSE body
  <2>1. Emit(n + 1) /\ pc = "send"
    BY <1>2 DEF SendData
  <2>2. n + 1 \in 1..(MaxPayload + 1)
    BY <1>0, SizesAssumption DEF TypeOK, SessTypeOK
  <2> HIDE DEF n
  <2> QED BY <2>1, <2>2, EmitBytes
<1>3. CASE SendNothing
  <2>1. Launch(wb) /\ UNCHANGED <<wb, pend, produced>> /\ pc = "send"
    BY <1>3 DEF SendNothing, ngVars
  <2>2. ~writing
    BY <2>1, LoopBytes
  <2>3. UNCHANGED <<given, peer>> /\ ~(writing' /\ armed'["write"] = 0)
    BY <1>0, <2>1, <2>2, LaunchBytes
  <2>4. Buffered = wb /\ Buffered' = wb
    BY <2>1, <2>2, <2>3 DEF Buffered
  <2>5. Accounted(g)'
    BY <2>1, <2>3, <2>4 DEF Accounted, Follows
  <2> QED BY <2>1, <2>3, <2>5 DEF Pipe!pipeVars
<1>4. CASE WriteEnter
  <2>1. /\ wb' = wb \o pend /\ pend' = <<>> /\ ~writing
        /\ UNCHANGED <<given, produced, writing, armed, peer>>
    BY <1>4 DEF WriteEnter, MayWrite, TakePending, ngVars, netVars, svcVars
  <2>2. wb \in Seq(Nat) /\ pend \in Seq(Nat) /\ Len(given) \in Nat /\ Len(wb) \in Nat
        /\ Len(pend) \in Nat
    BY <1>0 DEF TypeOK, SessTypeOK
  <2>3. Buffered = wb /\ Buffered' = wb \o pend
    BY <2>1 DEF Buffered
  <2>4. ASSUME peer = "up"
        PROVE  /\ Follows(g, wb \o pend, Len(given))
               /\ Follows(g, <<>>, Len(given) + Len(wb \o pend))
               /\ Len(given) + Len(wb \o pend) + Len(<<>>) = produced + g
               /\ Len(given) + Len(wb \o pend) >= g
               /\ given = <<>> \/ Len(given) >= g
    <3>1. /\ Follows(g, wb, Len(given)) /\ Follows(g, pend, Len(given) + Len(wb))
          /\ Len(given) + Len(wb) + Len(pend) = produced + g
          /\ Len(given) + Len(wb) >= g
          /\ given = <<>> \/ Len(given) >= g
      BY <2>3, <2>4 DEF Accounted
    <3>2. Follows(g, wb \o pend, Len(given)) /\ Len(wb \o pend) = Len(wb) + Len(pend)
      BY <2>2, <3>1, ConcatFollows
    <3>3. Follows(g, <<>>, Len(given) + Len(wb \o pend)) /\ Len(<<>>) = 0
      BY EmptyFollows
    <3>4. g \in Nat
      BY GarbageType
    <3> QED BY <2>2, <3>1, <3>2, <3>3, <3>4
  <2>5. Follows(g, given, 0)
    BY DEF Accounted
  <2>6. Accounted(g)'
    BY <2>1, <2>3, <2>4, <2>5 DEF Accounted, Follows
  <2> QED BY <2>1, <2>6 DEF Pipe!pipeVars
<1>5. CASE WriteHandler
  <2>1. UNCHANGED <<pend, given, produced, peer>> /\ armed'["write"] = armed["write"]
    BY <1>0, <1>5, WriteAlone DEF WriteHandler, ngVars, netVars, svcVars
  <2>2. CASE WriteFailed
    BY <1>5, <2>1, <2>2, BytesFrame DEF WriteHandler
  <2>3. CASE ~WriteFailed
    <3>1. wb' = <<>> /\ writing' = FALSE
      BY <1>5, <2>3 DEF WriteHandler, Written
    <3>2. writing /\ armed["write"] = 0
      <4>1. Busy("write") /\ AtMostOne("write") /\ armed["write"] \in Nat
        BY <1>0, <1>5 DEF WriteHandler, Busy, OpsInv, OneInv, OpKinds, TypeOK, SvcTypeOK
      <4> HIDE DEF Busy, Waiting
      <4> QED BY <4>1 DEF AtMostOne, OpsInv, WritingInv
    <3>3. Buffered = <<>> /\ Buffered' = <<>>
      BY <3>1, <3>2 DEF Buffered
    <3>4. Accounted(g)'
      BY <2>1, <3>3 DEF Accounted, Follows
    <3> QED BY <2>1, <3>4 DEF Pipe!pipeVars
  <2> QED BY <2>2, <2>3
<1>6. CASE ~(SendControl \/ SendHeaders \/ SendData \/ SendNothing \/ WriteEnter \/ WriteHandler)
  BY <1>0, <1>6, WriteKept, BytesFrame
<1> QED BY <1>1, <1>2, <1>3, <1>4, <1>5, <1>6

\* The I/O thread and the user: only write() touches the bytes.
LEMMA ThreadKeepsBytes ==
    ASSUME TypeOK, IoThread \/ User \/ TimerExpires, ~SessionStep
    PROVE  UNCHANGED <<wb, pend, wire, given, produced, writing,
    peer>> /\ armed'["write"] = armed["write"]
<1>1. UNCHANGED <<wb, pend, wire, given, produced, writing, peer>>
  BY DEF IoThread, Dispatch, RunReturn, TimerHandler, StreamEnds, StreamRefused,
     RecvStreamEnd, RefuseHeaders, User, Send, Run, AbortService, AbortSession, TimerExpires,
     sessVars, bufVars, ngVars, netVars
<1>2. armed'["write"] = armed["write"]
  <2>1. CASE Stop \/ Abort
    BY <2>1, WriteAlone
  <2>2. CASE TimerExpires
    BY <2>2, WriteAlone DEF TimerExpires, OpKinds, ErrorCodes
  <2>3. CASE armed' = armed
    BY <2>3
  <2> QED
    BY <2>1, <2>2, <2>3 DEF IoThread, Dispatch, RunReturn, TimerHandler, StreamEnds,
       StreamRefused, ReadyCallback, User, Send, Run, AbortService, AbortSession, svcVars
<1> QED BY <1>1, <1>2

LEMMA ThreadBytes ==
    ASSUME Inv, OpsInv, NEW g \in Garbage, Accounted(g), IoThread \/ User \/ TimerExpires
    PROVE  Accounted(g)' /\ [Pipe!Next]_(Pipe!pipeVars)
<1>1. CASE SessionStep
  BY <1>1, SessionStepBytes
<1>2. CASE ~SessionStep
  BY <1>2, ThreadKeepsBytes, BytesFrame DEF Inv
<1> QED BY <1>1, <1>2

\* A buffer whose bytes are those of a piece is the piece.
LEMMA PieceIs ==
    ASSUME NEW s \in Seq(Nat), NEW j \in Nat, NEW m \in Nat, NEW n \in Nat, Len(s) = j + n,
           \A k \in 1..(j + n) : s[k] = IF k =< j THEN 0 ELSE m + (k - j)
    PROVE  s = Pipe!Piece(j, m, n)
<1>1. s \in [1..(j + n) -> Nat]
  BY LenProperties
<1> QED BY <1>1 DEF Pipe!Piece

\* The socket is given the buffer, all of it: the meaningless bytes, if it is
\* the first write, and the next ones.
LEMMA GiveBytes ==
    ASSUME given \in Seq(Nat), wb \in Seq(Nat), produced \in Nat, peer = "up",
           NEW g \in Garbage, Follows(g, given, 0), Follows(g, wb, Len(given)),
           Len(given) + Len(wb) =< produced + g, Len(given) + Len(wb) >= g,
           given = <<>> \/ Len(given) >= g,
           given' = given \o wb, UNCHANGED <<produced, peer>>
    PROVE  Pipe!Deliver
<1>1. g \in Nat /\ Len(given) \in Nat /\ Len(wb) \in Nat
  BY GarbageType
<1>2. Pipe!Delivered(given) = IF given = <<>> THEN 0 ELSE Len(given) - g
  BY <1>1, DeliveredIs
<1>3. CASE given = <<>>
  <2> DEFINE n == Len(wb) - g
  <2>1. Len(given) = 0
    BY <1>3, EmptyFollows
  <2>2. n \in Nat /\ n \in 0..(produced - 0) /\ Len(wb) = g + n
    BY <1>1, <2>1
  <2> HIDE DEF n
  <2>3. \A k \in 1..(g + n) : Byte(g, 0 + k) = IF k =< g THEN 0 ELSE 0 + (k - g)
    BY <1>1, <2>2 DEF Byte
  <2>4. wb = Pipe!Piece(g, 0, n)
    <3>1. \A k \in 1..(g + n) : wb[k] = IF k =< g THEN 0 ELSE 0 + (k - g)
      BY <2>1, <2>2, <2>3 DEF Follows
    <3> QED BY <1>1, <2>2, <3>1, PieceIs
  <2>5. Pipe!Delivered(given) = 0
    BY <1>2, <1>3
  <2> QED BY <1>3, <2>2, <2>4, <2>5 DEF Pipe!Deliver
<1>4. CASE given # <<>>
  <2> DEFINE j == 0
             l == Len(given)
             m == l - g
             n == Len(wb)
  <2>1. j = 0 /\ n \in 0..(produced - m)
    BY <1>1, <1>4
  <2>2. \A k \in 1..(j + n) : Byte(g, l + k) = IF k =< j THEN 0 ELSE m + (k - j)
    BY <1>1, <1>4 DEF Byte
  <2>3. Pipe!Delivered(given) = m
    BY <1>2, <1>4
  <2>4. /\ Follows(g, wb, l) /\ g \in Nat /\ l \in Nat
        /\ j \in Nat /\ m \in Nat /\ n \in Nat /\ Len(wb) = j + n
    BY <1>1, <1>4
  <2> HIDE DEF j, l, m, n
  <2>5. wb = Pipe!Piece(j, m, n)
    <3>1. \A k \in 1..(j + n) : wb[k] = Byte(g, l + k)
      BY <2>4 DEF Follows
    <3>2. \A k \in 1..(j + n) : wb[k] = IF k =< j THEN 0 ELSE m + (k - j)
      BY <2>2, <3>1
    <3> QED BY <2>4, <3>2, PieceIs
  <2> QED BY <1>4, <2>1, <2>3, <2>4, <2>5 DEF Pipe!Deliver
<1> QED BY <1>3, <1>4

\* The socket takes the buffer; or the peer is gone.
LEMMA EnvironmentBytes ==
    ASSUME Inv, OpsInv, NEW g \in Garbage, Accounted(g), Environment
    PROVE  Accounted(g)' /\ [Pipe!Next]_(Pipe!pipeVars)
<1>1. /\ wb \in Seq(Nat) /\ given \in Seq(Nat) /\ pend \in Seq(Nat) /\ produced \in Nat
      /\ Len(wb) \in Nat /\ Len(given) \in Nat /\ Len(pend) \in Nat /\ TypeOK
      /\ peer \in {"up", "fin", "rst"} /\ g \in Nat
  BY GarbageType DEF Inv, TypeOK, SessTypeOK
<1>2. CASE WriteSocket
  <2>1. UNCHANGED <<wb, pend, writing, produced>>
    BY <1>2 DEF WriteSocket, bufVars, ngVars
  <2>2. armed["write"] = 1 /\ armed'["write"] = 0 /\ writing
    <3>1. armed["write"] > 0 /\ armed'["write"] = armed["write"] - 1 /\ armed["write"] \in Nat
      BY <1>1, <1>2 DEF WriteSocket, Complete, TypeOK, SvcTypeOK, OpKinds
    <3>2. armed["write"] = 1
      BY <3>1 DEF OpsInv, OneInv, AtMostOne, OpKinds
    <3> QED BY <3>1, <3>2 DEF OpsInv, WritingInv
  <2>3. CASE peer = "up"
    <3>1. given' = given \o wb /\ peer' = peer
      BY <1>2, <2>3 DEF WriteSocket
    <3>2. Buffered = wb /\ Buffered' = <<>>
      BY <2>1, <2>2 DEF Buffered
    <3>3. /\ Follows(g, given, 0) /\ Follows(g, wb, Len(given))
          /\ Follows(g, pend, Len(given) + Len(wb))
          /\ Len(given) + Len(wb) + Len(pend) = produced + g
          /\ Len(given) + Len(wb) >= g
          /\ given = <<>> \/ Len(given) >= g
      BY <2>3, <3>2 DEF Accounted
    <3>4. Follows(g, given \o wb, 0) /\ Len(given \o wb) = Len(given) + Len(wb)
      <4>1. Follows(g, wb, 0 + Len(given))
        BY <1>1, <3>3
      <4> QED BY <1>1, <3>3, <4>1, ConcatFollows
    <3>5. /\ Follows(g, given', 0) /\ Len(given') = Len(given) + Len(wb)
          /\ Follows(g, <<>>, Len(given')) /\ Len(<<>>) = 0
      BY <3>1, <3>4, EmptyFollows
    <3>6. Accounted(g)'
      <4>1. Len(given') + 0 = Len(given) + Len(wb)
        BY <1>1, <3>5
      <4>2. Follows(g, pend', Len(given') + Len(<<>>))
        BY <2>1, <3>3, <3>5, <4>1
      <4>3. Len(given') + Len(<<>>) + Len(pend') = produced' + g
        BY <1>1, <2>1, <3>3, <3>5
      <4>4. Len(given') + Len(<<>>) >= g /\ Len(given') >= g
        BY <1>1, <3>3, <3>5
      <4> QED BY <3>2, <3>5, <4>2, <4>3, <4>4 DEF Accounted, Follows
    <3>7. Len(given) + Len(wb) =< produced + g
      BY <1>1, <3>3
    <3>8. Pipe!Deliver
      BY <1>1, <2>1, <2>3, <3>1, <3>3, <3>7, GiveBytes
    <3> QED BY <3>6, <3>8 DEF Pipe!Next
  <2>4. CASE peer # "up"
    <3>1. given' = given /\ peer' # "up"
      BY <1>1, <1>2, <2>4 DEF WriteSocket, netVars
    <3>2. Accounted(g)'
      BY <3>1 DEF Accounted, Follows
    <3> QED BY <2>1, <2>4, <3>1, <3>2 DEF Pipe!pipeVars
  <2> QED BY <2>3, <2>4
<1>3. CASE PeerCloses
  <2>1. UNCHANGED <<given, produced>> /\ peer = "up" /\ peer' # "up"
    BY <1>3 DEF PeerCloses, bufVars, ngVars
  <2>2. Accounted(g)'
    BY <2>1 DEF Accounted, Follows
  <2>3. Pipe!Cut
    BY <2>1 DEF Pipe!Cut
  <2> QED BY <2>2, <2>3 DEF Pipe!Next
<1>4. CASE ReadSocket \/ PingExpires
  <2>1. UNCHANGED <<wb, pend, given, produced, writing, peer>>
    BY <1>4 DEF ReadSocket, PingExpires, sessVars, bufVars, ngVars, netVars
  <2>2. armed'["write"] = armed["write"]
    BY <1>1, <1>4, WriteAlone DEF ReadSocket, PingExpires, OpKinds, ErrorCodes
  <2> QED BY <2>1, <2>2, BytesFrame
<1> QED BY <1>2, <1>3, <1>4 DEF Environment

\* Every step of the program is one of OutputPipe's, or none.
LEMMA NextBytes ==
    ASSUME Inv, OpsInv, BytesInv, [Next]_vars
    PROVE  BytesInv' /\ [Pipe!Next]_(Pipe!pipeVars)
<1>1. PICK g \in Garbage : Accounted(g)
  BY DEF BytesInv
<1>2. Accounted(g)' /\ [Pipe!Next]_(Pipe!pipeVars)
  <2>1. CASE UNCHANGED vars
    BY <1>1, <2>1, BytesFrame DEF vars, svcVars, sessVars, bufVars, ngVars, netVars
  <2>2. CASE IoThread \/ User \/ TimerExpires
    BY <1>1, <2>2, ThreadBytes
  <2>3. CASE Environment
    BY <1>1, <2>3, EnvironmentBytes
  <2> QED BY <2>1, <2>2, <2>3 DEF Next
<1>3. BytesInv'
  BY <1>2 DEF BytesInv
<1> QED BY <1>2, <1>3

LEMMA InitBytes ==
    ASSUME Init
    PROVE  BytesInv /\ Pipe!Init
<1>1. PICK g \in Garbage : wb = [k \in 1..g |-> 0]
  BY DEF Init, SessInit
<1>2. g \in Nat /\ wb \in Seq(Nat) /\ Len(wb) = g
  BY <1>1, GarbageType, GarbageSeq
<1>3. pend = <<>> /\ given = <<>> /\ produced = 0 /\ peer = "up" /\ writing = FALSE
  BY DEF Init, SessInit
<1>4. Buffered = wb
  BY <1>3 DEF Buffered
<1>5. Follows(g, wb, 0)
  BY <1>1, <1>2 DEF Follows, Byte
<1>6. Accounted(g)
  <2>1. Len(given) = 0 /\ Len(pend) = 0 /\ Follows(g, given, 0)
    BY <1>3, EmptyFollows
  <2>2. Follows(g, pend, Len(given) + Len(wb))
    BY <1>3, EmptyFollows
  <2> QED BY <1>2, <1>3, <1>4, <1>5, <2>1, <2>2 DEF Accounted
<1> QED BY <1>3, <1>6 DEF BytesInv, Pipe!Init

\* Where each byte is, in every reachable state.
THEOREM Bytes == Spec => [](Inv /\ OpsInv /\ BytesInv)
<1>1. Init => BytesInv
  BY InitBytes
<1>2. Inv /\ OpsInv /\ BytesInv /\ [Next]_vars => BytesInv'
  BY NextBytes
<1> QED BY <1>1, <1>2, Operations, PTL DEF Spec

\* The socket is given every byte nghttp2 made, from the first on and once, after
\* at most the bytes an uninitialised wblen_ puts before them: for every size of
\* the buffer, frame and record, and any number of requests.
THEOREM NoGap == Spec => []GivenInFull
<1>1. Inv /\ OpsInv /\ BytesInv => GivenInFull
  <2> SUFFICES ASSUME Inv, BytesInv PROVE GivenInFull
    OBVIOUS
  <2>1. PICK g \in Garbage : Accounted(g)
    BY DEF BytesInv
  <2>2. g \in Nat /\ given \in Seq(Nat) /\ DOMAIN given = 1..Len(given) /\ Len(given) \in Nat
    BY GarbageType DEF Inv, TypeOK, SessTypeOK
  <2>3. \A k \in 1..Len(given) : given[k] = Byte(g, 0 + k)
    BY <2>1 DEF Accounted, Follows
  <2>4. \A k \in DOMAIN given : given[k] = IF k =< g THEN 0 ELSE k - g
    BY <2>2, <2>3 DEF Byte
  <2> QED BY <2>4 DEF GivenInFull
<1> QED BY <1>1, Bytes, PTL

\* The session implements OutputPipe, for every size of buffer, frame and record.
THEOREM Refinement == Spec => OutputInOrder
<1>1. Init => Pipe!Init
  BY InitBytes
<1>2. Inv /\ OpsInv /\ BytesInv /\ [Next]_vars => [Pipe!Next]_(Pipe!pipeVars)
  BY NextBytes
<1> QED BY <1>1, <1>2, Bytes, PTL DEF Spec, OutputInOrder, Pipe!Spec
-----------------------------------------------------------------------------
(* OrderInv: the bytes when writes are cut short                           *)

\* The numbers of the bytes of s rise, and are at most m; those of t are above
\* those of s.  (0 is no byte of nghttp2's.)
Rising(s) == \A j, k \in 1..Len(s) : j < k /\ s[k] # 0 => s[j] < s[k]
UpTo(s, m) == \A k \in 1..Len(s) : s[k] =< m
Before(s, t) == \A j \in 1..Len(s), k \in 1..Len(t) : t[k] # 0 => s[j] < t[k]

\* The buffer comes after what the peer has, until the write that takes it is
\* complete; then the buffer is of no more use.
OrderInv ==
    /\ Rising(wire) /\ Rising(wb) /\ Rising(pend)
    /\ UpTo(wire, produced) /\ UpTo(wb, produced) /\ UpTo(pend, produced)
    /\ Before(wire, pend) /\ Before(wb, pend)
    /\ (writing /\ armed["write"] = 0) \/ Before(wire, wb)

LEMMA ConcatRises ==
    ASSUME NEW s \in Seq(Nat), NEW t \in Seq(Nat), Rising(s), Rising(t), Before(s, t)
    PROVE  Rising(s \o t)
<1> DEFINE c == s \o t
           m == Len(s)
           n == Len(t)
<1>1. /\ Len(c) = m + n /\ m \in Nat /\ n \in Nat
      /\ \A k \in 1..(m + n) : c[k] = IF k =< m THEN s[k] ELSE t[k - m]
  BY ConcatProperties
<1>2. /\ \A j, k \in 1..m : j < k /\ s[k] # 0 => s[j] < s[k]
      /\ \A j, k \in 1..n : j < k /\ t[k] # 0 => t[j] < t[k]
      /\ \A j \in 1..m, k \in 1..n : t[k] # 0 => s[j] < t[k]
  BY DEF Rising, Before
<1> HIDE DEF c, m, n
<1>3. ASSUME NEW j \in 1..(m + n), NEW k \in 1..(m + n), j < k, c[k] # 0
      PROVE  c[j] < c[k]
  <2>1. CASE k =< m
    <3>1. j \in 1..m /\ k \in 1..m /\ c[j] = s[j] /\ c[k] = s[k]
      BY <1>1, <1>3, <2>1
    <3> QED BY <1>2, <1>3, <3>1
  <2>2. CASE k > m /\ j =< m
    <3>1. j \in 1..m /\ k - m \in 1..n /\ c[j] = s[j] /\ c[k] = t[k - m]
      BY <1>1, <1>3, <2>2
    <3> QED BY <1>2, <1>3, <3>1
  <2>3. CASE k > m /\ j > m
    <3>1. j - m \in 1..n /\ k - m \in 1..n /\ j - m < k - m
      BY <1>1, <1>3, <2>3
    <3>2. c[j] = t[j - m]
      BY <1>1, <1>3, <2>3
    <3>3. c[k] = t[k - m]
      BY <1>1, <1>3, <2>3
    <3> QED BY <1>2, <1>3, <3>1, <3>2, <3>3
  <2> QED BY <1>1, <1>3, <2>1, <2>2, <2>3
<1>4. Rising(c)
  BY <1>1, <1>3 DEF Rising
<1> QED BY <1>4 DEF c

\* The members of s \o t are those of s and of t.
LEMMA ConcatMembers ==
    ASSUME NEW s \in Seq(Nat), NEW t \in Seq(Nat)
    PROVE  \A k \in 1..Len(s \o t) :
             \/ \E i \in 1..Len(s) : (s \o t)[k] = s[i]
             \/ \E i \in 1..Len(t) : (s \o t)[k] = t[i]
<1>1. /\ Len(s \o t) = Len(s) + Len(t) /\ Len(s) \in Nat /\ Len(t) \in Nat
      /\ \A k \in 1..(Len(s) + Len(t)) :
           (s \o t)[k] = IF k =< Len(s) THEN s[k] ELSE t[k - Len(s)]
  BY ConcatProperties
<1> SUFFICES ASSUME NEW k \in 1..(Len(s) + Len(t))
             PROVE  \/ \E i \in 1..Len(s) : (s \o t)[k] = s[i]
                    \/ \E i \in 1..Len(t) : (s \o t)[k] = t[i]
  BY <1>1
<1>2. CASE k =< Len(s)
  BY <1>1, <1>2
<1>3. CASE k > Len(s)
  <2>1. k - Len(s) \in 1..Len(t) /\ (s \o t)[k] = t[k - Len(s)]
    BY <1>1, <1>3
  <2> QED BY <2>1
<1> QED BY <1>1, <1>2, <1>3

LEMMA ConcatOrder ==
    ASSUME NEW r \in Seq(Nat), NEW s \in Seq(Nat), NEW t \in Seq(Nat), NEW m \in Nat
    PROVE  /\ UpTo(s, m) /\ UpTo(t, m) => UpTo(s \o t, m)
           /\ Before(r, s) /\ Before(r, t) => Before(r, s \o t)
           /\ Before(s, r) /\ Before(t, r) => Before(s \o t, r)
<1> DEFINE c == s \o t
<1>1. \A k \in 1..Len(c) :
        (\E i \in 1..Len(s) : c[k] = s[i]) \/ (\E i \in 1..Len(t) : c[k] = t[i])
  BY ConcatMembers
<1> HIDE DEF c
<1>2. UpTo(s, m) /\ UpTo(t, m) => UpTo(c, m)
  BY <1>1 DEF UpTo
<1>3. Before(r, s) /\ Before(r, t) => Before(r, c)
  BY <1>1 DEF Before
<1>4. Before(s, r) /\ Before(t, r) => Before(c, r)
  BY <1>1 DEF Before
<1> QED BY <1>2, <1>3, <1>4 DEF c

\* What one async_write_some sends is the first part of the buffer.
LEMMA RecordIs ==
    ASSUME NEW b \in Seq(Nat)
    PROVE  /\ OneRecord(b) \in Seq(Nat) /\ Len(OneRecord(b)) \in Nat
           /\ Len(OneRecord(b)) =< Len(b)
           /\ \A k \in 1..Len(OneRecord(b)) : OneRecord(b)[k] = b[k]
<1> DEFINE n == IF Len(b) > MaxRecord THEN MaxRecord ELSE Len(b)
<1>1. Len(b) \in Nat /\ n \in 0..Len(b)
  BY SizesAssumption
<1>2. OneRecord(b) = SubSeq(b, 1, n)
  BY DEF OneRecord
<1> HIDE DEF n
<1>3. /\ SubSeq(b, 1, n) \in Seq(Nat) /\ Len(SubSeq(b, 1, n)) = n
      /\ \A k \in 1..n : SubSeq(b, 1, n)[k] = b[k]
  BY <1>1
<1> QED BY <1>1, <1>2, <1>3

\* A new block is above all there was.
LEMMA BlockRises ==
    ASSUME produced \in Nat, NEW n \in Nat
    PROVE  /\ Block(n) \in Seq(Nat) /\ Rising(Block(n)) /\ UpTo(Block(n), produced + n)
           /\ \A s \in Seq(Nat) : UpTo(s, produced) => Before(s, Block(n)) /\ UpTo(s, produced + n)
<1>1. Block(n) \in Seq(Nat) /\ Len(Block(n)) = n /\ \A k \in 1..n : Block(n)[k] = produced + k
  BY BlockSeq DEF Block
<1>2. Rising(Block(n)) /\ UpTo(Block(n), produced + n)
  BY <1>1 DEF Rising, UpTo
<1>3. ASSUME NEW s \in Seq(Nat), UpTo(s, produced)
      PROVE  Before(s, Block(n)) /\ UpTo(s, produced + n)
  <2>1. \A k \in 1..Len(s) : s[k] \in Nat /\ s[k] =< produced
    BY <1>3 DEF UpTo
  <2> DEFINE b == Block(n)
  <2>2. \A k \in 1..Len(b) : b[k] \in Nat /\ b[k] > produced
    BY <1>1
  <2> HIDE DEF b
  <2>3. ASSUME NEW j \in 1..Len(s), NEW k \in 1..Len(b) PROVE s[j] < b[k]
    <3>1. s[j] \in Nat /\ s[j] =< produced
      BY <2>1
    <3>2. b[k] \in Nat /\ b[k] > produced
      BY <2>2
    <3> QED BY <3>1, <3>2, Z3
  <2>4. UpTo(s, produced + n)
    BY <2>1 DEF UpTo
  <2>5. Before(s, b)
    BY <2>3 DEF Before
  <2> QED BY <2>4, <2>5 DEF b
<1> QED BY <1>1, <1>2, <1>3

LEMMA EmptyRises == \A s, m : Rising(<<>>) /\ UpTo(<<>>, m) /\ Before(s, <<>>) /\ Before(<<>>, s)
BY DEF Rising, UpTo, Before

LEMMA OrderTypes ==
    ASSUME Inv
    PROVE  /\ wb \in Seq(Nat) /\ pend \in Seq(Nat) /\ wire \in Seq(Nat) /\ produced \in Nat
           /\ TypeOK
BY DEF Inv, TypeOK, SessTypeOK

LEMMA OrderFrame ==
    ASSUME OrderInv, UNCHANGED <<wb, pend, wire, produced, writing>>,
           armed'["write"] = armed["write"]
    PROVE  OrderInv'
BY DEF OrderInv, Rising, UpTo, Before

\* One turn of the loop.
LEMMA EmitOrder ==
    ASSUME Inv, OpsInv, OrderInv, pc = "send", NEW n \in Nat, Emit(n)
    PROVE  OrderInv'
<1> DEFINE b == Block(n)
<1>1. /\ wb \in Seq(Nat) /\ pend \in Seq(Nat) /\ wire \in Seq(Nat) /\ produced \in Nat
      /\ TypeOK
  BY OrderTypes
<1>2. pend = <<>> /\ ~writing
  BY DEF Inv, SafetyInv, PendingInv, OpsInv, WritingInv
<1>3. /\ Rising(wire) /\ Rising(wb) /\ UpTo(wire, produced) /\ UpTo(wb, produced)
      /\ Before(wire, wb)
  BY <1>2 DEF OrderInv
<1>4. /\ b \in Seq(Nat) /\ Rising(b) /\ UpTo(b, produced + n)
      /\ Before(wire, b) /\ Before(wb, b)
      /\ UpTo(wire, produced + n) /\ UpTo(wb, produced + n) /\ produced + n \in Nat
  BY <1>1, <1>3, BlockRises
<1>5. produced' = produced + n
  BY DEF Emit
<1>6. CASE Fits(n)
  <2>1. wb' = wb \o b /\ pend' = <<>> /\ wire' = wire
    BY <1>2, <1>6 DEF Emit, netVars
  <2> HIDE DEF b
  <2>2. Rising(wb \o b) /\ UpTo(wb \o b, produced + n) /\ Before(wire, wb \o b)
    BY <1>1, <1>3, <1>4, ConcatRises, ConcatOrder
  <2>3. /\ Rising(wire') /\ Rising(wb') /\ Rising(pend')
        /\ UpTo(wire', produced') /\ UpTo(wb', produced') /\ UpTo(pend', produced')
        /\ Before(wire', pend') /\ Before(wb', pend') /\ Before(wire', wb')
    BY <1>3, <1>4, <1>5, <2>1, <2>2, EmptyRises
  <2> QED BY <2>3 DEF OrderInv, Rising, UpTo, Before
<1>7. CASE ~Fits(n)
  <2>1. wb' = wb /\ pend' = b /\ wire' = wire
    BY <1>7 DEF Emit, Leave, Launch, netVars
  <2> HIDE DEF b
  <2>2. /\ Rising(wire') /\ Rising(wb') /\ Rising(pend')
        /\ UpTo(wire', produced') /\ UpTo(wb', produced') /\ UpTo(pend', produced')
        /\ Before(wire', pend') /\ Before(wb', pend') /\ Before(wire', wb')
    BY <1>3, <1>4, <1>5, <2>1
  <2> QED BY <2>2 DEF OrderInv, Rising, UpTo, Before
<1> QED BY <1>6, <1>7

LEMMA SessionStepOrder ==
    ASSUME Inv, OpsInv, OrderInv, SessionStep
    PROVE  OrderInv'
<1>0. /\ wb \in Seq(Nat) /\ pend \in Seq(Nat) /\ wire \in Seq(Nat) /\ produced \in Nat
      /\ TypeOK
  BY OrderTypes
<1>1. CASE SendControl \/ SendHeaders
  <2>1. Emit(1) /\ pc = "send"
    BY <1>1 DEF SendControl, SendHeaders
  <2> QED BY <2>1, EmitOrder
<1>2. CASE SendData
  <2> DEFINE n == IF body > MaxPayload THEN MaxPayload ELSE body
  <2>1. Emit(n + 1) /\ pc = "send"
    BY <1>2 DEF SendData
  <2>2. n + 1 \in Nat
    BY <1>0, SizesAssumption DEF TypeOK, SessTypeOK
  <2> HIDE DEF n
  <2> QED BY <2>1, <2>2, EmitOrder
<1>3. CASE SendNothing
  <2>1. UNCHANGED <<wb, pend, wire, produced>> /\ ~writing
    BY <1>3 DEF SendNothing, Launch, ngVars, netVars, OpsInv, WritingInv
  <2>2. Before(wire, wb)
    BY <2>1 DEF OrderInv
  <2> QED BY <2>1, <2>2 DEF OrderInv, Rising, UpTo, Before
<1>4. CASE WriteEnter
  <2>1. /\ wb' = wb \o pend /\ pend' = <<>> /\ ~writing
        /\ UNCHANGED <<wire, produced>>
    BY <1>4 DEF WriteEnter, MayWrite, TakePending, ngVars, netVars, svcVars
  <2>2. /\ Rising(wire) /\ Rising(wb) /\ Rising(pend)
        /\ UpTo(wire, produced) /\ UpTo(wb, produced) /\ UpTo(pend, produced)
        /\ Before(wire, pend) /\ Before(wb, pend) /\ Before(wire, wb)
    BY <2>1 DEF OrderInv
  <2>3. Rising(wb \o pend) /\ UpTo(wb \o pend, produced) /\ Before(wire, wb \o pend)
    BY <1>0, <2>2, ConcatRises, ConcatOrder
  <2>4. /\ Rising(wire') /\ Rising(wb') /\ Rising(pend')
        /\ UpTo(wire', produced') /\ UpTo(wb', produced') /\ UpTo(pend', produced')
        /\ Before(wire', pend') /\ Before(wb', pend') /\ Before(wire', wb')
    BY <2>1, <2>2, <2>3, EmptyRises
  <2> QED BY <2>4 DEF OrderInv, Rising, UpTo, Before
<1>5. CASE WriteHandler
  <2>1. UNCHANGED <<pend, wire, produced>> /\ armed'["write"] = armed["write"]
    BY <1>0, <1>5, WriteAlone DEF WriteHandler, ngVars, netVars, svcVars
  <2>2. CASE WriteFailed
    BY <1>5, <2>1, <2>2, OrderFrame DEF WriteHandler
  <2>3. CASE ~WriteFailed
    <3>1. wb' = <<>>
      BY <1>5, <2>3 DEF WriteHandler, Written
    <3>2. /\ Rising(wb') /\ UpTo(wb', produced') /\ Before(wb', pend') /\ Before(wire', wb')
      BY <3>1, EmptyRises
    <3>3. /\ Rising(wire') /\ Rising(pend') /\ UpTo(wire', produced') /\ UpTo(pend', produced')
          /\ Before(wire', pend')
      BY <2>1 DEF OrderInv
    <3> QED BY <3>2, <3>3 DEF OrderInv, Rising, UpTo, Before
  <2> QED BY <2>2, <2>3
<1>6. CASE ~(SendControl \/ SendHeaders \/ SendData \/ SendNothing \/ WriteEnter \/ WriteHandler)
  <2>1. UNCHANGED <<wb, pend, wire, produced, writing>> /\ armed'["write"] = armed["write"]
    BY <1>0, <1>6, WriteKept
  <2> QED BY <2>1, OrderFrame
<1> QED BY <1>1, <1>2, <1>3, <1>4, <1>5, <1>6

\* The socket takes a part of the buffer, or the peer is gone.
LEMMA EnvironmentOrder ==
    ASSUME Inv, OpsInv, OrderInv, Environment
    PROVE  OrderInv'
<1>1. /\ wb \in Seq(Nat) /\ pend \in Seq(Nat) /\ wire \in Seq(Nat) /\ produced \in Nat
      /\ TypeOK
  BY OrderTypes
<1>2. CASE WriteSocket
  <2>1. UNCHANGED <<wb, pend, writing, produced>>
    BY <1>2 DEF WriteSocket, bufVars, ngVars
  <2>2. armed["write"] = 1 /\ armed'["write"] = 0 /\ writing
    <3>1. armed["write"] > 0 /\ armed'["write"] = armed["write"] - 1 /\ armed["write"] \in Nat
      BY <1>1, <1>2 DEF WriteSocket, Complete, TypeOK, SvcTypeOK, OpKinds
    <3>2. armed["write"] = 1
      BY <3>1 DEF OpsInv, OneInv, AtMostOne, OpKinds
    <3> QED BY <3>1, <3>2 DEF OpsInv, WritingInv
  <2>3. CASE wire' = wire
    BY <2>1, <2>2, <2>3 DEF OrderInv, Rising, UpTo, Before
  <2>4. CASE wire' = wire \o OneRecord(wb)
    <3> DEFINE r == OneRecord(wb)
    <3>1. /\ r \in Seq(Nat) /\ Len(r) \in Nat /\ Len(r) =< Len(wb) /\ Len(wb) \in Nat
          /\ \A k \in 1..Len(r) : r[k] = wb[k] /\ k \in 1..Len(wb)
      BY <1>1, RecordIs
    <3> HIDE DEF r
    <3>2. /\ Rising(wire) /\ Rising(wb) /\ Rising(pend)
          /\ UpTo(wire, produced) /\ UpTo(wb, produced) /\ UpTo(pend, produced)
          /\ Before(wire, pend) /\ Before(wb, pend) /\ Before(wire, wb)
      BY <2>2 DEF OrderInv
    <3>3. Rising(r) /\ UpTo(r, produced) /\ Before(wire, r) /\ Before(r, pend)
      BY <3>1, <3>2 DEF Rising, UpTo, Before
    <3>4. Rising(wire \o r) /\ UpTo(wire \o r, produced) /\ Before(wire \o r, pend)
      BY <1>1, <3>1, <3>2, <3>3, ConcatRises, ConcatOrder
    <3>5. Rising(wire') /\ UpTo(wire', produced') /\ Before(wire', pend')
      BY <2>1, <2>4, <3>4 DEF r
    <3>6. Rising(wb') /\ Rising(pend') /\ UpTo(wb', produced') /\ UpTo(pend', produced')
          /\ Before(wb', pend')
      BY <2>1, <3>2
    <3> QED BY <2>1, <2>2, <3>5, <3>6 DEF OrderInv, Rising, UpTo, Before
  <2> QED BY <1>2, <2>3, <2>4 DEF WriteSocket, netVars
<1>3. CASE PeerCloses \/ ReadSocket \/ PingExpires
  <2>1. UNCHANGED <<wb, pend, wire, produced, writing>>
    BY <1>3 DEF PeerCloses, ReadSocket, PingExpires, sessVars, bufVars, ngVars, netVars
  <2>2. armed'["write"] = armed["write"]
    BY <1>1, <1>3, WriteAlone DEF PeerCloses, ReadSocket, PingExpires, OpKinds, ErrorCodes,
       svcVars
  <2> QED BY <2>1, <2>2, OrderFrame
<1> QED BY <1>2, <1>3 DEF Environment

LEMMA NextOrder ==
    ASSUME Inv, OpsInv, OrderInv, [Next]_vars
    PROVE  OrderInv'
<1>1. CASE UNCHANGED vars
  BY <1>1, OrderFrame DEF vars, svcVars, sessVars, bufVars, ngVars, netVars
<1>2. CASE SessionStep
  BY <1>2, SessionStepOrder
<1>3. CASE Environment
  BY <1>3, EnvironmentOrder
<1>4. CASE (IoThread \/ User \/ TimerExpires) /\ ~SessionStep
  BY <1>4, ThreadKeepsBytes, OrderFrame, OrderTypes
<1> QED BY <1>1, <1>2, <1>3, <1>4 DEF Next

LEMMA InitOrder ==
    ASSUME Init
    PROVE  OrderInv
<1>1. PICK g \in Garbage : wb = [k \in 1..g |-> 0]
  BY DEF Init, SessInit
<1>2. wb \in Seq(Nat) /\ Len(wb) = g /\ \A k \in 1..g : wb[k] = 0
  <2>1. g \in Nat
    BY SizesAssumption
  <2> QED BY <1>1, <2>1, GarbageSeq
<1>3. Rising(wb) /\ UpTo(wb, 0)
  BY <1>2 DEF Rising, UpTo
<1>4. pend = <<>> /\ wire = <<>> /\ produced = 0
  BY DEF Init, SessInit
<1> QED BY <1>3, <1>4, EmptyRises DEF OrderInv

\* The peer never receives a byte twice or after a later one, even if writes are
\* cut short and wblen_ starts at any value.
THEOREM InOrder == Spec => []WireIncreasing
<1>1. Init => OrderInv
  BY InitOrder
<1>2. Inv /\ OpsInv /\ OrderInv /\ [Next]_vars => OrderInv'
  BY NextOrder
<1>3. Inv /\ OrderInv => WireIncreasing
  <2> SUFFICES ASSUME Inv, OrderInv PROVE WireIncreasing
    OBVIOUS
  <2>1. wire \in Seq(Nat) /\ DOMAIN wire = 1..Len(wire)
    BY OrderTypes
  <2> QED BY <2>1 DEF OrderInv, Rising, WireIncreasing
<1> QED BY <1>1, <1>2, <1>3, Operations, PTL DEF Spec
-----------------------------------------------------------------------------
(* FirstInv: why the first submit() does not wait for itself               *)
(*                                                                         *)
(* submit() calls write() with insideCb held, and write() locks it unless  *)
(* a write is under way.  In the first send() one is: connect() and        *)
(* fetch() are queued together, connect() writes the greeting, and no      *)
(* handler runs between the two.                                           *)

OneSend == MaxSends = 1

Fetches == {"fetch", "fetchWithBody"}

\* The handlers from the n-th on are no jobs.
NoJobs(n) == \A j \in DOMAIN ready : j >= n => ready[j].op \in OpKinds

\* write() would return at once.
Quiet == stopped \/ writing

\* The loop of write() has or will have something to write.
Greeted == wb # <<>> \/ (outq # <<>> /\ Head(outq).id = 0)

Unsent ==
    /\ sends = 0 /\ user = "free" /\ ~runner
    /\ ready = <<>> /\ pc = "idle" /\ ~h2

Posted ==
    /\ sends = 1
    /\ Len(ready) >= 2 /\ ready[1].op = "connect" /\ ready[2].op \in Fetches /\ NoJobs(3)
    /\ pc = "idle" /\ ~h2

\* fetch() is the next handler.
FetchNext == Len(ready) >= 1 /\ ready[1].op \in Fetches /\ NoJobs(2)

Connecting == sends = 1 /\ FetchNext /\ pc \in {"connect", "connecting"} /\ ~h2

Greeting ==
    /\ sends = 1 /\ FetchNext
    /\ pc \in {"write", "send", "read0", "startPing", "idle"}
    /\ pc \in {"write", "send"} => ret = "read0"
    /\ Quiet \/ (pc \in {"write", "send"} /\ Greeted)

Submitting ==
    /\ sends = 1 /\ NoJobs(1)
    /\ pc \notin {"connect", "connecting", "blocked"}
    /\ pc \in Fetches \/ (pc = "write" /\ lock) => Quiet

FirstInv == Unsent \/ Posted \/ Connecting \/ Greeting \/ Submitting

\* What a step that is no send() and starts no handler does to the queue.
Grows == ready' = ready \/ \E h \in Handlers : h.op \in OpKinds /\ ready' = Append(ready, h)

LEMMA CompletionGrows ==
    ASSUME NEW k \in OpKinds, NEW e \in ErrorCodes, ready' = Append(ready, Handler(k, e))
    PROVE  Grows
<1>1. Handler(k, e) \in Handlers /\ Handler(k, e).op = k
  BY HandlerType DEF Handler
<1> QED BY <1>1 DEF Grows

LEMMA StopGrows ==
    ASSUME Stop \/ Abort \/ StartPing
    PROVE  Grows
<1>1. ready' = ready \/ ready' = Append(ready, Handler("ping", "aborted"))
  BY DEF Stop, Abort, StartPing, cancelPing, CancelledReady, svcVars
<1> QED BY <1>1, CompletionGrows DEF Grows, OpKinds, ErrorCodes

LEMMA StepGrows ==
    ASSUME TypeOK, [Next]_vars, ~Send, ~Dispatch
    PROVE  Grows
<1>1. CASE ready' = ready
  BY <1>1 DEF Grows
<1>2. CASE Stop \/ Abort \/ StartPing
  BY <1>2, StopGrows
<1>3. CASE Environment \/ TimerExpires
  <2>1. CASE \E k \in OpKinds, e \in ErrorCodes : Complete(k, e)
    BY <2>1, CompletionGrows DEF Complete
  <2>2. CASE PeerCloses
    BY <1>1, <2>2 DEF PeerCloses, svcVars
  <2> QED BY <1>3, <2>1, <2>2 DEF Environment, WriteSocket, ReadSocket, PingExpires, TimerExpires,
         OpKinds, ErrorCodes
<1>4. CASE SessionStep
  BY <1>1, <1>2, <1>4 DEF SessionStep, WriteSkip, WriteEnter, SendControl, SendHeaders,
     SendData, Emit, Leave, Launch, SendNothing, SendNoMem, WriteHandler, ConnectBegin,
     ConnectFail, ConnectOk, ConnectSkip, FirstRead, PingHandler, SubmitStopped, SubmitInvalid,
     SubmitRefused, Submit, SubmitReturn, ReadNothing, ReadHandler, RecvControl, RecvGoAway,
     RecvProtocolError, RecvWindow, RecvFrame, RecvBad, RecvEnd, ReadAgain, svcVars
<1>5. CASE ~SessionStep /\ ~(Environment \/ TimerExpires)
  BY <1>1, <1>2, <1>5 DEF Next, IoThread, RunReturn, TimerHandler, StreamEnds, StreamRefused,
     ReadyCallback, User, Run, AbortService, AbortSession, vars, svcVars
<1> QED BY <1>3, <1>4, <1>5

\* A queue that grows keeps its first handlers.
LEMMA GrownQueue ==
    ASSUME SvcTypeOK, Grows
    PROVE  /\ Len(ready) \in Nat /\ Len(ready') \in Nat /\ Len(ready') >= Len(ready)
           /\ \A j \in 1..Len(ready) : ready'[j] = ready[j]
           /\ \A n : NoJobs(n) => NoJobs(n)'
<1>1. CASE ready' = ready
  BY <1>1 DEF NoJobs, SvcTypeOK
<1>2. CASE \E h \in Handlers : h.op \in OpKinds /\ ready' = Append(ready, h)
  <2>1. PICK h \in Handlers : h.op \in OpKinds /\ ready' = Append(ready, h)
    BY <1>2
  <2>2. /\ ready \in Seq(Handlers) /\ Len(ready) \in Nat /\ DOMAIN ready = 1..Len(ready)
        /\ Len(ready') = Len(ready) + 1 /\ DOMAIN ready' = 1..(Len(ready) + 1)
        /\ \A j \in 1..Len(ready) : ready'[j] = ready[j]
        /\ ready'[Len(ready) + 1] = h
    BY <2>1 DEF SvcTypeOK
  <2>3. \A n : NoJobs(n) => NoJobs(n)'
    BY <2>1, <2>2 DEF NoJobs
  <2> QED BY <2>2, <2>3
<1> QED BY <1>1, <1>2 DEF Grows

\* What is ahead in the queue stays ahead.
LEMMA GrowthKeeps ==
    ASSUME SvcTypeOK, Grows
    PROVE  /\ FetchNext => FetchNext'
           /\ NoJobs(1) => NoJobs(1)'
           /\ Len(ready) >= 2 /\ ready[1].op = "connect" /\ ready[2].op \in Fetches /\ NoJobs(3)
                => Len(ready') >= 2 /\ ready'[1].op = "connect" /\ ready'[2].op \in Fetches
                   /\ NoJobs(3)'
<1>1. /\ Len(ready) \in Nat /\ Len(ready') \in Nat /\ Len(ready') >= Len(ready)
      /\ \A j \in 1..Len(ready) : ready'[j] = ready[j]
      /\ \A n : NoJobs(n) => NoJobs(n)'
  BY GrownQueue
<1> HIDE DEF NoJobs
<1>2. FetchNext => FetchNext'
  BY <1>1 DEF FetchNext
<1> QED BY <1>1, <1>2

\* The first handler leaves the queue.
LEMMA TailJobs ==
    ASSUME SvcTypeOK, ready # <<>>, ready' = Tail(ready)
    PROVE  /\ Head(ready) = ready[1] /\ Len(ready) >= 1 /\ Len(ready') = Len(ready) - 1
           /\ \A j \in 1..Len(ready') : ready'[j] = ready[j + 1]
           /\ NoJobs(1) => NoJobs(1)' /\ ready[1].op \in OpKinds
           /\ NoJobs(2) => NoJobs(1)'
           /\ NoJobs(3) => NoJobs(2)'
<1>1. /\ ready \in Seq(Handlers) /\ Len(ready) \in Nat /\ DOMAIN ready = 1..Len(ready)
      /\ Len(ready) >= 1 /\ Len(ready') = Len(ready) - 1 /\ DOMAIN ready' = 1..(Len(ready) - 1)
      /\ \A j \in 1..(Len(ready) - 1) : ready'[j] = ready[j + 1]
      /\ Head(ready) = ready[1]
  BY HeadTailProperties, EmptySeq DEF SvcTypeOK
<1> QED BY <1>1 DEF NoJobs

\* Steps that leave the thread where it is, and take nothing from the queue.
LEMMA FirstFrame ==
    ASSUME SvcTypeOK, FirstInv, ~Unsent, Grows, stopped => stopped',
           UNCHANGED <<pc, ret, lock, h2, writing, wb, outq, sends>>
    PROVE  FirstInv'
<1>1. /\ FetchNext => FetchNext'
      /\ NoJobs(1) => NoJobs(1)'
      /\ Len(ready) >= 2 /\ ready[1].op = "connect" /\ ready[2].op \in Fetches /\ NoJobs(3)
           => Len(ready') >= 2 /\ ready'[1].op = "connect" /\ ready'[2].op \in Fetches
              /\ NoJobs(3)'
  BY GrowthKeeps
<1>2. Quiet => Quiet'
  BY DEF Quiet
<1>3. Greeted => Greeted'
  BY DEF Greeted
<1> HIDE DEF NoJobs, FetchNext, Quiet, Greeted
<1>4. CASE Posted
  BY <1>1, <1>4 DEF Posted, FirstInv
<1>5. CASE Connecting
  BY <1>1, <1>5 DEF Connecting, FirstInv
<1>6. CASE Greeting
  BY <1>1, <1>2, <1>3, <1>6 DEF Greeting, FirstInv
<1>7. CASE Submitting
  BY <1>1, <1>2, <1>7 DEF Submitting, FirstInv
<1> QED BY <1>4, <1>5, <1>6, <1>7 DEF FirstInv

\* connect() either leaves the session stopped or has a greeting to write.
LEMMA ConnectFirst ==
    ASSUME Inv, OpsInv, Connecting, FetchNext', sends' = sends, SessionStep
    PROVE  Connecting' \/ Greeting'
<1>1. stopped
  BY DEF Connecting, OpsInv, ConnectInv, Unconnected
<1>2. ConnectBegin \/ ConnectFail \/ ConnectOk
  BY <1>1 DEF Connecting, SessionStep, WriteSkip, WriteEnter, SendControl, SendHeaders,
     SendData, SendNothing, SendNoMem, WriteHandler, ConnectSkip, FirstRead, StartPing,
     PingHandler, SubmitStopped, SubmitInvalid, SubmitRefused, Submit, SubmitReturn, ReadNothing,
     ReadHandler, RecvControl, RecvGoAway, RecvProtocolError, RecvWindow, RecvFrame, RecvBad,
     RecvEnd, ReadAgain
<1>3. CASE ConnectFail
  <2>1. stopped' = TRUE /\ pc' = "idle"
    BY <1>3, StopFacts DEF ConnectFail, Inv
  <2> QED BY <2>1 DEF Greeting, Connecting, Quiet
<1>4. CASE ConnectOk
  <2>1. /\ pc' = "write" /\ ret' = "read0"
        /\ outq' = <<Frame("magic", 0), Frame("settings", 0)>>
    BY <1>4 DEF ConnectOk, Greet, Connecting
  <2>2. outq' # <<>> /\ Head(outq').id = 0
    BY <2>1 DEF Frame
  <2> QED BY <2>1, <2>2 DEF Greeting, Connecting, Greeted
<1>5. CASE ConnectBegin
  BY <1>5 DEF ConnectBegin, Connecting
<1> QED BY <1>2, <1>3, <1>4, <1>5

\* A turn of the loop of the greeting's write().
LEMMA EmitGreets ==
    ASSUME Inv, pc = "send", ret = "read0", NEW n \in Nat, 0 < n, n =< Cap, Emit(n)
    PROVE  /\ ret' = "read0"
           /\ (pc' = "send" /\ wb' # <<>>) \/ (pc' = "read0" /\ writing' = TRUE)
<1>1. /\ wb \in Seq(Nat) /\ produced \in Nat /\ Len(wb) \in Nat
  BY DEF Inv, TypeOK, SessTypeOK
<1>2. Block(n) \in Seq(Nat) /\ Len(Block(n)) = n
  BY <1>1, BlockSeq
<1>3. CASE Fits(n)
  <2>1. wb' = wb \o Block(n) /\ UNCHANGED <<pc, ret>>
    BY <1>3 DEF Emit
  <2>2. Len(wb') = Len(wb) + n
    BY <1>1, <1>2, <2>1, ConcatProperties
  <2>3. wb' # <<>>
    BY <1>1, <2>2
  <2> QED BY <2>1, <2>3
<1>4. CASE ~Fits(n)
  <2>1. Launch(wb)
    BY <1>4 DEF Emit, Leave
  <2>2. wb # <<>>
    BY <1>1, <1>4 DEF Fits
  <2>3. writing' = TRUE
    BY <2>1, <2>2, LaunchFacts DEF Inv
  <2>4. pc' = ret /\ ret' = ret
    BY <2>1 DEF Launch
  <2> QED BY <2>3, <2>4
<1> QED BY <1>3, <1>4

\* The greeting is written before fetch() runs.
LEMMA GreetingFirst ==
    ASSUME Inv, Greeting, FetchNext', sends' = sends, SessionStep
    PROVE  Greeting'
<1> USE DEF Greeting
<1>0. /\ pc \in {"write", "send"} => ret = "read0"
      /\ pc \in {"write", "send", "read0", "startPing", "idle"}
  OBVIOUS
<1> HIDE DEF FetchNext
<1>1. CASE WriteSkip
  BY <1>0, <1>1 DEF WriteSkip, MayWrite, Quiet, bufVars
<1>2. CASE WriteEnter
  <2>1. pc = "write" /\ ret = "read0" /\ ~Quiet /\ Greeted
    BY <1>0, <1>2 DEF WriteEnter, MayWrite, Quiet
  <2>2. ~lock
    BY <2>1 DEF Inv, SafetyInv, LockInv
  <2>3. pc' = "send" /\ ret' = "read0" /\ wb' = wb \o pend /\ outq' = outq
    BY <1>2, <2>1, <2>2 DEF WriteEnter, TakePending, ngVars
  <2>4. wb \in Seq(Nat) /\ pend \in Seq(Nat)
    BY DEF Inv, TypeOK, SessTypeOK
  <2>5. wb # <<>> => wb' # <<>>
    BY <2>3, <2>4, ConcatProperties
  <2>6. Greeted'
    BY <2>1, <2>3, <2>5 DEF Greeted
  <2> QED BY <2>3, <2>6
<1>3. CASE pc = "send" /\ ret = "read0" /\ \E n \in Nat : 0 < n /\ n =< Cap /\ Emit(n)
  <2>1. /\ ret' = "read0"
        /\ (pc' = "send" /\ wb' # <<>>) \/ (pc' = "read0" /\ writing' = TRUE)
    BY <1>3, EmitGreets
  <2> QED BY <2>1 DEF Greeted, Quiet
<1>4. CASE SendControl \/ SendHeaders \/ SendData
  <2>1. 1 =< Cap /\ \A n \in Nat : n =< MaxPayload => n + 1 \in Nat /\ 0 < n + 1 /\ n + 1 =< Cap
    BY SizesAssumption
  <2>2. \A b \in Nat : (IF b > MaxPayload THEN MaxPayload ELSE b) \in Nat
                    /\ (IF b > MaxPayload THEN MaxPayload ELSE b) =< MaxPayload
    BY SizesAssumption
  <2>3. body \in Nat
    BY DEF Inv, TypeOK, SessTypeOK
  <2>4. pc = "send"
    BY <1>4 DEF SendControl, SendHeaders, SendData
  <2>5. CASE SendControl \/ SendHeaders
    BY <1>0, <1>3, <2>1, <2>4, <2>5 DEF SendControl, SendHeaders
  <2>6. CASE SendData
    <3>1. PICK i \in data \ stalled : Emit((IF body > MaxPayload THEN MaxPayload ELSE body) + 1)
      BY <2>6 DEF SendData
    <3> QED BY <1>0, <1>3, <2>1, <2>2, <2>3, <2>4, <3>1
  <2> QED BY <1>4, <2>5, <2>6
<1>5. CASE SendNothing
  <2>1. pc = "send" /\ outq = <<>> /\ Launch(wb)
    BY <1>5 DEF SendNothing
  <2>2. pc' = "read0" /\ ret' = ret
    BY <1>0, <2>1 DEF Launch
  <2>3. Quiet \/ wb # <<>>
    BY <2>1 DEF Greeted
  <2>4. Quiet'
    BY <2>1, <2>3, LaunchFacts DEF Inv, Quiet
  <2> QED BY <2>2, <2>4
<1>6. CASE SendNoMem
  <2>1. stopped' = TRUE /\ pc' = "read0"
    BY <1>0, <1>6, StopFacts DEF SendNoMem, Inv
  <2> QED BY <2>1 DEF Quiet
<1>7. CASE FirstRead
  BY <1>7 DEF FirstRead, Read, Quiet, bufVars
<1>8. CASE StartPing
  BY <1>8 DEF StartPing, Quiet, bufVars
<1>9. CASE ~(WriteSkip \/ WriteEnter \/ SendControl \/ SendHeaders \/ SendData \/ SendNothing
            \/ SendNoMem \/ FirstRead \/ StartPing)
  BY <1>0, <1>9 DEF SessionStep, WriteHandler, ConnectBegin, ConnectFail, ConnectOk, ConnectSkip,
     PingHandler, SubmitStopped, SubmitInvalid, SubmitRefused, Submit, SubmitReturn, ReadNothing,
     ReadHandler, RecvControl, RecvGoAway, RecvProtocolError, RecvWindow, RecvFrame, RecvBad,
     RecvEnd, ReadAgain
<1> QED BY <1>1, <1>2, <1>4, <1>5, <1>6, <1>7, <1>8, <1>9

\* After that only submit() calls write() with insideCb held.
LEMMA SubmitFirst ==
    ASSUME Inv, Submitting, NoJobs(1)', sends' = sends, SessionStep
    PROVE  Submitting'
<1> USE DEF Submitting
<1> HIDE DEF NoJobs
<1>0. /\ ret \in {"idle", "read0", "again", "startPing", "emplace"}
      /\ lock => pc \in {"write", "send", "recv", "emplace", "blocked"}
  BY DEF Inv, TypeOK, SessTypeOK, SafetyInv, LockInv
<1>1. CASE WriteSkip
  BY <1>0, <1>1 DEF WriteSkip, Fetches
<1>2. CASE WriteEnter
  BY <1>2 DEF WriteEnter, MayWrite, Quiet, Fetches
<1>3. CASE \E n \in Nat : pc = "send" /\ Emit(n)
  <2>1. CASE Launch(wb)
    BY <1>0, <2>1 DEF Launch, Fetches
  <2>2. CASE pc' = pc
    BY <1>3, <2>2 DEF Fetches
  <2> QED BY <1>3, <2>1, <2>2 DEF Emit, Leave
<1>4. CASE SendControl \/ SendHeaders \/ SendData
  <2>1. CASE SendControl \/ SendHeaders
    BY <1>3, <2>1 DEF SendControl, SendHeaders
  <2>2. CASE SendData
    <3>1. body \in Nat /\ MaxPayload \in Nat
      BY SizesAssumption DEF Inv, TypeOK, SessTypeOK
    <3>2. PICK i \in data \ stalled : Emit((IF body > MaxPayload THEN MaxPayload ELSE body) + 1)
      BY <2>2 DEF SendData
    <3>3. (IF body > MaxPayload THEN MaxPayload ELSE body) + 1 \in Nat
      BY <3>1
    <3> QED BY <1>3, <2>2, <3>2, <3>3 DEF SendData
  <2> QED BY <1>4, <2>1, <2>2
<1>5. CASE SendNothing
  BY <1>0, <1>5 DEF SendNothing, Launch, Fetches
<1>6. CASE SendNoMem
  BY <1>0, <1>6 DEF SendNoMem, Fetches
<1>7. CASE Submit
  BY <1>7 DEF Submit, Fetches, Quiet, bufVars
<1>8. CASE WriteHandler \/ PingHandler
  BY <1>0, <1>8 DEF WriteHandler, Written, PingHandler, Fetches
<1>9. CASE RecvEnd \/ ConnectOk \/ ReadAgain \/ FirstRead
  BY <1>9 DEF RecvEnd, ConnectOk, ReadAgain, Read, FirstRead, Fetches
<1>10. CASE RecvControl \/ RecvGoAway \/ RecvProtocolError \/ RecvWindow
  BY <1>10 DEF RecvControl, RecvGoAway, RecvProtocolError, RecvWindow, RecvFrame, Fetches
<1>11. CASE \/ ConnectBegin \/ ConnectFail \/ ConnectSkip \/ StartPing \/ SubmitStopped
            \/ SubmitInvalid \/ SubmitRefused \/ SubmitReturn \/ ReadNothing \/ ReadHandler \/ RecvBad
  BY <1>11 DEF ConnectBegin, ConnectFail, ConnectSkip, StartPing, SubmitStopped, SubmitInvalid,
     SubmitRefused, SubmitReturn, ReadNothing, ReadHandler, RecvBad, Fetches
<1> QED BY <1>1, <1>2, <1>4, <1>5, <1>6, <1>7, <1>8, <1>9, <1>10, <1>11 DEF SessionStep

\* The only send() finds the queue empty.
LEMMA SendFirst ==
    ASSUME OneSend, FirstInv, Send
    PROVE  Posted'
<1>1. Unsent
  BY DEF FirstInv, Posted, Connecting, Greeting, Submitting, Send, OneSend
<1>2. PICK m \in Methods : ready' = ready \o <<Handler("connect", "ok"), Handler(m, "ok")>>
  BY DEF Send
<1>3. m \in Fetches
  BY RequestAssumption DEF Fetches
<1>4. ready' = <<Handler("connect", "ok"), Handler(m, "ok")>>
  BY <1>1, <1>2 DEF Unsent
<1>5. Len(ready') = 2 /\ ready'[1].op = "connect" /\ ready'[2].op = m /\ DOMAIN ready' = 1..2
  BY <1>4 DEF Handler
<1>6. NoJobs(3)'
  BY <1>5 DEF NoJobs
<1>7. sends' = 1 /\ pc' = "idle" /\ ~h2'
  BY <1>1 DEF Unsent, Send
<1> QED BY <1>3, <1>5, <1>6, <1>7 DEF Posted

\* The handlers start in the order connect(), fetch(), completions.
LEMMA DispatchFirst ==
    ASSUME SvcTypeOK, FirstInv, Dispatch
    PROVE  FirstInv'
<1>1. /\ pc = "idle" /\ runner /\ ready # <<>> /\ ready' = Tail(ready)
      /\ pc' = HandlerPoint(Head(ready).op)
      /\ UNCHANGED <<lock, stopped, writing, h2, sends>>
  BY DEF Dispatch, bufVars, userVars
<1>2. /\ Head(ready) = ready[1] /\ Len(ready) >= 1 /\ Len(ready') = Len(ready) - 1
      /\ Len(ready) \in Nat
      /\ \A j \in 1..Len(ready') : ready'[j] = ready[j + 1]
      /\ NoJobs(1) => NoJobs(1)' /\ ready[1].op \in OpKinds
      /\ NoJobs(2) => NoJobs(1)'
      /\ NoJobs(3) => NoJobs(2)'
  BY <1>1, TailJobs DEF SvcTypeOK
<1> HIDE DEF NoJobs
<1>3. CASE Unsent
  BY <1>1, <1>3 DEF Unsent
<1>4. CASE Posted
  <2>1. Len(ready') >= 1 /\ ready'[1] = ready[2] /\ Len(ready') \in Nat
    BY <1>2, <1>4 DEF Posted
  <2>2. pc' = "connect"
    BY <1>1, <1>2, <1>4 DEF Posted, HandlerPoint
  <2> QED BY <1>1, <1>2, <1>4, <2>1, <2>2 DEF Posted, Connecting, FetchNext, FirstInv
<1>5. CASE Connecting
  BY <1>1, <1>5 DEF Connecting
<1>6. CASE Greeting
  <2>1. pc' \in Fetches
    BY <1>1, <1>2, <1>6 DEF Greeting, FetchNext, Fetches, HandlerPoint
  <2>2. Quiet'
    BY <1>1, <1>6 DEF Greeting, Quiet
  <2> QED BY <1>1, <1>2, <1>6, <2>1, <2>2 DEF Greeting, FetchNext, Submitting, FirstInv, Fetches
<1>7. CASE Submitting
  <2>1. ready[1].op \in OpKinds /\ NoJobs(1)'
    BY <1>2, <1>7 DEF Submitting
  <2>2. pc' \in {"onRead", "written", "onPing", "onTimer"}
    BY <1>1, <1>2, <2>1 DEF OpKinds, HandlerPoint
  <2> QED BY <1>1, <1>7, <2>1, <2>2 DEF Submitting, FirstInv, Fetches
<1> QED BY <1>3, <1>4, <1>5, <1>6, <1>7 DEF FirstInv

\* Every step keeps it, and it holds at first.
LEMMA NextFirst ==
    ASSUME OneSend, Inv, OpsInv, FirstInv, [Next]_vars
    PROVE  FirstInv'
<1>0. SvcTypeOK
  BY DEF Inv, TypeOK
<1>1. CASE Send
  BY <1>1, SendFirst DEF FirstInv
<1>2. CASE Dispatch
  BY <1>0, <1>2, DispatchFirst
<1>3. CASE UNCHANGED vars
  <2>1. UNCHANGED <<ready, runner, pc, ret, lock, stopped, h2, writing, wb, outq, sends, user>>
    BY <1>3 DEF vars, svcVars, sessVars, bufVars, ngVars, userVars
  <2> QED BY <2>1 DEF FirstInv, Unsent, Posted, Connecting, Greeting, Submitting, FetchNext,
         NoJobs, Quiet, Greeted
<1>4. CASE Next /\ ~Send /\ ~Dispatch /\ Unsent
  BY <1>4 DEF Unsent, Next, IoThread, SessionStep, WriteSkip, WriteEnter, SendControl,
     SendHeaders, SendData, SendNothing, SendNoMem, WriteHandler, ConnectBegin, ConnectFail,
     ConnectOk, ConnectSkip, FirstRead, StartPing, PingHandler, SubmitStopped, SubmitInvalid,
     SubmitRefused, Submit, SubmitReturn, ReadNothing, ReadHandler, RecvControl, RecvGoAway,
     RecvProtocolError, RecvWindow, RecvFrame, RecvBad, RecvEnd, ReadAgain, RunReturn,
     TimerHandler, StreamEnds, StreamRefused, RecvStreamEnd, RefuseHeaders, User, Run,
     AbortService, AbortSession, Environment, WriteSocket, ReadSocket, PingExpires, PeerCloses,
     TimerExpires, Complete
<1>5. CASE Next /\ ~Send /\ ~Dispatch /\ ~Unsent
  <2>1. Grows
    BY <1>5, StepGrows DEF Inv
  <2>2. (FetchNext => FetchNext') /\ (NoJobs(1) => NoJobs(1)')
    BY <1>0, <2>1, GrowthKeeps
  <2> HIDE DEF NoJobs, FetchNext
  <2>3. CASE SessionStep /\ UNCHANGED userVars
    <3>1. sends' = sends
      BY <2>3 DEF userVars
    <3>2. ~Posted
      BY <2>3 DEF Posted, SessionStep, WriteSkip, WriteEnter, SendControl, SendHeaders,
         SendData, SendNothing, SendNoMem, WriteHandler, ConnectBegin, ConnectFail, ConnectOk,
         ConnectSkip, FirstRead, StartPing, PingHandler, SubmitStopped, SubmitInvalid,
         SubmitRefused, Submit, SubmitReturn, ReadNothing, ReadHandler, RecvControl, RecvGoAway,
         RecvProtocolError, RecvWindow, RecvFrame, RecvBad, RecvEnd, ReadAgain
    <3>3. Connecting => Connecting' \/ Greeting'
      BY <2>2, <2>3, <3>1, ConnectFirst DEF Connecting
    <3>4. Greeting => Greeting'
      BY <2>2, <2>3, <3>1, GreetingFirst DEF Greeting
    <3>5. Submitting => Submitting'
      BY <2>2, <2>3, <3>1, SubmitFirst DEF Submitting
    <3> QED BY <1>5, <3>2, <3>3, <3>4, <3>5 DEF FirstInv
  <2>4. CASE TimerHandler
    <3>1. Submitting
      BY <1>5, <2>4 DEF FirstInv, Posted, Connecting, Greeting, TimerHandler
    <3>2. pc' = "idle" /\ sends' = sends
      BY <2>4 DEF TimerHandler
    <3> QED BY <2>2, <3>1, <3>2 DEF Submitting, FirstInv, Fetches
  <2>5. CASE StreamRefused
    <3>1. PICK i \in Streams : RefuseHeaders(i) /\ ReadyCallback(i)
      BY <2>5 DEF StreamRefused
    <3>2. /\ pc = "send" /\ Head(outq).id = i /\ i # 0
          /\ UNCHANGED <<pc, ret, lock, h2, writing, wb, sends>>
      BY <3>1 DEF RefuseHeaders, ReadyCallback, bufVars, Streams
    <3>3. Quiet => Quiet'
      BY <3>1, <3>2, StopFacts DEF ReadyCallback, Abort, Quiet, Inv
    <3>4. Greeted => Greeted'
      BY <3>2 DEF Greeted
    <3>5. CASE Greeting
      BY <2>2, <3>2, <3>3, <3>4, <3>5 DEF Greeting, FirstInv
    <3>6. CASE Submitting
      BY <2>2, <3>2, <3>3, <3>6 DEF Submitting, FirstInv
    <3> QED BY <1>5, <3>2, <3>5, <3>6 DEF FirstInv, Posted, Connecting
  <2>6. CASE StreamEnds
    <3>1. PICK i \in Streams : RecvStreamEnd(i) /\ ReadyCallback(i)
      BY <2>6 DEF StreamEnds
    <3>2. UNCHANGED <<pc, ret, lock, h2, writing, wb, outq, sends>>
      BY <3>1 DEF RecvStreamEnd, ReadyCallback, bufVars
    <3>3. stopped => stopped'
      BY <3>1, StopFacts DEF ReadyCallback, Abort, Inv
    <3> QED BY <1>0, <1>5, <2>1, <3>2, <3>3, FirstFrame
  <2>7. CASE RunReturn \/ Run \/ AbortService \/ AbortSession \/ TimerExpires
             \/ (Environment /\ UNCHANGED userVars)
    <3>1. UNCHANGED <<pc, ret, lock, h2, writing, wb, outq, sends>>
      BY <2>7 DEF RunReturn, Run, AbortService, AbortSession, TimerExpires, Environment,
         WriteSocket, ReadSocket, PingExpires, PeerCloses, sessVars, bufVars, ngVars, userVars
    <3>2. stopped => stopped'
      BY <2>7, StopFacts DEF RunReturn, Run, AbortService, AbortSession, TimerExpires,
         Environment, WriteSocket, ReadSocket, PingExpires, PeerCloses, sessVars, Inv
    <3> QED BY <1>0, <1>5, <2>1, <3>1, <3>2, FirstFrame
  <2> QED BY <1>5, <2>3, <2>4, <2>5, <2>6, <2>7 DEF Next, IoThread, User
<1> QED BY <1>1, <1>2, <1>3, <1>4, <1>5

LEMMA InitFirst == Init => FirstInv
BY DEF Init, SvcInit, SessInit, FirstInv, Unsent

\* With one send() the I/O thread never waits for insideCb, which submit()
\* holds when it calls write().
THEOREM NeverWaitsForItself ==
    ASSUME OneSend
    PROVE  Spec => []NoSelfDeadlock
<1>1. FirstInv => NoSelfDeadlock
  BY DEF FirstInv, Unsent, Posted, Connecting, Greeting, Submitting, NoSelfDeadlock
<1>2. Inv /\ OpsInv /\ FirstInv /\ [Next]_vars => FirstInv'
  BY NextFirst
<1> QED BY <1>1, <1>2, InitFirst, Operations, PTL DEF Spec
=============================================================================
