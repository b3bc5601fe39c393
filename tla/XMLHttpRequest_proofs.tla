------------------------ MODULE XMLHttpRequest_proofs ------------------------
(***************************************************************************)
(* Theorems about XMLHttpRequest, for every value of its constants.        *)
(***************************************************************************)
EXTENDS XMLHttpRequest, SequenceTheorems, TLAPS

-----------------------------------------------------------------------------
(* The blocks and records the buffers are made of                          *)

\* What mem_send returns is a sequence of the n bytes that follow.
LEMMA BlockSeq ==
    ASSUME produced \in Nat, NEW n \in Nat
    PROVE  /\ Block(n) \in Seq(Nat)
           /\ Len(Block(n)) = n
           /\ n > 0 => Block(n)[Len(Block(n))] = produced + n
<1>1. Block(n) \in [1..n -> Nat]
  BY DEF Block
<1>2. Block(n) \in Seq(Nat)
  BY <1>1, SeqDef
<1>3. Len(Block(n)) = n
  BY <1>1, <1>2, LenProperties
<1> QED BY <1>2, <1>3 DEF Block

\* What one async_write_some sends is a sequence of bytes.
LEMMA RecordSeq ==
    ASSUME NEW b \in Seq(Nat), MaxRecord \in Nat
    PROVE  OneRecord(b) \in Seq(Nat)
<1> DEFINE m == IF Len(b) > MaxRecord THEN MaxRecord ELSE Len(b)
<1>1. m \in Int /\ m =< Len(b)
  BY LenProperties
<1>2. \A k \in 1..m : b[k] \in Nat
  BY <1>1, ElementOfSeq
<1>3. SubSeq(b, 1, m) \in Seq(Nat)
  <2> HIDE DEF m
  <2> QED BY <1>1, <1>2, SubSeqProperties
<1> QED BY <1>3 DEF OneRecord

\* The uninitialised buffer.
LEMMA GarbageSeq ==
    ASSUME NEW g \in Nat
    PROVE  [k \in 1..g |-> 0] \in Seq(Nat) /\ Len([k \in 1..g |-> 0]) = g
<1> DEFINE s == [k \in 1..g |-> 0]
<1>1. s \in [1..g -> Nat]
  OBVIOUS
<1>2. s \in Seq(Nat)
  <2> HIDE DEF s
  <2> QED BY <1>1, SeqDef
<1>3. Len(s) = g
  BY <1>2, LenProperties
<1> QED BY <1>2, <1>3
-----------------------------------------------------------------------------
(* Type correctness                                                        *)

\* The records of the two queues.
LEMMA HandlerType ==
    ASSUME NEW k \in OpKinds \cup Jobs, NEW e \in ErrorCodes
    PROVE  Handler(k, e) \in Handlers
BY DEF Handler, Handlers

LEMMA FrameType ==
    ASSUME NEW k \in FrameKinds, NEW i \in 0..MaxSends
    PROVE  Frame(k, i) \in Frames
BY DEF Frame, Frames

LEMMA HeadType ==
    /\ \A h \in Handlers : h.op \in OpKinds \cup Jobs /\ h.ec \in ErrorCodes
    /\ \A f \in Frames : f.k \in FrameKinds /\ f.id \in 0..MaxSends
BY DEF Handlers, Frames

\* Cancelling a timer keeps the queue a queue of handlers.
LEMMA CancelType ==
    ASSUME SvcTypeOK, NEW k \in OpKinds
    PROVE  CancelledReady(k) \in Seq(Handlers)
<1>1. Handler(k, "aborted") \in Handlers
  BY HandlerType DEF ErrorCodes
<1> QED BY <1>1 DEF CancelledReady, SvcTypeOK

\* stop() keeps the service's types and leaves the session stopped.
LEMMA StopType ==
    ASSUME TypeOK, Stop
    PROVE  SvcTypeOK' /\ stopped' \in BOOLEAN
<1>1. CancelledReady("ping") \in Seq(Handlers)
  BY CancelType DEF TypeOK, OpKinds
<1>2. CASE stopped
  BY <1>2 DEF Stop, TypeOK, SvcTypeOK, SessTypeOK, FlagTypeOK, svcVars
<1>3. CASE ~stopped
  BY <1>1, <1>3 DEF Stop, TypeOK, SvcTypeOK, cancelPing, shutdownSocket
<1> QED BY <1>2, <1>3

\* Completing an operation keeps the service's types.
LEMMA CompleteType ==
    ASSUME TypeOK, NEW k \in OpKinds, NEW e \in ErrorCodes, Complete(k, e)
    PROVE  SvcTypeOK'
<1>1. Handler(k, e) \in Handlers
  BY HandlerType
<1> QED BY <1>1 DEF TypeOK, SvcTypeOK, Complete

\* abort() on the I/O thread.
LEMMA AbortType ==
    ASSUME TypeOK, Abort
    PROVE  SvcTypeOK' /\ stopped' \in BOOLEAN /\ aborted' \in BOOLEAN
<1>1. CancelledReady("ping") \in Seq(Handlers)
  BY CancelType DEF TypeOK, OpKinds
<1> QED BY <1>1 DEF TypeOK, SvcTypeOK, Abort, cancelPing

\* The ready callback.
LEMMA CallbackType ==
    ASSUME TypeOK, NEW i \in Streams, ReadyCallback(i)
    PROVE  SvcTypeOK' /\ stopped' \in BOOLEAN /\ answered' \subseteq Streams
           /\ aborted' \in BOOLEAN
<1>1. answered' \subseteq Streams
  BY DEF ReadyCallback, TypeOK
<1>2. CASE HasReadyCb /\ Abort
  BY <1>1, <1>2, AbortType
<1>3. CASE Stop /\ UNCHANGED aborted
  BY <1>1, <1>3, StopType DEF TypeOK
<1>4. CASE UNCHANGED <<stopped, svcVars, aborted>>
  BY <1>1, <1>4 DEF TypeOK, SvcTypeOK, SessTypeOK, FlagTypeOK, svcVars
<1> QED BY <1>2, <1>3, <1>4 DEF ReadyCallback

\* The end of write().
LEMMA LaunchType ==
    ASSUME TypeOK, NEW b, Launch(b)
    PROVE  SvcTypeOK' /\ FlagTypeOK'
<1> USE DEF TypeOK, SessTypeOK, FlagTypeOK
<1>1. CASE b = <<>>
  <2>1. FlagTypeOK'
    BY <1>1 DEF Launch
  <2> QED BY <1>1, <2>1 DEF Launch, SvcTypeOK
<1>2. CASE b # <<>>
  <2>1. FlagTypeOK'
    BY <1>2 DEF Launch, StartWrite
  <2>2. armed' \in [OpKinds -> Nat]
    BY <1>2 DEF Launch, StartWrite, Armed, SvcTypeOK, OpKinds
  <2> QED BY <1>2, <2>1, <2>2 DEF Launch, SvcTypeOK
<1> QED BY <1>1, <1>2

\* One turn of write()'s loop.
LEMMA EmitType ==
    ASSUME TypeOK, NEW n \in Nat, Emit(n)
    PROVE  /\ SvcTypeOK' /\ FlagTypeOK'
           /\ pc' \in Points /\ ret' = ret /\ err' = err
           /\ wb' \in Seq(Nat) /\ pend' \in Seq(Nat) /\ produced' \in Nat
           /\ UNCHANGED <<netVars, boundVars>>
<1> USE DEF TypeOK, SessTypeOK
<1>0. produced' \in Nat /\ Block(n) \in Seq(Nat)
  BY BlockSeq DEF Emit
<1>1. CASE Fits(n)
  <2>1. SvcTypeOK' /\ FlagTypeOK'
    BY <1>1 DEF Emit, SvcTypeOK, svcVars, FlagTypeOK
  <2>2. wb \o Block(n) \in Seq(Nat)
    BY <1>0, ConcatProperties
  <2> QED BY <1>0, <1>1, <2>1, <2>2 DEF Emit, netVars, boundVars
<1>2. CASE ~Fits(n)
  <2>1. Launch(wb) /\ UNCHANGED wb /\ pend' = Block(n)
    BY <1>2 DEF Emit, Leave
  <2>2. SvcTypeOK' /\ FlagTypeOK'
    BY <2>1, LaunchType
  <2> QED BY <1>0, <2>1, <2>2 DEF Launch, Points, netVars, boundVars
<1> QED BY <1>1, <1>2

\* Noting where a request's bytes end.
LEMMA AtType ==
    ASSUME at \in [Streams -> [hdr : Nat, end : Nat]], NEW i \in Streams, NEW n \in Nat
    PROVE  /\ [at EXCEPT ![i].hdr = n] \in [Streams -> [hdr : Nat, end : Nat]]
           /\ [at EXCEPT ![i].end = n] \in [Streams -> [hdr : Nat, end : Nat]]
           /\ [at EXCEPT ![i] = [hdr |-> n, end |-> n]]
                \in [Streams -> [hdr : Nat, end : Nat]]
OBVIOUS

\* TypeOK, but for the service and the session.
UserTypeOK ==
    /\ user \in {"free", "send", "run", "abort"}
    /\ sends \in 0..MaxSends
    /\ answered \subseteq Streams
    /\ aborted \in BOOLEAN
    /\ timedOut \in BOOLEAN

\* The types' three parts, of the next state.
LEMMA TypeParts == TypeOK' <=> SvcTypeOK' /\ SessTypeOK' /\ UserTypeOK'
BY DEF TypeOK, UserTypeOK

\* Every action of the session keeps the types.
LEMMA SessionStepType ==
    ASSUME TypeOK, SessionStep, UNCHANGED userVars
    PROVE  TypeOK'
<1> USE DEF TypeOK, SvcTypeOK, SessTypeOK, svcVars, ngVars, bufVars, netVars, boundVars,
            userVars, Points
<1>1. CASE WriteSkip
  <2>1. FlagTypeOK'
    BY <1>1 DEF WriteSkip, FlagTypeOK
  <2> QED BY <1>1, <2>1 DEF WriteSkip
<1>2. CASE WriteEnter
  <2>1. FlagTypeOK'
    BY <1>2 DEF WriteEnter, TakePending, FlagTypeOK
  <2>2. wb \o pend \in Seq(Nat)
    BY ConcatProperties
  <2> QED BY <1>2, <2>1, <2>2 DEF WriteEnter, TakePending
<1>3. CASE SendControl
  <2>1. Emit(1)
    BY <1>3 DEF SendControl
  <2>2. Tail(outq) \in Seq(Frames)
    BY <1>3, HeadTailProperties DEF SendControl
  <2>3. s0' \in {"none", "open", "closed"}
    BY <1>3 DEF SendControl, BeforeSend0
  <2> QED BY <1>3, <2>1, <2>2, <2>3, EmitType DEF SendControl
<1>4. CASE SendHeaders
  <2>1. Emit(1)
    BY <1>4 DEF SendHeaders
  <2>2. Tail(outq) \in Seq(Frames) /\ Head(outq) \in Frames
    BY <1>4, HeadTailProperties DEF SendHeaders
  <2>3. Head(outq).id \in Streams
    <3> HIDE DEF TypeOK
    <3>1. Head(outq).id \in 0..MaxSends /\ Head(outq).id # 0
      BY <1>4, <2>2, HeadType DEF SendHeaders
    <3> QED BY <3>1, BoundsAssumption DEF Streams
  <2>4. data' \subseteq Streams /\ stalled' \subseteq data' /\ active' \subseteq Streams
    BY <1>4, <2>3 DEF SendHeaders
  <2>5. at' \in [Streams -> [hdr : Nat, end : Nat]]
    <3>1. produced + 1 \in Nat
      OBVIOUS
    <3>2. \/ at' = [at EXCEPT ![Head(outq).id].hdr = produced + 1]
          \/ at' = [at EXCEPT ![Head(outq).id] = [hdr |-> produced + 1, end |-> produced + 1]]
      BY <1>4 DEF SendHeaders
    <3>3. at \in [Streams -> [hdr : Nat, end : Nat]]
      OBVIOUS
    <3> HIDE DEF TypeOK, SvcTypeOK, SessTypeOK
    <3> QED BY <2>3, <3>1, <3>2, <3>3, AtType
  <2>6. /\ SvcTypeOK' /\ FlagTypeOK'
        /\ pc' \in Points /\ ret' = ret /\ err' = err
        /\ wb' \in Seq(Nat) /\ pend' \in Seq(Nat) /\ produced' \in Nat
        /\ UNCHANGED <<netVars, boundVars>>
    <3> HIDE DEF TypeOK, SvcTypeOK, SessTypeOK, Points, netVars, boundVars
    <3> QED BY <2>1, EmitType
  <2>7. outq' = Tail(outq) /\ UNCHANGED <<s0, body, goaway, nsub>>
    BY <1>4 DEF SendHeaders
  <2>8. SessTypeOK'
    <3> HIDE DEF SvcTypeOK, Points
    <3> QED BY <2>2, <2>4, <2>5, <2>6, <2>7
  <2>9. UserTypeOK'
    BY DEF UserTypeOK
  <2> HIDE DEF TypeOK, SvcTypeOK, SessTypeOK
  <2> QED BY <2>6, <2>8, <2>9, TypeParts
<1>5. CASE SendData
  <2> DEFINE n == IF body > MaxPayload THEN MaxPayload ELSE body
  <2>1. PICK i \in data \ stalled :
          /\ body' = body - n
          /\ IF n = 0
             THEN data' = data \ {i} /\ at' = [at EXCEPT ![i].end = produced + 1]
             ELSE UNCHANGED <<data, at>>
          /\ stalled' \in {s \cap data' : s \in {stalled, stalled \cup {i}, data}}
          /\ Emit(n + 1)
    BY <1>5 DEF SendData
  <2>2. n \in Nat /\ body - n \in Nat
    BY SizesAssumption
  <2> HIDE DEF n
  <2>3. body' \in Nat
    BY <2>1, <2>2
  <2>4. data' \subseteq Streams /\ stalled' \subseteq data'
    BY <2>1
  <2>5. at' \in [Streams -> [hdr : Nat, end : Nat]]
    <3>1. produced + 1 \in Nat /\ i \in Streams
      OBVIOUS
    <3>2. at' = at \/ at' = [at EXCEPT ![i].end = produced + 1]
      BY <2>1
    <3>3. at \in [Streams -> [hdr : Nat, end : Nat]]
      OBVIOUS
    <3> HIDE DEF TypeOK, SvcTypeOK, SessTypeOK
    <3> QED BY <3>1, <3>2, <3>3, AtType
  <2>6. /\ SvcTypeOK' /\ FlagTypeOK'
        /\ pc' \in Points /\ ret' = ret /\ err' = err
        /\ wb' \in Seq(Nat) /\ pend' \in Seq(Nat) /\ produced' \in Nat
        /\ UNCHANGED <<netVars, boundVars>>
    <3>1. Emit(n + 1)
      BY <2>1, Zenon
    <3>2. n + 1 \in Nat
      BY <2>2
    <3> HIDE DEF TypeOK, SvcTypeOK, SessTypeOK, Points, netVars, boundVars
    <3> QED BY <3>1, <3>2, EmitType
  <2>7. UNCHANGED <<s0, outq, active, goaway, nsub>>
    BY <1>5 DEF SendData
  <2>8. SessTypeOK'
    <3> HIDE DEF SvcTypeOK, Points
    <3> QED BY <2>3, <2>4, <2>5, <2>6, <2>7
  <2>9. UserTypeOK'
    BY DEF UserTypeOK
  <2> HIDE DEF TypeOK, SvcTypeOK, SessTypeOK
  <2> QED BY <2>6, <2>8, <2>9, TypeParts
<1>6. CASE SendNothing
  <2>1. Launch(wb)
    BY <1>6 DEF SendNothing
  <2>2. SvcTypeOK' /\ FlagTypeOK'
    BY <2>1, LaunchType
  <2> QED BY <1>6, <2>1, <2>2 DEF SendNothing, Launch
<1>7. CASE SendNoMem
  <2>1. SvcTypeOK' /\ stopped' \in BOOLEAN
    BY <1>7, StopType DEF SendNoMem
  <2>2. FlagTypeOK'
    BY <1>7, <2>1 DEF SendNoMem, FlagTypeOK
  <2> QED BY <1>7, <2>1, <2>2 DEF SendNoMem
<1>8. CASE WriteHandler
  <2>1. CASE WriteFailed
    <3>1. SvcTypeOK' /\ stopped' \in BOOLEAN
      BY <1>8, <2>1, StopType DEF WriteHandler
    <3>2. FlagTypeOK'
      BY <1>8, <2>1, <3>1 DEF WriteHandler, FlagTypeOK
    <3> QED BY <1>8, <2>1, <3>1, <3>2 DEF WriteHandler
  <2>2. CASE ~WriteFailed
    <3>1. FlagTypeOK'
      BY <1>8, <2>2 DEF WriteHandler, Written, FlagTypeOK
    <3> QED BY <1>8, <2>2, <3>1 DEF WriteHandler, Written
  <2> QED BY <2>1, <2>2
<1>9. CASE ConnectFail
  <2>1. SvcTypeOK' /\ stopped' \in BOOLEAN
    BY <1>9, StopType DEF ConnectFail
  <2>2. FlagTypeOK'
    BY <1>9, <2>1 DEF ConnectFail, FlagTypeOK
  <2> QED BY <1>9, <2>1, <2>2 DEF ConnectFail
<1>10. CASE ConnectOk
  <2>1. FlagTypeOK'
    BY <1>10 DEF ConnectOk, FlagTypeOK
  <2>2. Frame("magic", 0) \in Frames /\ Frame("settings", 0) \in Frames
    BY FrameType, BoundsAssumption DEF FrameKinds
  <2>3. outq' \in Seq(Frames) /\ pc' \in Points /\ ret' \in {ret, "read0"}
    <3>1. CASE h2
      BY <1>10, <3>1 DEF ConnectOk
    <3>2. CASE ~h2
      <4>1. outq' = <<Frame("magic", 0), Frame("settings", 0)>>
        BY <1>10, <3>2 DEF ConnectOk, Greet
      <4> QED BY <1>10, <2>2, <3>2, <4>1 DEF ConnectOk, Greet
    <3> QED BY <3>1, <3>2
  <2> QED BY <1>10, <2>1, <2>3 DEF ConnectOk
<1>11. CASE ConnectSkip
  <2>1. FlagTypeOK'
    BY <1>11 DEF ConnectSkip, FlagTypeOK
  <2> QED BY <1>11, <2>1 DEF ConnectSkip
<1>12. CASE FirstRead
  <2>1. FlagTypeOK'
    BY <1>12 DEF FirstRead, Read, FlagTypeOK
  <2>2. armed' \in [OpKinds -> Nat]
    BY <1>12 DEF FirstRead, Read, Armed, OpKinds
  <2> QED BY <1>12, <2>1, <2>2 DEF FirstRead, Read
<1>13. CASE StartPing
  <2>1. FlagTypeOK'
    BY <1>13 DEF StartPing, FlagTypeOK
  <2>2. ready' \in Seq(Handlers) /\ armed' \in [OpKinds -> Nat]
    BY <1>13, CancelType DEF StartPing, OpKinds
  <2> QED BY <1>13, <2>1, <2>2 DEF StartPing
<1>14. CASE PingHandler
  <2>1. FlagTypeOK'
    BY <1>14 DEF PingHandler, FlagTypeOK
  <2>2. Frame("ping", 0) \in Frames
    BY FrameType, BoundsAssumption DEF FrameKinds
  <2>3. outq' \in Seq(Frames) /\ pings' \in Nat
    <3>1. CASE stopped \/ err = "aborted"
      BY <1>14, <3>1 DEF PingHandler
    <3>2. CASE ~(stopped \/ err = "aborted")
      <4>1. Append(outq, Frame("ping", 0)) \in Seq(Frames) /\ pings + 1 \in Nat
        BY <2>2
      <4> QED BY <1>14, <3>2, <4>1 DEF PingHandler
    <3> QED BY <3>1, <3>2
  <2> QED BY <1>14, <2>1, <2>3 DEF PingHandler
<1>15. CASE SubmitStopped
  <2>1. FlagTypeOK'
    BY <1>15 DEF SubmitStopped, FlagTypeOK
  <2> QED BY <1>15, <2>1 DEF SubmitStopped
<1>16. CASE SubmitInvalid
  <2>1. SvcTypeOK' /\ stopped' \in BOOLEAN
    BY <1>16, StopType DEF SubmitInvalid
  <2>2. FlagTypeOK'
    BY <1>16, <2>1 DEF SubmitInvalid, FlagTypeOK
  <2> QED BY <1>16, <2>1, <2>2 DEF SubmitInvalid
<1>17. CASE SubmitRefused
  <2>1. FlagTypeOK'
    BY <1>17 DEF SubmitRefused, FlagTypeOK
  <2> QED BY <1>17, <2>1 DEF SubmitRefused
<1>18. CASE Submit
  <2>1. FlagTypeOK'
    BY <1>18 DEF Submit, FlagTypeOK
  <2>2. nsub' \in 0..MaxSends /\ nsub + 1 \in 0..MaxSends
    BY <1>18, BoundsAssumption DEF Submit
  <2>3. Frame(IF pc = "fetch" THEN "get" ELSE "post", nsub + 1) \in Frames
    BY <2>2, FrameType DEF FrameKinds
  <2>4. outq' \in Seq(Frames)
    BY <1>18, <2>3 DEF Submit
  <2> QED BY <1>18, <2>1, <2>2, <2>4 DEF Submit
<1>19. CASE SubmitReturn
  <2>1. FlagTypeOK'
    BY <1>19 DEF SubmitReturn, FlagTypeOK
  <2> QED BY <1>19, <2>1 DEF SubmitReturn
<1>20. CASE ReadNothing
  <2>1. FlagTypeOK'
    BY <1>20 DEF ReadNothing, FlagTypeOK
  <2> QED BY <1>20, <2>1 DEF ReadNothing
<1>21. CASE ReadHandler
  <2>1. FlagTypeOK'
    BY <1>21 DEF ReadHandler, FlagTypeOK
  <2> QED BY <1>21, <2>1 DEF ReadHandler
<1>22. CASE RecvControl
  <2>1. FlagTypeOK'
    BY <1>22 DEF RecvControl, RecvFrame, FlagTypeOK
  <2>2. Frame("ack", 0) \in Frames
    BY FrameType, BoundsAssumption DEF FrameKinds
  <2>3. stalled' \subseteq data'
    BY <1>22 DEF RecvControl, RecvFrame
  <2> QED BY <1>22, <2>1, <2>2, <2>3 DEF RecvControl, RecvFrame
<1>23. CASE RecvGoAway
  <2>1. FlagTypeOK'
    BY <1>23 DEF RecvGoAway, RecvFrame, FlagTypeOK
  <2> QED BY <1>23, <2>1 DEF RecvGoAway, RecvFrame
<1>24. CASE RecvProtocolError
  <2>1. FlagTypeOK'
    BY <1>24 DEF RecvProtocolError, RecvFrame, FlagTypeOK
  <2>2. Frame("goaway", 0) \in Frames
    BY FrameType, BoundsAssumption DEF FrameKinds
  <2> QED BY <1>24, <2>1, <2>2 DEF RecvProtocolError, RecvFrame
<1>25. CASE RecvBad
  <2>1. SvcTypeOK' /\ stopped' \in BOOLEAN
    BY <1>25, StopType DEF RecvBad
  <2>2. FlagTypeOK'
    BY <1>25, <2>1 DEF RecvBad, FlagTypeOK
  <2> QED BY <1>25, <2>1, <2>2 DEF RecvBad
<1>26. CASE RecvEnd
  <2>1. FlagTypeOK'
    BY <1>26 DEF RecvEnd, FlagTypeOK
  <2> QED BY <1>26, <2>1 DEF RecvEnd
<1>27. CASE ReadAgain
  <2>1. CASE shouldStop
    <3>1. SvcTypeOK' /\ stopped' \in BOOLEAN
      BY <1>27, <2>1, StopType DEF ReadAgain
    <3>2. FlagTypeOK'
      BY <1>27, <2>1, <3>1 DEF ReadAgain, FlagTypeOK
    <3> QED BY <1>27, <2>1, <3>1, <3>2 DEF ReadAgain
  <2>2. CASE ~shouldStop
    <3>1. FlagTypeOK'
      BY <1>27, <2>2 DEF ReadAgain, Read, FlagTypeOK
    <3>2. armed' \in [OpKinds -> Nat]
      BY <1>27, <2>2 DEF ReadAgain, Read, Armed, OpKinds
    <3> QED BY <1>27, <2>2, <3>1, <3>2 DEF ReadAgain, Read
  <2> QED BY <2>1, <2>2
<1>28. CASE ConnectBegin
  <2>1. FlagTypeOK'
    BY <1>28 DEF ConnectBegin, FlagTypeOK
  <2> QED BY <1>28, <2>1 DEF ConnectBegin
<1>29. CASE RecvWindow
  <2>1. FlagTypeOK'
    BY <1>29 DEF RecvWindow, FlagTypeOK
  <2>2. stalled' \subseteq data'
    BY <1>29 DEF RecvWindow
  <2> QED BY <1>29, <2>1, <2>2 DEF RecvWindow
<1> QED
  BY <1>1, <1>2, <1>3, <1>4, <1>5, <1>6, <1>7, <1>8, <1>9, <1>10, <1>11, <1>12, <1>13, <1>14, <1>15, <1>16, <1>17, <1>18, <1>19, <1>20, <1>21, <1>22, <1>23, <1>24, <1>25, <1>26, <1>27, <1>28, <1>29
     DEF SessionStep

\* The socket, the ping timer and the peer keep the types.
LEMMA EnvironmentType ==
    ASSUME TypeOK, Environment, UNCHANGED userVars
    PROVE  TypeOK'
<1> USE DEF TypeOK, SessTypeOK, FlagTypeOK, ngVars, bufVars, netVars, boundVars, userVars
<1>1. CASE WriteSocket
  <2>1. SvcTypeOK'
    BY <1>1, CompleteType DEF WriteSocket, OpKinds, ErrorCodes
  <2>2. OneRecord(wb) \in Seq(Nat)
    BY RecordSeq, SizesAssumption
  <2>3. wire \o OneRecord(wb) \in Seq(Nat)
    BY <2>2, ConcatProperties
  <2>4. given \o wb \in Seq(Nat)
    BY ConcatProperties
  <2>5. wire' \in Seq(Nat) /\ given' \in Seq(Nat) /\ peer' \in {"up", "fin", "rst"}
    BY <1>1, <2>3, <2>4 DEF WriteSocket
  <2> QED BY <1>1, <2>1, <2>5 DEF WriteSocket
<1>2. CASE ReadSocket
  <2>1. SvcTypeOK'
    BY <1>2, CompleteType DEF ReadSocket, OpKinds, ErrorCodes
  <2> QED BY <1>2, <2>1 DEF ReadSocket, sessVars
<1>3. CASE PingExpires
  <2>1. SvcTypeOK'
    BY <1>3, CompleteType DEF PingExpires, OpKinds, ErrorCodes
  <2> QED BY <1>3, <2>1 DEF PingExpires, sessVars
<1>4. CASE PeerCloses
  <2>1. peer' \in {"up", "fin", "rst"}
    BY <1>4 DEF PeerCloses
  <2> QED BY <1>4, <2>1 DEF PeerCloses, svcVars, SvcTypeOK
<1> QED BY <1>1, <1>2, <1>3, <1>4 DEF Environment

\* The user's thread keeps the types.
LEMMA UserType ==
    ASSUME TypeOK, User
    PROVE  TypeOK'
<1> USE DEF TypeOK, SessTypeOK, FlagTypeOK, ngVars, bufVars, netVars, boundVars
<1>1. CASE Send
  <2>1. PICK m \in Methods :
          /\ ready' = ready \o <<Handler("connect", "ok"), Handler(m, "ok")>>
          /\ IF m = "fetchWithBody" THEN body' \in Bodies ELSE UNCHANGED body
    BY <1>1 DEF Send
  <2>2. Handler("connect", "ok") \in Handlers /\ Handler(m, "ok") \in Handlers
    <3>1. m \in OpKinds \cup Jobs
      BY RequestAssumption DEF Jobs
    <3> QED BY <3>1, HandlerType DEF Jobs, ErrorCodes
  <2>3. ready \o <<Handler("connect", "ok"), Handler(m, "ok")>> \in Seq(Handlers)
    <3>1. <<Handler("connect", "ok"), Handler(m, "ok")>> \in Seq(Handlers)
      BY <2>2
    <3> QED BY <3>1, ConcatProperties DEF SvcTypeOK
  <2>4. SvcTypeOK'
    BY <1>1, <2>1, <2>3 DEF Send, SvcTypeOK
  <2>5. body' \in Nat
    BY <2>1, RequestAssumption
  <2>6. sends' \in 0..MaxSends
    BY <1>1, BoundsAssumption DEF Send
  <2>7. /\ UNCHANGED <<pc, ret, err, lock, stopped, s0, h2, bufVars, outq, data, stalled,
                       produced, active, goaway, at, nsub, netVars, boundVars, answered, aborted,
                       timedOut>>
        /\ user' = "send"
    BY <1>1 DEF Send
  <2> QED BY <2>4, <2>5, <2>6, <2>7
<1>2. CASE Run
  <2>1. SvcTypeOK'
    BY <1>2 DEF Run, SvcTypeOK
  <2>2. user' \in {"free", "run"}
    BY <1>2 DEF Run
  <2> QED BY <1>2, <2>1, <2>2 DEF Run, sessVars
<1>3. CASE AbortService
  <2>1. SvcTypeOK'
    BY <1>3 DEF AbortService, SvcTypeOK
  <2> QED BY <1>3, <2>1 DEF AbortService, sessVars
<1>4. CASE AbortSession
  <2>1. SvcTypeOK' /\ stopped' \in BOOLEAN
    BY <1>4, StopType DEF AbortSession
  <2> QED BY <1>4, <2>1 DEF AbortSession
<1> QED BY <1>1, <1>2, <1>3, <1>4 DEF User

\* The I/O thread's other steps keep the types.
LEMMA IoThreadType ==
    ASSUME TypeOK, IoThread
    PROVE  TypeOK'
<1> USE DEF TypeOK, SessTypeOK, FlagTypeOK, ngVars, bufVars, netVars, boundVars, userVars
<1>1. CASE SessionStep /\ UNCHANGED userVars
  BY <1>1, SessionStepType
<1>2. CASE Dispatch
  <2>1. Head(ready) \in Handlers /\ Tail(ready) \in Seq(Handlers)
    BY <1>2, HeadTailProperties DEF Dispatch, SvcTypeOK
  <2>2. Head(ready).op \in OpKinds \cup Jobs /\ Head(ready).ec \in ErrorCodes
    BY <2>1, HeadType
  <2>3. HandlerPoint(Head(ready).op) \in Points
    BY <2>2 DEF HandlerPoint, OpKinds, Jobs, Points
  <2>4. SvcTypeOK'
    BY <1>2, <2>1 DEF Dispatch, SvcTypeOK
  <2> QED BY <1>2, <2>2, <2>3, <2>4 DEF Dispatch
<1>3. CASE RunReturn
  <2>1. runner' \in BOOLEAN
    BY <1>3 DEF RunReturn
  <2>2. SvcTypeOK'
    BY <1>3, <2>1 DEF RunReturn, SvcTypeOK
  <2>3. user' \in {user, "free"}
    BY <1>3 DEF RunReturn
  <2> QED BY <1>3, <2>2, <2>3 DEF RunReturn, sessVars
<1>4. CASE TimerHandler
  <2>1. SvcTypeOK' /\ stopped' \in BOOLEAN /\ aborted' \in BOOLEAN
    BY <1>4, AbortType DEF TimerHandler
  <2> QED BY <1>4, <2>1 DEF TimerHandler, Points
<1>5. CASE StreamEnds
  <2>1. PICK i \in Streams : RecvStreamEnd(i) /\ ReadyCallback(i)
    BY <1>5 DEF StreamEnds
  <2>2. /\ SvcTypeOK' /\ stopped' \in BOOLEAN /\ answered' \subseteq Streams
        /\ aborted' \in BOOLEAN
    BY <2>1, CallbackType
  <2>3. UNCHANGED <<user, sends, timedOut>>
    BY <2>1 DEF ReadyCallback
  <2> QED BY <2>1, <2>2, <2>3 DEF RecvStreamEnd
<1>6. CASE StreamRefused
  <2>1. PICK i \in Streams : RefuseHeaders(i) /\ ReadyCallback(i)
    BY <1>6 DEF StreamRefused
  <2>2. /\ SvcTypeOK' /\ stopped' \in BOOLEAN /\ answered' \subseteq Streams
        /\ aborted' \in BOOLEAN
    BY <2>1, CallbackType
  <2>3. UNCHANGED <<user, sends, timedOut>>
    BY <2>1 DEF ReadyCallback
  <2>4. outq' \in Seq(Frames)
    BY <2>1, HeadTailProperties DEF RefuseHeaders
  <2> QED BY <2>1, <2>2, <2>3, <2>4 DEF RefuseHeaders
<1> QED BY <1>1, <1>2, <1>3, <1>4, <1>5, <1>6 DEF IoThread

\* Every step keeps the types.
LEMMA NextType ==
    ASSUME TypeOK, [Next]_vars
    PROVE  TypeOK'
<1>1. CASE TimerExpires
  <2>1. SvcTypeOK'
    BY <1>1, CompleteType DEF TimerExpires, OpKinds, ErrorCodes
  <2> QED BY <1>1, <2>1 DEF TimerExpires, TypeOK, SessTypeOK, FlagTypeOK, sessVars, ngVars,
                            bufVars, netVars, boundVars, userVars
<1>2. CASE UNCHANGED vars
  BY <1>2 DEF vars, svcVars, TypeOK, SvcTypeOK, SessTypeOK, FlagTypeOK, sessVars, ngVars,
              bufVars, netVars, boundVars, userVars
<1> QED BY <1>1, <1>2, IoThreadType, UserType, EnvironmentType DEF Next

\* The initial states are of the right type.
LEMMA InitType == Init => TypeOK
<1> SUFFICES ASSUME Init PROVE TypeOK
  OBVIOUS
<1>1. SvcTypeOK
  <2>1. svcStopped \in BOOLEAN /\ runner \in BOOLEAN
    BY DEF Init, SvcInit
  <2>2. armed \in [OpKinds -> Nat] /\ ready \in Seq(Handlers)
    BY DEF Init, SvcInit
  <2> QED BY <2>1, <2>2 DEF SvcTypeOK
<1>2. wb \in Seq(Nat)
  <2>1. PICK g \in Garbage : wb = [k \in 1..g |-> 0]
    BY DEF Init, SessInit
  <2>2. g \in Nat
    BY SizesAssumption
  <2> QED BY <2>1, <2>2, GarbageSeq
<1>3. FlagTypeOK
  BY DEF Init, SessInit, FlagTypeOK
<1>4. nsub \in 0..MaxSends /\ sends \in 0..MaxSends
  BY BoundsAssumption DEF Init, SessInit
<1>5. at \in [Streams -> [hdr : Nat, end : Nat]]
  BY DEF Init, SessInit
<1>6. aborted \in BOOLEAN /\ timedOut \in BOOLEAN
  BY DEF Init
<1> QED BY <1>1, <1>2, <1>3, <1>4, <1>5, <1>6
        DEF Init, SessInit, TypeOK, SessTypeOK, Points, ErrorCodes

\* Type correctness of the whole system, whatever the sizes and the bounds.
THEOREM TypeCorrect == Spec => []TypeOK
<1>1. Init => TypeOK
  BY InitType
<1>2. TypeOK /\ [Next]_vars => TypeOK'
  BY NextType
<1> QED BY <1>1, <1>2, PTL DEF Spec
=============================================================================
