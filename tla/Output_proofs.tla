---------------------------- MODULE Output_proofs ----------------------------
(***************************************************************************)
(* What write() guarantees, for every buffer size and any number of        *)
(* requests: no output is stranded, the buffer is never overrun, the block *)
(* left with nghttp2 is never stale, and a stopped session has stopped its *)
(* io_service.                                                             *)
(*                                                                         *)
(* None of the properties is inductive.  NoStrandedOutput speaks of the    *)
(* idle thread only; OutputInv says at each point of the thread why waiting *)
(* output will be written, and covers a connect() that finds the session   *)
(* stopped by another thread after it was dispatched.  It rests on LockInv *)
(* (submit() always gets insideCb) and on PendingInv (write() ends its     *)
(* loop with a block left over only when the buffer is not empty).         *)
(***************************************************************************)
EXTENDS XMLHttpRequest_proofs

\* insideCb is held only in the middle of a handler, and write() is entered
\* with it only from submit().
LockInv ==
    /\ lock => pc \in {"write", "send", "recv", "emplace", "blocked"}
    /\ pc = "write" /\ lock => ret = "emplace"

\* The pending block is the last one produced, fits the buffer, and waits only
\* for a write to complete; the loop starts without one.
PendingInv ==
    /\ pc = "send" => pend = <<>>
    /\ pend # <<>> => writing \/ wb = <<>>
    /\ PendingFresh
    /\ Len(pend) =< Cap
    /\ BufferBound

OutputInv ==
    h2 /\ (~stopped \/ pc \in {"connect", "connecting"}) /\ HasOutput
        => writing \/ pc \in {"write", "send", "recv", "blocked"}

\* A session is stopped for as long as its connect() blocks.
ConnectingInv == pc = "connecting" => stopped

SafetyInv == LockInv /\ PendingInv /\ StopStopsService /\ OutputInv

Inv == TypeOK /\ SafetyInv /\ ConnectingInv
-----------------------------------------------------------------------------
\* stop() leaves the session stopped, and the service too unless the session
\* was stopped before.
LEMMA StopFacts ==
    ASSUME TypeOK, Stop
    PROVE  /\ stopped' = TRUE
           /\ svcStopped' = TRUE \/ (stopped /\ svcStopped' = svcStopped)
<1>1. CASE stopped
  BY <1>1 DEF Stop, svcVars, TypeOK, SessTypeOK, FlagTypeOK
<1>2. CASE ~stopped
  BY <1>2 DEF Stop, shutdownSocket
<1> QED BY <1>1, <1>2

\* So it keeps StopStopsService.
LEMMA StopKeeps ==
    ASSUME Inv, Stop, UNCHANGED h2
    PROVE  StopStopsService'
BY StopFacts DEF Inv, SafetyInv, StopStopsService

\* A step that leaves the buffers and nghttp2's output alone keeps PendingInv.
LEMMA PendingFrame ==
    ASSUME PendingInv, UNCHANGED <<bufVars, produced>>, pc' # "send"
    PROVE  PendingInv'
BY DEF PendingInv, PendingFresh, BufferBound, bufVars

\* The end of write(): the buffer is given to the socket if it is not empty.
LEMMA LaunchFacts ==
    ASSUME TypeOK, NEW b, Launch(b)
    PROVE  /\ pc' \notin {"send", "write", "connect", "connecting"} /\ lock' = FALSE
           /\ b # <<>> => writing' = TRUE
           /\ b = <<>> => writing' = writing
           /\ UNCHANGED <<stopped, h2, svcStopped>>
<1>1. pc' = ret /\ ret \in {"idle", "read0", "again", "startPing", "emplace"}
  BY DEF Launch, TypeOK, SessTypeOK
<1>2. lock' = FALSE
  BY DEF Launch
<1>3. (b # <<>> => writing' = TRUE) /\ (b = <<>> => writing' = writing)
  BY DEF Launch, StartWrite
<1> QED BY <1>1, <1>2, <1>3 DEF Launch

\* One turn of the loop with a block that fits an empty buffer.
LEMMA EmitKeeps ==
    ASSUME Inv, pc = "send", NEW n \in Nat, 0 < n, n =< Cap, Emit(n)
    PROVE  /\ LockInv' /\ PendingInv'
           /\ writing' = TRUE \/ pc' = "send"
           /\ pc' # "connecting"
           /\ UNCHANGED <<stopped, h2, svcStopped>>
<1> USE DEF Inv
<1>0. /\ wb \in Seq(Nat) /\ produced \in Nat /\ pend = <<>> /\ produced' = produced + n
      /\ Len(wb) \in Nat /\ Len(wb) =< Cap
  BY DEF TypeOK, SessTypeOK, SafetyInv, PendingInv, Emit, BufferBound
<1>1. /\ Block(n) \in Seq(Nat) /\ Len(Block(n)) = n
      /\ Block(n)[Len(Block(n))] = produced + n
  BY <1>0, BlockSeq
<1>2. CASE Fits(n)
  <2>1. /\ wb' = wb \o Block(n) /\ pend' = <<>>
        /\ UNCHANGED <<pc, lock, ret, stopped, h2, svcStopped>>
    BY <1>0, <1>2 DEF Emit, svcVars
  <2>2. Len(wb') =< Cap
    BY <1>0, <1>1, <1>2, <2>1, ConcatProperties DEF Fits
  <2>3. PendingInv'
    BY <2>1, <2>2, SizesAssumption DEF PendingInv, PendingFresh, BufferBound
  <2>4. LockInv'
    BY <2>1 DEF SafetyInv, LockInv
  <2> QED BY <2>1, <2>3, <2>4
<1>3. CASE ~Fits(n)
  <2>1. Launch(wb) /\ pend' = Block(n) /\ wb' = wb
    BY <1>3 DEF Emit, Leave
  <2>2. wb # <<>>
    BY <1>0, <1>3, SizesAssumption DEF Fits
  <2>3. writing' = TRUE /\ pc' \notin {"send", "write", "connecting"} /\ lock' = FALSE
        /\ UNCHANGED <<stopped, h2, svcStopped>>
    BY <2>1, <2>2, LaunchFacts
  <2>4. PendingInv'
    BY <1>0, <1>1, <2>1, <2>3 DEF PendingInv, PendingFresh, BufferBound
  <2>5. LockInv'
    BY <2>3 DEF LockInv
  <2> QED BY <2>3, <2>4, <2>5
<1> QED BY <1>2, <1>3

\* Every action of the session keeps the invariant.
LEMMA SessionStepKeeps ==
    ASSUME Inv, SessionStep
    PROVE  SafetyInv'
<1> USE DEF Inv, SafetyInv
<1>1. CASE WriteSkip
  <2>0. pc' = ret /\ ret \in {"idle", "read0", "again", "startPing", "emplace"}
    BY <1>1 DEF WriteSkip, TypeOK, SessTypeOK
  <2>1. LockInv'
    BY <1>1, <2>0 DEF WriteSkip, LockInv
  <2>2. PendingInv'
    BY <1>1, <2>0, PendingFrame DEF WriteSkip, ngVars, bufVars
  <2>3. StopStopsService'
    BY <1>1, <2>0 DEF WriteSkip, StopStopsService, svcVars
  <2>4. OutputInv'
    BY <1>1, <2>0 DEF WriteSkip, MayWrite, OutputInv, HasOutput, ngVars, bufVars
  <2> QED BY <2>1, <2>2, <2>3, <2>4
<1>2. CASE WriteEnter
  <2>1. LockInv'
    BY <1>2 DEF WriteEnter, LockInv
  <2>2. PendingInv'
    <3>1. wb \in Seq(Nat) /\ pend \in Seq(Nat) /\ (pend = <<>> \/ wb = <<>>)
      BY <1>2 DEF WriteEnter, MayWrite, PendingInv, TypeOK, SessTypeOK
    <3>2. Len(wb \o pend) =< Cap
      BY <3>1, ConcatEmptySeq DEF PendingInv, BufferBound
    <3> QED BY <1>2, <3>2, SizesAssumption
            DEF WriteEnter, TakePending, PendingInv, PendingFresh, BufferBound
  <2>3. StopStopsService'
    BY <1>2 DEF WriteEnter, StopStopsService, svcVars
  <2>4. OutputInv'
    BY <1>2 DEF WriteEnter, OutputInv
  <2> QED BY <2>1, <2>2, <2>3, <2>4
<1>3. CASE SendControl
  <2>1. Emit(1) /\ 1 =< Cap
    BY <1>3, SizesAssumption DEF SendControl
  <2>2. /\ LockInv' /\ PendingInv'
        /\ writing' = TRUE \/ pc' = "send"
        /\ UNCHANGED <<stopped, h2, svcStopped>>
    <3>1. pc = "send" /\ Inv
      BY <1>3 DEF SendControl
    <3>2. 1 \in Nat /\ 0 < 1
      OBVIOUS
    <3> HIDE DEF Inv, SafetyInv
    <3> QED BY <2>1, <3>1, <3>2, EmitKeeps
  <2>3. StopStopsService' /\ OutputInv'
    BY <2>2 DEF StopStopsService, OutputInv
  <2> QED BY <2>2, <2>3
<1>4. CASE SendHeaders
  <2>1. Emit(1) /\ 1 =< Cap
    BY <1>4, SizesAssumption DEF SendHeaders
  <2>2. /\ LockInv' /\ PendingInv'
        /\ writing' = TRUE \/ pc' = "send"
        /\ UNCHANGED <<stopped, h2, svcStopped>>
    <3>1. pc = "send" /\ Inv
      BY <1>4 DEF SendHeaders
    <3>2. 1 \in Nat /\ 0 < 1
      OBVIOUS
    <3> HIDE DEF Inv, SafetyInv
    <3> QED BY <2>1, <3>1, <3>2, EmitKeeps
  <2>3. StopStopsService' /\ OutputInv'
    BY <2>2 DEF StopStopsService, OutputInv
  <2> QED BY <2>2, <2>3
<1>5. CASE SendData
  <2> DEFINE n == IF body > MaxPayload THEN MaxPayload ELSE body
  <2>1. Emit(n + 1)
    BY <1>5 DEF SendData
  <2>2. n + 1 \in Nat /\ 0 < n + 1 /\ n + 1 =< Cap
    BY SizesAssumption DEF TypeOK, SessTypeOK
  <2> HIDE DEF n
  <2>3. /\ LockInv' /\ PendingInv'
        /\ writing' = TRUE \/ pc' = "send"
        /\ UNCHANGED <<stopped, h2, svcStopped>>
    BY <1>5, <2>1, <2>2, EmitKeeps DEF SendData, Inv, SafetyInv
  <2>4. StopStopsService' /\ OutputInv'
    BY <2>3 DEF StopStopsService, OutputInv
  <2> QED BY <2>3, <2>4
<1>6. CASE SendNothing
  <2>1. Launch(wb) /\ UNCHANGED <<wb, pend, produced, outq, data>> /\ pend = <<>>
        /\ outq = <<>> /\ data \ stalled = {} /\ stalled' = stalled
    BY <1>6 DEF SendNothing, PendingInv, ngVars
  <2>2. pc' \notin {"send", "write"} /\ lock' = FALSE
        /\ UNCHANGED <<stopped, h2, svcStopped>>
    BY <2>1, LaunchFacts
  <2>3. LockInv'
    BY <2>2 DEF LockInv
  <2>4. PendingInv'
    BY <2>1, <2>2 DEF PendingInv, PendingFresh, BufferBound
  <2>5. StopStopsService' /\ OutputInv'
    BY <2>1, <2>2 DEF StopStopsService, OutputInv, HasOutput
  <2> QED BY <2>3, <2>4, <2>5
<1>7. CASE SendNoMem
  <2>0. stopped' = TRUE /\ pc' \notin {"connect", "connecting", "send"}
    BY <1>7, StopFacts DEF SendNoMem, TypeOK, SessTypeOK
  <2>1. LockInv'
    BY <1>7 DEF SendNoMem, LockInv
  <2>2. PendingInv'
    BY <1>7, <2>0, PendingFrame DEF SendNoMem, ngVars, bufVars
  <2>3. StopStopsService'
    BY <1>7, StopKeeps DEF SendNoMem
  <2>4. OutputInv'
    BY <1>7, <2>0 DEF SendNoMem, OutputInv
  <2> QED BY <2>1, <2>2, <2>3, <2>4
<1>8. CASE WriteHandler
  <2>1. LockInv'
    BY <1>8 DEF WriteHandler, Written, LockInv
  <2>2. CASE WriteFailed
    <3>1. Stop /\ pc' = "idle" /\ UNCHANGED <<wb, writing, pend, produced, h2>>
      BY <1>8, <2>2 DEF WriteHandler, ngVars
    <3>2. PendingInv'
      BY <3>1, PendingFrame DEF bufVars
    <3>3. OutputInv'
      BY <3>1, StopFacts DEF OutputInv
    <3> QED BY <2>1, <3>1, <3>2, <3>3, StopKeeps
  <2>3. CASE ~WriteFailed
    <3>1. PendingInv'
      BY <1>8, <2>3, SizesAssumption
         DEF WriteHandler, Written, PendingInv, PendingFresh, BufferBound, ngVars
    <3>2. StopStopsService' /\ OutputInv'
      BY <1>8, <2>3 DEF WriteHandler, Written, StopStopsService, OutputInv, svcVars
    <3> QED BY <2>1, <3>1, <3>2
  <2> QED BY <2>2, <2>3
<1>9. CASE ConnectFail
  <2>0. stopped' = TRUE /\ pc' \notin {"connect", "connecting", "send"}
    BY <1>9, StopFacts DEF ConnectFail, TypeOK, SessTypeOK
  <2>1. LockInv'
    BY <1>9 DEF ConnectFail, LockInv
  <2>2. PendingInv'
    BY <1>9, PendingFrame DEF ConnectFail, ngVars, bufVars
  <2>3. StopStopsService'
    BY <1>9, StopKeeps DEF ConnectFail
  <2>4. OutputInv'
    BY <1>9, <2>0 DEF ConnectFail, OutputInv
  <2> QED BY <2>1, <2>2, <2>3, <2>4
<1>10. CASE ConnectOk
  <2>1. LockInv'
    BY <1>10 DEF ConnectOk, Greet, LockInv
  <2>2. PendingInv'
    BY <1>10, PendingFrame DEF ConnectOk, Greet, bufVars
  <2>3. StopStopsService'
    BY <1>10 DEF ConnectOk, StopStopsService
  <2>4. OutputInv'
    <3>1. CASE h2
      BY <1>10, <3>1 DEF ConnectOk, OutputInv, HasOutput, bufVars
    <3>2. CASE ~h2
      BY <1>10, <3>2 DEF ConnectOk, Greet, OutputInv
    <3> QED BY <3>1, <3>2
  <2> QED BY <2>1, <2>2, <2>3, <2>4
<1>11. CASE ConnectSkip
  <2>1. LockInv'
    BY <1>11 DEF ConnectSkip, LockInv
  <2>2. PendingInv'
    BY <1>11, PendingFrame DEF ConnectSkip, ngVars, bufVars
  <2>3. StopStopsService'
    BY <1>11 DEF ConnectSkip, StopStopsService, svcVars
  <2>4. OutputInv'
    BY <1>11 DEF ConnectSkip, OutputInv, HasOutput, ngVars, bufVars
  <2> QED BY <2>1, <2>2, <2>3, <2>4
<1>12. CASE FirstRead
  <2>1. LockInv'
    BY <1>12 DEF FirstRead, Read, LockInv
  <2>2. PendingInv'
    BY <1>12, PendingFrame DEF FirstRead, Read, ngVars, bufVars
  <2>3. StopStopsService'
    BY <1>12 DEF FirstRead, Read, StopStopsService, svcVars
  <2>4. OutputInv'
    BY <1>12 DEF FirstRead, Read, OutputInv, HasOutput, ngVars, bufVars
  <2> QED BY <2>1, <2>2, <2>3, <2>4
<1>13. CASE StartPing
  <2>1. LockInv'
    BY <1>13 DEF StartPing, LockInv
  <2>2. PendingInv'
    BY <1>13, PendingFrame DEF StartPing, ngVars, bufVars
  <2>3. StopStopsService'
    BY <1>13 DEF StartPing, StopStopsService, svcVars
  <2>4. OutputInv'
    BY <1>13 DEF StartPing, OutputInv, HasOutput, ngVars, bufVars
  <2> QED BY <2>1, <2>2, <2>3, <2>4
<1>14. CASE PingHandler
  <2>1. LockInv'
    BY <1>14 DEF PingHandler, LockInv
  <2>2. PendingInv'
    BY <1>14, PendingFrame DEF PingHandler, ngVars, bufVars
  <2>3. StopStopsService'
    BY <1>14 DEF PingHandler, StopStopsService, svcVars
  <2>4. OutputInv'
    BY <1>14 DEF PingHandler, OutputInv, HasOutput, ngVars, bufVars
  <2> QED BY <2>1, <2>2, <2>3, <2>4
<1>15. CASE SubmitStopped
  <2>1. LockInv'
    BY <1>15 DEF SubmitStopped, LockInv
  <2>2. PendingInv'
    BY <1>15, PendingFrame DEF SubmitStopped, ngVars, bufVars
  <2>3. StopStopsService'
    BY <1>15 DEF SubmitStopped, StopStopsService, svcVars
  <2>4. OutputInv'
    BY <1>15 DEF SubmitStopped, OutputInv, HasOutput, ngVars, bufVars
  <2> QED BY <2>1, <2>2, <2>3, <2>4
<1>16. CASE SubmitInvalid
  <2>0. stopped' = TRUE /\ pc' \notin {"connect", "connecting", "send"}
    BY <1>16, StopFacts DEF SubmitInvalid, TypeOK, SessTypeOK
  <2>1. LockInv'
    BY <1>16 DEF SubmitInvalid, LockInv
  <2>2. PendingInv'
    BY <1>16, PendingFrame DEF SubmitInvalid, ngVars, bufVars
  <2>3. StopStopsService'
    BY <1>16, StopKeeps DEF SubmitInvalid
  <2>4. OutputInv'
    BY <1>16, <2>0 DEF SubmitInvalid, OutputInv
  <2> QED BY <2>1, <2>2, <2>3, <2>4
<1>17. CASE SubmitRefused
  <2>1. LockInv'
    BY <1>17 DEF SubmitRefused, LockInv
  <2>2. PendingInv'
    BY <1>17, PendingFrame DEF SubmitRefused, ngVars, bufVars
  <2>3. StopStopsService'
    BY <1>17 DEF SubmitRefused, StopStopsService, svcVars
  <2>4. OutputInv'
    BY <1>17 DEF SubmitRefused, OutputInv, HasOutput, ngVars, bufVars
  <2> QED BY <2>1, <2>2, <2>3, <2>4
<1>18. CASE Submit
  <2>1. LockInv'
    BY <1>18 DEF Submit, LockInv
  <2>2. PendingInv'
    BY <1>18, PendingFrame DEF Submit, ngVars, bufVars
  <2>3. StopStopsService'
    BY <1>18 DEF Submit, StopStopsService, svcVars
  <2>4. OutputInv'
    <3>1. ~lock
      BY <1>18 DEF Submit, LockInv
    <3> QED BY <1>18, <3>1 DEF Submit, OutputInv
  <2> QED BY <2>1, <2>2, <2>3, <2>4
<1>19. CASE SubmitReturn
  <2>1. LockInv'
    BY <1>19 DEF SubmitReturn, LockInv
  <2>2. PendingInv'
    BY <1>19, PendingFrame DEF SubmitReturn, ngVars, bufVars
  <2>3. StopStopsService'
    BY <1>19 DEF SubmitReturn, StopStopsService, svcVars
  <2>4. OutputInv'
    BY <1>19 DEF SubmitReturn, OutputInv, HasOutput, ngVars, bufVars
  <2> QED BY <2>1, <2>2, <2>3, <2>4
<1>20. CASE ReadNothing
  <2>1. LockInv'
    BY <1>20 DEF ReadNothing, LockInv
  <2>2. PendingInv'
    BY <1>20, PendingFrame DEF ReadNothing, ngVars, bufVars
  <2>3. StopStopsService'
    BY <1>20 DEF ReadNothing, StopStopsService, svcVars
  <2>4. OutputInv'
    BY <1>20 DEF ReadNothing, OutputInv, HasOutput, ngVars, bufVars
  <2> QED BY <2>1, <2>2, <2>3, <2>4
<1>21. CASE ReadHandler
  <2>1. LockInv'
    BY <1>21 DEF ReadHandler, LockInv
  <2>2. PendingInv'
    BY <1>21, PendingFrame DEF ReadHandler, ngVars, bufVars
  <2>3. StopStopsService'
    BY <1>21 DEF ReadHandler, StopStopsService, svcVars
  <2>4. OutputInv'
    BY <1>21 DEF ReadHandler, OutputInv, HasOutput, ngVars, bufVars
  <2> QED BY <2>1, <2>2, <2>3, <2>4
<1>22. CASE RecvControl
  <2>1. LockInv'
    BY <1>22 DEF RecvControl, RecvFrame, LockInv
  <2>2. PendingInv'
    BY <1>22 DEF RecvControl, RecvFrame, bufVars, PendingInv, PendingFresh, BufferBound
  <2>3. StopStopsService'
    BY <1>22 DEF RecvControl, RecvFrame, StopStopsService, svcVars
  <2>4. OutputInv'
    BY <1>22 DEF RecvControl, RecvFrame, OutputInv, HasOutput, ngVars, bufVars
  <2> QED BY <2>1, <2>2, <2>3, <2>4
<1>23. CASE RecvGoAway
  <2>1. LockInv'
    BY <1>23 DEF RecvGoAway, RecvFrame, LockInv
  <2>2. PendingInv'
    BY <1>23 DEF RecvGoAway, RecvFrame, bufVars, PendingInv, PendingFresh, BufferBound
  <2>3. StopStopsService'
    BY <1>23 DEF RecvGoAway, RecvFrame, StopStopsService, svcVars
  <2>4. OutputInv'
    BY <1>23 DEF RecvGoAway, RecvFrame, OutputInv, HasOutput, ngVars, bufVars
  <2> QED BY <2>1, <2>2, <2>3, <2>4
<1>24. CASE RecvProtocolError
  <2>1. LockInv'
    BY <1>24 DEF RecvProtocolError, RecvFrame, LockInv
  <2>2. PendingInv'
    BY <1>24 DEF RecvProtocolError, RecvFrame, bufVars, PendingInv, PendingFresh, BufferBound
  <2>3. StopStopsService'
    BY <1>24 DEF RecvProtocolError, RecvFrame, StopStopsService, svcVars
  <2>4. OutputInv'
    BY <1>24 DEF RecvProtocolError, RecvFrame, OutputInv, HasOutput, ngVars, bufVars
  <2> QED BY <2>1, <2>2, <2>3, <2>4
<1>25. CASE RecvBad
  <2>0. stopped' = TRUE /\ pc' \notin {"connect", "connecting", "send"}
    BY <1>25, StopFacts DEF RecvBad, TypeOK, SessTypeOK
  <2>1. LockInv'
    BY <1>25 DEF RecvBad, LockInv
  <2>2. PendingInv'
    BY <1>25, PendingFrame DEF RecvBad, ngVars, bufVars
  <2>3. StopStopsService'
    BY <1>25, StopKeeps DEF RecvBad
  <2>4. OutputInv'
    BY <1>25, <2>0 DEF RecvBad, OutputInv
  <2> QED BY <2>1, <2>2, <2>3, <2>4
<1>26. CASE RecvEnd
  <2>1. LockInv'
    BY <1>26 DEF RecvEnd, LockInv
  <2>2. PendingInv'
    BY <1>26, PendingFrame DEF RecvEnd, ngVars, bufVars
  <2>3. StopStopsService'
    BY <1>26 DEF RecvEnd, StopStopsService, svcVars
  <2>4. OutputInv'
    BY <1>26 DEF RecvEnd, OutputInv, HasOutput, ngVars, bufVars
  <2> QED BY <2>1, <2>2, <2>3, <2>4
<1>27. CASE ReadAgain
  <2>1. LockInv'
    BY <1>27 DEF ReadAgain, Read, LockInv
  <2>2. PendingInv'
    BY <1>27, PendingFrame DEF ReadAgain, Read, ngVars
  <2>3. CASE shouldStop
    <3>1. Stop /\ pc' = "idle" /\ UNCHANGED h2
      BY <1>27, <2>3 DEF ReadAgain
    <3>2. OutputInv'
      BY <3>1, StopFacts DEF OutputInv
    <3> QED BY <2>1, <2>2, <3>1, <3>2, StopKeeps
  <2>4. CASE ~shouldStop
    <3>1. StopStopsService' /\ OutputInv'
      BY <1>27, <2>4 DEF ReadAgain, Read, StopStopsService, OutputInv, HasOutput, ngVars, bufVars
    <3> QED BY <2>1, <2>2, <3>1
  <2> QED BY <2>3, <2>4
<1>28. CASE ConnectBegin
  <2>1. LockInv'
    BY <1>28 DEF ConnectBegin, LockInv
  <2>2. PendingInv'
    BY <1>28, PendingFrame DEF ConnectBegin, ngVars, bufVars
  <2>3. StopStopsService'
    BY <1>28 DEF ConnectBegin, StopStopsService, svcVars
  <2>4. OutputInv'
    BY <1>28 DEF ConnectBegin, OutputInv, HasOutput, ngVars, bufVars
  <2> QED BY <2>1, <2>2, <2>3, <2>4
<1>29. CASE RecvWindow
  <2>1. LockInv'
    BY <1>29 DEF RecvWindow, LockInv
  <2>2. PendingInv'
    BY <1>29 DEF RecvWindow, bufVars, PendingInv, PendingFresh, BufferBound
  <2>3. StopStopsService'
    BY <1>29 DEF RecvWindow, StopStopsService, svcVars
  <2>4. OutputInv'
    BY <1>29 DEF RecvWindow, OutputInv
  <2> QED BY <2>1, <2>2, <2>3, <2>4
<1> QED
  BY <1>1, <1>2, <1>3, <1>4, <1>5, <1>6, <1>7, <1>8, <1>9, <1>10, <1>11, <1>12, <1>13, <1>14, <1>15, <1>16, <1>17, <1>18, <1>19, <1>20, <1>21, <1>22, <1>23, <1>24, <1>25, <1>26, <1>27, <1>28, <1>29
     DEF SessionStep

\* The socket, the ping timer and the peer change nothing the invariant names.
LEMMA EnvironmentKeeps ==
    ASSUME Inv, Environment
    PROVE  SafetyInv'
<1> USE DEF Inv, SafetyInv
<1>1. UNCHANGED <<pc, ret, lock, stopped, h2, svcStopped, writing, wb, pend, produced,
                  outq, data, stalled>>
  BY DEF Environment, WriteSocket, ReadSocket, PingExpires, PeerCloses, Complete, sessVars,
         bufVars, ngVars, svcVars
<1> QED BY <1>1 DEF LockInv, PendingInv, PendingFresh, BufferBound, StopStopsService,
                    OutputInv, HasOutput

\* Neither does send(); abort() stops the service before the session.
LEMMA UserKeeps ==
    ASSUME Inv, User
    PROVE  SafetyInv'
<1> USE DEF Inv, SafetyInv
<1>1. UNCHANGED <<pc, ret, lock, h2, writing, wb, pend, produced, outq, data, stalled>>
  BY DEF User, Send, Run, AbortService, AbortSession, sessVars, bufVars, ngVars
<1>2. LockInv' /\ PendingInv'
  BY <1>1 DEF LockInv, PendingInv, PendingFresh, BufferBound
<1>3. CASE AbortSession
  <2>1. Stop
    BY <1>3 DEF AbortSession
  <2>2. StopStopsService'
    BY <1>1, <2>1, StopKeeps
  <2>3. OutputInv'
    BY <1>1, <2>1, StopFacts DEF OutputInv, HasOutput
  <2> QED BY <1>2, <2>2, <2>3
<1>4. CASE Send \/ Run \/ AbortService
  <2>1. stopped' = stopped /\ (svcStopped' = svcStopped \/ svcStopped' = TRUE)
    BY <1>4 DEF Send, Run, AbortService, sessVars
  <2>2. StopStopsService' /\ OutputInv'
    BY <1>1, <2>1 DEF StopStopsService, OutputInv, HasOutput
  <2> QED BY <1>2, <2>2
<1> QED BY <1>3, <1>4 DEF User

\* The ready callback either changes nothing, or stops or aborts.
LEMMA CallbackFacts ==
    ASSUME TypeOK, NEW i \in Streams, ReadyCallback(i)
    PROVE  \/ stopped' = stopped /\ svcStopped' = svcStopped
           \/ stopped' = TRUE /\ (svcStopped' = TRUE \/ (stopped /\ svcStopped' = svcStopped))
<1>1. CASE HasReadyCb /\ Abort
  BY <1>1 DEF Abort
<1>2. CASE Stop
  BY <1>2, StopFacts
<1>3. CASE UNCHANGED <<stopped, svcVars>>
  BY <1>3 DEF svcVars
<1> QED BY <1>1, <1>2, <1>3 DEF ReadyCallback

\* The I/O thread's other steps keep the invariant.
LEMMA IoThreadKeeps ==
    ASSUME Inv, IoThread
    PROVE  SafetyInv'
<1> USE DEF Inv, SafetyInv
<1>1. CASE SessionStep /\ UNCHANGED userVars
  BY <1>1, SessionStepKeeps
<1>2. CASE Dispatch
  <2>1. Head(ready).op \in OpKinds \cup Jobs
    BY <1>2, HeadTailProperties, HeadType DEF Dispatch, TypeOK, SvcTypeOK
  <2>2. pc' \notin {"idle", "write", "send", "recv", "emplace", "blocked"}
    BY <1>2, <2>1 DEF Dispatch, HandlerPoint, OpKinds, Jobs
  <2>3. LockInv'
    BY <1>2, <2>2 DEF Dispatch, LockInv
  <2>4. PendingInv'
    BY <1>2, <2>2, PendingFrame DEF Dispatch, ngVars
  <2>5. StopStopsService'
    BY <1>2 DEF Dispatch, StopStopsService
  <2>6. OutputInv'
    BY <1>2 DEF Dispatch, OutputInv, StopStopsService, HasOutput, ngVars, bufVars
  <2> QED BY <2>3, <2>4, <2>5, <2>6
<1>3. CASE RunReturn
  <2>1. UNCHANGED <<pc, ret, lock, stopped, h2, writing, wb, pend, produced, outq, data,
                    stalled>>
        /\ svcStopped' = TRUE
    BY <1>3 DEF RunReturn, sessVars, bufVars, ngVars
  <2> QED BY <2>1 DEF LockInv, PendingInv, PendingFresh, BufferBound, StopStopsService,
                      OutputInv, HasOutput
<1>4. CASE TimerHandler
  <2>1. /\ UNCHANGED <<lock, h2, bufVars, produced>> /\ pc' = "idle"
        /\ svcStopped' = TRUE /\ stopped' = TRUE
    BY <1>4 DEF TimerHandler, Abort, ngVars
  <2>2. LockInv'
    BY <1>4, <2>1 DEF TimerHandler, LockInv
  <2>3. PendingInv'
    BY <2>1, PendingFrame
  <2> QED BY <2>1, <2>2, <2>3 DEF StopStopsService, OutputInv
<1>5. CASE StreamEnds
  <2>1. PICK i \in Streams : RecvStreamEnd(i) /\ ReadyCallback(i)
    BY <1>5 DEF StreamEnds
  <2>2. UNCHANGED <<pc, ret, lock, h2, writing, wb, pend, produced>> /\ pc = "recv"
    BY <2>1 DEF RecvStreamEnd, bufVars
  <2>3. LockInv' /\ PendingInv' /\ OutputInv'
    BY <2>2 DEF LockInv, PendingInv, PendingFresh, BufferBound, OutputInv
  <2>4. StopStopsService'
    BY <2>1, <2>2, CallbackFacts DEF StopStopsService
  <2> QED BY <2>3, <2>4
<1>6. CASE StreamRefused
  <2>1. PICK i \in Streams : RefuseHeaders(i) /\ ReadyCallback(i)
    BY <1>6 DEF StreamRefused
  <2>2. UNCHANGED <<pc, ret, lock, h2, writing, wb, pend, produced>> /\ pc = "send"
    BY <2>1 DEF RefuseHeaders, bufVars
  <2>3. LockInv' /\ PendingInv' /\ OutputInv'
    BY <2>2 DEF LockInv, PendingInv, PendingFresh, BufferBound, OutputInv
  <2>4. StopStopsService'
    BY <2>1, <2>2, CallbackFacts DEF StopStopsService
  <2> QED BY <2>3, <2>4
<1> QED BY <1>1, <1>2, <1>3, <1>4, <1>5, <1>6 DEF IoThread

\* Only connect() that succeeds starts a session, and then it blocks no more.
LEMMA ConnectingKeeps ==
    ASSUME Inv, [Next]_vars
    PROVE  ConnectingInv'
<1> SUFFICES ASSUME pc' = "connecting" PROVE stopped'
  BY DEF ConnectingInv
<1>1. stopped \in BOOLEAN /\ TypeOK
  BY DEF Inv, TypeOK, SessTypeOK, FlagTypeOK
<1>2. pc = "connecting" => stopped
  BY DEF Inv, ConnectingInv
<1>3. CASE SessionStep
  <2>1. ~(SendControl \/ SendHeaders \/ SendData)
    <3>1. SendControl \/ SendHeaders \/ SendData
            => pc = "send" /\ \E n \in Nat : 0 < n /\ n =< Cap /\ Emit(n)
      <4>1. SendControl \/ SendHeaders => pc = "send" /\ Emit(1)
        BY DEF SendControl, SendHeaders
      <4>2. ASSUME SendData
            PROVE  pc = "send" /\ \E n \in Nat : 0 < n /\ n =< Cap /\ Emit(n)
        <5> DEFINE n == IF body > MaxPayload THEN MaxPayload ELSE body
        <5>1. pc = "send" /\ Emit(n + 1)
          BY <4>2 DEF SendData
        <5>2. n + 1 \in Nat /\ 0 < n + 1 /\ n + 1 =< Cap
          BY <1>1, SizesAssumption DEF TypeOK, SessTypeOK
        <5> HIDE DEF n
        <5> QED BY <5>1, <5>2
      <4>3. 1 \in Nat /\ 0 < 1 /\ 1 =< Cap
        BY SizesAssumption
      <4> QED BY <4>1, <4>2, <4>3
    <3>2. pc' = "connecting"
      OBVIOUS
    <3> QED BY <3>1, <3>2, EmitKeeps
  <2>2. ret # "connecting"
    BY <1>1 DEF TypeOK, SessTypeOK
  <2>3. ~SendNothing
    BY <1>1, LaunchFacts DEF SendNothing
  <2>4. CASE ConnectBegin
    BY <2>4 DEF ConnectBegin
  <2> QED BY <1>3, <2>1, <2>2, <2>3, <2>4
          DEF SessionStep, WriteSkip, WriteEnter, SendNoMem, WriteHandler, Written,
              ConnectFail, ConnectOk, Greet, ConnectSkip, FirstRead, Read, StartPing,
              PingHandler, SubmitStopped, SubmitInvalid, SubmitRefused, Submit,
              SubmitReturn, ReadNothing, ReadHandler, RecvFrame, RecvControl, RecvGoAway,
              RecvProtocolError, RecvWindow, RecvBad, RecvEnd, ReadAgain
<1>4. CASE Dispatch
  <2>1. Head(ready).op \in OpKinds \cup Jobs
    BY <1>1, <1>4, HeadTailProperties, HeadType DEF Dispatch, TypeOK, SvcTypeOK
  <2> QED BY <1>4, <2>1 DEF Dispatch, HandlerPoint, OpKinds, Jobs
<1>5. CASE RunReturn \/ TimerHandler
  BY <1>1, <1>2, <1>5 DEF RunReturn, TimerHandler, sessVars
<1>6. CASE StreamEnds \/ StreamRefused
  BY <1>6 DEF StreamEnds, StreamRefused, RecvStreamEnd, RefuseHeaders
<1>7. CASE User
  <2>1. pc' = pc
    BY <1>7 DEF User, Send, Run, AbortService, AbortSession, sessVars
  <2>2. CASE AbortSession
    BY <1>1, <2>2, StopFacts DEF AbortSession
  <2> QED BY <1>2, <1>7, <2>1, <2>2 DEF User, Send, Run, AbortService, sessVars
<1>8. CASE Environment \/ TimerExpires \/ UNCHANGED vars
  BY <1>2, <1>8 DEF Environment, WriteSocket, ReadSocket, PingExpires, PeerCloses,
                    TimerExpires, vars, sessVars
<1> QED BY <1>3, <1>4, <1>5, <1>6, <1>7, <1>8 DEF Next, IoThread

\* Every step keeps the invariant.
LEMMA NextKeeps ==
    ASSUME Inv, [Next]_vars
    PROVE  Inv'
<1>1. TypeOK' /\ ConnectingInv'
  BY NextType, ConnectingKeeps DEF Inv
<1>2. CASE TimerExpires \/ UNCHANGED vars
  <2>1. UNCHANGED <<pc, ret, lock, stopped, h2, svcStopped, writing, wb, pend, produced,
                    outq, data, stalled>>
    BY <1>2 DEF TimerExpires, Complete, vars, svcVars, sessVars, bufVars, ngVars
  <2> QED BY <1>1, <2>1 DEF Inv, SafetyInv, LockInv, PendingInv, PendingFresh, BufferBound,
                            StopStopsService, OutputInv, HasOutput
<1> QED BY <1>1, <1>2, IoThreadKeeps, UserKeeps, EnvironmentKeeps DEF Next, Inv

\* It holds at first.
LEMMA InitInv == Init => Inv
<1> SUFFICES ASSUME Init PROVE Inv
  OBVIOUS
<1>1. TypeOK
  BY InitType
<1>2. BufferBound
  <2>1. PICK g \in Garbage : wb = [k \in 1..g |-> 0]
    BY DEF Init, SessInit
  <2>2. g \in Nat /\ g =< Cap
    BY SizesAssumption
  <2> QED BY <2>1, <2>2, GarbageSeq DEF BufferBound
<1>3. LockInv
  BY DEF Init, SessInit, LockInv
<1>4. PendingInv
  BY <1>2, SizesAssumption DEF Init, SessInit, PendingInv, PendingFresh
<1>5. StopStopsService /\ OutputInv /\ ConnectingInv
  BY DEF Init, SessInit, StopStopsService, OutputInv, ConnectingInv
<1> QED BY <1>1, <1>3, <1>4, <1>5 DEF Inv, SafetyInv

\* The invariant of every reachable state.
THEOREM Invariance == Spec => []Inv
<1>1. Init => Inv
  BY InitInv
<1>2. Inv /\ [Next]_vars => Inv'
  BY NextKeeps
<1> QED BY <1>1, <1>2, PTL DEF Spec

\* Output never waits in nghttp2 with the I/O thread idle, the session running
\* and no write under way: the write() whose handler must pick it up exists.
THEOREM NothingStranded == Spec => []NoStrandedOutput
<1>1. Inv => NoStrandedOutput
  BY DEF Inv, SafetyInv, OutputInv, NoStrandedOutput
<1> QED BY <1>1, Invariance, PTL

\* wb_ is never overrun, whatever the lengths of the blocks, the first length
\* read from uninitialised memory included while it is at most the size.
THEOREM NoOverrun == Spec => []BufferBound
<1>1. Inv => BufferBound
  BY DEF Inv, SafetyInv, PendingInv
<1> QED BY <1>1, Invariance, PTL

\* data_pending_ is never used after nghttp2 has produced another block.
THEOREM NeverStale == Spec => []PendingFresh
<1>1. Inv => PendingFresh
  BY DEF Inv, SafetyInv, PendingInv
<1> QED BY <1>1, Invariance, PTL

\* A session that was connected and is stopped has stopped its io_service.
THEOREM ServiceStops == Spec => []StopStopsService
<1>1. Inv => StopStopsService
  BY DEF Inv, SafetyInv
<1> QED BY <1>1, Invariance, PTL
=============================================================================
