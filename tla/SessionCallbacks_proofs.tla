---------------------- MODULE SessionCallbacks_proofs ----------------------
(***************************************************************************)
(* For any set of requests and of pushed streams, any number of chunks and *)
(* any mixture of their frames: the map holds the Streams of exactly the   *)
(* streams nghttp2 has, and every Response holds what the server sent.     *)
(***************************************************************************)
EXTENDS SessionCallbacks, TLAPS

\* The frame being delivered belongs to a stream that nghttp2 has open and is not
\* about to reset.
FrameLive ==
    frame.type # "none"
        => frame.id \in Ids /\ ng[frame.id] \in Live /\ frame.id \notin resets

\* A PUSH_PROMISE being delivered is about a reserved stream.
PromiseLive ==
    frame.type = "PUSH_PROMISE"
        => /\ frame.promised \in Ids /\ ng[frame.promised] = "reserved"
           /\ frame.promised \notin resets

\* An RST_STREAM is queued only for streams the peer knows of.
ResetsKnown == \A i \in resets : ng[i] \in Live \cup {"closed", "refused"}

\* Nothing was received on a stream that was not opened.
Fresh ==
    \A i \in Ids : ng[i] \in {"none", "queued"}
        => told[i].status = 0 /\ told[i].chunks = <<>>

\* The Request of a stream that was opened is filled in; that of a promised one
\* is by the time its PUSH_PROMISE has been delivered.
RequestInv ==
    \A i \in Ids :
        /\ ng[i] \in {"opening", "opened"} => strm[i].req
        /\ ng[i] = "reserved"
             => \/ strm[i].req
                \/ /\ frame.type = "PUSH_PROMISE" /\ frame.promised = i
                   /\ frame.left # <<>>
        /\ ng[i] = "closed" /\ told[i].status # 0 => strm[i].req

Inv ==
    /\ TypeOK
    /\ TableAgrees
    /\ FrameLive
    /\ PromiseLive
    /\ ResetsKnown
    /\ Fresh
    /\ BodyIntact
    /\ RequestInv
-----------------------------------------------------------------------------
(* Types of what the operators return                                      *)

LEMMA NewStreamType ==
  /\ NewStream \in StreamObjects
  /\ NewStream.chunks = <<>>
  BY DEF NewStream, StreamObjects, States

\* Sending a frame changes the state and the Request of a stream, never its
\* Response.
LEMMA OutgoingType ==
  ASSUME NEW s \in StreamObjects, NEW type
  PROVE  /\ processOutgoingFrame(s, type) \in StreamObjects
         /\ processOutgoingFrame(s, type).chunks = s.chunks
         /\ s.req => processOutgoingFrame(s, type).req
         /\ type = "HEADERS" => processOutgoingFrame(s, type).req
<1>1. (s.req \/ type = "HEADERS") \in BOOLEAN
  BY DEF StreamObjects
<1>2. (IF type = "GOAWAY" THEN "Closed" ELSE s.state) \in States
  BY DEF StreamObjects, States
<1> QED
  BY <1>1, <1>2 DEF processOutgoingFrame, StreamObjects

\* A change of state is all a frame's end or a close makes.
LEMMA StateType ==
  ASSUME NEW s \in StreamObjects, NEW st \in States
  PROVE  /\ [s EXCEPT !.state = st] \in StreamObjects
         /\ [s EXCEPT !.state = st].chunks = s.chunks
         /\ [s EXCEPT !.state = st].req = s.req
  BY DEF StreamObjects

\* Saving a header field touches neither the body nor the Request.
LEMMA SaveHeaderType ==
  ASSUME NEW s \in StreamObjects, NEW f \in Fields
  PROVE  /\ SaveHeader(s, f) \in StreamObjects
         /\ SaveHeader(s, f).chunks = s.chunks
         /\ SaveHeader(s, f).req = s.req
<1>1. Field("overridden", 2) \in Fields
  BY DEF Field, Fields, FieldNames
<1>2. ASSUME NEW g \in Fields
      PROVE  /\ [s EXCEPT !.fields = @ \cup {g}] \in StreamObjects
             /\ [s EXCEPT !.fields = @ \cup {g}].chunks = s.chunks
             /\ [s EXCEPT !.fields = @ \cup {g}].req = s.req
  BY <1>2 DEF StreamObjects
<1>3. CASE f.name = ":status"
  BY <1>3 DEF SaveHeader, StreamObjects, Fields
<1>4. CASE f.name # ":status"
  BY <1>1, <1>2, <1>4 DEF SaveHeader
<1> QED
  BY <1>3, <1>4

LEMMA AfterFrameType ==
  ASSUME NEW s \in StreamObjects
  PROVE  AfterFrame(s) \in States
  BY DEF AfterFrame, StreamObjects, States

LEMMA NoFrameType == NoFrame \in FrameRecords /\ NoFrame.type = "none"
  BY DEF NoFrame, FrameRecords, Categories

\* The fields of the frames the peer sends.
LEMMA FieldTypes ==
  /\ Field(":status", 100) \in Fields
  /\ Field(":status", 200) \in Fields
  /\ Field("content-type", 1) \in Fields
  /\ Field("trailer", 1) \in Fields
  /\ Field(":method", 1) \in Fields
  BY DEF Field, Fields, FieldNames
-----------------------------------------------------------------------------
(* The map                                                                 *)

\* Adding a stream that is there changes nothing.
LEMMA AddKnown ==
  ASSUME NEW i \in known, NEW s, addStream(i, s)
  PROVE  UNCHANGED mapVars
  BY DEF addStream

\* A stream nghttp2 has is in the map.
LEMMA LiveKnown ==
  ASSUME TableAgrees, NEW i \in Ids, ng[i] \notin Gone
  PROVE  i \in known
  BY DEF TableAgrees, Gone

\* What is added for a new stream is the stream's own, though Streams have been
\* made for other ids.
LEMMA AddNew ==
  ASSUME TableAgrees, NEW i \in Ids, ng[i] = "none", NEW s, addStream(i, s)
  PROVE  known' = known \cup {i} /\ strm' = [strm EXCEPT ![i] = s] /\ strays' = strays
<1>1. i \notin known
  BY DEF TableAgrees, Gone
<1>2. i # 0
  BY StreamsAssumption DEF Ids
<1>3. i \notin strays
  BY <1>2 DEF TableAgrees
<1> QED
  BY <1>1, <1>3 DEF addStream

LEMMA InitInv == Init => Inv
<1> SUFFICES ASSUME Init PROVE Inv
  OBVIOUS
<1>1. goaway \in BOOLEAN /\ stopped \in BOOLEAN
  BY DEF Init
<1>2. strm \in [Ids -> StreamObjects]
  BY NewStreamType DEF Init
<1>3. told \in [Ids -> Told]
  BY DEF Init, Told, Phases
<1>4. frame \in FrameRecords /\ frame.type = "none"
  BY NoFrameType DEF Init
<1>5. TypeOK
  BY <1>1, <1>2, <1>3, <1>4 DEF Init, TypeOK, Opened, NgStates, Gone
<1>6. TableAgrees /\ ResetsKnown
  BY DEF Init, TableAgrees, Gone, ResetsKnown
<1>7. FrameLive /\ PromiseLive
  BY <1>4 DEF FrameLive, PromiseLive
<1>8. Fresh /\ BodyIntact
  BY NewStreamType DEF Init, Fresh, BodyIntact
<1>9. RequestInv
  BY DEF Init, RequestInv
<1> QED
  BY <1>5, <1>6, <1>7, <1>8, <1>9 DEF Inv
-----------------------------------------------------------------------------
(* One lemma for each operation                                            *)

\* An operation that leaves nghttp2, the frame and every Response alone.
LEMMA QuietInv ==
  ASSUME Inv, TypeOK',
         UNCHANGED <<ngVars, told, frame, known>>,
         strays' \subseteq strays \cup {0},
         \A i \in Ids : strm'[i].chunks = strm[i].chunks /\ (strm[i].req => strm'[i].req)
  PROVE  Inv'
<1>1. TableAgrees' /\ ResetsKnown'
  BY DEF Inv, TableAgrees, ResetsKnown, ngVars
<1>2. FrameLive' /\ PromiseLive'
  BY DEF Inv, FrameLive, PromiseLive, ngVars
<1>3. Fresh' /\ BodyIntact'
  BY DEF Inv, Fresh, BodyIntact, ngVars
<1>4. RequestInv'
  BY DEF Inv, RequestInv, ngVars
<1> QED
  BY <1>1, <1>2, <1>3, <1>4 DEF Inv

LEMMA SendInv == Inv /\ Send => Inv'
<1> SUFFICES ASSUME Inv, Send PROVE Inv'
  OBVIOUS
<1>1. TypeOK'
  BY DEF Inv, TypeOK, Send, mapVars, ngVars
<1> QED
  BY <1>1, QuietInv DEF Send, mapVars

\* Id 0 is no stream's, so a Stream is made for it.
LEMMA SendControlInv == Inv /\ SendControl => Inv'
<1> SUFFICES ASSUME Inv, SendControl PROVE Inv'
  OBVIOUS
<1>1. 0 \notin known
  BY StreamsAssumption DEF Inv, TypeOK, Ids
<1>2. strays' = strays \cup {0} /\ UNCHANGED <<known, strm>>
  BY <1>1 DEF SendControl, beforeFrameSendCallback
<1>3. TypeOK'
  BY <1>2 DEF Inv, TypeOK, SendControl, ngVars, cbVars
<1> QED
  BY <1>2, <1>3, QuietInv DEF SendControl

LEMMA SubmitInv ==
  ASSUME Inv, NEW i \in Requests, Submit(i)
  PROVE  Inv'
<1>1. i \in Ids /\ ng[i] = "none" /\ ng' = [ng EXCEPT ![i] = "queued"]
  BY DEF Ids, Submit
<1>3. /\ known' = known \cup {i} /\ strm' = [strm EXCEPT ![i] = NewStream]
      /\ strays' = strays
  BY <1>1, AddNew DEF Submit, Inv
<1>4. strm' \in [Ids -> StreamObjects] /\ ng' \in [Ids -> NgStates]
  BY <1>1, <1>3, NewStreamType DEF Inv, TypeOK, NgStates
<1>5. sends' \in Nat
  BY DEF Inv, TypeOK, Submit
<1>6. TypeOK'
  BY <1>1, <1>3, <1>4, <1>5 DEF Inv, TypeOK, Submit, cbVars
<1>7. TableAgrees' /\ ResetsKnown'
  BY <1>1, <1>3 DEF Inv, TypeOK, TableAgrees, Gone, ResetsKnown, Live, Submit
<1>8. FrameLive' /\ PromiseLive'
  BY <1>1 DEF Inv, TypeOK, FrameLive, PromiseLive, Live, Submit
<1>9. Fresh' /\ BodyIntact'
  BY <1>1, <1>3, NewStreamType DEF Inv, TypeOK, Fresh, BodyIntact, Submit
<1>10. RequestInv'
  BY <1>1, <1>3 DEF Inv, TypeOK, RequestInv, Submit
<1> QED
  BY <1>6, <1>7, <1>8, <1>9, <1>10 DEF Inv

LEMMA SendHeadersInv ==
  ASSUME Inv, NEW i \in Requests, SendHeaders(i)
  PROVE  Inv'
<1>1. i \in Ids /\ ng[i] = "queued" /\ ng' = [ng EXCEPT ![i] = "opening"]
  BY DEF Ids, SendHeaders
<1>2. i \in known
  BY <1>1, LiveKnown DEF Inv, Gone
<1> DEFINE sent == processOutgoingFrame(strm[i], "HEADERS")
<1>3. known' = known /\ strays' = strays /\ strm' = [strm EXCEPT ![i] = sent]
  BY <1>2 DEF SendHeaders, beforeFrameSendCallback
<1>4. strm[i] \in StreamObjects
  BY <1>1 DEF Inv, TypeOK
<1>5. sent \in StreamObjects /\ sent.chunks = strm[i].chunks /\ sent.req
  BY <1>4, OutgoingType
<1> HIDE DEF sent
<1>6. strm' \in [Ids -> StreamObjects] /\ ng' \in [Ids -> NgStates]
  BY <1>1, <1>3, <1>5 DEF Inv, TypeOK, NgStates
<1>7. TypeOK'
  BY <1>3, <1>6 DEF Inv, TypeOK, SendHeaders, cbVars
<1>8. TableAgrees' /\ ResetsKnown'
  BY <1>1, <1>3 DEF Inv, TypeOK, TableAgrees, Gone, ResetsKnown, Live, SendHeaders
<1>9. FrameLive' /\ PromiseLive'
  BY <1>1 DEF Inv, TypeOK, FrameLive, PromiseLive, Live, SendHeaders
<1>10. Fresh' /\ BodyIntact'
  BY <1>1, <1>3, <1>5 DEF Inv, TypeOK, Fresh, BodyIntact, SendHeaders
<1>11. RequestInv'
  BY <1>1, <1>3, <1>5 DEF Inv, TypeOK, RequestInv, SendHeaders
<1> QED
  BY <1>7, <1>8, <1>9, <1>10, <1>11 DEF Inv

\* A HEADERS begins on stream i.  It is there already, so onBeginHeadersCallback
\* leaves the map and the Response alone.
LEMMA BeginHeadersInv ==
  ASSUME Inv, NEW i \in Ids, NEW f \in Seq(Fields), NEW e \in BOOLEAN, NEW p \in Told,
         p.chunks = told[i].chunks,
         onBeginHeadersCallback(i, f, e, p)
  PROVE  Inv'
<1>1. /\ ng[i] \in Live /\ ng' = [ng EXCEPT ![i] = "opened"]
      /\ told' = [told EXCEPT ![i] = p]
      /\ frame = NoFrame /\ i \notin resets /\ UNCHANGED resets
  BY DEF onBeginHeadersCallback, Receiving
<1>2. i \in known
  BY <1>1, LiveKnown DEF Inv, Live, Gone
<1>3. UNCHANGED <<known, strays, strm>>
  BY <1>2, AddKnown DEF onBeginHeadersCallback, mapVars
<1>4. Category(i) \in Categories
  BY DEF Category, Categories
<1>5. frame' \in FrameRecords /\ frame'.type = "HEADERS" /\ frame'.id = i
  BY <1>4 DEF onBeginHeadersCallback, NoFrame, FrameRecords
<1>6. /\ ng' \in [Ids -> NgStates]
      /\ told' \in [Ids -> Told]
  BY <1>1 DEF Inv, TypeOK, NgStates
<1>7. TypeOK'
  BY <1>3, <1>5, <1>6 DEF Inv, TypeOK, onBeginHeadersCallback, cbVars
<1>8. TableAgrees' /\ ResetsKnown'
  BY <1>1, <1>3 DEF Inv, TypeOK, TableAgrees, Live, Gone, ResetsKnown
<1>9. FrameLive' /\ PromiseLive'
  BY <1>1, <1>5 DEF Inv, TypeOK, FrameLive, PromiseLive, Live
<1>10. Fresh' /\ BodyIntact'
  BY <1>1, <1>3 DEF Inv, TypeOK, Fresh, BodyIntact
<1>11. RequestInv'
  <2>1. strm[i].req
    BY <1>1, NoFrameType DEF Inv, RequestInv, Live
  <2>2. ASSUME NEW j \in Ids, j # i
        PROVE  ng'[j] = ng[j] /\ told'[j] = told[j] /\ frame.type # "PUSH_PROMISE"
    BY <1>1, <2>2, NoFrameType DEF Inv, TypeOK
  <2>3. ng'[i] = "opened"
    BY <1>1 DEF Inv, TypeOK
  <2> QED
    BY <1>3, <2>1, <2>2, <2>3 DEF Inv, RequestInv
<1> QED
  BY <1>7, <1>8, <1>9, <1>10, <1>11 DEF Inv

LEMMA BeginInfoInv ==
  ASSUME Inv, NEW i \in Ids, BeginInfo(i)
  PROVE  Inv'
<1> DEFINE p == [told[i] EXCEPT !.phase = "info", !.info = TRUE]
<1>1. p \in Told /\ p.chunks = told[i].chunks
  BY DEF Inv, TypeOK, Told, Phases
<1>2. <<Field(":status", 100)>> \in Seq(Fields)
  BY FieldTypes
<1> QED
  BY <1>1, <1>2, BeginHeadersInv DEF BeginInfo

LEMMA BeginFinalInv ==
  ASSUME Inv, NEW i \in Ids, BeginFinal(i)
  PROVE  Inv'
<1> DEFINE ph(e) == IF e THEN "ended" ELSE "final"
           p(e) == [told[i] EXCEPT !.phase = ph(e), !.status = 200]
<1>1. ASSUME NEW e \in BOOLEAN
      PROVE  p(e) \in Told /\ p(e).chunks = told[i].chunks
  <2>1. told[i] \in Told
    BY DEF Inv, TypeOK
  <2>2. ph(e) \in Phases
    BY DEF Phases
  <2> HIDE DEF ph
  <2> QED
    BY <2>1, <2>2 DEF Told
<1>2. <<Field(":status", 200), Field("content-type", 1)>> \in Seq(Fields)
  BY FieldTypes
<1>3. PICK e \in BOOLEAN : onBeginHeadersCallback(
          i, <<Field(":status", 200), Field("content-type", 1)>>, e, p(e))
  BY DEF BeginFinal
<1> HIDE DEF p
<1> QED
  BY <1>1, <1>2, <1>3, BeginHeadersInv

LEMMA BeginTrailersInv ==
  ASSUME Inv, NEW i \in Ids, BeginTrailers(i)
  PROVE  Inv'
<1> DEFINE p == [told[i] EXCEPT !.phase = "ended"]
<1>1. p \in Told /\ p.chunks = told[i].chunks
  BY DEF Inv, TypeOK, Told, Phases
<1>2. <<Field("trailer", 1)>> \in Seq(Fields)
  BY FieldTypes
<1> QED
  BY <1>1, <1>2, BeginHeadersInv DEF BeginTrailers

LEMMA BeginPromiseInv ==
  ASSUME Inv, NEW i \in Requests, NEW p \in Promises, BeginPromise(i, p)
  PROVE  Inv'
<1>1. /\ i \in Ids /\ ng[i] \in Live /\ i # p
      /\ p \in Ids /\ ng[p] = "none" /\ ng' = [ng EXCEPT ![p] = "reserved"]
      /\ frame = NoFrame
  BY StreamsAssumption DEF Ids, BeginPromise, Receiving, Live
<1>2. p \notin resets /\ i \notin resets /\ UNCHANGED resets
  BY <1>1 DEF Inv, ResetsKnown, Live, BeginPromise, Receiving
<1>3. /\ known' = known \cup {p} /\ strm' = [strm EXCEPT ![p] = NewStream]
      /\ strays' = strays
  BY <1>1, AddNew DEF BeginPromise, Inv
<1>4. <<Field(":method", 1)>> \in Seq(Fields) /\ <<Field(":method", 1)>> # <<>>
  BY FieldTypes
<1>5. /\ frame' \in FrameRecords /\ frame'.type = "PUSH_PROMISE" /\ frame'.id = i
      /\ frame'.promised = p /\ frame'.left # <<>>
  BY <1>1, <1>4 DEF BeginPromise, NoFrame, FrameRecords, Categories
<1>6. strm' \in [Ids -> StreamObjects] /\ ng' \in [Ids -> NgStates]
  BY <1>1, <1>3, NewStreamType DEF Inv, TypeOK, NgStates
<1>7. TypeOK'
  BY <1>1, <1>3, <1>5, <1>6 DEF Inv, TypeOK, BeginPromise, cbVars
<1>8. TableAgrees' /\ ResetsKnown'
  BY <1>1, <1>2, <1>3 DEF Inv, TypeOK, TableAgrees, Gone, ResetsKnown
<1>9. FrameLive' /\ PromiseLive'
  BY <1>1, <1>2, <1>5 DEF Inv, TypeOK, FrameLive, PromiseLive, Live
<1>10. Fresh' /\ BodyIntact'
  BY <1>1, <1>3, NewStreamType DEF Inv, TypeOK, Fresh, BodyIntact, BeginPromise
<1>11. RequestInv'
  <2>1. ASSUME NEW j \in Ids, j # p
        PROVE  /\ ng'[j] = ng[j] /\ strm'[j] = strm[j] /\ told'[j] = told[j]
               /\ frame.type # "PUSH_PROMISE"
    BY <1>1, <1>3, <2>1, NoFrameType DEF Inv, TypeOK, BeginPromise
  <2>2. ng'[p] = "reserved"
    BY <1>1 DEF Inv, TypeOK
  <2> QED
    BY <1>5, <2>1, <2>2 DEF Inv, RequestInv
<1> QED
  BY <1>7, <1>8, <1>9, <1>10, <1>11 DEF Inv

\* A promise is refused: no callback is made.
LEMMA RefusePromiseInv ==
  ASSUME Inv, NEW i \in Requests, NEW p \in Promises, RefusePromise(i, p)
  PROVE  Inv'
<1>1. /\ p \in Ids /\ ng[p] = "none" /\ ng' = [ng EXCEPT ![p] = "refused"]
      /\ frame = NoFrame /\ resets' = resets \cup {p}
      /\ UNCHANGED <<known, strays, strm, told, frame, goaway, sends, cbVars>>
  BY DEF Ids, RefusePromise, mapVars
<1>2. ng' \in [Ids -> NgStates]
  BY <1>1 DEF Inv, TypeOK, NgStates, Gone
<1>3. TypeOK'
  BY <1>1, <1>2 DEF Inv, TypeOK, cbVars
<1>4. TableAgrees'
  BY <1>1 DEF Inv, TypeOK, TableAgrees, Gone
<1>5. ResetsKnown'
  BY <1>1 DEF Inv, TypeOK, ResetsKnown
<1>6. FrameLive' /\ PromiseLive'
  BY <1>1, NoFrameType DEF FrameLive, PromiseLive
<1>7. Fresh' /\ BodyIntact'
  BY <1>1 DEF Inv, TypeOK, Fresh, BodyIntact
<1>8. RequestInv'
  BY <1>1, NoFrameType DEF Inv, TypeOK, RequestInv
<1> QED
  BY <1>3, <1>4, <1>5, <1>6, <1>7, <1>8 DEF Inv

\* A field of a response's HEADERS.
LEMMA HeaderOfResponseInv ==
  ASSUME Inv, onHeaderCallback, frame.type = "HEADERS"
  PROVE  Inv'
<1> DEFINE f == Head(frame.left)
<1>1. frame.left \in Seq(Fields) /\ frame.left # <<>>
  BY DEF Inv, TypeOK, FrameRecords, onHeaderCallback
<1>2. f \in Fields /\ Tail(frame.left) \in Seq(Fields)
  BY <1>1
<1>3. /\ frame' \in FrameRecords /\ frame'.type = frame.type /\ frame'.id = frame.id
      /\ frame'.promised = frame.promised
  BY <1>2 DEF Inv, TypeOK, FrameRecords, onHeaderCallback
<1>4. /\ frame.id \in Ids /\ strm[frame.id] \in StreamObjects
  BY DEF Inv, TypeOK, FrameLive
<1> DEFINE new == SaveHeader(strm[frame.id], f)
<1>5. /\ new \in StreamObjects /\ new.chunks = strm[frame.id].chunks
      /\ new.req = strm[frame.id].req
  BY <1>2, <1>4, SaveHeaderType
<1>6. strm' = strm \/ strm' = [strm EXCEPT ![frame.id] = new]
  BY DEF onHeaderCallback, HeaderOfResponse
<1> HIDE DEF new, f
<1>7. /\ strm' \in [Ids -> StreamObjects]
      /\ \A i \in Ids : strm'[i].chunks = strm[i].chunks /\ strm'[i].req = strm[i].req
  BY <1>4, <1>5, <1>6 DEF Inv, TypeOK
<1>8. readyState' = HeadersReceived
  BY DEF onHeaderCallback, HeaderOfResponse
<1>9. TypeOK'
  BY <1>3, <1>7, <1>8 DEF Inv, TypeOK, onHeaderCallback, ngVars, HeadersReceived
<1>10. TableAgrees' /\ ResetsKnown'
  BY DEF Inv, TableAgrees, ResetsKnown, onHeaderCallback, ngVars
<1>11. FrameLive' /\ PromiseLive'
  BY <1>3 DEF Inv, FrameLive, PromiseLive, onHeaderCallback, ngVars
<1>12. Fresh' /\ BodyIntact'
  BY <1>7 DEF Inv, Fresh, BodyIntact, onHeaderCallback, ngVars
<1>13. RequestInv'
  BY <1>3, <1>7 DEF Inv, RequestInv, onHeaderCallback, ngVars
<1> QED
  BY <1>9, <1>10, <1>11, <1>12, <1>13 DEF Inv

\* A field of a PUSH_PROMISE: the promised stream is in the map, so its Request
\* is filled in.
LEMMA HeaderOfPromiseInv ==
  ASSUME Inv, onHeaderCallback, frame.type = "PUSH_PROMISE"
  PROVE  Inv'
<1> DEFINE p == frame.promised
           new == [strm[p] EXCEPT !.state = IF @ = "Idle" THEN "ReservedRemote" ELSE @,
                                  !.req = TRUE]
<1>1. p \in Ids /\ ng[p] = "reserved" /\ strm[p] \in StreamObjects
  BY DEF Inv, TypeOK, PromiseLive
<1>2. p \in known
  BY <1>1, LiveKnown DEF Inv, Gone
<1>3. strm' = [strm EXCEPT ![p] = new] /\ readyState' = readyState
  BY <1>1, <1>2 DEF onHeaderCallback, HeaderOfPromise, Inv, TypeOK
<1>4. new \in StreamObjects /\ new.chunks = strm[p].chunks /\ new.req
  <2>1. (IF strm[p].state = "Idle" THEN "ReservedRemote" ELSE strm[p].state) \in States
    BY <1>1 DEF StreamObjects, States
  <2> QED
    BY <1>1, <2>1 DEF StreamObjects
<1> HIDE DEF new
<1>5. frame.left \in Seq(Fields) /\ frame.left # <<>>
  BY DEF Inv, TypeOK, FrameRecords, onHeaderCallback
<1>6. Tail(frame.left) \in Seq(Fields)
  BY <1>5
<1>7. /\ frame' \in FrameRecords /\ frame'.type = frame.type /\ frame'.id = frame.id
      /\ frame'.promised = p
  BY <1>6 DEF Inv, TypeOK, FrameRecords, onHeaderCallback
<1>8. /\ strm' \in [Ids -> StreamObjects]
      /\ strm'[p].req
      /\ \A i \in Ids : /\ strm'[i].chunks = strm[i].chunks
                        /\ i # p => strm'[i] = strm[i]
  BY <1>1, <1>3, <1>4 DEF Inv, TypeOK
<1>9. TypeOK'
  BY <1>3, <1>7, <1>8 DEF Inv, TypeOK, onHeaderCallback, ngVars
<1>10. TableAgrees' /\ ResetsKnown'
  BY DEF Inv, TableAgrees, ResetsKnown, onHeaderCallback, ngVars
<1>11. FrameLive' /\ PromiseLive'
  BY <1>7 DEF Inv, FrameLive, PromiseLive, onHeaderCallback, ngVars
<1>12. Fresh' /\ BodyIntact'
  BY <1>8 DEF Inv, Fresh, BodyIntact, onHeaderCallback, ngVars
<1>13. RequestInv'
  BY <1>8 DEF Inv, RequestInv, onHeaderCallback, ngVars
<1> QED
  BY <1>9, <1>10, <1>11, <1>12, <1>13 DEF Inv

LEMMA BeginDataInv ==
  ASSUME Inv, NEW i \in Ids, BeginData(i)
  PROVE  Inv'
<1>1. frame = NoFrame /\ ng[i] \in Live /\ i \notin resets
  BY DEF BeginData, Receiving
<1>2. frame' \in FrameRecords /\ frame'.type = "DATA" /\ frame'.id = i
  <2>1. PICK e \in BOOLEAN :
          frame' = [NoFrame EXCEPT !.type = "DATA", !.id = i, !.end = e]
    BY DEF BeginData
  <2> QED
    BY <2>1, NoFrameType DEF FrameRecords
<1>3. told[i] \in Told
  BY DEF Inv, TypeOK
<1>4. [told[i] EXCEPT !.phase = "ended"] \in Told
  BY <1>3 DEF Told, Phases
<1> DEFINE t == [told[i] EXCEPT !.phase = "ended"]
<1>5. told' = told \/ told' = [told EXCEPT ![i] = t]
  BY DEF BeginData
<1>0. t \in Told /\ t.chunks = told[i].chunks /\ t.status = told[i].status
  BY <1>3, <1>4 DEF Told
<1> HIDE DEF t
<1>6. /\ told' \in [Ids -> Told]
      /\ \A j \in Ids : told'[j].chunks = told[j].chunks /\ told'[j].status = told[j].status
  BY <1>0, <1>5 DEF Inv, TypeOK
<1>7. TypeOK'
  BY <1>2, <1>6 DEF Inv, TypeOK, BeginData, mapVars, ngVars, cbVars
<1>8. TableAgrees' /\ ResetsKnown'
  BY DEF Inv, TableAgrees, ResetsKnown, BeginData, mapVars, ngVars
<1>9. FrameLive' /\ PromiseLive'
  BY <1>1, <1>2 DEF FrameLive, PromiseLive, BeginData, ngVars
<1>10. Fresh' /\ BodyIntact'
  BY <1>6 DEF Inv, Fresh, BodyIntact, BeginData, mapVars, ngVars
<1>11. RequestInv'
  BY <1>1, <1>6, NoFrameType DEF Inv, RequestInv, BeginData, mapVars, ngVars
<1> QED
  BY <1>7, <1>8, <1>9, <1>10, <1>11 DEF Inv

\* A chunk: the stream is in the map, so it is appended to the Response.
LEMMA DataChunkInv == Inv /\ onDataChunkRecvCallback => Inv'
<1> SUFFICES ASSUME Inv, onDataChunkRecvCallback PROVE Inv'
  OBVIOUS
<1> DEFINE i == frame.id
           n == Len(told[i].chunks) + 1
<1>1. i \in Ids /\ ng[i] \in Live
  BY DEF Inv, FrameLive, onDataChunkRecvCallback
<1>2. i \in known
  BY <1>1, LiveKnown DEF Inv, Live, Gone
<1>3. told[i] \in Told /\ strm[i] \in StreamObjects /\ strm[i].chunks = told[i].chunks
  BY <1>1 DEF Inv, TypeOK, BodyIntact
<1>4. told[i].chunks \in Seq(Nat) /\ n \in Nat
  BY <1>3 DEF Told
<1> DEFINE more == Append(told[i].chunks, n)
           t == [told[i] EXCEPT !.chunks = more]
           s == [strm[i] EXCEPT !.chunks = more]
<1>5. more \in Seq(Nat)
  BY <1>4
<1>6. told' = [told EXCEPT ![i] = t] /\ strm' = [strm EXCEPT ![i] = s]
  BY <1>1, <1>2, <1>3 DEF onDataChunkRecvCallback, Inv, TypeOK
<1> HIDE DEF more, n
<1>7. /\ t \in Told /\ t.chunks = more /\ t.status = told[i].status
      /\ s \in StreamObjects /\ s.chunks = more /\ s.req = strm[i].req
  BY <1>3, <1>5 DEF Told, StreamObjects
<1> HIDE DEF t, s
<1>8. /\ told' \in [Ids -> Told] /\ strm' \in [Ids -> StreamObjects]
      /\ told'[i].chunks = strm'[i].chunks
      /\ \A j \in Ids : j # i => told'[j] = told[j] /\ strm'[j] = strm[j]
      /\ \A j \in Ids : told'[j].status = told[j].status /\ strm'[j].req = strm[j].req
  BY <1>1, <1>6, <1>7 DEF Inv, TypeOK
<1>9. readyState' = Loading
  BY DEF onDataChunkRecvCallback
<1>10. TypeOK'
  BY <1>8, <1>9 DEF Inv, TypeOK, onDataChunkRecvCallback, ngVars, Loading
<1>11. TableAgrees' /\ ResetsKnown'
  BY DEF Inv, TableAgrees, ResetsKnown, onDataChunkRecvCallback, ngVars
<1>12. FrameLive' /\ PromiseLive'
  BY DEF Inv, FrameLive, PromiseLive, onDataChunkRecvCallback, ngVars
<1>13. Fresh'
  BY <1>1, <1>8 DEF Inv, Fresh, Live, onDataChunkRecvCallback, ngVars
<1>14. BodyIntact'
  BY <1>8 DEF Inv, BodyIntact
<1>15. RequestInv'
  BY <1>8 DEF Inv, RequestInv, onDataChunkRecvCallback, ngVars
<1> QED
  BY <1>10, <1>11, <1>12, <1>13, <1>14, <1>15 DEF Inv

LEMMA FrameRecvInv == Inv /\ onFrameRecvCallback => Inv'
<1> SUFFICES ASSUME Inv, onFrameRecvCallback PROVE Inv'
  OBVIOUS
<1>1. frame' = NoFrame /\ frame.left = <<>> /\ UNCHANGED <<known, strays, ng, resets, told>>
  BY DEF onFrameRecvCallback, ngVars
<1> DEFINE i == frame.id
           s == [strm[i] EXCEPT !.state = AfterFrame(strm[i])]
<1>2. strm' = strm \/ (i \in known /\ strm' = [strm EXCEPT ![i] = s])
  BY DEF onFrameRecvCallback, Inv, TypeOK
<1>3. i \in known => strm[i] \in StreamObjects
  BY DEF Inv, TypeOK
<1>4. i \in known => /\ s \in StreamObjects /\ s.chunks = strm[i].chunks
                     /\ s.req = strm[i].req
  BY <1>3, AfterFrameType, StateType
<1> HIDE DEF s
<1>5. /\ strm' \in [Ids -> StreamObjects]
      /\ \A j \in Ids : strm'[j].chunks = strm[j].chunks /\ strm'[j].req = strm[j].req
  BY <1>2, <1>4 DEF Inv, TypeOK
<1>6. TypeOK'
  BY <1>1, <1>5, NoFrameType DEF Inv, TypeOK, onFrameRecvCallback, cbVars
<1>7. TableAgrees' /\ ResetsKnown'
  BY <1>1 DEF Inv, TableAgrees, ResetsKnown
<1>8. FrameLive' /\ PromiseLive'
  BY <1>1, NoFrameType DEF FrameLive, PromiseLive
<1>9. Fresh' /\ BodyIntact'
  BY <1>1, <1>5 DEF Inv, Fresh, BodyIntact
<1>10. RequestInv'
  BY <1>1, <1>5 DEF Inv, RequestInv
<1> QED
  BY <1>6, <1>7, <1>8, <1>9, <1>10 DEF Inv

LEMMA RecvGoAwayInv == Inv /\ RecvGoAway => Inv'
<1> SUFFICES ASSUME Inv, RecvGoAway PROVE Inv'
  OBVIOUS
<1>1. goaway' \in BOOLEAN
  BY DEF RecvGoAway
<1>2. TypeOK'
  BY <1>1 DEF Inv, TypeOK, RecvGoAway, mapVars, ngVars, cbVars
<1> QED
  BY <1>2, QuietInv DEF RecvGoAway, mapVars

\* A stream closes while no frame of it is being delivered: it leaves the map,
\* and the user is given the Response as it is.
LEMMA StreamCloseInv ==
  ASSUME Inv, NEW i \in Ids, onStreamCloseCallback(i),
         ng[i] \notin Gone,
         resets' \in {resets, resets \ {i}},
         frame.type # "none" => i # frame.id,
         frame.type = "PUSH_PROMISE" => i # frame.promised,
         ng[i] = "queued" \/ strm[i].req
  PROVE  Inv'
<1>1. i \in known
  BY LiveKnown DEF Inv
<1> DEFINE s == [strm[i] EXCEPT !.state = "Closed"]
<1>2. /\ ng' = [ng EXCEPT ![i] = "closed"]
      /\ known' = known \ {i} /\ strays' = strays \ {i}
      /\ strm' = [strm EXCEPT ![i] = s]
      /\ readyState' = Done /\ ReadyCallback(i)
      /\ UNCHANGED <<told, frame, goaway, sends>>
  BY <1>1 DEF onStreamCloseCallback, removeStream, Inv, TypeOK
<1>3. s \in StreamObjects /\ s.chunks = strm[i].chunks /\ s.req = strm[i].req
  BY StateType DEF Inv, TypeOK, States
<1> HIDE DEF s
<1>4. /\ strm' \in [Ids -> StreamObjects]
      /\ ng' \in [Ids -> NgStates]
      /\ \A j \in Ids : strm'[j].chunks = strm[j].chunks /\ strm'[j].req = strm[j].req
  BY <1>2, <1>3 DEF Inv, TypeOK, NgStates, Gone
<1>5. stopped' \in BOOLEAN
  BY <1>2 DEF ReadyCallback
<1>6. response' \in Ids \cup {0} /\ notified' \in Seq(Ids)
  BY <1>2 DEF ReadyCallback, Inv, TypeOK
<1>7. TypeOK'
  BY <1>2, <1>4, <1>5, <1>6 DEF Inv, TypeOK, Done
<1>8. TableAgrees'
  BY <1>2 DEF Inv, TypeOK, TableAgrees, Gone
<1>9. ResetsKnown'
  BY <1>2 DEF Inv, TypeOK, ResetsKnown
<1>10. FrameLive' /\ PromiseLive'
  BY <1>2 DEF Inv, TypeOK, FrameLive, PromiseLive
<1>11. Fresh' /\ BodyIntact'
  BY <1>2, <1>4 DEF Inv, TypeOK, Fresh, BodyIntact
<1>12. RequestInv'
  <2>1. ng[i] = "queued" => told[i].status = 0
    BY DEF Inv, Fresh
  <2>2. ng'[i] = "closed" /\ \A j \in Ids : j # i => ng'[j] = ng[j]
    BY <1>2 DEF Inv, TypeOK
  <2> QED
    BY <1>2, <1>4, <2>1, <2>2 DEF Inv, RequestInv
<1> QED
  BY <1>7, <1>8, <1>9, <1>10, <1>11, <1>12 DEF Inv

LEMMA StreamGoneInv ==
  ASSUME Inv, NEW i \in Ids, StreamEnds(i) \/ StreamReset(i)
  PROVE  Inv'
<1>1. /\ frame = NoFrame /\ ng[i] \in Live /\ onStreamCloseCallback(i)
      /\ resets' = resets
  BY DEF StreamEnds, StreamReset, Live
<1>2. frame.type = "none"
  BY <1>1, NoFrameType
<1>3. strm[i].req
  BY <1>1, <1>2 DEF Inv, RequestInv, Live
<1> QED
  BY <1>1, <1>2, <1>3, StreamCloseInv DEF Live, Gone

LEMMA StreamRefusedInv ==
  ASSUME Inv, NEW i \in Requests, StreamRefused(i)
  PROVE  Inv'
<1>1. i \in Ids /\ ng[i] = "queued" /\ onStreamCloseCallback(i) /\ resets' = resets
  BY DEF Ids, StreamRefused
<1>2. frame.type # "none" => i # frame.id
  BY <1>1 DEF Inv, FrameLive, Live
<1>3. frame.type = "PUSH_PROMISE" => i # frame.promised
  BY <1>1 DEF Inv, PromiseLive
<1> QED
  BY <1>1, <1>2, <1>3, StreamCloseInv DEF Gone

\* An RST_STREAM that is queued, or sent for a stream nghttp2 no longer has.
LEMMA ResetsInv ==
  ASSUME Inv, NEW i \in Ids, ng[i] \in Live \cup {"closed", "refused"},
         UNCHANGED <<known, strm, ng, told, frame, goaway, sends, cbVars>>,
         \/ resets' = resets \cup {i} /\ frame = NoFrame /\ UNCHANGED strays
         \/ /\ resets' = resets \ {i}
            /\ strays' = strays \cup {i} /\ ng[i] \in {"closed", "refused"}
  PROVE  Inv'
<1>1. TypeOK'
  BY DEF Inv, TypeOK, cbVars
<1>2. TableAgrees'
  BY DEF Inv, TableAgrees
<1>3. ResetsKnown'
  BY DEF Inv, ResetsKnown
<1>4. FrameLive' /\ PromiseLive'
  BY NoFrameType DEF Inv, FrameLive, PromiseLive
<1>5. Fresh' /\ BodyIntact' /\ RequestInv'
  BY DEF Inv, Fresh, BodyIntact, RequestInv
<1> QED
  BY <1>1, <1>2, <1>3, <1>4, <1>5 DEF Inv

LEMMA QueueResetInv ==
  ASSUME Inv, NEW i \in Ids, QueueReset(i)
  PROVE  Inv'
  BY ResetsInv DEF QueueReset, mapVars

\* A stream that is open is closed; for another a Stream is made, in the map only.
LEMMA SendResetInv ==
  ASSUME Inv, NEW i \in Ids, SendReset(i)
  PROVE  Inv'
<1>1. i \in resets /\ resets' = resets \ {i}
  BY DEF SendReset
<1>2. CASE ng[i] \in Live
  <2>1. frame.type # "none" => i # frame.id
    BY <1>1 DEF Inv, FrameLive
  <2>2. frame.type = "PUSH_PROMISE" => i # frame.promised
    BY <1>1 DEF Inv, PromiseLive
  <2>3. strm[i].req
    BY <1>2, <2>2 DEF Inv, RequestInv, Live
  <2>4. onStreamCloseCallback(i)
    BY <1>2 DEF SendReset
  <2> QED
    BY <1>1, <1>2, <2>1, <2>2, <2>3, <2>4, StreamCloseInv DEF Live, Gone
<1>3. CASE ng[i] \notin Live
  <2>1. ng[i] \in {"closed", "refused"}
    BY <1>1, <1>3 DEF Inv, ResetsKnown
  <2>2. i \notin known
    BY <2>1 DEF Inv, TableAgrees, Gone
  <2>3. /\ strays' = strays \cup {i}
        /\ UNCHANGED <<known, strm, ng, told, frame, goaway, sends, cbVars>>
    BY <1>3, <2>2 DEF SendReset, beforeFrameSendCallback
  <2> QED
    BY <1>1, <2>1, <2>3, ResetsInv
<1> QED
  BY <1>2, <1>3

LEMMA NextInv == Inv /\ [Next]_vars => Inv'
<1> SUFFICES ASSUME Inv, [Next]_vars PROVE Inv'
  OBVIOUS
<1>1. CASE onHeaderCallback
  BY <1>1, HeaderOfResponseInv, HeaderOfPromiseInv DEF onHeaderCallback
<1>2. CASE UNCHANGED vars
  BY <1>2 DEF vars, mapVars, ngVars, cbVars, Inv, TypeOK, TableAgrees, FrameLive,
     PromiseLive, ResetsKnown, Fresh, BodyIntact, RequestInv
<1>3. ASSUME NEW i \in Requests, Submit(i) \/ SendHeaders(i) \/ StreamRefused(i)
      PROVE  Inv'
  BY <1>3, SubmitInv, SendHeadersInv, StreamRefusedInv
<1>4. ASSUME NEW i \in Ids, BeginInfo(i) \/ BeginFinal(i) \/ BeginTrailers(i)
                             \/ BeginData(i) \/ StreamEnds(i) \/ StreamReset(i)
                             \/ QueueReset(i) \/ SendReset(i)
      PROVE  Inv'
  BY <1>4, BeginInfoInv, BeginFinalInv, BeginTrailersInv, BeginDataInv, StreamGoneInv,
     QueueResetInv, SendResetInv
<1> QED
  BY <1>1, <1>2, <1>3, <1>4, SendInv, SendControlInv, BeginPromiseInv, RefusePromiseInv, DataChunkInv,
     FrameRecvInv, RecvGoAwayInv DEF Next
-----------------------------------------------------------------------------
(* The theorems                                                            *)

\* The inductive invariant holds, with the type invariant in it.
THEOREM CallbacksSafe == Spec => []Inv
  BY InitInv, NextInv, PTL DEF Spec

\* Every variable of the callbacks keeps its type.
THEOREM TypesKept == Spec => []TypeOK
<1>1. Inv => TypeOK
  BY DEF Inv
<1> QED
  BY <1>1, CallbacksSafe, PTL

\* The map never lacks the Stream of a stream nghttp2 is talking about, never has
\* another in its place, and never keeps one that has closed; any other entry is an
\* empty Stream made for a frame that was sent for id 0 or for a stream that is over.
THEOREM TableIsExact == Spec => []TableAgrees
<1>1. Inv => TableAgrees
  BY DEF Inv
<1> QED
  BY <1>1, CallbacksSafe, PTL

\* No Response loses, repeats or mixes up chunks.
THEOREM BodiesIntact == Spec => []BodyIntact
<1>1. Inv => BodyIntact
  BY DEF Inv
<1> QED
  BY <1>1, CallbacksSafe, PTL

\* The user is never given an answer with an empty Request.
THEOREM RequestsKnown == Spec => []RequestKnown
<1>1. Inv => RequestKnown
  BY DEF Inv, RequestInv, RequestKnown
<1> QED
  BY <1>1, CallbacksSafe, PTL
=============================================================================
