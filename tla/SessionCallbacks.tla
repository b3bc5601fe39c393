-------------------------- MODULE SessionCallbacks --------------------------
(***************************************************************************)
(* The callbacks nghttp2 calls while it reads and writes a connection: the *)
(* map of streams, the Response each stream collects, and the readyState,  *)
(* response() and ready callback the user sees.                            *)
(*                                                                         *)
(* nghttp2 (external) is `ng', what it thinks of each stream, and `frame', *)
(* the frame whose callbacks it is making.  `told' records what the peer   *)
(* really sent; the code never sees it, the properties compare with it.    *)
(***************************************************************************)
EXTENDS Naturals, Sequences, FiniteSets

CONSTANTS
    Requests,   \* ids of the streams the client opens (odd)
    Promises,   \* ids of the streams the server may push (even)
    Async,      \* d->isAsync
    Mime,       \* overrideMimeType(): "none", "bare", or with a parameter, "param"
    Infos,      \* the server may send a 1xx response before the final one
    Trailers,   \* the server may send trailers
    Resets,     \* streams the server may reset
    Faulty,     \* streams nghttp2 may find a fault on, and reset
    MaxChunks   \* bound: chunks of body in all responses together

Ids == Requests \cup Promises

ASSUME StreamsAssumption ==
    /\ Requests \subseteq Nat \ {0} /\ Promises \subseteq Nat \ {0}
    /\ Requests \cap Promises = {}
    /\ Async \in BOOLEAN /\ Infos \in BOOLEAN /\ Trailers \in BOOLEAN
    /\ Resets \subseteq Ids /\ Faulty \subseteq Ids
    /\ Mime \in {"none", "bare", "param"}
    /\ MaxChunks \in Nat

VARIABLES
    known,       \* ids the map d->streams holds the Stream of
    strays,      \* ids it holds an empty Stream of, made for a frame on its way out
    strm,        \* the Stream objects; the user may hold one the map has lost
    ng,          \* nghttp2's state of each stream
    resets,      \* streams nghttp2 has an RST_STREAM to send for
    told,        \* what the peer has sent on each stream
    frame,       \* the frame nghttp2 is delivering
    goaway,      \* the peer has sent GOAWAY
    readyState,  \* XMLHttpRequest's d->readyState
    response,    \* d->response: the stream it belongs to, 0 for nullptr
    notified,    \* streams the ready callback was called for, in order
    sends,       \* calls of send() whose fetch() has not run
    stopped      \* the session has been stopped

cbVars == <<readyState, response, notified, stopped>>
mapVars == <<known, strays, strm>>
ngVars == <<ng, resets>>
vars == <<mapVars, ngVars, told, frame, goaway, sends, cbVars>>

States == {"Idle", "ReservedRemote", "Open", "HalfClosedRemote", "Closed"}

\* enum class ReadyState
Unsent == 0
Opened == 1
HeadersReceived == 2
Loading == 3
DoneShifted == 5
Done == 4

\* A header field: its name, and a number for its value.  `overridden' is the
\* field whose name is the type given to overrideMimeType().
FieldNames == {":status", "content-type", "overridden", ":method", "trailer"}
Field(n, v) == [name |-> n, value |-> v]
Fields == [name : FieldNames, value : Nat]

StreamObjects == [state : States, status : Nat, fields : SUBSET Fields,
                  chunks : Seq(Nat), req : BOOLEAN]

\* Stream's constructor: Idle, an empty Response (status -1, here 0), an empty
\* Request.
NewStream == [state |-> "Idle", status |-> 0, fields |-> {}, chunks |-> <<>>,
              req |-> FALSE]

\* HCAT_HEADERS is what nghttp2 calls every HEADERS after a stream's first.
Categories == {"RESPONSE", "PUSH_RESPONSE", "HEADERS"}
FrameRecords == [type : {"none", "HEADERS", "DATA", "PUSH_PROMISE"}, id : Ids \cup {0},
                 promised : Ids \cup {0}, cat : Categories, left : Seq(Fields),
                 end : BOOLEAN]
NoFrame == [type |-> "none", id |-> 0, promised |-> 0, cat |-> "HEADERS",
            left |-> <<>>, end |-> FALSE]

Phases == {"none", "info", "final", "ended"}
Told == [phase : Phases, status : Nat, info : BOOLEAN, chunks : Seq(Nat)]

\* nghttp2 has a stream from "queued" or "reserved" until it is "closed"; a
\* promise it does not accept is "refused".
Gone == {"none", "closed", "refused"}
NgStates == Gone \cup {"queued", "reserved", "opening", "opened"}

TypeOK ==
    /\ known \subseteq Ids
    /\ strays \subseteq Ids \cup {0}
    /\ strm \in [Ids -> StreamObjects]
    /\ ng \in [Ids -> NgStates]
    /\ resets \subseteq Ids
    /\ told \in [Ids -> Told]
    /\ frame \in FrameRecords
    /\ goaway \in BOOLEAN
    /\ readyState \in 0..4
    /\ response \in Ids \cup {0}
    /\ notified \in Seq(Ids)
    /\ sends \in Nat
    /\ stopped \in BOOLEAN

\* After open() and a successful connect.
Init ==
    /\ known = {} /\ strays = {}
    /\ strm = [i \in Ids |-> NewStream]
    /\ ng = [i \in Ids |-> "none"] /\ resets = {}
    /\ told = [i \in Ids |-> [phase |-> "none", status |-> 0, info |-> FALSE,
                            chunks |-> <<>>]]
    /\ frame = NoFrame
    /\ goaway = FALSE
    /\ readyState = Opened
    /\ response = 0
    /\ notified = <<>>
    /\ sends = 0
    /\ stopped = FALSE
-----------------------------------------------------------------------------
(* The map                                                                 *)

\* addStream(): try_emplace, which keeps the entry that is there.
addStreamOver(i, s) ==
    /\ known' = known \cup {i}
    /\ strm' = [strm EXCEPT ![i] = s]
    /\ UNCHANGED strays
addStream(i, s) ==
    IF i \in known \cup strays
    THEN UNCHANGED mapVars
    ELSE /\ known' = known \cup {i}
         /\ strm' = [strm EXCEPT ![i] = s]
         /\ UNCHANGED strays

\* What processOutgoingFrame() does to the stream.
OutgoingUnread(s, type) == [s EXCEPT !.state = IF type = "GOAWAY" THEN "Closed" ELSE @]
processOutgoingFrame(s, type) ==
    [s EXCEPT !.state = IF type = "GOAWAY" THEN "Closed" ELSE @,
              !.req = @ \/ type = "HEADERS"]

\* beforeFrameSendCallback: the stream is found, or one is made and added as
\* open.  Nothing but the map refers to a made one and nothing is put into it;
\* strm[i] is still what the user may hold.
beforeFrameSendCallback(i, type) ==
    IF i \in known
    THEN /\ strm' = [strm EXCEPT ![i] = processOutgoingFrame(@, type)]
         /\ UNCHANGED <<known, strays>>
    ELSE /\ strays' = strays \cup {i}
         /\ UNCHANGED <<known, strm>>
-----------------------------------------------------------------------------
(* The user and the sending side                                           *)

\* sendGet(), sendPost(): response() is reset and fetch() posted.  Bound: one
\* call for each id.
Send ==
    /\ sends < Cardinality({i \in Requests : ng[i] = "none"})
    /\ response' = 0
    /\ sends' = sends + 1
    /\ UNCHANGED <<mapVars, ngVars, told, frame, goaway, readyState, notified, stopped>>

\* submit() on the I/O thread: nghttp2 gives out the next id, the map a new
\* stream.
Submit(i) ==
    /\ ~stopped
    /\ sends > 0
    /\ ng[i] = "none"
    /\ \A j \in Requests : j < i => ng[j] # "none"
    /\ ng' = [ng EXCEPT ![i] = "queued"]
    /\ sends' = sends - 1
    /\ addStream(i, NewStream)
    /\ UNCHANGED <<resets, told, frame, goaway, cbVars>>

\* The request's HEADERS is about to be sent.
SendHeaders(i) ==
    /\ ~stopped /\ ~goaway
    /\ ng[i] = "queued"
    /\ ng' = [ng EXCEPT ![i] = "opening"]
    /\ beforeFrameSendCallback(i, "HEADERS")
    /\ UNCHANGED <<resets, told, frame, goaway, sends, cbVars>>

\* A SETTINGS, PING or WINDOW_UPDATE of the connection is about to be sent.
SendControl ==
    /\ ~stopped
    /\ beforeFrameSendCallback(0, "SETTINGS")
    /\ UNCHANGED <<ngVars, told, frame, goaway, sends, cbVars>>
-----------------------------------------------------------------------------
(* Frames that arrive                                                      *)

\* Stream i is open; it may still carry frames of the peer, which nghttp2 ignores
\* once it has an RST_STREAM to send for it.
Live == {"opening", "opened", "reserved"}
Receiving(i) == ng[i] \in Live /\ told[i].phase # "ended" /\ i \notin resets

Category(i) ==
    CASE ng[i] = "opening" -> "RESPONSE"
      [] ng[i] = "reserved" -> "PUSH_RESPONSE"
      [] OTHER -> "HEADERS"

\* A HEADERS begins: onBeginHeadersCallback adds the stream if the map lacks
\* it.  f is its fields, p what it makes of the message.
onBeginHeadersCallback(i, f, e, p) ==
    /\ frame = NoFrame
    /\ Receiving(i)
    /\ frame' = [NoFrame EXCEPT !.type = "HEADERS", !.id = i, !.cat = Category(i),
                                !.left = f, !.end = e]
    /\ ng' = [ng EXCEPT ![i] = "opened"]
    /\ told' = [told EXCEPT ![i] = p]
    /\ addStream(i, NewStream)
    /\ UNCHANGED <<resets, goaway, sends, cbVars>>

\* A non-final response, the final one, trailers.
BeginInfo(i) ==
    /\ Infos
    /\ told[i].phase = "none"
    /\ onBeginHeadersCallback(i, <<Field(":status", 100)>>, FALSE,
                              [told[i] EXCEPT !.phase = "info", !.info = TRUE])

BeginFinal(i) ==
    /\ told[i].phase \in {"none", "info"}
    /\ \E e \in BOOLEAN :
         onBeginHeadersCallback(
             i, <<Field(":status", 200), Field("content-type", 1)>>, e,
             [told[i] EXCEPT !.phase = IF e THEN "ended" ELSE "final", !.status = 200])

BeginTrailers(i) ==
    /\ Trailers
    /\ told[i].phase = "final"
    /\ onBeginHeadersCallback(i, <<Field("trailer", 1)>>, TRUE,
                              [told[i] EXCEPT !.phase = "ended"])

\* A PUSH_PROMISE on stream i begins: the promised stream p is added.
BeginPromise(i, p) ==
    /\ frame = NoFrame
    /\ Receiving(i)
    /\ ng[p] = "none"
    /\ frame' = [NoFrame EXCEPT !.type = "PUSH_PROMISE", !.id = i, !.promised = p,
                                !.left = <<Field(":method", 1)>>]
    /\ ng' = [ng EXCEPT ![p] = "reserved"]
    /\ addStream(p, NewStream)
    /\ UNCHANGED <<resets, told, goaway, sends, cbVars>>

\* A PUSH_PROMISE on a stream that is closed, or about to be reset: nghttp2 makes
\* no callback for it and queues an RST_STREAM for the promised stream.
RefusePromise(i, p) ==
    /\ frame = NoFrame
    /\ \/ i \in resets
       \/ ng[i] = "closed" /\ strm[i].req
    /\ ng[p] = "none"
    /\ ng' = [ng EXCEPT ![p] = "refused"]
    /\ resets' = resets \cup {p}
    /\ UNCHANGED <<mapVars, told, frame, goaway, sends, cbVars>>

\* onHeaderCallback on a response's field.  With a mime type set, the server's
\* content-type is not saved; one with a parameter is, under its own name.
SaveHeader(s, f) ==
    CASE f.name = ":status" -> [s EXCEPT !.status = f.value, !.fields = @ \cup {f}]
      [] f.name = "content-type" /\ Mime = "bare" -> s
      [] f.name = "content-type" /\ Mime = "param" ->
            [s EXCEPT !.fields = @ \cup {Field("overridden", 2)}]
      [] OTHER -> [s EXCEPT !.fields = @ \cup {f}]

\* The state is set first, even for the fields that are then ignored: those of
\* a HEADERS that is not the stream's first.
HeaderOfResponse ==
    /\ readyState' = HeadersReceived
    /\ strm' = IF frame.cat = "HEADERS" \/ frame.id \notin known
               THEN strm
               ELSE [strm EXCEPT ![frame.id] = SaveHeader(@, Head(frame.left))]

\* onHeaderCallback on a field of a PUSH_PROMISE: saved in the promised stream's
\* Request.
HeaderOfPromise ==
    /\ strm' = IF frame.promised \notin known
               THEN strm
               ELSE [strm EXCEPT ![frame.promised].state =
                                     IF @ = "Idle" THEN "ReservedRemote" ELSE @,
                                 ![frame.promised].req = TRUE]
    /\ UNCHANGED readyState

onHeaderCallback ==
    /\ frame.left # <<>>
    /\ frame' = [frame EXCEPT !.left = Tail(@)]
    /\ \/ frame.type = "HEADERS" /\ HeaderOfResponse
       \/ frame.type = "PUSH_PROMISE" /\ HeaderOfPromise
    /\ UNCHANGED <<known, strays, ngVars, told, goaway, response, notified, sends, stopped>>

\* A DATA frame begins; its chunks come one by one, and it may have none.
BeginData(i) ==
    /\ frame = NoFrame
    /\ Receiving(i)
    /\ told[i].phase = "final"
    /\ \E e \in BOOLEAN :
         /\ frame' = [NoFrame EXCEPT !.type = "DATA", !.id = i, !.end = e]
         /\ told' = IF e THEN [told EXCEPT ![i].phase = "ended"] ELSE told
    /\ UNCHANGED <<mapVars, ngVars, goaway, sends, cbVars>>

ChunksSent ==
    Cardinality({p \in Ids \X (1..MaxChunks) : p[2] =< Len(told[p[1]].chunks)})

\* The n-th chunk of a body is the number n.
onDataChunkRecvCallback ==
    LET i == frame.id
        n == Len(told[i].chunks) + 1
    IN  /\ frame.type = "DATA"
        /\ ChunksSent < MaxChunks
        /\ told' = [told EXCEPT ![i].chunks = Append(@, n)]
        /\ strm' = IF i \in known THEN [strm EXCEPT ![i].chunks = Append(@, n)] ELSE strm
        /\ readyState' = Loading
        /\ UNCHANGED <<known, strays, ngVars, frame, goaway, response, notified, sends,
                       stopped>>

\* The state onFrameRecvCallback leaves stream s in.
AfterFrame(s) ==
    CASE frame.type = "HEADERS" ->
            IF frame.cat # "HEADERS" /\ frame.end THEN "HalfClosedRemote"
            ELSE IF s.state = "Idle" THEN "Open" ELSE s.state
      [] s.state = "Idle" -> "Idle"
      [] frame.type = "DATA" -> IF frame.end THEN "HalfClosedRemote" ELSE s.state
      [] OTHER -> "ReservedRemote"

\* The frame is complete.
onFrameRecvCallback ==
    /\ frame # NoFrame
    /\ frame.left = <<>>
    /\ strm' = IF frame.id \in known
               THEN [strm EXCEPT ![frame.id].state = AfterFrame(strm[frame.id])]
               ELSE strm
    /\ frame' = NoFrame
    /\ UNCHANGED <<known, strays, ngVars, told, goaway, sends, cbVars>>

\* A GOAWAY arrives.  The state of the Stream made for id 0, which becomes Closed,
\* is left out: nothing reads it.
RecvGoAway ==
    /\ frame = NoFrame
    /\ ~goaway
    /\ goaway' = TRUE
    /\ UNCHANGED <<mapVars, ngVars, told, frame, sends, cbVars>>
-----------------------------------------------------------------------------
(* Streams that end                                                        *)

\* The function setOnReadyCallback() installs.
ReadyCallbackOnce(i) ==
    /\ response' = IF response = 0 THEN i ELSE response
    /\ notified' = IF response = 0 THEN Append(notified, i) ELSE notified
    /\ stopped' = (stopped \/ ~Async)
ReadyCallback(i) ==
    /\ response' = i
    /\ notified' = Append(notified, i)
    /\ stopped' = (stopped \/ ~Async)

removeStreamLater(i) == UNCHANGED <<known, strays>>
removeStream(i) == known' = known \ {i} /\ strays' = strays \ {i}

onStreamCloseCallback(i) ==
    /\ ng' = [ng EXCEPT ![i] = "closed"]
    /\ IF i \in known
       THEN /\ strm' = [strm EXCEPT ![i].state = "Closed"]
            /\ readyState' = Done
            /\ ReadyCallback(i)
       ELSE UNCHANGED <<strm, cbVars>>
    /\ removeStream(i)
    /\ UNCHANGED <<told, frame, goaway, sends>>

\* Both sides have ended the stream; the peer resets it; or it was never opened
\* because of a GOAWAY.
StreamEnds(i) ==
    /\ frame = NoFrame
    /\ told[i].phase = "ended" /\ ng[i] = "opened" /\ i \notin resets
    /\ onStreamCloseCallback(i)
    /\ UNCHANGED resets

StreamReset(i) ==
    /\ i \in Resets
    /\ frame = NoFrame
    /\ ng[i] \in Live
    /\ onStreamCloseCallback(i)
    /\ UNCHANGED resets

StreamRefused(i) ==
    /\ ~stopped /\ goaway
    /\ ng[i] = "queued"
    /\ onStreamCloseCallback(i)
    /\ UNCHANGED resets

\* nghttp2 finds a fault in what came on stream i (between two frames) and queues
\* an RST_STREAM for it.
QueueReset(i) ==
    /\ i \in Faulty
    /\ frame = NoFrame
    /\ ng[i] \in Live /\ i \notin resets
    /\ resets' = resets \cup {i}
    /\ UNCHANGED <<mapVars, ng, told, frame, goaway, sends, cbVars>>

\* The RST_STREAM is sent.  A stream that is still open is found, not changed, and
\* closed after that; the peer may have closed it in the meantime, or nghttp2 may
\* never have had it, and then no onStreamCloseCallback follows.
SendReset(i) ==
    /\ ~stopped
    /\ i \in resets
    /\ resets' = resets \ {i}
    /\ \/ ng[i] \in Live /\ onStreamCloseCallback(i)
       \/ /\ ng[i] \notin Live
          /\ beforeFrameSendCallback(i, "RST_STREAM")
          /\ UNCHANGED <<ng, told, frame, goaway, sends, cbVars>>
-----------------------------------------------------------------------------
Next ==
    \/ Send
    \/ SendControl
    \/ \E i \in Requests : Submit(i) \/ SendHeaders(i) \/ StreamRefused(i)
    \/ \E i \in Ids : \/ BeginInfo(i) \/ BeginFinal(i) \/ BeginTrailers(i)
                      \/ BeginData(i) \/ StreamEnds(i) \/ StreamReset(i)
                      \/ QueueReset(i) \/ SendReset(i)
    \/ \E i \in Requests, p \in Promises : BeginPromise(i, p) \/ RefusePromise(i, p)
    \/ onHeaderCallback \/ onDataChunkRecvCallback \/ onFrameRecvCallback
    \/ RecvGoAway

Spec == Init /\ [][Next]_vars
-----------------------------------------------------------------------------
(* What the callbacks guarantee                                            *)

\* The map holds the Stream of exactly the streams nghttp2 has: no callback misses
\* the stream it is about, also when the peer has caused frames to be sent for
\* other ids, and no Response stays in the map once the user has been given it.
\* (The empty Streams made for such frames may stay: see OnlyZeroMade.)
TableAgrees ==
    /\ known = {i \in Ids : ng[i] \notin Gone}
    /\ \A i \in strays \ {0} : ng[i] \in {"closed", "refused"}

\* A Response holds every chunk the server sent on its stream, in order and
\* nothing else, however many HEADERS come before and after them and however
\* the streams' frames are mixed; also when the user is given it.
BodyIntact == \A i \in Ids : strm[i].chunks = told[i].chunks

\* The Response the user is given has the status of the server's answer, and
\* trailers have not disturbed it.  (A 1xx response before it has: see FinalStatus.)
StatusIntact ==
    \A k \in DOMAIN notified :
        LET i == notified[k]
        IN  told[i].status # 0 /\ ~told[i].info => strm[i].status = told[i].status

\* The Request given with it is filled in: a request that was sent, and a
\* promised one, have their fields.
RequestKnown ==
    \A i \in Ids :
        /\ ng[i] = "opening" => strm[i].req
        /\ ng[i] = "closed" /\ told[i].status # 0 => strm[i].req

\* The answers are what Exchange promises: each stream's own, with a status and
\* then a body, complete when the user is told, and told of once.
LifeOf(i) ==
    CASE ng[i] \in {"none", "refused"} -> "none"
      [] ng[i] = "closed" -> "over"
      [] OTHER -> "live"

Answers == INSTANCE Exchange
           WITH Asked <- Requests,
                Interim <- {100},
                Final <- {200},
                life <- [i \in Ids |-> LifeOf(i)],
                status <- [i \in Ids |-> strm[i].status],
                body <- [i \in Ids |-> strm[i].chunks],
                whole <- [i \in Ids |-> told[i].phase = "ended"],
                answers <- notified
AnswersKept == Answers!Spec
-----------------------------------------------------------------------------
(* What the repository says of the program and the program does not do     *)

\* README.md:177, response() has the "status code of request": the final one,
\* also when a 1xx response came before it.
FinalStatus ==
    \A k \in DOMAIN notified :
        LET i == notified[k]
        IN  told[i].status # 0 => strm[i].status = told[i].status

\* sessioncallbacks.cpp:71, "ignore trailers": nothing the user sees changes
\* for them, so the state does not go back.
ReadyStateForward == [][readyState' >= readyState]_vars

\* README.md:127, the callback is called "when request is recive full answer
\* from server": not for a stream that is reset or refused.
ReadyWhenAnswered ==
    \A k \in DOMAIN notified :
        notified[k] \in Requests => told[notified[k]].phase = "ended"

\* README.md:152, the callback "is called when a request is executed": it is not
\* called for what the server pushes.
ReadyForRequests == \A k \in DOMAIN notified : notified[k] \in Requests

\* README.md:117, overrideMimeType() "Overrides the MIME type returned by the
\* server": the answer has a content-type, and it is not the server's.
MimeOverridden ==
    \A i \in Ids :
        told[i].status # 0 /\ ng[i] = "closed"
            => \E f \in strm[i].fields : f.name = "content-type" /\ f.value # 1

\* sessioncallbacks.cpp:283, a PUSH_PROMISE on a stream in state Idle is a
\* "Protocol error!": a server that keeps to the protocol causes none.
NoProtocolError ==
    frame.type = "PUSH_PROMISE" => strm[frame.id].state # "Idle"

\* sessioncallbacks.cpp:481, "Add zero stream when server send setttings[0] and
\* window update": beforeFrameSendCallback makes a Stream for id 0 only, which
\* lasts as long as the connection, and leaves no other behind in the map.
OnlyZeroMade == strays \subseteq {0}
=============================================================================
