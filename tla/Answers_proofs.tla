--------------------------- MODULE Answers_proofs ---------------------------
(***************************************************************************)
(* SessionCallbacks implements Exchange: whatever frames arrive, in        *)
(* whatever mixture, the Response of each stream goes through a status and *)
(* a body to one call of the ready callback.  The core is StatusInv, which *)
(* says when the status of a Response is still to come.                    *)
(***************************************************************************)
EXTENDS SessionCallbacks_proofs

\* The next field of the frame being delivered is the status of stream i, and
\* onHeaderCallback will save it.
StatusDue(i) ==
    /\ frame.type = "HEADERS" /\ frame.id = i
    /\ frame.cat # "HEADERS"
    /\ frame.left # <<>> /\ Head(frame.left).name = ":status"

\* The status of the first HEADERS of stream i.
First(i) == IF told[i].info THEN 100 ELSE 200

\* What is left of the fields of a response.
ResponseFields ==
    frame.type = "HEADERS" =>
        frame.left \in {<<>>, <<Field(":status", 100)>>,
                        <<Field(":status", 200), Field("content-type", 1)>>,
                        <<Field("content-type", 1)>>, <<Field("trailer", 1)>>}

\* Before its first HEADERS a stream has no status; from then on it has the one
\* of that HEADERS, or is about to.
StatusOf(i) ==
    /\ ng[i] \in {"none", "queued", "reserved", "opening"} => told[i].phase = "none"
    /\ ng[i] = "opened" => told[i].phase # "none"
    /\ told[i].status \in {0, 200}
    /\ told[i].phase = "none"
         => ~told[i].info /\ told[i].status = 0 /\ strm[i].status = 0
    /\ told[i].phase # "none" /\ StatusDue(i)
         => strm[i].status = 0 /\ Head(frame.left).value = First(i)
    /\ told[i].phase # "none" /\ ~StatusDue(i) => strm[i].status = First(i)

\* Chunks come only after a HEADERS.
FrameTold == frame.type \in {"HEADERS", "DATA"} => told[frame.id].phase # "none"

\* The user is told of streams that have ended, and of each at its end.
ToldOfClosed == \A k \in DOMAIN notified : ng[notified[k]] = "closed"

StatusInv ==
    /\ ResponseFields
    /\ \A i \in Ids : StatusOf(i)
    /\ FrameTold
    /\ ToldOfClosed
-----------------------------------------------------------------------------
(* Steps of Exchange                                                       *)

\* What the actions of Exchange mean of the variables of SessionCallbacks.
LEMMA Stutters ==
  ASSUME \A i \in Ids : /\ LifeOf(i)' = LifeOf(i)
                        /\ strm'[i].status = strm[i].status
                        /\ strm'[i].chunks = strm[i].chunks
                        /\ told'[i].phase = told[i].phase,
         notified' = notified
  PROVE  UNCHANGED Answers!exchangeVars
<1>0. [j \in Ids |-> told[j].phase = "ended"]' = [j \in Ids |-> told[j].phase = "ended"]
  OBVIOUS
<1>1. [i \in Ids |-> LifeOf(i)]' = [i \in Ids |-> LifeOf(i)]
  OBVIOUS
<1>2. [i \in Ids |-> strm[i].status]' = [i \in Ids |-> strm[i].status]
  OBVIOUS
<1>3. [i \in Ids |-> strm[i].chunks]' = [i \in Ids |-> strm[i].chunks]
  OBVIOUS
<1> QED
  BY <1>0, <1>1, <1>2, <1>3 DEF Answers!exchangeVars

LEMMA Begins ==
  ASSUME NEW i \in Ids, LifeOf(i) = "none", LifeOf(i)' = "live",
         \A j \in Ids : /\ j # i => LifeOf(j)' = LifeOf(j)
                        /\ strm'[j].status = strm[j].status
                        /\ strm'[j].chunks = strm[j].chunks
                        /\ told'[j].phase = told[j].phase,
         notified' = notified
  PROVE  Answers!Next
<1>0. [j \in Ids |-> told[j].phase = "ended"]' = [j \in Ids |-> told[j].phase = "ended"]
  OBVIOUS
<1>1. [j \in Ids |-> LifeOf(j)]' = [[j \in Ids |-> LifeOf(j)] EXCEPT ![i] = "live"]
  OBVIOUS
<1>2. [j \in Ids |-> strm[j].status]' = [j \in Ids |-> strm[j].status]
  OBVIOUS
<1>3. [j \in Ids |-> strm[j].chunks]' = [j \in Ids |-> strm[j].chunks]
  OBVIOUS
<1>4. Answers!Begin(i)
  BY <1>0, <1>1, <1>2, <1>3 DEF Answers!Begin
<1> QED
  BY <1>4 DEF Answers!Next

LEMMA IsAnswered ==
  ASSUME NEW i \in Ids, LifeOf(i) = "live", strm[i].status = 0,
         strm'[i].status \in {100, 200},
         \A j \in Ids : /\ LifeOf(j)' = LifeOf(j)
                        /\ j # i => strm'[j].status = strm[j].status
                        /\ strm'[j].chunks = strm[j].chunks
                        /\ told'[j].phase = told[j].phase,
         notified' = notified
  PROVE  Answers!Next
<1>0. [j \in Ids |-> told[j].phase = "ended"]' = [j \in Ids |-> told[j].phase = "ended"]
  OBVIOUS
<1>1. [j \in Ids |-> LifeOf(j)]' = [j \in Ids |-> LifeOf(j)]
  OBVIOUS
<1>2. [j \in Ids |-> strm[j].status]'
        = [[j \in Ids |-> strm[j].status] EXCEPT ![i] = strm'[i].status]
  OBVIOUS
<1>3. [j \in Ids |-> strm[j].chunks]' = [j \in Ids |-> strm[j].chunks]
  OBVIOUS
<1>c. PICK c \in {100} \cup {200} : strm'[i].status = c
  OBVIOUS
<1>s. [j \in Ids |-> strm[j].status][i] \notin {200}
  OBVIOUS
<1>t. [j \in Ids |-> strm[j].status]' = [[j \in Ids |-> strm[j].status] EXCEPT ![i] = c]
  BY <1>2, <1>c
<1>l. [j \in Ids |-> LifeOf(j)][i] = "live"
  OBVIOUS
<1>4. Answers!Answer(i)
  BY <1>0, <1>1, <1>t, <1>s, <1>l, <1>3 DEF Answers!Answer
<1> QED
  BY <1>4 DEF Answers!Next

LEMMA Grows ==
  ASSUME NEW i \in Ids, LifeOf(i) = "live", strm[i].status # 0,
         strm'[i].chunks = Append(strm[i].chunks, Len(strm[i].chunks) + 1),
         \A j \in Ids : /\ LifeOf(j)' = LifeOf(j)
                        /\ strm'[j].status = strm[j].status
                        /\ j # i => strm'[j].chunks = strm[j].chunks
                        /\ told'[j].phase = told[j].phase,
         notified' = notified
  PROVE  Answers!Next
<1>0. [j \in Ids |-> told[j].phase = "ended"]' = [j \in Ids |-> told[j].phase = "ended"]
  OBVIOUS
<1>1. [j \in Ids |-> LifeOf(j)]' = [j \in Ids |-> LifeOf(j)]
  OBVIOUS
<1>2. [j \in Ids |-> strm[j].status]' = [j \in Ids |-> strm[j].status]
  OBVIOUS
<1>3. [j \in Ids |-> strm[j].chunks]'
        = [[j \in Ids |-> strm[j].chunks] EXCEPT ![i] = Append(@, Len(@) + 1)]
  OBVIOUS
<1>4. Answers!Chunk(i)
  BY <1>0, <1>1, <1>2, <1>3 DEF Answers!Chunk
<1> QED
  BY <1>4 DEF Answers!Next

LEMMA Ends ==
  ASSUME NEW i \in Ids, LifeOf(i) = "live", LifeOf(i)' = "over",
         \A j \in Ids : /\ j # i => LifeOf(j)' = LifeOf(j)
                        /\ strm'[j].status = strm[j].status
                        /\ strm'[j].chunks = strm[j].chunks
                        /\ told'[j].phase = told[j].phase,
         notified' = Append(notified, i)
  PROVE  Answers!Next
<1>0. [j \in Ids |-> told[j].phase = "ended"]' = [j \in Ids |-> told[j].phase = "ended"]
  OBVIOUS
<1>1. [j \in Ids |-> LifeOf(j)]' = [[j \in Ids |-> LifeOf(j)] EXCEPT ![i] = "over"]
  OBVIOUS
<1>2. [j \in Ids |-> strm[j].status]' = [j \in Ids |-> strm[j].status]
  OBVIOUS
<1>3. [j \in Ids |-> strm[j].chunks]' = [j \in Ids |-> strm[j].chunks]
  OBVIOUS
<1>4. Answers!End(i)
  BY <1>0, <1>1, <1>2, <1>3 DEF Answers!End
<1> QED
  BY <1>4 DEF Answers!Next

\* A frame begins; it may be the last the server sends on stream i.
LEMMA Moves ==
  ASSUME NEW i \in Ids, LifeOf(i) = "live", told[i].phase # "ended",
         \A j \in Ids : /\ LifeOf(j)' = LifeOf(j)
                        /\ strm'[j].status = strm[j].status
                        /\ strm'[j].chunks = strm[j].chunks
                        /\ j # i => told'[j].phase = told[j].phase,
         notified' = notified
  PROVE  [Answers!Next]_(Answers!exchangeVars)
<1>1. [j \in Ids |-> LifeOf(j)]' = [j \in Ids |-> LifeOf(j)]
  OBVIOUS
<1>2. [j \in Ids |-> strm[j].status]' = [j \in Ids |-> strm[j].status]
  OBVIOUS
<1>3. [j \in Ids |-> strm[j].chunks]' = [j \in Ids |-> strm[j].chunks]
  OBVIOUS
<1>4. CASE told'[i].phase = "ended"
  <2>1. [j \in Ids |-> told[j].phase = "ended"]'
          = [[j \in Ids |-> told[j].phase = "ended"] EXCEPT ![i] = TRUE]
    BY <1>4
  <2>2. Answers!Complete(i)
    BY <1>1, <1>2, <1>3, <2>1 DEF Answers!Complete
  <2> QED
    BY <2>2 DEF Answers!Next
<1>5. CASE told'[i].phase # "ended"
  <2>1. \A j \in Ids : (told'[j].phase = "ended") = (told[j].phase = "ended")
    BY <1>5
  <2>2. [j \in Ids |-> told[j].phase = "ended"]' = [j \in Ids |-> told[j].phase = "ended"]
    BY <2>1
  <2> QED
    BY <1>1, <1>2, <1>3, <2>2 DEF Answers!exchangeVars
<1> QED
  BY <1>4, <1>5

\* What every operation is to be shown to do.
Follows == StatusInv' /\ [Answers!Next]_(Answers!exchangeVars)
-----------------------------------------------------------------------------
(* Status of the streams an operation leaves alone                         *)

\* A stream whose frame is not being delivered.
LEMMA NotDue ==
  ASSUME Inv, NEW i \in Ids, frame = NoFrame \/ frame.id # i \/ frame.type # "HEADERS"
  PROVE  ~StatusDue(i)
  BY NoFrameType DEF StatusDue

LEMMA SameStatus ==
  ASSUME NEW i \in Ids, StatusOf(i),
         ng'[i] = ng[i] \/ (told[i].phase = "none" /\ ng'[i] # "opened"),
         strm'[i].status = strm[i].status,
         told'[i].info = told[i].info, told'[i].status = told[i].status,
         told'[i].phase = told[i].phase \/ {told[i].phase, told'[i].phase} \cap {"none"} = {},
         StatusDue(i)' <=> StatusDue(i),
         StatusDue(i) => Head(frame.left)' = Head(frame.left)
  PROVE  StatusOf(i)'
<1>1. First(i)' = First(i)
  BY DEF First
<1>2. told'[i].phase = "none" <=> told[i].phase = "none"
  OBVIOUS
<1> QED
  BY <1>1, <1>2 DEF StatusOf
-----------------------------------------------------------------------------
(* One lemma for each operation                                            *)

\* Operations that touch neither nghttp2's streams nor a Response.
LEMMA QuietFollows ==
  ASSUME Inv, StatusInv, UNCHANGED <<ng, told, frame, notified>>,
         \A i \in Ids : /\ strm'[i].status = strm[i].status
                        /\ strm'[i].chunks = strm[i].chunks
  PROVE  Follows
<1>1. \A i \in Ids : StatusDue(i)' <=> StatusDue(i)
  BY DEF StatusDue
<1>2. ASSUME NEW i \in Ids PROVE StatusOf(i)'
  BY <1>1, SameStatus DEF StatusInv
<1>3. StatusInv'
  BY <1>2 DEF StatusInv, ResponseFields, FrameTold, ToldOfClosed
<1>4. \A i \in Ids : LifeOf(i)' = LifeOf(i)
  BY DEF LifeOf
<1>5. UNCHANGED Answers!exchangeVars
  BY <1>4, Stutters
<1> QED
  BY <1>3, <1>5 DEF Follows

LEMMA SendFollows ==
  ASSUME Inv, StatusInv, Send
  PROVE  Follows
  BY QuietFollows DEF Send, mapVars, ngVars

LEMMA SendControlFollows ==
  ASSUME Inv, StatusInv, SendControl
  PROVE  Follows
<1>1. 0 \notin known
  BY StreamsAssumption DEF Inv, TypeOK, Ids
<1>2. strm' = strm
  BY <1>1 DEF SendControl, beforeFrameSendCallback
<1> QED
  BY <1>2, QuietFollows DEF SendControl, ngVars, cbVars

LEMMA RecvGoAwayFollows ==
  ASSUME Inv, StatusInv, RecvGoAway
  PROVE  Follows
  BY QuietFollows DEF RecvGoAway, mapVars, ngVars, cbVars

LEMMA QueueResetFollows ==
  ASSUME Inv, StatusInv, NEW i \in Ids, QueueReset(i)
  PROVE  Follows
  BY QuietFollows DEF QueueReset, mapVars, cbVars

\* The end of a frame: no status was due, as no field was left.
LEMMA FrameRecvFollows ==
  ASSUME Inv, StatusInv, onFrameRecvCallback
  PROVE  Follows
<1>1. /\ frame' = NoFrame /\ frame.left = <<>>
      /\ UNCHANGED <<ng, told, notified>>
  BY DEF onFrameRecvCallback, ngVars, cbVars
<1>2. \A i \in Ids : ~StatusDue(i) /\ ~StatusDue(i)'
  BY <1>1, NoFrameType DEF StatusDue
<1>3. \A i \in Ids : /\ strm'[i].status = strm[i].status
                     /\ strm'[i].chunks = strm[i].chunks
  <2>1. \A s \in StreamObjects : \A st :
            [s EXCEPT !.state = st].status = s.status
            /\ [s EXCEPT !.state = st].chunks = s.chunks
    BY DEF StreamObjects
  <2> QED
    BY <2>1 DEF onFrameRecvCallback, Inv, TypeOK
<1>4. ASSUME NEW i \in Ids PROVE StatusOf(i)'
  <2>1. ng' = ng /\ told' = told
    BY <1>1
  <2>2. StatusOf(i)
    BY DEF StatusInv
  <2>3. (StatusDue(i)' <=> StatusDue(i)) /\ ~StatusDue(i)
    BY <1>2
  <2> QED
    BY <1>3, <2>1, <2>2, <2>3, SameStatus
<1>5. StatusInv'
  BY <1>1, <1>4, NoFrameType DEF StatusInv, ResponseFields, FrameTold, ToldOfClosed
<1>6. \A i \in Ids : LifeOf(i)' = LifeOf(i)
  BY <1>1 DEF LifeOf
<1>7. UNCHANGED Answers!exchangeVars
  BY <1>1, <1>3, <1>6, Stutters
<1> QED
  BY <1>5, <1>7 DEF Follows

\* submit() begins a stream.
LEMMA SubmitFollows ==
  ASSUME Inv, StatusInv, NEW i \in Requests, Submit(i)
  PROVE  Follows
<1>1. /\ i \in Ids /\ ng[i] = "none" /\ ng' = [ng EXCEPT ![i] = "queued"]
      /\ UNCHANGED <<told, frame, notified>>
  BY DEF Ids, Submit, cbVars
<1>3. strm' = [strm EXCEPT ![i] = NewStream]
  BY <1>1, AddNew DEF Submit, Inv
<1>4. strm[i].status = 0 /\ strm[i].chunks = <<>> /\ told[i].phase = "none"
  BY <1>1 DEF Inv, Fresh, BodyIntact, StatusInv, StatusOf
<1>5. NewStream.status = 0 /\ NewStream.chunks = <<>>
  BY DEF NewStream
<1>6. \A j \in Ids : /\ strm'[j].status = strm[j].status
                     /\ strm'[j].chunks = strm[j].chunks
                     /\ j # i => ng'[j] = ng[j]
  BY <1>1, <1>3, <1>4, <1>5 DEF Inv, TypeOK
<1>7. \A j \in Ids : StatusDue(j)' <=> StatusDue(j)
  BY <1>1 DEF StatusDue
<1>8. ng'[i] = "queued"
  BY <1>1 DEF Inv, TypeOK
<1>9. ASSUME NEW j \in Ids PROVE StatusOf(j)'
  <2>1. ng'[j] = ng[j] \/ (told[j].phase = "none" /\ ng'[j] # "opened")
    BY <1>4, <1>6, <1>8
  <2> QED
    BY <1>1, <1>6, <1>7, <2>1, SameStatus DEF StatusInv
<1>10. ToldOfClosed'
  BY <1>1, <1>6 DEF StatusInv, ToldOfClosed, Inv, TypeOK
<1>11. StatusInv'
  BY <1>1, <1>9, <1>10 DEF StatusInv, ResponseFields, FrameTold
<1>12. /\ LifeOf(i) = "none" /\ LifeOf(i)' = "live"
       /\ \A j \in Ids : j # i => LifeOf(j)' = LifeOf(j)
  BY <1>1, <1>6, <1>8 DEF LifeOf
<1>13. Answers!Next
  BY <1>1, <1>6, <1>12, Begins
<1> QED
  BY <1>11, <1>13 DEF Follows

\* A request's HEADERS leaves: only the Request of its Stream changes.
LEMMA SendHeadersFollows ==
  ASSUME Inv, StatusInv, NEW i \in Requests, SendHeaders(i)
  PROVE  Follows
<1>1. /\ i \in Ids /\ ng[i] = "queued" /\ ng' = [ng EXCEPT ![i] = "opening"]
      /\ UNCHANGED <<told, frame, notified>>
  BY DEF Ids, SendHeaders, cbVars
<1>2. i \in known
  BY <1>1, LiveKnown DEF Inv, Gone
<1>3. strm' = [strm EXCEPT ![i] = processOutgoingFrame(strm[i], "HEADERS")]
  BY <1>2 DEF SendHeaders, beforeFrameSendCallback
<1>4. \A s \in StreamObjects : /\ processOutgoingFrame(s, "HEADERS").status = s.status
                               /\ processOutgoingFrame(s, "HEADERS").chunks = s.chunks
  BY DEF processOutgoingFrame, StreamObjects
<1>5. \A j \in Ids : /\ strm'[j].status = strm[j].status
                     /\ strm'[j].chunks = strm[j].chunks
                     /\ j # i => ng'[j] = ng[j]
  BY <1>1, <1>3, <1>4 DEF Inv, TypeOK
<1>6. \A j \in Ids : StatusDue(j)' <=> StatusDue(j)
  BY <1>1 DEF StatusDue
<1>7. ng'[i] = "opening" /\ told[i].phase = "none"
  BY <1>1 DEF Inv, TypeOK, StatusInv, StatusOf
<1>8. ASSUME NEW j \in Ids PROVE StatusOf(j)'
  <2>1. ng'[j] = ng[j] \/ (told[j].phase = "none" /\ ng'[j] # "opened")
    BY <1>5, <1>7
  <2> QED
    BY <1>1, <1>5, <1>6, <2>1, SameStatus DEF StatusInv
<1>9. ToldOfClosed'
  BY <1>1, <1>5 DEF StatusInv, ToldOfClosed, Inv, TypeOK
<1>10. StatusInv'
  BY <1>1, <1>8, <1>9 DEF StatusInv, ResponseFields, FrameTold
<1>11. \A j \in Ids : LifeOf(j)' = LifeOf(j)
  BY <1>1, <1>5, <1>7 DEF LifeOf
<1>12. UNCHANGED Answers!exchangeVars
  BY <1>1, <1>5, <1>11, Stutters
<1> QED
  BY <1>10, <1>12 DEF Follows

\* A PUSH_PROMISE begins a stream.
LEMMA BeginPromiseFollows ==
  ASSUME Inv, StatusInv, NEW i \in Requests, NEW p \in Promises, BeginPromise(i, p)
  PROVE  Follows
<1>1. /\ p \in Ids /\ ng[p] = "none" /\ ng' = [ng EXCEPT ![p] = "reserved"]
      /\ UNCHANGED <<told, notified>>
      /\ frame = NoFrame /\ frame'.type = "PUSH_PROMISE"
  BY DEF Ids, BeginPromise, cbVars, NoFrame
<1>3. strm' = [strm EXCEPT ![p] = NewStream]
  BY <1>1, AddNew DEF BeginPromise, Inv
<1>4. strm[p].status = 0 /\ strm[p].chunks = <<>> /\ told[p].phase = "none"
  BY <1>1 DEF Inv, Fresh, BodyIntact, StatusInv, StatusOf
<1>5. NewStream.status = 0 /\ NewStream.chunks = <<>>
  BY DEF NewStream
<1>6. \A j \in Ids : /\ strm'[j].status = strm[j].status
                     /\ strm'[j].chunks = strm[j].chunks
                     /\ j # p => ng'[j] = ng[j]
  BY <1>1, <1>3, <1>4, <1>5 DEF Inv, TypeOK
<1>7. \A j \in Ids : ~StatusDue(j) /\ ~StatusDue(j)'
  BY <1>1, NoFrameType DEF StatusDue
<1>8. ng'[p] = "reserved"
  BY <1>1 DEF Inv, TypeOK
<1>9. ASSUME NEW j \in Ids PROVE StatusOf(j)'
  <2>1. ng'[j] = ng[j] \/ (told[j].phase = "none" /\ ng'[j] # "opened")
    BY <1>4, <1>6, <1>8
  <2>2. told' = told /\ StatusOf(j)
    BY <1>1 DEF StatusInv
  <2> QED
    BY <1>6, <1>7, <2>1, <2>2, SameStatus
<1>10. ToldOfClosed'
  BY <1>1, <1>6 DEF StatusInv, ToldOfClosed, Inv, TypeOK
<1>11. StatusInv'
  BY <1>1, <1>9, <1>10 DEF StatusInv, ResponseFields, FrameTold
<1>12. /\ LifeOf(p) = "none" /\ LifeOf(p)' = "live"
       /\ \A j \in Ids : j # p => LifeOf(j)' = LifeOf(j)
  BY <1>1, <1>6, <1>8 DEF LifeOf
<1>13. notified' = notified
  BY <1>1
<1>14. Answers!Next
  BY <1>1, <1>6, <1>12, <1>13, Begins
<1> QED
  BY <1>11, <1>14 DEF Follows

\* A promise that is refused is not begun.
LEMMA RefusePromiseFollows ==
  ASSUME Inv, StatusInv, NEW i \in Requests, NEW p \in Promises, RefusePromise(i, p)
  PROVE  Follows
<1>1. /\ p \in Ids /\ ng[p] = "none" /\ ng' = [ng EXCEPT ![p] = "refused"]
      /\ UNCHANGED <<strm, told, frame, notified>>
  BY DEF Ids, RefusePromise, mapVars, cbVars
<1>2. ng'[p] = "refused" /\ \A j \in Ids : j # p => ng'[j] = ng[j]
  BY <1>1 DEF Inv, TypeOK
<1>3. told[p].phase = "none"
  BY <1>1 DEF StatusInv, StatusOf
<1>4. \A j \in Ids : StatusDue(j)' <=> StatusDue(j)
  BY <1>1 DEF StatusDue
<1>5. ASSUME NEW j \in Ids PROVE StatusOf(j)'
  <2>1. ng'[j] = ng[j] \/ (told[j].phase = "none" /\ ng'[j] # "opened")
    BY <1>2, <1>3
  <2> QED
    BY <1>1, <1>4, <2>1, SameStatus DEF StatusInv
<1>6. ToldOfClosed'
  BY <1>1, <1>2 DEF StatusInv, ToldOfClosed, Inv, TypeOK
<1>7. StatusInv'
  BY <1>1, <1>5, <1>6 DEF StatusInv, ResponseFields, FrameTold
<1>8. \A j \in Ids : LifeOf(j)' = LifeOf(j)
  BY <1>1, <1>2 DEF LifeOf
<1>9. UNCHANGED Answers!exchangeVars
  BY <1>1, <1>8, Stutters
<1> QED
  BY <1>7, <1>9 DEF Follows

\* A HEADERS begins: nothing is saved yet.  If it is the stream's first, its
\* status is due; if not, none ever is.
LEMMA BeginHeadersFollows ==
  ASSUME Inv, StatusInv, NEW i \in Ids, NEW f, NEW e \in BOOLEAN, NEW p \in Told,
         f \in {<<Field(":status", 100)>>,
                <<Field(":status", 200), Field("content-type", 1)>>,
                <<Field("trailer", 1)>>},
         p.phase # "none", p.status \in {0, 200},
         told[i].phase = "none" =>
             /\ Head(f).name = ":status"
             /\ Head(f).value = IF p.info THEN 100 ELSE 200,
         told[i].phase # "none" => p.info = told[i].info,
         onBeginHeadersCallback(i, f, e, p)
  PROVE  Follows
<1>1. /\ frame = NoFrame /\ ng[i] \in Live /\ ng' = [ng EXCEPT ![i] = "opened"]
      /\ told' = [told EXCEPT ![i] = p] /\ notified' = notified
      /\ frame'.type = "HEADERS" /\ frame'.id = i /\ frame'.left = f
      /\ frame'.cat = Category(i)
      /\ told[i].phase # "ended"
  BY DEF onBeginHeadersCallback, Receiving, cbVars, NoFrame
<1>2. i \in known
  BY <1>1, LiveKnown DEF Inv, Live, Gone
<1>3. strm' = strm
  BY <1>2, AddKnown DEF onBeginHeadersCallback, mapVars
<1>4. \A j \in Ids : ~StatusDue(j) /\ (j # i => ~StatusDue(j)')
  BY <1>1, NoFrameType DEF StatusDue
<1>5. /\ ng'[i] = "opened" /\ told'[i] = p
      /\ \A j \in Ids : j # i => ng'[j] = ng[j] /\ told'[j] = told[j]
  BY <1>1 DEF Inv, TypeOK
<1>6. StatusOf(i)
  BY DEF StatusInv
<1>7. StatusOf(i)'
  <2>1. CASE told[i].phase = "none"
    <3>1. ng[i] # "opened"
      BY <1>6, <2>1 DEF StatusOf
    <3>2. Category(i) # "HEADERS"
      BY <1>1, <3>1 DEF Category, Live
    <3>3. f # <<>> /\ StatusDue(i)'
      BY <1>1, <2>1, <3>2 DEF StatusDue
    <3>4. strm[i].status = 0
      BY <1>6, <2>1 DEF StatusOf
    <3> QED
      BY <1>1, <1>3, <1>5, <2>1, <3>3, <3>4 DEF StatusOf, First
  <2>2. CASE told[i].phase # "none"
    <3>1. ng[i] = "opened"
      BY <1>1, <1>6, <2>2 DEF StatusOf, Live
    <3>2. ~StatusDue(i)'
      BY <1>1, <3>1 DEF StatusDue, Category
    <3>3. strm[i].status = First(i)
      BY <1>4, <1>6, <2>2 DEF StatusOf
    <3>4. First(i)' = First(i)
      BY <1>5, <2>2 DEF First
    <3> QED
      BY <1>3, <1>5, <3>2, <3>3, <3>4 DEF StatusOf
  <2> QED
    BY <2>1, <2>2
<1>8. ASSUME NEW j \in Ids PROVE StatusOf(j)'
  <2>1. CASE j = i
    BY <1>7, <2>1
  <2>2. CASE j # i
    <3>1. StatusOf(j)
      BY DEF StatusInv
    <3> QED
      BY <1>3, <1>4, <1>5, <2>2, <3>1, SameStatus
  <2> QED
    BY <2>1, <2>2
<1>9. ToldOfClosed'
  <2>1. ng[i] # "closed"
    BY <1>1 DEF Live
  <2> QED
    BY <1>1, <1>5, <2>1 DEF StatusInv, ToldOfClosed, Inv, TypeOK
<1>10. StatusInv'
  <2>1. FrameTold'
    BY <1>1, <1>5 DEF FrameTold
  <2>2. ResponseFields'
    BY <1>1 DEF ResponseFields
  <2> QED
    BY <1>8, <1>9, <2>1, <2>2 DEF StatusInv
<1>11. \A j \in Ids : LifeOf(j)' = LifeOf(j)
  BY <1>1, <1>5 DEF LifeOf, Live
<1>12. LifeOf(i) = "live"
  BY <1>1 DEF LifeOf, Live
<1>13. \A j \in Ids : j # i => told'[j].phase = told[j].phase
  BY <1>5
<1>14. [Answers!Next]_(Answers!exchangeVars)
  BY <1>1, <1>3, <1>11, <1>12, <1>13, Moves
<1> QED
  BY <1>10, <1>14 DEF Follows

LEMMA BeginResponseFollows ==
  ASSUME Inv, StatusInv, NEW i \in Ids, BeginInfo(i) \/ BeginFinal(i) \/ BeginTrailers(i)
  PROVE  Follows
<1>1. told[i] \in Told /\ StatusOf(i)
  BY DEF Inv, TypeOK, StatusInv
<1>2. CASE BeginInfo(i)
  <2> DEFINE p == [told[i] EXCEPT !.phase = "info", !.info = TRUE]
             f == <<Field(":status", 100)>>
  <2>1. /\ p \in Told /\ p.phase = "info" /\ p.status = told[i].status
        /\ p.status \in {0, 200} /\ told[i].phase = "none"
    BY <1>1, <1>2 DEF Told, Phases, StatusOf, BeginInfo
  <2>2. p.info
    BY <1>1 DEF Told
  <2>3. Head(f).name = ":status" /\ Head(f).value = 100
    BY DEF Field
  <2>4. onBeginHeadersCallback(i, f, FALSE, p)
    BY <1>2 DEF BeginInfo
  <2> HIDE DEF p, f
  <2>5. f = <<Field(":status", 100)>>
    BY DEF f
  <2>6. Head(f).value = IF p.info THEN 100 ELSE 200
    BY <2>2, <2>3
  <2>7. p.phase # "none"
    BY <2>1
  <2> QED
    BY <2>1, <2>3, <2>4, <2>5, <2>6, <2>7, BeginHeadersFollows
<1>3. CASE BeginFinal(i)
  <2> DEFINE f == <<Field(":status", 200), Field("content-type", 1)>>
             ph(e) == IF e THEN "ended" ELSE "final"
             p(e) == [told[i] EXCEPT !.phase = ph(e), !.status = 200]
  <2>1. PICK e \in BOOLEAN : onBeginHeadersCallback(i, f, e, p(e))
    BY <1>3 DEF BeginFinal
  <2>2. ph(e) \in Phases /\ ph(e) # "none"
    BY DEF Phases
  <2> HIDE DEF ph
  <2>3. p(e) \in Told /\ p(e).phase # "none" /\ p(e).status = 200
    BY <1>1, <2>2 DEF Told
  <2>4. p(e).info = told[i].info
    BY <1>1 DEF Told
  <2>5. told[i].phase = "none" => ~p(e).info
    BY <1>1, <2>4 DEF StatusOf
  <2>6. Head(f).name = ":status" /\ Head(f).value = 200
    BY DEF Field
  <2> HIDE DEF p, f
  <2>7. f = <<Field(":status", 200), Field("content-type", 1)>>
    BY DEF f
  <2> QED
    BY <2>1, <2>3, <2>4, <2>5, <2>6, <2>7, BeginHeadersFollows
<1>4. CASE BeginTrailers(i)
  <2> DEFINE p == [told[i] EXCEPT !.phase = "ended"]
             f == <<Field("trailer", 1)>>
  <2>1. /\ p \in Told /\ p.phase = "ended" /\ p.status = told[i].status
        /\ p.status \in {0, 200} /\ told[i].phase = "final"
    BY <1>1, <1>4 DEF Told, Phases, StatusOf, BeginTrailers
  <2>2. p.info = told[i].info
    BY <1>1 DEF Told
  <2>3. onBeginHeadersCallback(i, f, TRUE, p)
    BY <1>4 DEF BeginTrailers
  <2> HIDE DEF p
  <2> QED
    BY <2>1, <2>2, <2>3, BeginHeadersFollows
<1> QED
  BY <1>2, <1>3, <1>4

\* A field of a response.  The status of the first HEADERS is saved, and no
\* other field, of that HEADERS or of a later one, is a status that is saved.
LEMMA HeaderOfResponseFollows ==
  ASSUME Inv, StatusInv, onHeaderCallback, frame.type = "HEADERS"
  PROVE  Follows
<1>0. PICK i \in Ids : i = frame.id
  BY DEF Inv, FrameLive
<1> DEFINE f == Head(frame.left)
<1>1. /\ i \in Ids /\ ng[i] \in Live /\ i \in known /\ strm[i] \in StreamObjects
  BY <1>0, LiveKnown DEF Inv, TypeOK, FrameLive, Live, Gone
<1>2. /\ frame.left # <<>> /\ HeaderOfResponse
      /\ UNCHANGED <<ng, told, notified>>
      /\ frame'.type = "HEADERS" /\ frame'.id = i /\ frame'.cat = frame.cat
      /\ frame'.left = Tail(frame.left)
  BY <1>0 DEF onHeaderCallback, ngVars, Inv, TypeOK, FrameRecords
<1>3. /\ f \in Fields
      /\ frame'.left \in {<<>>, <<Field("content-type", 1)>>}
  <2>1. f \in Fields
    BY <1>2 DEF Inv, TypeOK, FrameRecords
  <2>2. /\ \A a : Tail(<<a>>) = <<>>
        /\ \A a, b : Tail(<<a, b>>) = <<b>>
    OBVIOUS
  <2>3. frame.left \in {<<Field(":status", 100)>>,
                        <<Field(":status", 200), Field("content-type", 1)>>,
                        <<Field("content-type", 1)>>, <<Field("trailer", 1)>>}
    BY <1>2 DEF StatusInv, ResponseFields
  <2>4. Tail(frame.left) \in {<<>>, <<Field("content-type", 1)>>}
    BY <2>2, <2>3
  <2>5. frame'.left \in {<<>>, <<Field("content-type", 1)>>}
    BY <1>2, <2>4
  <2> QED
    BY <2>1, <2>5
<1>4. \A j \in Ids : ~StatusDue(j)'
  BY <1>3 DEF StatusDue, Field
<1>5. \A j \in Ids : j # i => ~StatusDue(j)
  BY <1>0 DEF StatusDue
<1>6. StatusDue(i) <=> frame.cat # "HEADERS" /\ f.name = ":status"
  BY <1>0, <1>2 DEF StatusDue
<1>7. /\ SaveHeader(strm[i], f).chunks = strm[i].chunks
      /\ SaveHeader(strm[i], f).status = IF f.name = ":status" THEN f.value
                                         ELSE strm[i].status
  <2>1. SaveHeader(strm[i], f).chunks = strm[i].chunks
    BY <1>1, <1>3, SaveHeaderType
  <2>2. CASE f.name = ":status"
    BY <1>1, <2>2 DEF SaveHeader, StreamObjects
  <2>3. CASE f.name # ":status"
    <3>1. \A g : [strm[i] EXCEPT !.fields = @ \cup {g}].status = strm[i].status
      BY <1>1 DEF StreamObjects
    <3> QED
      BY <2>3, <3>1 DEF SaveHeader
  <2> QED
    BY <2>1, <2>2, <2>3
<1>8. strm' = IF frame.cat = "HEADERS" THEN strm
              ELSE [strm EXCEPT ![i] = SaveHeader(strm[i], f)]
  BY <1>0, <1>1, <1>2 DEF HeaderOfResponse, Inv, TypeOK
<1>9. \A j \in Ids : /\ strm'[j].chunks = strm[j].chunks
                     /\ j # i => strm'[j].status = strm[j].status
  BY <1>1, <1>7, <1>8 DEF Inv, TypeOK
<1>10. strm'[i].status = IF StatusDue(i) THEN f.value ELSE strm[i].status
  BY <1>1, <1>6, <1>7, <1>8 DEF Inv, TypeOK
<1>11. \A j \in Ids : LifeOf(j)' = LifeOf(j)
  BY <1>2 DEF LifeOf
<1>12. ResponseFields' /\ FrameTold' /\ ToldOfClosed'
  <2>1. ResponseFields'
    BY <1>3 DEF ResponseFields
  <2>2. FrameTold'
    BY <1>0, <1>2 DEF StatusInv, FrameTold
  <2>3. ToldOfClosed'
    BY <1>2 DEF StatusInv, ToldOfClosed
  <2> QED
    BY <2>1, <2>2, <2>3
<1>13. ASSUME NEW j \in Ids, j # i PROVE StatusOf(j)'
  <2>1. StatusOf(j) /\ told' = told /\ ng' = ng
    BY <1>2 DEF StatusInv
  <2> HIDE DEF f
  <2> QED
    BY <1>4, <1>5, <1>9, <1>13, <2>1, SameStatus
<1>14. told[i].phase # "none"
  BY <1>0 DEF StatusInv, FrameTold
<1>15. CASE StatusDue(i)
  <2>1. strm[i].status = 0 /\ f.value = First(i)
    BY <1>1, <1>14, <1>15 DEF StatusInv, StatusOf
  <2>2. First(i)' = First(i) /\ First(i) \in {100, 200}
    BY <1>2 DEF First
  <2>3. StatusOf(i)'
    BY <1>1, <1>2, <1>4, <1>10, <1>14, <1>15, <2>1, <2>2 DEF StatusInv, StatusOf
  <2>4. \A j \in Ids : StatusOf(j)'
    BY <1>13, <2>3
  <2>5. LifeOf(i) = "live"
    BY <1>1 DEF LifeOf, Live
  <2>6. strm'[i].status \in {100, 200}
    BY <1>10, <1>15, <2>1, <2>2
  <2>7. notified' = notified /\ told' = told
    BY <1>2
  <2> HIDE DEF f
  <2>8. Answers!Next
    BY <1>1, <1>9, <1>11, <2>1, <2>5, <2>6, <2>7, IsAnswered
  <2> QED
    BY <1>12, <2>4, <2>8 DEF Follows, StatusInv
<1>16. CASE ~StatusDue(i)
  <2>1. strm'[i].status = strm[i].status
    BY <1>10, <1>16
  <2>2. told' = told /\ ng' = ng /\ StatusOf(i)
    BY <1>1, <1>2 DEF StatusInv
  <2> HIDE DEF f
  <2>3. StatusOf(i)'
    BY <1>1, <1>4, <1>16, <2>1, <2>2, SameStatus
  <2>4. \A j \in Ids : StatusOf(j)'
    BY <1>13, <2>3
  <2>5. UNCHANGED Answers!exchangeVars
    BY <1>2, <1>9, <1>11, <2>1, Stutters
  <2> QED
    BY <1>12, <2>4, <2>5 DEF Follows, StatusInv
<1> QED
  BY <1>15, <1>16

\* A field of a PUSH_PROMISE goes to the promised Request.
LEMMA HeaderOfPromiseFollows ==
  ASSUME Inv, StatusInv, onHeaderCallback, frame.type = "PUSH_PROMISE"
  PROVE  Follows
<1>1. /\ UNCHANGED <<ng, told, notified>> /\ HeaderOfPromise
      /\ frame'.type = "PUSH_PROMISE"
  BY DEF onHeaderCallback, ngVars, Inv, TypeOK, FrameRecords
<1>2. \A s \in StreamObjects : \A st :
          /\ [s EXCEPT !.state = st, !.req = TRUE].status = s.status
          /\ [s EXCEPT !.state = st, !.req = TRUE].chunks = s.chunks
  BY DEF StreamObjects
<1>3. \A j \in Ids : /\ strm'[j].status = strm[j].status
                     /\ strm'[j].chunks = strm[j].chunks
  BY <1>1, <1>2 DEF HeaderOfPromise, Inv, TypeOK
<1>4. \A j \in Ids : ~StatusDue(j) /\ ~StatusDue(j)'
  BY <1>1 DEF StatusDue
<1>5. ASSUME NEW j \in Ids PROVE StatusOf(j)'
  <2>1. StatusOf(j) /\ told' = told /\ ng' = ng
    BY <1>1 DEF StatusInv
  <2> QED
    BY <1>3, <1>4, <2>1, SameStatus
<1>6. StatusInv'
  BY <1>1, <1>5 DEF StatusInv, ResponseFields, FrameTold, ToldOfClosed
<1>7. \A j \in Ids : LifeOf(j)' = LifeOf(j)
  BY <1>1 DEF LifeOf
<1>8. UNCHANGED Answers!exchangeVars
  BY <1>1, <1>3, <1>7, Stutters
<1> QED
  BY <1>6, <1>8 DEF Follows

\* A DATA frame begins.
LEMMA BeginDataFollows ==
  ASSUME Inv, StatusInv, NEW i \in Ids, BeginData(i)
  PROVE  Follows
<1>1. /\ frame = NoFrame /\ told[i].phase = "final" /\ told[i] \in Told
      /\ UNCHANGED <<strm, ng, notified>>
      /\ frame'.type = "DATA" /\ frame'.id = i
      /\ ng[i] \in Live
  BY DEF BeginData, Receiving, Inv, TypeOK, mapVars, ngVars, cbVars, NoFrame
<1>2. /\ told'[i].phase \in {"final", "ended"}
      /\ told'[i].info = told[i].info /\ told'[i].status = told[i].status
      /\ \A j \in Ids : j # i => told'[j] = told[j]
  BY <1>1 DEF BeginData, Inv, TypeOK, Told
<1>3. \A j \in Ids : ~StatusDue(j) /\ ~StatusDue(j)'
  BY <1>1, NoFrameType DEF StatusDue
<1>4. ASSUME NEW j \in Ids PROVE StatusOf(j)'
  <2>1. StatusOf(j) /\ strm' = strm /\ ng' = ng
    BY <1>1 DEF StatusInv
  <2>2. \/ told'[j].phase = told[j].phase
        \/ {told[j].phase, told'[j].phase} \cap {"none"} = {}
    BY <1>1, <1>2
  <2>3. told'[j].info = told[j].info /\ told'[j].status = told[j].status
    BY <1>2
  <2> QED
    BY <1>3, <2>1, <2>2, <2>3, SameStatus
<1>5. FrameTold'
  BY <1>1, <1>2 DEF FrameTold
<1>6. StatusInv'
  BY <1>1, <1>4, <1>5 DEF StatusInv, ResponseFields, ToldOfClosed
<1>7. \A j \in Ids : LifeOf(j)' = LifeOf(j)
  BY <1>1 DEF LifeOf
<1>8. LifeOf(i) = "live" /\ told[i].phase # "ended"
  BY <1>1 DEF LifeOf, Live
<1>9. \A j \in Ids : j # i => told'[j].phase = told[j].phase
  BY <1>2
<1>10. [Answers!Next]_(Answers!exchangeVars)
  BY <1>1, <1>7, <1>8, <1>9, Moves
<1> QED
  BY <1>6, <1>10 DEF Follows

\* A chunk: its stream has a status by now.
LEMMA DataChunkFollows ==
  ASSUME Inv, StatusInv, onDataChunkRecvCallback
  PROVE  Follows
<1>0. PICK i \in Ids : i = frame.id
  BY DEF Inv, FrameLive, onDataChunkRecvCallback
<1>1. /\ ng[i] \in Live /\ i \in known /\ frame.type = "DATA"
      /\ UNCHANGED <<ng, frame, notified>>
  BY <1>0, LiveKnown DEF Inv, FrameLive, Live, Gone, ngVars, onDataChunkRecvCallback
<1>2. /\ told[i] \in Told /\ strm[i] \in StreamObjects
      /\ strm[i].chunks = told[i].chunks
  BY DEF Inv, TypeOK, BodyIntact
<1> DEFINE more == Append(told[i].chunks, Len(told[i].chunks) + 1)
<1>3. /\ told' = [told EXCEPT ![i] = [told[i] EXCEPT !.chunks = more]]
      /\ strm' = [strm EXCEPT ![i] = [strm[i] EXCEPT !.chunks = more]]
  BY <1>0, <1>1, <1>2 DEF onDataChunkRecvCallback, Inv, TypeOK
<1> HIDE DEF more
<1>4. /\ strm'[i].chunks = more /\ strm'[i].status = strm[i].status
      /\ \A j \in Ids : j # i => strm'[j] = strm[j]
  BY <1>2, <1>3 DEF Inv, TypeOK, StreamObjects
<1>5. \A j \in Ids : /\ told'[j].phase = told[j].phase
                     /\ told'[j].info = told[j].info /\ told'[j].status = told[j].status
  BY <1>2, <1>3 DEF Inv, TypeOK, Told
<1>6. \A j \in Ids : ~StatusDue(j) /\ (StatusDue(j)' <=> StatusDue(j))
  BY <1>1 DEF StatusDue
<1>7. ASSUME NEW j \in Ids PROVE StatusOf(j)'
  <2>1. StatusOf(j) /\ ng' = ng
    BY <1>1 DEF StatusInv
  <2>2. strm'[j].status = strm[j].status
    BY <1>4
  <2>3. ~StatusDue(j) /\ (StatusDue(j)' <=> StatusDue(j))
    BY <1>6
  <2> QED
    BY <1>5, <2>1, <2>2, <2>3, SameStatus
<1>8. StatusInv'
  BY <1>0, <1>1, <1>5, <1>7 DEF StatusInv, ResponseFields, FrameTold, ToldOfClosed
<1>9. \A j \in Ids : LifeOf(j)' = LifeOf(j)
  BY <1>1 DEF LifeOf
<1>10. LifeOf(i) = "live"
  BY <1>1 DEF LifeOf, Live
<1>11. strm[i].status # 0
  BY <1>0, <1>1, <1>6 DEF StatusInv, StatusOf, FrameTold, First
<1>12. strm'[i].chunks = Append(strm[i].chunks, Len(strm[i].chunks) + 1)
  BY <1>2, <1>4 DEF more
<1>13. notified' = notified
  BY <1>1
<1>14. Answers!Next
  BY <1>4, <1>5, <1>9, <1>10, <1>11, <1>12, <1>13, Grows
<1> QED
  BY <1>8, <1>14 DEF Follows

\* A stream closes: the user is told, and the Response stays as it is.
LEMMA StreamCloseFollows ==
  ASSUME Inv, StatusInv, NEW i \in Ids, onStreamCloseCallback(i),
         ng[i] \notin Gone
  PROVE  Follows
<1>1. i \in known
  BY LiveKnown DEF Inv
<1>2. /\ ng' = [ng EXCEPT ![i] = "closed"]
      /\ strm' = [strm EXCEPT ![i].state = "Closed"]
      /\ notified' = Append(notified, i)
      /\ UNCHANGED <<told, frame>>
  BY <1>1 DEF onStreamCloseCallback, ReadyCallback
<1>3. \A s \in StreamObjects : /\ [s EXCEPT !.state = "Closed"].status = s.status
                               /\ [s EXCEPT !.state = "Closed"].chunks = s.chunks
  BY DEF StreamObjects
<1>4. /\ \A j \in Ids : /\ strm'[j].status = strm[j].status
                        /\ strm'[j].chunks = strm[j].chunks
                        /\ j # i => ng'[j] = ng[j]
      /\ ng'[i] = "closed"
  BY <1>2, <1>3 DEF Inv, TypeOK
<1>5. \A j \in Ids : StatusDue(j)' <=> StatusDue(j)
  BY <1>2 DEF StatusDue
<1>6. ASSUME NEW j \in Ids PROVE StatusOf(j)'
  <2>1. StatusOf(j) /\ told' = told /\ frame' = frame
    BY <1>2 DEF StatusInv
  <2>2. First(j)' = First(j)
    BY <2>1 DEF First
  <2>3. CASE j # i
    BY <1>4, <1>5, <2>1, <2>3, SameStatus
  <2>4. CASE j = i
    BY <1>4, <1>5, <2>1, <2>2, <2>4 DEF StatusOf
  <2> QED
    BY <2>3, <2>4
<1>7. ToldOfClosed'
  <2>1. notified \in Seq(Ids)
    BY DEF Inv, TypeOK
  <2>2. ASSUME NEW k \in DOMAIN notified' PROVE ng'[notified'[k]] = "closed"
    <3>1. CASE k = Len(notified) + 1
      BY <1>2, <1>4, <2>1, <3>1
    <3>2. CASE k # Len(notified) + 1
      <4>1. k \in DOMAIN notified /\ notified'[k] = notified[k] /\ notified[k] \in Ids
        BY <1>2, <2>1, <3>2
      <4>2. ng[notified[k]] = "closed"
        BY <4>1 DEF StatusInv, ToldOfClosed
      <4> QED
        BY <1>4, <4>1, <4>2
    <3> QED
      BY <3>1, <3>2
  <2> QED
    BY <2>2 DEF ToldOfClosed
<1>8. StatusInv'
  BY <1>2, <1>6, <1>7 DEF StatusInv, ResponseFields, FrameTold
<1>9. /\ LifeOf(i) = "live" /\ LifeOf(i)' = "over"
      /\ \A j \in Ids : j # i => LifeOf(j)' = LifeOf(j)
  BY <1>4 DEF LifeOf, Gone
<1>10. notified' = Append(notified, i)
  BY <1>2
<1>11. Answers!Next
  BY <1>2, <1>4, <1>9, <1>10, Ends
<1> QED
  BY <1>8, <1>11 DEF Follows

\* An RST_STREAM closes the stream, or makes a Stream that is nobody's answer.
LEMMA SendResetFollows ==
  ASSUME Inv, StatusInv, NEW i \in Ids, SendReset(i)
  PROVE  Follows
<1>1. CASE ng[i] \in Live
  BY <1>1, StreamCloseFollows DEF SendReset, Live, Gone
<1>2. CASE ng[i] \notin Live
  <2>1. i \notin known
    BY <1>2 DEF SendReset, Inv, ResetsKnown, TableAgrees, Gone
  <2>2. UNCHANGED <<strm, ng, told, frame, notified>>
    BY <1>2, <2>1 DEF SendReset, beforeFrameSendCallback, cbVars
  <2> QED
    BY <2>2, QuietFollows
<1> QED
  BY <1>1, <1>2

\* Every step of SessionCallbacks is one of Exchange, or none.
LEMMA NextFollows == Inv /\ StatusInv /\ [Next]_vars => Follows
<1> SUFFICES ASSUME Inv, StatusInv, [Next]_vars PROVE Follows
  OBVIOUS
<1>1. CASE onHeaderCallback
  BY <1>1, HeaderOfResponseFollows, HeaderOfPromiseFollows DEF onHeaderCallback
<1>2. CASE UNCHANGED vars
  BY <1>2, QuietFollows DEF vars, mapVars, ngVars, cbVars
<1>3. ASSUME NEW i \in Requests, Submit(i) \/ SendHeaders(i) PROVE Follows
  BY <1>3, SubmitFollows, SendHeadersFollows
<1>4. ASSUME NEW i \in Requests, StreamRefused(i) PROVE Follows
  BY <1>4, StreamCloseFollows DEF StreamRefused, Ids, Gone
<1>5. ASSUME NEW i \in Ids, BeginInfo(i) \/ BeginFinal(i) \/ BeginTrailers(i)
      PROVE  Follows
  BY <1>5, BeginResponseFollows
<1>6. ASSUME NEW i \in Ids, StreamEnds(i) \/ StreamReset(i) PROVE Follows
  BY <1>6, StreamCloseFollows DEF StreamEnds, StreamReset, Live, Gone
<1> QED
  BY <1>1, <1>2, <1>3, <1>4, <1>5, <1>6, SendFollows, SendControlFollows,
     BeginPromiseFollows, RefusePromiseFollows, QueueResetFollows, SendResetFollows, BeginDataFollows, DataChunkFollows, FrameRecvFollows,
     RecvGoAwayFollows DEF Next
-----------------------------------------------------------------------------
(* The theorems                                                            *)

LEMMA InitFollows == Init => StatusInv /\ Answers!Init
<1> SUFFICES ASSUME Init PROVE StatusInv /\ Answers!Init
  OBVIOUS
<1>1. NewStream.status = 0 /\ NewStream.chunks = <<>>
  BY DEF NewStream
<1>2. ~\E i \in Ids : StatusDue(i)
  BY NoFrameType DEF Init, StatusDue
<1>3. \A i \in Ids : StatusOf(i)
  BY <1>1 DEF Init, StatusOf
<1>4. StatusInv
  BY <1>3, NoFrameType DEF Init, StatusInv, ResponseFields, FrameTold, ToldOfClosed
<1>5. /\ [i \in Ids |-> LifeOf(i)] = [i \in Ids |-> "none"]
      /\ [i \in Ids |-> strm[i].status] = [i \in Ids |-> 0]
      /\ [i \in Ids |-> strm[i].chunks] = [i \in Ids |-> <<>>]
      /\ [i \in Ids |-> told[i].phase = "ended"] = [i \in Ids |-> FALSE]
  BY <1>1 DEF Init, LifeOf
<1>6. Answers!Init
  BY <1>5 DEF Init, Answers!Init
<1> QED
  BY <1>4, <1>6

LEMMA StatusSafe == Spec => [](Inv /\ StatusInv)
<1>1. Inv /\ StatusInv /\ [Next]_vars => (Inv /\ StatusInv)'
  BY NextInv, NextFollows DEF Follows
<1>2. Init => Inv /\ StatusInv
  BY InitInv, InitFollows
<1> QED
  BY <1>1, <1>2, PTL DEF Spec

\* The status the user is given is the one of the server's answer, whatever
\* trailers, pushes and resets come with it.
THEOREM StatusIsIntact == Spec => []StatusIntact
<1>1. Inv /\ StatusInv => StatusIntact
  <2> SUFFICES ASSUME Inv, StatusInv, NEW k \in DOMAIN notified,
                      told[notified[k]].status # 0, ~told[notified[k]].info
               PROVE  strm[notified[k]].status = told[notified[k]].status
    BY DEF StatusIntact
  <2> DEFINE i == notified[k]
  <2>1. i \in Ids /\ ng[i] = "closed"
    BY DEF Inv, TypeOK, StatusInv, ToldOfClosed
  <2>2. ~StatusDue(i)
    BY <2>1 DEF Inv, FrameLive, Live, StatusDue
  <2>3. StatusOf(i)
    BY <2>1 DEF StatusInv
  <2> HIDE DEF i
  <2>4. told[i].status = 200 /\ strm[i].status = First(i)
    BY <2>2, <2>3 DEF StatusOf, i
  <2> QED
    BY <2>4 DEF First, i
<1> QED
  BY <1>1, StatusSafe, PTL

\* SessionCallbacks implements Exchange.
THEOREM AnswersAreKept == Spec => AnswersKept
<1>1. Init => Answers!Init
  BY InitFollows
<1>2. Inv /\ StatusInv /\ [Next]_vars => [Answers!Next]_(Answers!exchangeVars)
  BY NextFollows DEF Follows
<1> QED
  BY <1>1, <1>2, StatusSafe, PTL DEF Spec, AnswersKept, Answers!Spec
=============================================================================
