------------------------------ MODULE Exchange ------------------------------
(***************************************************************************)
(* What a connection promises of its answers, however the frames of its    *)
(* streams are mixed: a stream begins once; it has a status before it has  *)
(* a body, and a final status is never replaced (an interim one, 1xx, may  *)
(* be); the chunks of the body are numbered in the order the server sent   *)
(* them; when the stream ends the answer changes no more, and the user is  *)
(* told of it at most once: of a request whose answer is whole, certainly; *)
(* of another stream, perhaps.                                             *)
(***************************************************************************)
EXTENDS Naturals, Sequences

CONSTANTS
    Ids,     \* streams
    Asked,   \* those of the user's requests
    Interim, \* status codes that announce another
    Final    \* status codes that do not

VARIABLES
    life,    \* "none", "live" or "over"
    status,  \* status of the answer so far, 0 for none
    body,    \* chunks of the answer so far
    whole,   \* the server has sent all of the answer
    answers  \* streams the user was told of, in order

exchangeVars == <<life, status, body, whole, answers>>

Init ==
    /\ life = [i \in Ids |-> "none"]
    /\ status = [i \in Ids |-> 0]
    /\ body = [i \in Ids |-> <<>>]
    /\ whole = [i \in Ids |-> FALSE]
    /\ answers = <<>>

Begin(i) ==
    /\ life[i] = "none"
    /\ life' = [life EXCEPT ![i] = "live"]
    /\ UNCHANGED <<status, body, whole, answers>>

Answer(i) ==
    /\ life[i] = "live"
    /\ status[i] \notin Final
    /\ \E c \in Interim \cup Final : status' = [status EXCEPT ![i] = c]
    /\ UNCHANGED <<life, body, whole, answers>>

Chunk(i) ==
    /\ life[i] = "live"
    /\ status[i] # 0
    /\ body' = [body EXCEPT ![i] = Append(@, Len(@) + 1)]
    /\ UNCHANGED <<life, status, whole, answers>>

Complete(i) ==
    /\ life[i] = "live"
    /\ whole' = [whole EXCEPT ![i] = TRUE]
    /\ UNCHANGED <<life, status, body, answers>>

End(i) ==
    /\ life[i] = "live"
    /\ life' = [life EXCEPT ![i] = "over"]
    /\ \/ answers' = Append(answers, i)
       \/ ~(i \in Asked /\ whole[i]) /\ UNCHANGED answers
    /\ UNCHANGED <<status, body, whole>>

Next == \E i \in Ids : Begin(i) \/ Answer(i) \/ Chunk(i) \/ Complete(i) \/ End(i)

Spec == Init /\ [][Next]_exchangeVars
=============================================================================
