----------------------------- MODULE OutputPipe -----------------------------
(***************************************************************************)
(* What a session promises of its output, whatever happens between nghttp2 *)
(* and the socket: the socket is given the bytes nghttp2 makes, in the     *)
(* order it makes them, none skipped and none twice, until the connection  *)
(* is lost; and nghttp2 never runs further ahead of a connected peer than  *)
(* `Limit' bytes, however slow the socket is.  Only before the first of    *)
(* them may other bytes come, as many as a number in `Junk' says.          *)
(***************************************************************************)
EXTENDS Naturals, Sequences

CONSTANTS
    Burst,  \* most bytes made at once
    Limit,  \* most bytes made and not delivered
    Junk    \* how many meaningless bytes, 0, may come first

VARIABLES
    made,   \* number of bytes nghttp2 has made
    got,    \* what the socket was given; byte k of the output is the number k
    cut     \* the connection is lost

pipeVars == <<made, got, cut>>

\* j meaningless bytes, then the n that follow the first m.
Piece(j, m, n) == [k \in 1..(j + n) |-> IF k =< j THEN 0 ELSE m + (k - j)]

\* The number of bytes delivered is the number of the last one.
Delivered(s) == IF s = <<>> THEN 0 ELSE s[Len(s)]

Init == made = 0 /\ got = <<>> /\ cut = FALSE

Make ==
    /\ \E n \in 1..Burst : made' = made + n
    /\ cut \/ made' =< Delivered(got) + Limit
    /\ UNCHANGED <<got, cut>>

Deliver ==
    /\ ~cut
    /\ \E j \in IF got = <<>> THEN Junk ELSE {0}, n \in 0..(made - Delivered(got)) :
         got' = got \o Piece(j, Delivered(got), n)
    /\ UNCHANGED <<made, cut>>

Cut ==
    /\ ~cut
    /\ cut' = TRUE
    /\ UNCHANGED <<made, got>>

Next == Make \/ Deliver \/ Cut

Spec == Init /\ [][Next]_pipeVars
=============================================================================
