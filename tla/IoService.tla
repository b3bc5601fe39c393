----------------------------- MODULE IoService -----------------------------
(***************************************************************************)
(* The boost::asio::io_service an XMLHttpRequest owns, as the code in src/ *)
(* uses it (the library itself is external).                               *)
(*                                                                         *)
(* Completed and posted handlers wait in one FIFO, `ready'.  An operation  *)
(* that was started and has not completed is counted in `armed'.  run() is *)
(* executing while `runner' is TRUE; it returns when the service is        *)
(* stopped or has no work left, and in BOTH cases it leaves the service    *)
(* stopped, so that only reset() would let a later run() execute handlers. *)
(***************************************************************************)
EXTENDS Naturals, Sequences, FiniteSets

VARIABLES
    ready,       \* handlers that may run, oldest first
    armed,       \* operations under way, per kind
    svcStopped,  \* io_service::stopped()
    runner       \* some thread is inside io_service::run()

svcVars == <<ready, armed, svcStopped, runner>>

\* The asynchronous operations the program starts, and the jobs it posts.
OpKinds == {"read", "write", "ping", "timer"}
Jobs == {"connect", "fetch", "fetchWithBody"}

\* What a completion handler is told.
ErrorCodes == {"ok", "eof", "err", "aborted"}

Handler(op, ec) == [op |-> op, ec |-> ec]
Handlers == [op : OpKinds \cup Jobs, ec : ErrorCodes]

SvcInit(timer) ==
    /\ ready = <<>>
    /\ armed = [k \in OpKinds |-> IF k = "timer" /\ timer THEN 1 ELSE 0]
    /\ svcStopped = FALSE
    /\ runner = FALSE

SvcTypeOK ==
    /\ ready \in Seq(Handlers)
    /\ armed \in [OpKinds -> Nat]
    /\ svcStopped \in BOOLEAN
    /\ runner \in BOOLEAN

\* Starting one more operation of kind k.
Armed(k) == [armed EXCEPT ![k] = @ + 1]

\* One of them completes.  The thread inside run() finds that out, so not once
\* the service is stopped.
Complete(k, ec) ==
    /\ runner /\ ~svcStopped
    /\ armed[k] > 0
    /\ armed' = [armed EXCEPT ![k] = @ - 1]
    /\ ready' = Append(ready, Handler(k, ec))
    /\ UNCHANGED <<svcStopped, runner>>

\* A timer's cancel(): its handler, if one waits, is queued as aborted.
CancelledReady(k) ==
    IF armed[k] > 0 THEN Append(ready, Handler(k, "aborted")) ELSE ready

\* run() has nothing to wait for.
OutOfWork == ready = <<>> /\ \A k \in OpKinds : armed[k] = 0

\* Operations of kind k that are under way or whose handler has not run.
Waiting(k) == {j \in DOMAIN ready : ready[j].op = k}
Outstanding(k) == armed[k] + Cardinality(Waiting(k))
=============================================================================
