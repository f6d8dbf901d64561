---------------------------- MODULE DrainContract ----------------------------
(***************************************************************************)
(* What a pipeline context promises to the threads that use it, with no    *)
(* node, queue, lock, dispatcher or list of requests:                      *)
(*                                                                         *)
(*   - a frame is in flight from the moment it is accepted until all its   *)
(*     buffers are released, and is in flight once;                        *)
(*   - a call that waits until the context is drained, on its own or as a  *)
(*     part of a flush, goes on only at a moment when no frame is in       *)
(*     flight.                                                             *)
(*                                                                         *)
(* PipelineContext implements this specification.                          *)
(***************************************************************************)
CONSTANTS
    Frame,      \* the frames
    Caller      \* the threads that call the context

VARIABLES
    inFlight,   \* the frames in flight
    done,       \* the frames that have been in flight
    waiting     \* the callers inside a call that waits until all is drained

vars == <<inFlight, done, waiting>>

Init == inFlight = {} /\ done = {} /\ waiting = {}

Accept(f) ==
    /\ f \notin inFlight \cup done
    /\ inFlight' = inFlight \cup {f}
    /\ UNCHANGED <<done, waiting>>

Release(f) ==
    /\ f \in inFlight
    /\ inFlight' = inFlight \ {f}
    /\ done' = done \cup {f}
    /\ UNCHANGED waiting

Wait(t) ==
    /\ t \notin waiting
    /\ waiting' = waiting \cup {t}
    /\ UNCHANGED <<inFlight, done>>

Drained(t) ==
    /\ t \in waiting
    /\ inFlight = {}
    /\ waiting' = waiting \ {t}
    /\ UNCHANGED <<inFlight, done>>

Next ==
    \/ \E f \in Frame : Accept(f) \/ Release(f)
    \/ \E t \in Caller : Wait(t) \/ Drained(t)

Spec == Init /\ [][Next]_vars
=============================================================================
