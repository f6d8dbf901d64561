---------------------------- MODULE FrameContract ----------------------------
(***************************************************************************)
(* What one pipeline frame promises to its nodes, to the buffer providers  *)
(* and to the application, with no item map, lock, collector or thread:    *)
(*                                                                         *)
(*   - a user gives a stream buffer up once, and never after the buffer    *)
(*     went back to where it came from;                                    *)
(*   - a Hal buffer goes back once, after all its users gave it up;        *)
(*   - output metadata reaches the application once, after every producer  *)
(*     of it gave it up;                                                   *)
(*   - the frame is announced as released once, after every user gave up   *)
(*     every buffer.                                                       *)
(*                                                                         *)
(* PipelineFrame implements this specification.                            *)
(***************************************************************************)
EXTENDS Integers

CONSTANTS
    Node,       \* the users of the frame
    Stream,     \* the streams of the frame
    Users,      \* Users[s] is the set of nodes that read or write stream s
    Producers   \* Producers[s] is the set of nodes that write stream s

VARIABLES
    released,       \* released[s]: the users that have given s up
    returned,       \* returned[s]: how often the buffer of s was given back
    delivered,      \* delivered[s]: how often the metadata of s was delivered
    frameReleased   \* how often the frame was announced as released

vars == <<released, returned, delivered, frameReleased>>

Init ==
    /\ released = [s \in Stream |-> {}]
    /\ returned = [s \in Stream |-> 0]
    /\ delivered = [s \in Stream |-> 0]
    /\ frameReleased = 0

Release(s, n) ==
    /\ n \in Users[s] \ released[s]
    /\ returned[s] = 0
    /\ released' = [released EXCEPT ![s] = @ \cup {n}]
    /\ UNCHANGED <<returned, delivered, frameReleased>>

Return(s) ==
    /\ Users[s] \subseteq released[s]
    /\ returned[s] = 0
    /\ returned' = [returned EXCEPT ![s] = 1]
    /\ UNCHANGED <<released, delivered, frameReleased>>

\* One callback may deliver the metadata of several streams.
Deliver(S) ==
    /\ \A s \in S : Producers[s] \subseteq released[s] /\ delivered[s] = 0
    /\ delivered' = [s \in Stream |-> IF s \in S THEN 1 ELSE delivered[s]]
    /\ UNCHANGED <<released, returned, frameReleased>>

FrameReleased ==
    /\ \A s \in Stream : Users[s] \subseteq released[s]
    /\ frameReleased = 0
    /\ frameReleased' = 1
    /\ UNCHANGED <<released, returned, delivered>>

Next ==
    \/ \E s \in Stream, n \in Node : Release(s, n)
    \/ \E s \in Stream : Return(s)
    \/ \E S \in SUBSET Stream : Deliver(S)
    \/ FrameReleased

Spec == Init /\ [][Next]_vars
=============================================================================
