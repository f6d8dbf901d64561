--------------------------- MODULE PipelineContext ---------------------------
(***************************************************************************)
(* The pipeline context at run time: frames are registered as in flight,   *)
(* queued to the root node, worked on by the threads of the nodes, handed  *)
(* on by the dispatcher, flushed, and waited for.                          *)
(*                                                                         *)
(* The inside of a frame is that of module PipelineFrame.  Here a node     *)
(* owes a frame two things, its output images and its output metadata, and *)
(* gives them up in calls of applyRelease; what those calls announce       *)
(* reaches the list of requests in flight.                                 *)
(*                                                                         *)
(* flush(frame) of a node runs in the thread that calls it and goes down   *)
(* the graph by recursion: a thread is at one node of one frame, at[t],    *)
(* and the calls it will return to are those on the way from there back to *)
(* the node it began at, Base(t).  All calls but the first run with the    *)
(* flush lock of the dispatcher held for reading.                          *)
(***************************************************************************)
EXTENDS Integers, Sequences, FiniteSets

CONSTANTS
    Node,           \* the nodes of the pipeline, each with a thread
    Edge,           \* the edges of the pipeline graph
    Root,           \* the root node
    Toposort,       \* the nodes in the order getToposort gives them
    Frame,          \* the frames, by frame number
    NodesOf,        \* NodesOf[f]: the nodes in the graph of frame f
    Caller,         \* the threads that use the context
    May,            \* May[t]: the calls that caller t makes
    NodeTargets,    \* the nodes a caller waits for and flushes on their own
    OutNode,        \* the nodes with output streams
    Staged,         \* nodes that may release images and metadata apart
    Unawaited,      \* nodes whose flush() does not wait for their thread
    Signalling,     \* nodes whose thread signals one waiter, not all
    Dropping,       \* nodes that drop a frame whose input was not produced
    None            \* no frame, no node

Calls == {"queue", "flush", "wait", "node"}
Parts == {"meta", "image"}
Messages == Parts \cup {"frame"}

ASSUME ContextAssumption ==
    /\ IsFiniteSet(Node)
    /\ Root \in Node
    /\ Edge \subseteq Node \X Node
    /\ \A n \in Node \ {Root} : \E e \in Edge : e[2] = n
    /\ \A e \in Edge : e[2] # Root
    /\ \A e, f \in Edge : e[2] = f[2] => e = f       \* a tree
    /\ Toposort \in Seq(Node)
    /\ \A n \in Node : \E i \in DOMAIN Toposort : Toposort[i] = n
    /\ Frame \subseteq Nat
    /\ NodesOf \in [Frame -> SUBSET Node]
    /\ \A f \in Frame : /\ Root \in NodesOf[f]
                        /\ \A e \in Edge : e[2] \in NodesOf[f] => e[1] \in NodesOf[f]
    /\ Caller \cap Node = {}
    /\ May \in [Caller -> SUBSET Calls]
    /\ NodeTargets \subseteq Node
    /\ OutNode \subseteq Node
    /\ Staged \cup Unawaited \cup Signalling \cup Dropping \subseteq Node
    /\ None \notin Node \cup Frame

Children(f, n) == {m \in NodesOf[f] : <<n, m>> \in Edge}
Parent(n) == CHOOSE m \in Node : <<m, n>> \in Edge
Thread == Node \cup Caller

VARIABLES
    \* requests in flight
    registered,     \* the frames that queue() has registered
    mRequest,       \* the frames not known to be released
    mRequestMap,    \* mRequestMap[k][n]: those whose part k of n is not known
                    \* to be released (mRequestMap_meta, mRequestMap_image)
    unreleased,     \* unreleased[f]: the parts <<n, k>> not released in f
    \* flush flags
    mInFlush,       \* the flag of the context
    mDispatchFlush, \* the flag of the dispatcher (its mInFlush)
    \* nodes
    mRequestQueue,  \* mRequestQueue[n]: the frames in the queue of n, which is
                    \* sorted by frame number
    mbRequestDrained, \* the nodes with mbRequestDrained set
    asleep,         \* the nodes whose thread waits for a request
    \* threads
    job,            \* job[t]: the frame t has in hand
    at,             \* at[t]: the node at which t works on it or flushes it
    messages,       \* messages[t]: what t has to tell about it
    next,           \* next[t]: the node whose queue t waits to enter
    toHand,         \* toHand[f]: the nodes f is yet to be handed to
    pc,             \* pc[t]: where caller t is
    op,             \* op[t]: the wait the call of t has still before it
    route,          \* route[t]: the nodes caller t has yet to flush
    \* history
    times,          \* times[f][n]: how often n was given f to work on or flush
    unproduced,     \* unproduced[f]: the nodes ahead of a dropping one that
                    \* gave f up in flush, so that their outputs are in error
    dropped         \* the frames that a node has dropped

requests == <<registered, mRequest, mRequestMap>>
flags == <<mInFlush, mDispatchFlush>>
nodes == <<mRequestQueue, mbRequestDrained, asleep>>
hands == <<job, at, next, toHand, times>>
callers == <<pc, op, route>>
faults == <<unproduced, dropped>>
vars == <<requests, unreleased, flags, nodes, hands, messages, callers, faults>>

Init ==
    /\ registered = {}
    /\ mRequest = {}
    /\ mRequestMap = [k \in Parts |-> [n \in Node |-> {}]]
    /\ unreleased = [f \in Frame |-> NodesOf[f] \X Parts]
    /\ mInFlush = FALSE
    /\ mDispatchFlush = FALSE
    /\ mRequestQueue = [n \in Node |-> {}]
    /\ mbRequestDrained = {}
    /\ asleep = {}
    /\ job = [t \in Thread |-> None]
    /\ at = [t \in Thread |-> None]
    /\ messages = [t \in Thread |-> {}]
    /\ next = [t \in Thread |-> None]
    /\ toHand = [f \in Frame |-> {}]
    /\ pc = [t \in Caller |-> "idle"]
    /\ op = [t \in Caller |-> "none"]
    /\ route = [t \in Caller |-> <<>>]
    /\ times = [f \in Frame |-> [n \in Node |-> 0]]
    /\ unproduced = [f \in Frame |-> {}]
    /\ dropped = {}

-----------------------------------------------------------------------------
(* Locks.                                                                  *)

Base(t) == IF t \in Node THEN t
           ELSE IF pc[t] = "clear" THEN Head(route[t]) ELSE Root

\* t reads the flag of the dispatcher: its mFlushLock is held.
Dispatching(t) == at[t] # None /\ (at[t] # Base(t) \/ next[t] # None)
DispatcherBusy == \E t \in Thread : Dispatching(t)

\* mFlushLock of the context is held for reading while queue() hands a frame over.
ContextBusy == \E t \in Caller : pc[t] \in {"enter", "through"}

\* Mutant: flush() takes the lock anew for each frame.
QueueLocked_Never(n) == FALSE

\* flush() of n holds mRequestQueueLock of n while it empties the queue.
QueueLocked(n) == \E t \in Caller : pc[t] = "clear" /\ Head(route[t]) = n

-----------------------------------------------------------------------------
(* A thread at work on a frame, or in flush(frame).                        *)

\* t begins with frame f at node n.
Begin(t, f, n) ==
    /\ job' = [job EXCEPT ![t] = f]
    /\ at' = [at EXCEPT ![t] = n]
    /\ toHand' = [toHand EXCEPT ![f] = @ \cup Children(f, n)]
    /\ times' = [times EXCEPT ![f][n] = @ + 1]

\* queue(f) of node n.
Insert(f, n) ==
    /\ mRequestQueue' = [mRequestQueue EXCEPT ![n] = @ \cup {f}]
    /\ asleep' = asleep \ {n}
    /\ UNCHANGED mbRequestDrained

\* What t has still to release at the node it is at.
Owed(t) == {k \in Parts : <<at[t], k>> \in unreleased[job[t]]}
InFlushAt(t) == t \notin Node \/ at[t] # t

\* Mutant: the frame is announced when the images are released.
ApplyRelease_Early(t) ==
    /\ at[t] # None /\ messages[t] = {}
    /\ \E K \in (SUBSET Owed(t)) \ {{}} :
        /\ K = Owed(t) \/ (at[t] \in Staged /\ ~InFlushAt(t))
        /\ unreleased' = [unreleased EXCEPT ![job[t]] = @ \ ({at[t]} \X K)]
        /\ messages' = [messages EXCEPT ![t] =
                K \cup (IF \A p \in unreleased'[job[t]] : p[2] = "meta"
                        THEN {"frame"} ELSE {})]
    /\ unproduced' = IF InFlushAt(t) /\ Children(job[t], at[t]) \cap Dropping # {}
                     THEN [unproduced EXCEPT ![job[t]] = @ \cup {at[t]}]
                     ELSE unproduced
    /\ UNCHANGED <<dropped, requests, flags, nodes, hands, callers>>

\* applyRelease of the node t is at.
ApplyRelease(t) ==
    /\ at[t] # None /\ messages[t] = {}
    /\ \E K \in (SUBSET Owed(t)) \ {{}} :
        /\ K = Owed(t) \/ (at[t] \in Staged /\ ~InFlushAt(t))
        /\ unreleased' = [unreleased EXCEPT ![job[t]] = @ \ ({at[t]} \X K)]
        /\ messages' = [messages EXCEPT ![t] =
                K \cup (IF unreleased'[job[t]] = {} THEN {"frame"} ELSE {})]
    /\ unproduced' = IF InFlushAt(t) /\ Children(job[t], at[t]) \cap Dropping # {}
                     THEN [unproduced EXCEPT ![job[t]] = @ \cup {at[t]}]
                     ELSE unproduced
    /\ UNCHANGED <<dropped, requests, flags, nodes, hands, callers>>

\* Mutant: a node that has released one part is taken off both lists.
Notify_BothLists(t, m) ==
    /\ m \in messages[t]
    /\ m = "image" => "meta" \notin messages[t]
    /\ m = "frame" => messages[t] = {m}
    /\ messages' = [messages EXCEPT ![t] = @ \ {m}]
    /\ IF m = "frame"
       THEN /\ mRequest' = mRequest \ {job[t]}
            /\ UNCHANGED mRequestMap
       ELSE /\ mRequestMap' = [k \in Parts |->
                    [mRequestMap[k] EXCEPT ![at[t]] = @ \ {job[t]}]]
            /\ UNCHANGED mRequest
    /\ UNCHANGED <<registered, unreleased, flags, nodes, hands, callers, faults>>

\* Mutant: both kinds of message are erased from the list of metadata.
Notify_MetaList(t, m) ==
    /\ m \in messages[t]
    /\ m = "image" => "meta" \notin messages[t]
    /\ m = "frame" => messages[t] = {m}
    /\ messages' = [messages EXCEPT ![t] = @ \ {m}]
    /\ IF m = "frame"
       THEN /\ mRequest' = mRequest \ {job[t]}
            /\ UNCHANGED mRequestMap
       ELSE /\ mRequestMap' = [mRequestMap EXCEPT !["meta"][at[t]] = @ \ {job[t]}]
            /\ UNCHANGED mRequest
    /\ UNCHANGED <<registered, unreleased, flags, nodes, hands, callers, faults>>

\* The listener InFlightRequest takes one message after the other.
Notify(t, m) ==
    /\ m \in messages[t]
    /\ m = "image" => "meta" \notin messages[t]
    /\ m = "frame" => messages[t] = {m}
    /\ messages' = [messages EXCEPT ![t] = @ \ {m}]
    /\ IF m = "frame"
       THEN /\ mRequest' = mRequest \ {job[t]}
            /\ UNCHANGED mRequestMap
       ELSE /\ mRequestMap' = [mRequestMap EXCEPT ![m][at[t]] = @ \ {job[t]}]
            /\ UNCHANGED mRequest
    /\ UNCHANGED <<registered, unreleased, flags, nodes, hands, callers, faults>>

\* t is through with the buffers of the node it is at.
Released(t) == at[t] # None /\ messages[t] = {} /\ next[t] = None /\ Owed(t) = {}

\* The dispatcher hands the frame to a next node, by flush or by queue.
Dispatch(t, m) ==
    /\ Released(t) /\ m \in toHand[job[t]] \cap Children(job[t], at[t])
    /\ IF mDispatchFlush
       THEN /\ job' = job
            /\ at' = [at EXCEPT ![t] = m]
            /\ toHand' = [toHand EXCEPT ![job[t]] = (@ \ {m}) \cup Children(job[t], m)]
            /\ times' = [times EXCEPT ![job[t]][m] = @ + 1]
            /\ UNCHANGED next
       ELSE /\ next' = [next EXCEPT ![t] = m]
            /\ UNCHANGED <<job, at, toHand, times>>
    /\ UNCHANGED <<requests, unreleased, flags, nodes, messages, callers, faults>>

\* queue(frame) gets the lock of the queue.
EnterQueue(t) ==
    /\ next[t] # None /\ ~QueueLocked(next[t])
    /\ Insert(job[t], next[t])
    /\ toHand' = [toHand EXCEPT ![job[t]] = @ \ {next[t]}]
    /\ next' = [next EXCEPT ![t] = None]
    /\ UNCHANGED <<job, at, times, requests, unreleased, flags, messages, callers,
                   faults>>

Handed(t) == Released(t) /\ toHand[job[t]] \cap Children(job[t], at[t]) = {}

\* flush(frame) of a node returns to the dispatcher that called it.
ReturnToParent(t) ==
    /\ Handed(t) /\ at[t] # Base(t)
    /\ at' = [at EXCEPT ![t] = Parent(at[t])]
    /\ UNCHANGED <<job, next, toHand, times, requests, unreleased, flags, nodes,
                   messages, callers, faults>>

\* t is back where it began.
Finish(t) ==
    /\ job' = [job EXCEPT ![t] = None]
    /\ at' = [at EXCEPT ![t] = None]
    /\ UNCHANGED <<next, times, requests, unreleased, flags, mbRequestDrained,
                   asleep, messages, op, route, unproduced>>

Work(t) ==
    \/ ApplyRelease(t)
    \/ \E m \in Messages : Notify(t, m)
    \/ \E m \in Node : Dispatch(t, m)
    \/ EnterQueue(t)
    \/ ReturnToParent(t)

-----------------------------------------------------------------------------
(* The thread of a node.                                                   *)

SmallestIn(Q) == CHOOSE f \in Q : \A g \in Q : f <= g

\* Mutant: the flag is not reset.
Deque_KeepsDrained(n) ==
    /\ at[n] = None /\ n \notin asleep /\ ~QueueLocked(n)
    /\ mRequestQueue[n] # {}
    /\ LET f == SmallestIn(mRequestQueue[n])
       IN  /\ mRequestQueue' = [mRequestQueue EXCEPT ![n] = @ \ {f}]
           /\ Begin(n, f, n)
    /\ UNCHANGED <<mbRequestDrained, asleep, next, requests, unreleased, flags,
                   messages, callers, faults>>

\* onDequeRequest takes the first frame of the queue.
Deque(n) ==
    /\ at[n] = None /\ n \notin asleep /\ ~QueueLocked(n)
    /\ mRequestQueue[n] # {}
    /\ LET f == SmallestIn(mRequestQueue[n])
       IN  /\ mRequestQueue' = [mRequestQueue EXCEPT ![n] = @ \ {f}]
           /\ Begin(n, f, n)
    /\ mbRequestDrained' = mbRequestDrained \ {n}
    /\ UNCHANGED <<asleep, next, requests, unreleased, flags, messages, callers,
                   faults>>

\* The callers that wait in waitForRequestDrained of n.
Sleepers(n) == {t \in Caller : pc[t] = "asleep" /\ Head(route[t]) = n}

\* onDequeRequest finds nothing, says so and waits.
Rest(n) ==
    /\ at[n] = None /\ n \notin asleep /\ ~QueueLocked(n)
    /\ mRequestQueue[n] = {}
    /\ mbRequestDrained' = mbRequestDrained \cup {n}
    /\ asleep' = asleep \cup {n}
    /\ \E W \in SUBSET Sleepers(n) :
        /\ IF n \in Signalling /\ Sleepers(n) # {}
           THEN Cardinality(W) = 1 ELSE W = Sleepers(n)
        /\ pc' = [t \in Caller |-> IF t \in W THEN "woken" ELSE pc[t]]
    /\ UNCHANGED <<mRequestQueue, hands, requests, unreleased, flags, messages,
                   op, route, faults>>

\* onProcessFrame returns.
FinishFrame(n) ==
    /\ Handed(n) /\ at[n] = n
    /\ Finish(n)
    /\ UNCHANGED <<toHand, mRequestQueue, pc, dropped>>

\* n begins with a frame whose input image is in error, and cannot cope with it.
Drops(n) ==
    /\ n \in Dropping \ {Root} /\ at[n] = n /\ Owed(n) = Parts
    /\ Parent(n) \in unproduced[job[n]]

\* onProcessFrame returns early: nothing is released, the frame not handed on.
DropFrame(n) ==
    /\ Drops(n)
    /\ Finish(n)
    /\ toHand' = [toHand EXCEPT ![job[n]] = @ \ Children(job[n], n)]
    /\ dropped' = dropped \cup {job[n]}
    /\ UNCHANGED <<mRequestQueue, pc>>

NodeStep(n) ==
    \/ Deque(n) \/ Rest(n) \/ FinishFrame(n) \/ DropFrame(n)
    \/ ~Drops(n) /\ Work(n)

-----------------------------------------------------------------------------
(* queue(): the frame is registered, then handed to the root node under    *)
(* the flush lock of the context, to its queue or by flush(frame).         *)

Idle(t, call) == pc[t] = "idle" /\ call \in May[t]
Goto(t, label) == pc' = [pc EXCEPT ![t] = label]

\* Mutant: the frame is registered by the number the next one will have.
RegisterRequest_NextNumber(t, f) ==
    /\ Idle(t, "queue") /\ f \notin registered
    /\ registered' = registered \cup {f}
    /\ mRequest' = mRequest \cup {f + 1}
    /\ job' = [job EXCEPT ![t] = f]
    /\ Goto(t, "hand")
    /\ UNCHANGED <<mRequestMap, at, next, toHand, times, unreleased, flags, nodes,
                   messages, op, route, faults>>

RegisterRequest(t, f) ==
    /\ Idle(t, "queue") /\ f \notin registered
    /\ registered' = registered \cup {f}
    /\ mRequest' = mRequest \cup {f}
    /\ mRequestMap' = [k \in Parts |-> [n \in Node |->
            IF n \in OutNode \cap NodesOf[f]
            THEN mRequestMap[k][n] \cup {f} ELSE mRequestMap[k][n]]]
    /\ job' = [job EXCEPT ![t] = f]
    /\ Goto(t, "hand")
    /\ UNCHANGED <<at, next, toHand, times, unreleased, flags, nodes, messages, op,
                   route, faults>>

HandToRoot(t) ==
    /\ pc[t] = "hand"
    /\ IF mInFlush
       THEN Goto(t, "through") /\ Begin(t, job[t], Root)
       ELSE Goto(t, "enter") /\ UNCHANGED <<job, at, toHand, times>>
    /\ UNCHANGED <<next, requests, unreleased, flags, nodes, messages, op, route,
                   faults>>

EnterRoot(t) ==
    /\ pc[t] = "enter" /\ ~QueueLocked(Root)
    /\ Insert(job[t], Root)
    /\ job' = [job EXCEPT ![t] = None]
    /\ Goto(t, "idle")
    /\ UNCHANGED <<at, next, toHand, times, requests, unreleased, flags, messages,
                   op, route, faults>>

FinishQueue(t) ==
    /\ pc[t] = "through" /\ Handed(t) /\ at[t] = Root
    /\ Finish(t)
    /\ Goto(t, "idle")
    /\ UNCHANGED <<toHand, mRequestQueue, dropped>>

-----------------------------------------------------------------------------
(* flush(), waitUntilDrained(), and waitUntilNodeDrained() with the flush  *)
(* of the node that LegacyPipelineCapture does after it.                   *)

Undisturbed == <<requests, unreleased, hands, messages, faults>>

\* beginFlush: the flag of the context, then that of the dispatcher.
BeginFlush(t) ==
    /\ Idle(t, "flush") /\ ~ContextBusy
    /\ mInFlush' = TRUE
    /\ op' = [op EXCEPT ![t] = "flush"]
    /\ Goto(t, "setDispatcher")
    /\ UNCHANGED <<Undisturbed, mDispatchFlush, nodes, route>>

SetDispatcher(t) ==
    /\ pc[t] = "setDispatcher" /\ ~DispatcherBusy
    /\ mDispatchFlush' = TRUE
    /\ route' = [route EXCEPT ![t] = Toposort]
    /\ Goto(t, "lock")
    /\ UNCHANGED <<Undisturbed, mInFlush, nodes, op>>

\* flush() of a node: its queue is emptied under the lock of the queue ...
LockQueue(t) ==
    /\ pc[t] = "lock" /\ ~QueueLocked(Head(route[t]))
    /\ Goto(t, "clear")
    /\ UNCHANGED <<Undisturbed, flags, nodes, op, route>>

ClearFrame(t) ==
    LET n == Head(route[t]) IN
    /\ pc[t] = "clear" /\ at[t] = None
    /\ mRequestQueue[n] # {}
    /\ Begin(t, SmallestIn(mRequestQueue[n]), n)
    /\ UNCHANGED <<next, requests, unreleased, flags, nodes, messages, callers,
                   faults>>

FrameCleared(t) ==
    LET n == Head(route[t]) IN
    /\ pc[t] = "clear" /\ Handed(t) /\ at[t] = n
    /\ mRequestQueue' = [mRequestQueue EXCEPT ![n] = @ \ {job[t]}]
    /\ Finish(t)
    /\ UNCHANGED <<toHand, pc, dropped>>

\* ... and the thread of the node waited for, if it is at work.
NextNode(t) ==
    /\ route' = [route EXCEPT ![t] = Tail(@)]
    /\ Goto(t, IF Tail(route[t]) # <<>> THEN "lock"
               ELSE IF op[t] = "flush" THEN "drain" ELSE "idle")

UnlockQueue(t) ==
    /\ pc[t] = "clear" /\ at[t] = None /\ mRequestQueue[Head(route[t])] = {}
    /\ IF Head(route[t]) \in Unawaited
       THEN NextNode(t)
       ELSE Goto(t, "await") /\ UNCHANGED route
    /\ UNCHANGED <<Undisturbed, flags, nodes, op>>

WaitForRequestDrained(t) ==
    /\ pc[t] = "await" /\ ~QueueLocked(Head(route[t]))
    /\ IF Head(route[t]) \in mbRequestDrained
       THEN NextNode(t)
       ELSE Goto(t, "asleep") /\ UNCHANGED route
    /\ UNCHANGED <<Undisturbed, flags, nodes, op>>

\* Woken, it does not look at mbRequestDrained again.
WakeUp(t) ==
    /\ pc[t] = "woken" /\ ~QueueLocked(Head(route[t]))
    /\ NextNode(t)
    /\ UNCHANGED <<Undisturbed, flags, nodes, op>>

WaitUntilDrained(t) ==
    /\ Idle(t, "wait")
    /\ op' = [op EXCEPT ![t] = "wait"]
    /\ Goto(t, "drain")
    /\ UNCHANGED <<Undisturbed, flags, nodes, route>>

\* No request is in flight: the call ends, or the flush does.
Drained(t) ==
    /\ pc[t] = "drain" /\ mRequest = {}
    /\ op' = [op EXCEPT ![t] = "none"]
    /\ Goto(t, IF op[t] = "flush" THEN "endFlush" ELSE "idle")
    /\ UNCHANGED <<Undisturbed, flags, nodes, route>>

\* endFlush: the flag of the dispatcher, then that of the context.
EndDispatcherFlush(t) ==
    /\ pc[t] = "endFlush" /\ ~DispatcherBusy
    /\ mDispatchFlush' = FALSE
    /\ Goto(t, "endContext")
    /\ UNCHANGED <<Undisturbed, mInFlush, nodes, op, route>>

EndContextFlush(t) ==
    /\ pc[t] = "endContext" /\ ~ContextBusy
    /\ mInFlush' = FALSE
    /\ Goto(t, "idle")
    /\ UNCHANGED <<Undisturbed, mDispatchFlush, nodes, op, route>>

WaitUntilNodeDrained(t, n) ==
    /\ Idle(t, "node") /\ n \in NodeTargets
    /\ route' = [route EXCEPT ![t] = <<n>>]
    /\ Goto(t, "waitMeta")
    /\ UNCHANGED <<Undisturbed, flags, nodes, op>>

\* First the metadata, then the images, each under a lock of its own.
NodePartDrained(t, k) ==
    /\ pc[t] = IF k = "meta" THEN "waitMeta" ELSE "waitImage"
    /\ mRequestMap[k][Head(route[t])] = {}
    /\ Goto(t, IF k = "meta" THEN "waitImage" ELSE "lock")
    /\ UNCHANGED <<Undisturbed, flags, nodes, op, route>>

StartCall(t) ==
    \/ \E f \in Frame : RegisterRequest(t, f)
    \/ BeginFlush(t) \/ WaitUntilDrained(t)
    \/ \E n \in Node : WaitUntilNodeDrained(t, n)

CallerStep(t) ==
    \/ HandToRoot(t) \/ EnterRoot(t) \/ FinishQueue(t)
    \/ SetDispatcher(t)
    \/ LockQueue(t) \/ ClearFrame(t) \/ FrameCleared(t) \/ UnlockQueue(t)
    \/ WaitForRequestDrained(t) \/ WakeUp(t)
    \/ Drained(t) \/ EndDispatcherFlush(t) \/ EndContextFlush(t)
    \/ \E k \in Parts : NodePartDrained(t, k)
    \/ Work(t)

-----------------------------------------------------------------------------
Next ==
    \/ \E n \in Node : NodeStep(n)
    \/ \E t \in Caller : StartCall(t) \/ CallerStep(t)

Spec == Init /\ [][Next]_vars

\* The threads of the nodes run, and so does a call that has begun: others that
\* take a mutex again and again do not keep it from it for ever.
FairSpec ==
    /\ Spec
    /\ \A n \in Node : WF_vars(NodeStep(n))
    /\ \A t \in Caller : SF_vars(CallerStep(t))

-----------------------------------------------------------------------------
(* Properties.                                                             *)

\* The variables have their types.
ContextTypeOK ==
    /\ registered \subseteq Frame
    /\ mRequest \subseteq Frame
    /\ mRequestMap \in [Parts -> [Node -> SUBSET Frame]]
    /\ unreleased \in [Frame -> SUBSET (Node \X Parts)]
    /\ mInFlush \in BOOLEAN
    /\ mDispatchFlush \in BOOLEAN
    /\ mRequestQueue \in [Node -> SUBSET Frame]
    /\ mbRequestDrained \subseteq Node
    /\ asleep \subseteq Node
    /\ job \in [Thread -> Frame \cup {None}]
    /\ at \in [Thread -> Node \cup {None}]
    /\ messages \in [Thread -> SUBSET Messages]
    /\ next \in [Thread -> Node \cup {None}]
    /\ toHand \in [Frame -> SUBSET Node]
    /\ pc \in [Caller -> {"idle", "hand", "enter", "through", "setDispatcher",
                          "lock", "clear", "await", "asleep", "woken", "drain",
                          "endFlush", "endContext", "waitMeta", "waitImage"}]
    /\ op \in [Caller -> {"none", "flush", "wait"}]
    /\ route \in [Caller -> Seq(Node)]
    /\ times \in [Frame -> [Node -> Nat]]
    /\ unproduced \in [Frame -> SUBSET Node]
    /\ dropped \subseteq Frame

\* Whatever threads queue, work on and flush it, a node gets a frame once: to
\* work on it or to flush it, never both.
EachFrameOncePerNode == \A f \in Frame, n \in Node : times[f][n] <= 1

\* What a node has not released of a registered frame is on the list that
\* waitUntilNodeDrained looks at.
NodeListsCoverFrames ==
    \A f \in registered, n \in OutNode, k \in Parts :
        <<n, k>> \in unreleased[f] => f \in mRequestMap[k][n]

\* After beginFlush no node has a frame left in its queue, and none that waits
\* for its thread has one at work: what is queued or dispatched until endFlush
\* is flushed by the thread that queues or dispatches it.
QuietAfterBeginFlush ==
    \A t \in Caller :
        (op[t] = "flush" /\ pc[t] = "drain") \/ pc[t] = "endFlush" =>
        \A n \in Node : /\ mRequestQueue[n] = {}
                        /\ n \notin Unawaited => at[n] = None

\* The context implements its contract.
InFlight == {f \in registered : unreleased[f] # {}}
Contract == INSTANCE DrainContract WITH
    inFlight <- InFlight,
    done <- registered \ InFlight,
    waiting <- {t \in Caller : op[t] # "none"}
ImplementsDrainContract == Contract!Spec

\* Each call returns: no lock, flag, queue or list keeps it for ever, but for a
\* call that waits for the release of a frame that a node has dropped.
EveryCallReturns ==
    \A t \in Caller : pc[t] # "idle" ~>
        \/ pc[t] = "idle"
        \/ dropped # {} /\ pc[t] \in {"drain", "waitMeta", "waitImage"}
=============================================================================
