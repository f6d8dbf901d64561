----------------------- MODULE PipelineContext_proofs -----------------------
(***************************************************************************)
(* Proofs about PipelineContext, for every tree of nodes, any number of    *)
(* frames and any number of threads that queue, flush and wait.            *)
(***************************************************************************)
EXTENDS PipelineContext, WellFoundedInduction, TLAPS

(***************************************************************************)
(* The inductive invariant.                                                *)
(***************************************************************************)

Flushing == {"lock", "clear", "await", "asleep", "woken"}
Routed == Flushing \cup {"waitMeta", "waitImage"}
Handing == {"hand", "enter", "through"}
Labels == {"idle", "hand", "enter", "through", "setDispatcher", "lock", "clear",
           "await", "asleep", "woken", "drain", "endFlush", "endContext",
           "waitMeta", "waitImage"}

\* A thread that is at a node has a frame, and one that is not has neither
\* messages nor a hand-over before it; a caller is at a node only while it
\* queues a frame or empties a queue, and has a node to go to when it needs one.
ThreadInv ==
    /\ \A t \in Thread : at[t] # None => job[t] # None
    /\ \A t \in Thread : at[t] = None => messages[t] = {} /\ next[t] = None
    /\ \A t \in Thread : next[t] # None => Owed(t) = {} /\ messages[t] = {}
    /\ \A t \in Caller :
            /\ at[t] # None => pc[t] \in {"through", "clear"}
            /\ pc[t] \in Handing => job[t] # None
            /\ pc[t] = "through" => at[t] # None
            /\ pc[t] \in Routed => route[t] # <<>>

\* path[t]: the nodes from the one t began at to the one it is at, which have all
\* been given the frame; threads with the same frame share none of them.
PathsRight(path) ==
    /\ \A t \in Thread : at[t] = None => path[t] = {}
    /\ \A t \in Thread : at[t] # None => at[t] \in path[t]
    /\ \A t \in Thread : \A n \in path[t] :
            /\ times[job[t]][n] = 1
            /\ n # Base(t) => n # Root /\ Parent(n) \in path[t]
    /\ \A t, u \in Thread : t # u /\ job[t] = job[u] => path[t] \cap path[u] = {}
PathInv == \E path \in [Thread -> SUBSET Node] : PathsRight(path)

\* f is being flushed out of the queue of n, where it stays until that is done.
BeingCleared(f, n) ==
    \E t \in Caller : /\ pc[t] = "clear" /\ Head(route[t]) = n
                      /\ at[t] # None /\ job[t] = f

\* A frame is at one of the stages on its way to a node: not there yet, with the
\* thread that is to hand it on, in the queue, or given to it.
OnceInv ==
    /\ \A f \in Frame, n \in Node :
            /\ times[f][n] \in {0, 1}
            /\ n # Root /\ times[f][n] = 1 => times[f][Parent(n)] = 1
            /\ f \notin registered => times[f][n] = 0
    /\ \A n \in Node : \A f \in mRequestQueue[n] :
            /\ ~BeingCleared(f, n) => times[f][n] = 0
            /\ n # Root => times[f][Parent(n)] = 1
    /\ \A f \in Frame : \A n \in toHand[f] :
            /\ n # Root /\ times[f][Parent(n)] = 1
            /\ times[f][n] = 0 /\ f \notin mRequestQueue[n]
    /\ \A t \in Thread : next[t] # None => next[t] \in toHand[job[t]]
                                              \cap Children(job[t], at[t])

\* Neither is a frame put into the queue of the root twice, nor a queue emptied
\* by two callers.
CallerInv ==
    /\ \A t \in Caller : pc[t] \in {"hand", "enter"} =>
            times[job[t]][Root] = 0 /\ job[t] \notin mRequestQueue[Root]
    /\ \A t, u \in Caller :
            /\ pc[t] \in {"hand", "enter"} /\ pc[u] \in {"hand", "enter"}
                    /\ job[t] = job[u] => t = u
            /\ pc[t] = "clear" /\ pc[u] = "clear" /\ Head(route[t]) = Head(route[u])
                    => t = u

\* The frames in queues and in hands are registered.
RegisteredInv ==
    /\ \A f \in Frame \ registered : unreleased[f] = NodesOf[f] \X Parts
    /\ \A n \in Node : mRequestQueue[n] \subseteq registered
    /\ \A t \in Thread : job[t] # None => job[t] \in registered

\* What is not released is on the lists, and a message tells what is.
ListInv ==
    /\ \A f \in Frame : unreleased[f] \subseteq NodesOf[f] \X Parts
    /\ \A f \in registered : unreleased[f] # {} => f \in mRequest
    /\ NodeListsCoverFrames
    /\ \A t \in Thread : "frame" \in messages[t] => unreleased[job[t]] = {}
    /\ \A t \in Thread : at[t] # None => Owed(t) \cap messages[t] = {}

\* The wait before a caller is the one its call leads to.
WaitInv ==
    \A t \in Caller :
        /\ pc[t] = "drain" => op[t] # "none"
        /\ op[t] = "wait" => pc[t] = "drain"
        /\ op[t] = "flush" => pc[t] \in Flushing \cup {"setDispatcher", "drain"}

IInv == /\ ContextTypeOK /\ ThreadInv /\ PathInv /\ OnceInv /\ CallerInv
        /\ RegisteredInv /\ ListInv /\ WaitInv
-----------------------------------------------------------------------------
(* The tree of nodes.                                                      *)

\* Every node but the root has one parent.
LEMMA ParentOf ==
    ASSUME NEW n \in Node, n # Root
    PROVE  Parent(n) \in Node /\ <<Parent(n), n>> \in Edge
<1>1. PICK e \in Edge : e[2] = n
  BY ContextAssumption
<1>2. e[1] \in Node /\ e = <<e[1], n>>
  BY <1>1, ContextAssumption
<1>3. QED
  BY <1>2 DEF Parent

\* The children of a node in a frame are nodes, have it as their parent, and the
\* root is not among them.
LEMMA ChildOf ==
    ASSUME NEW f \in Frame, NEW n \in Node, NEW m \in Children(f, n)
    PROVE  m \in Node /\ m # Root /\ Parent(m) = n
<1>1. m \in Node /\ <<n, m>> \in Edge
  BY ContextAssumption DEF Children
<1>2. m # Root
  BY <1>1, ContextAssumption
<1>3. <<Parent(m), m>> \in Edge
  BY <1>1, <1>2, ParentOf
<1>4. <<n, m>>[2] = m /\ <<Parent(m), m>>[2] = m
  OBVIOUS
<1>5. <<Parent(m), m>> = <<n, m>>
  BY <1>1, <1>3, <1>4, ContextAssumption
<1>6. QED
  BY <1>1, <1>2, <1>5

(***************************************************************************)
(* Type correctness.                                                       *)
(***************************************************************************)

LEMMA TypeInit == Init => ContextTypeOK
<1> SUFFICES ASSUME Init PROVE ContextTypeOK
  OBVIOUS
<1>1. unreleased \in [Frame -> SUBSET (Node \X Parts)]
  BY ContextAssumption DEF Init, Parts
<1>2. route \in [Caller -> Seq(Node)]
  BY DEF Init
<1>3. QED
  BY <1>1, <1>2 DEF Init, ContextTypeOK, Parts, Messages, Thread

\* What Begin and Insert do keeps the types.
LEMMA BeginType ==
    ASSUME ContextTypeOK, NEW t \in Thread, NEW f \in Frame, NEW n \in Node, Begin(t, f, n)
    PROVE  /\ job' \in [Thread -> Frame \cup {None}]
           /\ at' \in [Thread -> Node \cup {None}]
           /\ toHand' \in [Frame -> SUBSET Node]
           /\ times' \in [Frame -> [Node -> Nat]]
<1>1. Children(f, n) \subseteq Node
  BY ChildOf
<1>2. QED
  BY <1>1 DEF ContextTypeOK, Begin

LEMMA FinishType ==
    ASSUME ContextTypeOK, NEW t \in Thread, Finish(t)
    PROVE  /\ job' \in [Thread -> Frame \cup {None}]
           /\ at' \in [Thread -> Node \cup {None}]
BY DEF ContextTypeOK, Finish

LEMMA InsertType ==
    ASSUME ContextTypeOK, NEW f \in Frame, NEW n, Insert(f, n)
    PROVE  /\ mRequestQueue' \in [Node -> SUBSET Frame]
           /\ asleep' \subseteq Node
           /\ mbRequestDrained' \subseteq Node
BY DEF ContextTypeOK, Insert

LEMMA GotoType ==
    ASSUME ContextTypeOK, NEW t, NEW l \in Labels, Goto(t, l)
    PROVE  pc' \in [Caller -> Labels]
BY DEF ContextTypeOK, Goto, Labels

LEMMA NextNodeType ==
    ASSUME ContextTypeOK, NEW t \in Caller, route[t] # <<>>, NextNode(t)
    PROVE  /\ route' \in [Caller -> Seq(Node)]
           /\ pc' \in [Caller -> Labels]
<1>1. route[t] \in Seq(Node)
  BY DEF ContextTypeOK
<1>2. Tail(route[t]) \in Seq(Node)
  BY <1>1
<1>3. route' \in [Caller -> Seq(Node)]
  BY <1>2 DEF ContextTypeOK, NextNode
<1>4. QED
  BY <1>3 DEF ContextTypeOK, NextNode, Goto, Labels

\* The first frame of a queue is one of it.
LEMMA SmallestIsIn ==
    ASSUME NEW Q \in SUBSET Frame, Q # {}
    PROVE  SmallestIn(Q) \in Q
<1> DEFINE Less == OpToRel(<, Nat)
<1>1. Q \subseteq Nat
  BY ContextAssumption
<1>2. IsWellFoundedOn(Less, Nat)
  BY NatLessThanWellFounded
<1>3. \A i, j \in Nat : i < j => <<i, j>> \in Less
  BY DEF OpToRel
<1> HIDE DEF Less
<1>4. PICK f \in Q : \A g \in Q : <<g, f>> \notin Less
  BY <1>1, <1>2, WFMin
<1>5. ASSUME NEW g \in Q PROVE f <= g
  <2>1. f \in Nat /\ g \in Nat
    BY <1>1
  <2>2. ~(g < f)
    BY <1>3, <1>4, <2>1
  <2>3. QED
    BY <2>1, <2>2
<1>6. QED
  BY <1>5 DEF SmallestIn

\* A thread at a node has a frame of the context in hand.
LEMMA AtHasFrame ==
    ASSUME ContextTypeOK, ThreadInv, NEW t \in Thread, at[t] # None
    PROVE  at[t] \in Node /\ job[t] \in Frame
BY DEF ContextTypeOK, ThreadInv

\* A thread on its way back from flush(frame) is not at the root.
LEMMA NotAtRoot ==
    ASSUME PathInv, NEW t \in Thread, at[t] # None, at[t] # Base(t)
    PROVE  at[t] # Root
BY DEF PathInv, PathsRight

\* Updates two levels deep.
LEMMA TakeOff ==
    ASSUME NEW A, NEW B, NEW C, NEW M \in [A -> [B -> SUBSET C]],
           NEW a \in A, NEW b \in B, NEW c
    PROVE  [M EXCEPT ![a][b] = @ \ {c}] \in [A -> [B -> SUBSET C]]
<1>1. [M[a] EXCEPT ![b] = @ \ {c}] \in [B -> SUBSET C]
  OBVIOUS
<1>2. [M EXCEPT ![a] = [M[a] EXCEPT ![b] = @ \ {c}]] \in [A -> [B -> SUBSET C]]
  BY <1>1
<1>3. QED
  BY <1>2

LEMMA CountOne ==
    ASSUME NEW A, NEW B, NEW M \in [A -> [B -> Nat]], NEW a \in A, NEW b \in B
    PROVE  [M EXCEPT ![a][b] = @ + 1] \in [A -> [B -> Nat]]
<1>1. [M[a] EXCEPT ![b] = @ + 1] \in [B -> Nat]
  OBVIOUS
<1>2. [M EXCEPT ![a] = [M[a] EXCEPT ![b] = @ + 1]] \in [A -> [B -> Nat]]
  BY <1>1
<1>3. QED
  BY <1>2

LEMMA TypeWork ==
    ASSUME ContextTypeOK, ThreadInv, PathInv, NEW t \in Thread, Work(t)
    PROVE  ContextTypeOK'
<1>1. CASE ApplyRelease(t)
  <2>1. at[t] \in Node /\ job[t] \in Frame
    BY <1>1, AtHasFrame DEF ApplyRelease
  <2>2. PICK K \in SUBSET Parts :
            /\ unreleased' = [unreleased EXCEPT ![job[t]] = @ \ ({at[t]} \X K)]
            /\ messages' = [messages EXCEPT ![t] =
                    K \cup (IF unreleased'[job[t]] = {} THEN {"frame"} ELSE {})]
    BY <1>1 DEF ApplyRelease, Owed
  <2>3. unreleased' \in [Frame -> SUBSET (Node \X Parts)]
    BY <2>1, <2>2 DEF ContextTypeOK
  <2>4. messages' \in [Thread -> SUBSET Messages]
    BY <2>2 DEF ContextTypeOK, Messages
  <2>5. unproduced' \in [Frame -> SUBSET Node]
    BY <1>1, <2>1 DEF ContextTypeOK, ApplyRelease
  <2>6. QED
    BY <1>1, <2>3, <2>4, <2>5
    DEF ContextTypeOK, ApplyRelease, requests, flags, nodes, hands, callers
<1>2. ASSUME NEW m \in Messages, Notify(t, m) PROVE ContextTypeOK'
  <2>1. at[t] \in Node
    BY <1>2, AtHasFrame DEF Notify, ThreadInv
  <2>2. messages' \in [Thread -> SUBSET Messages]
    BY <1>2 DEF ContextTypeOK, Notify
  <2>3. CASE m = "frame"
    BY <1>2, <2>2, <2>3
    DEF ContextTypeOK, Notify, flags, nodes, hands, callers, faults
  <2>4. CASE m # "frame"
    <3>1. m \in Parts
      BY <2>4 DEF Messages
    <3>2. mRequestMap' \in [Parts -> [Node -> SUBSET Frame]]
      <4>1. mRequestMap \in [Parts -> [Node -> SUBSET Frame]]
        BY DEF ContextTypeOK
      <4>2. mRequestMap' = [mRequestMap EXCEPT ![m][at[t]] = @ \ {job[t]}]
        BY <1>2, <2>4 DEF Notify
      <4>3. QED
        BY <2>1, <3>1, <4>1, <4>2, TakeOff
    <3>3. QED
      BY <1>2, <2>2, <2>4, <3>2
      DEF ContextTypeOK, Notify, flags, nodes, hands, callers, faults
  <2>5. QED
    BY <2>3, <2>4
<1>3. ASSUME NEW m \in Node, Dispatch(t, m) PROVE ContextTypeOK'
  <2>1. job[t] \in Frame /\ Children(job[t], m) \subseteq Node
    BY <1>3, AtHasFrame, ChildOf DEF Dispatch, Released
  <2>2. CASE mDispatchFlush
    <3>1. times' \in [Frame -> [Node -> Nat]]
      <4>1. times \in [Frame -> [Node -> Nat]]
        BY DEF ContextTypeOK
      <4>2. times' = [times EXCEPT ![job[t]][m] = @ + 1]
        BY <1>3, <2>2 DEF Dispatch
      <4>3. QED
        BY <2>1, <4>1, <4>2, CountOne
    <3>2. toHand' \in [Frame -> SUBSET Node]
      <4>1. toHand \in [Frame -> SUBSET Node]
        BY DEF ContextTypeOK
      <4>2. toHand' = [toHand EXCEPT ![job[t]] = (@ \ {m}) \cup Children(job[t], m)]
        BY <1>3, <2>2 DEF Dispatch
      <4>3. toHand[job[t]] \in SUBSET Node
        BY <2>1, <4>1
      <4>4. QED
        BY <2>1, <4>1, <4>2, <4>3
    <3>3. QED
      BY <1>3, <2>2, <3>1, <3>2
      DEF ContextTypeOK, Dispatch, requests, flags, nodes, callers, faults
  <2>3. CASE ~mDispatchFlush
    BY <1>3, <2>3 DEF ContextTypeOK, Dispatch, requests, flags, nodes, callers, faults
  <2>4. QED
    BY <2>2, <2>3
<1>4. CASE EnterQueue(t)
  <2>1. at[t] # None
    BY <1>4 DEF EnterQueue, ThreadInv
  <2>2. job[t] \in Frame
    BY <2>1, AtHasFrame
  <2>3. /\ mRequestQueue' \in [Node -> SUBSET Frame]
        /\ asleep' \subseteq Node /\ mbRequestDrained' \subseteq Node
    BY <1>4, <2>2, InsertType DEF EnterQueue
  <2>4. QED
    BY <1>4, <2>3 DEF ContextTypeOK, EnterQueue, requests, flags, callers, faults
<1>5. CASE ReturnToParent(t)
  <2>1. at[t] \in Node /\ at[t] # Root
    BY <1>5, AtHasFrame, NotAtRoot DEF ReturnToParent, Handed, Released
  <2>2. Parent(at[t]) \in Node
    BY <2>1, ParentOf
  <2>3. QED
    BY <1>5, <2>2
    DEF ContextTypeOK, ReturnToParent, requests, flags, nodes, callers, faults
<1>6. QED
  BY <1>1, <1>2, <1>3, <1>4, <1>5 DEF Work

LEMMA TypeNode ==
    ASSUME ContextTypeOK, ThreadInv, PathInv, NEW n \in Node, NodeStep(n)
    PROVE  ContextTypeOK'
<1>0. n \in Thread
  BY DEF Thread
<1>1. CASE Deque(n)
  <2>1. PICK f \in Frame :
            /\ mRequestQueue' = [mRequestQueue EXCEPT ![n] = @ \ {f}]
            /\ Begin(n, f, n)
    <3>1. SmallestIn(mRequestQueue[n]) \in Frame
      <4>1. mRequestQueue[n] \subseteq Frame /\ mRequestQueue[n] # {}
        BY <1>1 DEF ContextTypeOK, Deque
      <4>2. QED
        BY <4>1, SmallestIsIn
    <3>2. QED
      BY <1>1, <3>1 DEF Deque
  <2>2. QED
    BY <1>0, <1>1, <2>1, BeginType
    DEF ContextTypeOK, Deque, requests, flags, callers, faults
<1>2. CASE Rest(n)
  BY <1>2 DEF ContextTypeOK, Rest, hands, requests, flags, faults
<1>3. CASE FinishFrame(n)
  BY <1>0, <1>3, FinishType
  DEF ContextTypeOK, FinishFrame, Finish, requests, flags
<1>4. CASE DropFrame(n)
  <2>1. job[n] \in Frame
    BY <1>0, <1>4, AtHasFrame, ContextAssumption DEF DropFrame, Drops
  <2>2. QED
    BY <1>0, <1>4, <2>1, FinishType
    DEF ContextTypeOK, DropFrame, Finish, requests, flags
<1>5. CASE Work(n)
  BY <1>0, <1>5, TypeWork
<1>6. QED
  BY <1>1, <1>2, <1>3, <1>4, <1>5 DEF NodeStep

LEMMA TypeQueue ==
    ASSUME ContextTypeOK, ThreadInv, NEW t \in Caller,
           \/ \E f \in Frame : RegisterRequest(t, f)
           \/ HandToRoot(t) \/ EnterRoot(t) \/ FinishQueue(t)
    PROVE  ContextTypeOK'
<1>0. t \in Thread
  BY DEF Thread
<1>1. ASSUME NEW f \in Frame, RegisterRequest(t, f) PROVE ContextTypeOK'
  BY <1>0, <1>1, GotoType
  DEF ContextTypeOK, RegisterRequest, Labels, flags, nodes, faults
<1>2. CASE HandToRoot(t)
  <2>1. job[t] \in Frame
    BY <1>0, <1>2 DEF HandToRoot, ContextTypeOK, ThreadInv, Handing
  <2>2. pc' \in [Caller -> Labels]
    BY <1>2, GotoType DEF HandToRoot, Labels
  <2>3. CASE mInFlush
    <3>1. /\ job' \in [Thread -> Frame \cup {None}]
          /\ at' \in [Thread -> Node \cup {None}]
          /\ toHand' \in [Frame -> SUBSET Node]
          /\ times' \in [Frame -> [Node -> Nat]]
      BY <1>0, <1>2, <2>1, <2>3, BeginType, ContextAssumption DEF HandToRoot
    <3>2. QED
      BY <1>2, <2>2, <3>1
      DEF ContextTypeOK, HandToRoot, Labels, requests, flags, nodes, faults
  <2>4. CASE ~mInFlush
    BY <1>2, <2>2, <2>4
    DEF ContextTypeOK, HandToRoot, Labels, requests, flags, nodes, faults
  <2>5. QED
    BY <2>3, <2>4
<1>3. CASE EnterRoot(t)
  <2>1. job[t] \in Frame
    BY <1>0, <1>3 DEF EnterRoot, ContextTypeOK, ThreadInv, Handing
  <2>2. QED
    BY <1>0, <1>3, <2>1, InsertType, GotoType
    DEF ContextTypeOK, EnterRoot, Labels, requests, flags, faults
<1>4. CASE FinishQueue(t)
  BY <1>0, <1>4, FinishType, GotoType
  DEF ContextTypeOK, FinishQueue, Finish, Labels, requests, flags
<1>5. QED
  BY <1>1, <1>2, <1>3, <1>4

LEMMA TypeFlush ==
    ASSUME ContextTypeOK, ThreadInv, NEW t \in Caller,
           \/ BeginFlush(t) \/ SetDispatcher(t)
           \/ LockQueue(t) \/ ClearFrame(t) \/ FrameCleared(t) \/ UnlockQueue(t)
           \/ WaitForRequestDrained(t) \/ WakeUp(t)
    PROVE  ContextTypeOK'
<1>0. t \in Thread
  BY DEF Thread
<1> USE DEF Undisturbed, requests, flags, nodes, hands, faults, callers
<1>1. CASE BeginFlush(t)
  BY <1>1, GotoType DEF ContextTypeOK, BeginFlush, Labels
<1>2. CASE SetDispatcher(t)
  BY <1>2, GotoType, ContextAssumption DEF ContextTypeOK, SetDispatcher, Labels
<1>3. CASE LockQueue(t)
  BY <1>3, GotoType DEF ContextTypeOK, LockQueue, Labels
<1>4. CASE ClearFrame(t)
  <2>1. Head(route[t]) \in Node
    <3>1. route[t] \in Seq(Node) /\ route[t] # <<>>
      BY <1>4 DEF ContextTypeOK, ThreadInv, ClearFrame, Routed, Flushing
    <3>2. QED
      BY <3>1
  <2> DEFINE n == Head(route[t])
  <2>2. SmallestIn(mRequestQueue[n]) \in Frame
    <3>1. mRequestQueue[n] \subseteq Frame /\ mRequestQueue[n] # {}
      BY <1>4, <2>1 DEF ContextTypeOK, ClearFrame
    <3>2. QED
      BY <3>1, SmallestIsIn
  <2>3. Begin(t, SmallestIn(mRequestQueue[n]), n)
    BY <1>4 DEF ClearFrame
  <2>4. /\ job' \in [Thread -> Frame \cup {None}]
        /\ at' \in [Thread -> Node \cup {None}]
        /\ toHand' \in [Frame -> SUBSET Node]
        /\ times' \in [Frame -> [Node -> Nat]]
    BY <1>0, <2>1, <2>2, <2>3, BeginType
  <2>5. QED
    BY <1>4, <2>4 DEF ContextTypeOK, ClearFrame
<1>5. CASE FrameCleared(t)
  BY <1>0, <1>5, FinishType DEF ContextTypeOK, FrameCleared, Finish
<1>6. CASE UnlockQueue(t)
  <2>1. route[t] # <<>>
    BY <1>6 DEF UnlockQueue, ThreadInv, Routed, Flushing
  <2>2. route' \in [Caller -> Seq(Node)] /\ pc' \in [Caller -> Labels]
    BY <1>6, <2>1, NextNodeType, GotoType DEF ContextTypeOK, UnlockQueue, Labels
  <2>3. QED
    BY <1>6, <2>2 DEF ContextTypeOK, UnlockQueue, Labels
<1>7. CASE WaitForRequestDrained(t)
  <2>1. route[t] # <<>>
    BY <1>7 DEF WaitForRequestDrained, ThreadInv, Routed, Flushing
  <2>2. route' \in [Caller -> Seq(Node)] /\ pc' \in [Caller -> Labels]
    BY <1>7, <2>1, NextNodeType, GotoType
    DEF ContextTypeOK, WaitForRequestDrained, Labels
  <2>3. QED
    BY <1>7, <2>2 DEF ContextTypeOK, WaitForRequestDrained, Labels
<1>8. CASE WakeUp(t)
  <2>1. route[t] # <<>>
    BY <1>8 DEF WakeUp, ThreadInv, Routed, Flushing
  <2>2. route' \in [Caller -> Seq(Node)] /\ pc' \in [Caller -> Labels]
    BY <1>8, <2>1, NextNodeType DEF WakeUp
  <2>3. QED
    BY <1>8, <2>2 DEF ContextTypeOK, WakeUp, Labels
<1>9. QED
  BY <1>1, <1>2, <1>3, <1>4, <1>5, <1>6, <1>7, <1>8

LEMMA TypeWait ==
    ASSUME ContextTypeOK, ThreadInv, NEW t \in Caller,
           \/ WaitUntilDrained(t) \/ Drained(t)
           \/ EndDispatcherFlush(t) \/ EndContextFlush(t)
           \/ \E n \in Node : WaitUntilNodeDrained(t, n)
           \/ \E k \in Parts : NodePartDrained(t, k)
    PROVE  ContextTypeOK'
<1> USE DEF Undisturbed, requests, flags, nodes, hands, faults, Labels
<1>1. CASE WaitUntilDrained(t)
  BY <1>1, GotoType DEF ContextTypeOK, WaitUntilDrained
<1>2. CASE Drained(t)
  BY <1>2, GotoType DEF ContextTypeOK, Drained
<1>3. CASE EndDispatcherFlush(t)
  BY <1>3, GotoType DEF ContextTypeOK, EndDispatcherFlush
<1>4. CASE EndContextFlush(t)
  BY <1>4, GotoType DEF ContextTypeOK, EndContextFlush
<1>5. ASSUME NEW n \in Node, WaitUntilNodeDrained(t, n) PROVE ContextTypeOK'
  BY <1>5, GotoType DEF ContextTypeOK, WaitUntilNodeDrained
<1>6. ASSUME NEW k \in Parts, NodePartDrained(t, k) PROVE ContextTypeOK'
  BY <1>6, GotoType DEF ContextTypeOK, NodePartDrained
<1>7. QED
  BY <1>1, <1>2, <1>3, <1>4, <1>5, <1>6

LEMMA TypeNext == ContextTypeOK /\ ThreadInv /\ PathInv /\ [Next]_vars => ContextTypeOK'
<1> SUFFICES ASSUME ContextTypeOK, ThreadInv, PathInv, [Next]_vars PROVE ContextTypeOK'
  OBVIOUS
<1>1. ASSUME NEW n \in Node, NodeStep(n) PROVE ContextTypeOK'
  BY <1>1, TypeNode
<1>2. ASSUME NEW t \in Caller, StartCall(t) \/ CallerStep(t) PROVE ContextTypeOK'
  BY <1>2, TypeQueue, TypeFlush, TypeWait, TypeWork DEF StartCall, CallerStep, Thread
<1>3. CASE UNCHANGED vars
  BY <1>3
  DEF ContextTypeOK, vars, requests, flags, nodes, hands, callers, faults
<1>4. QED
  BY <1>1, <1>2, <1>3 DEF Next

(***************************************************************************)
(* Threads.                                                                *)
(***************************************************************************)

\* Where a thread begins changes only with its own label and route.
LEMMA BaseStays ==
    ASSUME NEW u \in Thread,
           u \in Caller => \/ pc'[u] = pc[u] /\ route'[u] = route[u]
                           \/ pc[u] # "clear" /\ pc'[u] # "clear"
    PROVE  Base(u)' = Base(u)
BY DEF Base, Thread

LEMMA ThreadWork ==
    ASSUME ContextTypeOK, ThreadInv, PathInv, NEW t \in Thread, Work(t)
    PROVE  ThreadInv'
<1>1. CASE ApplyRelease(t)
  <2>1. \A f \in Frame : unreleased'[f] \subseteq unreleased[f]
    BY <1>1, AtHasFrame DEF ApplyRelease, ContextTypeOK
  <2>2. \A u \in Thread : u # t => messages'[u] = messages[u]
    BY <1>1 DEF ApplyRelease, ContextTypeOK
  <2>3. at[t] # None /\ next[t] = None
    <3>1. at[t] # None /\ messages[t] = {}
      BY <1>1 DEF ApplyRelease
    <3>2. PICK K : K \in (SUBSET Owed(t)) \ {{}}
      BY <1>1 DEF ApplyRelease
    <3>3. Owed(t) # {}
      BY <3>2
    <3>4. QED
      BY <3>1, <3>3 DEF ThreadInv
  <2>4. UNCHANGED <<job, at, next, pc, route>>
    BY <1>1 DEF ApplyRelease, hands, callers
  <2>5. ASSUME NEW u \in Thread, next[u] # None PROVE Owed(u)' = {} /\ messages'[u] = {}
    <3>1. u # t /\ Owed(u) = {} /\ messages[u] = {} /\ at[u] # None
      BY <2>3, <2>5 DEF ThreadInv
    <3>2. job[u] \in Frame
      BY <3>1, AtHasFrame
    <3>3. QED
      BY <2>1, <2>2, <2>4, <3>1, <3>2 DEF Owed
  <2>6. QED
    BY <2>2, <2>3, <2>4, <2>5 DEF ThreadInv
<1>2. ASSUME NEW m \in Messages, Notify(t, m) PROVE ThreadInv'
  BY <1>2 DEF ThreadInv, Notify, Owed, hands, callers, ContextTypeOK
<1>3. ASSUME NEW m \in Node, Dispatch(t, m) PROVE ThreadInv'
  <2>1. UNCHANGED <<unreleased, messages, pc, route, job>> /\ Released(t)
    BY <1>3 DEF Dispatch, callers
  <2>2. CASE mDispatchFlush
    <3>1. /\ at' = [at EXCEPT ![t] = m] /\ next' = next
          /\ at[t] # None /\ next[t] = None /\ m # None
      BY <1>3, <2>2, ContextAssumption DEF Dispatch, Released
    <3>2. \A u \in Thread : u # t => at'[u] = at[u] /\ Owed(u)' = Owed(u)
      BY <2>1, <3>1 DEF Owed, ContextTypeOK
    <3>3. at'[t] = m
      BY <3>1 DEF ContextTypeOK
    <3>4. QED
      BY <2>1, <3>1, <3>2, <3>3 DEF ThreadInv
  <2>3. CASE ~mDispatchFlush
    <3>1. at' = at /\ next' = [next EXCEPT ![t] = m]
      BY <1>3, <2>3 DEF Dispatch
    <3>2. \A u \in Thread : Owed(u)' = Owed(u)
      BY <2>1, <3>1 DEF Owed
    <3>3. \A u \in Thread : u # t => next'[u] = next[u]
      BY <3>1 DEF ContextTypeOK
    <3>4. QED
      BY <2>1, <3>1, <3>2, <3>3 DEF ThreadInv, Released
  <2>4. QED
    BY <2>2, <2>3
<1>4. CASE EnterQueue(t)
  <2>1. /\ next' = [next EXCEPT ![t] = None]
        /\ UNCHANGED <<unreleased, messages, pc, route, job, at>>
    BY <1>4 DEF EnterQueue, callers
  <2>2. QED
    BY <2>1 DEF ThreadInv, Owed, ContextTypeOK
<1>5. CASE ReturnToParent(t)
  <2>1. /\ at' = [at EXCEPT ![t] = Parent(at[t])] /\ Handed(t)
        /\ UNCHANGED <<unreleased, messages, pc, route, job, next>>
    BY <1>5 DEF ReturnToParent, callers
  <2>2. \A u \in Thread : u # t => at'[u] = at[u] /\ Owed(u)' = Owed(u)
    BY <2>1 DEF Owed, ContextTypeOK
  <2>3. next[t] = None /\ messages[t] = {} /\ at[t] # None
    BY <2>1 DEF Handed, Released
  <2>4. Parent(at[t]) # None
    <3>1. at[t] \in Node /\ at[t] # Root
      BY <1>5, <2>3, AtHasFrame, NotAtRoot DEF ReturnToParent
    <3>2. Parent(at[t]) \in Node
      BY <3>1, ParentOf
    <3>3. QED
      BY <3>2, ContextAssumption
  <2>5. QED
    BY <2>1, <2>2, <2>3, <2>4 DEF ThreadInv
<1>6. QED
  BY <1>1, <1>2, <1>3, <1>4, <1>5 DEF Work

\* A thread that owes all of a frame has told nothing of it, nor handed it on.
LEMMA NothingTold ==
    ASSUME ContextTypeOK, ThreadInv, ListInv, NEW t \in Thread,
           at[t] # None, Owed(t) = Parts
    PROVE  messages[t] = {} /\ next[t] = None
<1>1. Owed(t) # {}
  BY DEF Parts
<1>2. next[t] = None
  BY <1>1 DEF ThreadInv
<1>3. "frame" \notin messages[t]
  <2>1. unreleased[job[t]] # {}
    BY <1>1 DEF Owed
  <2>2. QED
    BY <2>1 DEF ListInv
<1>4. "meta" \notin messages[t] /\ "image" \notin messages[t]
  BY DEF ListInv, Parts
<1>5. messages[t] \subseteq {"meta", "image", "frame"}
  BY DEF ContextTypeOK, Messages, Parts
<1>6. QED
  BY <1>2, <1>3, <1>4, <1>5

LEMMA ThreadNode ==
    ASSUME ContextTypeOK, ThreadInv, PathInv, ListInv, NEW n \in Node, NodeStep(n)
    PROVE  ThreadInv'
<1>0. n \in Thread /\ n \notin Caller
  BY ContextAssumption DEF Thread
<1>1. CASE Deque(n)
  <2>2. SmallestIn(mRequestQueue[n]) # None
    <3>1. mRequestQueue[n] \in SUBSET Frame /\ mRequestQueue[n] # {}
      BY <1>1 DEF Deque, ContextTypeOK
    <3>2. QED
      BY <3>1, SmallestIsIn, ContextAssumption
  <2>3. Begin(n, SmallestIn(mRequestQueue[n]), n)
    BY <1>1 DEF Deque
  <2>4. at[n] = None /\ UNCHANGED <<unreleased, messages, pc, route, next>>
    BY <1>1 DEF Deque, callers
  <2>5. /\ \A u \in Thread : u # n => /\ at'[u] = at[u] /\ job'[u] = job[u]
                                      /\ Owed(u)' = Owed(u)
        /\ at'[n] = n /\ job'[n] # None
    BY <1>0, <2>2, <2>3, <2>4 DEF Begin, Owed, ContextTypeOK
  <2>6. n # None
    BY ContextAssumption
  <2>7. QED
    BY <1>0, <2>4, <2>5, <2>6 DEF ThreadInv, Thread
<1>2. CASE Rest(n)
  <2>1. UNCHANGED <<unreleased, messages, job, at, next, route>>
    BY <1>2 DEF Rest, hands
  <2>2. \A t \in Caller : pc'[t] = pc[t] \/ (pc[t] = "asleep" /\ pc'[t] = "woken")
    BY <1>2 DEF Rest, Sleepers
  <2>3. \A u \in Thread : Owed(u)' = Owed(u)
    BY <2>1 DEF Owed
  <2>4. QED
    BY <2>1, <2>2, <2>3 DEF ThreadInv, Handing, Routed, Flushing
<1>3. CASE FinishFrame(n) \/ DropFrame(n)
  <2>1. Finish(n) /\ pc' = pc
    BY <1>3 DEF FinishFrame, DropFrame
  <2>2. messages[n] = {} /\ next[n] = None
    <3>1. CASE FinishFrame(n)
      BY <3>1 DEF FinishFrame, Handed, Released
    <3>2. CASE DropFrame(n)
      <4>1. at[n] # None /\ Owed(n) = Parts
        BY <3>2, ContextAssumption DEF DropFrame, Drops
      <4>2. messages[n] = {} /\ next[n] = None
        BY <1>0, <4>1, NothingTold
      <4>3. QED
        BY <4>2
    <3>3. QED
      BY <1>3, <3>1, <3>2
  <2>3. UNCHANGED <<unreleased, messages, next, route>>
    BY <2>1 DEF Finish
  <2>4. /\ \A u \in Thread : u # n => /\ at'[u] = at[u] /\ job'[u] = job[u]
                                      /\ Owed(u)' = Owed(u)
        /\ at'[n] = None /\ job'[n] = None
    BY <1>0, <2>1 DEF Finish, Owed, ContextTypeOK
  <2>5. QED
    BY <1>0, <2>1, <2>2, <2>3, <2>4 DEF ThreadInv, Thread
<1>4. CASE Work(n)
  BY <1>0, <1>4, ThreadWork
<1>5. QED
  BY <1>1, <1>2, <1>3, <1>4 DEF NodeStep

\* Steps that change only labels and routes, and keep the callers' part.
LEMMA ThreadSame ==
    ASSUME ThreadInv, UNCHANGED <<unreleased, messages, job, at, next>>,
           \A t \in Caller :
                /\ at[t] # None => pc'[t] \in {"through", "clear"}
                /\ pc'[t] \in Handing => job[t] # None
                /\ pc'[t] = "through" => at[t] # None
                /\ pc'[t] \in Routed => route'[t] # <<>>
    PROVE  ThreadInv'
<1>1. \A u \in Thread : Owed(u)' = Owed(u)
  BY DEF Owed
<1>2. QED
  BY <1>1 DEF ThreadInv

LEMMA ThreadQueue ==
    ASSUME ContextTypeOK, ThreadInv, NEW t \in Caller,
           \/ \E f \in Frame : RegisterRequest(t, f)
           \/ HandToRoot(t) \/ EnterRoot(t) \/ FinishQueue(t)
    PROVE  ThreadInv'
<1>0. t \in Thread /\ Caller \subseteq Thread
  BY DEF Thread
<1>1. ASSUME NEW f \in Frame, RegisterRequest(t, f) PROVE ThreadInv'
  <2>1. /\ \A u \in Thread : u # t => job'[u] = job[u]
        /\ job'[t] = f /\ f # None
        /\ UNCHANGED <<at, messages, next, unreleased, route>>
    BY <1>0, <1>1, ContextAssumption DEF RegisterRequest, ContextTypeOK
  <2>2. /\ \A u \in Caller : u # t => pc'[u] = pc[u]
        /\ pc'[t] = "hand" /\ pc[t] = "idle"
    BY <1>1 DEF RegisterRequest, Goto, Idle, ContextTypeOK
  <2>3. at[t] = None
    BY <2>2 DEF ThreadInv
  <2>4. \A u \in Thread : at[u] # None => Owed(u)' = Owed(u)
    BY <2>1, <2>3 DEF Owed
  <2>5. QED
    BY <1>0, <2>1, <2>2, <2>3, <2>4 DEF ThreadInv, Handing, Routed, Flushing
<1>2. CASE HandToRoot(t)
  <2>1. UNCHANGED <<messages, next, unreleased, route>> /\ pc[t] = "hand"
    BY <1>2 DEF HandToRoot
  <2>2. CASE mInFlush
    <3>1. Begin(t, job[t], Root) /\ pc' = [pc EXCEPT ![t] = "through"]
      BY <1>2, <2>2 DEF HandToRoot, Goto
    <3>2. /\ \A u \in Thread : u # t => /\ at'[u] = at[u] /\ job'[u] = job[u]
                                        /\ Owed(u)' = Owed(u)
          /\ at'[t] = Root /\ Root # None /\ job'[t] = job[t]
      BY <1>0, <2>1, <3>1, ContextAssumption DEF Begin, Owed, ContextTypeOK
    <3>3. /\ \A u \in Caller : u # t => pc'[u] = pc[u]
          /\ pc'[t] = "through"
      BY <3>1 DEF ContextTypeOK
    <3>4. at[t] = None /\ job[t] # None
      BY <2>1 DEF ThreadInv, Handing
    <3>5. QED
      BY <1>0, <2>1, <3>2, <3>3, <3>4 DEF ThreadInv, Handing, Routed, Flushing
  <2>3. CASE ~mInFlush
    <3>1. UNCHANGED <<job, at>> /\ pc' = [pc EXCEPT ![t] = "enter"]
      BY <1>2, <2>3 DEF HandToRoot, Goto
    <3>2. QED
      BY <2>1, <3>1, ThreadSame
      DEF ThreadInv, ContextTypeOK, Handing, Routed, Flushing
  <2>4. QED
    BY <2>2, <2>3
<1>3. CASE EnterRoot(t)
  <2>1. UNCHANGED <<messages, next, unreleased, route, at>> /\ pc[t] = "enter"
    BY <1>3 DEF EnterRoot
  <2>2. /\ \A u \in Thread : u # t => job'[u] = job[u] /\ Owed(u)' = Owed(u)
        /\ at[t] = None
    BY <1>0, <1>3, <2>1 DEF EnterRoot, Owed, ContextTypeOK, ThreadInv
  <2>3. /\ \A u \in Caller : u # t => pc'[u] = pc[u]
        /\ pc'[t] = "idle"
    BY <1>3 DEF EnterRoot, Goto, ContextTypeOK
  <2>4. QED
    BY <1>0, <2>1, <2>2, <2>3 DEF ThreadInv, Handing, Routed, Flushing
<1>4. CASE FinishQueue(t)
  <2>1. /\ UNCHANGED <<messages, next, unreleased, route>> /\ pc[t] = "through"
        /\ messages[t] = {} /\ next[t] = None
    BY <1>4 DEF FinishQueue, Finish, Handed, Released
  <2>2. /\ \A u \in Thread : u # t => /\ at'[u] = at[u] /\ job'[u] = job[u]
                                      /\ Owed(u)' = Owed(u)
        /\ at'[t] = None
    BY <1>0, <1>4, <2>1 DEF FinishQueue, Finish, Owed, ContextTypeOK
  <2>3. /\ \A u \in Caller : u # t => pc'[u] = pc[u]
        /\ pc'[t] = "idle"
    BY <1>4 DEF FinishQueue, Goto, ContextTypeOK
  <2>4. QED
    BY <1>0, <2>1, <2>2, <2>3 DEF ThreadInv, Handing, Routed, Flushing
<1>5. QED
  BY <1>1, <1>2, <1>3, <1>4

\* The steps of a caller t that is at no node, and stays there.
LEMMA ThreadGoes ==
    ASSUME ContextTypeOK, ThreadInv, NEW t \in Caller,
           UNCHANGED <<unreleased, messages, job, at, next>>,
           \A u \in Caller : u # t => pc'[u] = pc[u] /\ route'[u] = route[u],
           at[t] = None, pc'[t] \notin Handing,
           pc'[t] \in Routed => route'[t] # <<>>
    PROVE  ThreadInv'
<1>1. pc'[t] # "through"
  BY DEF Handing
<1>2. QED
  BY <1>1, ThreadSame DEF ThreadInv

LEMMA GoingOn ==
    ASSUME ContextTypeOK, NEW t \in Caller, NextNode(t)
    PROVE  /\ \A u \in Caller : u # t => pc'[u] = pc[u] /\ route'[u] = route[u]
           /\ pc'[t] \in {"lock", "drain", "idle"}
           /\ pc'[t] = "lock" => route'[t] # <<>>
           /\ pc'[t] = "drain" => op[t] = "flush"
           /\ pc'[t] = "idle" => op[t] # "flush"
BY DEF NextNode, Goto, ContextTypeOK

LEMMA ThreadFlush ==
    ASSUME ContextTypeOK, ThreadInv, NEW t \in Caller,
           \/ BeginFlush(t) \/ SetDispatcher(t)
           \/ LockQueue(t) \/ ClearFrame(t) \/ FrameCleared(t) \/ UnlockQueue(t)
           \/ WaitForRequestDrained(t) \/ WakeUp(t)
    PROVE  ThreadInv'
<1>0. t \in Thread /\ Caller \subseteq Thread
  BY DEF Thread
<1> USE DEF Undisturbed, requests, hands, Handing, Routed, Flushing
<1>1. CASE BeginFlush(t)
  BY <1>1, ThreadGoes DEF BeginFlush, Idle, Goto, ContextTypeOK, ThreadInv
<1>2. CASE SetDispatcher(t)
  <2>1. Toposort # <<>>
    BY ContextAssumption
  <2>2. QED
    BY <1>2, <2>1, ThreadGoes DEF SetDispatcher, Goto, ContextTypeOK, ThreadInv
<1>3. CASE LockQueue(t)
  <2>1. at[t] = None /\ route[t] # <<>>
    BY <1>3 DEF LockQueue, ThreadInv
  <2>2. UNCHANGED <<unreleased, messages, job, at, next, route>>
    BY <1>3 DEF LockQueue
  <2>3. pc' = [pc EXCEPT ![t] = "clear"]
    BY <1>3 DEF LockQueue, Goto
  <2>4. QED
    BY <2>1, <2>2, <2>3, ThreadGoes DEF ContextTypeOK
<1>4. CASE ClearFrame(t)
  <2> DEFINE n == Head(route[t])
  <2>1. pc[t] = "clear" /\ at[t] = None /\ UNCHANGED <<pc, route, messages, next, unreleased>>
    BY <1>4 DEF ClearFrame, callers
  <2>2. n \in Node
    <3>1. route[t] \in Seq(Node) /\ route[t] # <<>>
      BY <2>1 DEF ContextTypeOK, ThreadInv
    <3>2. QED
      BY <3>1
  <2>3. SmallestIn(mRequestQueue[n]) # None
    <3>1. mRequestQueue[n] \in SUBSET Frame /\ mRequestQueue[n] # {}
      BY <1>4, <2>2 DEF ClearFrame, ContextTypeOK
    <3>2. QED
      BY <3>1, SmallestIsIn, ContextAssumption
  <2>4. Begin(t, SmallestIn(mRequestQueue[n]), n)
    BY <1>4 DEF ClearFrame
  <2>5. /\ \A u \in Thread : u # t => /\ at'[u] = at[u] /\ job'[u] = job[u]
                                      /\ Owed(u)' = Owed(u)
        /\ at'[t] # None /\ job'[t] # None
    BY <1>0, <2>1, <2>2, <2>3, <2>4, ContextAssumption DEF Begin, Owed, ContextTypeOK
  <2>6. QED
    BY <1>0, <2>1, <2>5 DEF ThreadInv
<1>5. CASE FrameCleared(t)
  <2>1. /\ UNCHANGED <<messages, next, unreleased, pc, route>> /\ pc[t] = "clear"
        /\ messages[t] = {} /\ next[t] = None
    BY <1>5 DEF FrameCleared, Finish, Handed, Released
  <2>2. /\ \A u \in Thread : u # t => /\ at'[u] = at[u] /\ job'[u] = job[u]
                                      /\ Owed(u)' = Owed(u)
        /\ at'[t] = None
    BY <1>0, <1>5, <2>1 DEF FrameCleared, Finish, Owed, ContextTypeOK
  <2>3. QED
    BY <1>0, <2>1, <2>2 DEF ThreadInv
<1>6. CASE UnlockQueue(t)
  <2>1. at[t] = None /\ route[t] # <<>> /\ UNCHANGED <<unreleased, messages, job, at, next>>
    BY <1>6 DEF UnlockQueue, ThreadInv
  <2>2. CASE NextNode(t)
    BY <2>1, <2>2, GoingOn, ThreadGoes
  <2>3. CASE Goto(t, "await") /\ UNCHANGED route
    BY <2>1, <2>3, ThreadGoes DEF Goto, ContextTypeOK
  <2>4. QED
    BY <1>6, <2>2, <2>3 DEF UnlockQueue
<1>7. CASE WaitForRequestDrained(t)
  <2>1. at[t] = None /\ route[t] # <<>> /\ UNCHANGED <<unreleased, messages, job, at, next>>
    BY <1>7 DEF WaitForRequestDrained, ThreadInv
  <2>2. CASE NextNode(t)
    BY <2>1, <2>2, GoingOn, ThreadGoes
  <2>3. CASE Goto(t, "asleep") /\ UNCHANGED route
    BY <2>1, <2>3, ThreadGoes DEF Goto, ContextTypeOK
  <2>4. QED
    BY <1>7, <2>2, <2>3 DEF WaitForRequestDrained
<1>8. CASE WakeUp(t)
  <2>1. at[t] = None /\ UNCHANGED <<unreleased, messages, job, at, next>> /\ NextNode(t)
    BY <1>8 DEF WakeUp, ThreadInv
  <2>2. QED
    BY <2>1, GoingOn, ThreadGoes
<1>9. QED
  BY <1>1, <1>2, <1>3, <1>4, <1>5, <1>6, <1>7, <1>8

LEMMA ThreadWait ==
    ASSUME ContextTypeOK, ThreadInv, NEW t \in Caller,
           \/ WaitUntilDrained(t) \/ Drained(t)
           \/ EndDispatcherFlush(t) \/ EndContextFlush(t)
           \/ \E n \in Node : WaitUntilNodeDrained(t, n)
           \/ \E k \in Parts : NodePartDrained(t, k)
    PROVE  ThreadInv'
<1> USE DEF Undisturbed, requests, hands, Handing, Routed, Flushing, Goto
<1>1. CASE WaitUntilDrained(t) \/ Drained(t)
  <2>1. /\ at[t] = None /\ UNCHANGED <<unreleased, messages, job, at, next, route>>
        /\ pc'[t] \in {"drain", "endFlush", "idle"}
        /\ \A u \in Caller : u # t => pc'[u] = pc[u]
    BY <1>1 DEF WaitUntilDrained, Drained, Idle, ContextTypeOK, ThreadInv
  <2>2. QED
    BY <2>1, ThreadGoes
<1>2. CASE EndDispatcherFlush(t) \/ EndContextFlush(t)
  <2>1. /\ at[t] = None /\ UNCHANGED <<unreleased, messages, job, at, next, route>>
        /\ pc'[t] \in {"endContext", "idle"}
        /\ \A u \in Caller : u # t => pc'[u] = pc[u]
    BY <1>2 DEF EndDispatcherFlush, EndContextFlush, ContextTypeOK, ThreadInv
  <2>2. QED
    BY <2>1, ThreadGoes
<1>3. ASSUME NEW n \in Node, WaitUntilNodeDrained(t, n) PROVE ThreadInv'
  BY <1>3, ThreadGoes DEF WaitUntilNodeDrained, Idle, ContextTypeOK, ThreadInv
<1>4. ASSUME NEW k \in Parts, NodePartDrained(t, k) PROVE ThreadInv'
  <2>1. pc[t] \in {"waitMeta", "waitImage"} /\ pc'[t] \in {"waitImage", "lock"}
    BY <1>4 DEF NodePartDrained, ContextTypeOK
  <2>2. at[t] = None /\ route[t] # <<>>
    BY <2>1 DEF ThreadInv
  <2>3. /\ UNCHANGED <<unreleased, messages, job, at, next, route>>
        /\ \A u \in Caller : u # t => pc'[u] = pc[u]
    BY <1>4 DEF NodePartDrained, ContextTypeOK
  <2>4. QED
    BY <2>1, <2>2, <2>3, ThreadGoes
<1>5. QED
  BY <1>1, <1>2, <1>3, <1>4

LEMMA ThreadNext ==
    ContextTypeOK /\ ThreadInv /\ PathInv /\ ListInv /\ [Next]_vars => ThreadInv'
<1> SUFFICES ASSUME ContextTypeOK, ThreadInv, PathInv, ListInv, [Next]_vars
             PROVE  ThreadInv'
  OBVIOUS
<1>1. ASSUME NEW n \in Node, NodeStep(n) PROVE ThreadInv'
  BY <1>1, ThreadNode
<1>2. ASSUME NEW t \in Caller, StartCall(t) \/ CallerStep(t) PROVE ThreadInv'
  <2>1. CASE Work(t)
    BY <2>1, ThreadWork DEF Thread
  <2>2. CASE ~Work(t)
    BY <1>2, <2>2, ThreadQueue, ThreadFlush, ThreadWait DEF StartCall, CallerStep
  <2>3. QED
    BY <2>1, <2>2
<1>3. CASE UNCHANGED vars
  BY <1>3, ThreadSame
  DEF ThreadInv, vars, requests, flags, nodes, hands, callers, faults
<1>4. QED
  BY <1>1, <1>2, <1>3 DEF Next

(***************************************************************************)
(* The frames in queues and in hands are registered.                       *)
(***************************************************************************)

\* The steps of a call that flushes or waits leave frames and hands alone, and no
\* queue gets longer by them.
FlushOrWait(t) ==
    \/ BeginFlush(t) \/ SetDispatcher(t) \/ LockQueue(t) \/ UnlockQueue(t)
    \/ WaitForRequestDrained(t) \/ WakeUp(t) \/ WaitUntilDrained(t)
    \/ Drained(t) \/ EndDispatcherFlush(t) \/ EndContextFlush(t)
    \/ \E n \in Node : WaitUntilNodeDrained(t, n)
    \/ \E k \in Parts : NodePartDrained(t, k)

LEMMA RestLeaves ==
    ASSUME NEW t \in Caller, FlushOrWait(t)
    PROVE  Undisturbed' = Undisturbed /\ nodes' = nodes
BY DEF FlushOrWait, BeginFlush, SetDispatcher, LockQueue, UnlockQueue, WaitForRequestDrained, WakeUp,
       WaitUntilDrained, Drained, EndDispatcherFlush, EndContextFlush,
       WaitUntilNodeDrained, NodePartDrained

LEMMA RegisteredSame ==
    ASSUME RegisteredInv, UNCHANGED <<registered, unreleased>>,
           \A n \in Node : mRequestQueue'[n] \subseteq mRequestQueue[n],
           \A t \in Thread : job'[t] \in {None, job[t]}
    PROVE  RegisteredInv'
BY DEF RegisteredInv

LEMMA RegisteredWork ==
    ASSUME ContextTypeOK, ThreadInv, RegisteredInv, NEW t \in Thread, Work(t)
    PROVE  RegisteredInv'
<1>1. CASE ApplyRelease(t)
  <2>1. job[t] \in registered
    BY <1>1 DEF ApplyRelease, ThreadInv, RegisteredInv
  <2>2. \A f \in Frame \ registered : unreleased'[f] = unreleased[f]
    BY <1>1, <2>1 DEF ApplyRelease, ContextTypeOK
  <2>3. UNCHANGED <<registered, mRequestQueue, job>>
    BY <1>1 DEF ApplyRelease, requests, nodes, hands
  <2>4. QED
    BY <2>2, <2>3 DEF RegisteredInv
<1>2. ASSUME NEW m \in Messages, Notify(t, m) PROVE RegisteredInv'
  BY <1>2, RegisteredSame DEF Notify, hands, nodes
<1>3. ASSUME NEW m \in Node, Dispatch(t, m) PROVE RegisteredInv'
  BY <1>3, RegisteredSame DEF Dispatch, requests, nodes
<1>4. CASE EnterQueue(t)
  <2>1. job[t] \in registered
    BY <1>4 DEF EnterQueue, ThreadInv, RegisteredInv
  <2>2. \A n \in Node : mRequestQueue'[n] \subseteq mRequestQueue[n] \cup {job[t]}
    BY <1>4 DEF EnterQueue, Insert, ContextTypeOK
  <2>3. UNCHANGED <<registered, unreleased, job>>
    BY <1>4 DEF EnterQueue, requests
  <2>4. QED
    BY <2>1, <2>2, <2>3 DEF RegisteredInv
<1>5. CASE ReturnToParent(t)
  BY <1>5, RegisteredSame DEF ReturnToParent, requests, nodes
<1>6. QED
  BY <1>1, <1>2, <1>3, <1>4, <1>5 DEF Work

\* A thread that takes the first frame of a queue has a registered one.
LEMMA RegisteredBegin ==
    ASSUME ContextTypeOK, RegisteredInv, NEW t \in Thread, NEW n \in Node,
           mRequestQueue[n] # {}, Begin(t, SmallestIn(mRequestQueue[n]), n),
           UNCHANGED <<registered, unreleased>>,
           \A m \in Node : mRequestQueue'[m] \subseteq mRequestQueue[m]
    PROVE  RegisteredInv'
<1>1. mRequestQueue[n] \in SUBSET Frame
  BY DEF ContextTypeOK
<1>2. SmallestIn(mRequestQueue[n]) \in registered
  BY <1>1, SmallestIsIn DEF RegisteredInv
<1>3. \A u \in Thread : job'[u] \in {job[u], SmallestIn(mRequestQueue[n])}
  BY DEF Begin, ContextTypeOK
<1>4. QED
  BY <1>2, <1>3 DEF RegisteredInv

LEMMA RegisteredNode ==
    ASSUME ContextTypeOK, ThreadInv, RegisteredInv, NEW n \in Node, NodeStep(n)
    PROVE  RegisteredInv'
<1>0. n \in Thread
  BY DEF Thread
<1>1. CASE Deque(n)
  <2>1. \A m \in Node : mRequestQueue'[m] \subseteq mRequestQueue[m]
    BY <1>1 DEF Deque, ContextTypeOK
  <2>2. /\ mRequestQueue[n] # {} /\ Begin(n, SmallestIn(mRequestQueue[n]), n)
        /\ UNCHANGED <<registered, unreleased>>
    BY <1>1 DEF Deque, requests
  <2>3. QED
    BY <1>0, <2>1, <2>2, RegisteredBegin
<1>2. CASE Rest(n)
  BY <1>2, RegisteredSame DEF Rest, hands, requests
<1>3. CASE FinishFrame(n) \/ DropFrame(n)
  <2>1. UNCHANGED <<registered, unreleased, mRequestQueue>> /\ Finish(n)
    BY <1>3 DEF FinishFrame, DropFrame, Finish, requests
  <2>2. \A t \in Thread : job'[t] \in {None, job[t]}
    BY <2>1 DEF Finish, ContextTypeOK
  <2>3. QED
    BY <2>1, <2>2, RegisteredSame
<1>4. CASE Work(n)
  BY <1>0, <1>4, RegisteredWork
<1>5. QED
  BY <1>1, <1>2, <1>3, <1>4 DEF NodeStep

LEMMA RegisteredCaller ==
    ASSUME ContextTypeOK, ThreadInv, RegisteredInv, NEW t \in Caller,
           StartCall(t) \/ CallerStep(t)
    PROVE  RegisteredInv'
<1>0. t \in Thread
  BY DEF Thread
<1>1. ASSUME NEW f \in Frame, RegisterRequest(t, f) PROVE RegisteredInv'
  <2>1. /\ registered' = registered \cup {f}
        /\ UNCHANGED <<unreleased, mRequestQueue>>
    BY <1>1 DEF RegisterRequest, nodes
  <2>2. \A u \in Thread : job'[u] \in {job[u], f}
    BY <1>1 DEF RegisterRequest, ContextTypeOK
  <2>3. QED
    BY <2>1, <2>2 DEF RegisteredInv
<1>2. CASE HandToRoot(t)
  <2>1. \A u \in Thread : job'[u] = job[u]
    BY <1>2 DEF HandToRoot, Begin, ContextTypeOK
  <2>2. QED
    BY <1>2, <2>1, RegisteredSame DEF HandToRoot, requests, nodes
<1>3. CASE EnterRoot(t)
  <2>1. job[t] \in registered
    BY <1>0, <1>3 DEF EnterRoot, ThreadInv, RegisteredInv, Handing
  <2>2. \A n \in Node : mRequestQueue'[n] \subseteq mRequestQueue[n] \cup {job[t]}
    BY <1>3 DEF EnterRoot, Insert, ContextTypeOK
  <2>3. \A u \in Thread : job'[u] \in {None, job[u]}
    BY <1>3 DEF EnterRoot, ContextTypeOK
  <2>4. UNCHANGED <<registered, unreleased>>
    BY <1>3 DEF EnterRoot, requests
  <2>5. QED
    BY <2>1, <2>2, <2>3, <2>4 DEF RegisteredInv
<1>4. CASE FinishQueue(t) \/ FrameCleared(t)
  <2>1. UNCHANGED <<registered, unreleased>> /\ Finish(t)
    BY <1>4 DEF FinishQueue, FrameCleared, Finish, requests
  <2>2. \A u \in Thread : job'[u] \in {None, job[u]}
    BY <2>1 DEF Finish, ContextTypeOK
  <2>3. \A n \in Node : mRequestQueue'[n] \subseteq mRequestQueue[n]
    <3>1. CASE FinishQueue(t)
      BY <3>1 DEF FinishQueue
    <3>2. CASE FrameCleared(t)
      <4>1. mRequestQueue' = [mRequestQueue EXCEPT ![Head(route[t])] = @ \ {job[t]}]
        BY <3>2 DEF FrameCleared
      <4>2. QED
        BY <4>1 DEF ContextTypeOK
    <3>3. QED
      BY <1>4, <3>1, <3>2
  <2>4. QED
    BY <2>1, <2>2, <2>3, RegisteredSame
<1>5. CASE ClearFrame(t)
  <2>1. Head(route[t]) \in Node
    <3>1. route[t] \in Seq(Node) /\ route[t] # <<>>
      BY <1>5 DEF ClearFrame, ContextTypeOK, ThreadInv, Routed, Flushing
    <3>2. QED
      BY <3>1
  <2>2. /\ mRequestQueue[Head(route[t])] # {}
        /\ Begin(t, SmallestIn(mRequestQueue[Head(route[t])]), Head(route[t]))
        /\ UNCHANGED <<registered, unreleased, mRequestQueue>>
    BY <1>5 DEF ClearFrame, requests, nodes
  <2>3. QED
    BY <1>0, <2>1, <2>2, RegisteredBegin
<1>6. CASE FlushOrWait(t)
  BY <1>6, RestLeaves, RegisteredSame DEF Undisturbed, requests, hands, nodes
<1>7. CASE Work(t)
  BY <1>0, <1>7, RegisteredWork
<1>8. QED
  BY <1>1, <1>2, <1>3, <1>4, <1>5, <1>6, <1>7 DEF StartCall, CallerStep, FlushOrWait

LEMMA RegisteredNext ==
    ContextTypeOK /\ ThreadInv /\ RegisteredInv /\ [Next]_vars => RegisteredInv'
<1> SUFFICES ASSUME ContextTypeOK, ThreadInv, RegisteredInv, [Next]_vars
             PROVE  RegisteredInv'
  OBVIOUS
<1>1. CASE UNCHANGED vars
  BY <1>1, RegisteredSame DEF vars, requests, nodes, hands
<1>2. QED
  BY <1>1, RegisteredNode, RegisteredCaller DEF Next

(***************************************************************************)
(* The lists of requests in flight.                                        *)
(***************************************************************************)

LEMMA ListSame ==
    ASSUME ListInv, UNCHANGED <<registered, mRequest, mRequestMap, unreleased, messages>>,
           \A t \in Thread : messages[t] # {} => at'[t] = at[t] /\ job'[t] = job[t]
    PROVE  ListInv'
<1>1. \A t \in Thread : messages[t] # {} => Owed(t)' = Owed(t)
  BY DEF Owed
<1>2. NodeListsCoverFrames'
  BY DEF ListInv, NodeListsCoverFrames
<1>3. \A t \in Thread : at'[t] # None => Owed(t)' \cap messages'[t] = {}
  <2> SUFFICES ASSUME NEW t \in Thread, at'[t] # None, messages[t] # {}
               PROVE  Owed(t)' \cap messages'[t] = {}
    OBVIOUS
  <2>1. at[t] # None /\ Owed(t)' = Owed(t)
    BY <1>1
  <2>2. QED
    BY <2>1 DEF ListInv
<1>4. QED
  BY <1>2, <1>3 DEF ListInv

LEMMA ListRelease ==
    ASSUME ContextTypeOK, ThreadInv, ListInv, NEW t \in Thread, ApplyRelease(t)
    PROVE  ListInv'
<1>1. at[t] \in Node /\ job[t] \in Frame /\ messages[t] = {}
  BY AtHasFrame DEF ApplyRelease
<1>2. PICK K \in SUBSET Owed(t) :
        /\ unreleased' = [unreleased EXCEPT ![job[t]] = @ \ ({at[t]} \X K)]
        /\ messages' = [messages EXCEPT ![t] =
                K \cup (IF unreleased'[job[t]] = {} THEN {"frame"} ELSE {})]
  BY DEF ApplyRelease
<1>3. UNCHANGED <<registered, mRequest, mRequestMap, at, job>>
  BY DEF ApplyRelease, requests, hands
<1>4. \A f \in Frame : unreleased'[f] \subseteq unreleased[f]
  BY <1>1, <1>2 DEF ContextTypeOK
<1>5. \A u \in Thread : u # t => messages'[u] = messages[u]
  BY <1>2 DEF ContextTypeOK
<1>6. messages'[t] = K \cup (IF unreleased'[job[t]] = {} THEN {"frame"} ELSE {})
  BY <1>2 DEF ContextTypeOK
<1>7. K \subseteq Parts /\ "frame" \notin K
  BY <1>2 DEF Owed, Parts
<1>8. \A f \in Frame : unreleased'[f] \subseteq NodesOf[f] \X Parts
  BY <1>4 DEF ListInv
<1>9. \A f \in registered' : unreleased'[f] # {} => f \in mRequest'
  BY <1>3, <1>4 DEF ListInv, ContextTypeOK
<1>10. NodeListsCoverFrames'
  BY <1>3, <1>4 DEF ListInv, NodeListsCoverFrames, ContextTypeOK
<1>11. ASSUME NEW u \in Thread, "frame" \in messages'[u] PROVE unreleased'[job'[u]] = {}
  <2>1. CASE u = t
    BY <1>3, <1>6, <1>7, <1>11, <2>1
  <2>2. CASE u # t
    <3>1. messages[u] # {} /\ unreleased[job[u]] = {}
      BY <1>5, <1>11, <2>2 DEF ListInv
    <3>2. job[u] \in Frame
      BY <3>1, AtHasFrame DEF ThreadInv
    <3>3. QED
      BY <1>3, <1>4, <3>1, <3>2
  <2>3. QED
    BY <2>1, <2>2
<1>12. ASSUME NEW u \in Thread, at'[u] # None PROVE Owed(u)' \cap messages'[u] = {}
  <2>1. CASE u = t
    <3>1. unreleased'[job[t]] = unreleased[job[t]] \ ({at[t]} \X K)
      BY <1>1, <1>2 DEF ContextTypeOK
    <3>2. \A k \in Owed(t)' : k \notin K
      BY <1>3, <3>1 DEF Owed
    <3>3. "frame" \notin Owed(t)'
      BY DEF Owed, Parts
    <3>4. QED
      BY <1>6, <2>1, <3>2, <3>3
  <2>2. CASE u # t
    <3>1. job[u] \in Frame /\ Owed(u) \cap messages[u] = {}
      BY <1>3, <1>12, AtHasFrame DEF ListInv
    <3>2. Owed(u)' \subseteq Owed(u)
      BY <1>3, <1>4, <3>1 DEF Owed
    <3>3. QED
      BY <1>5, <2>2, <3>1, <3>2
  <2>3. QED
    BY <2>1, <2>2
<1>13. QED
  BY <1>8, <1>9, <1>10, <1>11, <1>12 DEF ListInv

LEMMA ListNotify ==
    ASSUME ContextTypeOK, ThreadInv, ListInv, NEW t \in Thread, NEW m \in Messages,
           Notify(t, m)
    PROVE  ListInv'
<1>1. at[t] \in Node /\ job[t] \in Frame /\ m \in messages[t]
  <2>1. m \in messages[t]
    BY DEF Notify
  <2>2. at[t] # None
    BY <2>1 DEF ThreadInv
  <2>3. QED
    BY <2>1, <2>2, AtHasFrame
<1>2. UNCHANGED <<registered, unreleased, at, job>>
  BY DEF Notify, hands
<1>3. \A u \in Thread : messages'[u] \subseteq messages[u]
  BY DEF Notify, ContextTypeOK
<1>4. \A u \in Thread : Owed(u)' = Owed(u)
  BY <1>2 DEF Owed
<1>5. \A f \in registered' : unreleased'[f] # {} => f \in mRequest'
  <2>1. CASE m = "frame"
    <3>1. unreleased[job[t]] = {}
      BY <1>1, <2>1 DEF ListInv
    <3>2. mRequest' = mRequest \ {job[t]}
      BY <2>1 DEF Notify
    <3>3. QED
      BY <1>2, <3>1, <3>2 DEF ListInv
  <2>2. CASE m # "frame"
    BY <1>2, <2>2 DEF ListInv, Notify
  <2>3. QED
    BY <2>1, <2>2
<1>6. NodeListsCoverFrames'
  <2>1. CASE m = "frame"
    BY <1>2, <2>1 DEF ListInv, NodeListsCoverFrames, Notify
  <2>2. CASE m # "frame"
    <3>1. m \in Parts /\ m \notin Owed(t)
      BY <1>1, <2>2, AtHasFrame DEF ListInv, Messages, ThreadInv
    <3>2. <<at[t], m>> \notin unreleased[job[t]]
      BY <3>1 DEF Owed
    <3>3. \A k \in Parts : \A n \in Node : \A f \in mRequestMap[k][n] :
                f \in mRequestMap'[k][n] \/ (k = m /\ n = at[t] /\ f = job[t])
      BY <2>2 DEF Notify, ContextTypeOK
    <3>4. OutNode \subseteq Node
      BY ContextAssumption
    <3>5. QED
      BY <1>2, <3>2, <3>3, <3>4 DEF ListInv, NodeListsCoverFrames
  <2>3. QED
    BY <2>1, <2>2
<1>7. QED
  BY <1>2, <1>3, <1>4, <1>5, <1>6 DEF ListInv

LEMMA ListWork ==
    ASSUME ContextTypeOK, ThreadInv, ListInv, NEW t \in Thread, Work(t)
    PROVE  ListInv'
<1>1. CASE ApplyRelease(t)
  BY <1>1, ListRelease
<1>2. ASSUME NEW m \in Messages, Notify(t, m) PROVE ListInv'
  BY <1>2, ListNotify
<1>3. ASSUME NEW m \in Node, Dispatch(t, m) PROVE ListInv'
  <2>1. messages[t] = {}
    BY <1>3 DEF Dispatch, Released
  <2>2. \A u \in Thread : u # t => at'[u] = at[u] /\ job'[u] = job[u]
    BY <1>3 DEF Dispatch, ContextTypeOK
  <2>3. QED
    BY <1>3, <2>1, <2>2, ListSame DEF Dispatch, requests
<1>4. CASE EnterQueue(t)
  BY <1>4, ListSame DEF EnterQueue, requests
<1>5. CASE ReturnToParent(t)
  <2>1. messages[t] = {}
    BY <1>5 DEF ReturnToParent, Handed, Released
  <2>2. \A u \in Thread : u # t => at'[u] = at[u] /\ job'[u] = job[u]
    BY <1>5 DEF ReturnToParent, ContextTypeOK
  <2>3. QED
    BY <1>5, <2>1, <2>2, ListSame DEF ReturnToParent, requests
<1>6. QED
  BY <1>1, <1>2, <1>3, <1>4, <1>5 DEF Work

LEMMA ListNode ==
    ASSUME ContextTypeOK, ThreadInv, ListInv, NEW n \in Node, NodeStep(n)
    PROVE  ListInv'
<1>0. n \in Thread
  BY DEF Thread
<1>1. CASE Deque(n)
  <2>1. messages[n] = {}
    BY <1>0, <1>1 DEF Deque, ThreadInv
  <2>2. \A u \in Thread : u # n => at'[u] = at[u] /\ job'[u] = job[u]
    BY <1>1 DEF Deque, Begin, ContextTypeOK
  <2>3. QED
    BY <1>1, <2>1, <2>2, ListSame DEF Deque, requests
<1>2. CASE Rest(n)
  BY <1>2, ListSame DEF Rest, hands, requests
<1>3. CASE FinishFrame(n) \/ DropFrame(n)
  <2>1. Finish(n)
    BY <1>3 DEF FinishFrame, DropFrame
  <2>2. messages[n] = {}
    <3>1. CASE FinishFrame(n)
      BY <3>1 DEF FinishFrame, Handed, Released
    <3>2. CASE DropFrame(n)
      <4>1. at[n] # None /\ Owed(n) = Parts
        BY <3>2, ContextAssumption DEF DropFrame, Drops
      <4>2. QED
        BY <1>0, <4>1, NothingTold
    <3>3. QED
      BY <1>3, <3>1, <3>2
  <2>3. \A u \in Thread : u # n => at'[u] = at[u] /\ job'[u] = job[u]
    BY <2>1 DEF Finish, ContextTypeOK
  <2>4. QED
    BY <2>1, <2>2, <2>3, ListSame DEF Finish, requests
<1>4. CASE Work(n)
  BY <1>0, <1>4, ListWork
<1>5. QED
  BY <1>1, <1>2, <1>3, <1>4 DEF NodeStep

LEMMA ListRegister ==
    ASSUME ContextTypeOK, ThreadInv, RegisteredInv, ListInv,
           NEW t \in Caller, NEW f \in Frame, RegisterRequest(t, f)
    PROVE  ListInv'
<1>1. /\ registered' = registered \cup {f}
      /\ mRequest' = mRequest \cup {f}
      /\ UNCHANGED <<unreleased, messages, at>>
  BY DEF RegisterRequest
<1>2. t \in Thread /\ at[t] = None
  BY DEF Thread, RegisterRequest, Idle, ThreadInv
<1>3. \A u \in Thread : u # t => job'[u] = job[u]
  BY DEF RegisterRequest, ContextTypeOK
<1>4. NodeListsCoverFrames'
  <2> SUFFICES ASSUME NEW g \in registered', NEW n \in OutNode, NEW k \in Parts,
                      <<n, k>> \in unreleased'[g]
               PROVE  g \in mRequestMap'[k][n]
    BY DEF NodeListsCoverFrames
  <2>1. n \in Node
    BY ContextAssumption
  <2>2. mRequestMap'[k][n] = IF n \in OutNode \cap NodesOf[f]
                             THEN mRequestMap[k][n] \cup {f} ELSE mRequestMap[k][n]
    BY <2>1 DEF RegisterRequest
  <2>3. CASE g = f
    <3>1. <<n, k>> \in NodesOf[f] \X Parts
      BY <1>1, <2>3 DEF ListInv
    <3>2. n \in NodesOf[f]
      BY <3>1
    <3>3. QED
      BY <2>2, <2>3, <3>2
  <2>4. CASE g # f
    BY <1>1, <2>2, <2>4 DEF ListInv, NodeListsCoverFrames
  <2>5. QED
    BY <2>3, <2>4
<1>5. \A u \in Thread : at[u] # None => Owed(u)' = Owed(u)
  BY <1>1, <1>2, <1>3 DEF Owed
<1>6. \A u \in Thread : "frame" \in messages[u] => at[u] # None
  BY DEF ThreadInv
<1>7. \A g \in registered' : unreleased'[g] # {} => g \in mRequest'
  BY <1>1 DEF ListInv
<1>8. \A u \in Thread : "frame" \in messages'[u] => unreleased'[job'[u]] = {}
  BY <1>1, <1>2, <1>3, <1>6 DEF ListInv
<1>9. \A u \in Thread : at'[u] # None => Owed(u)' \cap messages'[u] = {}
  BY <1>1, <1>5 DEF ListInv
<1>10. \A g \in Frame : unreleased'[g] \subseteq NodesOf[g] \X Parts
  BY <1>1 DEF ListInv
<1>11. QED
  BY <1>4, <1>7, <1>8, <1>9, <1>10 DEF ListInv

LEMMA ListCaller ==
    ASSUME ContextTypeOK, ThreadInv, RegisteredInv, ListInv, NEW t \in Caller,
           StartCall(t) \/ CallerStep(t)
    PROVE  ListInv'
<1>0. t \in Thread
  BY DEF Thread
<1>1. ASSUME NEW f \in Frame, RegisterRequest(t, f) PROVE ListInv'
  BY <1>1, ListRegister
<1>2. CASE HandToRoot(t) \/ EnterRoot(t)
  <2>1. messages[t] = {}
    BY <1>0, <1>2 DEF HandToRoot, EnterRoot, ThreadInv
  <2>2. \A u \in Thread : u # t => at'[u] = at[u] /\ job'[u] = job[u]
    BY <1>2 DEF HandToRoot, EnterRoot, Begin, ContextTypeOK
  <2>3. QED
    BY <1>2, <2>1, <2>2, ListSame DEF HandToRoot, EnterRoot, requests
<1>3. CASE FinishQueue(t) \/ FrameCleared(t)
  <2>1. messages[t] = {} /\ Finish(t)
    BY <1>3 DEF FinishQueue, FrameCleared, Handed, Released
  <2>2. \A u \in Thread : u # t => at'[u] = at[u] /\ job'[u] = job[u]
    BY <2>1 DEF Finish, ContextTypeOK
  <2>3. QED
    BY <2>1, <2>2, ListSame DEF Finish, requests
<1>4. CASE ClearFrame(t)
  <2>1. messages[t] = {}
    BY <1>0, <1>4 DEF ClearFrame, ThreadInv
  <2>2. \A u \in Thread : u # t => at'[u] = at[u] /\ job'[u] = job[u]
    BY <1>4 DEF ClearFrame, Begin, ContextTypeOK
  <2>3. QED
    BY <1>4, <2>1, <2>2, ListSame DEF ClearFrame, requests
<1>5. CASE FlushOrWait(t)
  BY <1>5, RestLeaves, ListSame DEF Undisturbed, requests, hands
<1>6. CASE Work(t)
  BY <1>0, <1>6, ListWork
<1>7. QED
  BY <1>1, <1>2, <1>3, <1>4, <1>5, <1>6 DEF StartCall, CallerStep, FlushOrWait

LEMMA ListNext ==
    ContextTypeOK /\ ThreadInv /\ RegisteredInv /\ ListInv /\ [Next]_vars => ListInv'
<1> SUFFICES ASSUME ContextTypeOK, ThreadInv, RegisteredInv, ListInv, [Next]_vars
             PROVE  ListInv'
  OBVIOUS
<1>1. CASE UNCHANGED vars
  BY <1>1, ListSame DEF vars, requests, hands
<1>2. QED
  BY <1>1, ListNode, ListCaller DEF Next

(***************************************************************************)
(* The wait before a caller is the one its call leads to.                  *)
(***************************************************************************)

\* A step that keeps op, and moves a caller without a wait before it anywhere but
\* to one, or changes nothing that matters.
LEMMA WaitSame ==
    ASSUME WaitInv, op' = op,
           \A t \in Caller : \/ pc'[t] = pc[t]
                             \/ pc[t] \in Flushing /\ pc'[t] \in Flushing
                             \/ op[t] = "none" /\ pc'[t] # "drain"
    PROVE  WaitInv'
BY DEF WaitInv, Flushing

LEMMA WaitWork ==
    ASSUME WaitInv, NEW t, Work(t)
    PROVE  WaitInv'
<1>1. UNCHANGED <<pc, op>>
  BY DEF Work, ApplyRelease, Notify, Dispatch, EnterQueue, ReturnToParent, callers
<1>2. QED
  BY <1>1, WaitSame

LEMMA WaitNode ==
    ASSUME WaitInv, NEW n \in Node, NodeStep(n)
    PROVE  WaitInv'
<1>1. CASE Deque(n)
  BY <1>1, WaitSame DEF Deque, callers
<1>2. CASE Rest(n)
  <2>1. \A t \in Caller : pc'[t] = pc[t] \/ (pc[t] = "asleep" /\ pc'[t] = "woken")
    BY <1>2 DEF Rest, Sleepers
  <2>2. QED
    BY <1>2, <2>1, WaitSame DEF Rest, Flushing
<1>3. CASE FinishFrame(n) \/ DropFrame(n)
  BY <1>3, WaitSame DEF FinishFrame, DropFrame, Finish
<1>4. CASE Work(n)
  BY <1>4, WaitWork
<1>5. QED
  BY <1>1, <1>2, <1>3, <1>4 DEF NodeStep

\* The caller that goes on to its next node.
LEMMA WaitGoesOn ==
    ASSUME ContextTypeOK, WaitInv, NEW t \in Caller, NextNode(t), op' = op,
           pc[t] \in Flushing
    PROVE  WaitInv'
<1>1. \A u \in Caller : u # t => pc'[u] = pc[u]
  BY GoingOn
<1>2. /\ pc'[t] \in {"lock", "drain", "idle"}
      /\ pc'[t] = "drain" => op[t] = "flush"
      /\ pc'[t] = "idle" => op[t] # "flush"
  BY GoingOn
<1>3. op[t] # "wait"
  BY DEF WaitInv, Flushing
<1>4. QED
  BY <1>1, <1>2, <1>3 DEF WaitInv, Flushing

LEMMA WaitCaller ==
    ASSUME ContextTypeOK, WaitInv, NEW t \in Caller, StartCall(t) \/ CallerStep(t)
    PROVE  WaitInv'
<1> USE DEF Goto
<1>0. /\ op[t] \in {"none", "flush", "wait"}
      /\ \A l : pc' = [pc EXCEPT ![t] = l] =>
                    /\ pc'[t] = l
                    /\ \A u \in Caller : u # t => pc'[u] = pc[u]
      /\ \A o : op' = [op EXCEPT ![t] = o] =>
                    /\ op'[t] = o
                    /\ \A u \in Caller : u # t => op'[u] = op[u]
  BY DEF ContextTypeOK
<1>1. ASSUME NEW f \in Frame, RegisterRequest(t, f) PROVE WaitInv'
  BY <1>0, <1>1 DEF RegisterRequest, Idle, WaitInv, Flushing
<1>2. CASE HandToRoot(t) \/ EnterRoot(t) \/ FinishQueue(t)
  <2>1. /\ pc[t] \in {"hand", "enter", "through"}
        /\ \E l \in {"through", "enter", "idle"} : pc' = [pc EXCEPT ![t] = l]
        /\ op' = op
    BY <1>2 DEF HandToRoot, EnterRoot, FinishQueue, Finish
  <2>2. QED
    BY <1>0, <2>1, WaitSame DEF WaitInv, Flushing
<1>3. CASE BeginFlush(t) \/ WaitUntilDrained(t)
  BY <1>0, <1>3 DEF BeginFlush, WaitUntilDrained, WaitInv, Flushing, Idle
<1>4. CASE SetDispatcher(t) \/ LockQueue(t)
  <2>1. /\ pc[t] \in {"setDispatcher", "lock"}
        /\ \E l \in {"lock", "clear"} : pc' = [pc EXCEPT ![t] = l]
        /\ op' = op
    BY <1>4 DEF SetDispatcher, LockQueue
  <2>2. QED
    BY <1>0, <2>1 DEF WaitInv, Flushing
<1>5. CASE ClearFrame(t) \/ FrameCleared(t)
  BY <1>5, WaitSame DEF ClearFrame, FrameCleared, Finish, callers
<1>6. CASE UnlockQueue(t) \/ WaitForRequestDrained(t) \/ WakeUp(t)
  <2>1. /\ pc[t] \in Flushing /\ op' = op
        /\ \/ NextNode(t)
           \/ \E l \in {"await", "asleep"} : pc' = [pc EXCEPT ![t] = l]
    BY <1>6 DEF UnlockQueue, WaitForRequestDrained, WakeUp, Flushing
  <2>2. CASE NextNode(t)
    BY <2>1, <2>2, WaitGoesOn
  <2>3. CASE \E l \in {"await", "asleep"} : pc' = [pc EXCEPT ![t] = l]
    BY <1>0, <2>1, <2>3, WaitSame DEF Flushing
  <2>4. QED
    BY <2>1, <2>2, <2>3
<1>7. CASE Drained(t)
  <2>1. op' = [op EXCEPT ![t] = "none"]
    BY <1>7 DEF Drained
  <2>2. \E l \in {"endFlush", "idle"} : pc' = [pc EXCEPT ![t] = l]
    BY <1>7 DEF Drained
  <2>3. /\ op'[t] = "none" /\ pc'[t] \in {"endFlush", "idle"}
        /\ \A u \in Caller : u # t => pc'[u] = pc[u] /\ op'[u] = op[u]
    BY <1>0, <2>1, <2>2
  <2>4. QED
    BY <2>3 DEF WaitInv
<1>8. CASE EndDispatcherFlush(t) \/ EndContextFlush(t)
  BY <1>0, <1>8, WaitSame DEF EndDispatcherFlush, EndContextFlush, WaitInv, Flushing
<1>9. ASSUME NEW n \in Node, WaitUntilNodeDrained(t, n) PROVE WaitInv'
  BY <1>0, <1>9, WaitSame DEF WaitUntilNodeDrained, Idle, WaitInv, Flushing
<1>10. ASSUME NEW k \in Parts, NodePartDrained(t, k) PROVE WaitInv'
  <2>1. /\ pc[t] \in {"waitMeta", "waitImage"}
        /\ \E l \in {"waitImage", "lock"} : pc' = [pc EXCEPT ![t] = l]
        /\ op' = op
    BY <1>10 DEF NodePartDrained
  <2>2. QED
    BY <1>0, <2>1, WaitSame DEF WaitInv, Flushing
<1>11. CASE Work(t)
  BY <1>11, WaitWork
<1>12. QED
  BY <1>1, <1>2, <1>3, <1>4, <1>5, <1>6, <1>7, <1>8, <1>9, <1>10, <1>11
  DEF StartCall, CallerStep

LEMMA WaitNext == ContextTypeOK /\ WaitInv /\ [Next]_vars => WaitInv'
<1>1. CASE UNCHANGED vars
  BY <1>1, WaitSame DEF vars, callers
<1>2. QED
  BY <1>1, WaitNode, WaitCaller DEF Next

(***************************************************************************)
(* A node is given a frame once.                                           *)
(***************************************************************************)

\* A step that gives no node a frame, and puts none in a queue.
LEMMA OnceSame ==
    ASSUME ContextTypeOK, OnceInv, times' = times, registered \subseteq registered',
           \A n \in Node : mRequestQueue'[n] \subseteq mRequestQueue[n],
           \A n \in Node : \A f \in mRequestQueue'[n] :
                BeingCleared(f, n) => BeingCleared(f, n)',
           \A f \in Frame : toHand'[f] \subseteq toHand[f],
           \A t \in Thread : next'[t] # None =>
                next'[t] \in toHand'[job'[t]] \cap Children(job'[t], at'[t])
    PROVE  OnceInv'
<1>1. /\ \A f \in Frame, n \in Node :
            /\ times'[f][n] \in {0, 1}
            /\ n # Root /\ times'[f][n] = 1 => times'[f][Parent(n)] = 1
            /\ f \notin registered' => times'[f][n] = 0
  BY DEF OnceInv
<1>2. \A n \in Node : \A f \in mRequestQueue'[n] :
            /\ ~BeingCleared(f, n)' => times'[f][n] = 0
            /\ n # Root => times'[f][Parent(n)] = 1
  BY DEF OnceInv
<1>3. \A f \in Frame : \A n \in toHand'[f] :
            /\ n # Root /\ times'[f][Parent(n)] = 1
            /\ times'[f][n] = 0
  BY DEF OnceInv
<1>4. ASSUME NEW f \in Frame, NEW n \in toHand'[f]
      PROVE f \notin mRequestQueue'[n]
  <2>1. n \in toHand[f] /\ n \in Node
    BY <1>4 DEF ContextTypeOK
  <2>2. QED
    BY <2>1 DEF OnceInv
<1>5. QED
  BY <1>1, <1>2, <1>3, <1>4 DEF OnceInv

\* Node n is given frame f, which it was not before.
LEMMA OnceGiven ==
    ASSUME ContextTypeOK, OnceInv, NEW f \in registered, NEW n \in Node,
           times[f][n] = 0, n # Root => times[f][Parent(n)] = 1,
           times' = [times EXCEPT ![f][n] = @ + 1], registered' = registered,
           toHand' = [toHand EXCEPT ![f] = (@ \ {n}) \cup Children(f, n)],
           \A m \in Node : mRequestQueue'[m] \subseteq mRequestQueue[m],
           f \in mRequestQueue'[n] => BeingCleared(f, n)',
           \A m \in Node : \A g \in mRequestQueue'[m] :
                BeingCleared(g, m) => BeingCleared(g, m)',
           \A t \in Thread : next'[t] # None =>
                next'[t] \in toHand'[job'[t]] \cap Children(job'[t], at'[t])
    PROVE  OnceInv'
<1>0. f \in Frame
  BY DEF ContextTypeOK
<1>1. \A g \in Frame, m \in Node : times'[g][m] = IF g = f /\ m = n THEN 1 ELSE times[g][m]
  <2>1. times \in [Frame -> [Node -> Nat]]
    BY DEF ContextTypeOK
  <2>2. QED
    BY <1>0, <2>1
<1>2. \A g \in Frame, m \in Node : times[g][m] = 1 => times'[g][m] = 1
  BY <1>1
<1>3. \A m \in Node \ {Root} : Parent(m) \in Node
  BY ParentOf
<1>4. /\ \A g \in Frame, m \in Node :
            /\ times'[g][m] \in {0, 1}
            /\ m # Root /\ times'[g][m] = 1 => times'[g][Parent(m)] = 1
            /\ g \notin registered' => times'[g][m] = 0
  <2> SUFFICES ASSUME NEW g \in Frame, NEW m \in Node
               PROVE  /\ times'[g][m] \in {0, 1}
                      /\ m # Root /\ times'[g][m] = 1 => times'[g][Parent(m)] = 1
                      /\ g \notin registered' => times'[g][m] = 0
    OBVIOUS
  <2>1. CASE g = f /\ m = n
    BY <1>0, <1>1, <1>2, <1>3, <2>1
  <2>2. CASE ~(g = f /\ m = n)
    <3>1. times'[g][m] = times[g][m]
      BY <1>1, <2>2
    <3>2. QED
      BY <1>2, <1>3, <3>1 DEF OnceInv
  <2>3. QED
    BY <2>1, <2>2
<1>5. ASSUME NEW m \in Node, NEW g \in mRequestQueue'[m]
      PROVE  /\ ~BeingCleared(g, m)' => times'[g][m] = 0
             /\ m # Root => times'[g][Parent(m)] = 1
  <2>1. g \in mRequestQueue[m] /\ g \in Frame
    BY <1>5 DEF ContextTypeOK
  <2>2. m # Root => times'[g][Parent(m)] = 1
    BY <1>2, <1>3, <2>1 DEF OnceInv
  <2>3. ~BeingCleared(g, m)' => times'[g][m] = 0
    BY <1>1, <2>1 DEF OnceInv
  <2>4. QED
    BY <2>2, <2>3
<1>6. \A m \in Children(f, n) :
            m \in Node /\ m # Root /\ Parent(m) = n /\ m # n
            /\ times[f][m] = 0 /\ f \notin mRequestQueue[m]
  <2> SUFFICES ASSUME NEW m \in Children(f, n)
               PROVE  m \in Node /\ m # Root /\ Parent(m) = n /\ m # n
                      /\ times[f][m] = 0 /\ f \notin mRequestQueue[m]
    OBVIOUS
  <2>1. m \in Node /\ m # Root /\ Parent(m) = n
    BY <1>0, ChildOf
  <2>2. m # n
    BY <2>1
  <2>3. times[f][m] = 0 /\ f \notin mRequestQueue[m]
    BY <1>0, <2>1 DEF OnceInv
  <2>4. QED
    BY <2>1, <2>2, <2>3
<1>7. ASSUME NEW g \in Frame, NEW m \in toHand'[g]
      PROVE  /\ m # Root /\ times'[g][Parent(m)] = 1
             /\ times'[g][m] = 0 /\ g \notin mRequestQueue'[m]
  <2>1. toHand \in [Frame -> SUBSET Node]
    BY DEF ContextTypeOK
  <2>2. CASE g = f /\ m \in Children(f, n)
    BY <1>1, <1>6, <2>2
  <2>3. CASE ~(g = f /\ m \in Children(f, n))
    <3>1. m \in toHand[g] /\ m \in Node /\ ~(g = f /\ m = n)
      BY <1>0, <1>6, <1>7, <2>1, <2>3
    <3>2. /\ m # Root /\ times[g][Parent(m)] = 1
          /\ times[g][m] = 0 /\ g \notin mRequestQueue[m]
      BY <3>1 DEF OnceInv
    <3>3. QED
      BY <1>1, <1>2, <1>3, <3>1, <3>2
  <2>4. QED
    BY <2>2, <2>3
<1>8. QED
  BY <1>4, <1>5, <1>7 DEF OnceInv

\* A thread that is at a node stays there, with its frame, or is through with it.
LEMMA PathSame ==
    ASSUME PathInv, times' = times,
           \A t \in Thread : \/ at'[t] = None
                             \/ at'[t] = at[t] /\ job'[t] = job[t] /\ Base(t)' = Base(t)
    PROVE  PathInv'
<1>1. PICK path \in [Thread -> SUBSET Node] : PathsRight(path)
  BY DEF PathInv
<1>2. PICK path1 \in [Thread -> SUBSET Node] :
            \A t \in Thread : path1[t] = IF at'[t] = None THEN {} ELSE path[t]
  <2>1. [t \in Thread |-> IF at'[t] = None THEN {} ELSE path[t]] \in [Thread -> SUBSET Node]
    OBVIOUS
  <2>2. QED
    BY <2>1
<1>3. \A t \in Thread :
            /\ at'[t] = None => path1[t] = {}
            /\ at'[t] # None => /\ path1[t] = path[t] /\ at'[t] = at[t]
                                /\ job'[t] = job[t] /\ Base(t)' = Base(t)
  BY <1>2
<1>4. \A t \in Thread : at'[t] # None => at'[t] \in path1[t]
  BY <1>1, <1>3 DEF PathsRight
<1>5. \A t \in Thread : \A n \in path1[t] :
            /\ times'[job'[t]][n] = 1
            /\ n # Base(t)' => n # Root /\ Parent(n) \in path1[t]
  BY <1>1, <1>3 DEF PathsRight
<1>6. \A t, u \in Thread : t # u /\ job'[t] = job'[u] => path1[t] \cap path1[u] = {}
  BY <1>1, <1>3 DEF PathsRight
<1>7. PathsRight(path1)'
  BY <1>3, <1>4, <1>5, <1>6 DEF PathsRight
<1>8. QED
  BY <1>2, <1>7 DEF PathInv

\* A thread begins with a frame at a node that has not been given it.
LEMMA PathBegin ==
    ASSUME ContextTypeOK, ThreadInv, PathInv,
           NEW t \in Thread, NEW f \in Frame, NEW n \in Node,
           times[f][n] = 0, times' = [times EXCEPT ![f][n] = @ + 1],
           job' = [job EXCEPT ![t] = f], at' = [at EXCEPT ![t] = n], Base(t)' = n,
           \A u \in Thread : u # t /\ at[u] # None => Base(u)' = Base(u)
    PROVE  PathInv'
<1>1. PICK path \in [Thread -> SUBSET Node] : PathsRight(path)
  BY DEF PathInv
<1> DEFINE path1 == [path EXCEPT ![t] = {n}]
<1>2. path1 \in [Thread -> SUBSET Node]
  OBVIOUS
<1>3. path1[t] = {n} /\ \A u \in Thread : u # t => path1[u] = path[u]
  OBVIOUS
<1> HIDE DEF path1
<1>4. \A g \in Frame, m \in Node : times'[g][m] = IF g = f /\ m = n THEN 1 ELSE times[g][m]
  <2>1. times \in [Frame -> [Node -> Nat]]
    BY DEF ContextTypeOK
  <2>2. QED
    BY <2>1
<1>5. /\ at'[t] = n /\ job'[t] = f /\ n # None
      /\ \A u \in Thread : u # t => at'[u] = at[u] /\ job'[u] = job[u]
  BY ContextAssumption DEF ContextTypeOK
<1>6. \A u \in Thread : u # t => \A m \in path[u] :
            /\ m \in Node /\ at[u] # None /\ job[u] \in Frame
            /\ times[job[u]][m] = 1
  BY <1>1, AtHasFrame DEF PathsRight
<1>7. ASSUME NEW u \in Thread, NEW m \in path1[u]
      PROVE  /\ times'[job'[u]][m] = 1
             /\ m # Base(u)' => m # Root /\ Parent(m) \in path1[u]
  <2>1. CASE u = t
    BY <1>3, <1>4, <1>5, <1>7, <2>1
  <2>2. CASE u # t
    <3>1. m \in path[u] /\ m \in Node /\ Base(u)' = Base(u) /\ job'[u] \in Frame
      BY <1>3, <1>5, <1>6, <1>7, <2>2
    <3>2. times'[job'[u]][m] = 1
      BY <1>4, <1>5, <1>6, <2>2, <3>1
    <3>3. m # Base(u)' => m # Root /\ Parent(m) \in path1[u]
      BY <1>1, <1>3, <2>2, <3>1 DEF PathsRight
    <3>4. QED
      BY <3>2, <3>3
  <2>3. QED
    BY <2>1, <2>2
<1>8. \A u \in Thread : u # t /\ job[u] = f => n \notin path[u]
  BY <1>6
<1>9. \A u, w \in Thread : u # w /\ job'[u] = job'[w] => path1[u] \cap path1[w] = {}
  BY <1>1, <1>3, <1>5, <1>8 DEF PathsRight
<1>10. \A u \in Thread : (at'[u] = None => path1[u] = {}) /\ (at'[u] # None => at'[u] \in path1[u])
  BY <1>1, <1>3, <1>5 DEF PathsRight
<1>11. PathsRight(path1)'
  BY <1>7, <1>9, <1>10 DEF PathsRight
<1>12. QED
  BY <1>2, <1>11 DEF PathInv

\* In flush(frame), a thread goes on to a node that has not been given the frame.
LEMMA PathDown ==
    ASSUME ContextTypeOK, ThreadInv, PathInv, NEW t \in Thread, NEW n \in Node,
           at[t] # None, n # Root, Parent(n) = at[t],
           times[job[t]][n] = 0, times' = [times EXCEPT ![job[t]][n] = @ + 1],
           job' = job, at' = [at EXCEPT ![t] = n],
           \A u \in Thread : Base(u)' = Base(u)
    PROVE  PathInv'
<1>0. job[t] \in Frame
  BY AtHasFrame
<1>1. PICK path \in [Thread -> SUBSET Node] : PathsRight(path)
  BY DEF PathInv
<1> DEFINE path1 == [path EXCEPT ![t] = @ \cup {n}]
<1>2. path1 \in [Thread -> SUBSET Node]
  OBVIOUS
<1>3. path1[t] = path[t] \cup {n} /\ \A u \in Thread : u # t => path1[u] = path[u]
  OBVIOUS
<1> HIDE DEF path1
<1>4. \A g \in Frame, m \in Node :
            times'[g][m] = IF g = job[t] /\ m = n THEN 1 ELSE times[g][m]
  <2>1. times \in [Frame -> [Node -> Nat]]
    BY DEF ContextTypeOK
  <2>2. QED
    BY <1>0, <2>1
<1>5. /\ at'[t] = n /\ n # None /\ at[t] \in path[t]
      /\ \A u \in Thread : u # t => at'[u] = at[u]
  BY <1>1, ContextAssumption DEF ContextTypeOK, PathsRight
<1>6. \A u \in Thread : \A m \in path[u] :
            /\ m \in Node /\ at[u] # None /\ job[u] \in Frame
            /\ times[job[u]][m] = 1
  BY <1>1, AtHasFrame DEF PathsRight
<1>7. ASSUME NEW u \in Thread, NEW m \in path1[u]
      PROVE  /\ times'[job'[u]][m] = 1
             /\ m # Base(u)' => m # Root /\ Parent(m) \in path1[u]
  <2>1. CASE u = t /\ m = n
    BY <1>0, <1>3, <1>4, <1>5, <2>1
  <2>2. CASE ~(u = t /\ m = n)
    <3>1. m \in path[u] /\ path[u] \subseteq path1[u]
      BY <1>3, <1>7, <2>2
    <3>2. times'[job'[u]][m] = 1
      BY <1>4, <1>6, <3>1
    <3>3. m # Base(u)' => m # Root /\ Parent(m) \in path1[u]
      BY <1>1, <3>1 DEF PathsRight
    <3>4. QED
      BY <3>2, <3>3
  <2>3. QED
    BY <2>1, <2>2
<1>8. \A u \in Thread : job[u] = job[t] => n \notin path[u]
  BY <1>6
<1>9. \A u, w \in Thread : u # w /\ job[u] = job[w] => path1[u] \cap path1[w] = {}
  BY <1>1, <1>3, <1>8 DEF PathsRight
<1>10. \A u \in Thread : (at'[u] = None => path1[u] = {}) /\ (at'[u] # None => at'[u] \in path1[u])
  BY <1>1, <1>3, <1>5 DEF PathsRight
<1>11. PathsRight(path1)'
  BY <1>7, <1>9, <1>10 DEF PathsRight
<1>12. QED
  BY <1>2, <1>11 DEF PathInv

\* flush(frame) returns to the node above.
LEMMA PathUp ==
    ASSUME ContextTypeOK, PathInv, NEW t \in Thread,
           at[t] # None, at[t] # Base(t), at' = [at EXCEPT ![t] = Parent(at[t])],
           times' = times, job' = job, \A u \in Thread : Base(u)' = Base(u)
    PROVE  PathInv'
<1>1. PICK path \in [Thread -> SUBSET Node] : PathsRight(path)
  BY DEF PathInv
<1>2. at[t] \in path[t] /\ Parent(at[t]) \in path[t]
  BY <1>1 DEF PathsRight
<1>3. at'[t] = Parent(at[t]) /\ \A u \in Thread : u # t => at'[u] = at[u]
  BY DEF ContextTypeOK
<1>4. at'[t] # None
  BY <1>1, <1>2, <1>3, ContextAssumption
<1>5. PathsRight(path)'
  <2>1. \A u \in Thread : (at'[u] = None => path[u] = {}) /\ (at'[u] # None => at'[u] \in path[u])
    BY <1>1, <1>2, <1>3, <1>4 DEF PathsRight
  <2>2. \A u \in Thread : \A n \in path[u] :
            /\ times'[job'[u]][n] = 1
            /\ n # Base(u)' => n # Root /\ Parent(n) \in path[u]
    BY <1>1 DEF PathsRight
  <2>3. QED
    BY <1>1, <2>1, <2>2 DEF PathsRight
<1>6. QED
  BY <1>1, <1>5 DEF PathInv

\* No two threads are at a node with the same frame.
LEMMA Alone ==
    ASSUME PathInv, NEW t \in Thread, NEW u \in Thread,
           at[t] # None, at[u] = at[t], job[u] = job[t]
    PROVE  u = t
BY DEF PathInv, PathsRight

ClaimInv == OnceInv /\ CallerInv /\ PathInv

\* No other caller comes to hold the lock of a queue, or to hand over a frame.
LEMMA CallerSame ==
    ASSUME CallerInv,
           \A u \in Caller : pc'[u] \in {"hand", "enter"} =>
                /\ pc[u] \in {"hand", "enter"} /\ job'[u] = job[u]
                /\ times'[job[u]][Root] = times[job[u]][Root]
                /\ job[u] \in mRequestQueue'[Root] => job[u] \in mRequestQueue[Root],
           \A u \in Caller : pc'[u] = "clear" => pc[u] = "clear" /\ route'[u] = route[u]
    PROVE  CallerInv'
BY DEF CallerInv

\* Steps that leave frames and hands alone.
LEMMA QuietStep ==
    ASSUME ContextTypeOK, ThreadInv, OnceInv, PathInv,
           UNCHANGED <<registered, mRequestQueue, hands>>,
           \A u \in Caller : \/ pc'[u] = pc[u] /\ route'[u] = route[u]
                             \/ at[u] = None
    PROVE  OnceInv' /\ PathInv'
<1>1. UNCHANGED <<job, at, next, toHand, times>>
  BY DEF hands
<1>2. \A u \in Thread : at[u] # None => Base(u)' = Base(u)
  BY DEF Base, Thread
<1>3. PathInv'
  BY <1>1, <1>2, PathSame
<1>4. \A n \in Node : \A f \in mRequestQueue'[n] :
                BeingCleared(f, n) => BeingCleared(f, n)'
  BY <1>1 DEF BeingCleared
<1>5. \A t \in Thread : next'[t] # None =>
                next'[t] \in toHand'[job'[t]] \cap Children(job'[t], at'[t])
  BY <1>1 DEF OnceInv
<1>6. OnceInv'
  BY <1>1, <1>4, <1>5, OnceSame
<1>7. QED
  BY <1>3, <1>6

\* What a step of a call that flushes or waits does to the labels.
LEMMA StepOfOne ==
    ASSUME ContextTypeOK, ThreadInv, NEW t \in Caller, FlushOrWait(t)
    PROVE  /\ at[t] = None
           /\ \A u \in Caller : u # t => pc'[u] = pc[u] /\ route'[u] = route[u]
           /\ pc'[t] \notin {"hand", "enter"}
           /\ pc'[t] = "clear" => LockQueue(t)
<1>1. CASE LockQueue(t)
  BY <1>1 DEF LockQueue, Goto, ContextTypeOK, ThreadInv
<1>2. CASE UnlockQueue(t) \/ WaitForRequestDrained(t) \/ WakeUp(t)
  <2>1. at[t] = None
    BY <1>2 DEF UnlockQueue, WaitForRequestDrained, WakeUp, ThreadInv
  <2>2. \/ NextNode(t)
        \/ \E l \in {"await", "asleep"} : Goto(t, l) /\ UNCHANGED route
    BY <1>2 DEF UnlockQueue, WaitForRequestDrained, WakeUp
  <2>3. QED
    BY <2>1, <2>2, GoingOn DEF Goto, ContextTypeOK
<1>3. CASE BeginFlush(t) \/ SetDispatcher(t) \/ WaitUntilDrained(t) \/ Drained(t)
  <2>1. at[t] = None
    BY <1>3 DEF BeginFlush, SetDispatcher, WaitUntilDrained, Drained, Idle, ThreadInv
  <2>2. /\ \E l \in {"setDispatcher", "lock", "drain", "endFlush", "idle"} : Goto(t, l)
        /\ \A u \in Caller : u # t => route'[u] = route[u]
    BY <1>3 DEF BeginFlush, SetDispatcher, WaitUntilDrained, Drained, ContextTypeOK
  <2>3. QED
    BY <2>1, <2>2 DEF Goto, ContextTypeOK
<1>4. CASE EndDispatcherFlush(t) \/ EndContextFlush(t)
  <2>1. at[t] = None
    BY <1>4 DEF EndDispatcherFlush, EndContextFlush, ThreadInv
  <2>2. /\ \E l \in {"endContext", "idle"} : Goto(t, l)
        /\ route' = route
    BY <1>4 DEF EndDispatcherFlush, EndContextFlush
  <2>3. QED
    BY <2>1, <2>2 DEF Goto, ContextTypeOK
<1>5. ASSUME NEW n \in Node, WaitUntilNodeDrained(t, n)
      PROVE  /\ at[t] = None
             /\ \A u \in Caller : u # t => pc'[u] = pc[u] /\ route'[u] = route[u]
             /\ pc'[t] = "waitMeta"
  BY <1>5 DEF WaitUntilNodeDrained, Idle, Goto, ContextTypeOK, ThreadInv
<1>6. ASSUME NEW k \in Parts, NodePartDrained(t, k)
      PROVE  /\ at[t] = None
             /\ \A u \in Caller : u # t => pc'[u] = pc[u] /\ route'[u] = route[u]
             /\ pc'[t] \in {"waitImage", "lock"}
  <2>1. /\ pc[t] \in {"waitMeta", "waitImage"} /\ route' = route
        /\ \E l \in {"waitImage", "lock"} : Goto(t, l)
    BY <1>6 DEF NodePartDrained
  <2>2. QED
    BY <2>1 DEF Goto, ContextTypeOK, ThreadInv
<1>7. QED
  BY <1>1, <1>2, <1>3, <1>4, <1>5, <1>6 DEF FlushOrWait

LEMMA ClaimFlushOrWait ==
    ASSUME ContextTypeOK, ThreadInv, ClaimInv, NEW t \in Caller, FlushOrWait(t)
    PROVE  ClaimInv'
<1>1. UNCHANGED <<registered, mRequestQueue, hands, job, times>>
  BY RestLeaves DEF Undisturbed, requests, nodes, hands
<1>2. /\ at[t] = None
      /\ \A u \in Caller : u # t => pc'[u] = pc[u] /\ route'[u] = route[u]
      /\ pc'[t] \notin {"hand", "enter"}
      /\ pc'[t] = "clear" => LockQueue(t)
  BY StepOfOne
<1>3. OnceInv' /\ PathInv'
  BY <1>1, <1>2, QuietStep DEF ClaimInv
<1>4. CASE pc'[t] # "clear"
  BY <1>1, <1>2, <1>3, <1>4, CallerSame DEF ClaimInv
<1>5. CASE LockQueue(t)
  <2>1. route' = route /\ \A u \in Caller : ~(pc[u] = "clear" /\ Head(route[u]) = Head(route[t]))
    BY <1>5 DEF LockQueue, QueueLocked
  <2>2. CallerInv'
    BY <1>1, <1>2, <2>1 DEF ClaimInv, CallerInv
  <2>3. QED
    BY <1>3, <2>2 DEF ClaimInv
<1>6. QED
  BY <1>2, <1>4, <1>5

\* The dispatcher calls flush(frame) of a next node, or goes to queue the frame.
LEMMA ClaimDispatch ==
    ASSUME ContextTypeOK, ThreadInv, RegisteredInv, ClaimInv,
           NEW t \in Thread, NEW m \in Node, Dispatch(t, m)
    PROVE  ClaimInv'
<1>1. /\ at[t] \in Node /\ job[t] \in Frame /\ at[t] # None /\ next[t] = None
      /\ m \in toHand[job[t]] /\ m \in Children(job[t], at[t])
  BY AtHasFrame DEF Dispatch, Released
<1>2. m # Root /\ Parent(m) = at[t]
  BY <1>1, ChildOf
<1>3. UNCHANGED <<registered, mRequestQueue, job, pc, route>>
  BY DEF Dispatch, requests, nodes, callers
<1>4. \A u \in Thread : Base(u)' = Base(u)
  BY <1>3 DEF Base
<1>5. CASE ~mDispatchFlush
  <2>1. next' = [next EXCEPT ![t] = m] /\ UNCHANGED <<at, toHand, times>>
    BY <1>5 DEF Dispatch
  <2>2. PathInv'
    BY <1>3, <1>4, <2>1, PathSame DEF ClaimInv
  <2>3. \A u \in Thread : next'[u] = IF u = t THEN m ELSE next[u]
    BY <2>1 DEF ContextTypeOK
  <2>4. \A u \in Thread : next'[u] # None =>
                next'[u] \in toHand'[job'[u]] \cap Children(job'[u], at'[u])
    BY <1>1, <1>3, <2>1, <2>3 DEF ClaimInv, OnceInv
  <2>5. \A n \in Node : \A f \in mRequestQueue'[n] : BeingCleared(f, n) => BeingCleared(f, n)'
    BY <1>3, <2>1 DEF BeingCleared
  <2>6. OnceInv'
    BY <1>3, <2>1, <2>4, <2>5, OnceSame DEF ClaimInv
  <2>7. CallerInv'
    BY <1>3, <2>1, CallerSame DEF ClaimInv
  <2>8. QED
    BY <2>2, <2>6, <2>7 DEF ClaimInv
<1>6. CASE mDispatchFlush
  <2>1. /\ at' = [at EXCEPT ![t] = m] /\ next' = next
        /\ toHand' = [toHand EXCEPT ![job[t]] = (@ \ {m}) \cup Children(job[t], m)]
        /\ times' = [times EXCEPT ![job[t]][m] = @ + 1]
    BY <1>6 DEF Dispatch
  <2>2. times[job[t]][m] = 0 /\ times[job[t]][at[t]] = 1 /\ job[t] \notin mRequestQueue[m]
    BY <1>1, <1>2 DEF ClaimInv, OnceInv
  <2>3. PathInv'
    BY <1>1, <1>2, <1>3, <1>4, <2>1, <2>2, PathDown DEF ClaimInv
  <2>4. m # None /\ \A u \in Thread : at'[u] = IF u = t THEN m ELSE at[u]
    BY <2>1, ContextAssumption DEF ContextTypeOK
  <2>5. \A n \in Node : \A f \in mRequestQueue'[n] : BeingCleared(f, n) => BeingCleared(f, n)'
    BY <1>3, <2>4 DEF BeingCleared, Thread
  <2>6. ASSUME NEW u \in Thread, next'[u] # None
        PROVE  next'[u] \in toHand'[job'[u]] \cap Children(job'[u], at'[u])
    <3>1. u # t /\ at[u] # None /\ next[u] # None
      BY <1>1, <2>1, <2>6 DEF ThreadInv
    <3>2. at[u] \in Node /\ job[u] \in Frame
      BY <3>1, AtHasFrame
    <3>3. next[u] \in toHand[job[u]] /\ next[u] \in Children(job[u], at[u])
      BY <3>1 DEF ClaimInv, OnceInv
    <3>4. Parent(next[u]) = at[u]
      BY <3>2, <3>3, ChildOf
    <3>5. ~(job[u] = job[t] /\ next[u] = m)
      BY <1>1, <1>2, <3>1, <3>4, Alone DEF ClaimInv
    <3>6. next[u] \in toHand'[job[u]]
      BY <1>1, <2>1, <3>2, <3>3, <3>5 DEF ContextTypeOK
    <3>7. QED
      BY <1>3, <2>1, <2>4, <3>1, <3>3, <3>6
  <2>7. job[t] \in registered
    BY <1>1, ContextAssumption DEF RegisteredInv
  <2>8. OnceInv'
    BY <1>2, <1>3, <2>1, <2>2, <2>5, <2>6, <2>7, OnceGiven DEF ClaimInv
  <2>9. \A f \in Frame : times'[f][Root] = times[f][Root]
    <3>1. times \in [Frame -> [Node -> Nat]] /\ Root \in Node
      BY ContextAssumption DEF ContextTypeOK
    <3>2. QED
      BY <1>1, <1>2, <2>1, <3>1
  <2>10. CallerInv'
    <3>1. \A u \in Caller : pc[u] \in {"hand", "enter"} => job[u] \in Frame
      BY DEF ThreadInv, ContextTypeOK, Handing, Thread
    <3>2. QED
      BY <1>3, <2>9, <3>1, CallerSame DEF ClaimInv
  <2>11. QED
    BY <2>3, <2>8, <2>10 DEF ClaimInv
<1>7. QED
  BY <1>5, <1>6

\* The thread that was to queue the frame does.
LEMMA ClaimEnter ==
    ASSUME ContextTypeOK, ThreadInv, ClaimInv, NEW t \in Thread, EnterQueue(t)
    PROVE  ClaimInv'
<1> DEFINE m == next[t]
<1> DEFINE f == job[t]
<1>1. next[t] # None /\ at[t] # None /\ ~QueueLocked(m)
  BY DEF EnterQueue, ThreadInv
<1>2. /\ at[t] \in Node /\ f \in Frame /\ m \in toHand[f] /\ m \in Children(f, at[t])
  BY <1>1, AtHasFrame DEF ClaimInv, OnceInv
<1>3. m \in Node /\ m # Root /\ Parent(m) = at[t] /\ times[f][m] = 0 /\ times[f][at[t]] = 1
  BY <1>2, ChildOf DEF ClaimInv, OnceInv
<1>4. /\ UNCHANGED <<registered, job, at, times, pc, route>>
      /\ mRequestQueue' = [mRequestQueue EXCEPT ![m] = @ \cup {f}]
      /\ toHand' = [toHand EXCEPT ![f] = @ \ {m}]
      /\ next' = [next EXCEPT ![t] = None]
  BY DEF EnterQueue, Insert, requests, callers
<1>5. /\ \A n \in Node : mRequestQueue'[n] = IF n = m THEN mRequestQueue[m] \cup {f}
                                             ELSE mRequestQueue[n]
      /\ \A g \in Frame : toHand'[g] = IF g = f THEN toHand[f] \ {m} ELSE toHand[g]
      /\ \A u \in Thread : next'[u] = IF u = t THEN None ELSE next[u]
  BY <1>2, <1>4 DEF ContextTypeOK
<1> HIDE DEF m, f
<1>6. PathInv'
  <2>1. \A u \in Thread : Base(u)' = Base(u)
    BY <1>4 DEF Base
  <2>2. QED
    BY <1>4, <2>1, PathSame DEF ClaimInv
<1>7. CallerInv'
  BY <1>3, <1>4, <1>5, CallerSame, ContextAssumption DEF ClaimInv
<1>8. \A n \in Node, g \in Frame : BeingCleared(g, n)' = BeingCleared(g, n)
  BY <1>4 DEF BeingCleared
<1>9. OnceInv'
  <2>1. \A g \in Frame, n \in Node :
            /\ times'[g][n] \in {0, 1}
            /\ n # Root /\ times'[g][n] = 1 => times'[g][Parent(n)] = 1
            /\ g \notin registered' => times'[g][n] = 0
    BY <1>4 DEF ClaimInv, OnceInv
  <2>2. ASSUME NEW n \in Node, NEW g \in mRequestQueue'[n]
        PROVE  /\ ~BeingCleared(g, n)' => times'[g][n] = 0
               /\ n # Root => times'[g][Parent(n)] = 1
    <3>1. CASE n = m /\ g = f
      BY <1>3, <1>4, <3>1
    <3>2. CASE ~(n = m /\ g = f)
      <4>1. g \in mRequestQueue[n] /\ g \in Frame
        BY <1>5, <2>2, <3>2 DEF ContextTypeOK
      <4>2. QED
        BY <1>4, <1>8, <4>1 DEF ClaimInv, OnceInv
    <3>3. QED
      BY <3>1, <3>2
  <2>3. ASSUME NEW g \in Frame, NEW n \in toHand'[g]
        PROVE  /\ n # Root /\ times'[g][Parent(n)] = 1
               /\ times'[g][n] = 0 /\ g \notin mRequestQueue'[n]
    <3>1. n \in toHand[g] /\ n \in Node /\ ~(g = f /\ n = m)
      BY <1>5, <2>3 DEF ContextTypeOK
    <3>2. QED
      BY <1>4, <1>5, <3>1 DEF ClaimInv, OnceInv
  <2>4. ASSUME NEW u \in Thread, next'[u] # None
        PROVE  next'[u] \in toHand'[job'[u]] \cap Children(job'[u], at'[u])
    <3>1. u # t /\ next[u] # None /\ at[u] # None
      BY <1>5, <2>4 DEF ThreadInv
    <3>2. at[u] \in Node /\ job[u] \in Frame
      BY <3>1, AtHasFrame
    <3>3. next[u] \in toHand[job[u]] /\ next[u] \in Children(job[u], at[u])
      BY <3>1 DEF ClaimInv, OnceInv
    <3>4. Parent(next[u]) = at[u]
      BY <3>2, <3>3, ChildOf
    <3>5. ~(job[u] = f /\ next[u] = m)
      BY <1>1, <1>3, <3>1, <3>4, Alone DEF ClaimInv, f
    <3>6. QED
      BY <1>4, <1>5, <3>1, <3>2, <3>3, <3>5
  <2>5. QED
    BY <2>1, <2>2, <2>3, <2>4 DEF OnceInv
<1>10. QED
  BY <1>6, <1>7, <1>9 DEF ClaimInv

LEMMA ClaimWork ==
    ASSUME ContextTypeOK, ThreadInv, RegisteredInv, ClaimInv, NEW t \in Thread, Work(t)
    PROVE  ClaimInv'
<1>1. CASE ApplyRelease(t) \/ \E m \in Messages : Notify(t, m)
  <2>1. UNCHANGED <<registered, mRequestQueue, hands, job, times, pc, route>>
    BY <1>1 DEF ApplyRelease, Notify, requests, nodes, hands, callers
  <2>2. OnceInv' /\ PathInv'
    BY <2>1, QuietStep DEF ClaimInv
  <2>3. CallerInv'
    BY <2>1, CallerSame DEF ClaimInv
  <2>4. QED
    BY <2>2, <2>3 DEF ClaimInv
<1>2. ASSUME NEW m \in Node, Dispatch(t, m) PROVE ClaimInv'
  BY <1>2, ClaimDispatch
<1>3. CASE EnterQueue(t)
  BY <1>3, ClaimEnter
<1>4. CASE ReturnToParent(t)
  <2>1. /\ at[t] # None /\ next[t] = None /\ at[t] # Base(t)
        /\ at' = [at EXCEPT ![t] = Parent(at[t])]
        /\ UNCHANGED <<registered, mRequestQueue, job, next, toHand, times, pc, route>>
    BY <1>4 DEF ReturnToParent, Handed, Released, requests, nodes, callers
  <2>2. PathInv'
    <3>1. \A u \in Thread : Base(u)' = Base(u)
      BY <2>1 DEF Base
    <3>2. QED
      BY <2>1, <3>1, PathUp DEF ClaimInv
  <2>3. CallerInv'
    BY <2>1, CallerSame DEF ClaimInv
  <2>4. /\ \A u \in Thread : u # t => at'[u] = at[u]
        /\ at'[t] # None
    <3>1. at[t] \in Node /\ at[t] # Root
      BY <2>1, AtHasFrame, NotAtRoot DEF ClaimInv
    <3>2. Parent(at[t]) \in Node
      BY <3>1, ParentOf
    <3>3. QED
      BY <2>1, <3>2, ContextAssumption DEF ContextTypeOK
  <2>5. \A n \in Node : \A f \in mRequestQueue'[n] : BeingCleared(f, n) => BeingCleared(f, n)'
    BY <2>1, <2>4 DEF BeingCleared, Thread
  <2>6. \A u \in Thread : next'[u] # None =>
                next'[u] \in toHand'[job'[u]] \cap Children(job'[u], at'[u])
    BY <2>1, <2>4 DEF ClaimInv, OnceInv
  <2>7. OnceInv'
    BY <2>1, <2>5, <2>6, OnceSame DEF ClaimInv
  <2>8. QED
    BY <2>2, <2>3, <2>7 DEF ClaimInv
<1>5. QED
  BY <1>1, <1>2, <1>3, <1>4 DEF Work

\* A thread begins with a frame at a node.
LEMMA ClaimBegin ==
    ASSUME ContextTypeOK, ThreadInv, ClaimInv,
           NEW t \in Thread, NEW f \in registered, NEW n \in Node,
           at[t] = None, Begin(t, f, n), Base(t)' = n,
           times[f][n] = 0, n # Root => times[f][Parent(n)] = 1, n \notin toHand[f],
           registered' = registered, next' = next,
           \A m \in Node : mRequestQueue'[m] \subseteq mRequestQueue[m],
           f \in mRequestQueue'[n] => BeingCleared(f, n)',
           \A u \in Caller : u # t => pc'[u] = pc[u] /\ route'[u] = route[u],
           t \in Caller => /\ pc'[t] \notin {"hand", "enter"}
                           /\ pc'[t] = "clear" => pc[t] = "clear" /\ route'[t] = route[t],
           n = Root => \A u \in Caller : u # t /\ pc[u] \in {"hand", "enter"} => job[u] # f
    PROVE  ClaimInv'
<1>0. f \in Frame
  BY DEF ContextTypeOK
<1>1. /\ job' = [job EXCEPT ![t] = f]
      /\ at' = [at EXCEPT ![t] = n]
      /\ times' = [times EXCEPT ![f][n] = @ + 1]
      /\ toHand' = [toHand EXCEPT ![f] = @ \cup Children(f, n)]
  BY DEF Begin
<1>2. \A u \in Thread : u # t => at'[u] = at[u] /\ job'[u] = job[u]
  BY <1>1 DEF ContextTypeOK
<1>3. \A u \in Thread : u # t => Base(u)' = Base(u)
  BY DEF Base, Thread
<1>4. PathInv'
  BY <1>0, <1>1, <1>3, PathBegin DEF ClaimInv
<1>5. CallerInv'
  <2>1. times \in [Frame -> [Node -> Nat]] /\ Root \in Node
    BY ContextAssumption DEF ContextTypeOK
  <2>2. \A u \in Caller : pc[u] \in {"hand", "enter"} => job[u] \in Frame
    BY DEF ThreadInv, ContextTypeOK, Handing, Thread
  <2>3. \A g \in Frame : ~(g = f /\ n = Root) => times'[g][Root] = times[g][Root]
    BY <1>0, <1>1, <2>1
  <2>4. ASSUME NEW u \in Caller, pc'[u] \in {"hand", "enter"}
        PROVE  /\ pc[u] \in {"hand", "enter"} /\ job'[u] = job[u]
               /\ times'[job[u]][Root] = times[job[u]][Root]
               /\ job[u] \in mRequestQueue'[Root] => job[u] \in mRequestQueue[Root]
    <3>1. u # t /\ u \in Thread /\ pc[u] \in {"hand", "enter"}
      BY <2>4 DEF Thread
    <3>2. job[u] \in Frame /\ ~(job[u] = f /\ n = Root)
      BY <2>2, <3>1
    <3>3. QED
      BY <1>2, <2>1, <2>3, <3>1, <3>2
  <2>5. QED
    BY <2>4, CallerSame DEF ClaimInv
<1>6. OnceInv'
  <2>1. toHand' = [toHand EXCEPT ![f] = (@ \ {n}) \cup Children(f, n)]
    <3>1. toHand[f] \ {n} = toHand[f]
      OBVIOUS
    <3>2. QED
      BY <1>1, <3>1
  <2>2. \A m \in Node : \A g \in mRequestQueue'[m] : BeingCleared(g, m) => BeingCleared(g, m)'
    BY <1>2 DEF BeingCleared, Thread
  <2>3. ASSUME NEW u \in Thread, next'[u] # None
        PROVE  next'[u] \in toHand'[job'[u]] \cap Children(job'[u], at'[u])
    <3>1. u # t /\ at[u] # None /\ next[u] # None
      BY <2>3 DEF ThreadInv
    <3>2. job[u] \in Frame
      BY <3>1, AtHasFrame
    <3>3. toHand[job[u]] \subseteq toHand'[job[u]]
      BY <1>0, <1>1, <3>2 DEF ContextTypeOK
    <3>4. QED
      BY <1>2, <3>1, <3>3 DEF ClaimInv, OnceInv
  <2>4. QED
    BY <1>1, <2>1, <2>2, <2>3, OnceGiven DEF ClaimInv
<1>7. QED
  BY <1>4, <1>5, <1>6 DEF ClaimInv

\* The first frame of the queue of a node that is not being emptied by another
\* thread has not been given to it.
LEMMA QueuedIsFresh ==
    ASSUME ContextTypeOK, RegisteredInv, ClaimInv, NEW n \in Node,
           mRequestQueue[n] # {},
           \A u \in Caller : pc[u] = "clear" /\ Head(route[u]) = n => at[u] = None
    PROVE  LET f == SmallestIn(mRequestQueue[n]) IN
           /\ f \in mRequestQueue[n] /\ f \in Frame /\ f \in registered
           /\ times[f][n] = 0 /\ n \notin toHand[f]
           /\ n # Root => times[f][Parent(n)] = 1
           /\ n = Root => \A u \in Caller : pc[u] \in {"hand", "enter"} => job[u] # f
<1> DEFINE f == SmallestIn(mRequestQueue[n])
<1>1. mRequestQueue[n] \in SUBSET Frame
  BY DEF ContextTypeOK
<1>2. f \in mRequestQueue[n] /\ f \in Frame /\ f \in registered
  BY <1>1, SmallestIsIn DEF RegisteredInv
<1> HIDE DEF f
<1>3. ~BeingCleared(f, n)
  BY DEF BeingCleared
<1>4. times[f][n] = 0 /\ n \notin toHand[f] /\ (n # Root => times[f][Parent(n)] = 1)
  BY <1>2, <1>3 DEF ClaimInv, OnceInv
<1>5. n = Root => \A u \in Caller : pc[u] \in {"hand", "enter"} => job[u] # f
  BY <1>2 DEF ClaimInv, CallerInv
<1>6. QED
  BY <1>2, <1>4, <1>5 DEF f

LEMMA ClaimDeque ==
    ASSUME ContextTypeOK, ThreadInv, RegisteredInv, ClaimInv, NEW n \in Node, Deque(n)
    PROVE  ClaimInv'
<1>1. n \in Thread /\ n \notin Caller
  BY ContextAssumption DEF Thread
<1>2. /\ at[n] = None /\ mRequestQueue[n] # {}
      /\ UNCHANGED <<registered, next, pc, route>>
      /\ \A u \in Caller : ~(pc[u] = "clear" /\ Head(route[u]) = n)
  BY DEF Deque, requests, callers, QueueLocked
<1>3. PICK f \in registered :
            /\ f = SmallestIn(mRequestQueue[n]) /\ f \in Frame
            /\ times[f][n] = 0 /\ n \notin toHand[f]
            /\ n # Root => times[f][Parent(n)] = 1
            /\ n = Root => \A u \in Caller : pc[u] \in {"hand", "enter"} => job[u] # f
  BY <1>2, QueuedIsFresh
<1>4. Begin(n, f, n) /\ mRequestQueue' = [mRequestQueue EXCEPT ![n] = @ \ {f}]
  BY <1>3 DEF Deque
<1>5. \A m \in Node : mRequestQueue'[m] \subseteq mRequestQueue[m]
  BY <1>4 DEF ContextTypeOK
<1>6. f \notin mRequestQueue'[n]
  BY <1>4 DEF ContextTypeOK
<1>7. Base(n)' = n
  BY DEF Base
<1>8. QED
  BY <1>1, <1>2, <1>3, <1>4, <1>5, <1>6, <1>7, ClaimBegin

LEMMA ClaimClearFrame ==
    ASSUME ContextTypeOK, ThreadInv, RegisteredInv, ClaimInv, NEW t \in Caller, ClearFrame(t)
    PROVE  ClaimInv'
<1>0. t \in Thread /\ t \notin Node
  BY ContextAssumption DEF Thread
<1>1. PICK n \in Node : n = Head(route[t])
  <2>1. route[t] \in Seq(Node) /\ route[t] # <<>>
    BY DEF ClearFrame, ContextTypeOK, ThreadInv, Routed, Flushing
  <2>2. QED
    BY <2>1
<1>2. /\ pc[t] = "clear" /\ at[t] = None /\ mRequestQueue[n] # {}
      /\ UNCHANGED <<registered, next, pc, route, mRequestQueue>>
  BY <1>1 DEF ClearFrame, requests, callers, nodes
<1>3. \A u \in Caller : pc[u] = "clear" /\ Head(route[u]) = n => u = t
  BY <1>1, <1>2 DEF ClaimInv, CallerInv
<1>4. PICK f \in registered :
            /\ f = SmallestIn(mRequestQueue[n]) /\ f \in Frame
            /\ times[f][n] = 0 /\ n \notin toHand[f]
            /\ n # Root => times[f][Parent(n)] = 1
            /\ n = Root => \A u \in Caller : pc[u] \in {"hand", "enter"} => job[u] # f
  BY <1>2, <1>3, QueuedIsFresh
<1>5. Begin(t, f, n)
  BY <1>1, <1>4 DEF ClearFrame
<1>6. at'[t] # None /\ job'[t] = f
  BY <1>0, <1>5, ContextAssumption DEF Begin, ContextTypeOK
<1>7. BeingCleared(f, n)'
  BY <1>1, <1>2, <1>6 DEF BeingCleared
<1>8. Base(t)' = n
  BY <1>0, <1>1, <1>2 DEF Base
<1>9. QED
  BY <1>0, <1>2, <1>4, <1>5, <1>7, <1>8, ClaimBegin

LEMMA ClaimHandToRoot ==
    ASSUME ContextTypeOK, ThreadInv, RegisteredInv, ClaimInv, NEW t \in Caller, HandToRoot(t)
    PROVE  ClaimInv'
<1>0. t \in Thread /\ t \notin Node /\ Root \in Node
  BY ContextAssumption DEF Thread
<1>1. /\ pc[t] = "hand" /\ UNCHANGED <<registered, next, route, mRequestQueue>>
  BY DEF HandToRoot, requests, nodes
<1>2. at[t] = None /\ job[t] # None /\ job[t] \in registered
  BY <1>0, <1>1 DEF ThreadInv, RegisteredInv, Handing
<1>3. CASE ~mInFlush
  <2>1. pc' = [pc EXCEPT ![t] = "enter"] /\ UNCHANGED <<job, at, toHand, times>>
    BY <1>3 DEF HandToRoot, Goto
  <2>2. /\ \A u \in Caller : u # t => pc'[u] = pc[u]
        /\ pc'[t] = "enter"
    BY <2>1 DEF ContextTypeOK
  <2>3. OnceInv' /\ PathInv'
    <3>1. UNCHANGED hands
      BY <1>1, <2>1 DEF hands
    <3>2. QED
      BY <1>1, <1>2, <2>2, <3>1, QuietStep DEF ClaimInv
  <2>4. CallerInv'
    BY <1>1, <2>1, <2>2, CallerSame DEF ClaimInv
  <2>5. QED
    BY <2>3, <2>4 DEF ClaimInv
<1>4. CASE mInFlush
  <2>1. Begin(t, job[t], Root) /\ pc' = [pc EXCEPT ![t] = "through"]
    BY <1>4 DEF HandToRoot, Goto
  <2>2. /\ \A u \in Caller : u # t => pc'[u] = pc[u]
        /\ pc'[t] = "through"
    BY <2>1 DEF ContextTypeOK
  <2>3. /\ times[job[t]][Root] = 0 /\ job[t] \notin mRequestQueue[Root]
        /\ \A u \in Caller : pc[u] \in {"hand", "enter"} /\ job[u] = job[t] => u = t
    BY <1>1 DEF ClaimInv, CallerInv
  <2>4. Root \notin toHand[job[t]]
    <3>1. job[t] \in Frame
      BY <1>2 DEF ContextTypeOK
    <3>2. QED
      BY <3>1 DEF ClaimInv, OnceInv
  <2>5. Base(t)' = Root
    BY <1>0, <2>2 DEF Base
  <2>6. QED
    BY <1>0, <1>1, <1>2, <2>1, <2>2, <2>3, <2>4, <2>5, ClaimBegin
<1>5. QED
  BY <1>3, <1>4

\* A thread is through with its frame, or gives it up.
LEMMA ClaimFinish ==
    ASSUME ContextTypeOK, ThreadInv, ClaimInv, NEW t \in Thread,
           at[t] # None, next[t] = None, Finish(t),
           \A f \in Frame : toHand'[f] \subseteq toHand[f],
           \A f \in Frame : \A m \in toHand[f] \ toHand'[f] :
                f = job[t] /\ m \in Children(f, at[t]),
           \A n \in Node : mRequestQueue'[n] \subseteq mRequestQueue[n],
           \A n \in Node : \A f \in mRequestQueue'[n] :
                BeingCleared(f, n) => BeingCleared(f, n)',
           \A u \in Caller : pc'[u] = pc[u] \/ (u = t /\ pc'[u] \notin {"hand", "enter", "clear"}),
           t \in Caller => pc[t] \notin {"hand", "enter"}
    PROVE  ClaimInv'
<1>1. UNCHANGED <<registered, next, times, route>>
  BY DEF Finish, requests
<1>2. /\ at'[t] = None
      /\ \A u \in Thread : u # t => at'[u] = at[u] /\ job'[u] = job[u]
  BY DEF Finish, ContextTypeOK
<1>3. PathInv'
  <2>1. \A u \in Thread : u # t => Base(u)' = Base(u)
    BY <1>1 DEF Base, Thread
  <2>2. QED
    BY <1>1, <1>2, <2>1, PathSame DEF ClaimInv
<1>4. CallerInv'
  <2>1. Root \in Node
    BY ContextAssumption
  <2>2. ASSUME NEW u \in Caller, pc'[u] \in {"hand", "enter"}
        PROVE  /\ pc[u] \in {"hand", "enter"} /\ job'[u] = job[u]
               /\ times'[job[u]][Root] = times[job[u]][Root]
               /\ job[u] \in mRequestQueue'[Root] => job[u] \in mRequestQueue[Root]
    <3>1. u # t /\ u \in Thread /\ pc[u] \in {"hand", "enter"}
      BY <2>2 DEF Thread
    <3>2. QED
      BY <1>1, <1>2, <2>1, <3>1
  <2>3. \A u \in Caller : pc'[u] = "clear" => pc[u] = "clear" /\ route'[u] = route[u]
    BY <1>1
  <2>4. QED
    BY <2>2, <2>3, CallerSame DEF ClaimInv
<1>5. ASSUME NEW u \in Thread, next'[u] # None
      PROVE  next'[u] \in toHand'[job'[u]] \cap Children(job'[u], at'[u])
  <2>1. u # t /\ at[u] # None /\ next[u] # None
    BY <1>1, <1>5 DEF ThreadInv
  <2>2. at[u] \in Node /\ job[u] \in Frame
    BY <2>1, AtHasFrame
  <2>3. next[u] \in toHand[job[u]] /\ next[u] \in Children(job[u], at[u])
    BY <2>1 DEF ClaimInv, OnceInv
  <2>4. next[u] \in toHand'[job[u]]
    <3> SUFFICES ASSUME next[u] \notin toHand'[job[u]] PROVE FALSE
      OBVIOUS
    <3>1. job[u] = job[t] /\ next[u] \in Children(job[u], at[t])
      BY <2>2, <2>3
    <3>2. at[t] \in Node
      BY AtHasFrame
    <3>3. Parent(next[u]) = at[t] /\ Parent(next[u]) = at[u]
      BY <2>2, <2>3, <3>1, <3>2, ChildOf
    <3>4. QED
      BY <2>1, <3>1, <3>3, Alone DEF ClaimInv
  <2>5. QED
    BY <1>1, <1>2, <2>1, <2>3, <2>4
<1>6. OnceInv'
  BY <1>1, <1>5, OnceSame DEF ClaimInv
<1>7. QED
  BY <1>3, <1>4, <1>6 DEF ClaimInv

LEMMA ClaimFinishNode ==
    ASSUME ContextTypeOK, ThreadInv, ListInv, ClaimInv, NEW n \in Node,
           FinishFrame(n) \/ DropFrame(n)
    PROVE  ClaimInv'
<1>0. n \in Thread /\ n \notin Caller
  BY ContextAssumption DEF Thread
<1>1. /\ Finish(n) /\ UNCHANGED <<mRequestQueue, pc, route>>
      /\ at[n] = n /\ n # None
  BY ContextAssumption DEF FinishFrame, DropFrame, Finish, Drops
<1>2. next[n] = None
  <2>1. CASE FinishFrame(n)
    BY <2>1 DEF FinishFrame, Handed, Released
  <2>2. CASE DropFrame(n)
    <3>1. at[n] # None /\ Owed(n) = Parts
      BY <1>1, <2>2 DEF DropFrame, Drops
    <3>2. QED
      BY <1>0, <3>1, NothingTold
  <2>3. QED
    BY <2>1, <2>2
<1>3. /\ \A f \in Frame : toHand'[f] \subseteq toHand[f]
      /\ \A f \in Frame : \A m \in toHand[f] \ toHand'[f] :
            f = job[n] /\ m \in Children(f, at[n])
  <2>1. CASE FinishFrame(n)
    BY <2>1 DEF FinishFrame
  <2>2. CASE DropFrame(n)
    <3>1. toHand' = [toHand EXCEPT ![job[n]] = @ \ Children(job[n], n)]
      BY <2>2 DEF DropFrame
    <3>2. QED
      BY <1>1, <3>1 DEF ContextTypeOK
  <2>3. QED
    BY <2>1, <2>2
<1>4. \A m \in Node : \A f \in mRequestQueue'[m] : BeingCleared(f, m) => BeingCleared(f, m)'
  <2>1. \A u \in Caller : at'[u] = at[u] /\ job'[u] = job[u]
    BY <1>0, <1>1 DEF Finish, ContextTypeOK, Thread
  <2>2. QED
    BY <1>1, <2>1 DEF BeingCleared
<1>5. QED
  BY <1>0, <1>1, <1>2, <1>3, <1>4, ClaimFinish

LEMMA ClaimFinishCaller ==
    ASSUME ContextTypeOK, ThreadInv, ClaimInv, NEW t \in Caller,
           FinishQueue(t) \/ FrameCleared(t)
    PROVE  ClaimInv'
<1>0. t \in Thread
  BY DEF Thread
<1>1. /\ Finish(t) /\ UNCHANGED <<toHand, route>>
      /\ at[t] # None /\ next[t] = None
      /\ pc[t] \in {"through", "clear"}
  BY DEF FinishQueue, FrameCleared, Finish, Handed, Released
<1>2. \A u \in Caller : u # t => at'[u] = at[u] /\ job'[u] = job[u]
  BY <1>1 DEF Finish, ContextTypeOK, Thread
<1>3. CASE FinishQueue(t)
  <2>1. /\ mRequestQueue' = mRequestQueue /\ pc[t] = "through" /\ pc'[t] = "idle"
        /\ \A u \in Caller : u # t => pc'[u] = pc[u]
    BY <1>3 DEF FinishQueue, Goto, ContextTypeOK
  <2>2. \A m \in Node : \A f \in mRequestQueue'[m] : BeingCleared(f, m) => BeingCleared(f, m)'
    <3> SUFFICES ASSUME NEW m \in Node, NEW f \in mRequestQueue'[m], BeingCleared(f, m)
                 PROVE  BeingCleared(f, m)'
      OBVIOUS
    <3>1. PICK u \in Caller : /\ pc[u] = "clear" /\ Head(route[u]) = m
                              /\ at[u] # None /\ job[u] = f
      BY DEF BeingCleared
    <3>2. u # t
      BY <2>1, <3>1
    <3>3. QED
      BY <1>1, <1>2, <2>1, <3>1, <3>2 DEF BeingCleared
  <2>3. QED
    BY <1>0, <1>1, <2>1, <2>2, ClaimFinish
<1>4. CASE FrameCleared(t)
  <2>1. /\ pc' = pc /\ pc[t] = "clear"
        /\ mRequestQueue' = [mRequestQueue EXCEPT ![Head(route[t])] = @ \ {job[t]}]
    BY <1>4 DEF FrameCleared
  <2>2. \A m \in Node : mRequestQueue'[m] \subseteq mRequestQueue[m]
    BY <2>1 DEF ContextTypeOK
  <2>3. \A m \in Node : \A f \in mRequestQueue'[m] : BeingCleared(f, m) => BeingCleared(f, m)'
    <3> SUFFICES ASSUME NEW m \in Node, NEW f \in mRequestQueue'[m], BeingCleared(f, m)
                 PROVE  BeingCleared(f, m)'
      OBVIOUS
    <3>1. PICK u \in Caller : /\ pc[u] = "clear" /\ Head(route[u]) = m
                              /\ at[u] # None /\ job[u] = f
      BY DEF BeingCleared
    <3>2. u # t
      BY <2>1, <3>1 DEF ContextTypeOK
    <3>3. QED
      BY <1>1, <1>2, <2>1, <3>1, <3>2 DEF BeingCleared
  <2>4. QED
    BY <1>0, <1>1, <2>1, <2>2, <2>3, ClaimFinish
<1>5. QED
  BY <1>3, <1>4

LEMMA ClaimRegister ==
    ASSUME ContextTypeOK, ThreadInv, RegisteredInv, ClaimInv,
           NEW t \in Caller, NEW f \in Frame, RegisterRequest(t, f)
    PROVE  ClaimInv'
<1>0. t \in Thread /\ Caller \subseteq Thread
  BY DEF Thread
<1>1. /\ pc[t] = "idle" /\ f \notin registered /\ registered' = registered \cup {f}
      /\ UNCHANGED <<at, next, toHand, times, mRequestQueue, route>>
  BY DEF RegisterRequest, Idle, nodes
<1>2. /\ job'[t] = f /\ pc'[t] = "hand"
      /\ \A u \in Thread : u # t => job'[u] = job[u]
      /\ \A u \in Caller : u # t => pc'[u] = pc[u]
  BY <1>0 DEF RegisterRequest, Goto, ContextTypeOK
<1>3. at[t] = None /\ next[t] = None
  BY <1>0, <1>1 DEF ThreadInv
<1>4. PathInv'
  <2>1. \A u \in Thread : u # t => Base(u)' = Base(u)
    BY <1>1, <1>2 DEF Base, Thread
  <2>2. QED
    BY <1>1, <1>2, <1>3, <2>1, PathSame DEF ClaimInv
<1>5. OnceInv'
  <2>1. \A n \in Node : \A g \in mRequestQueue'[n] : BeingCleared(g, n) => BeingCleared(g, n)'
    BY <1>0, <1>1, <1>2, <1>3 DEF BeingCleared
  <2>2. \A u \in Thread : next'[u] # None =>
                next'[u] \in toHand'[job'[u]] \cap Children(job'[u], at'[u])
    BY <1>1, <1>2, <1>3 DEF ClaimInv, OnceInv
  <2>3. QED
    BY <1>1, <2>1, <2>2, OnceSame DEF ClaimInv
<1>6. CallerInv'
  <2>1. times[f][Root] = 0 /\ f \notin mRequestQueue[Root]
    BY <1>1, ContextAssumption DEF ClaimInv, OnceInv, RegisteredInv
  <2>2. \A u \in Caller : pc[u] \in {"hand", "enter"} => job[u] # f
    <3>1. \A u \in Caller : pc[u] \in {"hand", "enter"} => job[u] \in registered
      BY <1>0 DEF ThreadInv, RegisteredInv, Handing
    <3>2. QED
      BY <1>1, <3>1
  <2>3. \A u \in Caller : pc'[u] \in {"hand", "enter"} =>
            times'[job'[u]][Root] = 0 /\ job'[u] \notin mRequestQueue'[Root]
    BY <1>0, <1>1, <1>2, <2>1 DEF ClaimInv, CallerInv
  <2>4. \A u, w \in Caller :
            /\ pc'[u] \in {"hand", "enter"} /\ pc'[w] \in {"hand", "enter"}
                    /\ job'[u] = job'[w] => u = w
            /\ pc'[u] = "clear" /\ pc'[w] = "clear" /\ Head(route'[u]) = Head(route'[w])
                    => u = w
    BY <1>0, <1>1, <1>2, <2>2 DEF ClaimInv, CallerInv
  <2>5. QED
    BY <2>3, <2>4 DEF CallerInv
<1>7. QED
  BY <1>4, <1>5, <1>6 DEF ClaimInv

LEMMA ClaimEnterRoot ==
    ASSUME ContextTypeOK, ThreadInv, ClaimInv, NEW t \in Caller, EnterRoot(t)
    PROVE  ClaimInv'
<1>0. t \in Thread /\ Caller \subseteq Thread /\ Root \in Node
  BY ContextAssumption DEF Thread
<1>1. /\ pc[t] = "enter" /\ ~QueueLocked(Root)
      /\ mRequestQueue' = [mRequestQueue EXCEPT ![Root] = @ \cup {job[t]}]
      /\ UNCHANGED <<registered, at, next, toHand, times, route>>
  BY DEF EnterRoot, Insert, requests
<1>2. at[t] = None /\ next[t] = None /\ job[t] \in Frame
  BY <1>0, <1>1 DEF ThreadInv, ContextTypeOK, Handing
<1>3. /\ pc'[t] = "idle"
      /\ \A u \in Thread : u # t => job'[u] = job[u]
      /\ \A u \in Caller : u # t => pc'[u] = pc[u]
  BY <1>0 DEF EnterRoot, Goto, ContextTypeOK
<1>4. \A n \in Node : mRequestQueue'[n] = IF n = Root THEN mRequestQueue[n] \cup {job[t]}
                                          ELSE mRequestQueue[n]
  BY <1>1 DEF ContextTypeOK
<1>5. /\ times[job[t]][Root] = 0
      /\ \A u \in Caller : u # t /\ pc[u] \in {"hand", "enter"} => job[u] # job[t]
  BY <1>1 DEF ClaimInv, CallerInv
<1>6. PathInv'
  <2>1. \A u \in Thread : u # t => Base(u)' = Base(u)
    BY <1>1, <1>3 DEF Base, Thread
  <2>2. QED
    BY <1>1, <1>2, <1>3, <2>1, PathSame DEF ClaimInv
<1>7. CallerInv'
  <2>1. \A u \in Caller : pc'[u] \in {"hand", "enter"} =>
                /\ pc[u] \in {"hand", "enter"} /\ job'[u] = job[u]
                /\ times'[job[u]][Root] = times[job[u]][Root]
                /\ job[u] \in mRequestQueue'[Root] => job[u] \in mRequestQueue[Root]
    BY <1>0, <1>1, <1>3, <1>4, <1>5
  <2>2. \A u \in Caller : pc'[u] = "clear" => pc[u] = "clear" /\ route'[u] = route[u]
    BY <1>1, <1>3
  <2>3. QED
    BY <2>1, <2>2, CallerSame DEF ClaimInv
<1>8. OnceInv'
  <2>1. \A n \in Node, g \in Frame : BeingCleared(g, n) => BeingCleared(g, n)'
    BY <1>0, <1>1, <1>2, <1>3 DEF BeingCleared
  <2>2. ASSUME NEW n \in Node, NEW g \in mRequestQueue'[n]
        PROVE  /\ ~BeingCleared(g, n)' => times'[g][n] = 0
               /\ n # Root => times'[g][Parent(n)] = 1
    <3>1. CASE n = Root /\ g = job[t]
      BY <1>1, <1>5, <3>1
    <3>2. CASE ~(n = Root /\ g = job[t])
      <4>1. g \in mRequestQueue[n] /\ g \in Frame
        BY <1>4, <2>2, <3>2 DEF ContextTypeOK
      <4>2. /\ ~BeingCleared(g, n) => times[g][n] = 0
            /\ n # Root => times[g][Parent(n)] = 1
        <5>1. \A m \in Node : \A f \in mRequestQueue[m] :
                    /\ ~BeingCleared(f, m) => times[f][m] = 0
                    /\ m # Root => times[f][Parent(m)] = 1
          BY DEF ClaimInv, OnceInv
        <5>2. QED
          BY <4>1, <5>1
      <4>3. times' = times
        BY <1>1
      <4>4. QED
        BY <2>1, <4>1, <4>2, <4>3
    <3>3. QED
      BY <3>1, <3>2
  <2>3. \A g \in Frame : \A n \in toHand'[g] :
            /\ n # Root /\ times'[g][Parent(n)] = 1
            /\ times'[g][n] = 0 /\ g \notin mRequestQueue'[n]
    <3>1. \A g \in Frame : toHand[g] \subseteq Node
      BY DEF ContextTypeOK
    <3>2. QED
      BY <1>1, <1>4, <3>1 DEF ClaimInv, OnceInv
  <2>4. \A u \in Thread : next'[u] # None =>
                next'[u] \in toHand'[job'[u]] \cap Children(job'[u], at'[u])
    BY <1>1, <1>2, <1>3 DEF ClaimInv, OnceInv
  <2>5. \A g \in Frame, n \in Node :
            /\ times'[g][n] \in {0, 1}
            /\ n # Root /\ times'[g][n] = 1 => times'[g][Parent(n)] = 1
            /\ g \notin registered' => times'[g][n] = 0
    BY <1>1 DEF ClaimInv, OnceInv
  <2>6. QED
    BY <2>2, <2>3, <2>4, <2>5 DEF OnceInv
<1>9. QED
  BY <1>6, <1>7, <1>8 DEF ClaimInv

LEMMA ClaimNode ==
    ASSUME ContextTypeOK, ThreadInv, RegisteredInv, ListInv, ClaimInv,
           NEW n \in Node, NodeStep(n)
    PROVE  ClaimInv'
<1>1. CASE Deque(n)
  BY <1>1, ClaimDeque
<1>2. CASE Rest(n)
  <2>1. UNCHANGED <<registered, mRequestQueue, hands, job, times, route>>
    BY <1>2 DEF Rest, requests, hands
  <2>2. \A u \in Caller : pc'[u] = pc[u] \/ (pc[u] = "asleep" /\ pc'[u] = "woken")
    BY <1>2 DEF Rest, Sleepers
  <2>3. \A u \in Caller : pc[u] = "asleep" => at[u] = None
    BY DEF ThreadInv
  <2>4. OnceInv' /\ PathInv'
    BY <2>1, <2>2, <2>3, QuietStep DEF ClaimInv
  <2>5. CallerInv'
    BY <2>1, <2>2, CallerSame DEF ClaimInv
  <2>6. QED
    BY <2>4, <2>5 DEF ClaimInv
<1>3. CASE FinishFrame(n) \/ DropFrame(n)
  BY <1>3, ClaimFinishNode
<1>4. CASE Work(n)
  BY <1>4, ClaimWork DEF Thread
<1>5. QED
  BY <1>1, <1>2, <1>3, <1>4 DEF NodeStep

LEMMA ClaimCaller ==
    ASSUME ContextTypeOK, ThreadInv, RegisteredInv, ClaimInv, NEW t \in Caller,
           StartCall(t) \/ CallerStep(t)
    PROVE  ClaimInv'
<1>1. ASSUME NEW f \in Frame, RegisterRequest(t, f) PROVE ClaimInv'
  BY <1>1, ClaimRegister
<1>2. CASE HandToRoot(t) \/ EnterRoot(t)
  BY <1>2, ClaimHandToRoot, ClaimEnterRoot
<1>3. CASE FinishQueue(t) \/ FrameCleared(t)
  BY <1>3, ClaimFinishCaller
<1>4. CASE ClearFrame(t)
  BY <1>4, ClaimClearFrame
<1>5. CASE FlushOrWait(t)
  BY <1>5, ClaimFlushOrWait
<1>6. CASE Work(t)
  BY <1>6, ClaimWork DEF Thread
<1>7. QED
  BY <1>1, <1>2, <1>3, <1>4, <1>5, <1>6 DEF StartCall, CallerStep, FlushOrWait

LEMMA ClaimNext ==
    ContextTypeOK /\ ThreadInv /\ RegisteredInv /\ ListInv /\ ClaimInv /\ [Next]_vars
        => ClaimInv'
<1> SUFFICES ASSUME ContextTypeOK, ThreadInv, RegisteredInv, ListInv, ClaimInv, [Next]_vars
             PROVE  ClaimInv'
  OBVIOUS
<1>1. CASE UNCHANGED vars
  <2>1. UNCHANGED <<registered, mRequestQueue, hands, job, times, pc, route>>
    BY <1>1 DEF vars, requests, nodes, hands, callers
  <2>2. OnceInv' /\ PathInv'
    BY <2>1, QuietStep DEF ClaimInv
  <2>3. CallerInv'
    BY <2>1, CallerSame DEF ClaimInv
  <2>4. QED
    BY <2>2, <2>3 DEF ClaimInv
<1>2. QED
  BY <1>1, ClaimNode, ClaimCaller DEF Next

(***************************************************************************)
(* The invariant holds, and with it the properties.                        *)
(***************************************************************************)

LEMMA InvInit == Init => IInv
<1> SUFFICES ASSUME Init PROVE IInv
  OBVIOUS
<1>1. ContextTypeOK
  BY TypeInit
<1>2. ThreadInv
  BY DEF Init, ThreadInv, Handing, Routed, Flushing, Thread
<1>3. PathInv
  <2>1. PICK path \in [Thread -> SUBSET Node] : \A t \in Thread : path[t] = {}
    <3>1. [t \in Thread |-> {}] \in [Thread -> SUBSET Node]
      OBVIOUS
    <3>2. QED
      BY <3>1
  <2>2. PathsRight(path)
    BY <2>1 DEF Init, PathsRight
  <2>3. QED
    BY <2>1, <2>2 DEF PathInv
<1>4. OnceInv
  BY DEF Init, OnceInv
<1>5. CallerInv
  BY DEF Init, CallerInv
<1>6. RegisteredInv
  BY DEF Init, RegisteredInv
<1>7. ListInv
  BY DEF Init, ListInv, NodeListsCoverFrames
<1>8. WaitInv
  BY DEF Init, WaitInv, Flushing
<1>9. QED
  BY <1>1, <1>2, <1>3, <1>4, <1>5, <1>6, <1>7, <1>8 DEF IInv

LEMMA InvNext == IInv /\ [Next]_vars => IInv'
<1> SUFFICES ASSUME IInv, [Next]_vars PROVE IInv'
  OBVIOUS
<1>1. ContextTypeOK /\ ThreadInv /\ RegisteredInv /\ ListInv /\ WaitInv /\ ClaimInv
  BY DEF IInv, ClaimInv
<1>2. PathInv
  BY DEF IInv
<1>3. ContextTypeOK'
  BY <1>1, <1>2, TypeNext
<1>4. ThreadInv'
  BY <1>1, <1>2, ThreadNext
<1>5. RegisteredInv' /\ ListInv' /\ WaitInv'
  BY <1>1, RegisteredNext, ListNext, WaitNext
<1>6. ClaimInv'
  BY <1>1, ClaimNext
<1>7. QED
  BY <1>3, <1>4, <1>5, <1>6 DEF IInv, ClaimInv

\* The variables keep their types: in particular a thread that returns from
\* flush(frame) returns to a node, and one that has a queue to empty knows which.
THEOREM ContextTypeCorrect == Spec => []ContextTypeOK
<1>1. IInv => ContextTypeOK
  BY DEF IInv
<1>2. QED
  BY InvInit, InvNext, <1>1, PTL DEF Spec

\* In every pipeline, and whatever the threads that queue, dispatch, flush and
\* empty queues do at the same time, a node is given a frame at most once, to
\* work on it or to flush it (WorkQueue, queue and flush of the nodes).
THEOREM GivenOnce == Spec => []EachFrameOncePerNode
<1>1. IInv => EachFrameOncePerNode
  BY DEF IInv, OnceInv, EachFrameOncePerNode
<1>2. QED
  BY InvInit, InvNext, <1>1, PTL DEF Spec

\* The lists of InFlightRequest name every node that has a part of a registered
\* frame still to release: waitUntilNodeDrained does not return too early.
THEOREM ListsCoverFrames == Spec => []NodeListsCoverFrames
<1>1. IInv => NodeListsCoverFrames
  BY DEF IInv, ListInv
<1>2. QED
  BY InvInit, InvNext, <1>1, PTL DEF Spec

(***************************************************************************)
(* The context implements its contract.                                    *)
(***************************************************************************)

Waiting == {t \in Caller : op[t] # "none"}

LEMMA ContractSame ==
    ASSUME UNCHANGED <<registered, unreleased, op>>
    PROVE  UNCHANGED Contract!vars
BY DEF Contract!vars, InFlight

\* A registered frame has something to release, and is in flight at once.
LEMMA RegisterAccepts ==
    ASSUME IInv, NEW t \in Caller, NEW f \in Frame, RegisterRequest(t, f)
    PROVE  Contract!Accept(f)
<1>1. f \notin registered /\ registered' = registered \cup {f} /\ UNCHANGED <<unreleased, op>>
  BY DEF RegisterRequest, Idle
<1>2. unreleased[f] = NodesOf[f] \X Parts
  BY <1>1 DEF IInv, RegisteredInv
<1>3. Root \in NodesOf[f] /\ "meta" \in Parts
  BY ContextAssumption DEF Parts
<1>4. <<Root, "meta">> \in unreleased[f]
  BY <1>2, <1>3
<1>5. InFlight' = InFlight \cup {f}
  BY <1>1, <1>4 DEF InFlight
<1>6. f \notin InFlight \cup (registered \ InFlight)
  BY <1>1 DEF InFlight
<1>7. registered' \ InFlight' = registered \ InFlight
  BY <1>1, <1>5
<1>8. QED
  BY <1>1, <1>5, <1>6, <1>7 DEF Contract!Accept

\* applyRelease ends the flight of a frame when the last of it is released.
LEMMA ReleaseReleases ==
    ASSUME IInv, NEW t \in Thread, ApplyRelease(t)
    PROVE  Contract!Release(job[t]) \/ UNCHANGED Contract!vars
<1>1. UNCHANGED <<registered, op>> /\ at[t] # None
  BY DEF ApplyRelease, requests, callers
<1>2. job[t] \in registered /\ job[t] \in Frame /\ registered \subseteq Frame
  BY <1>1, AtHasFrame DEF IInv, RegisteredInv, ThreadInv, ContextTypeOK
<1>3. /\ unreleased[job[t]] # {}
      /\ \A f \in Frame : f # job[t] => unreleased'[f] = unreleased[f]
  <2>1. PICK K \in (SUBSET Owed(t)) \ {{}} :
            unreleased' = [unreleased EXCEPT ![job[t]] = @ \ ({at[t]} \X K)]
    BY DEF ApplyRelease
  <2>2. Owed(t) # {}
    BY <2>1
  <2>3. QED
    BY <2>1, <2>2 DEF Owed, IInv, ContextTypeOK
<1>4. CASE unreleased'[job[t]] # {}
  <2>1. InFlight' = InFlight
    BY <1>1, <1>2, <1>3, <1>4 DEF InFlight
  <2>2. QED
    BY <1>1, <2>1 DEF Contract!vars
<1>5. CASE unreleased'[job[t]] = {}
  <2>1. InFlight' = InFlight \ {job[t]} /\ job[t] \in InFlight
    BY <1>1, <1>2, <1>3, <1>5 DEF InFlight
  <2>2. registered' \ InFlight' = (registered \ InFlight) \cup {job[t]}
    BY <1>1, <1>2, <2>1
  <2>3. Waiting' = Waiting
    BY <1>1 DEF Waiting
  <2>4. QED
    BY <2>1, <2>2, <2>3 DEF Contract!Release, Waiting
<1>6. QED
  BY <1>4, <1>5

\* A call that is to wait was not waiting.
LEMMA BeginWaits ==
    ASSUME IInv, NEW t \in Caller, BeginFlush(t) \/ WaitUntilDrained(t)
    PROVE  Contract!Wait(t)
<1>1. UNCHANGED <<registered, unreleased>> /\ pc[t] = "idle"
  BY DEF BeginFlush, WaitUntilDrained, Idle, Undisturbed, requests
<1>2. op[t] = "none"
  BY <1>1 DEF IInv, WaitInv, ContextTypeOK, Flushing
<1>3. \E o \in {"flush", "wait"} : op' = [op EXCEPT ![t] = o]
  BY DEF BeginFlush, WaitUntilDrained
<1>4. t \notin Waiting /\ Waiting' = Waiting \cup {t}
  BY <1>2, <1>3 DEF Waiting, IInv, ContextTypeOK
<1>5. InFlight' = InFlight /\ registered' = registered
  BY <1>1 DEF InFlight
<1>6. QED
  BY <1>4, <1>5 DEF Contract!Wait, Waiting

\* No request on the list, no frame in flight.
LEMMA DrainedIsDrained ==
    ASSUME IInv, NEW t \in Caller, Drained(t)
    PROVE  Contract!Drained(t)
<1>1. /\ UNCHANGED <<registered, unreleased>> /\ mRequest = {} /\ pc[t] = "drain"
      /\ op' = [op EXCEPT ![t] = "none"]
  BY DEF Drained, Undisturbed, requests
<1>2. InFlight = {} /\ InFlight' = InFlight /\ registered' = registered
  BY <1>1 DEF InFlight, IInv, ListInv
<1>3. t \in Waiting /\ Waiting' = Waiting \ {t}
  BY <1>1 DEF Waiting, IInv, WaitInv, ContextTypeOK
<1>4. QED
  BY <1>2, <1>3 DEF Contract!Drained, Waiting

LEMMA StepRefines ==
    IInv /\ [Next]_vars => [Contract!Next]_Contract!vars
<1> SUFFICES ASSUME IInv, [Next]_vars PROVE [Contract!Next]_Contract!vars
  OBVIOUS
<1>1. ASSUME NEW t \in Thread, Work(t) PROVE [Contract!Next]_Contract!vars
  <2>1. CASE ApplyRelease(t)
    <3>1. job[t] \in Frame
      BY <2>1, AtHasFrame DEF ApplyRelease, IInv
    <3>2. QED
      BY <2>1, <3>1, ReleaseReleases DEF Contract!Next
  <2>2. CASE ~ApplyRelease(t)
    BY <1>1, <2>2, ContractSame
    DEF Work, Notify, Dispatch, EnterQueue, ReturnToParent, callers, requests
  <2>3. QED
    BY <2>1, <2>2
<1>2. ASSUME NEW n \in Node, NodeStep(n) PROVE [Contract!Next]_Contract!vars
  <2>1. CASE Work(n)
    BY <1>1, <2>1 DEF Thread
  <2>2. CASE ~Work(n)
    BY <1>2, <2>2, ContractSame
    DEF NodeStep, Deque, Rest, FinishFrame, DropFrame, Finish, callers, requests
  <2>3. QED
    BY <2>1, <2>2
<1>3. ASSUME NEW t \in Caller, StartCall(t) \/ CallerStep(t)
      PROVE  [Contract!Next]_Contract!vars
  <2>1. ASSUME NEW f \in Frame, RegisterRequest(t, f) PROVE [Contract!Next]_Contract!vars
    BY <2>1, RegisterAccepts DEF Contract!Next
  <2>2. CASE BeginFlush(t) \/ WaitUntilDrained(t)
    BY <2>2, BeginWaits DEF Contract!Next
  <2>3. CASE Drained(t)
    BY <2>3, DrainedIsDrained DEF Contract!Next
  <2>4. CASE HandToRoot(t) \/ EnterRoot(t) \/ FinishQueue(t) \/ ClearFrame(t) \/ FrameCleared(t)
    BY <2>4, ContractSame
    DEF HandToRoot, EnterRoot, FinishQueue, ClearFrame, FrameCleared, Finish, requests, callers
  <2>5. CASE \/ SetDispatcher(t) \/ LockQueue(t) \/ UnlockQueue(t)
             \/ WaitForRequestDrained(t) \/ WakeUp(t)
             \/ EndDispatcherFlush(t) \/ EndContextFlush(t)
             \/ \E n \in Node : WaitUntilNodeDrained(t, n)
             \/ \E k \in Parts : NodePartDrained(t, k)
    BY <2>5, ContractSame
    DEF SetDispatcher, LockQueue, UnlockQueue, WaitForRequestDrained, WakeUp,
        EndDispatcherFlush, EndContextFlush, WaitUntilNodeDrained, NodePartDrained,
        Undisturbed, requests
  <2>6. CASE Work(t)
    BY <1>1, <2>6 DEF Thread
  <2>7. QED
    BY <1>3, <2>1, <2>2, <2>3, <2>4, <2>5, <2>6 DEF StartCall, CallerStep
<1>4. CASE UNCHANGED vars
  BY <1>4, ContractSame DEF vars, requests, callers
<1>5. QED
  BY <1>2, <1>3, <1>4 DEF Next

\* The context implements DrainContract: a frame is in flight from queue() until
\* the last applyRelease, once, and flush() and waitUntilDrained() go on only at a
\* moment when no frame is in flight.
THEOREM ContextKeepsContract == Spec => ImplementsDrainContract
<1>1. Init => Contract!Init
  BY DEF Init, Contract!Init, InFlight
<1>2. QED
  BY <1>1, InvInit, InvNext, StepRefines, PTL
  DEF Spec, ImplementsDrainContract, Contract!Spec
=============================================================================
