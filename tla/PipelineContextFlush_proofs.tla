--------------------- MODULE PipelineContextFlush_proofs ---------------------
(***************************************************************************)
(* Proof that flush() quiets a pipeline of any shape: when the nodes have  *)
(* been flushed one after the other, nothing is left in a queue or at work *)
(* behind the thread that flushes, although others queue, work and flush   *)
(* nodes meanwhile.  It rests on the invariant of PipelineContext_proofs.  *)
(***************************************************************************)
EXTENDS PipelineContext_proofs

\* flush() of the context is called by one thread, as its users do: with two, the
\* flags that one has set are reset by the other.
OneFlusher == \A t, u \in Caller : "flush" \in May[t] /\ "flush" \in May[u] => t = u

Quiet(n) == mRequestQueue[n] = {} /\ (n \notin Unawaited => at[n] = None)
ToFlush(t) == {n \in Node : \E i \in DOMAIN route[t] : route[t][i] = n}

\* The flags are set while they are relied on ...
FlagInv ==
    /\ \A t \in Caller :
        /\ op[t] = "flush" \/ pc[t] \in {"setDispatcher", "endFlush", "endContext"}
                => "flush" \in May[t]
        /\ op[t] = "flush" \/ pc[t] \in {"endFlush", "endContext"} => mInFlush
        /\ (op[t] = "flush" /\ pc[t] # "setDispatcher") \/ pc[t] = "endFlush"
                => mDispatchFlush
    /\ mInFlush => \A t \in Caller : pc[t] # "enter"
    /\ mDispatchFlush => \A t \in Thread : next[t] = None

\* ... and each node but those yet to be flushed is quiet.
QuietInv ==
    /\ \A n \in mbRequestDrained : at[n] = None
    /\ \A t \in Caller : op[t] = "flush" /\ pc[t] \in Flushing =>
        /\ \A n \in Node : n \in ToFlush(t) \/ Quiet(n)
        /\ pc[t] \in {"await", "asleep", "woken"} => mRequestQueue[Head(route[t])] = {}
        /\ pc[t] = "woken" => at[Head(route[t])] = None
    /\ QuietAfterBeginFlush

FlushInv == FlagInv /\ QuietInv
-----------------------------------------------------------------------------
\* Steps that are not of the thread that flushes the context.
LEMMA FlushKept ==
    ASSUME FlushInv, op' = op, flags' = flags,
           \A t \in Caller :
                \/ pc'[t] = pc[t] /\ route'[t] = route[t]
                \/ /\ op[t] # "flush"
                   /\ pc'[t] \notin {"setDispatcher", "endFlush", "endContext"}
                   /\ pc'[t] = "enter" => ~mInFlush,
           mDispatchFlush => \A t \in Thread : next'[t] = None,
           \A n \in mbRequestDrained' : at'[n] = None,
           \A n \in Node : mInFlush /\ mDispatchFlush /\ mRequestQueue[n] = {} =>
                /\ mRequestQueue'[n] = {}
                /\ at[n] = None => at'[n] = None,
           \A t \in Caller : pc[t] \in Flushing => Head(route[t]) \in Node
    PROVE  FlushInv'
<1>1. UNCHANGED <<mInFlush, mDispatchFlush>>
  BY DEF flags
<1>2. FlagInv'
  BY <1>1 DEF FlushInv, FlagInv
<1>3. ASSUME mInFlush, mDispatchFlush, NEW n \in Node, Quiet(n) PROVE Quiet(n)'
  BY <1>3 DEF Quiet
<1>4. ASSUME NEW t \in Caller, op'[t] = "flush", pc'[t] \in Flushing
      PROVE  /\ \A n \in Node : n \in ToFlush(t)' \/ Quiet(n)'
             /\ pc'[t] \in {"await", "asleep", "woken"} => mRequestQueue'[Head(route'[t])] = {}
             /\ pc'[t] = "woken" => at'[Head(route'[t])] = None
  <2>1. op[t] = "flush" /\ pc'[t] = pc[t] /\ route'[t] = route[t]
    BY <1>4
  <2>2. mInFlush /\ mDispatchFlush
    BY <1>4, <2>1 DEF FlushInv, FlagInv, Flushing
  <2>3. ToFlush(t)' = ToFlush(t)
    BY <2>1 DEF ToFlush
  <2>4. \A n \in Node : n \in ToFlush(t)' \/ Quiet(n)'
    BY <1>3, <1>4, <2>1, <2>2, <2>3 DEF FlushInv, QuietInv
  <2>5. Head(route[t]) \in Node
    BY <1>4, <2>1
  <2>6. QED
    BY <1>4, <2>1, <2>2, <2>4, <2>5 DEF FlushInv, QuietInv
<1>5. QuietAfterBeginFlush'
  <2> SUFFICES ASSUME NEW t \in Caller,
                      (op'[t] = "flush" /\ pc'[t] = "drain") \/ pc'[t] = "endFlush",
                      NEW n \in Node
               PROVE  mRequestQueue'[n] = {} /\ (n \notin Unawaited => at'[n] = None)
    BY DEF QuietAfterBeginFlush
  <2>1. (op[t] = "flush" /\ pc[t] = "drain") \/ pc[t] = "endFlush"
    OBVIOUS
  <2>2. mInFlush /\ mDispatchFlush
    BY <2>1 DEF FlushInv, FlagInv
  <2>3. mRequestQueue[n] = {} /\ (n \notin Unawaited => at[n] = None)
    <3>1. QuietAfterBeginFlush
      BY DEF FlushInv, QuietInv
    <3>2. QED
      BY <2>1, <3>1 DEF QuietAfterBeginFlush
  <2>4. QED
    BY <2>2, <2>3
<1>6. QED
  BY <1>2, <1>4, <1>5 DEF FlushInv, QuietInv

LEMMA HeadIsNode ==
    ASSUME IInv, NEW t \in Caller, pc[t] \in Flushing
    PROVE  Head(route[t]) \in Node
<1>1. route[t] \in Seq(Node) /\ route[t] # <<>>
  BY DEF IInv, ContextTypeOK, ThreadInv, Routed
<1>2. QED
  BY <1>1

LEMMA FlushWork ==
    ASSUME IInv, FlushInv, NEW t \in Thread, Work(t)
    PROVE  FlushInv'
<1>1. UNCHANGED <<op, pc, route, flags, mbRequestDrained>>
  BY DEF Work, ApplyRelease, Notify, Dispatch, EnterQueue, ReturnToParent, Insert,
         callers, nodes
<1>2. at[t] # None /\ \A u \in Thread : u # t => at'[u] = at[u]
  BY DEF Work, ApplyRelease, Notify, Dispatch, EnterQueue, ReturnToParent, Released, Handed,
         hands, IInv, ThreadInv, ContextTypeOK
<1>3. \A n \in Node : at[n] = None => at'[n] = None
  BY <1>2 DEF Thread
<1>4. ASSUME mDispatchFlush
      PROVE  mRequestQueue' = mRequestQueue /\ \A u \in Thread : next'[u] = None
  <2>1. \A u \in Thread : next[u] = None
    BY <1>4 DEF FlushInv, FlagInv
  <2>2. ~EnterQueue(t)
    BY <2>1 DEF EnterQueue
  <2>3. next' = next /\ mRequestQueue' = mRequestQueue
    BY <1>4, <2>2 DEF Work, ApplyRelease, Notify, Dispatch, ReturnToParent, hands, nodes
  <2>4. QED
    BY <2>1, <2>3
<1>5. \A n \in mbRequestDrained : n \in Node /\ at'[n] = None
  BY <1>3 DEF FlushInv, QuietInv, IInv, ContextTypeOK
<1>6. QED
  BY <1>1, <1>3, <1>4, <1>5, HeadIsNode, FlushKept

LEMMA FlushNode ==
    ASSUME IInv, FlushInv, NEW n \in Node, NodeStep(n)
    PROVE  FlushInv'
<1>0. n \in Thread /\ mbRequestDrained \subseteq Node
  BY DEF Thread, IInv, ContextTypeOK
<1>1. CASE Deque(n)
  <2>1. /\ UNCHANGED <<op, pc, route, flags, next>>
        /\ mbRequestDrained' = mbRequestDrained \ {n} /\ mRequestQueue[n] # {}
    BY <1>1 DEF Deque, callers
  <2>2. \A m \in Node : m # n => at'[m] = at[m] /\ mRequestQueue'[m] = mRequestQueue[m]
    BY <1>1 DEF Deque, Begin, IInv, ContextTypeOK, Thread
  <2>3. \A m \in mbRequestDrained' : at'[m] = None
    BY <1>0, <2>1, <2>2 DEF FlushInv, QuietInv
  <2>4. QED
    BY <2>1, <2>2, <2>3, HeadIsNode, FlushKept DEF FlushInv, FlagInv
<1>2. CASE Rest(n)
  <2>1. /\ UNCHANGED <<op, route, flags, next, at, mRequestQueue>>
        /\ mbRequestDrained' = mbRequestDrained \cup {n}
        /\ at[n] = None /\ mRequestQueue[n] = {}
    BY <1>2 DEF Rest, hands
  <2>2. \A t \in Caller : \/ pc'[t] = pc[t]
                          \/ /\ pc[t] = "asleep" /\ pc'[t] = "woken"
                             /\ Head(route[t]) = n
    BY <1>2 DEF Rest, Sleepers
  <2>3. FlagInv'
    BY <2>1, <2>2 DEF FlushInv, FlagInv, flags
  <2>4. \A m \in Node : Quiet(m)' = Quiet(m)
    BY <2>1 DEF Quiet
  <2>5. \A t \in Caller : ToFlush(t)' = ToFlush(t)
    BY <2>1 DEF ToFlush
  <2>6. QuietAfterBeginFlush'
    BY <2>1, <2>2 DEF FlushInv, QuietInv, QuietAfterBeginFlush
  <2>7. \A t \in Caller : op'[t] = "flush" /\ pc'[t] \in Flushing =>
             /\ \A m \in Node : m \in ToFlush(t)' \/ Quiet(m)'
             /\ pc'[t] \in {"await", "asleep", "woken"} => mRequestQueue'[Head(route'[t])] = {}
             /\ pc'[t] = "woken" => at'[Head(route'[t])] = None
    BY <2>1, <2>2, <2>4, <2>5 DEF FlushInv, QuietInv, Flushing
  <2>8. \A m \in mbRequestDrained' : at'[m] = None
    BY <2>1 DEF FlushInv, QuietInv
  <2>9. QED
    BY <2>3, <2>6, <2>7, <2>8 DEF FlushInv, QuietInv
<1>3. CASE FinishFrame(n) \/ DropFrame(n)
  <2>1. UNCHANGED <<op, pc, route, flags, next, mbRequestDrained, mRequestQueue>> /\ Finish(n)
    BY <1>3 DEF FinishFrame, DropFrame, Finish
  <2>2. \A m \in Node : at'[m] \in {None, at[m]}
    BY <2>1 DEF Finish, IInv, ContextTypeOK, Thread
  <2>3. \A m \in mbRequestDrained' : at'[m] = None
    BY <1>0, <2>1, <2>2 DEF FlushInv, QuietInv
  <2>4. QED
    BY <2>1, <2>2, <2>3, HeadIsNode, FlushKept DEF FlushInv, FlagInv
<1>4. CASE Work(n)
  BY <1>0, <1>4, FlushWork
<1>5. QED
  BY <1>1, <1>2, <1>3, <1>4 DEF NodeStep

\* The steps of a thread that queues a frame, empties a queue or waits, apart from
\* those of the flush of the context.
LEMMA FlushOthers ==
    ASSUME IInv, FlushInv, NEW t \in Caller,
           \/ \E f \in Frame : RegisterRequest(t, f)
           \/ HandToRoot(t) \/ EnterRoot(t) \/ FinishQueue(t)
           \/ ClearFrame(t) \/ FrameCleared(t)
           \/ \E n \in Node : WaitUntilNodeDrained(t, n)
           \/ \E k \in Parts : NodePartDrained(t, k)
    PROVE  FlushInv'
<1>0. t \in Thread /\ t \notin Node /\ mbRequestDrained \subseteq Node
  BY ContextAssumption DEF Thread, IInv, ContextTypeOK
<1>1. UNCHANGED <<op, flags, next>>
  BY DEF RegisterRequest, HandToRoot, EnterRoot, FinishQueue, ClearFrame, FrameCleared,
         WaitUntilNodeDrained, NodePartDrained, Finish, callers, Undisturbed, hands
<1>2. \A n \in Node : at'[n] = at[n]
  <2>1. \A u \in Thread : u # t => at'[u] = at[u]
    BY DEF RegisterRequest, HandToRoot, EnterRoot, FinishQueue, ClearFrame, FrameCleared,
           WaitUntilNodeDrained, NodePartDrained, Finish, Begin, Undisturbed, hands,
           IInv, ContextTypeOK
  <2>2. QED
    BY <1>0, <2>1 DEF Thread
<1>3. mbRequestDrained' = mbRequestDrained
  BY DEF RegisterRequest, HandToRoot, EnterRoot, FinishQueue, ClearFrame, FrameCleared,
         WaitUntilNodeDrained, NodePartDrained, Finish, Insert, nodes
<1>4. mInFlush => \A n \in Node : mRequestQueue'[n] \subseteq mRequestQueue[n]
  <2>1. mInFlush => ~EnterRoot(t)
    BY DEF EnterRoot, FlushInv, FlagInv
  <2>2. CASE FrameCleared(t)
    BY <2>2 DEF FrameCleared, IInv, ContextTypeOK
  <2>3. CASE ~FrameCleared(t) /\ ~EnterRoot(t)
    <3>1. mRequestQueue' = mRequestQueue
      BY <2>3 DEF RegisterRequest, HandToRoot, FinishQueue, ClearFrame,
                  WaitUntilNodeDrained, NodePartDrained, nodes
    <3>2. QED
      BY <3>1
  <2>4. QED
    BY <2>1, <2>2, <2>3
<1>5. \A u \in Caller :
            \/ pc'[u] = pc[u] /\ route'[u] = route[u]
            \/ /\ op[u] # "flush"
               /\ pc'[u] \notin {"setDispatcher", "endFlush", "endContext"}
               /\ pc'[u] = "enter" => ~mInFlush
  <2>1. CASE ClearFrame(t) \/ FrameCleared(t)
    BY <2>1 DEF ClearFrame, FrameCleared, Finish, callers
  <2>2. CASE ~(ClearFrame(t) \/ FrameCleared(t))
    <3>1. pc[t] \in {"idle", "waitMeta", "waitImage"} \cup Handing
      BY <2>2 DEF RegisterRequest, HandToRoot, EnterRoot, FinishQueue, WaitUntilNodeDrained,
                  NodePartDrained, Idle, Handing
    <3>2. op[t] # "flush"
      BY <3>1 DEF IInv, WaitInv, Handing, Flushing
    <3>3. \A u \in Caller : u # t => pc'[u] = pc[u] /\ route'[u] = route[u]
      BY <2>2 DEF RegisterRequest, HandToRoot, EnterRoot, FinishQueue, WaitUntilNodeDrained,
                  NodePartDrained, Finish, Goto, IInv, ContextTypeOK
    <3>4. /\ pc'[t] \notin {"setDispatcher", "endFlush", "endContext"}
          /\ pc'[t] = "enter" => ~mInFlush
      BY <2>2 DEF RegisterRequest, HandToRoot, EnterRoot, FinishQueue, WaitUntilNodeDrained,
                  NodePartDrained, Goto, IInv, ContextTypeOK
    <3>5. QED
      BY <3>2, <3>3, <3>4
  <2>3. QED
    BY <2>1, <2>2
<1>6. mDispatchFlush => \A u \in Thread : next'[u] = None
  BY <1>1 DEF FlushInv, FlagInv
<1>7. \A n \in mbRequestDrained' : at'[n] = None
  BY <1>0, <1>2, <1>3 DEF FlushInv, QuietInv
<1>8. \A n \in Node : mInFlush /\ mDispatchFlush /\ mRequestQueue[n] = {} =>
                /\ mRequestQueue'[n] = {}
                /\ at[n] = None => at'[n] = None
  BY <1>2, <1>4
<1>9. QED
  BY <1>1, <1>5, <1>6, <1>7, <1>8, HeadIsNode, FlushKept

\* The flags are set by the one thread that flushes, with no thread that has read
\* them before still on its way to a queue; and they are reset by it.
LEMMA FlushFlags ==
    ASSUME OneFlusher, IInv, FlushInv, NEW t \in Caller,
           \/ BeginFlush(t) \/ SetDispatcher(t) \/ WaitUntilDrained(t) \/ Drained(t)
           \/ EndDispatcherFlush(t) \/ EndContextFlush(t)
    PROVE  FlushInv'
<1>1. UNCHANGED <<mRequestQueue, mbRequestDrained, at, next>>
  BY DEF BeginFlush, SetDispatcher, WaitUntilDrained, Drained, EndDispatcherFlush,
         EndContextFlush, Undisturbed, hands, nodes
<1>2. \A n \in Node : Quiet(n)' = Quiet(n)
  BY <1>1 DEF Quiet
<1>3. \A u \in Caller : u # t => pc'[u] = pc[u] /\ op'[u] = op[u] /\ route'[u] = route[u]
  BY DEF BeginFlush, SetDispatcher, WaitUntilDrained, Drained, EndDispatcherFlush,
         EndContextFlush, Goto, IInv, ContextTypeOK
<1>4. \A u \in Caller : u # t => ToFlush(u)' = ToFlush(u)
  BY <1>3 DEF ToFlush
<1>5. \A n \in mbRequestDrained' : at'[n] = None
  BY <1>1 DEF FlushInv, QuietInv
<1>6. \A u \in Caller : u # t /\ op'[u] = "flush" /\ pc'[u] \in Flushing =>
            /\ \A n \in Node : n \in ToFlush(u)' \/ Quiet(n)'
            /\ pc'[u] \in {"await", "asleep", "woken"} => mRequestQueue'[Head(route'[u])] = {}
            /\ pc'[u] = "woken" => at'[Head(route'[u])] = None
  BY <1>1, <1>2, <1>3, <1>4 DEF FlushInv, QuietInv
<1>7. op[t] \in {"none", "flush", "wait"}
  BY DEF IInv, ContextTypeOK
<1>8. CASE BeginFlush(t)
  <2>1. /\ mInFlush' = TRUE /\ mDispatchFlush' = mDispatchFlush /\ "flush" \in May[t]
        /\ pc'[t] = "setDispatcher" /\ op'[t] = "flush" /\ pc[t] = "idle"
        /\ \A u \in Caller : pc[u] # "enter"
    BY <1>8 DEF BeginFlush, Idle, Goto, ContextBusy, IInv, ContextTypeOK
  <2>2. FlagInv'
    BY <1>1, <1>3, <2>1 DEF FlushInv, FlagInv
  <2>3. QuietAfterBeginFlush'
    BY <1>1, <1>3, <2>1 DEF FlushInv, QuietInv, QuietAfterBeginFlush
  <2>4. QED
    BY <1>5, <1>6, <2>1, <2>2, <2>3 DEF FlushInv, QuietInv, Flushing
<1>9. CASE SetDispatcher(t)
  <2>1. /\ mDispatchFlush' = TRUE /\ mInFlush' = mInFlush
        /\ pc'[t] = "lock" /\ op'[t] = op[t] /\ pc[t] = "setDispatcher"
        /\ route'[t] = Toposort
    BY <1>9 DEF SetDispatcher, Goto, IInv, ContextTypeOK
  <2>2. \A u \in Thread : next[u] = None
    BY <1>9 DEF SetDispatcher, DispatcherBusy, Dispatching, IInv, ThreadInv
  <2>3. FlagInv'
    BY <1>1, <1>3, <2>1, <2>2 DEF FlushInv, FlagInv
  <2>4. QuietAfterBeginFlush'
    BY <1>1, <1>3, <2>1 DEF FlushInv, QuietInv, QuietAfterBeginFlush
  <2>5. \A n \in Node : n \in ToFlush(t)'
    BY <2>1, ContextAssumption DEF ToFlush
  <2>6. QED
    BY <1>5, <1>6, <2>1, <2>3, <2>4, <2>5 DEF FlushInv, QuietInv
<1>10. CASE WaitUntilDrained(t)
  <2>1. /\ UNCHANGED <<mInFlush, mDispatchFlush>> /\ pc[t] = "idle"
        /\ op'[t] = "wait" /\ pc'[t] = "drain"
    BY <1>10 DEF WaitUntilDrained, Idle, Goto, flags, IInv, ContextTypeOK
  <2>2. FlagInv'
    BY <1>1, <1>3, <2>1 DEF FlushInv, FlagInv
  <2>3. QuietAfterBeginFlush'
    BY <1>1, <1>3, <2>1 DEF FlushInv, QuietInv, QuietAfterBeginFlush
  <2>4. QED
    BY <1>5, <1>6, <2>1, <2>2, <2>3 DEF FlushInv, QuietInv, Flushing
<1>11. CASE Drained(t)
  <2>1. /\ UNCHANGED <<mInFlush, mDispatchFlush>> /\ pc[t] = "drain" /\ op'[t] = "none"
        /\ \/ op[t] = "flush" /\ pc'[t] = "endFlush"
           \/ op[t] # "flush" /\ pc'[t] = "idle"
    <3>1. op' = [op EXCEPT ![t] = "none"]
      BY <1>11 DEF Drained
    <3>2. pc' = [pc EXCEPT ![t] = IF op[t] = "flush" THEN "endFlush" ELSE "idle"]
      BY <1>11 DEF Drained, Goto
    <3>3. UNCHANGED <<mInFlush, mDispatchFlush>> /\ pc[t] = "drain"
      BY <1>11 DEF Drained, flags
    <3>4. QED
      BY <3>1, <3>2, <3>3 DEF IInv, ContextTypeOK
  <2>2. FlagInv'
    BY <1>1, <1>3, <2>1 DEF FlushInv, FlagInv
  <2>3. QuietAfterBeginFlush'
    BY <1>1, <1>3, <2>1 DEF FlushInv, QuietInv, QuietAfterBeginFlush
  <2>4. QED
    BY <1>5, <1>6, <2>1, <2>2, <2>3 DEF FlushInv, QuietInv, Flushing
<1>12. CASE EndDispatcherFlush(t) \/ EndContextFlush(t)
  <2>1. /\ pc[t] \in {"endFlush", "endContext"} /\ op'[t] = op[t]
        /\ mInFlush' \in {FALSE, mInFlush} /\ mDispatchFlush' \in {FALSE, mDispatchFlush}
        /\ \/ pc'[t] = "endContext" /\ pc[t] = "endFlush" /\ mInFlush' = mInFlush
           \/ pc'[t] = "idle"
    BY <1>12 DEF EndDispatcherFlush, EndContextFlush, Goto, IInv, ContextTypeOK
  <2>2. "flush" \in May[t] /\ op[t] # "flush"
    BY <2>1 DEF FlushInv, FlagInv, IInv, WaitInv, Flushing
  <2>3. \A u \in Caller : u # t => "flush" \notin May[u]
    BY <2>2 DEF OneFlusher
  <2>4. \A u \in Caller : u # t => /\ op[u] # "flush"
                                   /\ pc[u] \notin {"setDispatcher", "endFlush", "endContext"}
    BY <2>3 DEF FlushInv, FlagInv
  <2>5. FlagInv'
    <3>1. FlagInv
      BY DEF FlushInv
    <3>2. pc'[t] = "endContext" => mInFlush'
      BY <2>1, <3>1 DEF FlagInv
    <3>3. \A u \in Caller :
            /\ op'[u] # "flush" /\ pc'[u] \notin {"setDispatcher", "endFlush"}
            /\ pc'[u] = "endContext" => u = t
            /\ pc'[u] = "enter" => pc[u] = "enter"
      BY <1>3, <2>1, <2>2, <2>4
    <3>4. mInFlush' => \A u \in Caller : pc'[u] # "enter"
      BY <2>1, <3>1, <3>3 DEF FlagInv
    <3>5. mDispatchFlush' => \A u \in Thread : next'[u] = None
      BY <1>1, <2>1, <3>1 DEF FlagInv
    <3>6. QED
      BY <2>2, <3>2, <3>3, <3>4, <3>5 DEF FlagInv
  <2>6. QuietAfterBeginFlush'
    BY <1>3, <2>1, <2>2, <2>4 DEF QuietAfterBeginFlush
  <2>7. QED
    BY <1>5, <1>6, <2>1, <2>5, <2>6 DEF FlushInv, QuietInv, Flushing
<1>13. QED
  BY <1>8, <1>9, <1>10, <1>11, <1>12

\* A node is through with, and the thread goes on to the next one.
LEMMA FlushGoesOn ==
    ASSUME IInv, FlushInv, NEW t \in Caller, op[t] = "flush", pc[t] \in Flushing,
           NextNode(t), Quiet(Head(route[t])), UNCHANGED <<op, flags, nodes, hands>>
    PROVE  FlushInv'
<1>1. UNCHANGED <<mRequestQueue, mbRequestDrained, at, next, mInFlush, mDispatchFlush>>
  BY DEF nodes, hands, flags
<1>2. \A u \in Caller : u # t => pc'[u] = pc[u] /\ route'[u] = route[u]
  BY GoingOn DEF IInv
<1>3. route[t] \in Seq(Node) /\ route[t] # <<>> /\ route'[t] = Tail(route[t])
  BY DEF NextNode, IInv, ContextTypeOK, ThreadInv, Routed
<1>4. /\ pc'[t] = "lock" \/ (pc'[t] = "drain" /\ Tail(route[t]) = <<>>)
      /\ pc[t] # "setDispatcher"
  BY DEF NextNode, Goto, IInv, ContextTypeOK, Flushing
<1>5. \A n \in Node : Quiet(n)' = Quiet(n)
  BY <1>1 DEF Quiet
<1>6. \A n \in Node : n \in ToFlush(t)' \/ Quiet(n)'
  <2> SUFFICES ASSUME NEW n \in Node, n \in ToFlush(t), n # Head(route[t])
               PROVE  n \in ToFlush(t)'
    BY <1>5 DEF FlushInv, QuietInv
  <2>1. PICK i \in DOMAIN route[t] : route[t][i] = n
    BY DEF ToFlush
  <2>2. i # 1 /\ i \in 1 .. Len(route[t])
    BY <1>3, <2>1
  <2>3. i - 1 \in DOMAIN Tail(route[t]) /\ Tail(route[t])[i - 1] = n
    BY <1>3, <2>1, <2>2
  <2>4. QED
    BY <1>3, <2>3 DEF ToFlush
<1>7. \A u \in Caller : op'[u] = "flush" /\ pc'[u] \in Flushing =>
            /\ \A n \in Node : n \in ToFlush(u)' \/ Quiet(n)'
            /\ pc'[u] \in {"await", "asleep", "woken"} => mRequestQueue'[Head(route'[u])] = {}
            /\ pc'[u] = "woken" => at'[Head(route'[u])] = None
  <2> SUFFICES ASSUME NEW u \in Caller, op'[u] = "flush", pc'[u] \in Flushing
               PROVE  /\ \A n \in Node : n \in ToFlush(u)' \/ Quiet(n)'
                      /\ pc'[u] \in {"await", "asleep", "woken"} =>
                            mRequestQueue'[Head(route'[u])] = {}
                      /\ pc'[u] = "woken" => at'[Head(route'[u])] = None
    OBVIOUS
  <2>1. CASE u = t
    BY <1>4, <1>6, <2>1
  <2>2. CASE u # t
    BY <1>1, <1>2, <1>5, <2>2 DEF FlushInv, QuietInv, ToFlush
  <2>3. QED
    BY <2>1, <2>2
<1>8. QuietAfterBeginFlush'
  <2> SUFFICES ASSUME NEW u \in Caller,
                      (op'[u] = "flush" /\ pc'[u] = "drain") \/ pc'[u] = "endFlush",
                      NEW n \in Node
               PROVE  Quiet(n)'
    BY DEF QuietAfterBeginFlush, Quiet
  <2>1. CASE u = t
    <3>1. Tail(route[t]) = <<>>
      BY <1>4, <2>1
    <3>2. n \notin ToFlush(t)'
      BY <1>3, <3>1 DEF ToFlush
    <3>3. QED
      BY <1>6, <3>2
  <2>2. CASE u # t
    <3>1. QuietAfterBeginFlush
      BY DEF FlushInv, QuietInv
    <3>2. QED
      BY <1>1, <1>2, <2>2, <3>1 DEF QuietAfterBeginFlush, Quiet
  <2>3. QED
    BY <2>1, <2>2
<1>9. FlagInv'
  <2>1. FlagInv
    BY DEF FlushInv
  <2>2. /\ "flush" \in May[t] /\ mInFlush /\ mDispatchFlush
    BY <1>4, <2>1 DEF FlagInv
  <2>3. \A u \in Caller : u # t => pc'[u] = pc[u] /\ op'[u] = op[u]
    BY <1>2
  <2>4. QED
    BY <1>1, <1>4, <2>1, <2>2, <2>3 DEF FlagInv
<1>10. QED
  BY <1>1, <1>7, <1>8, <1>9 DEF FlushInv, QuietInv

\* flush() of a node: its queue is empty when it is unlocked, and its thread at
\* rest when it has been waited for.
LEMMA FlushNodes ==
    ASSUME IInv, FlushInv, NEW t \in Caller,
           LockQueue(t) \/ UnlockQueue(t) \/ WaitForRequestDrained(t) \/ WakeUp(t)
    PROVE  FlushInv'
<1>1. /\ UNCHANGED <<op, flags, nodes, hands>>
      /\ UNCHANGED <<mRequestQueue, mbRequestDrained, at, next>>
      /\ pc[t] \in Flushing
  BY DEF LockQueue, UnlockQueue, WaitForRequestDrained, WakeUp, Undisturbed, nodes, hands,
         Flushing
<1>2. \A u \in Caller : u # t => pc'[u] = pc[u] /\ route'[u] = route[u]
  BY StepOfOne DEF IInv, FlushOrWait
<1>3. mDispatchFlush => \A u \in Thread : next'[u] = None
  BY <1>1 DEF FlushInv, FlagInv
<1>4. \A n \in mbRequestDrained' : at'[n] = None
  BY <1>1 DEF FlushInv, QuietInv
<1>5. CASE op[t] # "flush"
  <2>1. pc'[t] \notin {"setDispatcher", "endFlush", "endContext", "enter"}
    <3>1. \/ NextNode(t)
          \/ \E l \in {"clear", "await", "asleep"} : Goto(t, l)
      BY DEF LockQueue, UnlockQueue, WaitForRequestDrained, WakeUp
    <3>2. QED
      BY <3>1, GoingOn DEF Goto, IInv, ContextTypeOK
  <2>2. QED
    BY <1>1, <1>2, <1>3, <1>4, <1>5, <2>1, HeadIsNode, FlushKept
<1>6. CASE op[t] = "flush"
  <2>1. Head(route[t]) \in Node
    BY <1>1, HeadIsNode
  <2>2. /\ \A n \in Node : n \in ToFlush(t) \/ Quiet(n)
        /\ pc[t] \in {"await", "asleep", "woken"} => mRequestQueue[Head(route[t])] = {}
        /\ pc[t] = "woken" => at[Head(route[t])] = None
    BY <1>1, <1>6 DEF FlushInv, QuietInv
  <2>3. CASE NextNode(t) /\ ~LockQueue(t)
    <3>1. Quiet(Head(route[t]))
      <4>1. CASE UnlockQueue(t)
        <5>1. mRequestQueue[Head(route[t])] = {} /\ pc[t] = "clear"
          BY <4>1 DEF UnlockQueue
        <5>2. Head(route[t]) \in Unawaited
          <6>1. NextNode(t) => pc'[t] # "await"
            BY GoingOn DEF IInv
          <6>2. Goto(t, "await") => pc'[t] = "await"
            BY DEF Goto, IInv, ContextTypeOK
          <6>3. QED
            BY <2>3, <4>1, <6>1, <6>2 DEF UnlockQueue
        <5>3. QED
          BY <5>1, <5>2 DEF Quiet
      <4>2. CASE WaitForRequestDrained(t)
        <5>1. Head(route[t]) \in mbRequestDrained
          <6>1. NextNode(t) => pc'[t] # "asleep"
            BY GoingOn DEF IInv
          <6>2. Goto(t, "asleep") => pc'[t] = "asleep"
            BY DEF Goto, IInv, ContextTypeOK
          <6>3. QED
            BY <2>3, <4>2, <6>1, <6>2 DEF WaitForRequestDrained
        <5>2. at[Head(route[t])] = None
          BY <5>1 DEF FlushInv, QuietInv
        <5>3. QED
          BY <2>2, <4>2, <5>2 DEF Quiet, WaitForRequestDrained
      <4>3. CASE WakeUp(t)
        BY <2>2, <4>3 DEF Quiet, WakeUp
      <4>4. QED
        BY <2>3, <4>1, <4>2, <4>3
    <3>2. QED
      BY <1>1, <1>6, <2>3, <3>1, FlushGoesOn
  <2>4. CASE ~(NextNode(t) /\ ~LockQueue(t))
    <3>1. /\ route' = route
          /\ \/ pc'[t] = "clear"
             \/ pc'[t] = "await" /\ mRequestQueue[Head(route[t])] = {}
             \/ pc'[t] = "asleep" /\ pc[t] = "await"
      BY <2>4 DEF LockQueue, UnlockQueue, WaitForRequestDrained, WakeUp, Goto, IInv, ContextTypeOK
    <3>2. \A n \in Node : Quiet(n)' = Quiet(n)
      BY <1>1 DEF Quiet
    <3>3. \A u \in Caller : ToFlush(u)' = ToFlush(u)
      BY <3>1 DEF ToFlush
    <3>4. FlagInv'
      <4>1. FlagInv /\ pc[t] # "setDispatcher" /\ UNCHANGED <<mInFlush, mDispatchFlush>>
        BY <1>1 DEF FlushInv, Flushing, flags
      <4>2. QED
        BY <1>1, <1>2, <1>6, <3>1, <4>1 DEF FlagInv
    <3>5. QuietAfterBeginFlush'
      <4>1. QuietAfterBeginFlush
        BY DEF FlushInv, QuietInv
      <4>2. QED
        BY <1>1, <1>2, <3>1, <4>1 DEF QuietAfterBeginFlush
    <3>6. \A u \in Caller : op'[u] = "flush" /\ pc'[u] \in Flushing =>
            /\ \A n \in Node : n \in ToFlush(u)' \/ Quiet(n)'
            /\ pc'[u] \in {"await", "asleep", "woken"} => mRequestQueue'[Head(route'[u])] = {}
            /\ pc'[u] = "woken" => at'[Head(route'[u])] = None
      <4> SUFFICES ASSUME NEW u \in Caller, op'[u] = "flush", pc'[u] \in Flushing
                   PROVE  /\ \A n \in Node : n \in ToFlush(u)' \/ Quiet(n)'
                          /\ pc'[u] \in {"await", "asleep", "woken"} =>
                                mRequestQueue'[Head(route'[u])] = {}
                          /\ pc'[u] = "woken" => at'[Head(route'[u])] = None
        OBVIOUS
      <4>1. CASE u = t
        BY <1>1, <2>2, <3>1, <3>2, <3>3, <4>1
      <4>2. CASE u # t
        BY <1>1, <1>2, <3>1, <3>2, <3>3, <4>2 DEF FlushInv, QuietInv
      <4>3. QED
        BY <4>1, <4>2
    <3>7. QED
      BY <1>4, <3>4, <3>5, <3>6 DEF FlushInv, QuietInv
  <2>5. QED
    BY <2>3, <2>4
<1>7. QED
  BY <1>5, <1>6

LEMMA FlushNext ==
    ASSUME OneFlusher
    PROVE  IInv /\ FlushInv /\ [Next]_vars => FlushInv'
<1> SUFFICES ASSUME IInv, FlushInv, [Next]_vars PROVE FlushInv'
  OBVIOUS
<1>1. ASSUME NEW t \in Caller, StartCall(t) \/ CallerStep(t) PROVE FlushInv'
  <2>1. CASE Work(t)
    BY <2>1, FlushWork DEF Thread
  <2>2. CASE ~Work(t)
    BY <1>1, <2>2, FlushOthers, FlushFlags, FlushNodes DEF StartCall, CallerStep
  <2>3. QED
    BY <2>1, <2>2
<1>2. CASE UNCHANGED vars
  <2>1. UNCHANGED <<op, pc, route, flags, next, mbRequestDrained, mRequestQueue, at>>
    BY <1>2 DEF vars, callers, nodes, hands
  <2>2. /\ mDispatchFlush => \A t \in Thread : next'[t] = None
        /\ \A n \in mbRequestDrained' : at'[n] = None
    BY <2>1 DEF FlushInv, FlagInv, QuietInv
  <2>3. QED
    BY <2>1, <2>2, HeadIsNode, FlushKept
<1>3. QED
  BY <1>1, <1>2, FlushNode DEF Next

\* When flush() has been through the nodes, no queue has a frame and no node whose
\* thread it waits for is at work, and that stays so until it resets the flags
\* (flush, queue and waitForRequestDrained of the context and of the nodes).
THEOREM FlushQuiets ==
    ASSUME OneFlusher
    PROVE  Spec => []QuietAfterBeginFlush
<1>1. Init => FlushInv
  BY DEF Init, FlushInv, FlagInv, QuietInv, QuietAfterBeginFlush
<1>2. FlushInv => QuietAfterBeginFlush
  BY DEF FlushInv, QuietInv
<1>3. QED
  BY <1>1, <1>2, InvInit, InvNext, FlushNext, PTL DEF Spec
=============================================================================
