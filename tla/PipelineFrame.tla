---------------------------- MODULE PipelineFrame ----------------------------
(***************************************************************************)
(* One frame of the mtkcam pipeline: the buffer set control of the frame   *)
(* (PipelineBufferSetFrameControlImp), the users manager and stream buffer *)
(* of each of its streams, and the pipeline nodes that work on the frame,  *)
(* each in a thread of its own, and hand it on to one another.             *)
(*                                                                         *)
(* A node gets the buffers of its streams, marks each of them as released  *)
(* when it is done with it, and calls applyRelease.  applyRelease settles  *)
(* the books stream by stream under the locks of the frame, and only then, *)
(* with no lock held, takes what is ready out of the collector, calls the  *)
(* application back, gives Hal buffers back one by one and notifies the    *)
(* listeners.  Each of these is a step of its own, so that the nodes       *)
(* interleave there as their threads do.                                   *)
(***************************************************************************)
EXTENDS Integers, FiniteSets

CONSTANTS
    Node,           \* the nodes (= users) of the frame
    Stream,         \* the streams of the frame
    Kind,           \* Kind[s]: which of the four item maps holds stream s
    In, Out,        \* In[n], Out[n]: the streams node n reads, writes
    Edge,           \* the edges of the pipeline graph, pairs of nodes
    Lazy,           \* Hal image streams whose buffer is acquired on first use
    Recycled,       \* Hal streams whose buffer has a pool or provider to go to
    NullMarkers,    \* nodes that mark a stream although they got no buffer
    Staged,         \* nodes that may call applyRelease several times
    Flushable       \* TRUE iff the pipeline may be flushed

Kinds == {"AppImage", "AppMeta", "HalImage", "HalMeta"}
IOSets == {"OImage", "IImage", "OMeta", "IMeta"}
Messages == {"ALL_OUT_META", "ALL_OUT_IMAGE", "FRAME_RELEASED"}

ASSUME FrameAssumption ==
    /\ IsFiniteSet(Node)
    /\ IsFiniteSet(Stream)
    /\ Kind \in [Stream -> Kinds]
    /\ In \in [Node -> SUBSET Stream]
    /\ Out \in [Node -> SUBSET Stream]
    /\ Edge \subseteq Node \X Node
    /\ \A e, f \in Edge : e[2] = f[2] => e = f   \* the graph is a tree
    /\ Lazy \subseteq {s \in Stream : Kind[s] = "HalImage"}
    /\ Recycled \subseteq {s \in Stream : Kind[s] = "HalImage"}
    /\ NullMarkers \subseteq Node
    /\ Staged \subseteq Node
    /\ Flushable \in BOOLEAN

Of(kind) == {s \in Stream : Kind[s] = kind}
Image == Of("AppImage") \cup Of("HalImage")
Hal == Of("HalImage") \cup Of("HalMeta")
Meta == Of("AppMeta") \cup Of("HalMeta")

-----------------------------------------------------------------------------
(* The users of a stream: the nodes that write it are its producers, those *)
(* that only read it its consumers.                                        *)

Producers == [s \in Stream |-> {n \in Node : s \in Out[n]}]
Users == [s \in Stream |-> {n \in Node : s \in In[n] \cup Out[n]}]

Roots == {n \in Node : \A e \in Edge : e[2] # n}
Children(n) == {m \in Node : <<n, m>> \in Edge}

\* The users ahead of n: those a depth-first search against the edges meets.
Prior(n) ==
    {m \in Node \ {n} :
        \A S \in SUBSET Node :
            (n \in S /\ \A e \in Edge : e[2] \in S => e[1] \in S) => m \in S}

OutMeta(kind) == {s \in Of(kind) : Producers[s] # {}}

IOStreams(n) == [
    OImage |-> Out[n] \cap Image, IImage |-> In[n] \cap Image,
    OMeta |-> Out[n] \cap Meta,   IMeta |-> In[n] \cap Meta]

-----------------------------------------------------------------------------
VARIABLES
    \* users managers and item maps
    userInit,       \* the streams whose users are set up (mUserInit)
    released,       \* released[s]: the users that got the RELEASE status; a reset
                    \* of the users is only seen through userInit, which every
                    \* question asks first
    slot,           \* the streams whose item is still in its item map
    mNonReleasedNum,\* one counter per item map
    acquired,       \* item bit ACQUIRE: the item has its buffer
    acquireFailed,  \* item bit ACQUIRE_FAILED
    allReleased,    \* item bit RELEASE
    producersReleased, \* item bit PRODUCERS_RELEASE
    \* node status map and collector
    io,             \* io[n][k]: the streams left in IO set k of node n
    notified,       \* notified[n]: the IO sets of n with mNotified set
    mInFlightNodeCount,
    collector,      \* the ReleasedCollector
    \* nodes
    flushing,       \* the dispatcher's mInFlush
    token,          \* token[n]: how the frame was handed to n
    pc,             \* pc[n]: where the thread working for n is
    flushed,        \* the nodes that work through flush(frame)
    todo,           \* todo[n]: streams n has not asked for yet
    held,           \* held[n]: streams whose buffer n holds
    nulls,          \* nulls[n]: streams n got no buffer of, and will still mark
    visit,          \* visit[n]: the streams applyRelease(n) has yet to look at
    batch,          \* batch[n]: what n took out of the collector
    messages,       \* messages[n]: what n has to tell the listeners
    crashed,        \* a thread used the item of an emptied slot
    \* what the outside has seen
    returned,       \* returned[s]: calls of releaseBuffer
    delivered,      \* delivered[s]: calls of updateFrame that carried s
    lastPartial,    \* updateFrame has announced that no metadata is left
    frameReleased   \* FRAME_RELEASED notifications

users == <<userInit, released>>
items == <<slot, mNonReleasedNum, acquired, acquireFailed, allReleased,
           producersReleased>>
books == <<io, notified, mInFlightNodeCount>>
work == <<todo, held, nulls>>
owned == <<visit, batch, messages>>
outside == <<returned, delivered, lastPartial, frameReleased>>
vars == <<users, items, books, collector, flushing, token, pc, flushed, work,
          owned, crashed, outside>>

NothingCollected == [
    halImage |-> {}, halMeta |-> {}, appMetaO |-> {}, halMetaO |-> {},
    appMetaLeft |-> 0, halMetaLeft |-> 0]

\* The frame is configured and the context has queued it to the root nodes.
Init ==
    /\ userInit = Stream
    /\ released = [s \in Stream |-> {}]
    /\ slot = Stream
    /\ mNonReleasedNum = [k \in Kinds |-> Cardinality(Of(k))]
    /\ acquired = Stream \ Lazy
    /\ acquireFailed = {}
    /\ allReleased = {}
    /\ producersReleased = {}
    /\ io = [n \in Node |-> IOStreams(n)]
    /\ notified = [n \in Node |-> {}]
    /\ mInFlightNodeCount = Cardinality({n \in Node : In[n] \cup Out[n] # {}})
    /\ collector = [NothingCollected EXCEPT
                        !.appMetaLeft = Cardinality(OutMeta("AppMeta")),
                        !.halMetaLeft = Cardinality(OutMeta("HalMeta"))]
    /\ flushing = FALSE
    /\ token = [n \in Node |-> IF n \in Roots THEN "queue" ELSE "none"]
    /\ pc = [n \in Node |-> "idle"]
    /\ flushed = {}
    /\ todo = [n \in Node |-> In[n] \cup Out[n]]
    /\ held = [n \in Node |-> {}]
    /\ nulls = [n \in Node |-> {}]
    /\ visit = [n \in Node |-> {}]
    /\ batch = [n \in Node |-> NothingCollected]
    /\ messages = [n \in Node |-> {}]
    /\ crashed = FALSE
    /\ returned = [s \in Stream |-> 0]
    /\ delivered = [s \in Stream |-> 0]
    /\ lastPartial = FALSE
    /\ frameReleased = 0

-----------------------------------------------------------------------------
(* The questions the frame asks the users manager of a stream.             *)

HasReleased(s, n) == s \in userInit /\ n \in released[s]

\* Mutant: one user too few.
AllUsersReleased_OffByOne(s) ==
    s \in userInit /\ Cardinality(Users[s] \ released[s]) <= 1

AllUsersReleased(s) == s \in userInit /\ Users[s] \subseteq released[s]
AllProducersReleased(s) == s \in userInit /\ Producers[s] \subseteq released[s]
PriorUsersReleased(s, n) ==
    s \in userInit /\ Users[s] \cap Prior(n) \subseteq released[s]

MarkReleased(s, n) ==
    released' = IF s \in userInit
                THEN [released EXCEPT ![s] = @ \cup {n}]
                ELSE released

-----------------------------------------------------------------------------
(* A node starts on the frame it was handed.  A frame that still waits in  *)
(* the queue of the node when the pipeline is flushed may be taken out of  *)
(* it by either thread.                                                    *)

BeginFlush ==
    /\ Flushable /\ ~flushing
    /\ flushing' = TRUE
    /\ UNCHANGED <<users, items, books, collector, token, pc, flushed, work,
                   owned, crashed, outside>>

Start(n) ==
    /\ pc[n] = "idle" /\ token[n] # "none"
    /\ pc' = [pc EXCEPT ![n] = "work"]
    /\ \/ /\ token[n] = "queue"
          /\ UNCHANGED flushed
       \/ /\ token[n] = "flush" \/ flushing
          /\ flushed' = flushed \cup {n}
    /\ UNCHANGED <<users, items, books, collector, flushing, token, work,
                   owned, crashed, outside>>

\* Some thread holds the locks of the frame: it is inside applyRelease.
Locked == \E n \in Node : pc[n] = "apply"

\* The streams n may ask for next: any, or in flush the first list not done.
FirstList(n) ==
    LET lists == <<In[n] \cap Meta, In[n] \cap Image,
                   Out[n] \cap Meta, Out[n] \cap Image>>
    IN  {s \in todo[n] :
            \E i \in 1..4 : /\ s \in lists[i]
                            /\ \A j \in 1..(i - 1) : lists[j] \cap todo[n] = {}}

Askable(n) ==
    IF n \in flushed
    THEN IF held[n] = {} THEN FirstList(n) ELSE {}
    ELSE todo[n]

\* n asks for the buffer of s and gets it.
GotBuffer(n, s) ==
    /\ held' = [held EXCEPT ![n] = @ \cup {s}]
    /\ UNCHANGED nulls

\* n asks for the buffer of s and gets NULL.
GotNull(n, s) ==
    /\ nulls' = IF n \in NullMarkers /\ n \notin flushed
                THEN [nulls EXCEPT ![n] = @ \cup {s}]
                ELSE nulls
    /\ UNCHANGED held

InMap(s) == mNonReleasedNum[Kind[s]] # 0 /\ s \in slot

\* A buffer is handed out if its item is in the item map, some user still needs
\* it and no user ahead of n does.
HandOut(n, s) ==
    IF InMap(s) /\ ~AllUsersReleased(s) /\ PriorUsersReleased(s, n)
    THEN GotBuffer(n, s)
    ELSE GotNull(n, s)

Ask(n, s) ==
    /\ pc[n] = "work" /\ s \in Askable(n)
    /\ ~Locked
    /\ todo' = [todo EXCEPT ![n] = @ \ {s}]
    /\ UNCHANGED <<userInit, slot, mNonReleasedNum, allReleased,
                   producersReleased, books, collector, flushing, token, pc,
                   flushed, owned, crashed, outside>>

GetBuffer(n, s) ==
    /\ Ask(n, s)
    /\ s \in acquired \/ ~InMap(s)
    /\ HandOut(n, s)
    /\ UNCHANGED <<released, acquired, acquireFailed>>

\* The first to ask for a lazy buffer acquires it from its pool or provider.
AcquireBuffer(n, s) ==
    /\ Ask(n, s)
    /\ InMap(s) /\ s \notin acquired \cup acquireFailed
    /\ acquired' = acquired \cup {s}
    /\ HandOut(n, s)
    /\ UNCHANGED <<released, acquireFailed>>

\* Mutant: a failure releases nothing.
AcquireFails_NoMark(n, s) ==
    /\ Ask(n, s)
    /\ InMap(s) /\ s \notin acquired
    /\ acquireFailed' = acquireFailed \cup {s}
    /\ GotNull(n, s)
    /\ UNCHANGED <<released, acquired>>

\* Mutant: a failure releases the stream for all of its users.
AcquireFails_ForAll(n, s) ==
    /\ Ask(n, s)
    /\ InMap(s) /\ s \notin acquired
    /\ acquireFailed' = acquireFailed \cup {s}
    /\ released' = [released EXCEPT ![s] = Users[s]]
    /\ GotNull(n, s)
    /\ UNCHANGED acquired

\* It does not get one, now or at an earlier attempt: that releases it for n.
AcquireFails(n, s) ==
    /\ Ask(n, s)
    /\ InMap(s) /\ s \notin acquired
    /\ acquireFailed' = acquireFailed \cup {s}
    /\ MarkReleased(s, n)
    /\ GotNull(n, s)
    /\ UNCHANGED acquired

\* A node marks a buffer it holds as released and lets go of it.  It finds the
\* users manager through the item map; in flush(frame) it has the buffer.
Mark(n, s) ==
    /\ pc[n] = "work" /\ s \in held[n]
    /\ n \in flushed \/ ~Locked
    /\ held' = [held EXCEPT ![n] = @ \ {s}]
    /\ IF s \in slot \/ n \in flushed
       THEN MarkReleased(s, n) /\ UNCHANGED crashed
       ELSE crashed' = TRUE /\ UNCHANGED released
    /\ UNCHANGED <<userInit, items, books, collector, flushing, token, pc,
                   flushed, todo, nulls, owned, outside>>

\* A node marks a stream it got no buffer of, through the item map.
MarkNull(n, s) ==
    /\ pc[n] = "work" /\ s \in nulls[n]
    /\ ~Locked
    /\ nulls' = [nulls EXCEPT ![n] = @ \ {s}]
    /\ IF s \in slot
       THEN MarkReleased(s, n) /\ UNCHANGED crashed
       ELSE crashed' = TRUE /\ UNCHANGED released
    /\ UNCHANGED <<userInit, items, books, collector, flushing, token, pc,
                   flushed, todo, held, owned, outside>>

-----------------------------------------------------------------------------
(* applyRelease(n), the part under the locks of the frame.  It goes        *)
(* through the IO sets of n that are not yet notified; the model lets it   *)
(* look at their streams in any order, the code takes output images, input *)
(* images, output metadata and input metadata in turn.  Others may still   *)
(* drain the collector, which has a lock of its own.                       *)

LiveSets(n) == IF In[n] \cup Out[n] = {} THEN {} ELSE IOSets \ notified[n]
Pending(n) == UNION {io[n][k] : k \in LiveSets(n)}

\* A node calls applyRelease when it is through with all its streams; a staged
\* one also with what it has marked so far.
ReadyToApply(n) ==
    \/ todo[n] \cup held[n] \cup nulls[n] = {}
    \/ n \in Staged \ flushed /\ \E s \in Pending(n) : HasReleased(s, n)

ApplyRelease(n) ==
    /\ pc[n] = "work" /\ ReadyToApply(n)
    /\ ~Locked
    /\ visit' = [visit EXCEPT ![n] = Pending(n)]
    /\ pc' = [pc EXCEPT ![n] = "apply"]
    /\ UNCHANGED <<users, items, books, collector, flushing, token, flushed,
                   work, batch, messages, crashed, outside>>

\* Mutant: without the bit PRODUCERS_RELEASE.
ProducersDone_NoBit(n, s) == AllProducersReleased(s)

\* Item::handleProducersReleased and ReleasedCollector::onProducersReleased.
ProducersDone(n, s) == AllProducersReleased(s) /\ s \notin producersReleased

\* Mutant: a buffer is done when its producers are.
UsersDone_Producers(n, s) ==
    HasReleased(s, n) /\ AllProducersReleased(s) /\ s \notin allReleased

\* Item::handleAllUsersReleased and ReleasedCollector::onAllUsersReleased.
UsersDone(n, s) ==
    HasReleased(s, n) /\ AllUsersReleased(s) /\ s \notin allReleased

\* Mutant: Hal metadata is put among those of the application, in a set of one type.
Collect_OneSet(n, s) ==
    IF ProducersDone(n, s) /\ Kind[s] = "HalMeta" /\ s \in acquired
    THEN [collector EXCEPT !.appMetaO = @ \cup {s}]
    ELSE collector

Collect(n, s) ==
    LET \* s if it meets the condition and its item has a buffer
        If(cond) == IF cond /\ s \in acquired THEN {s} ELSE {}
        One(cond) == IF cond THEN 1 ELSE 0
        out == ProducersDone(n, s) /\ Producers[s] # {}
        all == UsersDone(n, s) /\ s \in slot
    IN  [halImage |-> collector.halImage \cup If(all /\ Kind[s] = "HalImage"),
         halMeta |-> collector.halMeta \cup If(all /\ Kind[s] = "HalMeta"),
         appMetaO |-> collector.appMetaO \cup If(out /\ Kind[s] = "AppMeta"),
         halMetaO |-> collector.halMetaO \cup If(out /\ Kind[s] = "HalMeta"),
         appMetaLeft |-> collector.appMetaLeft - One(out /\ Kind[s] = "AppMeta"),
         halMetaLeft |-> collector.halMetaLeft - One(out /\ Kind[s] = "HalMeta")]

Visit(n, s) ==
    /\ pc[n] = "apply" /\ s \in visit[n]
    /\ visit' = [visit EXCEPT ![n] = @ \ {s}]
    /\ producersReleased' =
            IF ProducersDone(n, s) THEN producersReleased \cup {s} ELSE producersReleased
    /\ io' = IF HasReleased(s, n)
             THEN [io EXCEPT ![n] = [k \in IOSets |->
                    IF k \in LiveSets(n) THEN io[n][k] \ {s} ELSE io[n][k]]]
             ELSE io
    /\ IF UsersDone(n, s)
       THEN /\ allReleased' = allReleased \cup {s}
            /\ slot' = slot \ {s}
            /\ mNonReleasedNum' = [mNonReleasedNum EXCEPT
                    ![Kind[s]] = IF s \in slot THEN @ - 1 ELSE @]
       ELSE UNCHANGED <<allReleased, slot, mNonReleasedNum>>
    /\ collector' = Collect(n, s)
    /\ UNCHANGED <<users, acquired, acquireFailed, notified, mInFlightNodeCount,
                   flushing, token, pc, flushed, work, batch, messages, crashed,
                   outside>>

\* All IO sets are looked at; those that are empty now are notified once.
NewlyEmpty(n) == {k \in LiveSets(n) : io[n][k] = {}}

\* Mutant: a node is done when its outputs are.
NodeDone_Outputs(n) ==
    NewlyEmpty(n) # {} /\ \A k \in {"OImage", "OMeta"} : io[n][k] = {}
NodeDone(n) == NewlyEmpty(n) # {} /\ \A k \in IOSets : io[n][k] = {}

\* Mutant: the frame is announced with one node still to come.
SettleNode_OneLeft(n) ==
    /\ pc[n] = "apply" /\ visit[n] = {}
    /\ notified' = [notified EXCEPT ![n] = @ \cup NewlyEmpty(n)]
    /\ mInFlightNodeCount' = mInFlightNodeCount - (IF NodeDone(n) THEN 1 ELSE 0)
    /\ messages' = [messages EXCEPT ![n] =
            {m \in {"FRAME_RELEASED"} : NewlyEmpty(n) # {} /\ mInFlightNodeCount' <= 1}]
    /\ pc' = [pc EXCEPT ![n] = "drain"]
    /\ UNCHANGED <<users, items, io, collector, flushing, token, flushed, work,
                   visit, batch, crashed, outside>>

SettleNode(n) ==
    /\ pc[n] = "apply" /\ visit[n] = {}
    /\ notified' = [notified EXCEPT ![n] = @ \cup NewlyEmpty(n)]
    /\ mInFlightNodeCount' = mInFlightNodeCount - (IF NodeDone(n) THEN 1 ELSE 0)
    /\ messages' = [messages EXCEPT ![n] =
            {m \in Messages :
                \/ m = "ALL_OUT_META" /\ "OMeta" \in NewlyEmpty(n)
                \/ m = "ALL_OUT_IMAGE" /\ "OImage" \in NewlyEmpty(n)
                \/ m = "FRAME_RELEASED" /\ NewlyEmpty(n) # {}
                                       /\ mInFlightNodeCount' = 0}]
    /\ pc' = [pc EXCEPT ![n] = "drain"]
    /\ UNCHANGED <<users, items, io, collector, flushing, token, flushed, work,
                   visit, batch, crashed, outside>>

-----------------------------------------------------------------------------
(* applyRelease(n), after the locks are released: handleReleasedBuffers    *)
(* and the notification of the listeners.                                  *)

\* Mutant: the Hal buffers stay in the collector.
Drain_KeepsHal(n) ==
    /\ pc[n] = "drain"
    /\ batch' = [batch EXCEPT ![n] = collector]
    /\ collector' = [collector EXCEPT !.appMetaO = {}, !.halMetaO = {}]
    /\ pc' = [pc EXCEPT ![n] = "callback"]
    /\ UNCHANGED <<users, items, books, flushing, token, flushed, work,
                   visit, messages, crashed, outside>>

\* Mutant: the metadata stays in the collector.
Drain_KeepsMeta(n) ==
    /\ pc[n] = "drain"
    /\ batch' = [batch EXCEPT ![n] = collector]
    /\ collector' = [collector EXCEPT !.halImage = {}, !.halMeta = {}]
    /\ pc' = [pc EXCEPT ![n] = "callback"]
    /\ UNCHANGED <<users, items, books, flushing, token, flushed, work,
                   visit, messages, crashed, outside>>

\* Mutant: the Hal metadata is cleared but not taken out, as in applyPreRelease.
Drain_DropsHalMeta(n) ==
    /\ pc[n] = "drain"
    /\ batch' = [batch EXCEPT ![n] = [collector EXCEPT !.halMeta = {}]]
    /\ collector' = [collector EXCEPT !.halImage = {}, !.halMeta = {},
                                      !.appMetaO = {}, !.halMetaO = {}]
    /\ pc' = [pc EXCEPT ![n] = "callback"]
    /\ UNCHANGED <<users, items, books, flushing, token, flushed, work,
                   visit, messages, crashed, outside>>

Drain(n) ==
    /\ pc[n] = "drain"
    /\ batch' = [batch EXCEPT ![n] = collector]
    /\ collector' = [collector EXCEPT !.halImage = {}, !.halMeta = {},
                                      !.appMetaO = {}, !.halMetaO = {}]
    /\ pc' = [pc EXCEPT ![n] = "callback"]
    /\ UNCHANGED <<users, items, books, flushing, token, flushed, work,
                   visit, messages, crashed, outside>>

\* updateFrame: the metadata n took out, and how much the collector still waited
\* for at that time.  The application takes what comes with "none left" for the
\* last partial result.
Callback(n) ==
    /\ pc[n] = "callback"
    /\ delivered' = [s \in Stream |->
            IF s \in batch[n].appMetaO \cup batch[n].halMetaO
            THEN delivered[s] + 1 ELSE delivered[s]]
    /\ lastPartial' = (lastPartial \/ /\ batch[n].appMetaO # {}
                                      /\ batch[n].appMetaLeft = 0)
    /\ batch' = [batch EXCEPT ![n].appMetaO = {}, ![n].halMetaO = {}]
    /\ pc' = [pc EXCEPT ![n] = "return"]
    /\ UNCHANGED <<users, items, books, collector, flushing, token, flushed,
                   work, visit, messages, crashed, returned, frameReleased>>

\* releaseBuffer of one Hal buffer, image buffers first.  A buffer that has a
\* pool or a provider to go back to is reset, and its users manager with it.
ReturnBuffer(n, s) ==
    /\ pc[n] = "return"
    /\ s \in IF batch[n].halImage # {} THEN batch[n].halImage ELSE batch[n].halMeta
    /\ returned' = [returned EXCEPT ![s] = @ + 1]
    /\ userInit' = userInit \ ({s} \cap Recycled)
    /\ batch' = [batch EXCEPT ![n].halImage = @ \ {s}, ![n].halMeta = @ \ {s}]
    /\ UNCHANGED <<released, items, books, collector, flushing, token, pc,
                   flushed, work, visit, messages, crashed, delivered, lastPartial,
                   frameReleased>>

Notify(n) ==
    /\ pc[n] = "return" /\ batch[n].halImage = {} /\ batch[n].halMeta = {}
    /\ frameReleased' = frameReleased
                        + (IF "FRAME_RELEASED" \in messages[n] THEN 1 ELSE 0)
    /\ messages' = [messages EXCEPT ![n] = {}]
    /\ pc' = [pc EXCEPT ![n] =
                IF todo[n] \cup held[n] \cup nulls[n] = {} THEN "dispatch" ELSE "work"]
    /\ UNCHANGED <<users, items, books, collector, flushing, token, flushed,
                   work, visit, batch, crashed, returned, delivered, lastPartial>>

\* The dispatcher hands the frame to the next nodes, one after the other.
Dispatch(n, m) ==
    /\ pc[n] = "dispatch" /\ m \in Children(n) /\ token[m] = "none"
    /\ token' = [token EXCEPT ![m] = IF flushing THEN "flush" ELSE "queue"]
    /\ UNCHANGED <<users, items, books, collector, flushing, pc, flushed, work,
                   owned, crashed, outside>>

-----------------------------------------------------------------------------
Step(n) ==
    \/ Start(n)
    \/ \E s \in Stream :
        \/ GetBuffer(n, s) \/ AcquireBuffer(n, s) \/ AcquireFails(n, s)
        \/ Mark(n, s) \/ MarkNull(n, s)
        \/ Visit(n, s) \/ ReturnBuffer(n, s)
    \/ ApplyRelease(n) \/ SettleNode(n) \/ Drain(n) \/ Callback(n) \/ Notify(n)
    \/ \E m \in Node : Dispatch(n, m)

Next == BeginFlush \/ \E n \in Node : Step(n)

Spec == Init /\ [][Next]_vars

\* The thread of a node is never stopped for good.
FairSpec == Spec /\ \A n \in Node : WF_vars(Step(n))
-----------------------------------------------------------------------------
(* Properties.                                                             *)

Counters == [Kinds -> Int]
Batches == [halImage : SUBSET Of("HalImage"), halMeta : SUBSET Of("HalMeta"),
            appMetaO : SUBSET Of("AppMeta"), halMetaO : SUBSET Of("HalMeta"),
            appMetaLeft : Int, halMetaLeft : Int]

\* The variables have the types their declarations in
\* PipelineBufferSetFrameControlImp.h give them.
TypeOK ==
    /\ userInit \subseteq Stream
    /\ released \in [Stream -> SUBSET Node]
    /\ slot \subseteq Stream
    /\ mNonReleasedNum \in Counters
    /\ acquired \subseteq Stream
    /\ acquireFailed \subseteq Stream
    /\ allReleased \subseteq Stream
    /\ producersReleased \subseteq Stream
    /\ io \in [Node -> [IOSets -> SUBSET Stream]]
    /\ notified \in [Node -> SUBSET IOSets]
    /\ mInFlightNodeCount \in Int
    /\ collector \in Batches
    /\ flushing \in BOOLEAN
    /\ token \in [Node -> {"none", "queue", "flush"}]
    /\ pc \in [Node -> {"idle", "work", "apply", "drain", "callback", "return",
                       "dispatch"}]
    /\ flushed \subseteq Node
    /\ todo \in [Node -> SUBSET Stream]
    /\ held \in [Node -> SUBSET Stream]
    /\ nulls \in [Node -> SUBSET Stream]
    /\ visit \in [Node -> SUBSET Stream]
    /\ batch \in [Node -> Batches]
    /\ messages \in [Node -> SUBSET Messages]
    /\ crashed \in BOOLEAN
    /\ returned \in [Stream -> Nat]
    /\ delivered \in [Stream -> Nat]
    /\ lastPartial \in BOOLEAN
    /\ frameReleased \in Nat

\* A Hal buffer that left the item map waits in the collector or with the one
\* thread that took it out, or it was given back once: handleReleasedBuffers
\* neither loses a buffer nor gives it back twice, however the threads that
\* apply releases interleave.
Keepers(s) == {n \in Node : s \in batch[n].halImage \cup batch[n].halMeta}
HalBuffersAccountedFor ==
    \A s \in Hal :
        LET collected == IF s \in collector.halImage \cup collector.halMeta THEN 1 ELSE 0
        IN  collected + Cardinality(Keepers(s)) + returned[s]
                = IF s \in acquired \ slot THEN 1 ELSE 0

\* A Hal buffer goes back to its pool or provider at most once, and only when
\* every user of it has marked it as released.
ReturnedOnceReleasedByAll ==
    \A s \in Stream :
        /\ returned[s] \in {0, 1}
        /\ returned[s] = 1 => Users[s] \subseteq released[s]

\* The numbers of metadata left, which updateFrame passes on and the
\* application decides the last partial result by, are those of the metadata
\* whose producers are not known to be done.
LeftCountersExact ==
    /\ collector.appMetaLeft = Cardinality(OutMeta("AppMeta") \ producersReleased)
    /\ collector.halMetaLeft = Cardinality(OutMeta("HalMeta") \ producersReleased)

\* mInFlightNodeCount, whose zero makes the frame a released one, counts the
\* nodes with a stream left in one of their IO sets, but for the one whose
\* applyRelease is about to say so.
InFlightNodeCountExact ==
    ~Locked => mInFlightNodeCount =
                Cardinality({n \in Node : \E k \in IOSets : io[n][k] # {}})

\* While a node holds a buffer, every user ahead of it has given it up: no node
\* reads what another still writes (IStreamBufferSet.h, getImageBuffer).
HeldAfterPriorUsers ==
    \A n \in Node : \A s \in held[n] : Users[s] \cap Prior(n) \subseteq released[s]

\* A buffer some node holds is not given back, and its item is in the item map,
\* where markUserStatus looks the users manager up without asking for NULL.
HeldIsInMap ==
    \A n \in Node : \A s \in held[n] : s \in slot /\ returned[s] = 0

\* A frame that is announced as released has no buffer left in its item maps,
\* which is what onLastStrongRef warns about.
ReleasedFrameIsEmpty ==
    frameReleased > 0 => slot = {} /\ \A k \in Kinds : mNonReleasedNum[k] = 0

\* The frame implements its contract.
Contract == INSTANCE FrameContract WITH
    released <- released,
    returned <- returned,
    delivered <- delivered,
    frameReleased <- frameReleased
ImplementsContract == Contract!Spec

\* applyRelease: "After this call, all of RELEASE-marked buffers are released by
\* this user" (IStreamBufferSet.h): none is left in the IO sets of the node.
AppliedReleaseIsComplete ==
    \A n \in Node : pc[n] \in {"drain", "callback", "return"} =>
        \A k \in IOSets : \A s \in io[n][k] : n \notin released[s]

\* markUserStatus finds a users manager or says that there is none
\* (IStreamBufferSet.h: it returns "the current status mask").
NoEmptySlotUsed == ~crashed

\* IAppStreamManager.h, updateResult: hasLastPartial says that the metadata
\* "contain last partial metadata", so none comes after it.
NothingAfterLastPartial ==
    [][lastPartial => \A s \in Of("AppMeta") : delivered'[s] = delivered[s]]_vars

\* The frame is released in the end, and with it each buffer given back that
\* was acquired.
FrameEventuallyReleased == <>[](frameReleased = 1)
HalBuffersEventuallyReturned ==
    <>[](\A s \in Hal \cap acquired : returned[s] = 1)
=============================================================================
