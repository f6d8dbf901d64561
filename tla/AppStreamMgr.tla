---------------------------- MODULE AppStreamMgr ----------------------------
(***************************************************************************)
(* The application stream manager: requests of the camera framework are    *)
(* registered, results of the nodes queued, and one thread takes them off, *)
(* brings the frame handler up to date, decides what to tell the framework *)
(* and calls it back.                                                      *)
(*                                                                         *)
(* The nodes are those of one or more pipelines (a pipeline that is        *)
(* replaced goes on until its frames are done).  What a node does inside a *)
(* frame is module PipelineFrame; here it releases all it has of a frame   *)
(* at once, each output good or in error, and the result of that reaches   *)
(* updateResult in a later step of the same thread.                        *)
(*                                                                         *)
(* mFrameHandlerLock is held from the first result that is looked at to    *)
(* the last frame, so registration, the look of a waiter at the queue and  *)
(* these steps exclude each other; releases of the nodes do not.           *)
(***************************************************************************)
EXTENDS Integers, Sequences, FiniteSets

CONSTANTS
    Frame,          \* the frame numbers, in the order of the requests
    Node,           \* the nodes of a pipeline
    Edge,           \* the edges of its graph
    NodesOf,        \* NodesOf[f]: the nodes that frame f goes through
    Pipeline,       \* Pipeline[f]: the pipeline it goes through
    Image,          \* the image streams of the application
    Meta,           \* the output metadata streams, by stream id
    OutImages,      \* OutImages[f]: the images the request wants
    InImages,       \* InImages[f]: the images it brings
    Users,          \* Users[s]: the nodes that use stream s
    Producer,       \* Producer[s]: the one that fills it
    MayFail,        \* the streams that may be released in error
    Timestamped,    \* the metadata with the timestamp of the sensor
    AtMost,         \* mAtMostMetaStreamCount
    None

OutMetas(f) == {m \in Meta : Producer[m] \in NodesOf[f]}
Stream == Image \cup Meta
Result == [buffer : Seq(Meta), lastPartial : BOOLEAN]
Call == [frame : Frame, node : Node, buffer : Seq(Meta), lastPartial : BOOLEAN]

ASSUME AppAssumption ==
    /\ Frame \subseteq Nat \ {0} /\ IsFiniteSet(Frame)
    /\ Edge \subseteq Node \X Node
    /\ NodesOf \in [Frame -> SUBSET Node]
    /\ Meta \subseteq Nat /\ IsFiniteSet(Meta) /\ Image \cap Meta = {}
    /\ "request" \notin Image /\ "result" \notin Image
    /\ OutImages \in [Frame -> (SUBSET Image) \ {{}}]
    /\ InImages \in [Frame -> SUBSET Image]
    /\ \A f \in Frame : OutImages[f] \cap InImages[f] = {}
    /\ Users \in [Stream -> SUBSET Node]
    /\ Producer \in [Stream -> Node]
    /\ \A s \in Stream : Producer[s] \in Users[s]
    /\ \A m, k \in Meta : Producer[m] = Producer[k] => m = k
    /\ \A f \in Frame : /\ \A s \in OutImages[f] : Producer[s] \in NodesOf[f]
                        /\ \E m \in OutMetas(f) : m \in Timestamped
                        /\ Cardinality(OutMetas(f)) <= AtMost
    /\ MayFail \subseteq Stream
    /\ AtMost \in Nat
    /\ None \notin Result

VARIABLES
    \* the pipelines
    submitted,      \* the frames they have got
    released,       \* released[f]: the nodes that have released f
    bad,            \* bad[f]: the outputs of f in error
    calls,          \* the calls of updateResult that nodes are about to make
    \* requests
    registered,     \* the frames that have been requested
    requesting,     \* mRequestingAllowed
    waiter,         \* where the flush is in waitUntilDrained
    \* results
    mResultQueue,   \* mResultQueue[f]: the result that waits for the thread
    batch,          \* what the thread has taken off it
    \* frame handler
    mFrameQueue,    \* the frames in the queue, which is in order of frame number
    latestResultFrameNo,
    bufferNo,       \* bufferNo[f][m]: the number of metadata m, 0: not there yet
    hasLastPartial, \* the frames whose last metadata is there
    state,          \* state[f][s]: the state of image s
    returned,       \* returned[f]: the streams returned
    errorSent,      \* errorSent[f]: the streams whose error has been sent
    emptied,        \* emptied[f]: the metadata whose item is set to NULL
    errors,         \* errors[f]: "frame", "meta": errors sent for the frame
    timestampShutter, \* the frames whose shutter is known
    \* thread
    pc,             \* where the thread is
    visit,          \* the frames it has still to look at
    cbList,         \* the callbacks it has to make
    \* the framework
    told            \* told[f]: what it has been told of f, see Untold

pipelines == <<submitted, released, bad, calls>>
requests == <<registered, requesting, waiter>>
results == <<mResultQueue, batch>>
items == <<bufferNo, hasLastPartial, state, returned, errorSent, emptied, errors,
           timestampShutter>>
handler == <<mFrameQueue, latestResultFrameNo, items>>
thread == <<pc, visit, cbList>>
vars == <<pipelines, requests, results, handler, thread, told>>

\* Nothing told: images[s] counts how often s was handed back, metas lists the
\* numbers of the metadata, errors what was reported.
Untold == [shutter |-> 0, metas |-> <<>>, errors |-> {}, images |-> [s \in Image |-> 0]]

Init ==
    /\ submitted = {}
    /\ released = [f \in Frame |-> {}]
    /\ bad = [f \in Frame |-> {}]
    /\ calls = {}
    /\ registered = {}
    /\ requesting = TRUE
    /\ waiter = "idle"
    /\ mResultQueue = [f \in Frame |-> None]
    /\ batch = [f \in Frame |-> None]
    /\ mFrameQueue = {}
    /\ latestResultFrameNo = 0
    /\ bufferNo = [f \in Frame |-> [m \in Meta |-> 0]]
    /\ hasLastPartial = {}
    /\ state = [f \in Frame |-> [s \in OutImages[f] \cup InImages[f] |-> "IN_FLIGHT"]]
    /\ returned = [f \in Frame |-> {}]
    /\ errorSent = [f \in Frame |-> {}]
    /\ emptied = [f \in Frame |-> {}]
    /\ errors = [f \in Frame |-> {}]
    /\ timestampShutter = {}
    /\ pc = "deque"
    /\ visit = {}
    /\ cbList = <<>>
    /\ told = [f \in Frame |-> Untold]

SmallestIn(F) == CHOOSE f \in F : \A g \in F : f <= g
LargestIn(F) == CHOOSE f \in F : \A g \in F : g <= f

-----------------------------------------------------------------------------
(* The nodes.                                                              *)

\* n has released f and told so.
Through(f, n) == n \in released[f] /\ \A c \in calls : c.frame # f \/ c.node # n

Release(n, f) ==
    /\ f \in submitted /\ n \in NodesOf[f] \ released[f]
    /\ \A p \in NodesOf[f] : <<p, n>> \in Edge => Through(f, p)
    /\ \A g \in submitted : g < f /\ Pipeline[g] = Pipeline[f] /\ n \in NodesOf[g]
                                => Through(g, n)
    /\ released' = [released EXCEPT ![f] = @ \cup {n}]
    /\ \E E \in SUBSET {s \in MayFail \cap (OutImages[f] \cup OutMetas(f)) :
                                Producer[s] = n} :
            bad' = [bad EXCEPT ![f] = @ \cup E]
    /\ LET M == {m \in OutMetas(f) : Producer[m] = n} IN
       calls' = calls \cup
            {[frame |-> f, node |-> n,
              buffer |-> IF M = {} THEN <<>> ELSE <<CHOOSE m \in M : TRUE>>,
              lastPartial |-> \A m \in OutMetas(f) : Producer[m] \in released'[f]]}
    /\ UNCHANGED <<submitted, requests, results, handler, thread, told>>

\* enqueResult: a result that waits already for the same frame takes this one in.
UpdateResult(c) ==
    LET f == c.frame IN
    /\ c \in calls
    /\ calls' = calls \ {c}
    /\ mResultQueue' = [mResultQueue EXCEPT ![f] =
            [buffer |-> IF @ = None THEN c.buffer ELSE @.buffer \o c.buffer,
             lastPartial |-> c.lastPartial]]
    /\ UNCHANGED <<submitted, released, bad, requests, batch, handler, thread, told>>

-----------------------------------------------------------------------------
(* Requests, and the flush of the device.                                  *)

LockedHandler == pc \in {"update", "visit"}

NextRequest(f) ==
    /\ f \notin registered
    /\ \A g \in Frame : g < f => g \in registered
    /\ \A g \in mFrameQueue : g \in submitted     \* one thread makes requests

RegisterRequest(f) ==
    /\ NextRequest(f) /\ requesting /\ ~LockedHandler
    /\ registered' = registered \cup {f}
    /\ mFrameQueue' = mFrameQueue \cup {f}
    /\ UNCHANGED <<pipelines, requesting, waiter, results, latestResultFrameNo, items,
                   thread, told>>

\* The request goes to the pipeline with no lock held.
SubmitRequest(f) ==
    /\ f \in mFrameQueue \ submitted
    /\ submitted' = submitted \cup {f}
    /\ UNCHANGED <<released, bad, calls, requests, results, handler, thread, told>>

\* During a flush the device answers a request itself.
FlushRequest(f) ==
    /\ NextRequest(f) /\ ~requesting
    /\ registered' = registered \cup {f}
    /\ told' = [told EXCEPT
            ![f].errors = {"request"},
            ![f].images = [s \in Image |-> IF s \in OutImages[f] \cup InImages[f]
                                          THEN 1 ELSE 0]]
    /\ UNCHANGED <<pipelines, requesting, waiter, results, handler, thread>>

BeginFlush ==
    /\ requesting
    /\ requesting' = FALSE
    /\ waiter' = "woken"
    /\ UNCHANGED <<pipelines, registered, results, handler, thread, told>>

\* waitUntilDrained looks at the queue of frames, first and when woken.
WaitUntilDrained ==
    /\ waiter = "woken" /\ ~LockedHandler
    /\ waiter' = IF mFrameQueue = {} THEN "idle" ELSE "asleep"
    /\ UNCHANGED <<pipelines, registered, requesting, results, handler, thread, told>>

TimeOut ==
    /\ waiter = "asleep" /\ ~LockedHandler
    /\ waiter' = "idle"
    /\ UNCHANGED <<pipelines, registered, requesting, results, handler, thread, told>>

EndFlush ==
    /\ waiter = "idle" /\ ~requesting
    /\ requesting' = TRUE
    /\ UNCHANGED <<pipelines, registered, waiter, results, handler, thread, told>>

-----------------------------------------------------------------------------
(* What the frame handler decides about a frame.                           *)

Arrived(f) == {m \in Meta : bufferNo[f][m] # 0}

NotARequestError(f) ==
    \/ \E s \in OutImages[f] : state[f][s] = "VALID"
    \/ f \in hasLastPartial /\ Arrived(f) \cap bad[f] = {}

\* Mutant: the state of the images is not looked at.
RequestError_MetaOnly(f) == ~NotARequestError(f) /\ Arrived(f) \cap bad[f] # {}

RequestError(f) ==
    /\ ~NotARequestError(f)
    /\ \A s \in OutImages[f] : state[f][s] = "ERROR"
    /\ Arrived(f) \cap bad[f] # {}

\* The item that is taken for the last of a frame is the one with the largest
\* stream id.
LastIsEmptied(f) == Arrived(f) # {} /\ LargestIn(Arrived(f)) \in emptied[f]

\* Mutant: the final metadata does not wait for those of earlier frames.
MetaReturnable_Always(f, m) == TRUE

MetaReturnable(f, m) ==
    bufferNo[f][m] = AtMost =>
        \A g \in mFrameQueue : g < f =>
            Arrived(g) # {} /\ (g \in hasLastPartial <=> LastIsEmptied(g))

ImageReturnable(f, s) ==
    \A g \in mFrameQueue : g < f /\ s \in OutImages[g] \cup InImages[g]
                                => s \in returned[g] \/ state[g][s] # "IN_FLIGHT"

MetasToReturn(f) ==
    {m \in Arrived(f) : m \notin bad[f] \cup returned[f] /\ MetaReturnable(f, m)}

\* Mutant: an image is returned at every look at it.
ImagesToReturn_Again(f, S) == {s \in S : state[f][s] = "VALID" /\ ImageReturnable(f, s)}

ImagesToReturn(f, S) ==
    {s \in S : state[f][s] = "VALID" /\ s \notin returned[f] /\ ImageReturnable(f, s)}

ErrorsToSend(f, S) ==
    {s \in S : s \in bad[f] /\ s \notin errorSent[f] /\ NotARequestError(f)}

\* The numbers that metadata M are returned with: all but the last partial one
\* count on from those returned before.
Numbers(f, M) ==
    [i \in 1 .. Cardinality(M) |->
        LET m == CHOOSE m \in M : Cardinality({k \in M : k < m}) = i - 1 IN
        IF bufferNo[f][m] = AtMost THEN AtMost
        ELSE Cardinality(returned[f] \cap Meta) + i]

\* Mutant: the frame goes when its last metadata has come in, returned or not.
IsFrameRemovable_LastCame(f) ==
    /\ OutImages[f] \cup InImages[f] \subseteq returned[f]
    /\ errors[f] # {} \/ (f \in hasLastPartial /\ f \in timestampShutter)

IsFrameRemovable(f) ==
    /\ OutImages[f] \cup InImages[f] \subseteq returned[f]
    /\ \/ errors[f] # {}
       \/ f \in hasLastPartial /\ LastIsEmptied(f) /\ f \in timestampShutter

-----------------------------------------------------------------------------
(* The thread.                                                             *)

DequeResult ==
    /\ pc = "deque"
    /\ \E f \in Frame : mResultQueue[f] # None
    /\ batch' = mResultQueue
    /\ mResultQueue' = [f \in Frame |-> None]
    /\ pc' = "update"
    /\ UNCHANGED <<pipelines, requests, handler, visit, cbList, told>>

Pending == {f \in Frame : batch[f] # None}

\* One result: the metadata get their numbers, the images their states.
UpdateFrame(f) ==
    /\ pc = "update" /\ f = SmallestIn(Pending) /\ f \in mFrameQueue
    /\ LET new == batch[f].buffer
           n == Cardinality(Arrived(f))
           last == batch[f].lastPartial /\ new # <<>>
       IN  /\ bufferNo' = [bufferNo EXCEPT ![f] = [m \in Meta |->
                    IF \E i \in DOMAIN new : new[i] = m
                    THEN LET i == CHOOSE i \in DOMAIN new : new[i] = m IN
                         IF last /\ i = Len(new) THEN AtMost ELSE n + i
                    ELSE @[m]]]
           /\ hasLastPartial' = hasLastPartial \cup (IF last THEN {f} ELSE {})
    /\ state' = [state EXCEPT ![f] = [s \in DOMAIN @ |->
            IF @[s] = "IN_FLIGHT" /\ Users[s] \cap NodesOf[f] \subseteq released[f]
            THEN IF s \in bad[f] THEN "ERROR" ELSE "VALID"
            ELSE @[s]]]
    /\ batch' = [batch EXCEPT ![f] = None]
    /\ latestResultFrameNo' = IF f > latestResultFrameNo THEN f ELSE latestResultFrameNo
    /\ UNCHANGED <<pipelines, requests, mResultQueue, mFrameQueue, returned, errorSent,
                   emptied, errors, timestampShutter, thread, told>>

\* A result of a frame that is not in the queue is dropped.
SkipResult(f) ==
    /\ pc = "update" /\ f = SmallestIn(Pending) /\ f \notin mFrameQueue
    /\ batch' = [batch EXCEPT ![f] = None]
    /\ latestResultFrameNo' = IF mFrameQueue # {} /\ f > latestResultFrameNo
                              THEN f ELSE latestResultFrameNo
    /\ UNCHANGED <<pipelines, requests, mResultQueue, mFrameQueue, items, thread, told>>

\* Mutant: the loop stops one frame too early.
VisitFrames_BeforeLatest ==
    /\ pc = "update" /\ Pending = {}
    /\ visit' = {f \in mFrameQueue : f < latestResultFrameNo}
    /\ pc' = "visit"
    /\ UNCHANGED <<pipelines, requests, results, handler, cbList, told>>

VisitFrames ==
    /\ pc = "update" /\ Pending = {}
    /\ visit' = {f \in mFrameQueue : f <= latestResultFrameNo}
    /\ pc' = "visit"
    /\ UNCHANGED <<pipelines, requests, results, handler, cbList, told>>

\* Mutant: after an erase the loop goes on with the iterator of the erased frame.
RemoveOrKeep_StaleIterator(f) ==
    /\ visit' = IF IsFrameRemovable(f)' THEN visit ELSE visit \ {f}
    /\ mFrameQueue' = IF IsFrameRemovable(f)' THEN mFrameQueue \ {f} ELSE mFrameQueue

\* The end of a turn of the loop over the frames: the frame may leave the queue.
RemoveOrKeep(f) ==
    /\ visit' = visit \ {f}
    /\ mFrameQueue' = IF IsFrameRemovable(f)' THEN mFrameQueue \ {f} ELSE mFrameQueue

\* Parcels that say nothing are not sent.
Prepare(parcel) ==
    cbList' = IF /\ ~parcel.shutter /\ parcel.metas = <<>>
                 /\ parcel.errors = {} /\ parcel.images = {}
              THEN cbList
              ELSE Append(cbList, parcel)

\* prepareErrorFrame: one error for the request, and all its images back.
ErrorFrame(f) ==
    LET back == OutImages[f] \ returned[f]
        input == ImagesToReturn(f, InImages[f])
    IN
    /\ pc = "visit" /\ visit # {} /\ f = SmallestIn(visit)
    /\ RequestError(f)
    /\ errors' = [errors EXCEPT ![f] = @ \cup {"frame"}]
    /\ returned' = [returned EXCEPT ![f] = @ \cup back \cup input]
    /\ Prepare([frame |-> f, shutter |-> FALSE, metas |-> <<>>,
                errors |-> {"request"}, images |-> back \cup input])
    /\ UNCHANGED <<bufferNo, hasLastPartial, state, errorSent, emptied, timestampShutter>>
    /\ RemoveOrKeep(f)
    /\ UNCHANGED <<pipelines, requests, results, latestResultFrameNo, pc, told>>

\* prepareCallbackIfPossible, for the metadata, the output and the input images.
ReturnFrame(f) ==
    LET metas == MetasToReturn(f)
        metaErrors == ErrorsToSend(f, Arrived(f))
        imageErrors == ErrorsToSend(f, {s \in OutImages[f] : state[f][s] = "ERROR"})
        back == ImagesToReturn(f, OutImages[f] \cup InImages[f])
                    \cup (imageErrors \ returned[f])
        shutter == metas \cap Timestamped # {} /\ f \notin timestampShutter
        result == metaErrors # {} /\ "meta" \notin errors[f]
    IN
    /\ pc = "visit" /\ visit # {} /\ f = SmallestIn(visit)
    /\ ~RequestError(f)
    /\ returned' = [returned EXCEPT ![f] = @ \cup metas \cup back]
    /\ errorSent' = [errorSent EXCEPT ![f] = @ \cup metaErrors \cup imageErrors]
    /\ errors' = [errors EXCEPT ![f] = @ \cup (IF result THEN {"meta"} ELSE {})]
    /\ timestampShutter' = timestampShutter \cup (IF shutter THEN {f} ELSE {})
    /\ emptied' = [emptied EXCEPT ![f] = @ \cup
            {m \in Arrived(f) : /\ Users[m] \cap NodesOf[f] \subseteq released[f]
                                /\ m \in returned'[f] \cup errorSent'[f]}]
    /\ Prepare([frame |-> f, shutter |-> shutter, metas |-> Numbers(f, metas),
                errors |-> imageErrors \cup (IF result THEN {"result"} ELSE {}),
                images |-> back])
    /\ UNCHANGED <<bufferNo, hasLastPartial, state>>
    /\ RemoveOrKeep(f)
    /\ UNCHANGED <<pipelines, requests, results, latestResultFrameNo, pc, told>>

StartCallbacks ==
    /\ pc = "visit" /\ visit = {}
    /\ pc' = "callback"
    /\ UNCHANGED <<pipelines, requests, results, handler, visit, cbList, told>>

PerformCallback ==
    LET parcel == Head(cbList) IN
    /\ pc = "callback" /\ cbList # <<>>
    /\ told' = [told EXCEPT ![parcel.frame] =
            [shutter |-> @.shutter + (IF parcel.shutter THEN 1 ELSE 0),
             metas   |-> @.metas \o parcel.metas,
             errors  |-> @.errors \cup parcel.errors,
             images  |-> [s \in Image |->
                            @.images[s] + (IF s \in parcel.images THEN 1 ELSE 0)]]]
    /\ cbList' = Tail(cbList)
    /\ UNCHANGED <<pipelines, requests, results, handler, pc, visit>>

\* Mutant: the waiter is signalled only while frames are left.
SignalDrained_Inverted ==
    /\ pc = "callback" /\ cbList = <<>>
    /\ waiter' = IF waiter = "asleep" /\ mFrameQueue # {} THEN "woken" ELSE waiter
    /\ pc' = "deque"
    /\ UNCHANGED <<pipelines, registered, requesting, results, handler, visit, cbList,
                   told>>

\* The waiter is woken if the queue of frames is empty now.
SignalDrained ==
    /\ pc = "callback" /\ cbList = <<>>
    /\ waiter' = IF waiter = "asleep" /\ mFrameQueue = {} THEN "woken" ELSE waiter
    /\ pc' = "deque"
    /\ UNCHANGED <<pipelines, registered, requesting, results, handler, visit, cbList,
                   told>>

-----------------------------------------------------------------------------
NodeStep == \/ \E n \in Node, f \in Frame : Release(n, f)
            \/ \E c \in calls : UpdateResult(c)

DeviceStep == \/ \E f \in Frame : RegisterRequest(f) \/ FlushRequest(f)
              \/ BeginFlush

FlushStep == WaitUntilDrained \/ EndFlush

ThreadStep ==
    \/ DequeResult
    \/ \E f \in Pending : UpdateFrame(f) \/ SkipResult(f)
    \/ VisitFrames
    \/ \E f \in visit : ErrorFrame(f) \/ ReturnFrame(f)
    \/ StartCallbacks
    \/ PerformCallback
    \/ SignalDrained

Next == \/ NodeStep \/ DeviceStep \/ FlushStep \/ TimeOut \/ ThreadStep
        \/ \E f \in Frame : SubmitRequest(f)

Spec == Init /\ [][Next]_vars

\* The thread, the nodes and a caller that is not blocked go on.  Nothing says
\* that there are requests or flushes, and no time-out is counted on.
FairSpec ==
    /\ Spec
    /\ \A n \in Node, f \in Frame : WF_vars(Release(n, f))
    /\ \A n \in Node, f \in Frame :
            WF_vars(\E c \in calls : c.node = n /\ c.frame = f /\ UpdateResult(c))
    /\ \A f \in Frame : WF_vars(SubmitRequest(f))
    /\ WF_vars(FlushStep)
    /\ WF_vars(ThreadStep)

-----------------------------------------------------------------------------
(* Properties.                                                             *)

\* The queue of frames, the items and the callbacks have the types of the code.
AppTypeOK ==
    /\ submitted \subseteq registered
    /\ released \in [Frame -> SUBSET Node]
    /\ bad \in [Frame -> SUBSET Stream]
    /\ calls \subseteq Call
    /\ registered \subseteq Frame /\ requesting \in BOOLEAN
    /\ waiter \in {"idle", "asleep", "woken"}
    /\ mResultQueue \in [Frame -> Result \cup {None}]
    /\ batch \in [Frame -> Result \cup {None}]
    /\ mFrameQueue \subseteq registered
    /\ latestResultFrameNo \in Frame \cup {0}
    /\ bufferNo \in [Frame -> [Meta -> 0 .. AtMost]]
    /\ hasLastPartial \subseteq Frame /\ timestampShutter \subseteq Frame
    /\ \A f \in Frame :
        /\ state[f] \in [OutImages[f] \cup InImages[f] -> {"IN_FLIGHT", "VALID", "ERROR"}]
        /\ returned[f] \subseteq Stream /\ errorSent[f] \subseteq Stream
        /\ emptied[f] \subseteq Meta /\ errors[f] \subseteq {"frame", "meta"}
    /\ pc \in {"deque", "update", "visit", "callback"}
    /\ visit \subseteq mFrameQueue
    /\ \A i \in DOMAIN cbList : cbList[i].frame \in registered

\* The frame has left the queue and all its callbacks have been made.
Settled(f) ==
    /\ f \in registered \ mFrameQueue
    /\ \A i \in DOMAIN cbList : cbList[i].frame # f

\* Every buffer of a request is given back to the framework exactly once, however
\* the results of its frame and of others come in and whatever is in error.
ImagesReturnedOnce ==
    \A f \in Frame, s \in Image :
        /\ told[f].images[s] <= 1
        /\ Settled(f) => (told[f].images[s] = 1 <=> s \in OutImages[f] \cup InImages[f])

\* A frame with no error of the request or of its metadata is not let go before
\* the framework has its shutter, once, and all its metadata, numbered without a
\* gap but for the last, which has the number that says so.
SettledFrameHasItsMetadata ==
    \A f \in Frame : Settled(f) /\ told[f].errors \cap {"request", "result"} = {} =>
        LET n == Cardinality(OutMetas(f)) IN
        /\ told[f].shutter = 1
        /\ told[f].metas = [i \in 1 .. n |-> IF i = n THEN AtMost ELSE i]

\* The framework is not told that a request failed when a part of it succeeded,
\* and is told of the buffers in error one by one exactly when it did.
ErrorsAreReal ==
    \A f \in submitted :
        /\ "request" \in told[f].errors => /\ OutImages[f] \subseteq bad[f]
                                           /\ told[f].errors = {"request"}
        /\ told[f].errors \cap Image \subseteq bad[f]
        /\ "result" \in told[f].errors => bad[f] \cap Meta # {}
        /\ Settled(f) => "request" \in told[f].errors
                            \/ bad[f] \cap Image \subseteq told[f].errors

Final(f) == AtMost \in {told[f].metas[i] : i \in DOMAIN told[f].metas}

\* The final metadata of frames are given back in the order of the requests,
\* though the frames may be done in another: but for frames with metadata in
\* error, which hold nobody up.
FinalsInOrder ==
    \A f, g \in submitted : g < f /\ Final(f) => Final(g) \/ bad[g] \cap Meta # {}

\* A request that reaches the pipelines is answered in full.
EveryFrameSettles == \A f \in Frame : f \in submitted ~> Settled(f)

\* A flush does not sleep through the end of the last frame.
FlushReturns == waiter # "idle" ~> waiter = "idle"
=============================================================================
