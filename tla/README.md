# The camera pipeline of mt8173, in TLA+

This directory holds TLA+ models of the core of the MediaTek camera HAL in
`src/mtkcam`: the pipeline that carries each camera request, as a *frame*,
through a graph of processing nodes; the stream buffers the nodes share; the
context that queues frames, flushes them and waits for them; and the manager that
turns what the nodes release into callbacks to the camera framework. It is the
part of the repository where threads, buffers and callbacks meet, and where an
ordinary test hardly reaches the interleavings that matter. Safety and liveness
are checked with TLC on small instances; every safety invariant the passing runs check is also
proved with TLAPS for every number of nodes, users, streams, buffers, frames and threads,
some of them under a condition on the graph that section 4 names.

## 1. Inventory

Paths are relative to `src/mtkcam/`.

| Component | State it keeps | Operations | Models |
|---|---|---|---|
| **Frame**, `pipeline/pipeline/PipelineBufferSetFrameControlImp.{h,cpp}` | four item maps (App/Hal x image/metadata) with a counter of non-released items each; the IO sets of each node and `mInFlightNodeCount`; the `ReleasedCollector` | `getImageBuffer`, `getMetaBuffer`, `markUserStatus`, `applyRelease`, `applyPreRelease` | `PipelineFrame`, `FrameContract` |
| **Users manager**, `pipeline/utils/streambuf/UsersManagerImp.cpp` | per stream buffer: the graph of users, their category, status and fences; bit sets that count statuses | `enqueUserGraph`, `finishUserSetup`, `markUserStatus`, `createAcquireFence`, the questions `haveAll...`, `reset` | `UsersManager` (as a whole), `PipelineFrame` (RELEASE only) |
| **Stream buffers**, `pipeline/utils/streambuf/StreamBuffers.cpp` | ERROR status; the pool or provider to return to | `markUserStatus`, `releaseBuffer`, `resetBuffer` | `UsersManager`, `PipelineFrame` |
| **Buffer pool**, `pipeline/utils/streambuf/StreamBufferPoolImpl.cpp`, `include/.../StreamBufferPool.h` | storage, available and in-use lists, `muToAllocCnt`, waiting list, a thread, two mutexes | `initPool`, `commitPool`, `acquireFromPool`, `releaseToPool`, `uninitPool`, `threadLoop` | `StreamBufferPool` |
| **Node protocol**, `pipeline/hwnode/BaseNode.cpp`, `JpegNode.cpp`, `RAW16Node.cpp` | a sorted queue of frames, a thread and `mbRequestDrained` per node | get, wait, mark, `applyRelease`, dispatch; `queue`, `onDequeRequest`, `flush`, `flush(frame)`, `waitForRequestDrained` | inside a frame: `PipelineFrame`, `UsersManager`; queue and thread: `PipelineContext` |
| **Dispatcher and context**, `pipeline/pipeline/PipelineContextImpl.cpp` | `mInFlush` twice, the DAG, the node map | `queue`, `onDispatchFrame`, `flush`, `beginFlush`, `endFlush`, `waitUntilDrained`, evaluation of buffer users | `PipelineContext`, `DrainContract`; the users of a buffer: `PipelineFrame` |
| **In-flight requests**, `pipeline/pipeline/InFlightRequest.cpp` | lists of frames, in all and per node | `registerRequest`, `onPipelineFrame`, `waitUntil...Drained` | `PipelineContext` |
| **Application stream manager**, `middleware/v3/app/AppStreamMgr*.cpp` | result queue, frame parcels, callback queue | `registerRequest`, `updateResult`, the thread with its frame handler, callbacks, `waitUntilDrained` | `AppStreamMgr` |
| **Device**, `main/hal/device3/depend/default/Cam3DeviceImp.cpp` | whether requests are allowed | `processCaptureRequest`, `flush`, `updateFrame` | `AppStreamMgr` |
| **DAG**, `pipeline/pipeline/PipelineDAGImp.cpp` | nodes, edges, topological order | `addEdge`, `setRootNode`, `reserve`, sort | its results only, as constants |

`PROJECT.json` lists the other parts of the repository (ISP drivers, 3A, audio,
radio, hardware composer and so on) with the reason each is left out.

### How they interact

The context configures a frame, gives every stream buffer the graph of its users
(a user is a node that reads or writes the stream), registers the frame as in
flight and queues it to the root node. Each node has a thread of its own. It

1. asks the frame for the buffers of its streams. The frame hands a buffer out
   only when all users *ahead* of the node have given it up; the first to ask for
   a lazy Hal image acquires it from the pool or provider, which may fail;
2. waits for the acquire fence of each buffer;
3. marks each buffer `USED`, `RELEASE` as it is done with it;
4. calls `applyRelease`. Under the locks of the frame this looks through the IO
   sets of the node, empties items all users have released, and puts what is ready
   into the collector. Then, *with no lock held*, it drains the collector, calls
   the application back with the metadata, gives Hal buffers back one by one, and
   notifies the listeners;
5. hands the frame to the next nodes through the dispatcher. In flush the
   dispatcher calls `flush(frame)` of the next node instead of `queue(frame)`, which
   only marks and applies, and dispatches in turn: the recursion goes down the tree in
   the thread that began it.

The listeners of a frame are the lists of `InFlightRequest`, which take a frame off
when it or a node's part of it is released; `waitUntilDrained` and
`waitUntilNodeDrained` wait for these lists to be empty. `flush` of the context sets
two flags, each under a lock that queueing or dispatching holds for reading, flushes
the nodes in topological order, waits until no frame is in flight and resets the flags.

The metadata that `applyRelease` hands to `updateFrame` go through
`Cam3DeviceImp::updateFrame` to `AppStreamMgr::updateResult`. One thread takes the queued
results, brings the frame handler up to date (an image is looked up by its users
manager: all released or not, good or in error), decides for each frame what may be
said now, and calls the framework back with the lock released. The device refuses
requests and waits for this manager to drain while it flushes.

### What is hard

- The books of the frame (items, IO sets, counters) are settled under one lock, the
  collector has a second, a users manager a third, a pool a fourth and a fifth; the
  callbacks run under none. Nodes that run in parallel cross each other between
  any two of these.
- Whoever comes first drains what all have put into the collector, so a node gives
  back the buffers of another one.
- A buffer given back resets its users, while another node may still ask about them.
- Acquisition fails for the first node, and each later one has to account for it.
- Users are counted by bit sets indexed by position, over a graph that changes from
  frame to frame, for buffers that are used again.
- Waiting in the pool mixes signals, timeouts and late-comers.
- A frame is on its way to a node in many forms: registered and not yet queued, to be
  handed on, waiting for the lock of a queue, in a queue, being flushed out of one, at
  work. Two flags, two read-write locks and a lock per queue keep a flush from losing or
  doubling it.
- A thread that waits for a node is woken once, by broadcast in one node and by signal
  in another, and does not look at the condition again.
- Results are queued with no lock of the frame, so they arrive late, in another order
  than they were made in, or merged with each other; frames overtake each other when a
  pipeline is replaced.
- For each buffer "returned" by the frame handler, "on the way" in a callback and "told"
  to the framework are three moments, and errors take another way than results.

`PROJECT.json` lists each such hazard at its line with the properties that watch
over it.

### What makes each component correct

- *Frame*: every Hal buffer goes back exactly once and not before all its users
  released it; nobody uses a buffer given back, or one that a user ahead still
  works on; each output metadata is delivered once; the frame is announced
  once, when everything is released, and it is in the end; the counters agree with the sets.
- *Users manager*: the answers agree with the statuses; the fence covers what the
  gate lets through; ERROR says exactly what producers have said and marked, and keeps the
  nodes behind them from content that was not produced.
- *Pool*: every buffer is in one place; lists and count agree; an acquire ends.
- *Context*: each frame reaches each of its nodes once, to work on or to flush; the lists
  cover all that is not released; a wait goes on only when nothing is in flight; after a
  flush no queue holds a frame and no thread is at work; every call returns.
- *Application stream manager*: each image of a request goes back once; the metadata of
  a frame are complete, numbered and its last one says so; final results keep the order
  of the requests; errors are those that occurred; every frame and every flush ends.

## 2. Modules

### FrameContract and PipelineFrame

`FrameContract` says what a frame promises without any of its machinery: users
release, buffers are returned, metadata is delivered, the frame is announced.
`PipelineFrame` is the code. Its parameters are the nodes, the streams with their
kind, what each node reads and writes, the edges (a tree, as every pipeline the
code configures is), and which nodes and streams show certain behaviours: `Lazy`
images, `Recycled` buffers (those with a pool or provider to go back to),
`NullMarkers` (nodes that, like FD, mark a stream they got no buffer of) and
`Staged` nodes (those that, like P2 and HDR, call `applyRelease` several times
for a frame). `PipelineFrame` implements `FrameContract` under the identity on the
four variables the contract has, with `Users` and `Producers` computed from `In`
and `Out` (property `ImplementsContract`; the `INSTANCE ... WITH` is at the end of the module).

| Action | Code |
|---|---|
| `BeginFlush` | `DispatcherBase::beginFlush` as `PipelineContextImpl::beginFlush` calls it |
| `Start` | a node takes the frame from its queue, or is told to flush it |
| `GetBuffer`, `AcquireBuffer`, `AcquireFails` | `getImageBuffer` / `getMetaBuffer`, that is `getBufferLocked` and `getBufferLockedImp`: item present, acquired or not; all users released; users ahead released |
| `Mark`, `MarkNull` | `markUserStatus` with RELEASE, through the item map or, in flush, through the buffer |
| `ApplyRelease`, `Visit`, `SettleNode` | `applyRelease` under the locks: `NodeStatusUpdater`, one stream per step |
| `Drain`, `Callback`, `ReturnBuffer`, `Notify` | `handleReleasedBuffers` and the listeners, with no lock of the frame |
| `Dispatch` | `DefaultDispatcher::onDispatchFrame`, one node after the other |

A node holds the locks of the frame while it is in `apply`; what others do under
these locks has `~Locked` as a guard, what needs none has not. `Visit` looks at the
streams of a node in any order, where the code takes the IO sets in turn; that
allows more than the code does. So does `Dispatch` in flush: the code runs
`flush(frame)` of the next node inside the dispatch, the model lets the dispatcher go on
meanwhile. A reset of a users manager is only remembered in
`userInit`, since every question asks `mUserInit` first. `Recycled` metadata does
not exist: Hal metadata has no pool.

The variables from `returned` on record what the outside has seen. `crashed`
says that an emptied item was used.

### UsersManager

One stream buffer through any number of frames: setup with any categories and any
of the graphs of `Graph`, the calls of its users, reset. It keeps what
`PipelineFrame` abstracts: bit sets by position, early release, fences and the
ERROR status of the content.

There are two ways to mark, the last parameter of `markUserStatus`: by the buffer set
(`"set"`), which asks the users manager of the *item*, and by the stream buffer
(`"buffer"`), which marks its manager and then judges the content. For most buffers the
item's manager is the stream buffer, and the ways are one. The item of a Hal image that is
acquired lazily has a plain users manager, which the buffer shares later (`lazy`): a mark
by the set then never comes to the stream buffer. A producer may also set the status
itself (`MarkWriteError`, remembered in `failed`).

| Action | Code |
|---|---|
| `Setup`, `ResetBuffer` | `evaluate_buffer_users`, `HalImageStreamBuffer::resetBuffer` |
| `GetBuffer`, `WaitFence`, `MarkAcquired`, `CheckStatus` | `getBufferLocked`; then `ensureMetaBufferAvailable_`, `ensureImageBufferAvailable_`: wait, mark, look at the status |
| `SetReleaseFence`, `PreRelease` | the early release of `JpegNode` |
| `MarkWriteError` | `markStatus(WRITE_ERROR)`, as in `P2Node::releaseImageStream` |
| `Release` | USED and RELEASE, by the set as most nodes do, or by the buffer |
| `ReleaseOnly` | RELEASE alone: `BaseNode::flush(frame)` by the buffer; FDNode, DummyNode by the set, with or without having got a buffer |

A fence is the set of the events it waits for. `DFS` and `HaveAll`
are the algorithms of the code; the properties compare them with reference
definitions (`Ancestors`, and the statuses themselves). The code's `DFS` returns a list
with a user in it once for each way that leads to it; the model's returns the set of the
users found, since its callers ask the same of each and merge their fences. It is
a recursive function and not an operator, so that it can be proved about.

### StreamBufferPool

The two classes of the pool, each with its mutex `mLock`: `storage` for
`StreamBufferPoolImp`, `lock` for `StreamBufferPoolImpl`. What runs under one mutex
is one step; where a call takes the second mutex under the first, the first is kept
across steps. The thread of the pool, the owner that commits (or does not) and
uninitialises, timeouts and a failing allocator are actions. A failed attempt
of the thread of the pool changes nothing and is left out.

### DrainContract and PipelineContext

`DrainContract` says what the users of a context rely on: a frame is in flight once, from
acceptance to release, and a wait goes on only when none is. `PipelineContext` is the
code: the threads that call the context, the threads of the nodes, their queues, the
dispatcher and the lists of `InFlightRequest`. Of a frame it keeps what
`FrameContract` leaves, reduced to two parts per node, its output metadata and its
output images, in `unreleased`. Its parameters are the tree of nodes, the nodes of
each frame, the callers with the calls each makes, and which nodes show certain
behaviours: `Staged` (apply in stages), `Unawaited` (those that do not wait for their
thread in `flush()`), `Signalling` (RAW16 signals one waiter where Jpeg
broadcasts) and `Dropping` (RAW16 returns early from a frame whose input is in error and
neither releases nor dispatches it).

| Action | Code |
|---|---|
| `RegisterRequest`, `HandToRoot`, `EnterRoot`, `FinishQueue` | `PipelineContextImpl::queue`: register, take the flush lock for reading, then `queue(frame)` or `flush(frame)` of the root |
| `Deque`, `Rest`, `FinishFrame`, `DropFrame` | the thread of a node: `onDequeRequest`, `onProcessFrame` |
| `ApplyRelease`, `Notify` | what `applyRelease` announces, and `InFlightRequest::onPipelineFrame` |
| `Dispatch`, `EnterQueue`, `ReturnToParent` | `onDispatchFrame`: one next node after the other, by `queue(frame)` or by the recursion of `flush(frame)` |
| `BeginFlush`, `SetDispatcher`, `EndDispatcherFlush`, `EndContextFlush` | `beginFlush` and `endFlush`: the two flags, each under its lock |
| `LockQueue`, `ClearFrame`, `FrameCleared`, `UnlockQueue` | `flush()` of a node, under the lock of its queue |
| `WaitForRequestDrained`, `WakeUp` | the wait for the thread of the node |
| `WaitUntilDrained`, `Drained` | `waitUntilDrained`, called or as the last part of `flush` |
| `WaitUntilNodeDrained`, `NodePartDrained` | `waitUntilNodeDrained`, then `flush()` of that node as the capture pipeline does it |

A thread in `flush(frame)` is at one node, `at[t]`. No stack is kept: the
graph is a tree, so the calls it returns to are those of the parents, up to the
node where it began. The locks are guards: `ContextBusy` and `DispatcherBusy` say that
a read-write lock is held for reading, `QueueLocked` that a queue is being emptied.

`PipelineContext` implements `DrainContract` with

    inFlight <- the registered frames with something unreleased,
    done     <- the other registered frames,
    waiting  <- the callers with a wait still before them.

### AppStreamMgr

Requests, results, the frame handler, the callbacks, and the device on both sides of
it. The nodes only release here: a node gives up all it has of a frame at once, each
output good or in error, after the nodes ahead of it and after earlier frames of the
same pipeline; the call of `updateResult` that this leads to is a step of its own.
`Pipeline` maps frames to pipelines, so that a frame of a new pipeline may overtake those
of the one it replaces.

| Action | Code |
|---|---|
| `Release`, `UpdateResult` | `updateFrame` of the device for what a node released; `enqueResult`, which merges into a result that waits already |
| `RegisterRequest`, `SubmitRequest`, `FlushRequest` | `processCaptureRequest`: registered, then queued to the pipeline; answered with an error while the device flushes |
| `BeginFlush`, `WaitUntilDrained`, `TimeOut`, `EndFlush` | `flush` of the device and `waitUntilDrained` |
| `DequeResult` | the thread takes all that is queued |
| `UpdateFrame`, `SkipResult` | `FrameHandler::update`: numbers of metadata, states of images; a result of a frame that left is dropped |
| `VisitFrames`, `ErrorFrame`, `ReturnFrame` | the loop over the frames up to the latest result: `prepareErrorFrame`, `prepareCallbackIfPossible` and the question whether the frame may go |
| `StartCallbacks`, `PerformCallback`, `SignalDrained` | the callbacks with the lock released, and the signal to the waiter |

`told` is what the framework has been told and is never read by the code.

## 3. Runs

| Run | Question | States | Result |
|---|---|---|---|
| `fork` | P2 feeds Jpeg and FD in parallel; staged releases, lazy pool buffer, failing acquisition, flush | 452070 | holds |
| `chain` | three nodes in a row, nodes that mark without a buffer, fair threads | 876 | holds |
| `pool` | three callers, two buffers, committed or not, uninit at any time, timeouts | 11479 | holds |
| `users` | three users, any roles, three graphs, lazy or not, marks by set and by buffer, failing producers, early release, reuse | 164898 | holds |
| `context` | root and two nodes, each frame in one of them; one caller queues, waits for a node and flushes it, another flushes and waits for the context; stages, a dropped frame | 128571 | holds |
| `app` | a still picture on a pipeline that is replaced, a preview on the new one; errors, late and merged results, flushes with time-outs | 213537 | holds |
| `lost_release` | `AppliedReleaseIsComplete` | | violated |
| `null_item` | `NoEmptySlotUsed` | | violated |
| `last_partial` | `NothingAfterLastPartial` | | violated |
| `pool_deadlock` | `AcquireReturns` | | violated |
| `lost_metadata` | `SettledFrameHasItsMetadata`, with face detection next to the encoder | | violated |
| `stuck_frame` | `EveryFrameSettles`, on the same graph, under `FairSpec` | | violated |

**Bounds.** Two nodes in parallel behind a common one are the least where drains,
callbacks and resets cross; the streams of `fork` are one of each kind the collector
treats differently (pool image, Hal metadata, result metadata of two producers,
an image of the application). `chain` has the longest order of users three nodes
allow, and a stream handed on by each. In `pool` three callers compete for two
buffers, so that one waits while two others take and return; there is one buffer
index to lend per storage slot and `MaxBuf` bounds all. In `users` the ids are not
in the order of the pipeline, so that position and order differ, and the triangle
has a user met twice; three users are the least with a producer whose content goes
to a consumer past another user. In `context` two frames are the least that can be in a queue, at
work and on their way at the same time; each takes another branch below the root, so that
the dispatcher skips a node and the flush meets a queue that is empty; two callers are the
least with a flush against a queue and against the flush of a node. `May` bounds
nothing in time: each caller calls again and again. In `app` two frames can be
in either order of completion; with three metadata a frame may have its first, a
middle and its last one; the preview has another number of nodes and of
metadata than the picture. `AtMost` is the number the device configures for the last
partial result and has to be at least the number of metadata of a frame. The graphs of `app` are
chains, on which one node at a time works on a frame; the pipelines that let P2 feed
JpegNode and FDNode (`PipelineModel_Default.cpp:3076`, 3158) are forks, on which the code
breaks three of the properties of `app` (items 5, 6 and 8 below). Nothing else
is bounded: all counters are finite by themselves.

**Deadlock** is checked in `users`, `context` and `app`. In the others the system may stop:
the frame is done, or nobody acquires and the pool is gone. In `context` and `app` a
caller may always call again, so that it is the liveness properties that say that
nobody is stuck.

**Fairness.** `FairSpec` of the frame is weak fairness of each node's steps: the
thread of a node is not stopped for good, and `~Locked` is not kept off for ever
since the holder of the locks proceeds too. A node does its own work in the end; its
driver answering is part of that. `FairSpec` of the pool is strong fairness of the
thread's steps and of each caller inside `acquireFromPool` or `releaseToPool`: a
mutex is not refused for good to one thread while others get it again and again, and the time
of a waiter runs out. Nobody has to acquire or to release. Strong fairness of the
thread says that its allocator succeeds in the end, which the code needs too.
`FairSpec` of the context is weak fairness of each node's thread, and strong fairness of
a call that has begun, since it shares mutexes with threads that take them again and
again; no call has to begin. `FairSpec` of the application stream manager is weak
fairness of each node's release of each frame, of each pending `updateResult`, of the
submission of a request that is registered, of the steps of a flush and of the thread;
there is no fairness for requests, for the begin of a flush or for a time-out: a
flush returns because it is signalled.

Two liveness and ordering properties have an exception that is in the code.
`EveryCallReturns` excepts a call that waits for a frame that was *dropped*:
`RAW16Node::onProcessFrame` returns early when its input was not produced, without
`applyRelease`, and what it owes of the frame is never released. `FinalsInOrder` excepts
frames with metadata in error, which hold nobody up.

### What the violated runs show

1. *A release that is lost* (`lost_release`). Nodes A and B both mark their last use
   of a pool image. A applies: all users have released, the buffer is collected. A
   drains and gives it back, which resets its users. B applies: the status of B is now
   0, so the stream stays in the IO set of B, `mInFlightNodeCount` never gets to zero and
   the frame is never announced. `IStreamBufferSet.h:163` promises that "After this
   call, all of RELEASE-marked buffers are released by this user."
   `FrameEventuallyReleased` is therefore checked on the chain, where only one node
   works at a time.
2. *An emptied item* (`null_item`). A node that got NULL marks the stream; if the
   other users have released it meanwhile its item is NULL and is dereferenced. It
   needs a node that marks without a buffer (FD does) next to a parallel one. A
   node that marks what it holds is safe: theorem `HeldStaysInMap`.
3. *The last partial result is not the last* (`last_partial`).
4. *Deadlock of an uncommitted pool* (`pool_deadlock`): `do_construct` under the lock
   of the lists wants the lock of the storage, `releaseToPool` the other way round. The
   pipeline context always commits; `CommittedAcquireReturns` holds.
5. *Metadata that are lost* (`lost_metadata`). Jpeg and FD work on a frame side by side.
   FD releases, Jpeg releases last; Jpeg's `updateFrame` comes first, says that it is the
   last and has the largest stream id. The frame handler takes the frame for complete and
   lets it go; the result of FD then finds no frame. `IAppStreamManager.h:127` says "the
   number of output meta streams equals to the number of partial meta result
   callbacks". `app` checks the same property where one node at a time works on a frame.
6. *A frame that never goes* (`stuck_frame`). The same two calls in the same order, but
   both before the thread takes the queue: `enqueResult` merges them and overwrites
   `lastPartial` (`AppStreamMgr.cpp:960`) with that of the second, which is false. The
   frame never counts as complete and stays in the queue for good, with all its nodes,
   the thread and the callbacks going on: each later flush waits out its time.
   `EveryFrameSettles` therefore holds on chains only, where the last partial result is
   queued last.

Three more disagreements between the code and its comments have no run of their own:

7. *A wait that gives up early.* `IStreamBufferPool.h:147` says that an acquire blocks
   "until a buffer is acquired, the timeout expires, or an error occurs". A released buffer
   may be taken by one that came later, and the waiter that was signalled for it looks
   once (`StreamBufferPoolImpl.cpp:278`) and gives up before its time: in
   `StreamBufferPool`, a `Wake` to `idle` of a caller that is not in `expired`.
8. *A request that fails after all.* `checkRequestError` says of a frame that "it is indeed
   a request error" or "indeed NOT" one (`AppStreamMgr.FrameHandler.cpp:384-385`), and may
   say both. On the fork Jpeg fails, its metadata come as the last partial result, all
   good so far: the frame is not a request error, and the framework gets the image in
   error and the metadata. An earlier frame, on the pipeline that is being replaced,
   holds up the last metadata, so the frame is looked at again when FD's metadata come in
   error: now it is a request error, and reported as such. TLC finds this as a
   violation of `ErrorsAreReal` on the instance of `lost_metadata` with `TwoPipelines` for
   `Pipeline` and `{jpeg, 13}` for `MayFail`.
9. *Content without its error.* The producer of a lazy image releases it unused by the set.
   No ERROR is set, though "its content must be ERROR" (`StreamBuffers.cpp:321`), and the
   next node passes the check of the status and works on the image. `ErrorAsMarked` and
   `ContentIsProduced` say of such an image what the code does: without the last disjunct
   of `ContentIsProduced` TLC finds it violated. The nodes that release lazy images
   today set the status themselves or mark by the buffer; the comment above the marks of
   `DummyNode::onFlushFrame` (`DummyNode.cpp:1084`) relies on the rule.

## 4. Proofs

Each proof module assumes what the module it is about assumes of its constants and no
more, but for the theorems with an *if* below. Their conditions are constants of the
graph, not of a behaviour. They hold of the instances of the runs that check the
same properties. Where an instance without the condition is known on which TLC violates
the property, the text below names it.

| Module | Theorem | Says |
|---|---|---|
| `PipelineFrame_proofs` | `TypeCorrect` | `Spec => []TypeOK` |
| | `NeverReturnedEarly` | `Spec => []ReturnedOnceReleasedByAll` |
| | `HeldStaysInMap` | `Spec => []HeldIsInMap` |
| | `NoUseBeforePriorUsers` | `Spec => []HeldAfterPriorUsers` |
| | `NoEmptySlotMet` | `Spec => []NoEmptySlotUsed`, if `NullMarkersApart` |
| `PipelineFrameBooks_proofs` | `NoHalBufferLost` | `Spec => []HalBuffersAccountedFor` |
| | `MetadataCounted` | `Spec => []LeftCountersExact` |
| | `NodesCounted` | `Spec => []InFlightNodeCountExact` |
| | `ReleasedIsEmpty` | `Spec => []ReleasedFrameIsEmpty`, if every stream has a user |
| | `FrameKeepsContract` | `Spec => ImplementsContract` |
| `PipelineContext_proofs` | `ContextTypeCorrect` | `Spec => []ContextTypeOK` |
| | `GivenOnce` | `Spec => []EachFrameOncePerNode` |
| | `ListsCoverFrames` | `Spec => []NodeListsCoverFrames` |
| | `ContextKeepsContract` | `Spec => ImplementsDrainContract` |
| `PipelineContextFlush_proofs` | `FlushQuiets` | `Spec => []QuietAfterBeginFlush`, if one thread flushes |
| `StreamBufferPool_proofs` | `PoolTypeCorrect` | `Spec => []PoolTypeOK` |
| | `NoBufferLentTwice` | `Spec => []EachBufferInOnePlace` |
| | `WaitersAreLive` | `Spec => []WaitingListIsLive` |
| `UsersManager_proofs` | `UsersTypeCorrect` | `Spec => []UsersTypeOK` |
| | `StatusOfAllRight` | `Spec => []AllUsersStatusRight` |
| | `FencesCover` | `Spec => []AcquireFenceCoversPriorUse` |
| | `ErrorMeansMarked` | `Spec => []ErrorAsMarked` |
| | `WorkIsOnProducedContent` | `Spec => []ContentIsProduced` |
| | `JudgementKept` | `Spec => JudgementStands` |
| `AppStreamMgr_proofs` | `ImagesGoBackOnce` | `Spec => []ImagesReturnedOnce` |
| `AppStreamMgrResults_proofs` | `AppTypeCorrect` | `Spec => []AppTypeOK` |
| | `ErrorsReportedAreReal` | `Spec => []ErrorsAreReal`, if `OneAtATime` |
| | `AllMetadataReturned` | `Spec => []SettledFrameHasItsMetadata`, if `OneAtATime` and `IdsInOrder` |
| | `FinalsReturnedInOrder` | `Spec => []FinalsInOrder`, if these two and `OneUserEach` |

### The frame

`PipelineFrame_proofs` assumes `FrameAssumption`: finitely many nodes and
streams, the sets have their types, no node has two edges that lead to it.

`NeverReturnedEarly` and `HeldStaysInMap` rest on `Inductive`: `Spec => []IInv`, with

    IInv == TypeOK /\ WorkInv /\ ReleaseInv /\ OwnerInv

Neither property is inductive by itself. That a returned buffer was released by all
is decided many steps before, when `Visit` finds `AllUsersReleased`; so `ReleaseInv`
says it of every stream that left its item map, and `OwnerInv` follows a buffer from
there: it is in the collector, with one thread, or returned, in at most one of them
and only if its item is gone. That a node which holds a buffer is not among those that
released it needs `WorkInv`: a stream of a node is to be asked for, held, to be marked
without a buffer, or done with, and in the first two cases the node has not released it. From these, a held buffer has a user that has not
released it, so its item is in place. Each part has an `Init` lemma and a `Next`
lemma with one step per action; lemmas like `AskWork` and `ReleasedGrows` carry what
several actions share. `IInv` was model-checked on the instance of `fork` before it was proved.

`NoUseBeforePriorUsers` needs only that statuses never shrink. No run checks it: the
order in which frames are dispatched protects it a second time, so that breaking one
definition of the model does not break it on a tree.

`NoEmptySlotMet` is the counterpart of the run `null_item`. A node that marks a stream
it got no buffer of is not protected by holding it, so it must be protected by order.
`NullMarkersApart` asks that such a node applies once, when it is through, and that each
node it shares a stream with is ahead of it or behind it. `OrderInv` says
that a node has the frame only when the one ahead of it is dispatching, and so is through;
`PriorThrough` carries this to all nodes ahead, with the set of those that are through as
the closed set in the definition of `Prior`. Then a stream this node will mark has a
user that has not released it, the node itself, and its item is in place (`NullInv`).

`PipelineFrameBooks_proofs` goes on from there with `BooksInv`, about the books.
`AnnounceInv` ties the announcement of the frame to the nodes: the message
FRAME_RELEASED is in at most one thread's hands or told, and only when no node is
*unsettled*; `CountInv` says that `mInFlightNodeCount` counts the unsettled nodes, `IOInv`
what is left of the IO sets and which of them have been announced. `HalInv` and
`BatchInv` say of each acquired Hal buffer whose item is gone that it is in the collector,
with a thread that has drained it, or returned; with `OwnerInv`, in one of these only.
`ItemInv`, `ProducersInv`, `MetaInv` and `LeftCountersExact` do the same for the item
maps and the metadata. The difficult step is always `Visit` or `SettleNode`, where several
of these change at once. That a released frame is empty needs one more part: an item
that is left is still in an IO set of some node (`SlotInv`), which is true at the start
only if every stream has a user. `FrameKeepsContract` then goes action by action: most
steps of the code are stutters of `FrameContract`, and the four that are not find the
guard of the contract's action in the invariant, many steps after it was decided.

### The context

`IInv` of `PipelineContext_proofs` has a part for each way in which a frame can be on
its way. `OnceInv` says of a node and a frame that the frame is at most at one stage:
not there yet, to be handed over, in the queue, or given. That flush recursions of
several threads do not meet needs that the nodes on a thread's way back are its own.
`PathInv` says that there *are* disjoint sets of nodes, one for each thread, closed under
`Parent` up to the node where the thread began; each step says how to choose the sets
after it, and no recursive definition of a path is needed. `ThreadInv`, `CallerInv`,
`RegisteredInv`, `ListInv` and `WaitInv` tie the hands of a thread, its label, the lists
and the waits together; `ContextKeepsContract` follows from `ListInv` and `WaitInv`.

`FlushQuiets` rests on `FlushInv`: while the two flags are set nothing new enters a queue
and no node thread begins, so a node that was flushed stays quiet while the others are.
It assumes `OneFlusher`: two threads that flush the context reset each other's flags. The
users of the context flush it from one thread.

### The pool

All three theorems rest on `PoolInv`. `EachBufferInOnePlace` counts, and its inductive
form `PlaceInv` does not: a buffer is in use if and only if somebody has it, no two have the
same, and the available ones, those in use and the one that is built and not yet pushed
are all there are in the storage. That a new buffer gets an index nobody has needs
`CountInv` (stored and still to be allocated make the maximum, with one counted twice
between the two halves of the thread's loop) and `BuildInv`: a caller builds only while
the thread of the pool does not run, because the thread is started before anybody
acquires. `RemoveFirstRight` says what the search for the condition variable in the
waiting list leaves of a list without repetitions.

### The users

`IInv` of `UsersManager_proofs` has six parts. That the counts are right is about
positions: `indexOfKey` is one-to-one on the users of a map, so as many bits are set in
a union of bit sets as users have one of the statuses (`BitsInv`: a bit for each of these
and for nobody else), and a part of a finite map that is as large as the map is the map.
`AllReleasedRight` and `StatusRight` follow, and a reset, which the code decides by
counting, happens only when every user has released.

That the fences cover what they have to needs to know what `DFS` finds. The function is
recursive over an acyclic graph and there is no induction to cite for that, so the proof
makes one: `Reach`, the least set with a user that no edge leads into, satisfies the
equation that `DFS` is defined by, and it shrinks strictly along the edges; in a finite
set of users each non-empty part has one that nobody ahead of it is in (`FirstOf`, from
the well-foundedness of the strict subset), so two solutions of the equation differ
nowhere. `PlaceInv` ties what a node has marked to where it is, and `AheadInv` says of each
node that has got the buffer that those ahead of it are done with it, and that the node
has waited for what they still do. `ErrorAsMarked` is inductive with `PlaceInv`.
`ContentIsProduced` is inductive with both: when a node passes the check there is no ERROR,
so no producer ahead of it, all of them done by `AheadInv`, has failed or released the
buffer unused by a mark that the stream buffer saw (`InvCheckStatus`); while it works they
can do no more to it, unless they released early. `JudgementKept` needs `AheadInv` for the
same reason.

### The callbacks

`ImagesGoBackOnce` rests on three parts: `ShapeInv` (types, as far as the argument uses
them), `CallbackInv` (the callbacks still to be made have images of their request,
none of them told, none in two callbacks) and `ReturnInv` (the frame handler's
*returned* is *told* or *on the way*, for a frame in the queue, and all of it for a frame
that has left). The lemma `InvVisit` carries what `ErrorFrame` and `ReturnFrame` share.

`AppStreamMgrResults_proofs` is about what arrives and what is said of it. It goes in
four stages, each with more conditions than the one before.

*Without conditions* (`ResultsInductive`): metadata go from a call of `updateResult` to
the queue, to the thread, to the frame handler, and are in one of these places only
(`JourneyInv`); a node calls once. Numbers fit below `AtMost` since those given so
far are as many as the metadata that arrived.

*If a frame goes along its graph one node at a time* (`OneAtATime`, `ChainInductive`):
at most one call for a frame is pending and all nodes ahead of its node are
through, so the result that is the last comes in last (`LastInv`), and what `StateInv` says
of the states of the images and the metadata is true at the time a verdict is passed.
`ErrorInv` follows: a request fails as a whole or not at all. On the forked graph of
`lost_metadata`, with two pipelines and metadata of face detection that may be in
error, TLC finds `ErrorsAreReal` violated (item 8 of section 3).

*If the stream ids ascend along the graph as well* (`IdsInOrder`; the frame handler
takes the largest id for the last): the metadata of a frame come in ascending
(`OrderInv`), each in one parcel with one number (`LocatedInv`, `NumberInv`,
`OneParcelInv`), the last with the highest. The numbers told are then those
from one to the number of metadata: `Ranks` and `NumbersCountOn` say that a finite set
ranked by its order has ranks without a gap. `BooksInv`, `ToldInv` and `AnswerInv` follow the
metadata through the callbacks to a frame that has left. With branches, `lost_metadata`
violates the property; with the ids of P2 and Jpeg exchanged, TLC finds it violated on the
graph of `app`.

*If no node reads a metadata that goes to the application* (`OneUserEach`), the final
metadata keep the order of the requests: frames are registered in their order
(`RegistrationInv`), visited in that order, with a list of the frames that hold others up
(`VisitInv`, `MetaListInv`), and a final one is handed out after those of the frames
before it (`FinalInv`). A metadata with a second user keeps its item after it has been
returned, until that user is through; `isReturnable` then takes its frame for one that holds
nobody up, and TLC violates `FinalsInOrder` once P2 reads the metadata of P1 and Jpeg
those of P2, although "the final meta result to return must keep the order submitted"
(`AppStreamMgr.FrameHandler.cpp:590`). The pipelines of `middleware/v3/pipeline` make
no node read such a stream: they collect the `mpAppMeta_Dynamic...` streams with `addOut`
only (`PipelineModel_Default.cpp:3167`, 3175, 3184, 3198; `PipelineModel_Hdr.cpp:3099`,
3108, 3117, 3131). `OneAtATime` and
`IdsInOrder` are there for the invariants this proof uses, and the theorem may be true
without them: TLC finds no violation of `FinalsInOrder` on the forked graph, with one
pipeline or two and any metadata in error, nor on a graph with ids in another order.

The module's counts are the reason why `AppAssumption` says that `Meta` is finite; that
`"request"` and `"result"` are no images keeps two kinds of entries of one set of errors
apart.

### What is not proved

Liveness under fairness is out of reach of the prover and is checked by TLC only:
`FrameEventuallyReleased`, `HalBuffersEventuallyReturned`, `CommittedAcquireReturns`,
`CommitAllocatesAll`, `EveryCallReturns`, `EveryFrameSettles`, `FlushReturns`. So is
what rests on `ENABLED`, the absence of deadlock. The contracts are proved as
refinements for what they say of safety, which is all they say.

What is violated by the code is not proved either: of the properties of the six runs that
expect a violation, `NoEmptySlotUsed` and `SettledFrameHasItsMetadata` are proved under the
conditions above, and the others are not. `EveryFrameSettles` is checked on
chains and violated on the fork.

## 5. Not modelled

- `applyPreRelease` of the frame: the only caller is compiled out
  (`JpegNode.cpp:88`). `UsersManager` does model the status PRE_RELEASE.
- RELEASE_STILLUSE: no code marks it.
- A provider that is gone when a buffer is acquired, and more than 32 users.
- A user graph with a cycle, and a node with two edges that lead to it: assumed not to
  occur (`UsersAssumption`, `FrameAssumption`, `ContextAssumption`), since user graphs
  are built along the order of the pipeline, and the pipelines configured are trees.
- In `UsersManager`, an acquisition that fails: it is an action of `PipelineFrame`.
- The report (`AEE_ASSERT`) of `AppStreamMgr.FrameHandler.cpp:601-606`, made when the final
  metadata of a frame are looked at while an earlier frame has none at all, as when
  a frame of a new pipeline overtakes one of the old. It is logged and the code goes on;
  `MetaReturnable` has only that the metadata may not be returned yet.
- Configuration of a frame, of the context and of the pipeline, logging, dumps,
  profiling, listeners that are attached late, and what the nodes compute.
- The queues of P1 and P2, which are tied to their drivers. `PipelineContext` models those
  of Jpeg and RAW16; what P1 shares with them is its queue, and that its `flush()` does
  not wait for its thread.
- The graph code of `PipelineDAG`: its results (the order of the nodes, the nodes and edges
  of a frame) are the constants of the other modules, with what they rely on as assumptions.
- Of the application stream manager: `configureStreams`, `createRequest` with its checks,
  PRE_RELEASE of an image (compiled out), `destroy`, fences, a frame without output
  metadata, and a request that the pipeline refuses after it was registered
  (`Cam3DeviceImp.cpp:574`, a hazard with a note). That a pipeline is replaced
  (`PipelineModelMgr`) is modelled by what it means for frames: two pipelines at work.
- The feature pipe, the drivers, 3A, the legacy tree, and all that is not the camera:
  `PROJECT.json` gives the reason for each.

## 6. Plan

Done: `FrameContract`, `PipelineFrame`, `StreamBufferPool`, `UsersManager`,
`DrainContract`, `PipelineContext`, `AppStreamMgr`; the proofs of every safety invariant of
their runs, and of the refinements of the frame and of the context.
Next, in this order:

1. `FinalsReturnedInOrder` without `OneAtATime` and `IdsInOrder`: an invariant of a frame
   whose last result comes in early, in place of `LastInv`.
2. `FlushQuiets` without its condition, or with the weakest one: which overlaps of two
   flushes leave the quiet intact.
3. Frame and pool composed, for the wait for a buffer with `mItemMapLock` held.
4. `PipelineDAG`: sort and `reserve` against reference definitions on all small graphs.
5. The node threads and wait queues of the feature pipe.
