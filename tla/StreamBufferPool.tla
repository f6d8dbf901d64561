-------------------------- MODULE StreamBufferPool --------------------------
(***************************************************************************)
(* The pool of Hal image stream buffers: StreamBufferPoolImp, which stores *)
(* the buffers, on top of StreamBufferPoolImpl, which lends them by their  *)
(* index and, once committed, allocates the rest in a thread of its own.   *)
(*                                                                         *)
(* Each of the two classes has a mutex called mLock; here they are storage *)
(* (StreamBufferPoolImp) and lock (StreamBufferPoolImpl).  A part of a     *)
(* call that runs under one mutex from end to end is one step; a part that *)
(* takes the other mutex meanwhile keeps the first across steps.           *)
(***************************************************************************)
EXTENDS Integers, Sequences, SequencesExt, FiniteSets

CONSTANTS
    Caller,         \* the threads that acquire and release buffers
    MaxBuf,         \* maxNumberOfBuffers
    Initial,        \* minNumberOfInitialCommittedBuffers
    nobody          \* no thread

ASSUME PoolAssumption ==
    /\ MaxBuf \in Nat \ {0} /\ Initial \in 0..MaxBuf
    /\ nobody \notin Caller

VARIABLES
    lock,           \* the caller that keeps StreamBufferPoolImpl::mLock
    storage,        \* the caller that keeps StreamBufferPoolImp::mLock
    stored,         \* mStorage.size()
    mlAvailableBuf, \* the indices of the buffers to lend
    mlInUseBuf,     \* the indices of the buffers lent
    muToAllocCnt,
    mWaitingList,   \* the callers that wait, in order
    signalled,      \* those whose condition was signalled
    expired,        \* those whose time is up
    worker,         \* where the thread of the pool is
    built,          \* the index of the buffer the worker has built
    exitPending,    \* the thread of the pool is to exit
    owner,          \* what the owner of the pool is doing with it
    committed,      \* commitPool was called
    pc,             \* where each caller is
    hand            \* hand[c]: the indices of the buffers c has

locks == <<lock, storage>>
lists == <<mlAvailableBuf, mlInUseBuf>>
waiters == <<mWaitingList, signalled, expired>>
thread == <<worker, built, exitPending>>
desk == <<owner, committed>>
vars == <<locks, stored, lists, muToAllocCnt, waiters, thread, owner,
          committed, pc, hand>>

\* initPool has built the initial buffers.
Init ==
    /\ lock = nobody /\ storage = nobody
    /\ stored = Initial
    /\ mlAvailableBuf = 0..(Initial - 1)
    /\ mlInUseBuf = {}
    /\ muToAllocCnt = MaxBuf - Initial
    /\ mWaitingList = <<>> /\ signalled = {} /\ expired = {}
    /\ worker = "stopped"
    /\ built = 0
    /\ exitPending = FALSE
    /\ owner = "new"
    /\ committed = FALSE
    /\ pc = [c \in Caller |-> "idle"]
    /\ hand = [c \in Caller |-> {}]

isRunning == worker # "stopped"

-----------------------------------------------------------------------------
(* The owner commits the pool, if it does at all, before it hands it out.  *)

CommitPool ==
    /\ owner = "new"
    /\ worker' = IF muToAllocCnt > 0 THEN "construct" ELSE worker
    /\ owner' = "idle" /\ committed' = TRUE
    /\ UNCHANGED <<locks, stored, lists, muToAllocCnt, waiters, built,
                   exitPending, pc, hand>>

LeaveUncommitted ==
    /\ owner = "new"
    /\ owner' = "idle"
    /\ UNCHANGED <<locks, stored, lists, muToAllocCnt, waiters, thread,
                   committed, pc, hand>>

-----------------------------------------------------------------------------
(* acquireFromPool.                                                        *)

Goto(c, place) == pc' = [pc EXCEPT ![c] = place]

\* Frames reach the pool through a weak pointer to the stream configuration that
\* owns it, which none of them gets once the owner is being destroyed.
Acquire(c) ==
    /\ pc[c] = "idle" /\ owner = "idle"
    /\ Goto(c, "acquire")
    /\ UNCHANGED <<locks, stored, lists, muToAllocCnt, waiters, thread, desk, hand>>

\* Mutant: the buffer stays in the list of the available ones.
Lend_Keeps(c, i) ==
    /\ mlInUseBuf' = mlInUseBuf \cup {i}
    /\ hand' = [hand EXCEPT ![c] = @ \cup {i}]
    /\ Goto(c, "locate")
    /\ UNCHANGED mlAvailableBuf

Lend(c, i) ==
    /\ mlAvailableBuf' = mlAvailableBuf \ {i}
    /\ mlInUseBuf' = mlInUseBuf \cup {i}
    /\ hand' = [hand EXCEPT ![c] = @ \cup {i}]
    /\ Goto(c, "locate")

\* acquireFromPoolImpl: a buffer is available.
TakeAvailable(c) ==
    /\ pc[c] = "acquire" /\ lock = nobody
    /\ \E i \in mlAvailableBuf : Lend(c, i)
    /\ UNCHANGED <<locks, stored, muToAllocCnt, waiters, thread, desk>>

\* acquireFromPoolImpl: none is, and the thread of the pool will build none:
\* the caller builds one itself, under the lock.
StartConstruct(c) ==
    /\ pc[c] = "acquire" /\ lock = nobody
    /\ mlAvailableBuf = {} /\ ~isRunning /\ muToAllocCnt > 0
    /\ lock' = c
    /\ Goto(c, "construct")
    /\ UNCHANGED <<storage, stored, lists, muToAllocCnt, waiters, thread, desk, hand>>

\* do_construct stores the new buffer, for which it takes the other lock.
Construct(c) ==
    /\ pc[c] = "construct" /\ storage = nobody
    /\ stored' = stored + 1
    /\ muToAllocCnt' = muToAllocCnt - 1
    /\ Lend(c, stored)
    /\ lock' = nobody
    /\ UNCHANGED <<storage, waiters, thread, desk>>

\* The allocator fails.
ConstructFails(c) ==
    /\ pc[c] = "construct"
    /\ lock' = nobody
    /\ Goto(c, "idle")
    /\ UNCHANGED <<storage, stored, lists, muToAllocCnt, waiters, thread, desk, hand>>

\* acquireFromPoolImpl: otherwise the caller waits, with the lock released.
Wait(c) ==
    /\ pc[c] = "acquire" /\ lock = nobody
    /\ mlAvailableBuf = {} /\ (isRunning \/ muToAllocCnt = 0)
    /\ mWaitingList' = Append(mWaitingList, c)
    /\ Goto(c, "wait")
    /\ UNCHANGED <<locks, stored, lists, muToAllocCnt, signalled, expired,
                   thread, desk, hand>>

Expire(c) ==
    /\ pc[c] = "wait" /\ c \notin expired
    /\ expired' = expired \cup {c}
    /\ UNCHANGED <<locks, stored, lists, muToAllocCnt, mWaitingList, signalled,
                   thread, desk, pc, hand>>

\* Mutant: the condition of the caller stays in the waiting list.
StopWaiting_Keeps(c) ==
    /\ signalled' = signalled \ {c}
    /\ expired' = expired \ {c}
    /\ UNCHANGED mWaitingList

StopWaiting(c) ==
    /\ mWaitingList' = RemoveFirst(mWaitingList, c)
    /\ signalled' = signalled \ {c}
    /\ expired' = expired \ {c}

\* Signalled or out of time, the caller takes a buffer if there is one now.
Wake(c) ==
    /\ pc[c] = "wait" /\ c \in signalled \cup expired /\ lock = nobody
    /\ StopWaiting(c)
    /\ IF mlAvailableBuf # {}
       THEN \E i \in mlAvailableBuf : Lend(c, i)
       ELSE Goto(c, "idle") /\ UNCHANGED <<lists, hand>>
    /\ UNCHANGED <<locks, stored, muToAllocCnt, thread, desk>>

\* get_itemLocation.
Locate(c) ==
    /\ pc[c] = "locate" /\ storage = nobody
    /\ Goto(c, "idle")
    /\ UNCHANGED <<locks, stored, lists, muToAllocCnt, waiters, thread, desk, hand>>

-----------------------------------------------------------------------------
(* releaseToPool.  It keeps the lock of the storage until it returns.      *)

\* signalUserLocked.
SignalUser ==
    signalled' = IF mWaitingList = <<>> THEN signalled
                 ELSE signalled \cup {Head(mWaitingList)}

FindBuffer(c) ==
    /\ pc[c] = "idle" /\ hand[c] # {} /\ storage = nobody
    /\ storage' = c
    /\ Goto(c, "release")
    /\ UNCHANGED <<lock, stored, lists, muToAllocCnt, waiters, thread, desk, hand>>

\* releaseToPoolImpl; a buffer that is not in use is refused.
Release(c) ==
    /\ pc[c] = "release" /\ lock = nobody
    /\ \E i \in hand[c] :
        /\ hand' = [hand EXCEPT ![c] = @ \ {i}]
        /\ IF i \in mlInUseBuf
           THEN /\ mlAvailableBuf' = mlAvailableBuf \cup {i}
                /\ mlInUseBuf' = mlInUseBuf \ {i}
                /\ SignalUser
           ELSE UNCHANGED <<lists, signalled>>
    /\ storage' = nobody
    /\ Goto(c, "idle")
    /\ UNCHANGED <<lock, stored, muToAllocCnt, mWaitingList, expired, thread, desk>>

-----------------------------------------------------------------------------
(* threadLoop, which builds the remaining buffers one by one.  When the    *)
(* allocator fails it starts over.                                         *)

\* Mutant: the thread builds under the lock of the lists, as a caller does.
WorkerConstruct_Locked ==
    /\ worker = "construct"
    /\ \/ /\ lock = nobody
          /\ lock' = "worker"
          /\ UNCHANGED <<storage, stored, worker, built>>
       \/ /\ lock = "worker" /\ storage = nobody
          /\ lock' = nobody
          /\ built' = stored
          /\ stored' = stored + 1
          /\ worker' = "push"
          /\ UNCHANGED storage
    /\ UNCHANGED <<lists, muToAllocCnt, waiters, exitPending, desk, pc, hand>>

WorkerConstruct ==
    /\ worker = "construct" /\ storage = nobody
    /\ built' = stored
    /\ stored' = stored + 1
    /\ worker' = "push"
    /\ UNCHANGED <<locks, lists, muToAllocCnt, waiters, exitPending, desk, pc, hand>>

\* Mutants: the count is tested before it is decremented, and one too early.
Remaining_PostDecrement == muToAllocCnt > 0
Remaining_OffByOne == muToAllocCnt > 2
Remaining == muToAllocCnt > 1

WorkerPush ==
    /\ worker = "push" /\ lock = nobody
    /\ mlAvailableBuf' = mlAvailableBuf \cup {built}
    /\ muToAllocCnt' = muToAllocCnt - 1
    /\ SignalUser
    /\ worker' = IF Remaining /\ ~exitPending THEN "construct" ELSE "stopped"
    /\ UNCHANGED <<locks, stored, mlInUseBuf, mWaitingList, expired, built,
                   exitPending, desk, pc, hand>>

-----------------------------------------------------------------------------
(* uninitPool stops the thread, waits for it and empties the lists.  The    *)
(* owner calls it when it is destroyed, which no acquireFromPool that went  *)
(* through it outlives; buffers may still be lent.                          *)

RequestExit ==
    /\ owner = "idle"
    /\ \A c \in Caller : pc[c] \in {"idle", "release"}
    /\ exitPending' = TRUE
    /\ owner' = "join"
    /\ UNCHANGED <<locks, stored, lists, muToAllocCnt, waiters, worker, built,
                   committed, pc, hand>>

Clear ==
    /\ owner = "join" /\ ~isRunning /\ lock = nobody
    /\ mlAvailableBuf' = {} /\ mlInUseBuf' = {}
    /\ muToAllocCnt' = 0
    /\ owner' = "done"
    /\ UNCHANGED <<locks, stored, waiters, thread, committed, pc, hand>>

-----------------------------------------------------------------------------
\* What a caller that is inside acquireFromPool does next.
Proceed(c) ==
    \/ TakeAvailable(c) \/ StartConstruct(c) \/ Construct(c)
    \/ Wait(c) \/ Expire(c) \/ Wake(c) \/ Locate(c)

Work == WorkerConstruct \/ WorkerPush

Next ==
    \/ \E c \in Caller :
        \/ Acquire(c) \/ Proceed(c) \/ ConstructFails(c)
        \/ FindBuffer(c) \/ Release(c)
    \/ Work \/ CommitPool \/ LeaveUncommitted \/ RequestExit \/ Clear

Spec == Init /\ [][Next]_vars

\* Nobody is refused a mutex for good while others get it again and again, and
\* the time of a waiting caller runs out.  Nobody has to acquire or release.
FairSpec ==
    /\ Spec
    /\ SF_vars(Work)
    /\ \A c \in Caller : SF_vars(Proceed(c)) /\ SF_vars(Release(c))
-----------------------------------------------------------------------------
(* Properties.                                                             *)

Index == 0..(MaxBuf - 1)

\* The variables have the types of the members of StreamBufferPoolImpl.h: every
\* index is one of a buffer in the storage, and muToAllocCnt is unsigned.
PoolTypeOK ==
    /\ lock \in Caller \cup {nobody} /\ storage \in Caller \cup {nobody}
    /\ stored \in 0..MaxBuf
    /\ mlAvailableBuf \subseteq Index /\ mlInUseBuf \subseteq Index
    /\ muToAllocCnt \in 0..MaxBuf
    /\ mWaitingList \in Seq(Caller)
    /\ signalled \subseteq Caller /\ expired \subseteq Caller
    /\ worker \in {"construct", "push", "stopped"}
    /\ built \in Index
    /\ exitPending \in BOOLEAN
    /\ owner \in {"new", "idle", "join", "done"}
    /\ committed \in BOOLEAN
    /\ pc \in [Caller -> {"idle", "acquire", "construct", "wait", "locate", "release"}]
    /\ hand \in [Caller -> SUBSET Index]

\* Until the pool is emptied, each stored buffer is available, or lent to exactly
\* one caller, or about to be pushed by the thread of the pool: acquireFromPool
\* and releaseToPool neither lose a buffer nor lend it to two callers.
EachBufferInOnePlace ==
    owner # "done" =>
        \A i \in 0..(stored - 1) :
            LET available == IF i \in mlAvailableBuf THEN 1 ELSE 0
                pushed == IF worker = "push" /\ i = built THEN 1 ELSE 0
                lent == Cardinality({c \in Caller : i \in hand[c]})
            IN  /\ available + pushed + lent = 1
                /\ lent = 1 <=> i \in mlInUseBuf

\* The waiting list, whose head releaseToPool and threadLoop signal, holds the
\* condition variables of those that wait, each once: it never points to the
\* stack of a call that has returned.
WaitingListIsLive ==
    /\ ToSet(mWaitingList) = {c \in Caller : pc[c] = "wait"}
    /\ IsInjective(mWaitingList)

\* acquireFromPool returns, with a buffer or without one (IStreamBufferPool.h:
\* it blocks "until a buffer is acquired, the timeout expires, or an error
\* occurs"): the mutexes of the pool do not make its callers wait for each other.
AcquireReturns == \A c \in Caller : pc[c] = "acquire" ~> pc[c] = "idle"

\* So it does from a pool that is committed.
CommittedAcquireReturns ==
    \A c \in Caller : committed /\ pc[c] = "acquire" ~> pc[c] = "idle"

\* commitPool "will enforce to allocate buffers up to the max. count"
\* (IStreamBufferPool.h), unless uninitPool stops it.
CommitAllocatesAll == committed ~> (stored = MaxBuf \/ exitPending)
=============================================================================
