----------------------- MODULE StreamBufferPool_proofs -----------------------
(***************************************************************************)
(* Proofs about the buffer pool, for any number of buffers and of threads  *)
(* that acquire and release them, committed or not.                        *)
(***************************************************************************)
EXTENDS StreamBufferPool, FiniteSetTheorems, TLAPS

-----------------------------------------------------------------------------
(* The waiting list.                                                       *)

\* RemoveFirst takes an element out of a list that has it once.
LEMMA RemoveFirstRight ==
    ASSUME NEW S, NEW s \in Seq(S), IsInjective(s), NEW e \in ToSet(s)
    PROVE  /\ RemoveFirst(s, e) \in Seq(S)
           /\ ToSet(RemoveFirst(s, e)) = ToSet(s) \ {e}
           /\ IsInjective(RemoveFirst(s, e))
<1>1. PICK k \in 1..Len(s) : s[k] = e
  BY DEF ToSet
<1>2. {i \in 1..Len(s) : s[i] = e} = {k}
  BY <1>1 DEF IsInjective
<1>3. Min({k}) = k
  BY <1>1 DEF Min
<1>4. SelectInSeq(s, LAMBDA v : v = e) = k
  BY <1>2, <1>3 DEF SelectInSeq
<1>5. RemoveFirst(s, e) = SubSeq(s, 1, k - 1) \o SubSeq(s, k + 1, Len(s))
  BY <1>1, <1>4 DEF RemoveFirst, RemoveAt
<1> DEFINE r == [i \in 1..(Len(s) - 1) |-> IF i < k THEN s[i] ELSE s[i + 1]]
<1>6. RemoveFirst(s, e) = r
  <2>1. /\ SubSeq(s, 1, k - 1) \in Seq(S) /\ Len(SubSeq(s, 1, k - 1)) = k - 1
        /\ \A i \in 1..(k - 1) : SubSeq(s, 1, k - 1)[i] = s[i]
    OBVIOUS
  <2>2. /\ SubSeq(s, k + 1, Len(s)) \in Seq(S)
        /\ Len(SubSeq(s, k + 1, Len(s))) = Len(s) - k
        /\ \A i \in 1..(Len(s) - k) : SubSeq(s, k + 1, Len(s))[i] = s[k + i]
    OBVIOUS
  <2> DEFINE a == SubSeq(s, 1, k - 1)
             b == SubSeq(s, k + 1, Len(s))
  <2> HIDE DEF a, b
  <2>3. /\ a \in Seq(S) /\ Len(a) = k - 1
        /\ \A i \in 1..(k - 1) : a[i] = s[i]
        /\ b \in Seq(S) /\ Len(b) = Len(s) - k
        /\ \A i \in 1..(Len(s) - k) : b[i] = s[k + i]
    BY <2>1, <2>2 DEF a, b
  <2>4. /\ a \o b \in Seq(S) /\ Len(a \o b) = Len(s) - 1
        /\ \A i \in 1..(Len(s) - 1) : (a \o b)[i] = IF i < k THEN s[i] ELSE s[i + 1]
    BY <2>3
  <2>5. a \o b = r
    <3>1. PICK t : t = a \o b
      OBVIOUS
    <3>2. DOMAIN t = 1..(Len(s) - 1) /\ t \in Seq(S)
      BY <2>4, <3>1
    <3>3. t = [i \in DOMAIN t |-> t[i]]
      BY <3>2
    <3>4. \A i \in 1..(Len(s) - 1) : t[i] = IF i < k THEN s[i] ELSE s[i + 1]
      BY <2>4, <3>1
    <3>5. t = r
      BY <3>2, <3>3, <3>4
    <3>6. QED
      BY <3>1, <3>5
  <2>6. QED
    BY <1>5, <2>5 DEF a, b
<1>7. r \in Seq(S) /\ DOMAIN r = 1..(Len(s) - 1)
  <2>1. \A i \in 1..(Len(s) - 1) : r[i] \in S
    OBVIOUS
  <2>2. QED
    BY <2>1
<1>8. ToSet(r) = ToSet(s) \ {e}
  <2>1. ASSUME NEW x \in ToSet(s), x # e PROVE x \in ToSet(r)
    <3>1. PICK i \in 1..Len(s) : s[i] = x
      BY <2>1 DEF ToSet
    <3>2. i # k
      BY <1>1, <2>1, <3>1
    <3>3. CASE i < k
      <4>1. i \in 1..(Len(s) - 1) /\ r[i] = x
        BY <3>1, <3>3
      <4>2. QED
        BY <1>7, <4>1 DEF ToSet
    <3>4. CASE i > k
      <4>1. i - 1 \in 1..(Len(s) - 1) /\ r[i - 1] = x
        BY <3>1, <3>4
      <4>2. QED
        BY <1>7, <4>1 DEF ToSet
    <3>5. QED
      BY <3>2, <3>3, <3>4
  <2>2. ASSUME NEW x \in ToSet(r) PROVE x \in ToSet(s) /\ x # e
    <3>1. PICK i \in 1..(Len(s) - 1) : r[i] = x
      BY <1>7, <2>2 DEF ToSet
    <3>2. PICK j \in 1..Len(s) : s[j] = x /\ j # k
      BY <3>1
    <3>3. QED
      BY <1>1, <3>2 DEF ToSet, IsInjective
  <2>3. QED
    BY <2>1, <2>2
<1>9. IsInjective(r)
  BY <1>7 DEF IsInjective
<1>10. QED
  BY <1>6, <1>7, <1>8, <1>9

-----------------------------------------------------------------------------
(* The inductive invariant.                                                *)

\* A caller that builds a buffer keeps the lock of the lists, there is still one to
\* build, and the thread of the pool does not run: that runs only once the pool was
\* committed, which nobody acquires from before that is decided.
BuildInv ==
    /\ \A c \in Caller : pc[c] = "construct" =>
            lock = c /\ worker = "stopped" /\ muToAllocCnt > 0
    /\ owner # "idle" => \A c \in Caller : pc[c] \in {"idle", "release"}
    /\ owner \in {"new", "done"} => worker = "stopped"
    /\ worker = "construct" => muToAllocCnt > 0

\* The buffers in the storage and those to be allocated make MaxBuf; one that is
\* built and not yet pushed is counted on both sides.
CountInv ==
    owner # "done" => stored + muToAllocCnt = MaxBuf + (IF worker = "push" THEN 1 ELSE 0)

\* Where each stored buffer is.
PlaceInv ==
    owner # "done" =>
        /\ \A i : i \in mlInUseBuf <=> \E c \in Caller : i \in hand[c]
        /\ \A c, d \in Caller : c # d => hand[c] \cap hand[d] = {}
        /\ mlAvailableBuf \cap mlInUseBuf = {}
        /\ worker = "push" => built \notin mlAvailableBuf \cup mlInUseBuf
        /\ mlAvailableBuf \cup mlInUseBuf \cup (IF worker = "push" THEN {built} ELSE {})
                = 0..(stored - 1)

PoolInv == PoolTypeOK /\ BuildInv /\ CountInv /\ PlaceInv /\ WaitingListIsLive

LEMMA PoolInit == Init => PoolInv
<1> SUFFICES ASSUME Init PROVE PoolInv
  OBVIOUS
<1>1. PoolTypeOK
  <2>1. /\ MaxBuf \in Nat \ {0} /\ Initial \in 0..MaxBuf /\ 0 \in Index
        /\ 0..(Initial - 1) \subseteq Index
    BY PoolAssumption DEF Index
  <2>2. mWaitingList \in Seq(Caller)
    BY DEF Init
  <2>3. stored \in 0..MaxBuf /\ muToAllocCnt \in 0..MaxBuf
    BY <2>1 DEF Init
  <2>4. pc \in [Caller -> {"idle", "acquire", "construct", "wait", "locate", "release"}]
        /\ hand \in [Caller -> SUBSET Index]
    BY DEF Init
  <2>5. QED
    BY <2>1, <2>2, <2>3, <2>4 DEF Init, PoolTypeOK
<1>2. BuildInv /\ CountInv
  BY PoolAssumption DEF Init, BuildInv, CountInv
<1>3. PlaceInv
  BY PoolAssumption DEF Init, PlaceInv
<1>4. WaitingListIsLive
  BY DEF Init, WaitingListIsLive, ToSet, IsInjective
<1>5. QED
  BY <1>1, <1>2, <1>3, <1>4 DEF PoolInv

-----------------------------------------------------------------------------
(* The steps.                                                              *)

\* The steps that move no buffer.
LEMMA QuietSteps ==
    ASSUME PoolInv,
           \/ \E c \in Caller : \/ Acquire(c) \/ StartConstruct(c) \/ ConstructFails(c)
                              \/ Expire(c) \/ Locate(c) \/ FindBuffer(c)
           \/ CommitPool \/ LeaveUncommitted \/ RequestExit
    PROVE  PoolInv'
<1> USE DEF PoolInv
<1>1. /\ UNCHANGED <<stored, lists, muToAllocCnt, mWaitingList, signalled, built, hand>>
      /\ expired' = expired \/ \E d \in Caller : expired' = expired \cup {d}
  BY DEF Acquire, StartConstruct, ConstructFails, Expire, Locate, FindBuffer,
         CommitPool, LeaveUncommitted, RequestExit, waiters, thread
<1>2. PoolTypeOK'
  <2>1. /\ lock' \in Caller \cup {nobody} /\ storage' \in Caller \cup {nobody}
        /\ pc' \in [Caller -> {"idle", "acquire", "construct", "wait", "locate", "release"}]
    BY DEF PoolTypeOK, Acquire, StartConstruct, ConstructFails, Expire, Locate,
           FindBuffer, CommitPool, LeaveUncommitted, RequestExit, Goto, locks
  <2>2. /\ worker' \in {"construct", "push", "stopped"} /\ exitPending' \in BOOLEAN
        /\ owner' \in {"new", "idle", "join", "done"} /\ committed' \in BOOLEAN
    <3>1. /\ worker' = worker \/ worker' = "construct"
          /\ exitPending' = exitPending \/ exitPending' = TRUE
          /\ owner' = owner \/ owner' \in {"idle", "join"}
          /\ committed' = committed \/ committed' = TRUE
      BY DEF Acquire, StartConstruct, ConstructFails, Expire, Locate,
             FindBuffer, CommitPool, LeaveUncommitted, RequestExit, thread, desk
    <3>2. QED
      BY <3>1 DEF PoolTypeOK
  <2>3. /\ expired' \subseteq Caller /\ signalled' \subseteq Caller
        /\ mWaitingList' \in Seq(Caller)
    BY <1>1 DEF PoolTypeOK
  <2>4. /\ mlAvailableBuf' \subseteq Index /\ mlInUseBuf' \subseteq Index
        /\ hand' \in [Caller -> SUBSET Index] /\ built' \in Index
        /\ stored' \in 0..MaxBuf /\ muToAllocCnt' \in 0..MaxBuf
    BY <1>1 DEF PoolTypeOK, lists, Index
  <2>5. QED
    BY <2>1, <2>2, <2>3, <2>4 DEF PoolTypeOK, Index
<1>3. BuildInv'
  BY <1>1, PoolAssumption DEF PoolTypeOK, BuildInv, Acquire, StartConstruct,
     ConstructFails, Expire, Locate, FindBuffer, CommitPool, LeaveUncommitted,
     RequestExit, Goto, isRunning, lists, locks, thread, desk
<1>4. /\ owner' = "done" <=> owner = "done"
      /\ worker' = "push" <=> worker = "push"
  BY DEF BuildInv, Acquire, StartConstruct, ConstructFails, Expire, Locate, FindBuffer,
         CommitPool, LeaveUncommitted, RequestExit, thread, desk
<1>5. CountInv' /\ PlaceInv'
  BY <1>1, <1>4 DEF CountInv, PlaceInv, lists
<1>6. \A d \in Caller : pc'[d] = "wait" <=> pc[d] = "wait"
  BY DEF PoolTypeOK, Acquire, StartConstruct, ConstructFails, Expire, Locate, FindBuffer,
         CommitPool, LeaveUncommitted, RequestExit, Goto
<1>7. WaitingListIsLive'
  BY <1>1, <1>6 DEF WaitingListIsLive
<1>8. QED
  BY <1>2, <1>3, <1>5, <1>7

\* A caller is lent buffer i, which is available or was built by the caller.
LEMMA LendPlaces ==
    ASSUME PoolTypeOK, PlaceInv, NEW c \in Caller, NEW i \in Index, Lend(c, i),
           owner' = owner, owner # "done", worker' = worker, built' = built,
           \/ i \in mlAvailableBuf /\ stored' = stored
           \/ i = stored /\ stored' = stored + 1 /\ worker = "stopped"
    PROVE  /\ PlaceInv'
           /\ mlAvailableBuf' \subseteq Index /\ mlInUseBuf' \subseteq Index
           /\ hand' \in [Caller -> SUBSET Index]
<1>1. /\ hand'[c] = hand[c] \cup {i}
      /\ \A d \in Caller : d # c => hand'[d] = hand[d]
  BY DEF Lend, PoolTypeOK
<1>2. i \notin mlInUseBuf /\ \A d \in Caller : i \notin hand[d]
  BY DEF PlaceInv, PoolTypeOK, Index
<1>3. \A k : k \in mlInUseBuf' <=> \E d \in Caller : k \in hand'[d]
  BY <1>1 DEF Lend, PlaceInv
<1>4. \A d, e \in Caller : d # e => hand'[d] \cap hand'[e] = {}
  BY <1>1, <1>2 DEF PlaceInv
<1>5. mlAvailableBuf' \cap mlInUseBuf' = {}
  BY DEF Lend, PlaceInv
<1>6. worker = "push" => built \notin mlAvailableBuf' \cup mlInUseBuf'
  BY DEF Lend, PlaceInv
<1>7. mlAvailableBuf' \cup mlInUseBuf' \cup (IF worker = "push" THEN {built} ELSE {})
            = 0..(stored' - 1)
  <2>1. CASE i \in mlAvailableBuf /\ stored' = stored
    BY <2>1 DEF Lend, PlaceInv
  <2>2. CASE i = stored /\ stored' = stored + 1 /\ worker = "stopped"
    <3>1. 0..(stored' - 1) = (0..(stored - 1)) \cup {stored}
      BY <2>2 DEF PoolTypeOK
    <3>2. stored \notin mlAvailableBuf
      BY DEF PlaceInv, PoolTypeOK
    <3>3. QED
      BY <2>2, <3>1, <3>2 DEF Lend, PlaceInv
  <2>3. QED
    BY <2>1, <2>2
<1>8. QED
  BY <1>3, <1>4, <1>5, <1>6, <1>7 DEF PlaceInv, Lend, PoolTypeOK

\* signalUserLocked signals a caller that waits.
LEMMA SignalRight ==
    ASSUME mWaitingList \in Seq(Caller), signalled \subseteq Caller, SignalUser
    PROVE  signalled' \subseteq Caller
<1>1. mWaitingList # <<>> => Head(mWaitingList) \in Caller
  OBVIOUS
<1>2. QED
  BY <1>1 DEF SignalUser

LEMMA LendingSteps ==
    ASSUME PoolInv, NEW c \in Caller, TakeAvailable(c) \/ Construct(c)
    PROVE  PoolInv'
<1> USE DEF PoolInv
<1>1. PICK i \in Index : /\ Lend(c, i)
                         /\ \/ i \in mlAvailableBuf /\ UNCHANGED <<locks, stored, muToAllocCnt>>
                            \/ /\ i = stored /\ stored' = stored + 1 /\ worker = "stopped"
                               /\ muToAllocCnt > 0 /\ muToAllocCnt' = muToAllocCnt - 1
                               /\ lock = c /\ lock' = nobody /\ storage' = storage
  <2>1. CASE TakeAvailable(c)
    BY <2>1 DEF TakeAvailable, PoolTypeOK
  <2>2. CASE Construct(c)
    <3>1. /\ pc[c] = "construct" /\ stored' = stored + 1 /\ Lend(c, stored)
          /\ muToAllocCnt' = muToAllocCnt - 1 /\ lock' = nobody /\ storage' = storage
      BY <2>2 DEF Construct
    <3>2. lock = c /\ worker = "stopped" /\ muToAllocCnt > 0 /\ owner = "idle"
      BY <3>1 DEF BuildInv
    <3>3. stored \in Index
      BY <3>2, PoolAssumption DEF CountInv, PoolTypeOK, Index
    <3>4. QED
      BY <3>1, <3>2, <3>3
  <2>3. QED
    BY <2>1, <2>2
<1>2. /\ UNCHANGED <<waiters, thread, desk>> /\ pc[c] \in {"acquire", "construct"}
      /\ pc' = [pc EXCEPT ![c] = "locate"]
  BY <1>1 DEF TakeAvailable, Construct, Lend, Goto
<1>3. owner = "idle"
  BY <1>2 DEF BuildInv
<1>4. /\ PlaceInv'
      /\ mlAvailableBuf' \subseteq Index /\ mlInUseBuf' \subseteq Index
      /\ hand' \in [Caller -> SUBSET Index]
  BY <1>1, <1>2, <1>3, LendPlaces DEF thread, desk
<1>5. CountInv'
  BY <1>1, <1>2, PoolAssumption DEF CountInv, PoolTypeOK, thread, desk
<1>6. stored' \in 0..MaxBuf /\ muToAllocCnt' \in 0..MaxBuf
  BY <1>1, PoolAssumption DEF PoolTypeOK, Index
<1>7. PoolTypeOK'
  BY <1>1, <1>2, <1>4, <1>6 DEF PoolTypeOK, waiters, thread, desk, locks
<1>8. BuildInv'
  <2>1. ASSUME NEW d \in Caller, pc'[d] = "construct"
        PROVE  lock' = d /\ worker' = "stopped" /\ muToAllocCnt' > 0
    <3>1. d # c /\ pc[d] = "construct"
      BY <1>2, <2>1 DEF PoolTypeOK
    <3>2. lock = d /\ worker = "stopped" /\ muToAllocCnt > 0
      BY <3>1 DEF BuildInv
    <3>3. QED
      BY <1>1, <1>2, <3>1, <3>2 DEF thread, locks
  <2>2. worker' = "construct" => muToAllocCnt' > 0
    BY <1>1, <1>2 DEF BuildInv, thread
  <2>3. QED
    BY <1>2, <1>3, <2>1, <2>2 DEF BuildInv, thread, desk
<1>9. WaitingListIsLive'
  <2>1. \A d \in Caller : pc'[d] = "wait" <=> pc[d] = "wait"
    BY <1>2 DEF PoolTypeOK
  <2>2. QED
    BY <1>2, <2>1 DEF WaitingListIsLive, waiters
<1>10. QED
  BY <1>4, <1>5, <1>7, <1>8, <1>9

LEMMA WaitStep ==
    ASSUME PoolInv, NEW c \in Caller, Wait(c)
    PROVE  PoolInv'
<1> USE DEF PoolInv
<1>1. /\ pc[c] = "acquire" /\ pc' = [pc EXCEPT ![c] = "wait"]
      /\ mWaitingList' = Append(mWaitingList, c)
      /\ UNCHANGED <<locks, stored, lists, muToAllocCnt, signalled, expired, thread, desk, hand>>
  BY DEF Wait, Goto
<1>2. mWaitingList \in Seq(Caller) /\ mWaitingList' \in Seq(Caller)
  BY <1>1 DEF PoolTypeOK
<1>3. PoolTypeOK'
  BY <1>1, <1>2 DEF PoolTypeOK, locks, lists, thread, desk
<1>4. BuildInv' /\ CountInv' /\ PlaceInv'
  BY <1>1 DEF PoolTypeOK, BuildInv, CountInv, PlaceInv, locks, lists, thread, desk
<1>5. WaitingListIsLive'
  <2>1. /\ Len(mWaitingList') = Len(mWaitingList) + 1
        /\ \A i \in 1..Len(mWaitingList) : mWaitingList'[i] = mWaitingList[i]
        /\ mWaitingList'[Len(mWaitingList) + 1] = c
    BY <1>1, <1>2
  <2>2. ToSet(mWaitingList') = ToSet(mWaitingList) \cup {c}
    BY <1>2, <2>1 DEF ToSet
  <2>3. c \notin ToSet(mWaitingList)
    BY <1>1 DEF WaitingListIsLive
  <2>4. IsInjective(mWaitingList')
    BY <1>2, <2>1, <2>3 DEF WaitingListIsLive, ToSet, IsInjective
  <2>5. {d \in Caller : pc'[d] = "wait"} = {d \in Caller : pc[d] = "wait"} \cup {c}
    BY <1>1 DEF PoolTypeOK
  <2>6. QED
    BY <2>2, <2>4, <2>5 DEF WaitingListIsLive
<1>6. QED
  BY <1>3, <1>4, <1>5

LEMMA WakeStep ==
    ASSUME PoolInv, NEW c \in Caller, Wake(c)
    PROVE  PoolInv'
<1> USE DEF PoolInv
<1>1. /\ pc[c] = "wait" /\ mWaitingList' = RemoveFirst(mWaitingList, c)
      /\ signalled' = signalled \ {c} /\ expired' = expired \ {c}
      /\ UNCHANGED <<locks, stored, muToAllocCnt, thread, desk>>
  BY DEF Wake, StopWaiting
<1>2. owner = "idle" /\ owner' = owner
  BY <1>1 DEF BuildInv, desk
<1>3. /\ PlaceInv'
      /\ mlAvailableBuf' \subseteq Index /\ mlInUseBuf' \subseteq Index
      /\ hand' \in [Caller -> SUBSET Index]
      /\ pc' = [pc EXCEPT ![c] = "locate"] \/ pc' = [pc EXCEPT ![c] = "idle"]
  <2>1. ASSUME NEW i \in mlAvailableBuf, Lend(c, i)
        PROVE  /\ PlaceInv'
               /\ mlAvailableBuf' \subseteq Index /\ mlInUseBuf' \subseteq Index
               /\ hand' \in [Caller -> SUBSET Index]
               /\ pc' = [pc EXCEPT ![c] = "locate"]
    <3>1. i \in Index
      BY DEF PoolTypeOK
    <3>2. QED
      BY <1>1, <1>2, <2>1, <3>1, LendPlaces DEF thread, Lend, Goto
  <2>2. CASE Goto(c, "idle") /\ UNCHANGED <<lists, hand>>
    BY <1>1, <1>2, <2>2 DEF PlaceInv, PoolTypeOK, Goto, lists, thread
  <2>3. QED
    BY <2>1, <2>2 DEF Wake
<1>4. /\ mWaitingList \in Seq(Caller) /\ IsInjective(mWaitingList)
      /\ c \in ToSet(mWaitingList)
      /\ ToSet(mWaitingList) = {d \in Caller : pc[d] = "wait"}
  BY <1>1 DEF PoolTypeOK, WaitingListIsLive
<1>5. /\ mWaitingList' \in Seq(Caller) /\ IsInjective(mWaitingList')
      /\ ToSet(mWaitingList') = ToSet(mWaitingList) \ {c}
  BY <1>1, <1>4, RemoveFirstRight
<1>6. /\ \A d \in Caller : d # c => pc'[d] = pc[d]
      /\ pc'[c] \in {"locate", "idle"}
  BY <1>3 DEF PoolTypeOK
<1>7. PoolTypeOK'
  BY <1>1, <1>3, <1>5 DEF PoolTypeOK, locks, thread, desk
<1>8. BuildInv' /\ CountInv'
  BY <1>1, <1>2, <1>6 DEF BuildInv, CountInv, locks, thread, desk
<1>9. WaitingListIsLive'
  BY <1>4, <1>5, <1>6 DEF WaitingListIsLive
<1>10. QED
  BY <1>3, <1>7, <1>8, <1>9

LEMMA ReleaseStep ==
    ASSUME PoolInv, NEW c \in Caller, Release(c)
    PROVE  PoolInv'
<1> USE DEF PoolInv
<1>1. PICK i \in hand[c] :
        /\ hand' = [hand EXCEPT ![c] = @ \ {i}]
        /\ IF i \in mlInUseBuf
           THEN /\ mlAvailableBuf' = mlAvailableBuf \cup {i}
                /\ mlInUseBuf' = mlInUseBuf \ {i}
                /\ SignalUser
           ELSE UNCHANGED <<lists, signalled>>
  BY DEF Release
<1>2. /\ pc[c] = "release" /\ pc' = [pc EXCEPT ![c] = "idle"]
      /\ lock' = lock /\ storage' = nobody
      /\ UNCHANGED <<stored, muToAllocCnt, mWaitingList, expired, thread, desk>>
  BY DEF Release, Goto
<1>3. i \in Index /\ hand' \in [Caller -> SUBSET Index]
  BY <1>1 DEF PoolTypeOK
<1>4. signalled' \subseteq Caller
  BY <1>1, SignalRight DEF PoolTypeOK
<1>5. PoolTypeOK'
  BY <1>1, <1>2, <1>3, <1>4 DEF PoolTypeOK, lists, thread, desk
<1>6. \A d \in Caller : d # c => pc'[d] = pc[d]
  BY <1>2 DEF PoolTypeOK
<1>7. BuildInv' /\ CountInv' /\ WaitingListIsLive'
  BY <1>2, <1>6 DEF BuildInv, CountInv, WaitingListIsLive, PoolTypeOK, thread, desk
<1>8. PlaceInv'
  <2> SUFFICES ASSUME owner # "done"
               PROVE  PlaceInv'
    BY <1>2 DEF PlaceInv, desk
  <2>1. i \in mlInUseBuf
    BY DEF PlaceInv
  <2>2. /\ mlAvailableBuf' = mlAvailableBuf \cup {i}
        /\ mlInUseBuf' = mlInUseBuf \ {i}
    BY <1>1, <2>1
  <2>3. \A d \in Caller : hand'[d] = IF d = c THEN hand[c] \ {i} ELSE hand[d]
    BY <1>1 DEF PoolTypeOK
  <2>4. \A k : k \in mlInUseBuf' <=> \E d \in Caller : k \in hand'[d]
    BY <2>2, <2>3 DEF PlaceInv
  <2>5. \A d, e \in Caller : d # e => hand'[d] \cap hand'[e] = {}
    BY <2>3 DEF PlaceInv
  <2>6. /\ mlAvailableBuf' \cap mlInUseBuf' = {}
        /\ mlAvailableBuf' \cup mlInUseBuf' = mlAvailableBuf \cup mlInUseBuf
    BY <2>1, <2>2 DEF PlaceInv
  <2>7. QED
    BY <1>2, <2>4, <2>5, <2>6 DEF PlaceInv, thread, desk
<1>9. QED
  BY <1>5, <1>7, <1>8

LEMMA WorkSteps ==
    ASSUME PoolInv, Work
    PROVE  PoolInv'
<1> USE DEF PoolInv
<1>1. owner # "done" /\ owner # "new" /\ \A c \in Caller : pc[c] # "construct"
  BY DEF Work, WorkerConstruct, WorkerPush, BuildInv
<1>2. CASE WorkerConstruct
  <2>1. /\ worker = "construct" /\ worker' = "push" /\ built' = stored /\ stored' = stored + 1
        /\ UNCHANGED <<locks, lists, muToAllocCnt, waiters, exitPending, desk, pc, hand>>
    BY <1>2 DEF WorkerConstruct
  <2>2. muToAllocCnt > 0 /\ stored + muToAllocCnt = MaxBuf
    BY <1>1, <2>1, PoolAssumption DEF BuildInv, CountInv, PoolTypeOK
  <2>3. stored \in Index /\ stored' \in 0..MaxBuf
    BY <2>1, <2>2, PoolAssumption DEF PoolTypeOK, Index
  <2>4. PoolTypeOK'
    BY <2>1, <2>3 DEF PoolTypeOK, locks, lists, waiters, desk
  <2>5. BuildInv'
    BY <1>1, <2>1 DEF BuildInv, locks, desk
  <2>6. CountInv'
    BY <2>1, <2>2, <2>3, PoolAssumption DEF CountInv, PoolTypeOK
  <2>7. PlaceInv'
    <3>1. 0..(stored' - 1) = (0..(stored - 1)) \cup {stored}
      BY <2>1 DEF PoolTypeOK
    <3>2. stored \notin 0..(stored - 1)
      BY DEF PoolTypeOK
    <3>3. QED
      BY <1>1, <2>1, <3>1, <3>2 DEF PlaceInv, lists
  <2>8. WaitingListIsLive'
    BY <2>1 DEF WaitingListIsLive, waiters
  <2>9. QED
    BY <2>4, <2>5, <2>6, <2>7, <2>8
<1>3. CASE WorkerPush
  <2>1. /\ worker = "push" /\ worker' \in {"construct", "stopped"}
        /\ worker' = "construct" => muToAllocCnt > 1
        /\ mlAvailableBuf' = mlAvailableBuf \cup {built} /\ mlInUseBuf' = mlInUseBuf
        /\ muToAllocCnt' = muToAllocCnt - 1 /\ SignalUser
        /\ UNCHANGED <<locks, stored, mWaitingList, expired, built, exitPending,
                       desk, pc, hand>>
    BY <1>3 DEF WorkerPush, Remaining
  <2>2. stored + muToAllocCnt = MaxBuf + 1
    BY <1>1, <2>1 DEF CountInv
  <2>3. muToAllocCnt' \in 0..MaxBuf
    BY <2>1, <2>2, PoolAssumption DEF PoolTypeOK
  <2>4. signalled' \subseteq Caller
    BY <2>1, SignalRight DEF PoolTypeOK
  <2>5. PoolTypeOK'
    BY <2>1, <2>3, <2>4 DEF PoolTypeOK, locks, desk
  <2>6. BuildInv'
    BY <1>1, <2>1 DEF BuildInv, PoolTypeOK, locks, desk
  <2>7. CountInv'
    BY <2>1, <2>2, PoolAssumption DEF CountInv, PoolTypeOK
  <2>8. PlaceInv'
    BY <1>1, <2>1 DEF PlaceInv, desk
  <2>9. WaitingListIsLive'
    BY <2>1 DEF WaitingListIsLive
  <2>10. QED
    BY <2>5, <2>6, <2>7, <2>8, <2>9
<1>4. QED
  BY <1>2, <1>3 DEF Work

LEMMA ClearStep ==
    ASSUME PoolInv, Clear
    PROVE  PoolInv'
<1> USE DEF PoolInv
<1>1. /\ owner = "join" /\ owner' = "done" /\ worker = "stopped"
      /\ mlAvailableBuf' = {} /\ mlInUseBuf' = {} /\ muToAllocCnt' = 0
      /\ UNCHANGED <<locks, stored, waiters, thread, committed, pc, hand>>
  BY DEF Clear, isRunning
<1>2. PoolTypeOK'
  BY <1>1, PoolAssumption DEF PoolTypeOK, locks, waiters, thread
<1>3. BuildInv' /\ CountInv' /\ PlaceInv' /\ WaitingListIsLive'
  BY <1>1 DEF BuildInv, CountInv, PlaceInv, WaitingListIsLive, waiters, thread
<1>4. QED
  BY <1>2, <1>3

LEMMA PoolNext == PoolInv /\ [Next]_vars => PoolInv'
<1> SUFFICES ASSUME PoolInv, [Next]_vars PROVE PoolInv'
  OBVIOUS
<1>1. CASE UNCHANGED vars
  BY <1>1 DEF vars, locks, lists, waiters, thread, PoolInv, PoolTypeOK, BuildInv,
              CountInv, PlaceInv, WaitingListIsLive
<1>2. ASSUME NEW c \in Caller,
             Acquire(c) \/ Proceed(c) \/ ConstructFails(c) \/ FindBuffer(c) \/ Release(c)
      PROVE  PoolInv'
  BY <1>2, QuietSteps, LendingSteps, WaitStep, WakeStep, ReleaseStep DEF Proceed
<1>3. CASE CommitPool \/ LeaveUncommitted \/ RequestExit
  BY <1>3, QuietSteps
<1>4. QED
  BY <1>1, <1>2, <1>3, WorkSteps, ClearStep DEF Next

\* Whatever callers acquire and release, committed or not and up to the moment when
\* the pool is emptied: the inductive invariant behind the theorems below.
THEOREM PoolInductive == Spec => []PoolInv
<1>1. QED
  BY PoolInit, PoolNext, PTL DEF Spec

\* The lists hold indices of stored buffers only, and muToAllocCnt, which is
\* unsigned, never wraps around below zero.
THEOREM PoolTypeCorrect == Spec => []PoolTypeOK
<1>1. PoolInv => PoolTypeOK
  BY DEF PoolInv
<1>2. QED
  BY <1>1, PoolInductive, PTL

\* acquireFromPool and releaseToPool neither lose a stored buffer nor lend it to two
\* callers, whoever builds it.
THEOREM NoBufferLentTwice == Spec => []EachBufferInOnePlace
<1>1. ASSUME PoolInv PROVE EachBufferInOnePlace
  <2> SUFFICES ASSUME owner # "done", NEW i \in 0..(stored - 1)
               PROVE  /\ (IF i \in mlAvailableBuf THEN 1 ELSE 0)
                            + (IF worker = "push" /\ i = built THEN 1 ELSE 0)
                            + Cardinality({c \in Caller : i \in hand[c]}) = 1
                      /\ Cardinality({c \in Caller : i \in hand[c]}) = 1
                            <=> i \in mlInUseBuf
    BY DEF EachBufferInOnePlace
  <2>1. PlaceInv
    BY <1>1 DEF PoolInv
  <2>2. CASE i \in mlInUseBuf
    <3>1. PICK c \in Caller : i \in hand[c]
      BY <2>1, <2>2 DEF PlaceInv
    <3>2. {d \in Caller : i \in hand[d]} = {c}
      BY <2>1, <3>1 DEF PlaceInv
    <3>3. Cardinality({d \in Caller : i \in hand[d]}) = 1
      BY <3>2, FS_Singleton, Zenon
    <3>4. i \notin mlAvailableBuf /\ ~(worker = "push" /\ i = built)
      BY <2>1, <2>2 DEF PlaceInv
    <3>5. QED
      BY <2>2, <3>3, <3>4
  <2>3. CASE i \notin mlInUseBuf
    <3>1. {d \in Caller : i \in hand[d]} = {}
      BY <2>1, <2>3 DEF PlaceInv
    <3>2. Cardinality({d \in Caller : i \in hand[d]}) = 0
      BY <3>1, FS_EmptySet, Zenon
    <3>3. /\ i \in mlAvailableBuf \/ (worker = "push" /\ i = built)
          /\ i \notin mlAvailableBuf \/ ~(worker = "push" /\ i = built)
      BY <2>1, <2>3 DEF PlaceInv
    <3>4. QED
      BY <2>3, <3>2, <3>3
  <2>4. QED
    BY <2>2, <2>3
<1>2. QED
  BY <1>1, PoolInductive, PTL

\* The waiting list points to the conditions of those that wait and to no other:
\* what releaseToPool and threadLoop signal is never on the stack of a call that
\* has returned.
THEOREM WaitersAreLive == Spec => []WaitingListIsLive
<1>1. PoolInv => WaitingListIsLive
  BY DEF PoolInv
<1>2. QED
  BY <1>1, PoolInductive, PTL
=============================================================================
