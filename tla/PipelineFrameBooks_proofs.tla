---------------------- MODULE PipelineFrameBooks_proofs ----------------------
(***************************************************************************)
(* Proofs about the books of a frame: what is in the collector, and the    *)
(* counters of metadata and of nodes.  With them, the frame implements     *)
(* FrameContract.                                                          *)
(***************************************************************************)
EXTENDS PipelineFrame_proofs

(***************************************************************************)
(* The steps.                                                              *)
(***************************************************************************)

\* What the steps leave alone but for Visit, SettleNode, Drain, Callback,
\* ReturnBuffer and Notify.
LEMMA QuietSteps ==
    ASSUME NEW n \in Node,
           \/ Start(n) \/ ApplyRelease(n) \/ \E m \in Node : Dispatch(n, m)
           \/ \E s \in Stream : \/ GetBuffer(n, s) \/ AcquireBuffer(n, s)
                                \/ AcquireFails(n, s) \/ Mark(n, s) \/ MarkNull(n, s)
    PROVE  UNCHANGED <<slot, mNonReleasedNum, allReleased, producersReleased, books,
                       collector, batch, messages, outside>>
<1>1. CASE Start(n) \/ ApplyRelease(n) \/ \E m \in Node : Dispatch(n, m)
  BY <1>1 DEF Start, ApplyRelease, Dispatch, items, owned
<1>2. ASSUME NEW s \in Stream,
             \/ GetBuffer(n, s) \/ AcquireBuffer(n, s)
             \/ AcquireFails(n, s) \/ Mark(n, s) \/ MarkNull(n, s)
      PROVE  UNCHANGED <<slot, mNonReleasedNum, allReleased, producersReleased, books,
                         collector, batch, messages, outside>>
  BY <1>2 DEF GetBuffer, AcquireBuffer, AcquireFails, Ask, Mark, MarkNull, items, owned
<1>3. QED
  BY <1>1, <1>2

Quiet == UNCHANGED <<slot, mNonReleasedNum, allReleased, producersReleased, books,
                     collector, batch, messages, outside>>

\* A step is quiet, or one of six.
LEMMA Cases ==
    ASSUME [Next]_vars
    PROVE  \/ Quiet
           \/ \E n \in Node, s \in Stream : Visit(n, s)
           \/ \E n \in Node : SettleNode(n)
           \/ \E n \in Node : Drain(n)
           \/ \E n \in Node : Callback(n)
           \/ \E n \in Node, s \in Stream : ReturnBuffer(n, s)
           \/ \E n \in Node : Notify(n)
<1>1. CASE BeginFlush \/ UNCHANGED vars
  BY <1>1 DEF BeginFlush, vars, Quiet, items, books, owned, outside
<1>2. ASSUME NEW n \in Node, Step(n)
      PROVE  \/ Quiet
             \/ \E s \in Stream : Visit(n, s) \/ ReturnBuffer(n, s)
             \/ SettleNode(n) \/ Drain(n) \/ Callback(n) \/ Notify(n)
  BY <1>2, QuietSteps DEF Step, Quiet
<1>3. QED
  BY <1>1, <1>2 DEF Next

(***************************************************************************)
(* Metadata.                                                               *)
(***************************************************************************)

\* The bit PRODUCERS_RELEASE says that all producers have released.
ProducersInv == \A s \in producersReleased : Producers[s] \subseteq released[s]

MetaOf(b) == b.appMetaO \cup b.halMetaO

\* Output metadata is in one place at a time, once its producers are known to be
\* done.
MetaInv ==
    /\ \A s \in MetaOf(collector) :
        /\ s \in producersReleased /\ delivered[s] = 0
        /\ \A n \in Node : s \notin MetaOf(batch[n])
    /\ \A n \in Node : \A s \in MetaOf(batch[n]) :
        /\ s \in producersReleased /\ delivered[s] = 0
        /\ \A m \in Node : s \in MetaOf(batch[m]) => m = n
    /\ \A s \in Stream : delivered[s] \in {0, 1}
    /\ \A s \in Stream : delivered[s] = 1 => s \in producersReleased

LEMMA ProducersNext == TypeOK /\ ProducersInv /\ [Next]_vars => ProducersInv'
<1> SUFFICES ASSUME TypeOK, ProducersInv, [Next]_vars PROVE ProducersInv'
  OBVIOUS
<1>1. \A s \in Stream : released[s] \subseteq released'[s]
  BY ReleasedGrows
<1>2. CASE producersReleased' = producersReleased
  BY <1>1, <1>2 DEF ProducersInv, TypeOK
<1>3. ASSUME NEW n \in Node, NEW s \in Stream, Visit(n, s) PROVE ProducersInv'
  <2>1. \/ producersReleased' = producersReleased
        \/ producersReleased' = producersReleased \cup {s} /\ ProducersDone(n, s)
    BY <1>3 DEF Visit
  <2>2. ProducersDone(n, s) => Producers[s] \subseteq released[s]
    BY DEF ProducersDone, AllProducersReleased
  <2>3. QED
    BY <1>1, <2>1, <2>2 DEF ProducersInv, TypeOK
<1>4. ASSUME NEW n \in Node,
             \/ SettleNode(n) \/ Drain(n) \/ Callback(n) \/ Notify(n)
             \/ \E s \in Stream : ReturnBuffer(n, s)
      PROVE  producersReleased' = producersReleased
  BY <1>4 DEF SettleNode, Drain, Callback, Notify, ReturnBuffer, items
<1>5. QED
  BY <1>2, <1>3, <1>4, Cases DEF Quiet

LEMMA MetaNext == TypeOK /\ MetaInv /\ [Next]_vars => MetaInv'
<1> SUFFICES ASSUME TypeOK, MetaInv, [Next]_vars PROVE MetaInv'
  OBVIOUS
<1>1. CASE UNCHANGED <<collector, batch, delivered, producersReleased>>
  BY <1>1 DEF MetaInv, MetaOf
<1>2. CASE Quiet
  BY <1>1, <1>2 DEF Quiet, outside
<1>3. ASSUME NEW n \in Node, NEW s \in Stream, Visit(n, s) PROVE MetaInv'
  <2>1. batch' = batch /\ delivered' = delivered
    BY <1>3 DEF Visit, outside
  <2>2. producersReleased \subseteq producersReleased'
    BY <1>3 DEF Visit
  <2>3. MetaOf(collector') \subseteq MetaOf(collector) \cup
            (IF ProducersDone(n, s) THEN {s} ELSE {})
    BY <1>3 DEF Visit, Collect, MetaOf
  <2>4. ProducersDone(n, s) => s \notin producersReleased /\ s \in producersReleased'
    BY <1>3 DEF Visit, ProducersDone
  <2>5. ProducersDone(n, s) => delivered[s] = 0 /\ \A m \in Node : s \notin MetaOf(batch[m])
    BY <2>4 DEF MetaInv
  <2>6. QED
    BY <2>1, <2>2, <2>3, <2>4, <2>5 DEF MetaInv
<1>4. ASSUME NEW n \in Node, Drain(n) PROVE MetaInv'
  <2>1. MetaOf(collector') = {}
    BY <1>4 DEF Drain, MetaOf, TypeOK, Batches
  <2>2. \A m \in Node : batch'[m] = IF m = n THEN collector ELSE batch[m]
    BY <1>4 DEF Drain, TypeOK
  <2>3. delivered' = delivered /\ producersReleased' = producersReleased
    BY <1>4 DEF Drain, items, outside
  <2>4. QED
    BY <2>1, <2>2, <2>3 DEF MetaInv
<1>5. ASSUME NEW n \in Node, Callback(n) PROVE MetaInv'
  <2>1. UNCHANGED <<collector, producersReleased>>
    BY <1>5 DEF Callback, items
  <2>2. \A m \in Node : MetaOf(batch'[m]) = IF m = n THEN {} ELSE MetaOf(batch[m])
    BY <1>5 DEF Callback, MetaOf, TypeOK, Batches
  <2>3. \A s \in Stream : delivered'[s] =
            IF s \in MetaOf(batch[n]) THEN delivered[s] + 1 ELSE delivered[s]
    BY <1>5 DEF Callback, MetaOf
  <2>4. \A s \in Stream : delivered'[s] =
            IF s \in MetaOf(batch[n]) THEN 1 ELSE delivered[s]
    BY <2>3 DEF MetaInv
  <2>5. MetaOf(collector) \subseteq Stream /\ \A m \in Node : MetaOf(batch[m]) \subseteq Stream
    BY DEF TypeOK, Batches, MetaOf, Of
  <2>6. QED
    BY <2>1, <2>2, <2>4, <2>5 DEF MetaInv
<1>6. ASSUME NEW n \in Node, NEW s \in Stream, ReturnBuffer(n, s) PROVE MetaInv'
  <2>1. UNCHANGED <<collector, delivered, producersReleased>>
    BY <1>6 DEF ReturnBuffer, items
  <2>2. \A m \in Node : MetaOf(batch'[m]) = MetaOf(batch[m])
    BY <1>6 DEF ReturnBuffer, MetaOf, TypeOK, Batches
  <2>3. QED
    BY <2>1, <2>2 DEF MetaInv
<1>7. ASSUME NEW n \in Node, SettleNode(n) \/ Notify(n) PROVE MetaInv'
  BY <1>1, <1>7 DEF SettleNode, Notify, items, outside
<1>8. QED
  BY <1>2, <1>3, <1>4, <1>5, <1>6, <1>7, Cases

(***************************************************************************)
(* Nodes.                                                                  *)
(***************************************************************************)

HasStreams(n) == In[n] \cup Out[n] # {}
Unsettled == {n \in Node : HasStreams(n) /\ notified[n] # IOSets}

\* A stream leaves the IO sets of a node when the node has released it, and sets
\* that are notified are empty.
IOInv ==
    \A n \in Node : \A k \in IOSets :
        /\ io[n][k] \subseteq IOStreams(n)[k]
        /\ IOStreams(n)[k] \ io[n][k] \subseteq {s \in Stream : n \in released[s]}
        /\ k \in notified[n] => io[n][k] = {}

\* mInFlightNodeCount counts the nodes that are not settled.  A node outside
\* applyRelease with no stream left is settled.
CountInv ==
    /\ mInFlightNodeCount = Cardinality(Unsettled)
    /\ \A n \in Node :
            pc[n] # "apply" /\ HasStreams(n) /\ (\A k \in IOSets : io[n][k] = {})
                => notified[n] = IOSets

\* The release of the frame is announced by one node, when all are settled.
AnnounceInv ==
    /\ frameReleased \in {0, 1}
    /\ frameReleased = 1 => Unsettled = {}
    /\ \A n \in Node : "FRAME_RELEASED" \in messages[n] =>
            /\ Unsettled = {} /\ frameReleased = 0
            /\ \A m \in Node : "FRAME_RELEASED" \in messages[m] => m = n

LEMMA FiniteUnsettled == IsFiniteSet(Unsettled)
BY FrameAssumption, FS_Subset DEF Unsettled

LEMMA IONext == TypeOK /\ IOInv /\ [Next]_vars => IOInv'
<1> SUFFICES ASSUME TypeOK, IOInv, [Next]_vars PROVE IOInv'
  OBVIOUS
<1>1. \A s \in Stream : released[s] \subseteq released'[s]
  BY ReleasedGrows
<1>2. CASE io' = io /\ notified' = notified
  BY <1>1, <1>2 DEF IOInv, IOStreams
<1>3. ASSUME NEW n \in Node, NEW s \in Stream, Visit(n, s) PROVE IOInv'
  <2>1. notified' = notified /\ released' = released
    BY <1>3 DEF Visit, users
  <2>2. ASSUME NEW m \in Node, NEW k \in IOSets
        PROVE  \/ io'[m][k] = io[m][k]
               \/ m = n /\ io'[m][k] = io[m][k] \ {s} /\ n \in released[s]
    BY <1>3 DEF Visit, HasReleased, TypeOK
  <2>3. QED
    BY <2>1, <2>2 DEF IOInv, IOStreams
<1>4. ASSUME NEW n \in Node, SettleNode(n) PROVE IOInv'
  <2>1. io' = io
    BY <1>4 DEF SettleNode
  <2>2. \A m \in Node : \A k \in notified'[m] :
            k \in notified[m] \/ (m = n /\ io[n][k] = {})
    BY <1>4 DEF SettleNode, NewlyEmpty, TypeOK
  <2>3. QED
    BY <1>1, <2>1, <2>2 DEF IOInv, IOStreams
<1>5. ASSUME NEW n \in Node,
             \/ Drain(n) \/ Callback(n) \/ Notify(n)
             \/ \E s \in Stream : ReturnBuffer(n, s)
      PROVE  io' = io /\ notified' = notified
  BY <1>5 DEF Drain, Callback, Notify, ReturnBuffer, books
<1>6. QED
  BY <1>2, <1>3, <1>4, <1>5, Cases DEF Quiet, books

\* How SettleNode changes the nodes that are settled.
LEMMA Settling ==
    ASSUME TypeOK, IOInv, NEW n \in Node, SettleNode(n)
    PROVE  /\ NewlyEmpty(n) # {} => n \in Unsettled
           /\ Unsettled' = IF NodeDone(n) THEN Unsettled \ {n} ELSE Unsettled
           /\ NodeDone(n) => n \in Unsettled
           /\ HasStreams(n) /\ (\A k \in IOSets : io[n][k] = {}) => notified'[n] = IOSets
<1>1. \A m \in Node : notified'[m] =
            IF m = n THEN notified[n] \cup NewlyEmpty(n) ELSE notified[m]
  BY DEF SettleNode, TypeOK
<1>2. notified[n] \subseteq IOSets /\ NewlyEmpty(n) \subseteq IOSets
  BY DEF TypeOK, NewlyEmpty, LiveSets
<1>3. HasStreams(n) => NewlyEmpty(n) = {k \in IOSets \ notified[n] : io[n][k] = {}}
  BY DEF HasStreams, NewlyEmpty, LiveSets
<1>4. NewlyEmpty(n) # {} => HasStreams(n) /\ notified[n] # IOSets
  BY DEF HasStreams, NewlyEmpty, LiveSets
<1>5. HasStreams(n) /\ (\A k \in IOSets : io[n][k] = {}) => notified'[n] = IOSets
  BY <1>1, <1>2, <1>3
<1>6. Unsettled' = {m \in Node : HasStreams(m) /\ notified'[m] # IOSets}
  BY DEF Unsettled, HasStreams
<1>7. CASE NodeDone(n)
  <2>1. HasStreams(n) /\ notified[n] # IOSets /\ notified'[n] = IOSets
    BY <1>4, <1>5, <1>7 DEF NodeDone
  <2>2. QED
    BY <1>1, <1>4, <1>5, <1>6, <1>7, <2>1 DEF Unsettled
<1>8. CASE ~NodeDone(n)
  <2>1. HasStreams(n) => (notified'[n] = IOSets <=> notified[n] = IOSets)
    <3>1. CASE NewlyEmpty(n) = {}
      BY <1>1, <3>1
    <3>2. CASE \E k \in IOSets : io[n][k] # {}
      <4>1. PICK k \in IOSets : io[n][k] # {}
        BY <3>2
      <4>2. k \notin notified[n] /\ k \notin NewlyEmpty(n)
        BY <4>1 DEF IOInv, NewlyEmpty
      <4>3. QED
        BY <1>1, <4>2
    <3>3. QED
      BY <1>8, <3>1, <3>2 DEF NodeDone
  <2>2. QED
    BY <1>1, <1>4, <1>5, <1>6, <1>8, <2>1 DEF Unsettled
<1>9. QED
  BY <1>7, <1>8

\* A node leaves applyRelease's locks only by SettleNode.
LEMMA LeavesLocks ==
    ASSUME TypeOK, [Next]_vars, NEW n \in Node, pc[n] = "apply"
    PROVE  pc'[n] = "apply" \/ SettleNode(n)
<1>1. pc \in [Node -> {"idle", "work", "apply", "drain", "callback", "return",
                       "dispatch"}]
  BY DEF TypeOK
<1>2. CASE BeginFlush \/ UNCHANGED vars
  BY <1>2 DEF BeginFlush, vars
<1>3. ASSUME NEW m \in Node, NEW s \in Stream,
             \/ GetBuffer(m, s) \/ AcquireBuffer(m, s) \/ AcquireFails(m, s)
             \/ Mark(m, s) \/ MarkNull(m, s)
             \/ Visit(m, s) \/ ReturnBuffer(m, s)
      PROVE  pc' = pc
  BY <1>3 DEF GetBuffer, AcquireBuffer, AcquireFails, Ask, Mark, MarkNull, Visit,
              ReturnBuffer
<1>4. ASSUME NEW m \in Node,
             \/ Start(m) \/ ApplyRelease(m) \/ Drain(m) \/ Callback(m) \/ Notify(m)
             \/ \E l \in Node : Dispatch(m, l)
      PROVE  pc'[n] = "apply"
  BY <1>1, <1>4 DEF Start, ApplyRelease, Drain, Callback, Notify, Dispatch
<1>5. ASSUME NEW m \in Node, SettleNode(m) PROVE pc'[n] = "apply" \/ SettleNode(n)
  BY <1>1, <1>5 DEF SettleNode
<1>6. QED
  BY <1>2, <1>3, <1>4, <1>5 DEF Next, Step

LEMMA CountNext == TypeOK /\ IOInv /\ CountInv /\ [Next]_vars => CountInv'
<1> SUFFICES ASSUME TypeOK, IOInv, CountInv, [Next]_vars PROVE CountInv'
  OBVIOUS
<1>1. \A n \in Node : pc'[n] # "apply" => pc[n] # "apply" \/ SettleNode(n)
  BY LeavesLocks
<1>2. \A n \in Node : HasStreams(n)' <=> HasStreams(n)
  BY DEF HasStreams
<1>3. CASE UNCHANGED books
  <2>1. Unsettled' = Unsettled
    BY <1>3 DEF books, Unsettled, HasStreams
  <2>2. ASSUME NEW n \in Node, pc'[n] # "apply", HasStreams(n),
               \A k \in IOSets : io'[n][k] = {}
        PROVE  notified'[n] = IOSets
    BY <1>1, <1>3, <2>2, Settling DEF CountInv, books
  <2>3. QED
    BY <1>2, <1>3, <2>1, <2>2 DEF CountInv, books
<1>4. ASSUME NEW n \in Node, NEW s \in Stream, Visit(n, s) PROVE CountInv'
  <2>1. UNCHANGED <<notified, mInFlightNodeCount, pc>> /\ pc[n] = "apply"
    BY <1>4 DEF Visit
  <2>2. \A m \in Node \ {n} : io'[m] = io[m]
    BY <1>4 DEF Visit, TypeOK
  <2>3. Unsettled' = Unsettled
    BY <2>1 DEF Unsettled, HasStreams
  <2>4. QED
    BY <1>2, <2>1, <2>2, <2>3 DEF CountInv
<1>5. ASSUME NEW n \in Node, SettleNode(n) PROVE CountInv'
  <2>1. mInFlightNodeCount' = Cardinality(Unsettled')
    <3>1. CASE NodeDone(n)
      <4>1. Unsettled' = Unsettled \ {n} /\ n \in Unsettled
        BY <1>5, <3>1, Settling
      <4>2. Cardinality(Unsettled \ {n}) = Cardinality(Unsettled) - 1
        BY <4>1, FiniteUnsettled, FS_RemoveElement
      <4>3. mInFlightNodeCount' = mInFlightNodeCount - 1
        BY <1>5, <3>1 DEF SettleNode
      <4>4. QED
        BY <4>1, <4>2, <4>3 DEF CountInv
    <3>2. CASE ~NodeDone(n)
      <4>1. Unsettled' = Unsettled
        BY <1>5, <3>2, Settling
      <4>2. mInFlightNodeCount' = mInFlightNodeCount
        BY <1>5, <3>2 DEF SettleNode, TypeOK
      <4>3. QED
        BY <4>1, <4>2 DEF CountInv
    <3>3. QED
      BY <3>1, <3>2
  <2>2. io' = io /\ \A m \in Node \ {n} : pc'[m] = pc[m] /\ notified'[m] = notified[m]
    BY <1>5 DEF SettleNode, TypeOK
  <2>3. ASSUME NEW m \in Node, pc'[m] # "apply", HasStreams(m),
               \A k \in IOSets : io'[m][k] = {}
        PROVE  notified'[m] = IOSets
    <3>1. CASE m = n
      BY <1>5, <2>2, <2>3, <3>1, Settling
    <3>2. CASE m # n
      BY <2>2, <2>3, <3>2 DEF CountInv
    <3>3. QED
      BY <3>1, <3>2
  <2>4. QED
    BY <1>2, <2>1, <2>3 DEF CountInv
<1>6. ASSUME NEW n \in Node,
             \/ Drain(n) \/ Callback(n) \/ Notify(n)
             \/ \E s \in Stream : ReturnBuffer(n, s)
      PROVE  UNCHANGED books
  BY <1>6 DEF Drain, Callback, Notify, ReturnBuffer
<1>7. QED
  BY <1>3, <1>4, <1>5, <1>6, Cases DEF Quiet

LEMMA AnnounceNext ==
    TypeOK /\ IOInv /\ CountInv /\ AnnounceInv /\ [Next]_vars => AnnounceInv'
<1> SUFFICES ASSUME TypeOK, IOInv, CountInv, AnnounceInv, [Next]_vars
             PROVE  AnnounceInv'
  OBVIOUS
<1>1. CASE UNCHANGED <<notified, messages, frameReleased>>
  BY <1>1 DEF AnnounceInv, Unsettled, HasStreams
<1>2. CASE Quiet
  BY <1>1, <1>2 DEF Quiet, books, outside
<1>3. ASSUME NEW n \in Node,
             \/ Drain(n) \/ Callback(n)
             \/ \E s \in Stream : Visit(n, s) \/ ReturnBuffer(n, s)
      PROVE  AnnounceInv'
  BY <1>1, <1>3 DEF Drain, Callback, Visit, ReturnBuffer, books, outside
<1>4. ASSUME NEW n \in Node, SettleNode(n) PROVE AnnounceInv'
  <2>1. frameReleased' = frameReleased /\ Unsettled' \subseteq Unsettled
    BY <1>4, Settling DEF SettleNode, outside
  <2>2. \A m \in Node \ {n} : messages'[m] = messages[m]
    BY <1>4 DEF SettleNode, TypeOK
  <2>3. "FRAME_RELEASED" \in messages'[n] => NewlyEmpty(n) # {} /\ mInFlightNodeCount' = 0
    BY <1>4 DEF SettleNode, TypeOK
  <2>4. CASE "FRAME_RELEASED" \in messages'[n]
    <3>1. Unsettled # {}
      BY <1>4, <2>3, <2>4, Settling
    <3>2. frameReleased = 0 /\ \A m \in Node : "FRAME_RELEASED" \notin messages[m]
      BY <3>1 DEF AnnounceInv
    <3>3. Unsettled' = {}
      <4>1. mInFlightNodeCount' = Cardinality(Unsettled')
        BY CountNext DEF CountInv
      <4>2. IsFiniteSet(Unsettled')
        BY <2>1, FiniteUnsettled, FS_Subset
      <4>3. QED
        BY <2>3, <2>4, <4>1, <4>2, FS_EmptySet
    <3>4. QED
      BY <2>1, <2>2, <3>2, <3>3 DEF AnnounceInv
  <2>5. CASE "FRAME_RELEASED" \notin messages'[n]
    BY <2>1, <2>2, <2>5 DEF AnnounceInv
  <2>6. QED
    BY <2>4, <2>5
<1>5. ASSUME NEW n \in Node, Notify(n) PROVE AnnounceInv'
  <2>1. Unsettled' = Unsettled
    BY <1>5 DEF Notify, books, Unsettled, HasStreams
  <2>2. \A m \in Node : messages'[m] = IF m = n THEN {} ELSE messages[m]
    BY <1>5 DEF Notify, TypeOK
  <2>3. frameReleased' = frameReleased + (IF "FRAME_RELEASED" \in messages[n] THEN 1 ELSE 0)
    BY <1>5 DEF Notify
  <2>4. CASE "FRAME_RELEASED" \in messages[n]
    <3>1. frameReleased' = 1 /\ Unsettled = {}
          /\ \A m \in Node \ {n} : "FRAME_RELEASED" \notin messages[m]
      BY <2>3, <2>4 DEF AnnounceInv
    <3>2. QED
      BY <2>1, <2>2, <3>1 DEF AnnounceInv
  <2>5. CASE "FRAME_RELEASED" \notin messages[n]
    <3>1. frameReleased' = frameReleased
      BY <2>3, <2>5 DEF AnnounceInv
    <3>2. QED
      BY <2>1, <2>2, <2>5, <3>1 DEF AnnounceInv
  <2>6. QED
    BY <2>4, <2>5
<1>6. QED
  BY <1>2, <1>3, <1>4, <1>5, Cases

\* A node has a stream it reads or writes in one of its IO sets at first.
LEMMA InSomeSet ==
    ASSUME NEW s \in Stream, NEW n \in Users[s]
    PROVE  \E k \in IOSets : s \in IOStreams(n)[k]
<1>1. Kind[s] \in Kinds /\ n \in Node /\ s \in In[n] \cup Out[n]
  BY FrameAssumption DEF Users
<1>2. s \in Image \/ s \in Meta
  BY <1>1 DEF Kinds, Image, Meta, Of
<1>3. /\ IOStreams(n)["OImage"] = Out[n] \cap Image
      /\ IOStreams(n)["IImage"] = In[n] \cap Image
      /\ IOStreams(n)["OMeta"] = Out[n] \cap Meta
      /\ IOStreams(n)["IMeta"] = In[n] \cap Meta
  BY DEF IOStreams
<1>4. QED
  BY <1>1, <1>2, <1>3 DEF IOSets

LEMMA SetsOfStreams ==
    ASSUME NEW n \in Node, NEW k \in IOSets
    PROVE  IOStreams(n)[k] \subseteq In[n] \cup Out[n]
BY DEF IOStreams, IOSets

\* When all nodes are settled every user has released every buffer.
LEMMA AllGivenUp ==
    ASSUME TypeOK, IOInv, Unsettled = {}
    PROVE  /\ \A n \in Node : \A k \in IOSets : io[n][k] = {}
           /\ \A s \in Stream : Users[s] \subseteq released[s]
<1>1. ASSUME NEW n \in Node, NEW k \in IOSets PROVE io[n][k] = {}
  <2>1. CASE HasStreams(n)
    <3>1. notified[n] = IOSets
      BY <2>1 DEF Unsettled
    <3>2. QED
      BY <3>1 DEF IOInv
  <2>2. CASE ~HasStreams(n)
    <3>1. IOStreams(n)[k] = {}
      BY <2>2, SetsOfStreams DEF HasStreams
    <3>2. QED
      BY <3>1 DEF IOInv
  <2>3. QED
    BY <2>1, <2>2
<1>2. ASSUME NEW s \in Stream, NEW n \in Users[s] PROVE n \in released[s]
  <2>1. PICK k \in IOSets : s \in IOStreams(n)[k]
    BY InSomeSet
  <2>2. n \in Node
    BY DEF Users
  <2>3. s \in IOStreams(n)[k] \ io[n][k]
    BY <1>1, <2>1, <2>2
  <2>4. QED
    BY <2>2, <2>3 DEF IOInv
<1>3. QED
  BY <1>1, <1>2

(***************************************************************************)
(* Items and Hal buffers.                                                  *)
(***************************************************************************)

\* The counters of the item maps count the items that are left.
ItemInv == \A kind \in Kinds : mNonReleasedNum[kind] = Cardinality(Of(kind) \cap slot)

\* Hal buffers that were acquired and whose item is gone are somewhere.
HalInv ==
    \A s \in Hal :
        s \in acquired \ slot <=> \/ s \in HalOf(collector)
                                  \/ \E n \in Node : s \in HalOf(batch[n])
                                  \/ returned[s] = 1

\* A thread has Hal buffers in its hands only between the drain and their return.
BatchInv == \A n \in Node : pc[n] \notin {"callback", "return"} => HalOf(batch[n]) = {}

LEMMA ItemNext == TypeOK /\ ItemInv /\ [Next]_vars => ItemInv'
<1> SUFFICES ASSUME TypeOK, ItemInv, [Next]_vars PROVE ItemInv'
  OBVIOUS
<1>1. \A kind \in Kinds : Of(kind)' = Of(kind)
  BY DEF Of
<1>2. CASE mNonReleasedNum' = mNonReleasedNum /\ slot' = slot
  BY <1>1, <1>2 DEF ItemInv
<1>3. ASSUME NEW n \in Node, NEW s \in Stream, Visit(n, s) PROVE ItemInv'
  <2>1. CASE UsersDone(n, s) /\ s \in slot
    <3>1. slot' = slot \ {s}
          /\ mNonReleasedNum' = [mNonReleasedNum EXCEPT ![Kind[s]] = @ - 1]
      BY <1>3, <2>1 DEF Visit
    <3>2. Kind[s] \in Kinds /\ mNonReleasedNum \in [Kinds -> Int]
      BY FrameAssumption DEF TypeOK, Counters
    <3>3. ASSUME NEW kind \in Kinds
          PROVE  mNonReleasedNum'[kind] = Cardinality(Of(kind) \cap slot')
      <4>1. Of(kind) \cap slot' = (Of(kind) \cap slot) \ {s}
        BY <3>1
      <4>2. IsFiniteSet(Of(kind) \cap slot)
        BY FrameAssumption, FS_Subset DEF Of
      <4>3. Cardinality(Of(kind) \cap slot') =
                IF s \in Of(kind) THEN mNonReleasedNum[kind] - 1 ELSE mNonReleasedNum[kind]
        <5>1. Cardinality(Of(kind) \cap slot) = mNonReleasedNum[kind]
          BY DEF ItemInv
        <5>2. CASE s \in Of(kind)
          <6>1. s \in Of(kind) \cap slot
            BY <2>1, <5>2
          <6>2. Cardinality((Of(kind) \cap slot) \ {s}) = Cardinality(Of(kind) \cap slot) - 1
            BY <4>2, <6>1, FS_RemoveElement, Zenon
          <6>3. QED
            BY <4>1, <5>1, <5>2, <6>2
        <5>3. CASE s \notin Of(kind)
          <6>1. Of(kind) \cap slot' = Of(kind) \cap slot
            BY <4>1, <5>3
          <6>2. Cardinality(Of(kind) \cap slot') = Cardinality(Of(kind) \cap slot)
            BY <6>1, Zenon
          <6>3. QED
            BY <5>1, <5>3, <6>2
        <5>4. QED
          BY <5>2, <5>3
      <4>4. s \in Of(kind) <=> kind = Kind[s]
        BY DEF Of
      <4>5. QED
        BY <3>1, <3>2, <4>3, <4>4
    <3>4. QED
      BY <1>1, <3>3 DEF ItemInv
  <2>2. CASE ~(UsersDone(n, s) /\ s \in slot)
    <3>1. slot' = slot \/ (s \notin slot /\ slot' = slot \ {s})
      BY <1>3, <2>2 DEF Visit
    <3>2. mNonReleasedNum' = mNonReleasedNum
      BY <1>3, <2>2 DEF Visit, TypeOK, Counters
    <3>3. slot' = slot
      BY <3>1
    <3>4. QED
      BY <1>2, <3>2, <3>3
  <2>3. QED
    BY <2>1, <2>2
<1>4. ASSUME NEW n \in Node,
             \/ SettleNode(n) \/ Drain(n) \/ Callback(n) \/ Notify(n)
             \/ \E s \in Stream : ReturnBuffer(n, s)
      PROVE  mNonReleasedNum' = mNonReleasedNum /\ slot' = slot
  BY <1>4 DEF SettleNode, Drain, Callback, Notify, ReturnBuffer, items
<1>5. QED
  BY <1>2, <1>3, <1>4, Cases DEF Quiet

LEMMA AcquiredNext ==
    ASSUME [Next]_vars
    PROVE  \/ acquired' = acquired
           \/ /\ Quiet
              /\ \E s \in slot : acquired' = acquired \cup {s}
<1>1. CASE BeginFlush \/ UNCHANGED vars
  BY <1>1 DEF BeginFlush, vars, items
<1>2. ASSUME NEW n \in Node, NEW s \in Stream, AcquireBuffer(n, s)
      PROVE  Quiet /\ s \in slot /\ acquired' = acquired \cup {s}
  BY <1>2, QuietSteps DEF AcquireBuffer, InMap, Quiet
<1>3. ASSUME NEW n \in Node, NEW s \in Stream,
             \/ GetBuffer(n, s) \/ AcquireFails(n, s) \/ Mark(n, s) \/ MarkNull(n, s)
             \/ Visit(n, s) \/ ReturnBuffer(n, s)
      PROVE  acquired' = acquired
  BY <1>3 DEF GetBuffer, AcquireFails, Mark, MarkNull, Visit, ReturnBuffer, items
<1>4. ASSUME NEW n \in Node,
             \/ Start(n) \/ ApplyRelease(n) \/ SettleNode(n) \/ Drain(n) \/ Callback(n)
             \/ Notify(n) \/ \E m \in Node : Dispatch(n, m)
      PROVE  acquired' = acquired
  BY <1>4 DEF Start, ApplyRelease, SettleNode, Drain, Callback, Notify, Dispatch, items
<1>5. QED
  BY <1>1, <1>2, <1>3, <1>4 DEF Next, Step

LEMMA BatchNext == TypeOK /\ BatchInv /\ [Next]_vars => BatchInv'
<1> SUFFICES ASSUME TypeOK, BatchInv, [Next]_vars PROVE BatchInv'
  OBVIOUS
<1>0. pc \in [Node -> {"idle", "work", "apply", "drain", "callback", "return",
                       "dispatch"}]
  BY DEF TypeOK
<1>1. CASE UNCHANGED <<pc, batch>>
  BY <1>1 DEF BatchInv, HalOf
<1>2. CASE BeginFlush \/ UNCHANGED vars
  BY <1>1, <1>2 DEF BeginFlush, vars, owned
<1>3. ASSUME NEW n \in Node, NEW s \in Stream,
             \/ GetBuffer(n, s) \/ AcquireBuffer(n, s) \/ AcquireFails(n, s)
             \/ Mark(n, s) \/ MarkNull(n, s) \/ Visit(n, s)
      PROVE  BatchInv'
  BY <1>1, <1>3 DEF GetBuffer, AcquireBuffer, AcquireFails, Ask, Mark, MarkNull, Visit,
                    owned
<1>4. ASSUME NEW n \in Node, \/ Start(n) \/ ApplyRelease(n) \/ SettleNode(n)
                             \/ \E m \in Node : Dispatch(n, m)
      PROVE  BatchInv'
  <2>1. batch' = batch
    BY <1>4 DEF Start, ApplyRelease, SettleNode, Dispatch, owned
  <2>2. \A m \in Node : pc'[m] \notin {"callback", "return"} =>
                            pc[m] \notin {"callback", "return"}
    BY <1>0, <1>4 DEF Start, ApplyRelease, SettleNode, Dispatch
  <2>3. QED
    BY <2>1, <2>2 DEF BatchInv, HalOf
<1>5. ASSUME NEW n \in Node, Drain(n) PROVE BatchInv'
  <2>1. /\ pc'[n] = "callback"
        /\ \A m \in Node \ {n} : pc'[m] = pc[m] /\ batch'[m] = batch[m]
    BY <1>0, <1>5 DEF Drain, TypeOK
  <2>2. QED
    BY <2>1 DEF BatchInv, HalOf
<1>6. ASSUME NEW n \in Node, Callback(n) PROVE BatchInv'
  <2>1. /\ pc'[n] = "return"
        /\ \A m \in Node \ {n} : pc'[m] = pc[m] /\ batch'[m] = batch[m]
    BY <1>0, <1>6 DEF Callback, TypeOK
  <2>2. QED
    BY <2>1 DEF BatchInv, HalOf
<1>7. ASSUME NEW n \in Node, NEW s \in Stream, ReturnBuffer(n, s) PROVE BatchInv'
  <2>1. /\ pc' = pc /\ pc[n] = "return"
        /\ \A m \in Node \ {n} : batch'[m] = batch[m]
    BY <1>0, <1>7 DEF ReturnBuffer, TypeOK
  <2>2. QED
    BY <2>1 DEF BatchInv, HalOf
<1>8. ASSUME NEW n \in Node, Notify(n) PROVE BatchInv'
  <2>1. batch' = batch /\ HalOf(batch[n]) = {}
    BY <1>8 DEF Notify, HalOf
  <2>2. \A m \in Node \ {n} : pc'[m] = pc[m]
    BY <1>0, <1>8 DEF Notify
  <2>3. QED
    BY <2>1, <2>2 DEF BatchInv, HalOf
<1>9. QED
  BY <1>2, <1>3, <1>4, <1>5, <1>6, <1>7, <1>8 DEF Next, Step

LEMMA HalNext ==
    TypeOK /\ ReleaseInv /\ OwnerInv /\ BatchInv /\ HalInv /\ [Next]_vars => HalInv'
<1> SUFFICES ASSUME TypeOK, ReleaseInv, OwnerInv, BatchInv, HalInv, [Next]_vars
             PROVE  HalInv'
  OBVIOUS
<1>0. Hal' = Hal
  BY DEF Hal, Of
<1>1. CASE acquired' = acquired /\ UNCHANGED <<slot, collector, batch, returned>>
  BY <1>0, <1>1 DEF HalInv, HalOf
<1>2. CASE Quiet
  <2>1. UNCHANGED <<slot, collector, batch, returned>>
    BY <1>2 DEF Quiet, outside
  <2>2. CASE \E s \in slot : acquired' = acquired \cup {s}
    <3>1. acquired' \ slot' = acquired \ slot
      BY <2>1, <2>2
    <3>2. QED
      BY <1>0, <2>1, <3>1 DEF HalInv, HalOf
  <2>3. QED
    BY <1>1, <2>1, <2>2, AcquiredNext
<1>3. ASSUME NEW n \in Node, NEW s \in Stream, Visit(n, s) PROVE HalInv'
  <2>1. UNCHANGED <<acquired, batch, returned>>
    BY <1>3 DEF Visit, outside
  <2>2. UsersDone(n, s) => s \in slot
    BY DEF UsersDone, ReleaseInv
  <2>3. slot' = IF UsersDone(n, s) THEN slot \ {s} ELSE slot
    BY <1>3 DEF Visit
  <2>4. HalOf(collector') = HalOf(collector) \cup
            (IF UsersDone(n, s) /\ s \in slot /\ s \in acquired /\ s \in Hal
             THEN {s} ELSE {})
    BY <1>3 DEF Visit, Collect, HalOf, Hal, Of
  <2>5. ASSUME NEW r \in Hal
        PROVE  r \in acquired' \ slot' <=> \/ r \in HalOf(collector')
                                           \/ \E m \in Node : r \in HalOf(batch'[m])
                                           \/ returned'[r] = 1
    <3>1. CASE UsersDone(n, s) /\ r = s
      <4>1. returned[s] # 1 /\ \A m \in Node : s \notin HalOf(batch[m])
        BY <3>1 DEF UsersDone, OwnerInv
      <4>2. s \notin HalOf(collector)
        BY <3>1 DEF UsersDone, OwnerInv
      <4>3. QED
        BY <2>1, <2>2, <2>3, <2>4, <3>1, <4>1, <4>2
    <3>2. CASE ~(UsersDone(n, s) /\ r = s)
      <4>1. r \in slot' <=> r \in slot
        BY <2>3, <3>2
      <4>2. r \in HalOf(collector') <=> r \in HalOf(collector)
        BY <2>4, <3>2
      <4>3. QED
        BY <2>1, <4>1, <4>2 DEF HalInv
    <3>3. QED
      BY <3>1, <3>2
  <2>6. QED
    BY <1>0, <2>5 DEF HalInv
<1>4. ASSUME NEW n \in Node, Drain(n) PROVE HalInv'
  <2>1. HalOf(collector') = {}
    BY <1>4 DEF Drain, HalOf, TypeOK, Batches
  <2>2. \A m \in Node : batch'[m] = IF m = n THEN collector ELSE batch[m]
    BY <1>4 DEF Drain, TypeOK
  <2>3. UNCHANGED <<returned, acquired, slot>>
    BY <1>4 DEF Drain, items, outside
  <2>4. HalOf(batch[n]) = {}
    BY <1>4 DEF Drain, BatchInv
  <2>5. QED
    BY <1>0, <2>1, <2>2, <2>3, <2>4 DEF HalInv
<1>5. ASSUME NEW n \in Node, Callback(n) PROVE HalInv'
  <2>1. UNCHANGED <<collector, returned, acquired, slot>>
    BY <1>5 DEF Callback, items
  <2>2. \A m \in Node : HalOf(batch'[m]) = HalOf(batch[m])
    BY <1>5 DEF Callback, HalOf, TypeOK, Batches
  <2>3. QED
    BY <1>0, <2>1, <2>2 DEF HalInv
<1>6. ASSUME NEW n \in Node, NEW s \in Stream, ReturnBuffer(n, s) PROVE HalInv'
  <2>1. UNCHANGED <<collector, acquired, slot>>
    BY <1>6 DEF ReturnBuffer, items
  <2>2. s \in HalOf(batch[n])
    BY <1>6 DEF ReturnBuffer, HalOf
  <2>3. \A m \in Node : HalOf(batch'[m]) =
            IF m = n THEN HalOf(batch[n]) \ {s} ELSE HalOf(batch[m])
    BY <1>6 DEF ReturnBuffer, HalOf, TypeOK, Batches
  <2>4. \A r \in Stream : returned'[r] = IF r = s THEN 1 ELSE returned[r]
    BY <1>6, <2>2 DEF ReturnBuffer, TypeOK, OwnerInv
  <2>5. Hal \subseteq Stream
    BY DEF Hal, Of
  <2>6. ASSUME NEW r \in Hal
        PROVE  r \in acquired' \ slot' <=> \/ r \in HalOf(collector')
                                           \/ \E m \in Node : r \in HalOf(batch'[m])
                                           \/ returned'[r] = 1
    BY <2>1, <2>2, <2>3, <2>4, <2>5 DEF HalInv
  <2>7. QED
    BY <1>0, <2>6 DEF HalInv
<1>7. ASSUME NEW n \in Node, SettleNode(n) \/ Notify(n) PROVE HalInv'
  BY <1>1, <1>7 DEF SettleNode, Notify, items, outside
<1>8. QED
  BY <1>2, <1>3, <1>4, <1>5, <1>6, <1>7, Cases

(***************************************************************************)
(* The counters of metadata, and the items that are left.                  *)
(***************************************************************************)

LEMMA LeftNext == TypeOK /\ LeftCountersExact /\ [Next]_vars => LeftCountersExact'
<1> SUFFICES ASSUME TypeOK, LeftCountersExact, [Next]_vars PROVE LeftCountersExact'
  OBVIOUS
<1>1. OutMeta("AppMeta")' = OutMeta("AppMeta") /\ OutMeta("HalMeta")' = OutMeta("HalMeta")
  BY DEF OutMeta, Of, Producers
<1>2. CASE /\ producersReleased' = producersReleased
           /\ collector'.appMetaLeft = collector.appMetaLeft
           /\ collector'.halMetaLeft = collector.halMetaLeft
  BY <1>1, <1>2 DEF LeftCountersExact
<1>3. ASSUME NEW n \in Node, NEW s \in Stream, Visit(n, s) PROVE LeftCountersExact'
  <2>1. \A kind \in Kinds : IsFiniteSet(OutMeta(kind) \ producersReleased)
    BY FrameAssumption, FS_Subset DEF OutMeta, Of
  <2>2. /\ collector'.appMetaLeft = collector.appMetaLeft -
                (IF ProducersDone(n, s) /\ s \in OutMeta("AppMeta") THEN 1 ELSE 0)
        /\ collector'.halMetaLeft = collector.halMetaLeft -
                (IF ProducersDone(n, s) /\ s \in OutMeta("HalMeta") THEN 1 ELSE 0)
    BY <1>3 DEF Visit, Collect, OutMeta, Of
  <2>3. producersReleased' =
            IF ProducersDone(n, s) THEN producersReleased \cup {s} ELSE producersReleased
    BY <1>3 DEF Visit
  <2>4. ASSUME NEW kind \in Kinds
        PROVE  Cardinality(OutMeta(kind) \ producersReleased') =
                Cardinality(OutMeta(kind) \ producersReleased) -
                    (IF ProducersDone(n, s) /\ s \in OutMeta(kind) THEN 1 ELSE 0)
    <3>1. Cardinality(OutMeta(kind) \ producersReleased) \in Nat
      BY <2>1, FS_CardinalityType
    <3>2. CASE ProducersDone(n, s)
      <4>1. s \notin producersReleased
        BY <3>2 DEF ProducersDone
      <4>2. OutMeta(kind) \ producersReleased' = (OutMeta(kind) \ producersReleased) \ {s}
        BY <2>3, <3>2
      <4>3. CASE s \in OutMeta(kind)
        <5>1. s \in OutMeta(kind) \ producersReleased
          BY <4>1, <4>3
        <5>2. Cardinality((OutMeta(kind) \ producersReleased) \ {s}) =
                Cardinality(OutMeta(kind) \ producersReleased) - 1
          BY <2>1, <5>1, FS_RemoveElement, Zenon
        <5>3. Cardinality(OutMeta(kind) \ producersReleased') =
                Cardinality((OutMeta(kind) \ producersReleased) \ {s})
          BY <4>2, Zenon
        <5>4. QED
          BY <3>2, <4>3, <5>2, <5>3
      <4>4. CASE s \notin OutMeta(kind)
        <5>1. OutMeta(kind) \ producersReleased' = OutMeta(kind) \ producersReleased
          BY <4>2, <4>4
        <5>2. Cardinality(OutMeta(kind) \ producersReleased') =
                Cardinality(OutMeta(kind) \ producersReleased)
          BY <5>1, Zenon
        <5>3. QED
          BY <3>1, <4>4, <5>2
      <4>5. QED
        BY <4>3, <4>4
    <3>3. CASE ~ProducersDone(n, s)
      <4>1. producersReleased' = producersReleased
        BY <2>3, <3>3
      <4>2. OutMeta(kind) \ producersReleased' = OutMeta(kind) \ producersReleased
        BY <4>1
      <4>3. Cardinality(OutMeta(kind) \ producersReleased') =
              Cardinality(OutMeta(kind) \ producersReleased)
        BY <4>2, Zenon
      <4>4. QED
        BY <3>1, <3>3, <4>3
    <3>4. QED
      BY <3>2, <3>3
  <2>5. QED
    BY <1>1, <2>2, <2>4 DEF LeftCountersExact, Kinds
<1>4. ASSUME NEW n \in Node, Drain(n)
      PROVE  /\ producersReleased' = producersReleased
             /\ collector'.appMetaLeft = collector.appMetaLeft
             /\ collector'.halMetaLeft = collector.halMetaLeft
  BY <1>4 DEF Drain, items, TypeOK, Batches
<1>5. ASSUME NEW n \in Node,
             \/ SettleNode(n) \/ Callback(n) \/ Notify(n)
             \/ \E s \in Stream : ReturnBuffer(n, s)
      PROVE  producersReleased' = producersReleased /\ collector' = collector
  BY <1>5 DEF SettleNode, Callback, Notify, ReturnBuffer, items
<1>6. QED
  BY <1>2, <1>3, <1>4, <1>5, Cases DEF Quiet

\* Every stream of a frame is there because some node uses it.
EveryStreamUsed == \A s \in Stream : Users[s] # {}

\* A stream whose item is left is in an IO set of some node.
SlotInv == \A s \in slot : \E n \in Node : \E k \in IOSets : s \in io[n][k]

LEMMA SlotNext == TypeOK /\ ReleaseInv /\ IOInv /\ SlotInv /\ [Next]_vars => SlotInv'
<1> SUFFICES ASSUME TypeOK, ReleaseInv, IOInv, SlotInv, [Next]_vars PROVE SlotInv'
  OBVIOUS
<1>1. CASE slot' = slot /\ io' = io
  BY <1>1 DEF SlotInv
<1>2. ASSUME NEW n \in Node, NEW s \in Stream, Visit(n, s) PROVE SlotInv'
  <2>1. io \in [Node -> [IOSets -> SUBSET Stream]]
    BY DEF TypeOK
  <2>2. \A m \in Node : \A k \in IOSets :
            /\ io[m][k] \ {s} \subseteq io'[m][k]
            /\ m # n \/ ~HasReleased(s, n) => io'[m][k] = io[m][k]
    BY <1>2, <2>1 DEF Visit
  <2>3. slot' \subseteq slot /\ (UsersDone(n, s) => s \notin slot')
    BY <1>2 DEF Visit
  <2>4. ASSUME NEW r \in slot' PROVE \E m \in Node : \E k \in IOSets : r \in io'[m][k]
    <3>1. CASE r # s \/ ~HasReleased(s, n)
      BY <2>2, <2>3, <3>1 DEF SlotInv
    <3>2. CASE r = s /\ HasReleased(s, n)
      <4>1. ~UsersDone(n, s) /\ s \in slot
        BY <2>3, <3>2
      <4>2. s \notin allReleased
        BY <4>1 DEF ReleaseInv
      <4>3. PICK m \in Users[s] : m \notin released[s]
        BY <3>2, <4>1, <4>2 DEF UsersDone, AllUsersReleased, HasReleased
      <4>4. m \in Node /\ m # n
        BY <3>2, <4>3 DEF Users, HasReleased
      <4>5. PICK k \in IOSets : s \in IOStreams(m)[k]
        BY <4>3, InSomeSet
      <4>6. s \in io[m][k]
        BY <4>3, <4>4, <4>5 DEF IOInv
      <4>7. QED
        BY <2>2, <3>2, <4>4, <4>6
    <3>3. QED
      BY <3>1, <3>2
  <2>5. QED
    BY <2>4 DEF SlotInv
<1>3. ASSUME NEW n \in Node,
             \/ SettleNode(n) \/ Drain(n) \/ Callback(n) \/ Notify(n)
             \/ \E s \in Stream : ReturnBuffer(n, s)
      PROVE  slot' = slot /\ io' = io
  BY <1>3 DEF SettleNode, Drain, Callback, Notify, ReturnBuffer, items, books
<1>4. QED
  BY <1>1, <1>2, <1>3, Cases DEF Quiet, books

(***************************************************************************)
(* The inductive invariant.                                                *)
(***************************************************************************)
BooksInv == /\ ProducersInv /\ MetaInv /\ IOInv /\ CountInv /\ AnnounceInv
            /\ ItemInv /\ BatchInv /\ HalInv /\ LeftCountersExact

LEMMA BooksInit == Init => BooksInv
<1> SUFFICES ASSUME Init PROVE BooksInv
  OBVIOUS
<1>1. /\ HalOf(NothingCollected) = {} /\ MetaOf(NothingCollected) = {}
      /\ HalOf(collector) = {} /\ MetaOf(collector) = {}
      /\ \A n \in Node : HalOf(batch[n]) = {} /\ MetaOf(batch[n]) = {}
  BY DEF Init, NothingCollected, HalOf, MetaOf
<1>2. ProducersInv /\ MetaInv /\ BatchInv
  BY <1>1 DEF Init, ProducersInv, MetaInv, BatchInv
<1>3. IOInv
  <2>1. ASSUME NEW n \in Node, NEW k \in IOSets
        PROVE  io[n][k] = IOStreams(n)[k] /\ k \notin notified[n]
    BY DEF Init
  <2>2. QED
    BY <2>1 DEF IOInv
<1>4. CountInv
  <2>1. Unsettled = {n \in Node : In[n] \cup Out[n] # {}}
    BY DEF Init, Unsettled, HasStreams, IOSets
  <2>2. ASSUME NEW n \in Node, HasStreams(n), \A k \in IOSets : io[n][k] = {}
        PROVE  FALSE
    <3>1. PICK s : s \in In[n] \cup Out[n]
      BY <2>2 DEF HasStreams
    <3>2. s \in Stream /\ n \in Users[s]
      BY <3>1, FrameAssumption DEF Users
    <3>3. PICK k \in IOSets : s \in IOStreams(n)[k]
      BY <3>2, InSomeSet
    <3>4. io[n][k] = IOStreams(n)[k]
      BY DEF Init
    <3>5. QED
      BY <2>2, <3>3, <3>4
  <2>3. mInFlightNodeCount = Cardinality({n \in Node : In[n] \cup Out[n] # {}})
    BY DEF Init
  <2>4. QED
    BY <2>1, <2>2, <2>3 DEF CountInv
<1>5. AnnounceInv
  BY DEF Init, AnnounceInv
<1>6. ItemInv
  <2>1. \A kind \in Kinds : Of(kind) \cap Stream = Of(kind)
    BY DEF Of
  <2>2. QED
    BY <2>1 DEF Init, ItemInv
<1>7. HalInv
  <2>1. acquired \ slot = {}
    BY DEF Init
  <2>2. \A s \in Hal : returned[s] = 0
    BY DEF Init, Hal, Of
  <2>3. QED
    BY <1>1, <2>1, <2>2 DEF HalInv
<1>8. LeftCountersExact
  <2>1. /\ collector.appMetaLeft = Cardinality(OutMeta("AppMeta"))
        /\ collector.halMetaLeft = Cardinality(OutMeta("HalMeta"))
    BY DEF Init, NothingCollected
  <2>2. producersReleased = {}
    BY DEF Init
  <2>3. \A S : S \ producersReleased = S
    BY <2>2
  <2>4. QED
    BY <2>1, <2>3 DEF LeftCountersExact
<1>9. QED
  BY <1>2, <1>3, <1>4, <1>5, <1>6, <1>7, <1>8 DEF BooksInv

LEMMA BooksNext == IInv /\ BooksInv /\ [Next]_vars => BooksInv'
<1> SUFFICES ASSUME IInv, BooksInv, [Next]_vars PROVE BooksInv'
  OBVIOUS
<1>1. TypeOK /\ ReleaseInv /\ OwnerInv
  BY DEF IInv
<1>2. /\ ProducersInv /\ MetaInv /\ IOInv /\ CountInv /\ AnnounceInv
      /\ ItemInv /\ BatchInv /\ HalInv /\ LeftCountersExact
  BY DEF BooksInv
<1>3. /\ ProducersInv' /\ MetaInv' /\ IOInv' /\ CountInv' /\ AnnounceInv'
      /\ ItemInv' /\ BatchInv' /\ HalInv' /\ LeftCountersExact'
  BY <1>1, <1>2, ProducersNext, MetaNext, IONext, CountNext, AnnounceNext, ItemNext,
     BatchNext, HalNext, LeftNext
<1>4. QED
  BY <1>3 DEF BooksInv

\* The books of the frame agree with each other at every step of the node threads,
\* whichever of them is inside applyRelease: the inductive invariant that the
\* theorems below are consequences of.
THEOREM BooksInductive == Spec => [](IInv /\ BooksInv)
<1>1. IInv /\ BooksInv /\ [Next]_vars => (IInv /\ BooksInv)'
  BY BooksNext, TypeNext, WorkNext, ReleaseNext, OwnerNext DEF IInv
<1>2. QED
  BY <1>1, IInvInit, BooksInit, PTL DEF Spec

\* handleReleasedBuffers loses no Hal buffer and gives none back twice: one that
\* was acquired and left its item map is in the collector, with one thread, or
\* was given back once.
THEOREM NoHalBufferLost == Spec => []HalBuffersAccountedFor
<1>1. ASSUME IInv, BooksInv PROVE HalBuffersAccountedFor
  <2>1. OwnerInv /\ HalInv /\ Hal \subseteq Stream
    BY <1>1 DEF IInv, BooksInv, Hal, Of
  <2>2. ASSUME NEW s \in Hal
        PROVE  (IF s \in HalOf(collector) THEN 1 ELSE 0) + Cardinality(Keepers(s))
                    + returned[s] = IF s \in acquired \ slot THEN 1 ELSE 0
    <3>1. Keepers(s) = {n \in Node : s \in HalOf(batch[n])}
      BY DEF Keepers, HalOf
    <3>2. returned[s] \in {0, 1}
      BY <2>1 DEF OwnerInv
    <3>3. Keepers(s) = {} => Cardinality(Keepers(s)) = 0
      BY FS_EmptySet
    <3>4. CASE Keepers(s) = {}
      <4>1. s \in acquired \ slot <=> s \in HalOf(collector) \/ returned[s] = 1
        BY <2>1, <3>1, <3>4 DEF HalInv
      <4>2. s \in HalOf(collector) => returned[s] = 0
        BY <2>1 DEF OwnerInv
      <4>3. QED
        BY <3>2, <3>3, <3>4, <4>1, <4>2
    <3>5. CASE Keepers(s) # {}
      <4>1. PICK n \in Node : s \in HalOf(batch[n])
        BY <3>1, <3>5
      <4>2. Keepers(s) = {n}
        BY <2>1, <3>1, <4>1 DEF OwnerInv
      <4>3. Cardinality(Keepers(s)) = 1
        BY <4>2, FS_Singleton
      <4>4. s \notin HalOf(collector) /\ returned[s] = 0 /\ s \in acquired \ slot
        BY <2>1, <4>1 DEF OwnerInv, HalInv
      <4>5. QED
        BY <4>3, <4>4
    <3>6. QED
      BY <3>4, <3>5
  <2>3. QED
    BY <2>2 DEF HalBuffersAccountedFor, HalOf
<1>2. QED
  BY <1>1, BooksInductive, PTL

\* The number of metadata that updateFrame passes on as still to come is that of
\* the output metadata whose producers are not known to be done.
THEOREM MetadataCounted == Spec => []LeftCountersExact
<1>1. BooksInv => LeftCountersExact
  BY DEF BooksInv
<1>2. QED
  BY <1>1, BooksInductive, PTL

\* When no node is inside applyRelease's locks, mInFlightNodeCount counts the
\* nodes with a stream left in an IO set.
THEOREM NodesCounted == Spec => []InFlightNodeCountExact
<1>1. ASSUME IInv, BooksInv PROVE InFlightNodeCountExact
  <2>1. IOInv /\ CountInv
    BY <1>1 DEF BooksInv
  <2>2. ASSUME ~Locked, NEW n \in Node
        PROVE  n \in Unsettled <=> \E k \in IOSets : io[n][k] # {}
    <3>1. ASSUME NEW k \in IOSets, io[n][k] # {} PROVE n \in Unsettled
      <4>1. HasStreams(n)
        BY <2>1, <3>1, SetsOfStreams DEF IOInv, HasStreams
      <4>2. k \notin notified[n]
        BY <2>1, <3>1 DEF IOInv
      <4>3. QED
        BY <4>1, <4>2 DEF Unsettled
    <3>2. ASSUME n \in Unsettled, \A k \in IOSets : io[n][k] = {} PROVE FALSE
      BY <2>1, <2>2, <3>2 DEF CountInv, Unsettled, Locked
    <3>3. QED
      BY <3>1, <3>2
  <2>3. ~Locked => Unsettled = {n \in Node : \E k \in IOSets : io[n][k] # {}}
    BY <2>2 DEF Unsettled
  <2>4. QED
    BY <2>1, <2>3 DEF InFlightNodeCountExact, CountInv
<1>2. QED
  BY <1>1, BooksInductive, PTL

\* In a frame whose streams all have users, no item is left in the item maps when
\* the frame is announced as released.
THEOREM ReleasedIsEmpty ==
    ASSUME EveryStreamUsed
    PROVE  Spec => []ReleasedFrameIsEmpty
<1>1. Init => SlotInv
  <2> SUFFICES ASSUME Init, NEW s \in slot
               PROVE  \E n \in Node : \E k \in IOSets : s \in io[n][k]
    BY DEF SlotInv
  <2>1. s \in Stream
    BY DEF Init
  <2>2. PICK n \in Users[s] : TRUE
    BY <2>1 DEF EveryStreamUsed
  <2>3. PICK k \in IOSets : s \in IOStreams(n)[k]
    BY <2>1, InSomeSet
  <2>4. n \in Node /\ io[n] = IOStreams(n)
    BY <2>1 DEF Init, Users
  <2>5. QED
    BY <2>3, <2>4
<1>2. IInv /\ BooksInv /\ SlotInv /\ [Next]_vars => SlotInv'
  BY SlotNext DEF IInv, BooksInv
<1>3. ASSUME IInv, BooksInv, SlotInv PROVE ReleasedFrameIsEmpty
  <2> SUFFICES ASSUME frameReleased > 0
               PROVE  slot = {} /\ \A k \in Kinds : mNonReleasedNum[k] = 0
    BY DEF ReleasedFrameIsEmpty
  <2>1. Unsettled = {}
    BY <1>3 DEF BooksInv, AnnounceInv
  <2>2. slot = {}
    BY <1>3, <2>1, AllGivenUp DEF IInv, BooksInv, SlotInv
  <2>3. \A k \in Kinds : Of(k) \cap slot = {}
    BY <2>2
  <2>4. QED
    BY <1>3, <2>2, <2>3, FS_EmptySet DEF BooksInv, ItemInv
<1>4. QED
  BY <1>1, <1>2, <1>3, BooksInductive, PTL DEF Spec

(***************************************************************************)
(* The frame implements its contract.                                      *)
(***************************************************************************)
LEMMA ReleaseRefines ==
    ASSUME IInv, NEW n \in Node, NEW s \in Stream, n \in Users[s],
           released' = released \/ MarkReleased(s, n), UNCHANGED outside
    PROVE  [Contract!Next]_(Contract!vars)
<1>1. released \in [Stream -> SUBSET Node]
  BY DEF IInv, TypeOK
<1>2. UNCHANGED <<returned, delivered, frameReleased>>
  BY DEF outside
<1>3. released' = released \/ released' = [released EXCEPT ![s] = @ \cup {n}]
  BY DEF MarkReleased
<1>4. CASE n \in released[s]
  <2>1. released' = released
    BY <1>1, <1>3, <1>4
  <2>2. QED
    BY <1>2, <2>1 DEF Contract!vars
<1>5. CASE n \notin released[s]
  <2>1. returned[s] = 0
    BY <1>5 DEF IInv, OwnerInv, ReleaseInv
  <2>2. CASE released' = [released EXCEPT ![s] = @ \cup {n}]
    <3>1. Contract!Release(s, n)
      BY <1>2, <1>5, <2>1, <2>2 DEF Contract!Release
    <3>2. QED
      BY <3>1 DEF Contract!Next
  <2>3. CASE released' = released
    BY <1>2, <2>3 DEF Contract!vars
  <2>4. QED
    BY <1>3, <2>2, <2>3
<1>6. QED
  BY <1>4, <1>5

LEMMA StepRefines ==
    ASSUME IInv, BooksInv, [Next]_vars
    PROVE  [Contract!Next]_(Contract!vars)
<1>1. CASE UNCHANGED <<released, returned, delivered, frameReleased>>
  BY <1>1 DEF Contract!vars
<1>2. CASE BeginFlush \/ UNCHANGED vars
  BY <1>1, <1>2 DEF BeginFlush, vars, users, outside
<1>3. WorkInv /\ TypeOK
  BY DEF IInv
<1>4. ASSUME NEW n \in Node, NEW s \in Stream, GetBuffer(n, s) \/ AcquireBuffer(n, s)
      PROVE  [Contract!Next]_(Contract!vars)
  BY <1>1, <1>4 DEF GetBuffer, AcquireBuffer, Ask, outside
<1>5. ASSUME NEW n \in Node, NEW s \in Stream, AcquireFails(n, s)
      PROVE  [Contract!Next]_(Contract!vars)
  <2>1. s \in todo[n]
    BY <1>3, <1>5, AskWork
  <2>2. n \in Users[s]
    BY <1>3, <2>1 DEF WorkInv, Users
  <2>3. MarkReleased(s, n) /\ UNCHANGED outside
    BY <1>5 DEF AcquireFails, Ask
  <2>4. QED
    BY <2>2, <2>3, ReleaseRefines
<1>6. ASSUME NEW n \in Node, NEW s \in Stream, Mark(n, s) \/ MarkNull(n, s)
      PROVE  [Contract!Next]_(Contract!vars)
  <2>1. s \in held[n] \cup nulls[n]
    BY <1>6 DEF Mark, MarkNull
  <2>2. n \in Users[s]
    BY <1>3, <2>1 DEF WorkInv, Users
  <2>3. (released' = released \/ MarkReleased(s, n)) /\ UNCHANGED outside
    BY <1>6 DEF Mark, MarkNull
  <2>4. QED
    BY <2>2, <2>3, ReleaseRefines
<1>7. ASSUME NEW n \in Node, NEW s \in Stream, Visit(n, s)
      PROVE  [Contract!Next]_(Contract!vars)
  BY <1>1, <1>7 DEF Visit, users, outside
<1>8. ASSUME NEW n \in Node, NEW s \in Stream, ReturnBuffer(n, s)
      PROVE  [Contract!Next]_(Contract!vars)
  <2>1. s \in HalOf(batch[n])
    BY <1>8 DEF ReturnBuffer, HalOf
  <2>2. returned[s] = 0 /\ Users[s] \subseteq released[s]
    BY <2>1 DEF IInv, OwnerInv, ReleaseInv
  <2>3. /\ returned' = [returned EXCEPT ![s] = 1]
        /\ UNCHANGED <<released, delivered, frameReleased>>
    BY <1>8, <2>2 DEF ReturnBuffer
  <2>4. Contract!Return(s)
    BY <2>2, <2>3 DEF Contract!Return
  <2>5. QED
    BY <2>4 DEF Contract!Next
<1>9. ASSUME NEW n \in Node, Callback(n)
      PROVE  [Contract!Next]_(Contract!vars)
  <2>1. PICK S : S = MetaOf(batch[n])
    OBVIOUS
  <2>2. S \subseteq Stream
    BY <1>3, <2>1 DEF TypeOK, Batches, MetaOf, Of
  <2>3. \A s \in S : Producers[s] \subseteq released[s] /\ delivered[s] = 0
    BY <2>1 DEF BooksInv, MetaInv, ProducersInv
  <2>4. delivered' = [s \in Stream |-> IF s \in S THEN delivered[s] + 1 ELSE delivered[s]]
    BY <1>9, <2>1 DEF Callback, MetaOf
  <2>5. delivered' = [s \in Stream |-> IF s \in S THEN 1 ELSE delivered[s]]
    BY <2>3, <2>4
  <2>6. UNCHANGED <<released, returned, frameReleased>>
    BY <1>9 DEF Callback, users
  <2>7. Contract!Deliver(S)
    BY <2>3, <2>5, <2>6 DEF Contract!Deliver
  <2>8. QED
    BY <2>2, <2>7 DEF Contract!Next
<1>10. ASSUME NEW n \in Node, Notify(n)
       PROVE  [Contract!Next]_(Contract!vars)
  <2>1. UNCHANGED <<released, returned, delivered>>
    BY <1>10 DEF Notify, users
  <2>2. CASE "FRAME_RELEASED" \in messages[n]
    <3>1. Unsettled = {} /\ frameReleased = 0
      BY <2>2 DEF BooksInv, AnnounceInv
    <3>2. \A s \in Stream : Users[s] \subseteq released[s]
      BY <1>3, <3>1, AllGivenUp DEF BooksInv
    <3>3. frameReleased' = 1
      BY <1>10, <2>2, <3>1 DEF Notify
    <3>4. Contract!FrameReleased
      BY <2>1, <3>1, <3>2, <3>3 DEF Contract!FrameReleased
    <3>5. QED
      BY <3>4 DEF Contract!Next
  <2>3. CASE "FRAME_RELEASED" \notin messages[n]
    <3>1. frameReleased' = frameReleased
      BY <1>3, <1>10, <2>3 DEF Notify, TypeOK
    <3>2. QED
      BY <1>1, <2>1, <3>1
  <2>4. QED
    BY <2>2, <2>3
<1>11. ASSUME NEW n \in Node,
              \/ Start(n) \/ ApplyRelease(n) \/ SettleNode(n) \/ Drain(n)
              \/ \E m \in Node : Dispatch(n, m)
       PROVE  [Contract!Next]_(Contract!vars)
  BY <1>1, <1>11 DEF Start, ApplyRelease, SettleNode, Drain, Dispatch, users, outside
<1>12. QED
  BY <1>2, <1>4, <1>5, <1>6, <1>7, <1>8, <1>9, <1>10, <1>11 DEF Next, Step

\* The frame keeps its contract, for every tree of nodes and every use of the
\* streams: item maps, collector, counters and the threads that cross in
\* applyRelease are nothing but a way to release, to give back once, to deliver
\* once and to announce once.
THEOREM FrameKeepsContract == Spec => ImplementsContract
<1>1. Init => Contract!Init
  BY DEF Init, Contract!Init
<1>2. QED
  BY <1>1, BooksInductive, StepRefines, PTL
     DEF Spec, ImplementsContract, Contract!Spec
=============================================================================
