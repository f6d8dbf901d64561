------------------------- MODULE PipelineFrame_proofs -------------------------
(***************************************************************************)
(* Proofs about PipelineFrame, for every pipeline graph and every          *)
(* assignment of streams to nodes.                                         *)
(***************************************************************************)
EXTENDS PipelineFrame, FiniteSetTheorems, TLAPS

(***************************************************************************)
(* Type correctness.                                                       *)
(***************************************************************************)

\* The counters the frame is configured with are natural numbers.
LEMMA FiniteStreams ==
    /\ \A kind \in Kinds : Cardinality(Of(kind)) \in Nat
    /\ \A kind \in Kinds : Cardinality(OutMeta(kind)) \in Nat
    /\ Cardinality({n \in Node : In[n] \cup Out[n] # {}}) \in Nat
<1>1. IsFiniteSet(Stream) /\ IsFiniteSet(Node)
  BY FrameAssumption
<1>2. \A S \in SUBSET Stream : Cardinality(S) \in Nat
  BY <1>1, FS_Subset, FS_CardinalityType
<1>3. \A S \in SUBSET Node : Cardinality(S) \in Nat
  BY <1>1, FS_Subset, FS_CardinalityType
<1>4. \A kind \in Kinds : Of(kind) \subseteq Stream /\ OutMeta(kind) \subseteq Stream
  BY DEF Of, OutMeta
<1>5. {n \in Node : In[n] \cup Out[n] # {}} \subseteq Node
  OBVIOUS
<1>6. QED
  BY <1>2, <1>3, <1>4, <1>5

LEMMA TypeInit == Init => TypeOK
<1> SUFFICES ASSUME Init PROVE TypeOK
  OBVIOUS
<1> USE DEF Init
<1>1. NothingCollected \in Batches
  BY DEF NothingCollected, Batches
<1>2. collector \in Batches
  <2>1. /\ Cardinality(OutMeta("AppMeta")) \in Int
        /\ Cardinality(OutMeta("HalMeta")) \in Int
    BY FiniteStreams DEF Kinds
  <2>2. \A i, j \in Int :
            [NothingCollected EXCEPT !.appMetaLeft = i, !.halMetaLeft = j] \in Batches
    BY DEF NothingCollected, Batches
  <2>3. QED
    BY <2>1, <2>2
<1>3. mNonReleasedNum \in Counters /\ mInFlightNodeCount \in Int
  BY FiniteStreams DEF Counters
<1>4. io \in [Node -> [IOSets -> SUBSET Stream]]
  BY FrameAssumption DEF IOStreams, IOSets, Image, Meta, Of
<1>5. QED
  BY <1>1, <1>2, <1>3, <1>4, FrameAssumption DEF TypeOK

LEMMA AddOne ==
    ASSUME NEW D, NEW R, NEW f \in [D -> SUBSET R], NEW d \in D, NEW r \in R
    PROVE  [f EXCEPT ![d] = @ \cup {r}] \in [D -> SUBSET R]
OBVIOUS

LEMMA MarkReleasedType ==
    ASSUME TypeOK, NEW n \in Node, NEW s \in Stream, MarkReleased(s, n)
    PROVE  released' \in [Stream -> SUBSET Node]
<1>1. released \in [Stream -> SUBSET Node]
  BY DEF TypeOK
<1>2. QED
  BY <1>1, AddOne DEF MarkReleased

LEMMA HandOutType ==
    ASSUME TypeOK, NEW n \in Node, NEW s \in Stream, HandOut(n, s)
    PROVE  /\ held' \in [Node -> SUBSET Stream]
           /\ nulls' \in [Node -> SUBSET Stream]
<1>1. /\ held \in [Node -> SUBSET Stream]
      /\ nulls \in [Node -> SUBSET Stream]
  BY DEF TypeOK
<1>2. CASE GotBuffer(n, s)
  BY <1>1, <1>2, AddOne DEF GotBuffer
<1>3. CASE GotNull(n, s)
  BY <1>1, <1>3, AddOne DEF GotNull
<1>4. QED
  BY <1>2, <1>3 DEF HandOut

LEMMA TypeNext == TypeOK /\ [Next]_vars => TypeOK'
<1> SUFFICES ASSUME TypeOK, [Next]_vars PROVE TypeOK'
  OBVIOUS
<1>1. CASE BeginFlush
  BY <1>1 DEF TypeOK, BeginFlush, users, items, books, work, owned, outside
<1>2. ASSUME NEW n \in Node, Start(n) PROVE TypeOK'
  BY <1>2 DEF TypeOK, Start, users, items, books, work, owned, outside
<1>3. ASSUME NEW n \in Node, NEW s \in Stream, GetBuffer(n, s) PROVE TypeOK'
  <2>1. HandOut(n, s)
    BY <1>3 DEF GetBuffer
  <2>2. QED
    BY <1>3, <2>1, HandOutType DEF TypeOK, GetBuffer, Ask, books, owned, outside
<1>4. ASSUME NEW n \in Node, NEW s \in Stream, AcquireBuffer(n, s) PROVE TypeOK'
  <2>1. HandOut(n, s)
    BY <1>4 DEF AcquireBuffer
  <2>2. QED
    BY <1>4, <2>1, HandOutType DEF TypeOK, AcquireBuffer, Ask, books, owned, outside
<1>5. ASSUME NEW n \in Node, NEW s \in Stream, AcquireFails(n, s) PROVE TypeOK'
  BY <1>5 DEF TypeOK, AcquireFails, Ask, MarkReleased, GotNull,
              books, owned, outside
<1>6. ASSUME NEW n \in Node, NEW s \in Stream, Mark(n, s) PROVE TypeOK'
  <2>1. released' \in [Stream -> SUBSET Node]
    <3>1. released' = released \/ MarkReleased(s, n)
      BY <1>6 DEF Mark
    <3>2. QED
      BY <3>1, MarkReleasedType DEF TypeOK
  <2>2. crashed' \in BOOLEAN
    BY <1>6 DEF TypeOK, Mark
  <2>3. QED
    BY <1>6, <2>1, <2>2 DEF TypeOK, Mark, items, books, owned, outside
<1>7. ASSUME NEW n \in Node, NEW s \in Stream, MarkNull(n, s) PROVE TypeOK'
  <2>1. released' \in [Stream -> SUBSET Node]
    <3>1. released' = released \/ MarkReleased(s, n)
      BY <1>7 DEF MarkNull
    <3>2. QED
      BY <3>1, MarkReleasedType DEF TypeOK
  <2>2. crashed' \in BOOLEAN
    BY <1>7 DEF TypeOK, MarkNull
  <2>3. QED
    BY <1>7, <2>1, <2>2 DEF TypeOK, MarkNull, items, books, owned, outside
<1>8. ASSUME NEW n \in Node, ApplyRelease(n) PROVE TypeOK'
  <2>1. Pending(n) \in SUBSET Stream
    BY DEF TypeOK, Pending, LiveSets
  <2>2. QED
    BY <1>8, <2>1 DEF TypeOK, ApplyRelease, users, items, books, work, outside
<1>9. ASSUME NEW n \in Node, NEW s \in Stream, Visit(n, s) PROVE TypeOK'
  <2>1. Collect(n, s) \in Batches
    BY FrameAssumption DEF TypeOK, Batches, Collect, Of
  <2>2. Kind[s] \in Kinds
    BY FrameAssumption
  <2>3. mNonReleasedNum' \in Counters
    BY <1>9, <2>2 DEF TypeOK, Visit, Counters, UsersDone
  <2>4. io' \in [Node -> [IOSets -> SUBSET Stream]]
    BY <1>9 DEF TypeOK, Visit
  <2>5. QED
    BY <1>9, <2>1, <2>3, <2>4 DEF TypeOK, Visit, users, work, outside
<1>10. ASSUME NEW n \in Node, SettleNode(n) PROVE TypeOK'
  <2>1. NewlyEmpty(n) \subseteq IOSets
    BY DEF NewlyEmpty, LiveSets
  <2>2. QED
    BY <1>10, <2>1 DEF TypeOK, SettleNode, users, items, work, outside
<1>11. ASSUME NEW n \in Node, Drain(n) PROVE TypeOK'
  BY <1>11 DEF TypeOK, Batches, Drain, users, items, books, work, outside
<1>12. ASSUME NEW n \in Node, Callback(n) PROVE TypeOK'
  <2>1. batch' \in [Node -> Batches]
    BY <1>12 DEF TypeOK, Batches, Callback
  <2>2. lastPartial' \in BOOLEAN
    BY <1>12 DEF TypeOK, Callback
  <2>3. delivered' \in [Stream -> Nat]
    BY <1>12 DEF TypeOK, Callback
  <2>4. QED
    BY <1>12, <2>1, <2>2, <2>3 DEF TypeOK, Callback, users, items, books, work
<1>13. ASSUME NEW n \in Node, NEW s \in Stream, ReturnBuffer(n, s) PROVE TypeOK'
  <2>1. batch' \in [Node -> Batches]
    BY <1>13 DEF TypeOK, Batches, ReturnBuffer
  <2>2. returned' \in [Stream -> Nat]
    BY <1>13 DEF TypeOK, ReturnBuffer
  <2>3. QED
    BY <1>13, <2>1, <2>2 DEF TypeOK, ReturnBuffer, items, books, work
<1>14. ASSUME NEW n \in Node, Notify(n) PROVE TypeOK'
  BY <1>14 DEF TypeOK, Notify, users, items, books, work
<1>15. ASSUME NEW n \in Node, NEW m \in Node, Dispatch(n, m) PROVE TypeOK'
  BY <1>15 DEF TypeOK, Dispatch, users, items, books, work, owned, outside
<1>16. CASE UNCHANGED vars
  BY <1>16 DEF TypeOK, vars, users, items, books, work, owned, outside
<1>17. QED
  BY <1>1, <1>2, <1>3, <1>4, <1>5, <1>6, <1>7, <1>8, <1>9, <1>10, <1>11,
     <1>12, <1>13, <1>14, <1>15, <1>16 DEF Next, Step

\* Whatever the graph and the streams, the books of a frame stay well-formed:
\* handleReleasedBuffers never mixes image and metadata buffers, and the counts
\* of applyRelease stay integers over the four item maps.
THEOREM TypeCorrect == Spec => []TypeOK
<1>1. QED
  BY TypeInit, TypeNext, PTL DEF Spec

(***************************************************************************)
(* The inductive invariant.                                                *)
(***************************************************************************)

\* A node deals with each of its streams once: it has yet to ask for it, or it
\* holds its buffer, or it will mark it without one.  It has not released what
\* it has yet to ask for or holds, and what it holds is in the item map.
WorkInv ==
    \A n \in Node :
        /\ todo[n] \cup held[n] \cup nulls[n] \subseteq In[n] \cup Out[n]
        /\ todo[n] \cap held[n] = {} /\ todo[n] \cap nulls[n] = {}
        /\ held[n] \cap nulls[n] = {}
        /\ \A s \in todo[n] \cup held[n] : n \notin released[s]
        /\ held[n] \subseteq slot

\* The item maps lose exactly the items whose RELEASE bit is set, and the bit
\* says that all users have released.
ReleaseInv ==
    /\ slot = Stream \ allReleased
    /\ \A s \in allReleased : Users[s] \subseteq released[s]

\* The Hal buffers in the collector, or in what a thread took out of it.
HalOf(b) == b.halImage \cup b.halMeta

\* A Hal buffer is in one place at a time, once its item is out of the map.
OwnerInv ==
    /\ \A s \in HalOf(collector) :
        /\ s \in allReleased /\ returned[s] = 0
        /\ \A n \in Node : s \notin HalOf(batch[n])
    /\ \A n \in Node : \A s \in HalOf(batch[n]) :
        /\ s \in allReleased /\ returned[s] = 0
        /\ \A m \in Node : s \in HalOf(batch[m]) => m = n
    /\ \A s \in Stream : returned[s] \in {0, 1}
    /\ \A s \in Stream : returned[s] = 1 => s \in allReleased

IInv == TypeOK /\ WorkInv /\ ReleaseInv /\ OwnerInv

LEMMA IInvInit == Init => IInv
<1> SUFFICES ASSUME Init PROVE IInv
  OBVIOUS
<1>1. TypeOK
  BY TypeInit
<1>2. WorkInv
  BY FrameAssumption DEF WorkInv, Init
<1>3. ReleaseInv
  BY DEF ReleaseInv, Init
<1>4. OwnerInv
  BY DEF OwnerInv, HalOf, Init, NothingCollected
<1>5. QED
  BY <1>1, <1>2, <1>3, <1>4 DEF IInv

\* Releases are only ever added.
LEMMA ReleasedGrows ==
    ASSUME TypeOK, [Next]_vars
    PROVE  \A s \in Stream : released[s] \subseteq released'[s]
<1>1. ASSUME NEW n \in Node, NEW s \in Stream, MarkReleased(s, n)
      PROVE  \A r \in Stream : released[r] \subseteq released'[r]
  BY <1>1 DEF MarkReleased, TypeOK
<1>2. CASE released' = released
  BY <1>2
<1>3. CASE BeginFlush \/ UNCHANGED vars
  BY <1>2, <1>3 DEF BeginFlush, vars, users
<1>4. ASSUME NEW n \in Node, NEW s \in Stream,
             GetBuffer(n, s) \/ AcquireBuffer(n, s) \/ Visit(n, s)
                \/ ReturnBuffer(n, s)
      PROVE  released' = released
  BY <1>4 DEF GetBuffer, AcquireBuffer, Visit, ReturnBuffer, users
<1>5. ASSUME NEW n \in Node, NEW s \in Stream,
             AcquireFails(n, s) \/ Mark(n, s) \/ MarkNull(n, s)
      PROVE  released' = released \/ MarkReleased(s, n)
  BY <1>5 DEF AcquireFails, Mark, MarkNull
<1>6. ASSUME NEW n \in Node,
             \/ Start(n) \/ ApplyRelease(n) \/ SettleNode(n) \/ Drain(n)
             \/ Callback(n) \/ Notify(n) \/ \E m \in Node : Dispatch(n, m)
      PROVE  released' = released
  BY <1>6 DEF Start, ApplyRelease, SettleNode, Drain, Callback, Notify, Dispatch,
              users
<1>7. QED
  BY <1>1, <1>2, <1>3, <1>4, <1>5, <1>6 DEF Next, Step

LEMMA MapsChangeInVisit ==
    ASSUME [Next]_vars
    PROVE  \/ slot' = slot /\ allReleased' = allReleased
           \/ \E n \in Node, s \in Stream : Visit(n, s)
<1>1. CASE BeginFlush \/ UNCHANGED vars
  BY <1>1 DEF BeginFlush, vars, items
<1>2. ASSUME NEW n \in Node, NEW s \in Stream,
             \/ GetBuffer(n, s) \/ AcquireBuffer(n, s) \/ AcquireFails(n, s)
             \/ Mark(n, s) \/ MarkNull(n, s) \/ ReturnBuffer(n, s)
      PROVE  slot' = slot /\ allReleased' = allReleased
  BY <1>2 DEF GetBuffer, AcquireBuffer, AcquireFails, Ask, Mark, MarkNull,
              ReturnBuffer, items
<1>3. ASSUME NEW n \in Node,
             \/ Start(n) \/ ApplyRelease(n) \/ SettleNode(n) \/ Drain(n)
             \/ Callback(n) \/ Notify(n) \/ \E m \in Node : Dispatch(n, m)
      PROVE  slot' = slot /\ allReleased' = allReleased
  BY <1>3 DEF Start, ApplyRelease, SettleNode, Drain, Callback, Notify, Dispatch,
              items
<1>4. QED
  BY <1>1, <1>2, <1>3 DEF Next, Step

\* Only Visit sets a RELEASE bit, and it takes the item out of the map with it.
LEMMA ReleaseNext == TypeOK /\ ReleaseInv /\ [Next]_vars => ReleaseInv'
<1> SUFFICES ASSUME TypeOK, ReleaseInv, [Next]_vars PROVE ReleaseInv'
  OBVIOUS
<1>1. \A s \in Stream : released[s] \subseteq released'[s]
  BY ReleasedGrows
<1>2. CASE slot' = slot /\ allReleased' = allReleased
  BY <1>1, <1>2 DEF ReleaseInv, TypeOK
<1>3. ASSUME NEW n \in Node, NEW s \in Stream, Visit(n, s) PROVE ReleaseInv'
  <2>1. CASE UsersDone(n, s)
    <3>1. slot' = slot \ {s} /\ allReleased' = allReleased \cup {s}
      BY <1>3, <2>1 DEF Visit
    <3>2. Users[s] \subseteq released[s]
      BY <2>1 DEF UsersDone, AllUsersReleased
    <3>3. QED
      BY <1>1, <3>1, <3>2 DEF ReleaseInv, TypeOK
  <2>2. CASE ~UsersDone(n, s)
    BY <1>2, <1>3, <2>2 DEF Visit
  <2>3. QED
    BY <2>1, <2>2
<1>4. QED
  BY <1>2, <1>3, MapsChangeInVisit

\* How the steps of a node change what it works on.
LEMMA AskWork ==
    ASSUME TypeOK, NEW n \in Node, NEW s \in Stream,
           GetBuffer(n, s) \/ AcquireBuffer(n, s) \/ AcquireFails(n, s)
    PROVE  /\ s \in todo[n] /\ todo' = [todo EXCEPT ![n] = @ \ {s}]
           /\ slot' = slot
           /\ \/ /\ held' = [held EXCEPT ![n] = @ \cup {s}]
                 /\ s \in slot /\ nulls' = nulls
              \/ /\ nulls' = [nulls EXCEPT ![n] = @ \cup {s}]
                 /\ held' = held
              \/ held' = held /\ nulls' = nulls
<1>1. s \in Askable(n) /\ todo' = [todo EXCEPT ![n] = @ \ {s}] /\ slot' = slot
  BY DEF GetBuffer, AcquireBuffer, AcquireFails, Ask
<1>2. s \in todo[n]
  BY <1>1 DEF Askable, FirstList
<1>3. CASE HandOut(n, s) /\ InMap(s) /\ GotBuffer(n, s)
  BY <1>1, <1>2, <1>3 DEF InMap, GotBuffer
<1>4. CASE GotNull(n, s)
  BY <1>1, <1>2, <1>4 DEF GotNull
<1>5. GotNull(n, s) \/ (HandOut(n, s) /\ InMap(s) /\ GotBuffer(n, s))
  BY DEF GetBuffer, AcquireBuffer, AcquireFails, HandOut
<1>6. QED
  BY <1>3, <1>4, <1>5

LEMMA AskReleased ==
    ASSUME NEW n \in Node, NEW s \in Stream
    PROVE  /\ GetBuffer(n, s) \/ AcquireBuffer(n, s) => released' = released
           /\ AcquireFails(n, s) => MarkReleased(s, n)
BY DEF GetBuffer, AcquireBuffer, AcquireFails

\* The invariant survives a node's asking for a stream, whatever it gets, and its
\* marking a stream.
LEMMA WorkAsk ==
    ASSUME TypeOK, WorkInv, NEW n \in Node, NEW s \in todo[n],
           todo' = [todo EXCEPT ![n] = @ \ {s}], slot' = slot,
           \/ /\ held' = [held EXCEPT ![n] = @ \cup {s}]
              /\ s \in slot /\ nulls' = nulls
              /\ released' = released
           \/ /\ nulls' = [nulls EXCEPT ![n] = @ \cup {s}] /\ held' = held
           \/ held' = held /\ nulls' = nulls,
           released' = released \/ released' = [released EXCEPT ![s] = @ \cup {n}]
    PROVE  WorkInv'
<1> SUFFICES ASSUME NEW m \in Node
             PROVE  /\ todo'[m] \cup held'[m] \cup nulls'[m] \subseteq In[m] \cup Out[m]
                    /\ todo'[m] \cap held'[m] = {} /\ todo'[m] \cap nulls'[m] = {}
                    /\ held'[m] \cap nulls'[m] = {}
                    /\ \A r \in todo'[m] \cup held'[m] : m \notin released'[r]
                    /\ held'[m] \subseteq slot'
  BY DEF WorkInv
<1>1. /\ todo \in [Node -> SUBSET Stream] /\ held \in [Node -> SUBSET Stream]
      /\ nulls \in [Node -> SUBSET Stream] /\ released \in [Stream -> SUBSET Node]
  BY DEF TypeOK
<1>2. todo'[m] = IF m = n THEN todo[n] \ {s} ELSE todo[m]
  BY <1>1
<1>3. s \in Stream
  BY <1>1
<1>4. \A r \in Stream : m \in released'[r] => m \in released[r] \/ (m = n /\ r = s)
  BY <1>1, <1>3
<1>5. CASE held' = held /\ nulls' = nulls
  BY <1>1, <1>2, <1>4, <1>5 DEF WorkInv
<1>6. CASE nulls' = [nulls EXCEPT ![n] = @ \cup {s}] /\ held' = held
  <2>1. nulls'[m] = IF m = n THEN nulls[n] \cup {s} ELSE nulls[m]
    BY <1>1, <1>6
  <2>2. QED
    BY <1>1, <1>2, <1>4, <1>6, <2>1 DEF WorkInv
<1>7. CASE /\ held' = [held EXCEPT ![n] = @ \cup {s}]
           /\ s \in slot /\ nulls' = nulls /\ released' = released
  <2>1. held'[m] = IF m = n THEN held[n] \cup {s} ELSE held[m]
    BY <1>1, <1>7
  <2>2. QED
    BY <1>1, <1>2, <1>7, <2>1 DEF WorkInv
<1>8. QED
  BY <1>5, <1>6, <1>7

LEMMA WorkMark ==
    ASSUME TypeOK, WorkInv, NEW n \in Node, NEW s \in Stream,
           todo' = todo, slot' = slot,
           \/ /\ s \in held[n] /\ held' = [held EXCEPT ![n] = @ \ {s}]
              /\ nulls' = nulls
           \/ /\ s \in nulls[n] /\ nulls' = [nulls EXCEPT ![n] = @ \ {s}]
              /\ held' = held,
           released' = released \/ released' = [released EXCEPT ![s] = @ \cup {n}]
    PROVE  WorkInv'
<1> SUFFICES ASSUME NEW m \in Node
             PROVE  /\ todo'[m] \cup held'[m] \cup nulls'[m] \subseteq In[m] \cup Out[m]
                    /\ todo'[m] \cap held'[m] = {} /\ todo'[m] \cap nulls'[m] = {}
                    /\ held'[m] \cap nulls'[m] = {}
                    /\ \A r \in todo'[m] \cup held'[m] : m \notin released'[r]
                    /\ held'[m] \subseteq slot'
  BY DEF WorkInv
<1>1. /\ todo \in [Node -> SUBSET Stream] /\ held \in [Node -> SUBSET Stream]
      /\ nulls \in [Node -> SUBSET Stream] /\ released \in [Stream -> SUBSET Node]
  BY DEF TypeOK
<1>2. \A r \in Stream : m \in released'[r] => m \in released[r] \/ (m = n /\ r = s)
  BY <1>1
<1>3. CASE /\ s \in held[n] /\ held' = [held EXCEPT ![n] = @ \ {s}]
           /\ nulls' = nulls
  <2>1. held'[m] = IF m = n THEN held[n] \ {s} ELSE held[m]
    BY <1>1, <1>3
  <2>2. QED
    BY <1>1, <1>2, <1>3, <2>1 DEF WorkInv
<1>4. CASE /\ s \in nulls[n] /\ nulls' = [nulls EXCEPT ![n] = @ \ {s}]
           /\ held' = held
  <2>1. nulls'[m] = IF m = n THEN nulls[n] \ {s} ELSE nulls[m]
    BY <1>1, <1>4
  <2>2. QED
    BY <1>1, <1>2, <1>4, <2>1 DEF WorkInv
<1>5. QED
  BY <1>3, <1>4

LEMMA WorkNext == TypeOK /\ WorkInv /\ ReleaseInv /\ [Next]_vars => WorkInv'
<1> SUFFICES ASSUME TypeOK, WorkInv, ReleaseInv, [Next]_vars PROVE WorkInv'
  OBVIOUS
<1>1. CASE UNCHANGED <<work, released, slot>>
  BY <1>1 DEF WorkInv, work
<1>2. CASE BeginFlush \/ UNCHANGED vars
  BY <1>1, <1>2 DEF BeginFlush, vars, users, items
<1>3. ASSUME NEW n \in Node, NEW s \in Stream,
             GetBuffer(n, s) \/ AcquireBuffer(n, s)
      PROVE  WorkInv'
  BY <1>3, AskWork, AskReleased, WorkAsk
<1>4. ASSUME NEW n \in Node, NEW s \in Stream, AcquireFails(n, s)
      PROVE  WorkInv'
  <2>1. released' = released \/ released' = [released EXCEPT ![s] = @ \cup {n}]
    BY <1>4, AskReleased DEF MarkReleased
  <2>2. \/ nulls' = [nulls EXCEPT ![n] = @ \cup {s}] /\ held' = held
        \/ held' = held /\ nulls' = nulls
    BY <1>4 DEF AcquireFails, GotNull
  <2>3. QED
    BY <1>4, <2>1, <2>2, AskWork, WorkAsk
<1>5. ASSUME NEW n \in Node, NEW s \in Stream, Mark(n, s) PROVE WorkInv'
  <2>1. /\ s \in held[n] /\ held' = [held EXCEPT ![n] = @ \ {s}]
        /\ UNCHANGED <<todo, nulls, slot>>
    BY <1>5 DEF Mark, items
  <2>2. released' = released \/ released' = [released EXCEPT ![s] = @ \cup {n}]
    BY <1>5 DEF Mark, MarkReleased
  <2>3. QED
    BY <2>1, <2>2, WorkMark
<1>6. ASSUME NEW n \in Node, NEW s \in Stream, MarkNull(n, s) PROVE WorkInv'
  <2>1. /\ s \in nulls[n] /\ nulls' = [nulls EXCEPT ![n] = @ \ {s}]
        /\ UNCHANGED <<todo, held, slot>>
    BY <1>6 DEF MarkNull, items
  <2>2. released' = released \/ released' = [released EXCEPT ![s] = @ \cup {n}]
    BY <1>6 DEF MarkNull, MarkReleased
  <2>3. QED
    BY <2>1, <2>2, WorkMark
<1>7. ASSUME NEW n \in Node, NEW s \in Stream, Visit(n, s) PROVE WorkInv'
  <2>1. UNCHANGED <<work, released>>
    BY <1>7 DEF Visit, users
  <2>2. slot' = slot \/ (UsersDone(n, s) /\ slot' = slot \ {s})
    BY <1>7 DEF Visit
  <2>3. ASSUME UsersDone(n, s), NEW m \in Node PROVE s \notin held[m]
    <3>1. Users[s] \subseteq released[s]
      BY <2>3 DEF UsersDone, AllUsersReleased
    <3>2. s \in held[m] => m \in Users[s] /\ m \notin released[s]
      BY DEF WorkInv, Users
    <3>3. QED
      BY <3>1, <3>2
  <2>4. QED
    BY <2>1, <2>2, <2>3 DEF WorkInv, work
<1>8. ASSUME NEW n \in Node,
             \/ Start(n) \/ ApplyRelease(n) \/ SettleNode(n) \/ Drain(n)
             \/ Callback(n) \/ Notify(n) \/ \E m \in Node : Dispatch(n, m)
      PROVE  WorkInv'
  BY <1>1, <1>8 DEF Start, ApplyRelease, SettleNode, Drain, Callback, Notify,
                    Dispatch, users, items
<1>9. ASSUME NEW n \in Node, NEW s \in Stream, ReturnBuffer(n, s) PROVE WorkInv'
  BY <1>1, <1>9 DEF ReturnBuffer, items
<1>10. QED
  BY <1>2, <1>3, <1>4, <1>5, <1>6, <1>7, <1>8, <1>9 DEF Next, Step

\* Where the Hal buffers are is changed by Visit, Drain and ReturnBuffer.
LEMMA OwnerNext == TypeOK /\ ReleaseInv /\ OwnerInv /\ [Next]_vars => OwnerInv'
<1> SUFFICES ASSUME TypeOK, ReleaseInv, OwnerInv, [Next]_vars PROVE OwnerInv'
  OBVIOUS
<1>1. CASE UNCHANGED <<collector, batch, returned, allReleased>>
  BY <1>1 DEF OwnerInv, HalOf
<1>2. CASE BeginFlush \/ UNCHANGED vars
  BY <1>1, <1>2 DEF BeginFlush, vars, items, owned, outside
<1>3. ASSUME NEW n \in Node, NEW s \in Stream,
             \/ GetBuffer(n, s) \/ AcquireBuffer(n, s) \/ AcquireFails(n, s)
             \/ Mark(n, s) \/ MarkNull(n, s)
      PROVE  OwnerInv'
  BY <1>1, <1>3 DEF GetBuffer, AcquireBuffer, AcquireFails, Ask, Mark, MarkNull,
                    items, owned, outside
<1>4. ASSUME NEW n \in Node, NEW s \in Stream, Visit(n, s) PROVE OwnerInv'
  <2>1. batch' = batch /\ returned' = returned
    BY <1>4 DEF Visit, outside
  <2>2. allReleased \subseteq allReleased'
    BY <1>4 DEF Visit
  <2>3. HalOf(collector') \subseteq HalOf(collector) \cup
            (IF UsersDone(n, s) THEN {s} ELSE {})
    BY <1>4 DEF Visit, Collect, HalOf
  <2>4. UsersDone(n, s) => s \notin allReleased /\ s \in allReleased'
    BY <1>4 DEF Visit, UsersDone
  <2>5. UsersDone(n, s) => returned[s] = 0 /\ \A m \in Node : s \notin HalOf(batch[m])
    BY <2>4 DEF OwnerInv
  <2>6. QED
    BY <2>1, <2>2, <2>3, <2>4, <2>5 DEF OwnerInv
<1>5. ASSUME NEW n \in Node, Drain(n) PROVE OwnerInv'
  <2>1. HalOf(collector') = {}
    BY <1>5 DEF Drain, HalOf, TypeOK, Batches
  <2>2. \A m \in Node : batch'[m] = IF m = n THEN collector ELSE batch[m]
    BY <1>5 DEF Drain, TypeOK
  <2>3. returned' = returned /\ allReleased' = allReleased
    BY <1>5 DEF Drain, items, outside
  <2>4. QED
    BY <2>1, <2>2, <2>3 DEF OwnerInv
<1>6. ASSUME NEW n \in Node, Callback(n) PROVE OwnerInv'
  <2>1. UNCHANGED <<collector, returned, allReleased>>
    BY <1>6 DEF Callback, items
  <2>2. \A m \in Node : HalOf(batch'[m]) = HalOf(batch[m])
    BY <1>6 DEF Callback, HalOf, TypeOK, Batches
  <2>3. QED
    BY <2>1, <2>2 DEF OwnerInv
<1>7. ASSUME NEW n \in Node, NEW s \in Stream, ReturnBuffer(n, s) PROVE OwnerInv'
  <2>1. UNCHANGED <<collector, allReleased>>
    BY <1>7 DEF ReturnBuffer, items
  <2>2. s \in HalOf(batch[n])
    BY <1>7 DEF ReturnBuffer, HalOf
  <2>3. \A m \in Node : HalOf(batch'[m]) =
            IF m = n THEN HalOf(batch[n]) \ {s} ELSE HalOf(batch[m])
    BY <1>7 DEF ReturnBuffer, HalOf, TypeOK, Batches
  <2>4. \A r \in Stream : returned'[r] = IF r = s THEN 1 ELSE returned[r]
    BY <1>7, <2>2 DEF ReturnBuffer, TypeOK, OwnerInv
  <2>5. \A m \in Node : HalOf(batch[m]) \subseteq Stream
    BY DEF TypeOK, Batches, HalOf, Of
  <2>6. HalOf(collector) \subseteq Stream
    BY DEF TypeOK, Batches, HalOf, Of
  <2>7. QED
    BY <2>1, <2>2, <2>3, <2>4, <2>5, <2>6 DEF OwnerInv
<1>8. ASSUME NEW n \in Node,
             \/ Start(n) \/ ApplyRelease(n) \/ SettleNode(n)
             \/ Notify(n) \/ \E m \in Node : Dispatch(n, m)
      PROVE  OwnerInv'
  BY <1>1, <1>8 DEF Start, ApplyRelease, SettleNode, Notify, Dispatch,
                    items, owned, outside
<1>9. QED
  BY <1>2, <1>3, <1>4, <1>5, <1>6, <1>7, <1>8 DEF Next, Step

\* Whatever order the node threads take the locks in, a buffer that left its item
\* map was released by all its users and has one owner, and a node that works on a
\* stream has not released it: the inductive invariant behind the theorems below.
THEOREM Inductive == Spec => []IInv
<1>1. IInv /\ [Next]_vars => IInv'
  BY TypeNext, WorkNext, ReleaseNext, OwnerNext DEF IInv
<1>2. QED
  BY <1>1, IInvInit, PTL DEF Spec

\* handleReleasedBuffers gives a Hal buffer back at most once, and not before
\* every node that reads or writes it has marked it as released.
THEOREM NeverReturnedEarly == Spec => []ReturnedOnceReleasedByAll
<1>1. IInv => ReturnedOnceReleasedByAll
  BY DEF IInv, OwnerInv, ReleaseInv, ReturnedOnceReleasedByAll
<1>2. QED
  BY <1>1, Inductive, PTL

\* A node that holds a buffer finds its item in the item map when it marks it, and
\* the buffer is not given back under its hands.
THEOREM HeldStaysInMap == Spec => []HeldIsInMap
<1>1. IInv => HeldIsInMap
  BY DEF IInv, TypeOK, WorkInv, OwnerInv, ReleaseInv, HeldIsInMap
<1>2. QED
  BY <1>1, Inductive, PTL

\* What a step adds to a node's buffers comes from a hand-out, which looks at the
\* users ahead; marks are only added, so what it saw stays true.
LEMMA PriorNext ==
    TypeOK /\ HeldAfterPriorUsers /\ [Next]_vars => HeldAfterPriorUsers'
<1> SUFFICES ASSUME TypeOK, HeldAfterPriorUsers, [Next]_vars
             PROVE  HeldAfterPriorUsers'
  OBVIOUS
<1>1. \A s \in Stream : released[s] \subseteq released'[s]
  BY ReleasedGrows
<1>2. held \in [Node -> SUBSET Stream]
  BY DEF TypeOK
<1>3. CASE \A n \in Node : held'[n] \subseteq held[n]
  <2>1. ASSUME NEW m \in Node, NEW r \in held'[m]
        PROVE  Users[r] \cap Prior(m) \subseteq released'[r]
    BY <1>1, <1>2, <1>3 DEF HeldAfterPriorUsers
  <2>2. QED
    BY <2>1 DEF HeldAfterPriorUsers
<1>4. ASSUME NEW n \in Node, NEW s \in Stream, HandOut(n, s)
      PROVE  HeldAfterPriorUsers'
  <2>1. CASE GotNull(n, s)
    BY <1>3, <2>1 DEF GotNull
  <2>2. CASE GotBuffer(n, s) /\ PriorUsersReleased(s, n)
    <3>1. Users[s] \cap Prior(n) \subseteq released[s]
      BY <2>2 DEF PriorUsersReleased
    <3>2. \A m \in Node :
            held'[m] = IF m = n THEN held[n] \cup {s} ELSE held[m]
      BY <1>2, <2>2 DEF GotBuffer
    <3>3. ASSUME NEW m \in Node, NEW r \in held'[m]
          PROVE  Users[r] \cap Prior(m) \subseteq released'[r]
      <4>1. CASE m = n /\ r = s
        BY <1>1, <3>1, <4>1
      <4>2. CASE ~(m = n /\ r = s)
        BY <1>1, <1>2, <3>2, <4>2 DEF HeldAfterPriorUsers
      <4>3. QED
        BY <4>1, <4>2
    <3>4. QED
      BY <3>3 DEF HeldAfterPriorUsers
  <2>3. QED
    BY <1>4, <2>1, <2>2 DEF HandOut
<1>5. ASSUME NEW n \in Node, NEW s \in Stream,
             GetBuffer(n, s) \/ AcquireBuffer(n, s)
      PROVE  HeldAfterPriorUsers'
  BY <1>4, <1>5 DEF GetBuffer, AcquireBuffer
<1>6. ASSUME NEW n \in Node, NEW s \in Stream,
             \/ AcquireFails(n, s) \/ Mark(n, s) \/ MarkNull(n, s)
             \/ Visit(n, s) \/ ReturnBuffer(n, s)
      PROVE  \A m \in Node : held'[m] \subseteq held[m]
  BY <1>2, <1>6 DEF AcquireFails, GotNull, Mark, MarkNull, Visit, ReturnBuffer, work
<1>7. ASSUME NEW n \in Node,
             \/ Start(n) \/ ApplyRelease(n) \/ SettleNode(n) \/ Drain(n)
             \/ Callback(n) \/ Notify(n) \/ \E m \in Node : Dispatch(n, m)
      PROVE  held' = held
  BY <1>7 DEF Start, ApplyRelease, SettleNode, Drain, Callback, Notify, Dispatch, work
<1>8. CASE BeginFlush \/ UNCHANGED vars
  BY <1>3, <1>8 DEF BeginFlush, vars, work
<1>9. QED
  BY <1>3, <1>5, <1>6, <1>7, <1>8 DEF Next, Step

\* While a node holds a buffer, every user of it that is ahead of the node in the
\* pipeline graph has released it.
THEOREM NoUseBeforePriorUsers == Spec => []HeldAfterPriorUsers
<1>1. Init => HeldAfterPriorUsers
  BY DEF Init, HeldAfterPriorUsers
<1>2. QED
  BY <1>1, PriorNext, TypeCorrect, PTL DEF Spec

-----------------------------------------------------------------------------
(***************************************************************************)
(* Nodes that mark what they did not get.                                  *)
(***************************************************************************)

\* What such a node has to be for it: it applies its releases once, when it is
\* through, and no node that shares a stream with it works beside it, on another
\* branch of the graph.
NullMarkersApart ==
    /\ NullMarkers \cap Staged = {}
    /\ \A n \in NullMarkers : \A m \in Node \ {n} :
        (In[n] \cup Out[n]) \cap (In[m] \cup Out[m]) # {} => m \in Prior(n) \/ n \in Prior(m)

\* A node gets the frame from the one ahead of it, which is through with it then.
OrderInv ==
    \A n \in Node :
        /\ pc[n] # "idle" => token[n] # "none"
        /\ token[n] # "none" =>
            n \in Roots \/ \E m \in Node : <<m, n>> \in Edge /\ pc[m] = "dispatch"

\* What a node will mark without a buffer is in the item map as long as it will.
NullInv ==
    /\ ~crashed
    /\ \A s \in Stream : released[s] \subseteq Users[s]
    /\ \A n \in Node : nulls[n] # {} => n \in NullMarkers /\ pc[n] = "work"
    /\ \A n \in Node : nulls[n] \subseteq slot

\* Every node ahead of one that has the frame is through with it.
LEMMA PriorThrough ==
    ASSUME OrderInv, NEW n \in Node, token[n] # "none", NEW m \in Prior(n)
    PROVE  pc[m] = "dispatch"
<1> DEFINE S == {k \in Node : k = n \/ pc[k] = "dispatch"}
<1>1. ASSUME NEW e \in Edge, e[2] \in S PROVE e[1] \in S
  <2>1. e \in Node \X Node /\ e[1] \in Node /\ e[2] \in Node /\ e = <<e[1], e[2]>>
    BY FrameAssumption
  <2>2. token[e[2]] # "none" /\ e[2] \notin Roots
    BY <1>1, <2>1 DEF OrderInv, Roots
  <2>3. PICK k \in Node : <<k, e[2]>> \in Edge /\ pc[k] = "dispatch"
    BY <2>1, <2>2 DEF OrderInv
  <2>4. k = e[1]
    <3>1. <<k, e[2]>> = e
      BY <2>3, FrameAssumption
    <3>2. QED
      BY <2>1, <3>1
  <2>5. QED
    BY <2>3, <2>4
<1>2. n \in S /\ S \in SUBSET Node
  OBVIOUS
<1>3. m \in S /\ m # n
  BY <1>1, <1>2 DEF Prior
<1>4. QED
  BY <1>3

LEMMA OrderNext == TypeOK /\ OrderInv /\ [Next]_vars => OrderInv'
<1> SUFFICES ASSUME TypeOK, OrderInv, [Next]_vars PROVE OrderInv'
  OBVIOUS
<1> USE DEF TypeOK
<1>1. CASE token' = token /\ \A n \in Node :
            /\ pc[n] = "dispatch" => pc'[n] = "dispatch"
            /\ pc'[n] # "idle" => pc[n] # "idle" \/ token[n] # "none"
  BY <1>1 DEF OrderInv
<1>2. CASE UNCHANGED <<token, pc>>
  BY <1>1, <1>2
<1>3. ASSUME NEW n \in Node,
             \/ Start(n) \/ ApplyRelease(n) \/ SettleNode(n) \/ Drain(n)
             \/ Callback(n) \/ Notify(n)
      PROVE  OrderInv'
  BY <1>1, <1>3 DEF Start, ApplyRelease, SettleNode, Drain, Callback, Notify
<1>4. ASSUME NEW n \in Node, NEW s \in Stream,
             \/ GetBuffer(n, s) \/ AcquireBuffer(n, s) \/ AcquireFails(n, s)
             \/ Mark(n, s) \/ MarkNull(n, s) \/ Visit(n, s) \/ ReturnBuffer(n, s)
      PROVE  UNCHANGED <<token, pc>>
  BY <1>4 DEF GetBuffer, AcquireBuffer, AcquireFails, Ask, Mark, MarkNull, Visit,
              ReturnBuffer
<1>5. ASSUME NEW n \in Node, NEW m \in Node, Dispatch(n, m) PROVE OrderInv'
  <2>1. <<n, m>> \in Edge /\ pc[n] = "dispatch" /\ pc' = pc
    BY <1>5 DEF Dispatch, Children
  <2>2. \A k \in Node \ {m} : token'[k] = token[k]
    BY <1>5 DEF Dispatch
  <2>3. token'[m] # "none"
    BY <1>5 DEF Dispatch
  <2>4. QED
    BY <2>1, <2>2, <2>3 DEF OrderInv
<1>6. CASE BeginFlush \/ UNCHANGED vars
  BY <1>2, <1>6 DEF BeginFlush, vars
<1>7. QED
  BY <1>2, <1>3, <1>4, <1>5, <1>6 DEF Next, Step

\* A stream one of these nodes will mark is not taken out of the map by another.
LEMMA NullVisit ==
    ASSUME NullMarkersApart, IInv, OrderInv, NullInv,
           NEW m \in Node, NEW s \in Stream, Visit(m, s)
    PROVE  \A n \in Node : nulls[n] \subseteq slot'
<1> SUFFICES ASSUME NEW n \in Node, NEW r \in nulls[n], r \notin slot' PROVE FALSE
  OBVIOUS
<1>1. r = s /\ UsersDone(m, s)
  BY DEF Visit, NullInv
<1>2. s \in In[n] \cup Out[n] /\ n \in NullMarkers /\ pc[n] = "work"
  BY <1>1 DEF IInv, WorkInv, NullInv
<1>3. s \in In[m] \cup Out[m] /\ pc[m] = "apply"
  BY <1>1 DEF UsersDone, HasReleased, NullInv, Users, Visit
<1>4. m \in Prior(n) \/ n \in Prior(m)
  BY <1>2, <1>3 DEF NullMarkersApart
<1>5. token[n] # "none" /\ token[m] # "none"
  BY <1>2, <1>3 DEF OrderInv
<1>6. QED
  BY <1>2, <1>3, <1>4, <1>5, PriorThrough

\* Only users are marked.
LEMMA UserMarks ==
    ASSUME TypeOK, NEW s \in Stream, NEW n \in Users[s],
           \A r \in Stream : released[r] \subseteq Users[r],
           released' = released \/ MarkReleased(s, n)
    PROVE  \A r \in Stream : released'[r] \subseteq Users[r]
<1>1. released \in [Stream -> SUBSET Node]
  BY DEF TypeOK
<1>2. \A r \in Stream : released'[r] = released[r] \/ (r = s /\ released'[r] = released[r] \cup {n})
  BY <1>1 DEF MarkReleased
<1>3. QED
  BY <1>2

LEMMA NullNext ==
    ASSUME NullMarkersApart, IInv, OrderInv, NullInv, [Next]_vars
    PROVE  NullInv'
<1>0. TypeOK /\ WorkInv /\ ReleaseInv
  BY DEF IInv
<1>1. ASSUME NEW n \in Node, NEW s \in Stream,
             GetBuffer(n, s) \/ AcquireBuffer(n, s) \/ AcquireFails(n, s)
      PROVE  NullInv'
  <2>1. s \in todo[n] /\ slot' = slot
    BY <1>0, <1>1, AskWork
  <2>2. n \in Users[s] /\ s \in slot
    BY <1>0, <2>1 DEF WorkInv, ReleaseInv, Users
  <2>3. /\ \/ nulls' = nulls
           \/ nulls' = [nulls EXCEPT ![n] = @ \cup {s}] /\ n \in NullMarkers
        /\ pc' = pc /\ pc[n] = "work" /\ crashed' = crashed
    BY <1>1 DEF GetBuffer, AcquireBuffer, AcquireFails, Ask, HandOut, GotBuffer, GotNull
  <2>4. released' = released \/ MarkReleased(s, n)
    BY <1>1, AskReleased
  <2>5. \A r \in Stream : released'[r] \subseteq Users[r]
    BY <1>0, <2>2, <2>4, UserMarks DEF NullInv
  <2>6. \A m \in Node : /\ nulls'[m] # {} => m \in NullMarkers /\ pc'[m] = "work"
                        /\ nulls'[m] \subseteq slot'
    BY <1>0, <2>1, <2>2, <2>3 DEF NullInv, TypeOK
  <2>7. QED
    BY <2>3, <2>5, <2>6 DEF NullInv
<1>2. ASSUME NEW n \in Node, NEW s \in Stream, Mark(n, s) \/ MarkNull(n, s)
      PROVE  NullInv'
  <2>1. s \in slot /\ n \in Users[s]
    BY <1>0, <1>2 DEF Mark, MarkNull, WorkInv, NullInv, Users
  <2>2. MarkReleased(s, n) /\ crashed' = crashed /\ pc' = pc /\ slot' = slot
    BY <1>2, <2>1 DEF Mark, MarkNull, items
  <2>3. \A m \in Node : nulls'[m] \subseteq nulls[m]
    BY <1>0, <1>2 DEF Mark, MarkNull, TypeOK
  <2>4. \A r \in Stream : released'[r] \subseteq Users[r]
    BY <1>0, <2>1, <2>2, UserMarks DEF NullInv
  <2>5. QED
    BY <2>2, <2>3, <2>4 DEF NullInv
<1>3. ASSUME NEW n \in Node, NEW s \in Stream, Visit(n, s) PROVE NullInv'
  <2>1. UNCHANGED <<crashed, released, nulls, pc>>
    BY <1>3 DEF Visit, users, work
  <2>2. \A m \in Node : nulls[m] \subseteq slot'
    BY <1>3, NullVisit
  <2>3. QED
    BY <2>1, <2>2 DEF NullInv
<1>4. ASSUME NEW n \in Node, ApplyRelease(n) PROVE NullInv'
  <2>1. nulls[n] = {}
    BY <1>4 DEF ApplyRelease, ReadyToApply, NullMarkersApart, NullInv
  <2>2. UNCHANGED <<crashed, released, nulls, slot>>
    BY <1>4 DEF ApplyRelease, users, items, work
  <2>3. \A m \in Node \ {n} : pc'[m] = pc[m]
    BY <1>0, <1>4 DEF ApplyRelease, TypeOK
  <2>4. QED
    BY <2>1, <2>2, <2>3 DEF NullInv
<1>5. ASSUME NEW n \in Node,
             \/ Start(n) \/ SettleNode(n) \/ Drain(n) \/ Callback(n) \/ Notify(n)
             \/ \E m \in Node : Dispatch(n, m)
      PROVE  NullInv'
  <2>1. UNCHANGED <<crashed, released, nulls, slot>>
    BY <1>5 DEF Start, SettleNode, Drain, Callback, Notify, Dispatch, users, items, work
  <2>2. pc[n] # "work" \/ pc' = pc
    BY <1>5 DEF Start, SettleNode, Drain, Callback, Notify, Dispatch
  <2>3. \A m \in Node \ {n} : pc'[m] = pc[m]
    BY <1>0, <1>5 DEF Start, SettleNode, Drain, Callback, Notify, Dispatch, TypeOK
  <2>4. QED
    BY <2>1, <2>2, <2>3 DEF NullInv
<1>6. ASSUME NEW n \in Node, NEW s \in Stream, ReturnBuffer(n, s) PROVE NullInv'
  BY <1>6 DEF ReturnBuffer, items, work, NullInv
<1>7. CASE BeginFlush \/ UNCHANGED vars
  BY <1>7 DEF BeginFlush, vars, users, items, work, NullInv
<1>8. QED
  BY <1>1, <1>2, <1>3, <1>4, <1>5, <1>6, <1>7 DEF Next, Step

\* markUserStatus never meets an emptied slot, if the nodes that mark a stream although
\* they got no buffer are staged nowhere and share streams only with nodes ahead of them
\* and behind them.  Where one shares a stream with a node on another branch the code
\* does meet one.
THEOREM NoEmptySlotMet ==
    ASSUME NullMarkersApart
    PROVE  Spec => []NoEmptySlotUsed
<1>1. Init => OrderInv /\ NullInv
  BY FrameAssumption DEF Init, OrderInv, NullInv
<1>2. IInv /\ OrderInv /\ NullInv /\ [Next]_vars => OrderInv' /\ NullInv'
  BY OrderNext, NullNext DEF IInv
<1>3. NullInv => NoEmptySlotUsed
  BY DEF NullInv, NoEmptySlotUsed
<1>4. QED
  BY <1>1, <1>2, <1>3, Inductive, PTL DEF Spec
=============================================================================
